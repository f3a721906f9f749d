----------------------------- MODULE TestDaemon -----------------------------
(***************************************************************************)
(* The reactor of nob_testd (src_v2/build/test_daemon_runtime.c): one      *)
(* single-threaded event loop that supervises at most one forked worker,   *)
(* serves one foreground run or one watch session, and drains on `stop`.   *)
(*                                                                         *)
(* srv is the Test_Daemon_Server record.  A function of the C file that    *)
(* changes it is an operator from a server record to the server record, or *)
(* to the SET of server records it may leave; an event handler, which the  *)
(* loop runs to its end before it looks at the next event, is an action.   *)
(* Around it run the worker process, the programs the worker starts, the   *)
(* peer of current_client_fd and a user who saves files.                   *)
(***************************************************************************)
EXTENDS Naturals

CONSTANTS
  Modules,         \* the test modules of the registry
  Rank,            \* Rank[m]: position of m in the registry
  AutoEligible,    \* modules with watch_auto_eligible
  Paths,           \* files inside the watched directories
  Route,           \* Route[p]: modules that have a watch root above p
  NoJob,           \* worker_pid <= 0
  ExitAfterRerun,  \* NOB_TEST_WATCH_EXIT_AFTER_RERUN=1
  MaxSaves,        \* bound: file events the user causes in a behaviour
  Faults           \* which of "client", "resource", "bulk" may happen

ASSUME DaemonAssumption ==
  /\ Rank \in [Modules -> Nat]
  /\ AutoEligible \subseteq Modules
  /\ Route \in [Paths -> SUBSET Modules]
  /\ NoJob \notin Modules
  /\ ExitAfterRerun \in BOOLEAN
  /\ MaxSaves \in Nat
  /\ Faults \subseteq {"client", "resource", "bulk"}
  /\ "lost" \notin Paths

VARIABLES
  daemon,  \* "running" until the loop has exited and daemon_teardown has run
  srv,     \* the Test_Daemon_Server record
  proc,    \* the worker process: "none", "running" or "zombie"
  child,   \* the program a worker started: "none", "piped" or "logged"
  dirty,   \* history: modules whose last saved change no run covers
  saves    \* file events so far

vars == <<daemon, srv, proc, child, dirty, saves>>

Pipes == {"stdout", "stderr"}

NoSession == [mode |-> "none", targets |-> {}, verbose |-> FALSE]

\* A watch request names one module, or "auto" for every eligible one.
Sessions ==
  {[mode |-> "module", targets |-> {m}, verbose |-> v] :
      m \in Modules, v \in BOOLEAN}
  \cup {[mode |-> "auto", targets |-> AutoEligible, verbose |-> v] :
          v \in BOOLEAN}

\* Test_Daemon_Watch_Session; it is active when session is not NoSession.
Watch ==
  [session  : Sessions \cup {NoSession},
   rerun    : BOOLEAN,                          \* rerun_pending
   stale    : BOOLEAN,                          \* cancel_requested
   rescan   : BOOLEAN,
   closing  : BOOLEAN,
   baseline : BOOLEAN,
   debounce : BOOLEAN,                          \* debounce_source is armed
   inq      : SUBSET (Paths \cup {"lost"}),     \* unread inotify events
   changed  : SUBSET Paths,
   batch    : SUBSET Modules]                   \* batch_modules from batch_index on

NoWatch ==
  [session |-> NoSession, rerun |-> FALSE, stale |-> FALSE, rescan |-> FALSE,
   closing |-> FALSE, baseline |-> FALSE, debounce |-> FALSE, inq |-> {},
   changed |-> {}, batch |-> {}]

Server ==
  [stop     : {"no", "drain", "force"},         \* shutting_down, force_stop_requested
   state    : {"idle", "busy", "watching"},
   client   : {"none", "attached", "gone"},     \* current_client_fd and its peer
   job      : Modules \cup {NoJob},             \* worker_pid, current_worker_request
   reaped   : BOOLEAN,                          \* worker_exited
   pipes    : SUBSET Pipes,                     \* not yet *_closed
   cancel   : BOOLEAN,                          \* worker_cancel_requested
   timer    : {"off", "armed", "fired"},        \* kill_timer_source
   buffered : {"none", "some", "big"},          \* "big": above the packet limit
   watch    : Watch]

InitServer ==
  [stop |-> "no", state |-> "idle", client |-> "none", job |-> NoJob,
   reaped |-> FALSE, pipes |-> {}, cancel |-> FALSE, timer |-> "off",
   buffered |-> "none", watch |-> NoWatch]

-----------------------------------------------------------------------------
(* The functions of the reactor, from a server record to server records.   *)

Watching(s) == s.watch.session # NoSession

Compact(s) == Watching(s) /\ ~s.watch.session.verbose

EffectiveState(s) ==
  IF s.stop # "no"
  THEN IF s.job # NoJob \/ Watching(s) THEN "draining" ELSE "stopping"
  ELSE IF Watching(s) THEN "watching"
  ELSE IF s.job # NoJob THEN "busy"
  ELSE s.state

\* Sending to a watch client whose peer is gone detaches it.
SendText(s) == [s EXCEPT !.client = IF @ = "gone" THEN "none" ELSE @]

ResetSession(s) ==
  [s EXCEPT !.watch = NoWatch, !.buffered = "none",
            !.client = IF s.job = NoJob THEN "none" ELSE @,
            !.state = IF s.job = NoJob THEN "idle" ELSE @]

\* Mutant: the kill timer is not armed.
MutNoKillTimer(s, markWatchCancel, closingSession) ==
  IF s.job = NoJob THEN s
  ELSE [s EXCEPT !.watch.closing = @ \/ closingSession,
                 !.watch.stale = @ \/ markWatchCancel,
                 !.cancel = TRUE]

\* SIGTERM is blocked in the worker, which inherits the mask installed by
\* daemon_register_sources, so only the kill timer armed here ends it.
BeginWorkerCancel(s, markWatchCancel, closingSession) ==
  IF s.job = NoJob THEN s
  ELSE [s EXCEPT !.watch.closing = @ \/ closingSession,
                 !.watch.stale = @ \/ markWatchCancel,
                 !.cancel = TRUE,
                 !.timer = "armed"]

\* Mutant: the kill timer outlives the worker.
MutKeepTimer(s, closeClient) ==
  [s EXCEPT !.client = IF closeClient THEN "none" ELSE @,
            !.buffered = "none", !.job = NoJob, !.reaped = FALSE,
            !.pipes = {}, !.cancel = FALSE,
            !.stop = IF @ = "force" THEN "drain" ELSE @,
            !.state = IF Watching(s) THEN "watching" ELSE "idle"]

ResetWorker(s, closeClient) ==
  [s EXCEPT !.client = IF closeClient THEN "none" ELSE @,
            !.buffered = "none", !.job = NoJob, !.reaped = FALSE,
            !.pipes = {}, !.cancel = FALSE, !.timer = "off",
            !.stop = IF @ = "force" THEN "drain" ELSE @,
            !.state = IF Watching(s) THEN "watching" ELSE "idle"]

\* daemon_spawn_worker when it succeeds.
SpawnWorker(s, m) ==
  [s EXCEPT !.job = m, !.reaped = FALSE, !.pipes = Pipes, !.state = "busy"]

\* daemon_spawn_worker when pipe, fork or pidfd_open fails, or, once the flags
\* of the pipes are set, sd_event_add_io: they stay set in a server without a
\* worker.  A worker killed here is taken to have started no program yet.
SpawnFailed(s) ==
  {[s EXCEPT !.pipes = p, !.state = IF Watching(s) THEN "watching" ELSE "idle"] :
      p \in {s.pipes, Pipes}}

\* Next module of the batch, which no caller leaves empty; a failed preflight
\* or spawn gives the batch up and keeps the session.
StartNextModule(s) ==
  {SendText(SpawnWorker([s EXCEPT !.watch.batch = @ \ {m}], m)) :
      m \in {x \in s.watch.batch : \A y \in s.watch.batch : Rank[x] <= Rank[y]}}
  \cup IF "resource" \in Faults
       THEN {SendText([f EXCEPT !.watch.batch = {}, !.watch.baseline = FALSE]) : f \in SpawnFailed(s)}
       ELSE {}

Pending(s) == s.watch.rerun \/ s.watch.changed # {} \/ s.watch.rescan

RoutedModules(s) ==
  {m \in s.watch.session.targets : s.watch.rescan \/ \E p \in s.watch.changed : m \in Route[p]}

\* A rescan first re-registers the roots on a new inotify descriptor; when
\* that fails the caller ends the session.
HandlePendingBatch(s) ==
  LET t == [s EXCEPT !.watch.rerun = FALSE, !.watch.changed = {}, !.watch.rescan = FALSE,
                     !.watch.inq = IF s.watch.rescan THEN {} ELSE @]
  IN (IF s.watch.rescan /\ "resource" \in Faults THEN {ResetSession(s)} ELSE {})
     \cup IF RoutedModules(s) = {} THEN {SendText(t)}
          ELSE StartNextModule([t EXCEPT !.watch.batch = RoutedModules(s),
                                         !.watch.baseline = FALSE])

\* Mutant: the changes that cancelled the run wait for the next event.
MutForgetPending(s) ==
  LET t == ResetWorker([SendText(s) EXCEPT !.watch.stale = FALSE], s.watch.closing)
  IN IF s.watch.closing THEN {ResetSession(t)} ELSE {t}

FinishCancelled(s) ==
  LET t == ResetWorker([SendText(s) EXCEPT !.watch.stale = FALSE], s.watch.closing)
  IN IF s.watch.closing THEN {ResetSession(t)}
     ELSE IF Pending(t) THEN HandlePendingBatch(t)
     ELSE {t}

\* The buffered output of a failed run goes to the client in one packet.
FlushFails(s, ok) ==
  /\ Compact(s) /\ ~ok
  /\ s.client # "none" /\ s.buffered # "none"
  /\ s.client = "gone" \/ s.buffered = "big"

\* The summary line of a foreground run needs its client.
SummaryFails(s) == ~Watching(s) /\ s.client # "attached"

FinishReported(s, ok) ==
  IF FlushFails(s, ok) THEN {ResetSession([s EXCEPT !.client = "none"])}
  ELSE IF SummaryFails(s)
  THEN {[s EXCEPT !.client = "none", !.buffered = "none"]}
  ELSE LET t == ResetWorker(SendText(s), ~Watching(s))
       IN IF ~Watching(s) THEN {t}
          ELSE IF t.watch.closing THEN {ResetSession(t)}
          ELSE IF t.watch.batch # {} THEN StartNextModule(t)
          ELSE IF Pending(t) THEN HandlePendingBatch(t)
          ELSE IF ExitAfterRerun /\ ~t.watch.baseline THEN {ResetSession(t)}
          ELSE {t}

\* Mutants: the end of the run is taken for granted once the pipes are closed,
\* or once the worker is reaped.
MutIgnoreExit(s) ==
  IF s.pipes # {} THEN {s}
  ELSE IF Watching(s) /\ s.watch.stale THEN FinishCancelled(s)
  ELSE UNION {FinishReported(s, ok) : ok \in BOOLEAN}

MutIgnorePipes(s) ==
  IF ~s.reaped THEN {s}
  ELSE IF Watching(s) /\ s.watch.stale THEN FinishCancelled(s)
  ELSE UNION {FinishReported(s, ok) : ok \in BOOLEAN}

FinishActiveRun(s) ==
  IF ~s.reaped \/ s.pipes # {} THEN {s}
  ELSE IF Watching(s) /\ s.watch.stale THEN FinishCancelled(s)
  ELSE UNION {FinishReported(s, ok) : ok \in BOOLEAN}

-----------------------------------------------------------------------------
(* Leaving a handler.                                                      *)

\* A worker has just been started.
Spawned(t) ==
  /\ t.job # NoJob /\ t.pipes = Pipes
  /\ srv.job = NoJob \/ srv.pipes # Pipes

\* The run in progress has just become stale: its result will not be reported.
Cancelled(t) == t.watch.stale /\ ~srv.watch.stale

\* The handler returns to the loop with server record t; base is the worker
\* process before a spawn.  What a predecessor of a new worker left running
\* holds nothing of the daemon, and is not followed further.
Return(t, base) ==
  /\ srv' = t
  /\ proc' = IF Spawned(t) THEN "running" ELSE base
  /\ child' = IF Spawned(t) THEN "none" ELSE child
  /\ dirty' = IF ~Watching(t) THEN {}
              ELSE IF Spawned(t) THEN dirty \ {t.job}
              ELSE IF Cancelled(t) THEN dirty \cup {t.job}
              ELSE dirty
  /\ UNCHANGED <<daemon, saves>>

\* sd_event_exit: the loop dispatches nothing more, and daemon_teardown kills
\* and reaps the worker that is left, if any.
Exit(t) ==
  /\ daemon' = "exited"
  /\ srv' = ResetSession(ResetWorker(t, TRUE))
  /\ proc' = "none"
  /\ dirty' = {}
  /\ UNCHANGED <<child, saves>>

Drained(t) == t.stop # "no" /\ t.job = NoJob /\ ~Watching(t)

ReturnFromFinish(s, base) ==
  \E t \in FinishActiveRun(s) :
    IF Drained(t) THEN Exit(t) ELSE Return(t, base)

-----------------------------------------------------------------------------
(* Requests and signals.                                                   *)

Running == daemon = "running"

Faulty(f) == f \in Faults

\* A run is admitted by an idle daemon only.  When the ACK cannot be sent the
\* handler forgets to clear current_client_fd, which then dangles.
RunRequest(m) ==
  /\ Running
  /\ EffectiveState(srv) = "idle"
  /\ \/ Return(SpawnWorker([srv EXCEPT !.client = "attached"], m), proc)
     \/ /\ Faulty("client")
        /\ Return([srv EXCEPT !.client = "gone"], proc)
     \/ /\ Faulty("resource")
        /\ \E f \in SpawnFailed(srv) : Return([f EXCEPT !.client = "none"], proc)

\* The session that a watch request opens; r: a root disappeared while it was
\* registered, which asks for a rescan.
OpenSession(s, w, c, r) ==
  [s EXCEPT !.state = "watching", !.client = c,
            !.watch = [@ EXCEPT !.session = w, !.rescan = r,
                         !.batch = IF w.mode = "module" THEN w.targets ELSE {},
                         !.baseline = (w.mode = "module")]]

\* A module session starts with a baseline run of its module; an auto session
\* waits for the first change.  A lost ACK detaches the client.
WatchRequest(w) ==
  /\ Running
  /\ EffectiveState(srv) = "idle"
  /\ \/ \E c \in {"attached", "none"}, r \in BOOLEAN :
          /\ c = "none" => Faulty("client")
          /\ LET s == OpenSession(srv, w, c, r)
             IN \E t \in (IF w.mode = "module" THEN StartNextModule(s) ELSE {s}) :
                  Return(t, proc)
     \/ /\ Faulty("resource")
        /\ Return(ResetSession(srv), proc)

\* Mutant: an active session is not marked.
MutStopKeepsSession(s, how) == [s EXCEPT !.stop = how]

BeginStop(s, how) == [s EXCEPT !.stop = how, !.watch.closing = Watching(s)]

\* A reply that cannot be sent makes the handler return before sd_event_exit.
Stop ==
  /\ Running
  /\ srv.stop = "no"
  /\ LET s == BeginStop(srv, "drain")
     IN \/ srv.job # NoJob /\ Return(s, proc)
        \/ srv.job = NoJob /\ Exit(s)
        \/ Faulty("client") /\ Return(s, proc)

StopForce ==
  /\ Running
  /\ srv.stop # "force"
  /\ LET s == BeginStop(srv, "force")
     IN IF srv.job # NoJob
        THEN Return(BeginWorkerCancel(s, Watching(s), Watching(s)), proc)
        ELSE LET t == IF Watching(s) THEN ResetSession(s) ELSE s
             IN Exit(t) \/ (Faulty("client") /\ Return(t, proc))

\* SIGINT or SIGTERM to the daemon itself.
OnSignal ==
  /\ Running
  /\ LET s == BeginStop(srv, "drain")
     IN IF srv.job = NoJob THEN Exit(s)
        ELSE Return(BeginWorkerCancel(s, Watching(s), Watching(s)), proc)

-----------------------------------------------------------------------------
(* The watch session.                                                      *)

\* The user saves file p; the kernel queues an event for it.
Save(p) ==
  /\ Running
  /\ Watching(srv)
  /\ saves < MaxSaves
  /\ saves' = saves + 1
  /\ srv' = [srv EXCEPT !.watch.inq = @ \cup {p}]
  /\ dirty' = dirty \cup (Route[p] \cap srv.watch.session.targets)
  /\ UNCHANGED <<daemon, proc, child>>

\* The queue overflows, or a watched directory disappears.
LoseEvents ==
  /\ Running
  /\ Watching(srv)
  /\ saves < MaxSaves
  /\ saves' = saves + 1
  /\ srv' = [srv EXCEPT !.watch.inq = {"lost"}]
  /\ UNCHANGED <<daemon, proc, child, dirty>>

\* Mutant: events of unknown directories are skipped.
MutSkipUnknown ==
  /\ Running
  /\ srv.watch.inq # {}
  /\ Return([srv EXCEPT !.watch.inq = {},
                        !.watch.changed = @ \cup (srv.watch.inq \cap Paths),
                        !.watch.debounce = TRUE], proc)

\* Every event that is read sets `changed' (a path, new or not) or
\* rescan_required, and either arms the timer.
OnWatchInotify ==
  /\ Running
  /\ srv.watch.inq # {}
  /\ Return([srv EXCEPT !.watch.inq = {},
                        !.watch.changed = @ \cup (srv.watch.inq \cap Paths),
                        !.watch.rescan = @ \/ "lost" \in srv.watch.inq,
                        !.watch.debounce = TRUE], proc)

\* Changes that arrive during a run cancel it, whatever module they concern.
OnWatchDebounce ==
  /\ Running
  /\ srv.watch.debounce
  /\ LET s == [srv EXCEPT !.watch.debounce = FALSE]
     IN IF s.watch.changed = {} /\ ~s.watch.rescan THEN Return(s, proc)
        ELSE IF s.job # NoJob
        THEN Return(BeginWorkerCancel(
                      [(IF s.watch.stale THEN s ELSE SendText(s)) EXCEPT !.watch.rerun = TRUE],
                      TRUE, FALSE), proc)
        ELSE \E t \in HandlePendingBatch(s) : Return(t, proc)

OnWatchClient ==
  /\ Running
  /\ Watching(srv)
  /\ srv.client = "gone"
  /\ Return([srv EXCEPT !.client = "none"], proc)

\* The process behind current_client_fd goes away.
PeerCloses ==
  /\ Running
  /\ Faulty("client")
  /\ srv.client = "attached"
  /\ Return([srv EXCEPT !.client = "gone"], proc)

-----------------------------------------------------------------------------
(* The worker.                                                             *)

\* A compact watch keeps the output; otherwise it goes to the client, and a
\* client that is gone is closed.
OnWorkerOutput ==
  /\ Running
  /\ srv.pipes # {}
  /\ proc = "running" \/ child = "piped"
  /\ IF Compact(srv)
     THEN \E b \in {"some"} \cup (IF Faulty("bulk") THEN {"big"} ELSE {}) :
            /\ srv.buffered # "big"
            /\ Return([srv EXCEPT !.buffered = b], proc)
     ELSE Return(SendText(srv), proc)

\* The worker starts compilers or a test binary, and waits for them.  They
\* inherit its pipes, except the test binary of a run that is not verbose,
\* whose output goes to log files.
ChildStart(how) ==
  /\ Running
  /\ proc = "running" /\ child = "none"
  /\ how = "logged" => ~(Watching(srv) /\ srv.watch.session.verbose)
  /\ child' = how
  /\ UNCHANGED <<daemon, srv, proc, dirty, saves>>

ChildEnd ==
  /\ child # "none"
  /\ child' = "none"
  /\ UNCHANGED <<daemon, srv, proc, dirty, saves>>

WorkerExit ==
  /\ proc = "running"
  /\ child = "none"
  /\ proc' = "zombie"
  /\ UNCHANGED <<daemon, srv, child, dirty, saves>>

\* SIGKILL reaches the worker alone, not its descendants.
OnKillTimer ==
  /\ Running
  /\ srv.timer = "armed"
  /\ Return([srv EXCEPT !.timer = "fired"],
            IF proc = "running" THEN "zombie" ELSE proc)

\* Mutant: reaping the worker last does not end the run.
MutReapOnly ==
  /\ Running
  /\ proc = "zombie"
  /\ Return([srv EXCEPT !.reaped = TRUE], "none")

\* The pidfd becomes readable when the worker has ended; it is reaped.
OnWorkerPidfd ==
  /\ Running
  /\ proc = "zombie"
  /\ ReturnFromFinish([srv EXCEPT !.reaped = TRUE], "none")

\* End of file on a pipe: nobody holds its write end any more.
OnWorkerPipe(p) ==
  /\ Running
  /\ srv.job # NoJob /\ p \in srv.pipes
  /\ proc # "running" /\ child # "piped"
  /\ ReturnFromFinish([srv EXCEPT !.pipes = @ \ {p}], proc)

-----------------------------------------------------------------------------
Init ==
  /\ daemon = "running"
  /\ srv = InitServer
  /\ proc = "none"
  /\ child = "none"
  /\ dirty = {}
  /\ saves = 0

Request ==
  \/ \E m \in Modules : RunRequest(m)
  \/ \E w \in Sessions : WatchRequest(w)
  \/ Stop
  \/ StopForce
  \/ OnSignal

Environment ==
  \/ \E p \in Paths : Save(p)
  \/ LoseEvents
  \/ PeerCloses
  \/ \E how \in {"piped", "logged"} : ChildStart(how)
  \/ ChildEnd
  \/ WorkerExit

Handler ==
  \/ OnWatchInotify
  \/ OnWatchDebounce
  \/ OnWatchClient
  \/ OnWorkerOutput
  \/ OnKillTimer
  \/ OnWorkerPidfd
  \/ \E p \in Pipes : OnWorkerPipe(p)

Next == Request \/ Environment \/ Handler

Spec == Init /\ [][Next]_vars

\* sd-event dispatches pending sources of equal priority in the order in which
\* they became pending, so a ready handler is not passed over for ever.
LoopFairness ==
  /\ WF_vars(OnWatchInotify)
  /\ WF_vars(OnWatchDebounce)
  /\ WF_vars(OnWatchClient)
  /\ WF_vars(OnKillTimer)
  /\ WF_vars(OnWorkerPidfd)
  /\ \A p \in Pipes : WF_vars(OnWorkerPipe(p))

\* A worker that is not stuck comes to its end, and so does what it started.
ChildFairness == WF_vars(ChildEnd)

WorkerFairness == SF_vars(WorkerExit)

FairSpec == Spec /\ LoopFairness /\ ChildFairness /\ WorkerFairness

\* The worker may be stuck for ever; the programs it started may not.
StuckWorkerSpec == Spec /\ LoopFairness /\ ChildFairness

-----------------------------------------------------------------------------
(* Properties.                                                             *)

TypeOK ==
  /\ daemon \in {"running", "exited"}
  /\ srv \in Server
  /\ proc \in {"none", "running", "zombie"}
  /\ child \in {"none", "piped", "logged"}
  /\ dirty \subseteq Modules
  /\ saves \in 0 .. MaxSaves

\* A worker process that has not been reaped is always the one worker_pid
\* names, and worker_exited is set exactly when it is gone: no handler forgets
\* a live worker, and none is left behind by daemon_teardown.
WorkerSupervised ==
  /\ proc # "none" <=> srv.job # NoJob /\ ~srv.reaped
  /\ daemon = "exited" => srv.job = NoJob

\* While a session is active the only worker is one of its own batch, and what
\* is left of the batch are modules the session watches: no run outlives its
\* session into the next one (daemon_watch_reset_session, admission).
RunBelongsToSession ==
  Watching(srv) =>
    /\ srv.job # NoJob => srv.job \in srv.watch.session.targets
    /\ srv.watch.batch \subseteq srv.watch.session.targets

\* A worker asked to stop is under the threat of SIGKILL until it has ended:
\* daemon_begin_worker_cancel's timer is never dropped before
\* daemon_reset_worker_state, whatever handlers run in between.
CancelEscalates ==
  srv.cancel => srv.timer = "armed" \/ proc # "running"

\* Once shutdown has begun an active session is marked for closing, which is
\* what makes the end of its run (daemon_finish_active_run) stop the loop.
DrainClosesSession ==
  srv.stop # "no" /\ Watching(srv) => srv.watch.closing

\* The daemon admits a request only when nothing of an earlier request is left:
\* no session state, no armed timer, no buffered output.  Of the pipes there is
\* at most the pair of flags that a failed daemon_spawn_worker set, never one
\* of a pair: the next worker sets both again, and nothing reads them before.
IdleIsClean ==
  EffectiveState(srv) = "idle" =>
    /\ [srv EXCEPT !.client = "none", !.pipes = {}] = InitServer
    /\ srv.pipes \in {{}, Pipes}

\* daemon_spawn_worker never starts a worker while the one before it, or a
\* program of that one that holds its pipes, still runs: the compilers of two
\* runs never write the build tree at once.  Nothing is said of a test binary
\* that writes to log files: it may outlive a worker that is killed.
RunsDoNotOverlap ==
  [][Spawned(srv') => proc # "running" /\ child # "piped"]_vars

\* After shutdown has been requested no further worker is started.
NoRunAfterStop ==
  [][srv.stop # "no" => ~Spawned(srv')]_vars

\* `stop`, `stop --force`, SIGINT and SIGTERM bring the daemon to its end,
\* whatever it was doing, when workers come to their end (daemon_handle_control).
StopExits == WorkerFairness => (srv.stop # "no" ~> daemon = "exited")

\* Forced shutdown does not depend on the worker's good will.
ForcedStopExits == srv.stop # "no" /\ srv.cancel ~> daemon = "exited"

\* The run of an admitted request comes to its end and frees the daemon,
\* when workers come to their end.
RunFinishes ==
  WorkerFairness => \A m \in Modules : srv.job = m ~> srv.job = NoJob \/ srv.watch.stale

\* The modules that the events read or queued so far will start.
Scheduled ==
  (IF srv.job # NoJob /\ ~srv.watch.stale THEN srv.watch.batch ELSE {})
  \cup (IF srv.watch.rescan \/ "lost" \in srv.watch.inq THEN srv.watch.session.targets ELSE {})
  \cup UNION {Route[p] : p \in srv.watch.changed \cup (srv.watch.inq \cap Paths)}

\* A module whose last saved change has not been tested is still due to run:
\* neither the cancellation of a stale run nor the batch that replaces an
\* older one forgets it, as long as the session is not being closed.
SavesAreScheduled ==
  Watching(srv) /\ ~srv.watch.closing => dirty \subseteq Scheduled

\* Every save in a session leads to a run of the modules it concerns.
SavesAreTested == \A m \in Modules : m \in dirty ~> m \notin dirty
=============================================================================
