----------------------------- MODULE DaemonLife -----------------------------
(***************************************************************************)
(* How test daemons come and go: the front ends of nob.c that start them,  *)
(* ask them for runs, stop them and clean up after them, the socket and    *)
(* the pid file they find each other by, the workers that build and run    *)
(* the tests, and the directory that serves them as a build lock           *)
(* (test_runner_exec.c). What one daemon does with its requests is the     *)
(* subject of TestDaemon; here a request is answered in one step.          *)
(***************************************************************************)
EXTENDS Naturals, FiniteSets

CONSTANTS
    FrontEnds,  \* the invocations of nob that may run at the same time
    Daemons,    \* the daemon processes that may be launched, each once
    None,
    Commands,   \* what a front end may be asked for
    MaxCommands,\* bound: the commands given
    MaxCrashes, \* bound: the daemons that crash
    MaxPings,   \* wait_for_test_daemon_ready: 100 in the code
    MaxWaits,   \* wait_for_test_daemon_shutdown, force_kill_test_daemon_pid
    MaxTries    \* acquire_build_lock: 300 in the code

ASSUME NoneAssumption == None \notin Daemons
ASSUME BoundsAssumption == {MaxCommands, MaxCrashes, MaxPings, MaxWaits, MaxTries} \subseteq Nat

VARIABLES
    socket,     \* the daemon that bound the socket file that is there, or None
    pidfile,    \* the daemon whose pid is in the pid file, or None
    daemon,     \* the life of each daemon
    stopping,   \* the daemons with shutting_down set
    cancelled,  \* the daemons that cancel their worker (daemon_begin_worker_cancel)
    worker,     \* the worker of each daemon
    tries,      \* how often it found the lock taken
    client,     \* the front end each worker runs for
    lock,       \* the lock directory is there
    front,      \* the front ends: [pc, cmd, tries, target, socket, pid]
    commands,   \* how many commands were given
    crashes,    \* how many daemons crashed
    intact,     \* history: the lock was not removed under a builder
    raced       \* history: front ends worked at the same files, or gave up on a daemon

daemon_vars == <<socket, pidfile, daemon, stopping, cancelled>>
worker_vars == <<worker, tries, client, lock>>
history     == <<intact, raced>>
vars == <<daemon_vars, worker_vars, front, commands, crashes, history>>

AllCommands == {"run", "start", "stop", "stop_force", "restart", "restart_force", "clean", "clean_force"}
ForcedCommands == {"stop_force", "restart_force", "clean_force"}
ASSUME CommandsAssumption == Commands \subseteq AllCommands

Idle == [pc |-> "idle", cmd |-> "none", tries |-> 0, target |-> None, socket |-> FALSE, pid |-> FALSE]

Init ==
    /\ socket = None /\ pidfile = None
    /\ daemon = [d \in Daemons |-> "unborn"]
    /\ stopping = {} /\ cancelled = {}
    /\ worker = [d \in Daemons |-> "none"]
    /\ tries = [d \in Daemons |-> 0]
    /\ client = [d \in Daemons |-> None]
    /\ lock = FALSE
    /\ front = [f \in FrontEnds |-> Idle]
    /\ commands = 0 /\ crashes = 0
    /\ intact = TRUE /\ raced = FALSE

Alive(d)     == daemon[d] \notin {"unborn", "gone"}
Serving      == {d \in Daemons : daemon[d] = "serving"}
\* A connection is answered, refused, or waits in the backlog of a daemon that
\* has not begun its loop.
Answered     == socket \in Serving
Refused      == socket \notin {d \in Daemons : daemon[d] \in {"bound", "serving"}}
\* test_daemon_client_inspect_local_status
PidAlive     == pidfile \in {d \in Daemons : Alive(d)}
\* The workers that build under the lock, and those that build the nobify tool.
Building     == {d \in Daemons : worker[d] = "building"}
Tooling      == {d \in Daemons : worker[d] = "tooling"}

-----------------------------------------------------------------------------
(* A daemon: test_daemon_main.                                             *)

\* daemon_setup_listener begins with daemon_remove_state_files.
Clear(d) ==
    /\ daemon[d] = "launched"
    /\ daemon' = [daemon EXCEPT ![d] = "cleared"]
    /\ socket' = None /\ pidfile' = None
    /\ UNCHANGED <<stopping, cancelled, worker_vars, front, commands, crashes, history>>

\* bind and listen; bind fails when the file is there again, and the daemon
\* tears down.
Bind(d) ==
    /\ daemon[d] = "cleared"
    /\ IF socket = None
       THEN socket' = d /\ daemon' = [daemon EXCEPT ![d] = "bound"]
       ELSE UNCHANGED socket /\ daemon' = [daemon EXCEPT ![d] = "closing"]
    /\ UNCHANGED <<pidfile, stopping, cancelled, worker_vars, front, commands, crashes, history>>

\* daemon_write_pid_file, daemon_register_sources and the start of the loop.
Serve(d) ==
    /\ daemon[d] = "bound"
    /\ pidfile' = d
    /\ daemon' = [daemon EXCEPT ![d] = "serving"]
    /\ UNCHANGED <<socket, stopping, cancelled, worker_vars, front, commands, crashes, history>>

\* The loop is left when the daemon is stopping and has no worker.
ExitLoop(d) ==
    /\ daemon[d] = "serving" /\ d \in stopping /\ worker[d] = "none"
    /\ daemon' = [daemon EXCEPT ![d] = "closing"]
    /\ UNCHANGED <<socket, pidfile, stopping, cancelled, worker_vars, front, commands, crashes, history>>

\* daemon_teardown removes the files, whoever they belong to.
Teardown(d) ==
    /\ daemon[d] = "closing"
    /\ daemon' = [daemon EXCEPT ![d] = "gone"]
    /\ socket' = None /\ pidfile' = None
    /\ UNCHANGED <<stopping, cancelled, worker_vars, front, commands, crashes, history>>

\* A daemon is killed; its worker goes on.
Crash(d) ==
    /\ daemon[d] \in {"cleared", "bound", "serving"} /\ crashes < MaxCrashes
    /\ daemon' = [daemon EXCEPT ![d] = "gone"]
    /\ crashes' = crashes + 1
    /\ UNCHANGED <<socket, pidfile, stopping, cancelled, worker_vars, front, commands, history>>

-----------------------------------------------------------------------------
(* A worker: run_test_module.                                              *)

WorkerEnds(d) == worker' = [worker EXCEPT ![d] = "none"] /\ client' = [client EXCEPT ![d] = None]

\* A build that goes on when the directory is there already, and one that waits
\* for it for ever.
AcquireAnyway(d) ==
    /\ worker[d] = "waiting"
    /\ lock' = TRUE /\ worker' = [worker EXCEPT ![d] = "building"]
    /\ UNCHANGED <<tries, client, daemon_vars, front, commands, crashes, history>>
AcquireForever(d) ==
    /\ worker[d] = "waiting" /\ ~lock
    /\ lock' = TRUE /\ worker' = [worker EXCEPT ![d] = "building"]
    /\ UNCHANGED <<tries, client, daemon_vars, front, commands, crashes, history>>

\* acquire_build_lock
Acquire(d) ==
    /\ worker[d] = "waiting"
    /\ IF ~lock
       THEN lock' = TRUE /\ worker' = [worker EXCEPT ![d] = "building"] /\ UNCHANGED <<tries, client>>
       ELSE IF tries[d] < MaxTries
       THEN tries' = [tries EXCEPT ![d] = @ + 1] /\ UNCHANGED <<lock, worker, client>>
       ELSE WorkerEnds(d) /\ UNCHANGED <<lock, tries>>
    /\ UNCHANGED <<daemon_vars, front, commands, crashes, history>>

\* build_incremental_test_binary ends, and release_build_lock removes the
\* directory; if the build failed nothing is run. The artifact-parity modules
\* have the nobify tool built, in the same object directory and without the lock.
Built(d) ==
    /\ worker[d] = "building"
    /\ lock' = FALSE
    /\ \/ \E next \in {"tooling", "running"} : worker' = [worker EXCEPT ![d] = next] /\ UNCHANGED client
       \/ WorkerEnds(d)
    /\ UNCHANGED <<tries, daemon_vars, front, commands, crashes, history>>

\* The nobify tool is built, or its build failed.
ToolBuilt(d) ==
    /\ worker[d] = "tooling"
    /\ \/ worker' = [worker EXCEPT ![d] = "running"] /\ UNCHANGED client
       \/ WorkerEnds(d)
    /\ UNCHANGED <<lock, tries, daemon_vars, front, commands, crashes, history>>

\* run_binary_in_workspace ends.
Ran(d) ==
    /\ worker[d] = "running"
    /\ WorkerEnds(d)
    /\ UNCHANGED <<lock, tries, daemon_vars, front, commands, crashes, history>>

\* A worker that is cancelled holds back SIGTERM and dies by the kill timer,
\* wherever it is.
Killed(d) ==
    /\ daemon[d] = "serving" /\ d \in cancelled /\ worker[d] # "none"
    /\ WorkerEnds(d)
    /\ UNCHANGED <<lock, tries, daemon_vars, front, commands, crashes, history>>

-----------------------------------------------------------------------------
(* A front end. Steps that look at the files and steps that act on what    *)
(* they saw are apart.                                                     *)

At(f, pc) == front[f].pc = pc
Goto(f, pc) == front' = [front EXCEPT ![f] = [@ EXCEPT !.pc = pc, !.tries = 0]]
Done(f) == front' = [front EXCEPT ![f] = Idle]

\* What follows when a stop, or a start, ends well.
AfterStop(f) ==
    CASE front[f].cmd \in {"clean", "clean_force"}     -> Goto(f, "clean")
      [] front[f].cmd \in {"restart", "restart_force"} -> Goto(f, "start_ping")
      [] OTHER -> Done(f)
AfterStart(f) == IF front[f].cmd = "run" THEN Goto(f, "request") ELSE Done(f)

Touching(pc) == pc \in {"inspect", "launch", "await", "unlink_socket", "unlink_pid", "clean"}

\* Two front ends are at work on the daemon's files, or one gives up on a
\* daemon that is still coming.
Race(f) ==
    raced' = (raced \/ (Touching(front'[f].pc) /\ \E g \in FrontEnds \ {f} : Touching(front[g].pc)))

FrontStep(f) == Race(f) /\ UNCHANGED <<commands, crashes>>
Quiet == UNCHANGED <<daemon_vars, worker_vars, intact>>

\* run_test_front_door and handle_test_daemon_command
Command(f) ==
    /\ At(f, "idle") /\ commands < MaxCommands
    /\ \E c \in Commands :
          front' = [front EXCEPT ![f] = [Idle EXCEPT !.cmd = c,
                        !.pc = IF c = "run" THEN "ping" ELSE IF c = "start" THEN "start_ping" ELSE "query"]]
    /\ commands' = commands + 1
    /\ UNCHANGED <<crashes, daemon_vars, worker_vars, history>>

\* ensure_test_daemon_running
Ping(f) ==
    /\ At(f, "ping")
    /\ \/ Answered /\ Goto(f, "request")
       \/ Refused /\ Goto(f, "start_ping")
    /\ FrontStep(f) /\ Quiet

\* start_test_daemon
StartPing(f) ==
    /\ At(f, "start_ping")
    /\ \/ Answered /\ AfterStart(f)
       \/ Refused /\ Goto(f, "inspect")
    /\ FrontStep(f) /\ Quiet

\* A start that does not look at the pid file.
InspectBlind(f) == At(f, "inspect") /\ Goto(f, "launch") /\ FrontStep(f) /\ Quiet

Inspect(f) ==
    /\ At(f, "inspect")
    /\ IF PidAlive THEN Done(f) ELSE Goto(f, "launch")
    /\ FrontStep(f) /\ Quiet

Launch(f) ==
    /\ At(f, "launch")
    /\ LET unborn == {d \in Daemons : daemon[d] = "unborn"}
       IN  IF unborn = {} THEN Done(f) /\ UNCHANGED daemon
           ELSE LET d == CHOOSE d \in unborn : TRUE
                IN  Goto(f, "await") /\ daemon' = [daemon EXCEPT ![d] = "launched"]
    /\ FrontStep(f)
    /\ UNCHANGED <<socket, pidfile, stopping, cancelled, worker_vars, intact>>

\* wait_for_test_daemon_ready
Await(f) ==
    /\ At(f, "await")
    /\ \/ Answered /\ AfterStart(f) /\ Race(f)
       \/ /\ Refused /\ front[f].tries < MaxPings
          /\ front' = [front EXCEPT ![f].tries = @ + 1]
          /\ UNCHANGED raced
       \/ /\ Refused /\ front[f].tries = MaxPings
          /\ Done(f)
          /\ raced' = TRUE
    /\ UNCHANGED <<commands, crashes>> /\ Quiet

\* test_daemon_client_run_request, as daemon_handle_run_request answers it.
Request(f) ==
    /\ At(f, "request")
    /\ \/ /\ Refused /\ Done(f) /\ UNCHANGED worker_vars
       \/ /\ Answered
          /\ IF worker[socket] # "none" \/ socket \in stopping
             THEN Done(f) /\ UNCHANGED worker_vars
             ELSE /\ front' = [front EXCEPT ![f] = [@ EXCEPT !.pc = "result", !.target = socket]]
                  /\ worker' = [worker EXCEPT ![socket] = "waiting"]
                  /\ tries' = [tries EXCEPT ![socket] = 0]
                  /\ client' = [client EXCEPT ![socket] = f]
                  /\ UNCHANGED lock
    /\ FrontStep(f)
    /\ UNCHANGED <<daemon_vars, intact>>

\* The result arrives, or the connection is lost.
Result(f) ==
    /\ At(f, "result")
    /\ client[front[f].target] # f \/ ~Alive(front[f].target)
    /\ Done(f)
    /\ FrontStep(f) /\ Quiet

\* stop_test_daemon
Query(f) ==
    /\ At(f, "query")
    /\ \/ Answered /\ Goto(f, "stop")
       \/ Refused /\ Goto(f, "stop_inspect")
    /\ FrontStep(f) /\ Quiet

StopInspect(f) ==
    /\ At(f, "stop_inspect")
    /\ IF PidAlive
       THEN IF front[f].cmd \in ForcedCommands
            THEN front' = [front EXCEPT ![f] = [@ EXCEPT !.pc = "terminate", !.target = pidfile]]
            ELSE Done(f)
       ELSE IF socket # None \/ pidfile # None THEN Goto(f, "cleanup") ELSE AfterStop(f)
    /\ FrontStep(f) /\ Quiet

Stop(f) ==
    /\ At(f, "stop")
    /\ \/ Refused /\ Done(f) /\ UNCHANGED <<stopping, cancelled>>
       \/ /\ Answered /\ Goto(f, "wait")
          /\ stopping' = stopping \cup {socket}
          /\ cancelled' = IF front[f].cmd \in ForcedCommands THEN cancelled \cup {socket} ELSE cancelled
    /\ FrontStep(f)
    /\ UNCHANGED <<socket, pidfile, daemon, worker_vars, intact>>

\* wait_for_test_daemon_shutdown
Wait(f) ==
    /\ At(f, "wait")
    /\ \/ Refused /\ ~PidAlive /\ Goto(f, "cleanup")
       \/ /\ Answered \/ PidAlive
          /\ IF front[f].tries < MaxWaits THEN front' = [front EXCEPT ![f].tries = @ + 1] ELSE Done(f)
    /\ FrontStep(f) /\ Quiet

\* test_daemon_client_cleanup_stale_artifacts
Cleanup(f) ==
    /\ At(f, "cleanup")
    /\ IF PidAlive THEN AfterStop(f)
       ELSE front' = [front EXCEPT ![f] = [@ EXCEPT !.pc = "unlink_socket", !.socket = socket # None, !.pid = pidfile # None]]
    /\ FrontStep(f) /\ Quiet

UnlinkSocket(f) ==
    /\ At(f, "unlink_socket")
    /\ socket' = IF front[f].socket THEN None ELSE socket
    /\ Goto(f, "unlink_pid")
    /\ FrontStep(f)
    /\ UNCHANGED <<pidfile, daemon, stopping, cancelled, worker_vars, intact>>

UnlinkPid(f) ==
    /\ At(f, "unlink_pid")
    /\ pidfile' = IF front[f].pid THEN None ELSE pidfile
    /\ AfterStop(f)
    /\ FrontStep(f)
    /\ UNCHANGED <<socket, daemon, stopping, cancelled, worker_vars, intact>>

\* force_kill_test_daemon_pid: SIGTERM, and SIGKILL when waiting was in vain.
Terminate(f) ==
    /\ At(f, "terminate")
    /\ stopping' = stopping \cup {front[f].target}
    /\ cancelled' = cancelled \cup {front[f].target}
    /\ front' = [front EXCEPT ![f] = [@ EXCEPT !.pc = "kill", !.tries = 0]]
    /\ FrontStep(f)
    /\ UNCHANGED <<socket, pidfile, daemon, worker_vars, intact>>

Kill(f) ==
    /\ At(f, "kill")
    /\ LET d == front[f].target
       IN  \/ ~Alive(d) /\ Goto(f, "cleanup") /\ UNCHANGED daemon
           \/ /\ Alive(d) /\ front[f].tries < MaxWaits
              /\ front' = [front EXCEPT ![f].tries = @ + 1] /\ UNCHANGED daemon
           \/ /\ Alive(d) /\ front[f].tries = MaxWaits
              /\ daemon' = [daemon EXCEPT ![d] = "gone"]
              /\ Goto(f, "cleanup")
    /\ FrontStep(f)
    /\ UNCHANGED <<socket, pidfile, stopping, cancelled, worker_vars, intact>>

\* TEST_RUNNER_ACTION_CLEAN: the tree that is removed has the locks in it.
Clean(f) ==
    /\ At(f, "clean")
    /\ IF socket # None \/ pidfile # None THEN UNCHANGED <<lock, intact>>
       ELSE lock' = FALSE /\ intact' = (intact /\ Building = {})
    /\ Done(f)
    /\ FrontStep(f)
    /\ UNCHANGED <<daemon_vars, worker, tries, client>>

-----------------------------------------------------------------------------

DaemonNext(d) == Clear(d) \/ Bind(d) \/ Serve(d) \/ ExitLoop(d) \/ Teardown(d)
WorkerNext(d) == Acquire(d) \/ Built(d) \/ ToolBuilt(d) \/ Ran(d)
FrontNext(f) ==
    \/ Ping(f) \/ StartPing(f) \/ Inspect(f) \/ Launch(f) \/ Await(f) \/ Request(f) \/ Result(f)
    \/ Query(f) \/ StopInspect(f) \/ Stop(f) \/ Wait(f) \/ Cleanup(f) \/ UnlinkSocket(f) \/ UnlinkPid(f)
    \/ Terminate(f) \/ Kill(f) \/ Clean(f)

Next ==
    \/ \E d \in Daemons : DaemonNext(d) \/ WorkerNext(d) \/ Crash(d) \/ Killed(d)
    \/ \E f \in FrontEnds : Command(f) \/ FrontNext(f)

\* The operating system runs every process that can go on, and the programs a
\* worker starts come to their end; nobody has to give a command or to crash.
Fairness ==
    /\ \A d \in Daemons : WF_vars(DaemonNext(d)) /\ WF_vars(WorkerNext(d))
    /\ \A f \in FrontEnds : WF_vars(FrontNext(f))

Spec == Init /\ [][Next]_vars /\ Fairness

-----------------------------------------------------------------------------

Pcs == {"idle", "ping", "start_ping", "inspect", "launch", "await", "request", "result", "query", "stop_inspect", "stop",
        "wait", "cleanup", "unlink_socket", "unlink_pid", "terminate", "kill", "clean"}

\* A type invariant; a daemon cancels its worker only when it is stopping.
TypeOK ==
    /\ socket \in Daemons \cup {None} /\ pidfile \in Daemons \cup {None}
    /\ daemon \in [Daemons -> {"unborn", "launched", "cleared", "bound", "serving", "closing", "gone"}]
    /\ stopping \subseteq Daemons /\ cancelled \subseteq stopping
    /\ worker \in [Daemons -> {"none", "waiting", "building", "tooling", "running"}]
    /\ tries \in [Daemons -> Nat]
    /\ client \in [Daemons -> FrontEnds \cup {None}]
    /\ lock \in BOOLEAN
    /\ front \in [FrontEnds -> [pc : Pcs, cmd : AllCommands \cup {"none"}, tries : Nat, target : Daemons \cup {None},
                                socket : BOOLEAN, pid : BOOLEAN]]
    /\ commands \in Nat /\ crashes \in Nat
    /\ intact \in BOOLEAN /\ raced \in BOOLEAN

\* The build lock keeps its promise whatever daemons come and go, workers
\* are killed and front ends give up: the builds of a profile's test binaries
\* take turns until `test clean` removes the lock under one of them (a directory
\* made by mkdir, which a worker that dies leaves behind). The build of the
\* nobify tool (run_binary_in_workspace) is outside the lock: it comes after the
\* turn of its worker, and may overlap the turns of others.
LockTurns == INSTANCE BuildTurns WITH Builders <- Daemons, inside <- Building, beside <- Tooling, intact <- intact
BuildsTakeTurns == LockTurns!Turns

\* As long as no two front ends work at the daemon's files at once and none
\* gives up on a daemon that is still coming, there is one daemon, and its
\* socket and pid file are there while it serves: a crash or a stop at any
\* point is recovered from.
OneDaemon ==
    ~raced => /\ \A d, e \in Daemons : Alive(d) /\ Alive(e) => d = e
              /\ \A d \in Serving : socket = d /\ pidfile = d

\* Every command of a front end comes to its end, though it may wait for a
\* daemon, that for a worker, that for a lock nobody will ever release, and
\* any of them may crash.
FrontEndsEnd == \A f \in FrontEnds : front[f].pc # "idle" ~> front[f].pc = "idle"

=============================================================================
