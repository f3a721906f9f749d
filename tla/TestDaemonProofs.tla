------------------------- MODULE TestDaemonProofs -------------------------
(***************************************************************************)
(* What holds of the daemon's reactor for every set of modules and files.  *)
(* The argument is carried by Sound, a predicate on server records: the    *)
(* functions of the reactor preserve it, so every handler does.            *)
(***************************************************************************)
EXTENDS TestDaemon, TLAPS

\* Without a worker nothing of a worker is left, but for the flags of the pipes
\* that a failed spawn has set.
JobClean(s) ==
  s.job = NoJob => /\ s.reaped = FALSE /\ s.pipes \in {{}, Pipes} /\ s.cancel = FALSE
                   /\ s.timer = "off" /\ s.buffered = "none"

\* Without a session nothing of a session is left.
SessionClean(s) ==
  ~Watching(s) => /\ s.watch = NoWatch
                  /\ s.job = NoJob => s.state = "idle"

\* A session that shutdown found active is marked for closing.
ClosingMarked(s) == s.stop # "no" /\ Watching(s) => s.watch.closing = TRUE

\* Runs and batches are those of the session.
OwnRuns(s) ==
  Watching(s) => /\ s.job # NoJob => s.job \in s.watch.session.targets
                 /\ s.watch.batch \subseteq s.watch.session.targets

\* Only a run can be stale.
StaleRun(s) == s.watch.stale = TRUE => s.job # NoJob

Sound(s) ==
  /\ s \in Server
  /\ JobClean(s)
  /\ SessionClean(s)
  /\ ClosingMarked(s)
  /\ OwnRuns(s)
  /\ StaleRun(s)

\* t has the worker of s.
SameWorker(t, s) ==
  /\ t.job = s.job /\ t.reaped = s.reaped /\ t.pipes = s.pipes
  /\ t.cancel = s.cancel /\ t.timer = s.timer

\* t has a worker that has just been started.
Fresh(t) ==
  /\ t.job \in Modules /\ t.reaped = FALSE /\ t.pipes = Pipes
  /\ t.cancel = FALSE /\ t.timer = "off"

USE DEF Sound, JobClean, SessionClean, ClosingMarked, OwnRuns, StaleRun, Watching

\* No watch session: no stale one either.
LEMMA NoWatchType ==
  NoWatch \in Watch /\ NoWatch.session = NoSession /\ NoWatch.stale = FALSE
  BY DEF NoWatch, Watch

\* A session watches modules.
LEMMA TargetsType == \A w \in Sessions : w.targets \subseteq Modules /\ w # NoSession
  BY DaemonAssumption DEF Sessions, NoSession

\* The server starts sound.
LEMMA InitSound == Sound(InitServer)
  BY NoWatchType DEF InitServer, Server, Pipes

\* A text sent to the client changes at most the client.
LEMMA SendTextSound ==
  ASSUME NEW s, Sound(s)
  PROVE  /\ Sound(SendText(s)) /\ SameWorker(SendText(s), s)
         /\ SendText(s).watch = s.watch
  BY DEF SendText, Server, SameWorker

\* The end of a watch session.
LEMMA ResetSessionSound ==
  ASSUME NEW s, s \in Server, JobClean(s)
  PROVE  Sound(ResetSession(s))
  BY NoWatchType DEF ResetSession, Server

\* A worker is forgotten.
LEMMA ResetWorkerSound ==
  ASSUME NEW s, NEW b \in BOOLEAN, Sound(s), s.watch.stale = FALSE
  PROVE  Sound(ResetWorker(s, b)) /\ ResetWorker(s, b).job = NoJob
         /\ ResetWorker(s, b).pipes = {} /\ ResetWorker(s, b).watch = s.watch
<1> DEFINE t == ResetWorker(s, b)
<1>1. t \in Server
  BY ZenonT(40) DEF ResetWorker, Server
<1>2. /\ t.job = NoJob /\ t.reaped = FALSE /\ t.pipes = {} /\ t.cancel = FALSE
      /\ t.timer = "off" /\ t.buffered = "none" /\ t.watch = s.watch
  BY DEF ResetWorker, Server
<1>3. t.state = IF Watching(s) THEN "watching" ELSE "idle"
  BY DEF ResetWorker, Server
<1>4. t.stop = IF s.stop = "force" THEN "drain" ELSE s.stop
  BY DEF ResetWorker, Server
<1> HIDE DEF t
<1>5. Sound(t) BY <1>1, <1>2, <1>3, <1>4
<1> QED BY <1>2, <1>5 DEF t

\* A worker is started for a module that is watched, when there is a session.
LEMMA SpawnWorkerSound ==
  ASSUME NEW s, NEW m \in Modules, Sound(s),
         Watching(s) => m \in s.watch.session.targets
  PROVE  Sound(SpawnWorker(s, m))
  BY DaemonAssumption DEF SpawnWorker, Server, Pipes

\* A worker that could not be started.
LEMMA SpawnFailedSound ==
  ASSUME NEW s, Sound(s), s.job = NoJob, NEW t \in SpawnFailed(s)
  PROVE  Sound(t) /\ t.job = NoJob /\ t.watch = s.watch /\ t.stop = s.stop
<1> DEFINE w == IF Watching(s) THEN "watching" ELSE "idle"
<1>1. PICK p \in {s.pipes, Pipes} : t = [s EXCEPT !.pipes = p, !.state = w]
  BY DEF SpawnFailed
<1>2. p \in {{}, Pipes} BY <1>1
<1>3. w \in {"watching", "idle"} /\ (~Watching(s) => w = "idle") OBVIOUS
<1> HIDE DEF w
<1> QED BY <1>1, <1>2, <1>3 DEF Server, Pipes

\* A worker is cancelled, with or without its session.
LEMMA CancelSound ==
  ASSUME NEW s, Sound(s), NEW a \in BOOLEAN, NEW b \in BOOLEAN,
         (a \/ b) => Watching(s)
  PROVE  Sound(BeginWorkerCancel(s, a, b))
<1> DEFINE w == [s.watch EXCEPT !.closing = @ \/ b, !.stale = @ \/ a]
<1>1. w \in Watch
  <2>1. s.watch \in Watch BY DEF Server
  <2>2. (s.watch.closing \/ b) \in BOOLEAN /\ (s.watch.stale \/ a) \in BOOLEAN
    OBVIOUS
  <2> QED BY <2>1, <2>2 DEF Watch
<1>2. w.closing = (s.watch.closing \/ b) /\ w.session = s.watch.session
      /\ w.batch = s.watch.batch
  BY DEF Server, Watch
<1>3. ~Watching(s) => w = s.watch
  BY NoWatchType DEF Server, Watch, NoWatch
<1> HIDE DEF w
<1> DEFINE t == [s EXCEPT !.watch = w, !.cancel = TRUE, !.timer = "armed"]
<1>4. s.job # NoJob => Sound(t)
  BY <1>1, <1>2, <1>3 DEF Server
<1>5. BeginWorkerCancel(s, a, b) = IF s.job = NoJob THEN s ELSE t
  BY DEF BeginWorkerCancel, w
<1> QED BY <1>4, <1>5

\* The next module of the batch gets a worker that has just been started, or none.
LEMMA StartNextModuleSound ==
  ASSUME NEW s, Sound(s), s.job = NoJob, Watching(s),
         NEW t \in StartNextModule(s)
  PROVE  Sound(t) /\ (t.job = NoJob \/ Fresh(t))
<1>0. s.watch.session \in Sessions /\ s.watch \in Watch
  BY DEF Server, Watch
<1>1. CASE \E m \in s.watch.batch :
              t = SendText(SpawnWorker([s EXCEPT !.watch.batch = @ \ {m}], m))
  <2>1. PICK m \in s.watch.batch :
              t = SendText(SpawnWorker([s EXCEPT !.watch.batch = @ \ {m}], m))
    BY <1>1
  <2>2. m \in Modules /\ m \in s.watch.session.targets
    BY <1>0, TargetsType
  <2> DEFINE u == [s EXCEPT !.watch.batch = @ \ {m}]
  <2>3. Sound(u) /\ u.watch.session = s.watch.session /\ u.job = NoJob
    BY <1>0, DaemonAssumption DEF Server, Watch
  <2> HIDE DEF u
  <2>4. Sound(SpawnWorker(u, m))
    BY <2>2, <2>3, SpawnWorkerSound
  <2>5. Fresh(SpawnWorker(u, m))
    BY <2>2, <2>3 DEF SpawnWorker, Fresh, Server
  <2> DEFINE v == SpawnWorker(u, m)
  <2> HIDE DEF v
  <2>6. Sound(SendText(v)) /\ Fresh(SendText(v))
    <3>1. Sound(v) /\ Fresh(v) BY <2>4, <2>5 DEF v
    <3> QED BY <3>1, SendTextSound DEF SameWorker, Fresh
  <2> QED BY <2>1, <2>6 DEF u, v
<1>2. CASE \E f \in SpawnFailed(s) :
              t = SendText([f EXCEPT !.watch.batch = {}, !.watch.baseline = FALSE])
  <2>0. PICK u \in SpawnFailed(s) :
              t = SendText([u EXCEPT !.watch.batch = {}, !.watch.baseline = FALSE])
    BY <1>2
  <2> DEFINE v == [u EXCEPT !.watch.batch = {}, !.watch.baseline = FALSE]
  <2>1. Sound(u) /\ u.watch = s.watch /\ u.job = NoJob
    BY SpawnFailedSound
  <2>2. Sound(v) /\ v.job = NoJob
    BY <1>0, <2>1 DEF Server, Watch
  <2> HIDE DEF v
  <2>3. Sound(SendText(v)) /\ SendText(v).job = NoJob
    BY <2>2, SendTextSound DEF SameWorker
  <2> QED BY <2>0, <2>3 DEF v
<1> QED BY <1>1, <1>2 DEF StartNextModule

\* The next batch is taken up.
LEMMA HandlePendingBatchSound ==
  ASSUME NEW s, Sound(s), s.job = NoJob, Watching(s),
         NEW t \in HandlePendingBatch(s)
  PROVE  Sound(t) /\ (t.job = NoJob \/ Fresh(t))
<1>0. s.watch.session \in Sessions /\ s.watch \in Watch /\ s \in Server
  BY DEF Server, Watch
<1> DEFINE q == IF s.watch.rescan THEN {} ELSE s.watch.inq
           u == [s EXCEPT !.watch.rerun = FALSE, !.watch.changed = {},
                          !.watch.rescan = FALSE, !.watch.inq = q]
           v == [u EXCEPT !.watch.batch = RoutedModules(s), !.watch.baseline = FALSE]
<1>1. q \in SUBSET (Paths \cup {"lost"})
  BY <1>0 DEF Watch
<1> HIDE DEF q
<1>2. Sound(u) /\ u.job = NoJob /\ Watching(u) /\ u.watch.session = s.watch.session
  BY <1>0, <1>1 DEF Server, Watch
<1>3. RoutedModules(s) \subseteq s.watch.session.targets /\ RoutedModules(s) \subseteq Modules
  BY <1>0, TargetsType DEF RoutedModules
<1> HIDE DEF u
<1>4. Sound(v) /\ v.job = NoJob /\ Watching(v)
  BY <1>2, <1>3 DEF Server, Watch
<1> HIDE DEF v
<1>5. CASE t = ResetSession(s)
  <2>1. ResetSession(s).job = NoJob BY DEF ResetSession, Server
  <2> QED BY <1>5, <2>1, ResetSessionSound
<1>6. CASE t = SendText(u)
  BY <1>6, <1>2, SendTextSound DEF SameWorker
<1>7. CASE t \in StartNextModule(v)
  BY <1>4, <1>7, StartNextModuleSound
<1> QED BY <1>5, <1>6, <1>7 DEF HandlePendingBatch, q, u, v

\* daemon_finish_active_run keeps the worker it finds, or leaves none, or has
\* started the next one; the last two only once the first is gone.
LEMMA FinishActiveRunSound ==
  ASSUME NEW s, Sound(s), s.job # NoJob, NEW t \in FinishActiveRun(s)
  PROVE  /\ Sound(t)
         /\ \/ SameWorker(t, s)
            \/ s.reaped /\ s.pipes = {} /\ (t.job = NoJob \/ Fresh(t))
<1>0. s \in Server /\ s.watch \in Watch
  BY DEF Server
<1>1. CASE ~s.reaped \/ s.pipes # {}
  BY <1>1 DEF FinishActiveRun, SameWorker
<1>2. CASE s.reaped /\ s.pipes = {} /\ t \in FinishCancelled(s) /\ Watching(s)
  <2> DEFINE b == SendText(s)
             a == [b EXCEPT !.watch.stale = FALSE]
             u == ResetWorker(a, s.watch.closing)
  <2>b. Sound(b) /\ b.watch = s.watch
    BY SendTextSound
  <2> HIDE DEF b
  <2>1. Sound(a) /\ a.watch.session = s.watch.session /\ a.watch.stale = FALSE
    BY <1>0, <1>2, <2>b DEF Server, Watch
  <2>2. s.watch.closing \in BOOLEAN BY <1>0 DEF Watch
  <2> HIDE DEF a
  <2>3. Sound(u) /\ u.job = NoJob /\ Watching(u)
    <3>1. Sound(u) /\ u.job = NoJob /\ u.watch = a.watch
      <4> HIDE DEF Sound
      <4> QED BY <2>1, <2>2, ResetWorkerSound
    <3> QED BY <1>2, <2>1, <3>1
  <2> HIDE DEF u
  <2>4. CASE t = ResetSession(u)
    <3>1. ResetSession(u).job = NoJob BY <2>3 DEF ResetSession, Server
    <3> QED BY <1>2, <2>3, <2>4, <3>1, ResetSessionSound
  <2>5. CASE t \in HandlePendingBatch(u)
    BY <1>2, <2>3, <2>5, HandlePendingBatchSound
  <2>6. CASE t = u
    BY <1>2, <2>3, <2>6
  <2> QED BY <1>2, <2>4, <2>5, <2>6 DEF FinishCancelled, a, b, u
<1>3. CASE /\ s.reaped /\ s.pipes = {} /\ ~(Watching(s) /\ s.watch.stale)
           /\ \E ok \in BOOLEAN : t \in FinishReported(s, ok)
  <2>0. PICK ok \in BOOLEAN : t \in FinishReported(s, ok)
    BY <1>3
  <2>1. CASE t = ResetSession([s EXCEPT !.client = "none"])
    <3> DEFINE a == [s EXCEPT !.client = "none"]
    <3>1. a \in Server /\ JobClean(a) BY <1>0 DEF Server
    <3>2. Sound(ResetSession(a)) BY <3>1, ResetSessionSound
    <3>3. SameWorker(ResetSession(a), s)
      BY <1>0 DEF ResetSession, Server, SameWorker
    <3> QED BY <2>1, <3>2, <3>3
  <2>2. CASE t = [s EXCEPT !.client = "none", !.buffered = "none"]
    BY <1>0, <2>2 DEF Server, SameWorker
  <2> DEFINE u == ResetWorker(SendText(s), ~Watching(s))
  <2>3. Sound(u) /\ u.job = NoJob /\ u.watch = s.watch
    <3>1. Sound(SendText(s)) /\ SendText(s).watch = s.watch BY SendTextSound
    <3>2. (~Watching(s)) \in BOOLEAN OBVIOUS
    <3>3. s.watch.stale = FALSE BY <1>0, <1>3, NoWatchType DEF Watch
    <3> HIDE DEF Sound, Watching
    <3> QED BY <3>1, <3>2, <3>3, ResetWorkerSound
  <2> HIDE DEF u
  <2>4. CASE t = u
    BY <1>3, <2>3, <2>4
  <2>5. CASE t = ResetSession(u)
    <3>1. ResetSession(u).job = NoJob BY <2>3 DEF ResetSession, Server
    <3> QED BY <1>3, <2>3, <2>5, <3>1, ResetSessionSound
  <2>6. CASE Watching(s) /\ t \in StartNextModule(u)
    BY <1>3, <2>3, <2>6, StartNextModuleSound
  <2>7. CASE Watching(s) /\ t \in HandlePendingBatch(u)
    BY <1>3, <2>3, <2>7, HandlePendingBatchSound
  <2> QED BY <2>0, <2>1, <2>2, <2>4, <2>5, <2>6, <2>7 DEF FinishReported, u
<1> QED BY <1>1, <1>2, <1>3 DEF FinishActiveRun

-----------------------------------------------------------------------------
\* End of file is not seen while the worker or a program of it holds the pipes.
PipesHeld ==
  daemon = "running" /\ (child = "piped" \/ proc = "running") =>
    srv.job # NoJob /\ srv.pipes = Pipes

IInv ==
  /\ daemon \in {"running", "exited"}
  /\ proc \in {"none", "running", "zombie"}
  /\ child \in {"none", "piped", "logged"}
  /\ dirty \subseteq Modules
  /\ saves \in 0 .. MaxSaves
  /\ Sound(srv)
  /\ WorkerSupervised
  /\ CancelEscalates
  /\ PipesHeld

\* What a handler that returns to the loop has to establish.
LEMMA ReturnInv ==
  ASSUME NEW t, NEW base \in {"none", "running", "zombie"},
         IInv, daemon = "running", Return(t, base), Sound(t),
         Spawned(t) => Fresh(t),
         ~Spawned(t) =>
           /\ base # "none" <=> t.job # NoJob /\ ~t.reaped
           /\ t.cancel => t.timer = "armed" \/ base # "running"
           /\ child = "piped" \/ base = "running" => t.job # NoJob /\ t.pipes = Pipes
  PROVE  IInv'
<1>1. srv' = t /\ daemon' = "running" /\ saves' = saves
  BY DEF Return
<1>2. dirty' \subseteq Modules
  BY DEF Return, IInv, Cancelled, Server, Watch
<1>3. Sound(srv)'
  <2> HIDE DEF Sound
  <2> QED BY <1>1
<1>4. CASE Spawned(t)
  <2>1. proc' = "running" /\ child' = "none" /\ Fresh(srv')
    BY <1>1, <1>4 DEF Return
  <2> QED BY <1>1, <1>2, <1>3, <2>1, DaemonAssumption
          DEF IInv, WorkerSupervised, CancelEscalates, PipesHeld, Fresh
<1>5. CASE ~Spawned(t)
  <2>1. proc' = base /\ child' = child
    BY <1>5 DEF Return, IInv
  <2> QED BY <1>1, <1>2, <1>3, <1>5, <2>1
          DEF IInv, WorkerSupervised, CancelEscalates, PipesHeld
<1> QED BY <1>4, <1>5

\* The daemon exits.
LEMMA ExitInv ==
  ASSUME NEW t, IInv, Exit(t), t \in Server
  PROVE  IInv'
<1> DEFINE u == ResetWorker(t, TRUE)
<1>1. u \in Server /\ JobClean(u) /\ u.job = NoJob /\ u.cancel = FALSE
  BY ZenonT(40) DEF ResetWorker, Server
<1> HIDE DEF u
<1>2. /\ Sound(ResetSession(u))
      /\ ResetSession(u).job = NoJob /\ ResetSession(u).cancel = FALSE
  <2>1. Sound(ResetSession(u)) BY <1>1, ResetSessionSound
  <2>2. ResetSession(u).job = NoJob /\ ResetSession(u).cancel = FALSE
    BY <1>1 DEF ResetSession, Server
  <2> QED BY <2>1, <2>2
<1>3. srv' = ResetSession(u) /\ daemon' = "exited" /\ proc' = "none" /\ dirty' = {}
      /\ child' = child /\ saves' = saves
  BY DEF Exit, u
<1>4. Sound(srv)' BY <1>2, <1>3
<1> QED BY <1>2, <1>3, <1>4
        DEF IInv, WorkerSupervised, CancelEscalates, PipesHeld

\* The same for a handler that leaves the worker alone.
LEMMA KeepInv ==
  ASSUME NEW t, IInv, daemon = "running", Return(t, proc), Sound(t),
         SameWorker(t, srv)
  PROVE  IInv'
<1>1. ~Spawned(t) BY DEF Spawned, SameWorker
<1> QED BY <1>1, ReturnInv
        DEF IInv, WorkerSupervised, CancelEscalates, PipesHeld, SameWorker

\* The same for one that may have started the first worker of a request.
LEMMA StartInv ==
  ASSUME NEW t, IInv, daemon = "running", Return(t, proc), Sound(t),
         srv.job = NoJob, t.job = NoJob \/ Fresh(t)
  PROVE  IInv'
<1>1. proc = "none" /\ child # "piped"
  BY DEF IInv, WorkerSupervised, PipesHeld
<1>2. CASE t.job = NoJob
  <2>1. ~Spawned(t) /\ t.cancel = FALSE BY <1>2 DEF Spawned
  <2> QED BY <1>1, <1>2, <2>1, ReturnInv DEF IInv
<1>3. CASE Fresh(t)
  <2>1. Spawned(t) BY <1>3, DaemonAssumption DEF Spawned, Fresh
  <2> QED BY <1>1, <1>3, <2>1, ReturnInv
<1> QED BY <1>2, <1>3

\* A client asks for a run.
LEMMA RunRequestInv ==
  ASSUME IInv, NEW m \in Modules, RunRequest(m)
  PROVE  IInv'
<1>0. /\ daemon = "running" /\ srv.job = NoJob /\ ~Watching(srv)
      /\ Sound(srv) /\ srv \in Server
  BY DEF RunRequest, Running, EffectiveState, IInv
<1>1. CASE Return(SpawnWorker([srv EXCEPT !.client = "attached"], m), proc)
  <2> DEFINE a == [srv EXCEPT !.client = "attached"]
             t == SpawnWorker(a, m)
  <2>1. Sound(a) /\ ~Watching(a) /\ a.job = NoJob BY <1>0 DEF Server
  <2> HIDE DEF a
  <2>2. Sound(t) BY <2>1, SpawnWorkerSound
  <2>3. Fresh(t) BY <2>1 DEF SpawnWorker, Fresh, Server
  <2> HIDE DEF t
  <2>4. Return(t, proc) BY <1>1 DEF t, a
  <2> QED BY <1>0, <2>2, <2>3, <2>4, StartInv
<1>2. CASE Return([srv EXCEPT !.client = "gone"], proc)
  <2> DEFINE t == [srv EXCEPT !.client = "gone"]
  <2>1. Sound(t) /\ SameWorker(t, srv) BY <1>0 DEF Server, SameWorker
  <2> HIDE DEF t
  <2>2. Return(t, proc) BY <1>2 DEF t
  <2> QED BY <1>0, <2>1, <2>2, KeepInv
<1>3. ASSUME NEW a \in SpawnFailed(srv), Return([a EXCEPT !.client = "none"], proc)
      PROVE  IInv'
  <2> DEFINE t == [a EXCEPT !.client = "none"]
  <2>1. Sound(a) /\ a.job = NoJob BY <1>0, <1>3, SpawnFailedSound
  <2>2. Sound(t) /\ t.job = NoJob BY <2>1 DEF Server
  <2> HIDE DEF t
  <2>3. Return(t, proc) BY <1>3 DEF t
  <2> QED BY <1>0, <2>2, <2>3, StartInv
<1> QED BY <1>1, <1>2, <1>3 DEF RunRequest

\* A client asks for a watch session.
LEMMA WatchRequestInv ==
  ASSUME IInv, NEW w \in Sessions, WatchRequest(w)
  PROVE  IInv'
<1>0. /\ daemon = "running" /\ srv.job = NoJob /\ ~Watching(srv) /\ srv.stop = "no"
      /\ Sound(srv) /\ srv \in Server
  BY DEF WatchRequest, Running, EffectiveState, IInv
<1>1. ASSUME NEW c \in {"attached", "none"}, NEW r \in BOOLEAN,
             NEW t \in (IF w.mode = "module"
                        THEN StartNextModule(OpenSession(srv, w, c, r))
                        ELSE {OpenSession(srv, w, c, r)}),
             Return(t, proc)
      PROVE  IInv'
  <2> DEFINE b  == IF w.mode = "module" THEN w.targets ELSE {}
             bl == w.mode = "module"
             x  == [srv.watch EXCEPT !.session = w, !.rescan = r, !.batch = b,
                                     !.baseline = bl]
             s  == OpenSession(srv, w, c, r)
  <2>1. b \subseteq w.targets /\ b \subseteq Modules /\ bl \in BOOLEAN /\ w # NoSession
    BY TargetsType
  <2>2. s = [srv EXCEPT !.state = "watching", !.client = c, !.watch = x]
    BY DEF OpenSession
  <2> HIDE DEF b, bl, s
  <2>3. x \in Watch /\ x.session = w /\ x.batch = b /\ x.stale = FALSE
    BY <1>0, <2>1, NoWatchType DEF Server, Watch
  <2> HIDE DEF x
  <2>4. Sound(s) /\ Watching(s) /\ s.job = NoJob
    BY <1>0, <2>1, <2>2, <2>3 DEF Server
  <2>5. t \in StartNextModule(s) \/ t = s
    BY <1>1 DEF s
  <2>6. Sound(t) /\ (t.job = NoJob \/ Fresh(t))
    BY <2>4, <2>5, StartNextModuleSound
  <2> QED BY <1>0, <1>1, <2>6, StartInv
<1>2. CASE Return(ResetSession(srv), proc)
  <2>1. Sound(ResetSession(srv)) BY <1>0, ResetSessionSound
  <2>2. SameWorker(ResetSession(srv), srv)
    BY <1>0 DEF ResetSession, Server, SameWorker
  <2> QED BY <1>0, <1>2, <2>1, <2>2, KeepInv
<1> QED BY <1>1, <1>2 DEF WatchRequest

\* A stop leaves the worker to its end.
LEMMA BeginStopSound ==
  ASSUME NEW s, Sound(s), NEW how \in {"drain", "force"}
  PROVE  /\ Sound(BeginStop(s, how)) /\ SameWorker(BeginStop(s, how), s)
         /\ Watching(BeginStop(s, how)) <=> Watching(s)
<1> DEFINE c == Watching(s)
           w == [s.watch EXCEPT !.closing = c]
<1>1. c \in BOOLEAN OBVIOUS
<1> HIDE DEF c
<1>2. w \in Watch /\ w.session = s.watch.session /\ w.closing = c
      /\ w.stale = s.watch.stale /\ w.batch = s.watch.batch
  BY <1>1 DEF Server, Watch
<1>3. ~Watching(s) => w = NoWatch
  <2>1. ~Watching(s) => s.watch = NoWatch /\ c = FALSE BY DEF c
  <2>2. ASSUME NEW v \in Watch PROVE [v EXCEPT !.closing = v.closing] = v
    BY DEF Watch
  <2>3. NoWatch.closing = FALSE BY DEF NoWatch
  <2> QED BY <2>1, <2>2, <2>3, NoWatchType
<1>4. BeginStop(s, how) = [s EXCEPT !.stop = how, !.watch = w]
  BY DEF BeginStop, c, w
<1> HIDE DEF w
<1>5. c <=> Watching(s) BY DEF c
<1> DEFINE t == [s EXCEPT !.stop = how, !.watch = w]
<1>6. /\ t \in Server /\ SameWorker(t, s) /\ t.watch = w /\ t.stop = how
      /\ t.state = s.state /\ t.buffered = s.buffered
  BY <1>2 DEF Server, SameWorker
<1> HIDE DEF t
<1>7. c = TRUE <=> Watching(t) BY <1>2, <1>5, <1>6, <1>1
<1>8. Sound(t) /\ (Watching(t) <=> Watching(s))
  BY <1>1, <1>2, <1>3, <1>5, <1>6, <1>7 DEF SameWorker
<1> QED BY <1>4, <1>6, <1>8 DEF t

\* A step that cancels the worker.
LEMMA CancelInv ==
  ASSUME NEW s, NEW a \in BOOLEAN, NEW b \in BOOLEAN, IInv,
         daemon = "running", Sound(s), SameWorker(s, srv), s.job # NoJob,
         (a \/ b) => Watching(s),
         Return(BeginWorkerCancel(s, a, b), proc)
  PROVE  IInv'
<1> DEFINE t == BeginWorkerCancel(s, a, b)
<1>1. Sound(t)
  <2> HIDE DEF Sound, Watching
  <2> QED BY CancelSound
<1>2. /\ t.job = srv.job /\ t.reaped = srv.reaped /\ t.pipes = srv.pipes
      /\ t.timer = "armed"
  BY DEF BeginWorkerCancel, SameWorker, Server
<1> HIDE DEF t
<1>3. ~Spawned(t) BY <1>2 DEF Spawned
<1>4. Return(t, proc) BY DEF t
<1> QED BY <1>1, <1>2, <1>3, <1>4, ReturnInv
        DEF IInv, WorkerSupervised, PipesHeld

\* A stop by request or by signal.
LEMMA StopInv ==
  ASSUME IInv, Stop \/ StopForce \/ OnSignal
  PROVE  IInv'
<1>0. daemon = "running" /\ Sound(srv)
  BY DEF Stop, StopForce, OnSignal, Running, IInv
<1>1. ASSUME NEW how \in {"drain", "force"}, Return(BeginStop(srv, how), proc)
      PROVE  IInv'
  BY <1>0, <1>1, BeginStopSound, KeepInv
<1>2. ASSUME NEW how \in {"drain", "force"}, Exit(BeginStop(srv, how))
      PROVE  IInv'
  BY <1>0, <1>2, BeginStopSound, ExitInv
<1>3. ASSUME NEW how \in {"drain", "force"}, srv.job # NoJob,
             Return(BeginWorkerCancel(BeginStop(srv, how),
                                      Watching(BeginStop(srv, how)),
                                      Watching(BeginStop(srv, how))), proc)
      PROVE  IInv'
  <2> DEFINE s == BeginStop(srv, how)
             a == Watching(s)
  <2>1. Sound(s) /\ SameWorker(s, srv) BY <1>0, BeginStopSound
  <2>2. a \in BOOLEAN /\ (a \/ a => Watching(s)) OBVIOUS
  <2>3. Return(BeginWorkerCancel(s, a, a), proc) BY <1>3
  <2>4. s.job # NoJob BY <1>3, <2>1 DEF SameWorker
  <2> HIDE DEF s, a, Sound, Watching
  <2> QED BY <1>0, <2>1, <2>2, <2>3, <2>4, CancelInv
<1>4. ASSUME srv.job = NoJob, NEW t,
             t = (IF Watching(BeginStop(srv, "force"))
                  THEN ResetSession(BeginStop(srv, "force"))
                  ELSE BeginStop(srv, "force")),
             Exit(t) \/ Return(t, proc)
      PROVE  IInv'
  <2> DEFINE s == BeginStop(srv, "force")
  <2>1. Sound(s) /\ SameWorker(s, srv) BY <1>0, BeginStopSound
  <2> HIDE DEF s
  <2>2. Sound(ResetSession(s)) BY <2>1, ResetSessionSound
  <2>3. SameWorker(ResetSession(s), srv)
    BY <2>1 DEF SameWorker, ResetSession, Server
  <2>4. Sound(t) /\ SameWorker(t, srv)
    BY <1>4, <2>1, <2>2, <2>3 DEF s
  <2> QED BY <1>0, <1>4, <2>4, KeepInv, ExitInv
<1>5. CASE Stop
  BY <1>1, <1>2, <1>5 DEF Stop
<1>6. CASE StopForce
  <2>1. CASE srv.job # NoJob
    BY <1>3, <1>6, <2>1 DEF StopForce
  <2>2. CASE srv.job = NoJob
    BY <1>4, <1>6, <2>2 DEF StopForce
  <2> QED BY <2>1, <2>2
<1>7. CASE OnSignal
  <2>1. CASE srv.job # NoJob
    BY <1>3, <1>7, <2>1 DEF OnSignal
  <2>2. CASE srv.job = NoJob
    BY <1>2, <1>7, <2>2 DEF OnSignal
  <2> QED BY <2>1, <2>2
<1> QED BY <1>5, <1>6, <1>7

\* A file is saved, or events are lost, while there is a session.
LEMMA FileEventInv ==
  ASSUME IInv, NEW e \in SUBSET (Paths \cup {"lost"}),
         daemon = "running", Watching(srv), saves < MaxSaves, saves' = saves + 1,
         srv' = [srv EXCEPT !.watch.inq = e], dirty' \subseteq Modules,
         UNCHANGED <<daemon, proc, child>>
  PROVE  IInv'
<1> DEFINE w == [srv.watch EXCEPT !.inq = e]
<1>0. srv \in Server /\ srv.watch \in Watch BY DEF IInv, Server
<1>1. w \in Watch /\ w.session = srv.watch.session /\ w.closing = srv.watch.closing
      /\ w.stale = srv.watch.stale /\ w.batch = srv.watch.batch
  BY <1>0 DEF Watch
<1> HIDE DEF w
<1>2. srv' = [srv EXCEPT !.watch = w] BY DEF w
<1>3. Sound(srv') /\ SameWorker(srv', srv)
  BY <1>0, <1>1, <1>2 DEF IInv, Server, SameWorker
<1>4. saves' \in 0 .. MaxSaves BY DaemonAssumption DEF IInv
<1> QED BY <1>3, <1>4
        DEF IInv, WorkerSupervised, CancelEscalates, PipesHeld, SameWorker

\* The events of a watch session.
LEMMA WatchEventInv ==
  ASSUME IInv, OnWatchInotify \/ OnWatchDebounce \/ OnWatchClient
  PROVE  IInv'
<1>0. daemon = "running" /\ Sound(srv) /\ srv \in Server /\ srv.watch \in Watch
  BY DEF OnWatchInotify, OnWatchDebounce, OnWatchClient, Running, IInv, Server
<1>1. CASE OnWatchInotify
  <2> DEFINE r == srv.watch.rescan \/ "lost" \in srv.watch.inq
             c == srv.watch.changed \cup (srv.watch.inq \cap Paths)
             w == [srv.watch EXCEPT !.inq = {}, !.changed = c, !.rescan = r,
                                    !.debounce = TRUE]
             t == [srv EXCEPT !.watch = w]
  <2>1. r \in BOOLEAN /\ c \subseteq Paths BY <1>0 DEF Watch
  <2>2. Watching(srv) BY <1>1 DEF OnWatchInotify, IInv, NoWatch
  <2>3. Return(t, proc) BY <1>1 DEF OnWatchInotify
  <2> HIDE DEF r, c
  <2>4. w \in Watch /\ w.session = srv.watch.session /\ w.closing = srv.watch.closing
        /\ w.stale = srv.watch.stale /\ w.batch = srv.watch.batch
    BY <1>0, <2>1 DEF Watch
  <2> HIDE DEF w
  <2>5. Sound(t) /\ SameWorker(t, srv)
    BY <1>0, <2>2, <2>4 DEF Server, SameWorker
  <2> HIDE DEF t
  <2> QED BY <1>0, <2>3, <2>5, KeepInv
<1>2. CASE OnWatchDebounce
  <2> DEFINE s == [srv EXCEPT !.watch.debounce = FALSE]
  <2>1. Watching(srv) BY <1>2 DEF OnWatchDebounce, IInv, NoWatch
  <2>2. Sound(s) /\ SameWorker(s, srv) /\ Watching(s)
    BY <1>0, <2>1 DEF Server, SameWorker, Watch
  <2> HIDE DEF s
  <2>3. CASE Return(s, proc)
    BY <1>0, <2>2, <2>3, KeepInv
  <2> DEFINE x == IF s.watch.stale THEN s ELSE SendText(s)
             y == [x EXCEPT !.watch.rerun = TRUE]
  <2>4. Sound(x) /\ SameWorker(x, srv) /\ Watching(x)
    <3>1. Sound(SendText(s)) /\ SameWorker(SendText(s), s)
          /\ SendText(s).watch = s.watch
      <4> HIDE DEF Sound
      <4> QED BY <2>2, SendTextSound
    <3>2. SameWorker(SendText(s), srv) /\ Watching(SendText(s))
      BY <2>2, <3>1 DEF SameWorker
    <3> QED BY <2>2, <3>1, <3>2
  <2>5. ASSUME s.job # NoJob, Return(BeginWorkerCancel(y, TRUE, FALSE), proc)
        PROVE  IInv'
    <3> HIDE DEF x
    <3>1. Sound(y) /\ SameWorker(y, srv) /\ Watching(y)
      BY <2>4 DEF Server, SameWorker, Watch
    <3>2. y.job # NoJob BY <2>2, <2>5, <3>1 DEF SameWorker
    <3> HIDE DEF y
    <3> QED BY <1>0, <2>5, <3>1, <3>2, CancelInv
  <2>6. ASSUME s.job = NoJob, NEW t \in HandlePendingBatch(s), Return(t, proc)
        PROVE  IInv'
    <3>1. Sound(t) /\ (t.job = NoJob \/ Fresh(t))
      BY <2>2, <2>6, HandlePendingBatchSound
    <3>2. srv.job = NoJob BY <2>2, <2>6 DEF SameWorker
    <3> QED BY <1>0, <2>6, <3>1, <3>2, StartInv
  <2> QED BY <1>2, <2>3, <2>5, <2>6 DEF OnWatchDebounce, s
<1>3. CASE OnWatchClient
  <2> DEFINE t == [srv EXCEPT !.client = "none"]
  <2>1. Sound(t) /\ SameWorker(t, srv) BY <1>0 DEF Server, SameWorker
  <2>2. Return(t, proc) BY <1>3 DEF OnWatchClient
  <2> HIDE DEF t
  <2> QED BY <1>0, <2>1, <2>2, KeepInv
<1> QED BY <1>1, <1>2, <1>3

\* The client goes, or output of the worker arrives.
LEMMA ClientAndOutputInv ==
  ASSUME IInv, PeerCloses \/ OnWorkerOutput
  PROVE  IInv'
<1>0. daemon = "running" /\ Sound(srv) /\ srv \in Server
  BY DEF PeerCloses, OnWorkerOutput, Running, IInv
<1>1. CASE PeerCloses
  <2> DEFINE t == [srv EXCEPT !.client = "gone"]
  <2>1. Sound(t) /\ SameWorker(t, srv) BY <1>0 DEF Server, SameWorker
  <2>2. Return(t, proc) BY <1>1 DEF PeerCloses
  <2> HIDE DEF t
  <2> QED BY <1>0, <2>1, <2>2, KeepInv
<1>2. CASE OnWorkerOutput
  <2>1. ASSUME NEW b \in {"some", "big"}, Return([srv EXCEPT !.buffered = b], proc)
        PROVE  IInv'
    <3> DEFINE t == [srv EXCEPT !.buffered = b]
    <3>1. srv.job # NoJob BY <1>0, <1>2 DEF OnWorkerOutput, IInv, PipesHeld
    <3>2. Sound(t) /\ SameWorker(t, srv) BY <1>0, <3>1 DEF Server, SameWorker
    <3> HIDE DEF t
    <3>3. Return(t, proc) BY <2>1 DEF t
    <3> QED BY <1>0, <3>2, <3>3, KeepInv
  <2>2. CASE Return(SendText(srv), proc)
    <3>1. Sound(SendText(srv)) /\ SameWorker(SendText(srv), srv)
      BY <1>0, SendTextSound
    <3> QED BY <1>0, <2>2, <3>1, KeepInv
  <2> QED BY <1>2, <2>1, <2>2 DEF OnWorkerOutput
<1> QED BY <1>1, <1>2

\* The steps of the processes, and the timer that kills them.
LEMMA ProcessInv ==
  ASSUME IInv, (\E how \in {"piped", "logged"} : ChildStart(how)) \/ ChildEnd \/ WorkerExit \/ OnKillTimer
  PROVE  IInv'
<1>1. CASE (\E how \in {"piped", "logged"} : ChildStart(how)) \/ ChildEnd \/ WorkerExit
  <2>1. srv' = srv BY <1>1 DEF ChildStart, ChildEnd, WorkerExit
  <2>2. Sound(srv)'
    <3> HIDE DEF Sound
    <3> QED BY <2>1 DEF IInv
  <2> QED BY <1>1, <2>1, <2>2 DEF ChildStart, ChildEnd, WorkerExit, Running, IInv,
                               WorkerSupervised, CancelEscalates, PipesHeld
<1>2. CASE OnKillTimer
  <2> DEFINE t == [srv EXCEPT !.timer = "fired"]
             base == IF proc = "running" THEN "zombie" ELSE proc
  <2>0. daemon = "running" /\ Sound(srv) /\ srv \in Server /\ srv.job # NoJob
    BY <1>2 DEF OnKillTimer, Running, IInv
  <2>1. Sound(t) /\ t.job = srv.job /\ t.reaped = srv.reaped /\ t.pipes = srv.pipes
    BY <2>0 DEF Server
  <2>2. Return(t, base) BY <1>2 DEF OnKillTimer
  <2> HIDE DEF t
  <2>3. ~Spawned(t) BY <2>1 DEF Spawned
  <2>4. base \in {"none", "running", "zombie"} /\ base # "running"
        /\ (base # "none" <=> proc # "none")
    BY DEF IInv
  <2> HIDE DEF base
  <2> QED BY <2>0, <2>1, <2>2, <2>3, <2>4, ReturnInv
          DEF IInv, WorkerSupervised, PipesHeld
<1> QED BY <1>1, <1>2

\* The two handlers that may end a run.
LEMMA FinishInv ==
  ASSUME IInv, NEW s, NEW base \in {"none", "running", "zombie"},
         daemon = "running", Sound(s), s.job = srv.job, srv.job # NoJob,
         s.cancel = srv.cancel, s.timer = srv.timer,
         base # "none" <=> ~s.reaped,
         base = "running" => proc = "running",
         child = "piped" \/ base = "running" => s.pipes = Pipes,
         s.pipes \subseteq srv.pipes, srv.pipes # Pipes => s.pipes # Pipes,
         s.reaped /\ s.pipes = {} => srv.pipes # Pipes,
         ReturnFromFinish(s, base)
  PROVE  IInv'
<1>1. PICK t \in FinishActiveRun(s) : IF Drained(t) THEN Exit(t) ELSE Return(t, base)
  BY DEF ReturnFromFinish
<1>2. Sound(t)
  <2> HIDE DEF Sound
  <2>1. s.job # NoJob OBVIOUS
  <2> QED BY <1>1, <2>1, FinishActiveRunSound
<1>3. CASE Drained(t)
  BY <1>1, <1>2, <1>3, ExitInv
<1>4. CASE ~Drained(t)
  <2>0. Return(t, base) BY <1>1, <1>4
  <2>1. CASE SameWorker(t, s)
    <3>1. ~Spawned(t) BY <2>1 DEF Spawned, SameWorker
    <3> QED BY <1>2, <2>0, <2>1, <3>1, ReturnInv
            DEF SameWorker, IInv, CancelEscalates
  <2>2. CASE s.reaped /\ s.pipes = {} /\ t.job = NoJob
    <3>1. ~Spawned(t) /\ t.cancel = FALSE BY <1>2, <2>2 DEF Spawned
    <3>2. base = "none" /\ child # "piped" BY <2>2 DEF IInv, Pipes
    <3> QED BY <1>2, <2>0, <2>2, <3>1, <3>2, ReturnInv
  <2>3. CASE s.reaped /\ s.pipes = {} /\ Fresh(t)
    <3>1. Spawned(t) BY <2>3, DaemonAssumption DEF Spawned, Fresh
    <3> QED BY <1>2, <2>0, <2>3, <3>1, ReturnInv
  <2> QED BY <1>1, <2>1, <2>2, <2>3, FinishActiveRunSound
<1> QED BY <1>3, <1>4

\* The worker has ended, or one of its pipes has.
LEMMA RunEndInv ==
  ASSUME IInv, OnWorkerPidfd \/ \E p \in Pipes : OnWorkerPipe(p)
  PROVE  IInv'
<1>0. daemon = "running" /\ Sound(srv) /\ srv \in Server /\ srv.job # NoJob
  BY DEF OnWorkerPidfd, OnWorkerPipe, Running, IInv, WorkerSupervised
<1>1. CASE OnWorkerPidfd
  <2> DEFINE s == [srv EXCEPT !.reaped = TRUE]
  <2>1. Sound(s) /\ s.job = srv.job /\ s.cancel = srv.cancel /\ s.timer = srv.timer
        /\ s.reaped = TRUE /\ s.pipes = srv.pipes
    BY <1>0 DEF Server
  <2>2. ReturnFromFinish(s, "none") BY <1>1 DEF OnWorkerPidfd
  <2> HIDE DEF s
  <2> QED BY <1>0, <2>1, <2>2, FinishInv DEF IInv, PipesHeld, Pipes
<1>2. ASSUME NEW p \in Pipes, OnWorkerPipe(p)
      PROVE  IInv'
  <2> DEFINE s == [srv EXCEPT !.pipes = @ \ {p}]
  <2>1. Sound(s) /\ s.job = srv.job /\ s.cancel = srv.cancel /\ s.timer = srv.timer
        /\ s.reaped = srv.reaped /\ s.pipes = srv.pipes \ {p}
    BY <1>0 DEF Server
  <2>2. ReturnFromFinish(s, proc) BY <1>2 DEF OnWorkerPipe
  <2>3. proc # "running" /\ child # "piped" /\ p \in srv.pipes BY <1>2 DEF OnWorkerPipe
  <2>4. s.pipes = {} => srv.pipes # Pipes BY <2>1, <2>3 DEF Pipes
  <2>5. proc # "none" <=> ~s.reaped BY <1>0, <2>1 DEF IInv, WorkerSupervised
  <2> HIDE DEF s
  <2> QED BY <1>0, <2>1, <2>2, <2>3, <2>4, <2>5, FinishInv DEF IInv, Pipes
<1> QED BY <1>1, <1>2

\* The inductive invariant.
LEMMA IInvHolds == Spec => []IInv
<1>1. Init => IInv
  <2> SUFFICES ASSUME Init PROVE IInv
    OBVIOUS
  <2>1. Sound(srv)
    <3> HIDE DEF Sound
    <3> QED BY InitSound DEF Init
  <2>2. srv.job = NoJob /\ srv.cancel = FALSE BY DEF Init, InitServer
  <2>3. saves \in 0 .. MaxSaves BY DaemonAssumption DEF Init
  <2> QED BY <2>1, <2>2, <2>3
          DEF Init, IInv, WorkerSupervised, CancelEscalates, PipesHeld
<1>2. IInv /\ [Next]_vars => IInv'
  <2> SUFFICES ASSUME IInv, [Next]_vars PROVE IInv'
    OBVIOUS
  <2>1. CASE Request
    BY <2>1, RunRequestInv, WatchRequestInv, StopInv DEF Request
  <2>2. CASE \E p \in Paths : Save(p)
    <3>1. PICK p \in Paths : Save(p) BY <2>2
    <3> DEFINE e == srv.watch.inq \cup {p}
    <3>2. e \in SUBSET (Paths \cup {"lost"}) BY DEF IInv, Server, Watch
    <3>3. dirty' \subseteq Modules
      BY <3>1, DaemonAssumption DEF Save, IInv
    <3> QED BY <3>1, <3>2, <3>3, FileEventInv DEF Save, Running
  <2>3. CASE LoseEvents
    BY <2>3, FileEventInv DEF LoseEvents, Running, IInv
  <2>4. CASE PeerCloses \/ OnWorkerOutput
    BY <2>4, ClientAndOutputInv
  <2>5. CASE (\E how \in {"piped", "logged"} : ChildStart(how)) \/ ChildEnd \/ WorkerExit \/ OnKillTimer
    BY <2>5, ProcessInv
  <2>6. CASE OnWatchInotify \/ OnWatchDebounce \/ OnWatchClient
    BY <2>6, WatchEventInv
  <2>7. CASE OnWorkerPidfd \/ \E p \in Pipes : OnWorkerPipe(p)
    BY <2>7, RunEndInv
  <2>8. CASE UNCHANGED vars
    <3>1. Sound(srv)'
      <4> HIDE DEF Sound
      <4> QED BY <2>8 DEF vars, IInv
    <3> QED BY <2>8, <3>1
            DEF vars, IInv, WorkerSupervised, CancelEscalates, PipesHeld
  <2> QED BY <2>1, <2>2, <2>3, <2>4, <2>5, <2>6, <2>7, <2>8
          DEF Next, Environment, Handler
<1> QED BY <1>1, <1>2, PTL DEF Spec

\* Every variable keeps its type: no handler leaves the server record with a
\* value its C field cannot hold.
THEOREM TypeCorrect == Spec => []TypeOK
<1>1. IInv => TypeOK BY DEF IInv, TypeOK
<1> QED BY <1>1, IInvHolds, PTL

\* daemon_spawn_worker, daemon_finish_active_run and daemon_teardown keep track
\* of the worker whatever the order of events, clients and failures.
THEOREM Supervision == Spec => []WorkerSupervised
<1>1. IInv => WorkerSupervised BY DEF IInv
<1> QED BY <1>1, IInvHolds, PTL

\* A worker that daemon_begin_worker_cancel asked to stop is killed in the end,
\* unless it has ended by itself.
THEOREM Escalation == Spec => []CancelEscalates
<1>1. IInv => CancelEscalates BY DEF IInv
<1> QED BY <1>1, IInvHolds, PTL

\* Shutdown marks the active session for closing, and no handler unmarks it.
THEOREM DrainCloses == Spec => []DrainClosesSession
<1>1. IInv => DrainClosesSession BY DEF IInv, DrainClosesSession
<1> QED BY <1>1, IInvHolds, PTL

\* A session only ever runs its own modules.
THEOREM SessionOwnsRuns == Spec => []RunBelongsToSession
<1>1. IInv => RunBelongsToSession BY DEF IInv, RunBelongsToSession
<1> QED BY <1>1, IInvHolds, PTL

\* daemon_effective_state says idle only when the server record is as new, but
\* for the flags of both pipes, which a failed daemon_spawn_worker may leave set.
THEOREM IdleClean == Spec => []IdleIsClean
<1>1. IInv => IdleIsClean
  <2> SUFFICES ASSUME IInv, EffectiveState(srv) = "idle"
               PROVE  /\ [srv EXCEPT !.client = "none", !.pipes = {}] = InitServer
                      /\ srv.pipes \in {{}, Pipes}
    BY DEF IdleIsClean
  <2>1. srv \in Server /\ srv.stop = "no" /\ srv.job = NoJob /\ ~Watching(srv)
        /\ srv.state = "idle"
    BY DEF IInv, EffectiveState
  <2>2. /\ srv.watch = NoWatch /\ srv.reaped = FALSE /\ srv.pipes \in {{}, Pipes}
        /\ srv.cancel = FALSE /\ srv.timer = "off" /\ srv.buffered = "none"
    BY <2>1 DEF IInv
  <2> DEFINE t == [srv EXCEPT !.client = "none", !.pipes = {}]
  <2>3. t \in Server BY <2>1 DEF Server
  <2>4. t = [stop |-> t.stop, state |-> t.state, client |-> t.client, job |-> t.job,
             reaped |-> t.reaped, pipes |-> t.pipes, cancel |-> t.cancel,
             timer |-> t.timer, buffered |-> t.buffered, watch |-> t.watch]
    <3> HIDE DEF t
    <3> QED BY <2>3 DEF Server
  <2> QED BY <2>1, <2>2, <2>4 DEF InitServer, Server
<1> QED BY <1>1, IInvHolds, PTL

\* A worker is started (daemon_spawn_worker) only when the one before it has
\* been reaped and no program of it, a compiler say, holds its pipes.
THEOREM NoOverlap == Spec => RunsDoNotOverlap
<1>1. IInv /\ [Next]_vars => (Spawned(srv') => proc # "running" /\ child # "piped")
  <2> SUFFICES ASSUME IInv, daemon = "running", Spawned(srv'),
                      proc = "running" \/ child = "piped"
               PROVE  FALSE
    <3>1. ASSUME IInv, Next, daemon # "running" PROVE ~Spawned(srv')
      BY <3>1 DEF IInv, Next, Request, Environment, Handler, RunRequest,
         WatchRequest, Stop, StopForce, OnSignal, Save, LoseEvents, PeerCloses,
         ChildStart, ChildEnd, WorkerExit, OnWatchInotify, OnWatchDebounce,
         OnWatchClient, OnWorkerOutput, OnKillTimer, OnWorkerPidfd,
         OnWorkerPipe, Running, Spawned
    <3>2. ASSUME UNCHANGED vars PROVE ~Spawned(srv')
      BY <3>2 DEF vars, Spawned
    <3> QED BY <3>1, <3>2
  <2> QED BY DEF IInv, PipesHeld, Spawned
<1> QED BY <1>1, IInvHolds, PTL DEF Spec, RunsDoNotOverlap

-----------------------------------------------------------------------------
(* No run is started after a stop.                                         *)

\* A session that shutdown found active has a run whose end will close it.
StopHasRun(s) == s.stop # "no" /\ Watching(s) => s.job # NoJob

\* Starting the next module of a batch does not touch the shutdown.
LEMMA StartKeepsStop ==
  ASSUME NEW u, Sound(u), NEW v \in StartNextModule(u)
  PROVE  v.stop = u.stop
<1>0. u \in Server /\ u.watch \in Watch BY DEF Server
<1>1. ASSUME NEW m, v = SendText(SpawnWorker([u EXCEPT !.watch.batch = @ \ {m}], m))
      PROVE  v.stop = u.stop
  BY <1>0, <1>1 DEF SendText, SpawnWorker, Server
<1>2. ASSUME NEW f \in SpawnFailed(u),
             v = SendText([f EXCEPT !.watch.batch = {}, !.watch.baseline = FALSE])
      PROVE  v.stop = u.stop
  BY <1>0, <1>2 DEF SendText, SpawnFailed, Server
<1> QED BY <1>1, <1>2 DEF StartNextModule

\* Nor does the batch of the pending changes.
LEMMA PendingKeepsStop ==
  ASSUME NEW u, Sound(u), Watching(u), u.job = NoJob, NEW v \in HandlePendingBatch(u)
  PROVE  v.stop = u.stop
<1>0. u \in Server /\ u.watch \in Watch /\ u.watch.session \in Sessions BY DEF Server, Watch
<1> DEFINE q == IF u.watch.rescan THEN {} ELSE u.watch.inq
           w == [u EXCEPT !.watch.rerun = FALSE, !.watch.changed = {},
                          !.watch.rescan = FALSE, !.watch.inq = q]
           x == [w EXCEPT !.watch.batch = RoutedModules(u), !.watch.baseline = FALSE]
<1>1. q \in SUBSET (Paths \cup {"lost"}) BY <1>0 DEF Watch
<1> HIDE DEF q
<1>2. Sound(w) /\ w.job = NoJob /\ Watching(w) /\ w.watch.session = u.watch.session /\ w.stop = u.stop
  BY <1>0, <1>1 DEF Server, Watch
<1>3. RoutedModules(u) \subseteq u.watch.session.targets /\ RoutedModules(u) \subseteq Modules
  BY <1>0, TargetsType DEF RoutedModules
<1> HIDE DEF w
<1>4. Sound(x) /\ x.stop = u.stop
  BY <1>2, <1>3 DEF Server, Watch
<1> HIDE DEF x
<1>5. CASE v = ResetSession(u) BY <1>0, <1>5 DEF ResetSession, Server
<1>6. CASE v = SendText(w) BY <1>2, <1>6 DEF SendText, Server
<1>7. CASE v \in StartNextModule(x)
  <2> HIDE DEF Sound, Watching
  <2> QED BY <1>4, <1>7, StartKeepsStop
<1> QED BY <1>5, <1>6, <1>7 DEF HandlePendingBatch, q, w, x

\* Once shutdown has begun, the end of a run starts no other: the session is
\* closed with it.
LEMMA FinishAfterStop ==
  ASSUME NEW s, Sound(s), s.job # NoJob, NEW t \in FinishActiveRun(s)
  PROVE  /\ s.stop # "no" => t.pipes = s.pipes \/ t.pipes = {}
         /\ s.stop # "no" => StopHasRun(t)
         /\ s.stop = "no" => t.stop = "no"
<1>0. s \in Server /\ s.watch \in Watch /\ s.watch.closing \in BOOLEAN
  BY DEF Server, Watch
<1>1. CASE ~s.reaped \/ s.pipes # {}
  BY <1>1 DEF FinishActiveRun, StopHasRun
<1> DEFINE Ended(u) == u.job = NoJob /\ u.pipes = {} /\ (s.stop = "no" => u.stop = "no")
<1>2. ASSUME NEW u \in Server, Ended(u)
      PROVE  Ended(ResetSession(u)) /\ ~Watching(ResetSession(u))
  BY <1>2, NoWatchType DEF ResetSession, Server
<1>5. CASE s.reaped /\ s.pipes = {} /\ t \in FinishCancelled(s) /\ Watching(s)
  <2> DEFINE b == SendText(s)
             a == [b EXCEPT !.watch.stale = FALSE]
             u == ResetWorker(a, s.watch.closing)
  <2>b. Sound(b) /\ b.watch = s.watch /\ b.stop = s.stop
    BY <1>0, SendTextSound DEF SendText, Server
  <2> HIDE DEF b
  <2>1. Sound(a) /\ a.watch.session = s.watch.session /\ a.watch.stale = FALSE /\ a.stop = s.stop
        /\ a.watch.closing = s.watch.closing
    BY <1>0, <1>5, <2>b DEF Server, Watch
  <2> HIDE DEF a
  <2>2. Sound(u) /\ u.job = NoJob /\ u.pipes = {} /\ u.watch = a.watch
    <3> HIDE DEF Sound
    <3> QED BY <1>0, <2>1, ResetWorkerSound
  <2>3. u.stop = IF a.stop = "force" THEN "drain" ELSE a.stop
    BY <2>1 DEF ResetWorker, Server
  <2> HIDE DEF u
  <2>4. Ended(u) /\ Watching(u) /\ u \in Server BY <1>5, <2>1, <2>2, <2>3
  <2>5. CASE s.stop # "no"
    <3>1. t = ResetSession(u) BY <1>0, <1>5, <2>5 DEF FinishCancelled, a, b, u
    <3> QED BY <1>2, <1>5, <2>4, <2>5, <3>1 DEF StopHasRun
  <2>6. CASE s.stop = "no"
    <3>1. t = ResetSession(u) \/ t \in HandlePendingBatch(u) \/ t = u
      BY <1>5 DEF FinishCancelled, a, b, u
    <3>2. u.stop = "no" BY <2>4, <2>6
    <3>3. ResetSession(u).stop = "no" BY <2>4, <3>2 DEF ResetSession, Server
    <3> HIDE DEF Sound, Watching
    <3> QED BY <2>2, <2>4, <2>6, <3>1, <3>2, <3>3, PendingKeepsStop
  <2> QED BY <2>5, <2>6
<1>6. CASE /\ s.reaped /\ s.pipes = {} /\ ~(Watching(s) /\ s.watch.stale)
           /\ \E ok \in BOOLEAN : t \in FinishReported(s, ok)
  <2>0. PICK ok \in BOOLEAN : t \in FinishReported(s, ok)
    BY <1>6
  <2>1. CASE t = ResetSession([s EXCEPT !.client = "none"])
    BY <1>0, <2>1, <1>6, NoWatchType DEF ResetSession, Server, StopHasRun
  <2>2. CASE t = [s EXCEPT !.client = "none", !.buffered = "none"]
    BY <1>0, <1>6, <2>2 DEF Server, StopHasRun
  <2> DEFINE u == ResetWorker(SendText(s), ~Watching(s))
  <2>3. Sound(u) /\ u.job = NoJob /\ u.pipes = {} /\ u.watch = s.watch /\ u.stop = IF s.stop = "force" THEN "drain" ELSE s.stop
    <3> DEFINE b == SendText(s)
               c == ~Watching(s)
    <3>1. Sound(b) /\ b.watch = s.watch /\ b.stop = s.stop BY <1>0, SendTextSound DEF SendText, Server
    <3>2. c \in BOOLEAN OBVIOUS
    <3>3. s.watch.stale = FALSE BY <1>0, <1>6, NoWatchType DEF Watch
    <3> HIDE DEF b, c
    <3>4. /\ Sound(ResetWorker(b, c)) /\ ResetWorker(b, c).job = NoJob
          /\ ResetWorker(b, c).pipes = {} /\ ResetWorker(b, c).watch = b.watch
      <4> HIDE DEF Sound, Watching
      <4> QED BY <3>1, <3>2, <3>3, ResetWorkerSound
    <3>5. ResetWorker(b, c).stop = IF b.stop = "force" THEN "drain" ELSE b.stop
      BY <3>1 DEF ResetWorker, Server
    <3> QED BY <3>1, <3>4, <3>5 DEF b, c
  <2> HIDE DEF u
  <2>4. Ended(u) /\ u \in Server BY <1>6, <2>3
  <2>5. CASE t = u /\ ~Watching(s)
    BY <1>6, <2>3, <2>4, <2>5 DEF StopHasRun
  <2>6. CASE t = ResetSession(u)
    BY <1>2, <1>6, <2>4, <2>6 DEF StopHasRun
  <2>7. CASE Watching(s) /\ s.stop = "no" /\ (t \in StartNextModule(u) \/ t \in HandlePendingBatch(u) \/ t = u)
    <3>1. Watching(u) /\ u.stop = "no" BY <2>3, <2>7
    <3> HIDE DEF Sound, Watching
    <3> QED BY <2>3, <2>7, <3>1, StartKeepsStop, PendingKeepsStop
  <2>8. Watching(s) /\ s.stop # "no" => u.watch.closing BY <2>3
  <2> QED BY <2>0, <2>1, <2>2, <2>5, <2>6, <2>7, <2>8 DEF FinishReported, u
<1> QED BY <1>1, <1>5, <1>6 DEF FinishActiveRun

\* What a step may do to the shutdown, the session and the worker.
AfterStop == StopHasRun(srv') /\ (srv.stop # "no" => ~Spawned(srv'))

\* A handler that keeps the worker, the session and the shutdown.
LEMMA KeepAfterStop ==
  ASSUME StopHasRun(srv), srv'.stop = srv.stop, srv'.job = srv.job, srv'.pipes = srv.pipes,
         srv'.watch.session = srv.watch.session
  PROVE  AfterStop
  BY DEF StopHasRun, AfterStop, Spawned

\* The loop is left with nothing running and no session.
LEMMA ExitAfterStop ==
  ASSUME NEW t \in Server, Exit(t)
  PROVE  AfterStop
<1> DEFINE u == ResetWorker(t, TRUE)
<1>1. u \in Server /\ u.job = NoJob /\ u.pipes = {}
  BY ZenonT(40) DEF ResetWorker, Server
<1> HIDE DEF u
<1>2. ResetSession(u).pipes = {} /\ ~Watching(ResetSession(u))
  BY <1>1, NoWatchType DEF ResetSession, Server
<1>3. srv' = ResetSession(u) BY DEF Exit, u
<1> QED BY <1>2, <1>3 DEF AfterStop, StopHasRun, Spawned, Pipes

\* Requests are admitted only before shutdown.
LEMMA RequestAfterStop ==
  ASSUME IInv, StopHasRun(srv),
         (\E m \in Modules : RunRequest(m)) \/ (\E w \in Sessions : WatchRequest(w))
  PROVE  AfterStop
<1>0. srv.stop = "no" /\ srv \in Server /\ Sound(srv) /\ srv.job = NoJob /\ ~Watching(srv)
  BY DEF RunRequest, WatchRequest, EffectiveState, IInv
<1>1. ASSUME NEW m \in Modules, RunRequest(m) PROVE srv'.stop = "no"
  <2>1. CASE srv' = SpawnWorker([srv EXCEPT !.client = "attached"], m) \/ srv' = [srv EXCEPT !.client = "gone"]
    BY <1>0, <2>1 DEF SpawnWorker, Server
  <2>2. ASSUME NEW f \in SpawnFailed(srv), srv' = [f EXCEPT !.client = "none"] PROVE srv'.stop = "no"
    <3>1. f \in Server /\ f.stop = "no" BY <1>0, <2>2, SpawnFailedSound
    <3> QED BY <2>2, <3>1 DEF Server
  <2> QED BY <1>1, <2>1, <2>2 DEF RunRequest, Return
<1>2. ASSUME NEW w \in Sessions, WatchRequest(w) PROVE srv'.stop = "no"
  <2>1. ASSUME NEW c \in {"attached", "none"}, NEW r \in BOOLEAN,
               NEW t \in (IF w.mode = "module" THEN StartNextModule(OpenSession(srv, w, c, r))
                          ELSE {OpenSession(srv, w, c, r)}),
               Return(t, proc)
        PROVE  srv'.stop = "no"
    <3> DEFINE b  == IF w.mode = "module" THEN w.targets ELSE {}
               bl == w.mode = "module"
               x  == [srv.watch EXCEPT !.session = w, !.rescan = r, !.batch = b, !.baseline = bl]
               s  == OpenSession(srv, w, c, r)
    <3>1. b \subseteq w.targets /\ b \subseteq Modules /\ bl \in BOOLEAN /\ w # NoSession
      BY TargetsType
    <3>2. s = [srv EXCEPT !.state = "watching", !.client = c, !.watch = x]
      BY DEF OpenSession
    <3> HIDE DEF b, bl, s
    <3>3. x \in Watch /\ x.session = w /\ x.batch = b /\ x.stale = FALSE
      BY <1>0, <3>1, NoWatchType DEF Server, Watch
    <3> HIDE DEF x
    <3>4. Sound(s) /\ s.stop = "no" BY <1>0, <3>1, <3>2, <3>3 DEF Server
    <3>5. t.stop = "no" BY <2>1, <3>4, StartKeepsStop DEF s
    <3> QED BY <2>1, <3>5 DEF Return
  <2>2. CASE Return(ResetSession(srv), proc) BY <1>0, <2>2 DEF Return, ResetSession, Server
  <2> QED BY <1>2, <2>1, <2>2 DEF WatchRequest
<1> QED BY <1>0, <1>1, <1>2 DEF AfterStop, StopHasRun

\* A stop that cannot be lost on its way back to the client finds a run that
\* will close the session, or ends the loop.
LEMMA StopAfterStop ==
  ASSUME "client" \notin Faults, IInv, StopHasRun(srv), Stop \/ StopForce \/ OnSignal
  PROVE  AfterStop
<1>0. srv \in Server /\ Sound(srv) BY DEF IInv
<1>1. ASSUME NEW how \in {"drain", "force"}
      PROVE  /\ BeginStop(srv, how) \in Server /\ BeginStop(srv, how).job = srv.job
             /\ BeginStop(srv, how).pipes = srv.pipes
  BY <1>0, <1>1, BeginStopSound DEF SameWorker
<1>2. ASSUME NEW how \in {"drain", "force"}, srv.job # NoJob, NEW a, NEW b,
             srv' = BeginStop(srv, how) \/ srv' = BeginWorkerCancel(BeginStop(srv, how), a, b)
      PROVE  AfterStop
  <2> DEFINE s == BeginStop(srv, how)
  <2>1. s \in Server /\ s.job = srv.job /\ s.pipes = srv.pipes BY <1>1
  <2> HIDE DEF s
  <2>2. srv' = s \/ srv' = BeginWorkerCancel(s, a, b) BY <1>2 DEF s
  <2>3. srv'.job = srv.job /\ srv'.pipes = srv.pipes BY <2>1, <2>2 DEF BeginWorkerCancel, Server
  <2> QED BY <1>2, <2>3 DEF AfterStop, StopHasRun, Spawned
<1>3. ASSUME NEW how \in {"drain", "force"},
             Exit(BeginStop(srv, how)) \/ Exit(ResetSession(BeginStop(srv, how)))
      PROVE  AfterStop
  <2>1. BeginStop(srv, how) \in Server /\ ResetSession(BeginStop(srv, how)) \in Server
    BY <1>0, BeginStopSound, ResetSessionSound
  <2> QED BY <1>3, <2>1, ExitAfterStop
<1>4. CASE Stop BY <1>2, <1>3, <1>4 DEF Stop, Return, Faulty
<1>5. CASE StopForce BY <1>2, <1>3, <1>5 DEF StopForce, Return, Faulty
<1>6. CASE OnSignal BY <1>2, <1>3, <1>6 DEF OnSignal, Return
<1> QED BY <1>4, <1>5, <1>6

\* Pending changes start a batch only before shutdown: after it, a session
\* without a run is gone.
LEMMA DebounceAfterStop ==
  ASSUME IInv, StopHasRun(srv), OnWatchDebounce
  PROVE  AfterStop
<1>0. srv \in Server /\ srv.watch \in Watch /\ Sound(srv) BY DEF IInv, Server
<1> DEFINE s == [srv EXCEPT !.watch.debounce = FALSE]
           x == IF s.watch.stale THEN s ELSE SendText(s)
           y == [x EXCEPT !.watch.rerun = TRUE]
<1>1. Watching(srv) BY DEF OnWatchDebounce, IInv, NoWatch
<1>2. Sound(s) /\ Watching(s) /\ s.stop = srv.stop /\ s.job = srv.job /\ s.pipes = srv.pipes
      /\ s.watch.session = srv.watch.session
  BY <1>0, <1>1 DEF Server, Watch
<1> HIDE DEF s
<1>3. CASE srv' = s BY <1>2, <1>3, KeepAfterStop
<1>4. ASSUME s.job # NoJob, srv' = BeginWorkerCancel(y, TRUE, FALSE) PROVE AfterStop
  <2>1. x \in Server /\ x.watch \in Watch /\ x.stop = srv.stop /\ x.job = srv.job /\ x.pipes = srv.pipes
        /\ x.watch.session = srv.watch.session
    BY <1>2 DEF SendText, Server
  <2> HIDE DEF x
  <2>2. y \in Server /\ y.watch \in Watch /\ y.stop = srv.stop /\ y.job = srv.job /\ y.pipes = srv.pipes
        /\ y.watch.session = srv.watch.session
    BY <2>1 DEF Server, Watch
  <2> HIDE DEF y
  <2>3. srv'.stop = srv.stop /\ srv'.job = srv.job /\ srv'.pipes = srv.pipes
        /\ srv'.watch.session = srv.watch.session
    BY <1>4, <2>2 DEF BeginWorkerCancel, Server, Watch
  <2> QED BY <2>3, KeepAfterStop
<1>5. ASSUME s.job = NoJob, NEW t \in HandlePendingBatch(s), srv' = t PROVE AfterStop
  <2>1. srv.stop = "no" BY <1>1, <1>2, <1>5 DEF StopHasRun
  <2>2. t.stop = "no"
    <3> HIDE DEF Sound, Watching
    <3> QED BY <1>2, <1>5, <2>1, PendingKeepsStop
  <2> QED BY <1>5, <2>1, <2>2 DEF AfterStop, StopHasRun
<1> QED BY <1>3, <1>4, <1>5 DEF OnWatchDebounce, Return, s, x, y

\* The events and handlers that have nothing to do with starting or stopping.
LEMMA OtherAfterStop ==
  ASSUME IInv, StopHasRun(srv),
         \/ (\E p \in Paths : Save(p)) \/ LoseEvents \/ PeerCloses
         \/ (\E how \in {"piped", "logged"} : ChildStart(how)) \/ ChildEnd \/ WorkerExit
         \/ OnWatchInotify \/ OnWatchClient \/ OnWorkerOutput \/ OnKillTimer \/ UNCHANGED vars
  PROVE  AfterStop
<1>0. srv \in Server /\ srv.watch \in Watch BY DEF IInv, Server
<1>1. ASSUME NEW w, srv' = [srv EXCEPT !.watch = w], w.session = srv.watch.session PROVE AfterStop
  BY <1>0, <1>1, KeepAfterStop DEF Server
<1>2. ASSUME NEW p \in Paths, Save(p) PROVE AfterStop
  <2> DEFINE w == [srv.watch EXCEPT !.inq = @ \cup {p}]
  <2>1. srv' = [srv EXCEPT !.watch = w] BY <1>2 DEF Save
  <2>2. w.session = srv.watch.session BY <1>0 DEF Watch
  <2> HIDE DEF w
  <2> QED BY <1>1, <2>1, <2>2
<1>3. CASE LoseEvents
  <2> DEFINE w == [srv.watch EXCEPT !.inq = {"lost"}]
  <2>1. srv' = [srv EXCEPT !.watch = w] BY <1>3 DEF LoseEvents
  <2>2. w.session = srv.watch.session BY <1>0 DEF Watch
  <2> HIDE DEF w
  <2> QED BY <1>1, <2>1, <2>2
<1>4. CASE OnWatchInotify
  <2> DEFINE w == [srv.watch EXCEPT !.inq = {}, !.changed = @ \cup (srv.watch.inq \cap Paths),
                                    !.rescan = @ \/ "lost" \in srv.watch.inq, !.debounce = TRUE]
  <2>1. srv' = [srv EXCEPT !.watch = w] BY <1>4 DEF OnWatchInotify, Return
  <2>2. w.session = srv.watch.session BY <1>0 DEF Watch
  <2> HIDE DEF w
  <2> QED BY <1>1, <2>1, <2>2
<1>5. CASE PeerCloses \/ OnWatchClient
  BY <1>0, <1>5, KeepAfterStop DEF PeerCloses, OnWatchClient, Return, Server
<1>6. CASE OnWorkerOutput
  BY <1>0, <1>6, KeepAfterStop DEF OnWorkerOutput, Return, SendText, Server
<1>7. CASE OnKillTimer
  BY <1>0, <1>7, KeepAfterStop DEF OnKillTimer, Return, Server
<1>8. CASE (\E how \in {"piped", "logged"} : ChildStart(how)) \/ ChildEnd \/ WorkerExit \/ UNCHANGED vars
  BY <1>8, KeepAfterStop DEF ChildStart, ChildEnd, WorkerExit, vars
<1> QED BY <1>2, <1>3, <1>4, <1>5, <1>6, <1>7, <1>8

\* The end of a run.
LEMMA RunEndAfterStop ==
  ASSUME IInv, StopHasRun(srv), OnWorkerPidfd \/ \E p \in Pipes : OnWorkerPipe(p)
  PROVE  AfterStop
<1>0. Sound(srv) /\ srv \in Server /\ srv.job # NoJob
  BY DEF OnWorkerPidfd, OnWorkerPipe, Running, IInv, WorkerSupervised
<1>1. ASSUME NEW s, Sound(s), s.job # NoJob, s.stop = srv.stop, s.pipes \subseteq srv.pipes, NEW base,
             ReturnFromFinish(s, base)
      PROVE  AfterStop
  <2>1. PICK t \in FinishActiveRun(s) : IF Drained(t) THEN Exit(t) ELSE Return(t, base)
    BY <1>1 DEF ReturnFromFinish
  <2>2. /\ s.stop # "no" => t.pipes = s.pipes \/ t.pipes = {}
        /\ s.stop # "no" => StopHasRun(t)
        /\ s.stop = "no" => t.stop = "no"
        /\ t \in Server
    <3> HIDE DEF Sound
    <3>1. Sound(t) BY <1>1, FinishActiveRunSound
    <3>2. t \in Server BY <3>1 DEF Sound
    <3> QED BY <1>1, <3>2, FinishAfterStop
  <2>3. CASE Drained(t) BY <2>1, <2>2, <2>3, ExitAfterStop
  <2>4. CASE ~Drained(t)
    <3>1. srv' = t BY <2>1, <2>4 DEF Return
    <3>2. s.pipes = Pipes => srv.pipes = Pipes BY <1>0, <1>1 DEF Server
    <3> QED BY <1>0, <1>1, <2>2, <3>1, <3>2 DEF AfterStop, StopHasRun, Spawned, Pipes
  <2> QED BY <2>3, <2>4
<1>2. CASE OnWorkerPidfd
  <2> DEFINE s == [srv EXCEPT !.reaped = TRUE]
  <2>1. Sound(s) /\ s.job # NoJob /\ s.stop = srv.stop /\ s.pipes = srv.pipes BY <1>0 DEF Server
  <2>2. ReturnFromFinish(s, "none") BY <1>2 DEF OnWorkerPidfd
  <2> HIDE DEF s, Sound
  <2> QED BY <1>1, <2>1, <2>2
<1>3. ASSUME NEW p \in Pipes, OnWorkerPipe(p) PROVE AfterStop
  <2> DEFINE s == [srv EXCEPT !.pipes = @ \ {p}]
  <2>1. Sound(s) /\ s.job # NoJob /\ s.stop = srv.stop /\ s.pipes \subseteq srv.pipes BY <1>0 DEF Server
  <2>2. ReturnFromFinish(s, proc) BY <1>3 DEF OnWorkerPipe
  <2> HIDE DEF s, Sound
  <2> QED BY <1>1, <2>1, <2>2
<1> QED BY <1>2, <1>3

\* After stop, stop --force, SIGINT or SIGTERM no handler calls
\* daemon_spawn_worker, as long as the answer to the request can be sent.
THEOREM NothingAfterStop ==
  ASSUME "client" \notin Faults
  PROVE  Spec => NoRunAfterStop
<1>1. Init => StopHasRun(srv) BY DEF Init, InitServer, StopHasRun
<1>2. IInv /\ StopHasRun(srv) /\ [Next]_vars => StopHasRun(srv)' /\ (srv.stop # "no" => ~Spawned(srv'))
  <2> SUFFICES ASSUME IInv, StopHasRun(srv), [Next]_vars
               PROVE  StopHasRun(srv)' /\ (srv.stop # "no" => ~Spawned(srv'))
    OBVIOUS
  <2>1. AfterStop
    BY RequestAfterStop, StopAfterStop, DebounceAfterStop, OtherAfterStop, RunEndAfterStop
       DEF Next, Request, Environment, Handler
  <2> QED BY <2>1 DEF AfterStop
<1> QED BY <1>1, <1>2, IInvHolds, PTL DEF Spec, NoRunAfterStop

-----------------------------------------------------------------------------
(* No save is forgotten.                                                   *)

\* What the changes that were read and the events that are queued will start.
FromChanges(s) ==
  (IF s.watch.rescan \/ "lost" \in s.watch.inq THEN s.watch.session.targets ELSE {})
  \cup UNION {Route[p] : p \in s.watch.changed \cup (s.watch.inq \cap Paths)}

\* Scheduled, of any server record.
DueRuns(s) ==
  (IF s.job # NoJob /\ ~s.watch.stale THEN s.watch.batch ELSE {}) \cup FromChanges(s)

\* The modules of D have unsaved changes of the session of s, and will run.
Covers(s, D) ==
  IF Watching(s) THEN /\ D \subseteq s.watch.session.targets
                      /\ ~s.watch.closing => D \subseteq DueRuns(s)
  ELSE D = {}

\* Every file concerns every module.
EveryFileConcernsAll == \A p \in Paths : Modules \subseteq Route[p]

\* With that, one change read is enough for all modules to be due.
LEMMA ChangesConcernAll ==
  ASSUME EveryFileConcernsAll, NEW s \in Server, s.watch.changed # {} \/ s.watch.rescan, Watching(s)
  PROVE  s.watch.session.targets \subseteq FromChanges(s) /\ s.watch.session.targets \subseteq RoutedModules(s)
<1>0. s.watch \in Watch BY DEF Server
<1>1. s.watch.session.targets \subseteq Modules BY <1>0, TargetsType DEF Watch
<1>2. CASE s.watch.rescan BY <1>2 DEF FromChanges, RoutedModules
<1>3. CASE s.watch.changed # {}
  <2>1. PICK p \in s.watch.changed : p \in Paths BY <1>0, <1>3 DEF Watch
  <2>2. Modules \subseteq Route[p] BY <2>1 DEF EveryFileConcernsAll
  <2> QED BY <1>1, <2>1, <2>2 DEF FromChanges, RoutedModules
<1> QED BY <1>2, <1>3

\* The next module of a batch is started, and the rest of the batch stays due.
LEMMA StartNextCovers ==
  ASSUME "resource" \notin Faults, NEW s, Sound(s), s.job = NoJob, Watching(s), NEW D,
         D \subseteq s.watch.session.targets,
         ~s.watch.closing => D \subseteq s.watch.batch \cup FromChanges(s),
         NEW t \in StartNextModule(s)
  PROVE  Fresh(t) /\ Watching(t) /\ t.watch.stale = FALSE /\ Covers(t, D \ {t.job})
<1>0. s \in Server /\ s.watch.session \in Sessions /\ s.watch \in Watch /\ s.watch.stale = FALSE
  BY DEF Server, Watch
<1>1. PICK m \in s.watch.batch : t = SendText(SpawnWorker([s EXCEPT !.watch.batch = @ \ {m}], m))
  BY DEF StartNextModule
<1>2. m \in Modules BY <1>0, TargetsType
<1> DEFINE w == [s.watch EXCEPT !.batch = @ \ {m}]
           u == [s EXCEPT !.watch = w]
           v == SpawnWorker(u, m)
<1>3. /\ w \in Watch /\ w.session = s.watch.session /\ w.stale = FALSE /\ w.batch = s.watch.batch \ {m}
      /\ w.closing = s.watch.closing
      /\ w.rescan = s.watch.rescan /\ w.inq = s.watch.inq /\ w.changed = s.watch.changed
  BY <1>0 DEF Watch
<1> HIDE DEF w
<1>4. u \in Server /\ u.watch = w /\ u.cancel = FALSE /\ u.timer = "off" BY <1>0, <1>3 DEF Server
<1> HIDE DEF u
<1>5. v \in Server /\ v.watch = w /\ v.job = m /\ Fresh(v)
  BY <1>2, <1>4 DEF SpawnWorker, Server, Fresh, Pipes
<1> HIDE DEF v
<1>6. SendText(v).watch = w /\ SendText(v).job = m /\ Fresh(SendText(v))
  BY <1>5 DEF SendText, Server, Fresh
<1>7. t = SendText(v) BY <1>1 DEF u, v, w
<1>8. t.watch = w /\ t.job = m /\ Fresh(t) BY <1>6, <1>7
<1>9. m # NoJob BY <1>2, DaemonAssumption
<1>10. FromChanges(t) = FromChanges(s) BY <1>3, <1>8 DEF FromChanges
<1>11. DueRuns(t) = w.batch \cup FromChanges(s) BY <1>3, <1>8, <1>9, <1>10 DEF DueRuns
<1> QED BY <1>3, <1>8, <1>11 DEF Covers

\* The pending changes become the batch: what they owed is started or due.
LEMMA PendingCovers ==
  ASSUME "resource" \notin Faults, EveryFileConcernsAll,
         NEW s, Sound(s), s.job = NoJob, Watching(s), NEW D,
         D \subseteq s.watch.session.targets,
         ~s.watch.closing => D \subseteq FromChanges(s),
         NEW t \in HandlePendingBatch(s)
  PROVE  /\ t.watch.stale = FALSE
         /\ \/ t.job = NoJob /\ Covers(t, D)
            \/ Fresh(t) /\ Watching(t) /\ Covers(t, D \ {t.job})
<1>0. s \in Server /\ s.watch.session \in Sessions /\ s.watch \in Watch /\ s.watch.stale = FALSE
  BY DEF Server, Watch
<1> DEFINE q == IF s.watch.rescan THEN {} ELSE s.watch.inq
           w == [s.watch EXCEPT !.rerun = FALSE, !.changed = {}, !.rescan = FALSE, !.inq = q]
           u == [s EXCEPT !.watch = w]
           x == [w EXCEPT !.batch = RoutedModules(s), !.baseline = FALSE]
           v == [u EXCEPT !.watch = x]
<1>1. q \in SUBSET (Paths \cup {"lost"}) /\ (~s.watch.rescan => q = s.watch.inq) BY <1>0 DEF Watch
<1> HIDE DEF q
<1>2. /\ w \in Watch /\ w.session = s.watch.session /\ w.stale = FALSE /\ w.closing = s.watch.closing
      /\ w.rescan = FALSE /\ w.inq = q /\ w.changed = {} /\ w.batch = s.watch.batch
  BY <1>0, <1>1 DEF Watch
<1> HIDE DEF w
<1>3. RoutedModules(s) \subseteq s.watch.session.targets /\ RoutedModules(s) \subseteq Modules
  BY <1>0, TargetsType DEF RoutedModules
<1>4. /\ x \in Watch /\ x.session = s.watch.session /\ x.stale = FALSE /\ x.closing = s.watch.closing
      /\ x.rescan = FALSE /\ x.inq = q /\ x.changed = {} /\ x.batch = RoutedModules(s)
  BY <1>2, <1>3 DEF Watch
<1> HIDE DEF x
<1>5. u \in Server /\ u.watch = w /\ Sound(u) /\ u.job = NoJob /\ Watching(u)
  BY <1>0, <1>2 DEF Server
<1> HIDE DEF u
<1>6. Sound(v) /\ v.watch = x /\ v.job = NoJob /\ Watching(v)
  BY <1>0, <1>2, <1>3, <1>4, <1>5 DEF Server
<1> HIDE DEF v
<1>7. CASE ~s.watch.rescan /\ s.watch.changed = {}
  <2>1. RoutedModules(s) = {} BY <1>7 DEF RoutedModules
  <2>2. t = SendText(u) BY <1>7, <2>1 DEF HandlePendingBatch, q, w, u
  <2>3. t.watch = w /\ t.job = NoJob BY <1>5, <2>2 DEF SendText, Server
  <2>4. FromChanges(t) = FromChanges(s) BY <1>0, <1>1, <1>2, <1>7, <2>3 DEF FromChanges, Watch
  <2> QED BY <1>2, <2>3, <2>4 DEF Covers, DueRuns
<1>8. CASE s.watch.rescan \/ s.watch.changed # {}
  <2>1. s.watch.session.targets = RoutedModules(s) BY <1>0, <1>3, <1>8, ChangesConcernAll
  <2>2. CASE RoutedModules(s) = {}
    <3>1. t = SendText(u) BY <2>2 DEF HandlePendingBatch, q, w, u
    <3>2. t.watch = w /\ t.job = NoJob BY <1>5, <3>1 DEF SendText, Server
    <3>3. D = {} BY <2>1, <2>2
    <3> QED BY <1>2, <3>2, <3>3 DEF Covers
  <2>3. CASE t \in StartNextModule(v)
    <3>1. D \subseteq v.watch.session.targets /\ D \subseteq v.watch.batch BY <1>4, <1>6, <2>1
    <3> HIDE DEF Sound, Watching
    <3> QED BY <1>6, <2>3, <3>1, StartNextCovers
  <2> QED BY <2>2, <2>3 DEF HandlePendingBatch, q, w, u, x, v
<1> QED BY <1>7, <1>8

\* A run that ends, reported or cancelled, leaves every owed module due, or the
\* session is over.
LEMMA FinishCovers ==
  ASSUME "resource" \notin Faults, EveryFileConcernsAll,
         NEW s, Sound(s), s.job # NoJob, NEW D, Covers(s, D),
         NEW t \in FinishActiveRun(s)
  PROVE  \/ t = s
         \/ ~Watching(t)
         \/ t.watch.stale = FALSE /\ t.job = NoJob /\ Covers(t, D)
         \/ s.pipes = {} /\ t.watch.stale = FALSE /\ Fresh(t) /\ Watching(t) /\ Covers(t, D \ {t.job})
<1>0. s \in Server /\ s.watch \in Watch /\ s.watch.closing \in BOOLEAN
  BY DEF Server, Watch
<1>1. CASE ~s.reaped \/ s.pipes # {} BY <1>1 DEF FinishActiveRun
<1>2. ASSUME NEW u \in Server PROVE ~Watching(ResetSession(u))
  BY <1>2, NoWatchType DEF ResetSession, Server
<1>3. CASE s.reaped /\ s.pipes = {} /\ t \in FinishCancelled(s) /\ Watching(s) /\ s.watch.stale
  <2> DEFINE b == SendText(s)
             w == [s.watch EXCEPT !.stale = FALSE]
             a == [b EXCEPT !.watch = w]
             u == ResetWorker(a, s.watch.closing)
  <2>1. Sound(b) /\ b.watch = s.watch BY SendTextSound
  <2> HIDE DEF b
  <2>2. /\ w \in Watch /\ w.stale = FALSE /\ w.session = s.watch.session /\ w.closing = s.watch.closing
        /\ w.batch = s.watch.batch
        /\ w.rescan = s.watch.rescan /\ w.inq = s.watch.inq /\ w.changed = s.watch.changed
    BY <1>0 DEF Watch
  <2> HIDE DEF w
  <2>3. Sound(a) /\ a.watch = w BY <1>0, <1>3, <2>1, <2>2 DEF Server
  <2> HIDE DEF a
  <2>4. Sound(u) /\ u.job = NoJob /\ u.watch = w
    <3> HIDE DEF Sound
    <3> QED BY <1>0, <2>2, <2>3, ResetWorkerSound
  <2> HIDE DEF u
  <2>5. u \in Server /\ Watching(u) BY <1>3, <2>2, <2>4
  <2>6. b.watch = s.watch => [b EXCEPT !.watch.stale = FALSE] = [b EXCEPT !.watch = w] BY DEF w
  <2>7. t \in (IF s.watch.closing THEN {ResetSession(u)} ELSE IF Pending(u) THEN HandlePendingBatch(u) ELSE {u})
    BY <1>3, <2>1, <2>6 DEF FinishCancelled, a, b, u
  <2>8. CASE s.watch.closing BY <1>2, <2>5, <2>7, <2>8
  <2>9. CASE ~s.watch.closing
    <3>1. FromChanges(u) = FromChanges(s) BY <2>2, <2>4 DEF FromChanges
    <3>2. D \subseteq u.watch.session.targets /\ D \subseteq FromChanges(u)
      BY <1>3, <2>2, <2>4, <2>9, <3>1 DEF Covers, DueRuns
    <3>3. CASE t \in HandlePendingBatch(u)
      <4> HIDE DEF Sound, Watching
      <4> QED BY <1>3, <2>4, <2>5, <3>2, <3>3, PendingCovers
    <3>4. CASE t = u BY <2>2, <2>4, <2>5, <3>2, <3>4 DEF Covers, DueRuns
    <3> QED BY <2>7, <2>9, <3>3, <3>4
  <2> QED BY <2>8, <2>9
<1>4. CASE /\ s.reaped /\ s.pipes = {} /\ ~(Watching(s) /\ s.watch.stale)
           /\ \E ok \in BOOLEAN : t \in FinishReported(s, ok)
  <2>0. PICK ok \in BOOLEAN : t \in FinishReported(s, ok) BY <1>4
  <2>1. CASE t = ResetSession([s EXCEPT !.client = "none"])
    <3>1. [s EXCEPT !.client = "none"] \in Server BY <1>0 DEF Server
    <3> QED BY <1>2, <2>1, <3>1
  <2>2. CASE t = [s EXCEPT !.client = "none", !.buffered = "none"] /\ ~Watching(s)
    BY <1>0, <2>2 DEF Server
  <2> DEFINE u == ResetWorker(SendText(s), ~Watching(s))
  <2>3. Sound(u) /\ u.job = NoJob /\ u.watch = s.watch
    <3>1. Sound(SendText(s)) /\ SendText(s).watch = s.watch BY SendTextSound
    <3>2. (~Watching(s)) \in BOOLEAN OBVIOUS
    <3>3. s.watch.stale = FALSE BY <1>0, <1>4, NoWatchType DEF Watch
    <3> HIDE DEF Sound, Watching
    <3> QED BY <3>1, <3>2, <3>3, ResetWorkerSound
  <2> HIDE DEF u
  <2>4. u \in Server BY <2>3
  <2>5. CASE t = u /\ ~Watching(s) BY <2>3, <2>5
  <2>6. CASE t = ResetSession(u) BY <1>2, <2>4, <2>6
  <2>7. CASE Watching(s) /\ ~u.watch.closing /\
             (\/ t \in StartNextModule(u)
              \/ u.watch.batch = {} /\ (t \in HandlePendingBatch(u) \/ t = u))
    <3>1. Watching(u) /\ u.watch.stale = FALSE BY <1>0, <1>4, <2>3, <2>7 DEF Watch
    <3>2. FromChanges(u) = FromChanges(s) BY <2>3 DEF FromChanges
    <3>3. D \subseteq u.watch.session.targets /\ D \subseteq u.watch.batch \cup FromChanges(u)
      BY <2>3, <2>7, <3>1, <3>2 DEF Covers, DueRuns
    <3>4. CASE t \in StartNextModule(u)
      <4> HIDE DEF Sound, Watching
      <4> QED BY <1>4, <2>3, <3>1, <3>3, <3>4, StartNextCovers
    <3>5. CASE u.watch.batch = {} /\ t \in HandlePendingBatch(u)
      <4>1. D \subseteq FromChanges(u) BY <3>3, <3>5
      <4> HIDE DEF Sound, Watching
      <4> QED BY <1>4, <2>3, <3>1, <3>3, <3>5, <4>1, PendingCovers
    <3>6. CASE u.watch.batch = {} /\ t = u BY <2>3, <3>1, <3>3, <3>6 DEF Covers, DueRuns
    <3> QED BY <2>7, <3>4, <3>5, <3>6
  <2>8. FinishReported(s, ok) =
          IF FlushFails(s, ok) THEN {ResetSession([s EXCEPT !.client = "none"])}
          ELSE IF SummaryFails(s) THEN {[s EXCEPT !.client = "none", !.buffered = "none"]}
          ELSE IF ~Watching(s) THEN {u}
          ELSE IF u.watch.closing THEN {ResetSession(u)}
          ELSE IF u.watch.batch # {} THEN StartNextModule(u)
          ELSE IF Pending(u) THEN HandlePendingBatch(u)
          ELSE IF ExitAfterRerun /\ ~u.watch.baseline THEN {ResetSession(u)}
          ELSE {u}
    BY DEF FinishReported, u
  <2>9. SummaryFails(s) => ~Watching(s) BY DEF SummaryFails
  <2> QED BY <2>0, <2>1, <2>2, <2>5, <2>6, <2>7, <2>8, <2>9
<1> QED BY <1>1, <1>3, <1>4 DEF FinishActiveRun

\* What a handler that returns to the loop has to establish.
LEMMA ReturnCovers ==
  ASSUME NEW t, NEW base, Return(t, base),
         \/ ~Watching(t)
         \/ Spawned(t) /\ Covers(t, dirty \ {t.job})
         \/ ~Spawned(t) /\ ~Cancelled(t) /\ Covers(t, dirty)
         \/ ~Spawned(t) /\ Cancelled(t) /\ Covers(t, dirty \cup {t.job})
  PROVE  Covers(srv', dirty')
<1>1. srv' = t BY DEF Return
<1>2. CASE ~Watching(t) BY <1>1, <1>2 DEF Return, Covers
<1>3. CASE Watching(t) /\ Spawned(t)
  <2>1. dirty' = dirty \ {t.job} BY <1>3 DEF Return
  <2> QED BY <1>1, <1>3, <2>1
<1>4. CASE Watching(t) /\ ~Spawned(t) /\ ~Cancelled(t)
  <2>1. dirty' = dirty BY <1>4 DEF Return
  <2> QED BY <1>1, <1>4, <2>1
<1>5. CASE Watching(t) /\ ~Spawned(t) /\ Cancelled(t)
  <2>1. dirty' = dirty \cup {t.job} BY <1>5 DEF Return
  <2> QED BY <1>1, <1>5, <2>1
<1> QED BY <1>2, <1>3, <1>4, <1>5

\* The same for a handler that touches neither the worker nor the session.
LEMMA KeepCovers ==
  ASSUME NEW t, NEW base, Return(t, base), Covers(srv, dirty),
         t.watch = srv.watch, t.job = srv.job, t.pipes = srv.pipes
  PROVE  Covers(srv', dirty')
<1>1. ~Spawned(t) /\ ~Cancelled(t) BY DEF Spawned, Cancelled
<1>2. Covers(t, dirty) BY DEF Covers, DueRuns, FromChanges
<1> QED BY <1>1, <1>2, ReturnCovers

\* The loop is left: nothing is owed any more.
LEMMA ExitCovers ==
  ASSUME NEW t \in Server, Exit(t)
  PROVE  Covers(srv', dirty')
<1> DEFINE u == ResetWorker(t, TRUE)
<1>1. u \in Server BY ZenonT(40) DEF ResetWorker, Server
<1> HIDE DEF u
<1>2. srv' = ResetSession(u) /\ dirty' = {} BY DEF Exit, u
<1>3. ~Watching(ResetSession(u)) BY <1>1, NoWatchType DEF ResetSession, Server
<1> QED BY <1>2, <1>3 DEF Covers

\* Runs and watches are admitted when nothing is owed.
LEMMA RequestCovers ==
  ASSUME "resource" \notin Faults, IInv, Covers(srv, dirty),
         (\E m \in Modules : RunRequest(m)) \/ (\E w \in Sessions : WatchRequest(w))
  PROVE  Covers(srv', dirty')
<1>0. /\ srv.job = NoJob /\ ~Watching(srv) /\ srv.stop = "no" /\ dirty = {}
      /\ Sound(srv) /\ srv \in Server /\ srv.watch = NoWatch
  BY DEF RunRequest, WatchRequest, EffectiveState, IInv, Covers
<1>1. ASSUME NEW t, NEW base, Return(t, base), ~Watching(t) PROVE Covers(srv', dirty')
  BY <1>1, ReturnCovers
<1>2. ASSUME NEW m \in Modules, RunRequest(m) PROVE Covers(srv', dirty')
  <2>1. SpawnWorker([srv EXCEPT !.client = "attached"], m).watch = srv.watch
    BY <1>0 DEF SpawnWorker, Server
  <2>2. [srv EXCEPT !.client = "gone"].watch = srv.watch BY <1>0 DEF Server
  <2>3. RunRequest(m) => \/ Return(SpawnWorker([srv EXCEPT !.client = "attached"], m), proc)
                         \/ Return([srv EXCEPT !.client = "gone"], proc)
    BY DEF RunRequest, Faulty
  <2> QED BY <1>0, <1>1, <1>2, <2>1, <2>2, <2>3
<1>3. ASSUME NEW w \in Sessions, WatchRequest(w) PROVE Covers(srv', dirty')
  <2>0. PICK c \in {"attached", "none"}, r \in BOOLEAN :
          \E t \in (IF w.mode = "module"
                   THEN StartNextModule(OpenSession(srv, w, c, r))
                   ELSE {OpenSession(srv, w, c, r)}) : Return(t, proc)
    BY <1>3 DEF WatchRequest, Faulty
  <2>1. PICK t \in (IF w.mode = "module"
                   THEN StartNextModule(OpenSession(srv, w, c, r))
                   ELSE {OpenSession(srv, w, c, r)}) : Return(t, proc)
    BY <2>0
  <2> DEFINE b  == IF w.mode = "module" THEN w.targets ELSE {}
             bl == w.mode = "module"
             x  == [srv.watch EXCEPT !.session = w, !.rescan = r, !.batch = b,
                                     !.baseline = bl]
             s  == OpenSession(srv, w, c, r)
  <2>2. b \subseteq w.targets /\ b \subseteq Modules /\ bl \in BOOLEAN /\ w # NoSession
    BY TargetsType
  <2>3. s = [srv EXCEPT !.state = "watching", !.client = c, !.watch = x] BY DEF OpenSession
  <2> HIDE DEF b, bl, s
  <2>4. x \in Watch /\ x.session = w /\ x.batch = b /\ x.stale = FALSE
    BY <1>0, <2>2, NoWatchType DEF Server, Watch
  <2> HIDE DEF x
  <2>5. Sound(s) /\ Watching(s) /\ s.job = NoJob /\ s.watch.stale = FALSE
    BY <1>0, <2>2, <2>3, <2>4 DEF Server
  <2>6. t \in StartNextModule(s) \/ t = s BY <2>1 DEF s
  <2>7. CASE t \in StartNextModule(s)
    <3>1. Fresh(t) /\ Watching(t) /\ Covers(t, dirty \ {t.job})
      <4>1. dirty \subseteq s.watch.session.targets /\ dirty \subseteq s.watch.batch \cup FromChanges(s)
        BY <1>0
      <4> HIDE DEF Sound, Watching
      <4> QED BY <2>5, <2>7, <4>1, StartNextCovers
    <3>2. Spawned(t) BY <1>0, <3>1, DaemonAssumption DEF Spawned, Fresh
    <3> QED BY <2>1, <3>1, <3>2, ReturnCovers
  <2>8. CASE t = s
    <3>1. ~Spawned(t) /\ ~Cancelled(t) BY <2>5, <2>8 DEF Spawned, Cancelled, Pipes
    <3>2. Covers(t, dirty) BY <1>0, <2>5, <2>8 DEF Covers
    <3> QED BY <2>1, <3>1, <3>2, ReturnCovers
  <2> QED BY <2>6, <2>7, <2>8
<1> QED BY <1>2, <1>3

\* A stop request closes the session, so only the membership of what is owed
\* in the session is left to show.
LEMMA StopCovers ==
  ASSUME IInv, Covers(srv, dirty), Stop \/ StopForce \/ OnSignal
  PROVE  Covers(srv', dirty')
<1>0. Sound(srv) /\ srv \in Server /\ srv.watch \in Watch BY DEF IInv, Server
<1>1. ASSUME NEW t, Return(t, proc), t.pipes = srv.pipes, t.job = srv.job,
             t.watch.session = srv.watch.session, Watching(srv) => t.watch.closing = TRUE,
             Watching(srv) /\ Cancelled(t) => t.job # NoJob
      PROVE  Covers(srv', dirty')
  <2>1. ~Spawned(t) BY <1>1 DEF Spawned
  <2>2. CASE ~Watching(srv) BY <1>1, <2>2, ReturnCovers
  <2>3. CASE Watching(srv)
    <3>1. dirty \subseteq t.watch.session.targets BY <1>1, <2>3 DEF Covers
    <3>2. Cancelled(t) => t.job \in t.watch.session.targets BY <1>0, <1>1, <2>3
    <3>3. Covers(t, dirty) /\ (Cancelled(t) => Covers(t, dirty \cup {t.job}))
      BY <1>1, <2>3, <3>1, <3>2 DEF Covers
    <3> QED BY <1>1, <2>1, <3>3, ReturnCovers
  <2> QED BY <2>2, <2>3
<1>2. ASSUME NEW how \in {"drain", "force"}
      PROVE  LET s == BeginStop(srv, how)
             IN /\ Sound(s) /\ SameWorker(s, srv) /\ s.watch.session = srv.watch.session
                /\ Watching(srv) => s.watch.closing = TRUE
                /\ s.watch.stale = srv.watch.stale
  <2>1. Sound(BeginStop(srv, how)) /\ SameWorker(BeginStop(srv, how), srv)
        /\ (Watching(BeginStop(srv, how)) <=> Watching(srv))
    BY <1>0, BeginStopSound
  <2> DEFINE c == Watching(srv)
             w == [srv.watch EXCEPT !.closing = c]
  <2>2. BeginStop(srv, how) = [srv EXCEPT !.stop = how, !.watch = w] BY DEF BeginStop
  <2>3. w.session = srv.watch.session /\ w.stale = srv.watch.stale BY <1>0 DEF Watch
  <2> HIDE DEF w
  <2>4. BeginStop(srv, how).watch = w /\ BeginStop(srv, how).stop = how BY <1>0, <2>2 DEF Server
  <2>5. Watching(srv) => BeginStop(srv, how).watch.closing = TRUE
    BY <2>1, <2>4
  <2> QED BY <2>1, <2>3, <2>4, <2>5
<1>3. ASSUME NEW how \in {"drain", "force"}, Return(BeginStop(srv, how), proc)
      PROVE  Covers(srv', dirty')
  BY <1>1, <1>2, <1>3 DEF SameWorker, Cancelled
<1>4. ASSUME NEW how \in {"drain", "force"}, Exit(BeginStop(srv, how))
      PROVE  Covers(srv', dirty')
  BY <1>2, <1>4, ExitCovers
<1>5. ASSUME NEW how \in {"drain", "force"}, srv.job # NoJob,
             Return(BeginWorkerCancel(BeginStop(srv, how),
                                      Watching(BeginStop(srv, how)),
                                      Watching(BeginStop(srv, how))), proc)
      PROVE  Covers(srv', dirty')
  <2> DEFINE s == BeginStop(srv, how)
             a == Watching(s)
             cl == s.watch.closing \/ a
             st == s.watch.stale \/ a
             x == [s.watch EXCEPT !.closing = cl, !.stale = st]
             t == BeginWorkerCancel(s, a, a)
  <2>1. Return(t, proc) BY <1>5
  <2>2. /\ Sound(s) /\ SameWorker(s, srv) /\ s.watch.session = srv.watch.session
        /\ Watching(srv) => s.watch.closing = TRUE
    BY <1>2
  <2>3. s.job # NoJob /\ s.pipes = srv.pipes /\ s.job = srv.job BY <1>5, <2>2 DEF SameWorker
  <2>4. s \in Server /\ s.watch \in Watch BY <2>2 DEF Server
  <2>5. t = [s EXCEPT !.watch = x, !.cancel = TRUE, !.timer = "armed"]
    BY <2>3 DEF BeginWorkerCancel
  <2>6. Watching(srv) => cl = TRUE BY <2>2
  <2> HIDE DEF s, a, cl, st, t
  <2>7. x.session = s.watch.session /\ x.closing = cl BY <2>4 DEF Watch
  <2> HIDE DEF x
  <2>8. t.watch = x /\ t.job = s.job /\ t.pipes = s.pipes BY <2>4, <2>5 DEF Server
  <2> QED BY <1>1, <1>5, <2>1, <2>2, <2>3, <2>6, <2>7, <2>8
<1>6. ASSUME srv.job = NoJob, NEW t,
             t = (IF Watching(BeginStop(srv, "force"))
                  THEN ResetSession(BeginStop(srv, "force"))
                  ELSE BeginStop(srv, "force")),
             Exit(t) \/ Return(t, proc)
      PROVE  Covers(srv', dirty')
  <2> DEFINE s == BeginStop(srv, "force")
  <2>1. Sound(s) /\ s \in Server BY <1>2
  <2> HIDE DEF s
  <2>2. ResetSession(s) \in Server /\ ~Watching(ResetSession(s))
    <3>1. Sound(ResetSession(s)) BY <2>1, ResetSessionSound
    <3>2. ResetSession(s).watch = NoWatch BY <2>1 DEF ResetSession, Server
    <3> QED BY <3>1, <3>2, NoWatchType
  <2>3. t \in Server /\ ~Watching(t) BY <1>6, <2>1, <2>2 DEF s
  <2> QED BY <1>6, <2>3, ExitCovers, ReturnCovers
<1>7. CASE Stop BY <1>3, <1>4, <1>7 DEF Stop
<1>8. CASE StopForce
  <2>1. CASE srv.job # NoJob BY <1>5, <1>8, <2>1 DEF StopForce
  <2>2. CASE srv.job = NoJob BY <1>6, <1>8, <2>2 DEF StopForce
  <2> QED BY <2>1, <2>2
<1>9. CASE OnSignal
  <2>1. CASE srv.job # NoJob BY <1>5, <1>9, <2>1 DEF OnSignal
  <2>2. CASE srv.job = NoJob BY <1>4, <1>9, <2>2 DEF OnSignal
  <2> QED BY <2>1, <2>2
<1> QED BY <1>7, <1>8, <1>9

\* A save or a lost event reaches the queue, and the queue is read in full.
LEMMA FileEventCovers ==
  ASSUME IInv, Covers(srv, dirty),
         (\E p \in Paths : Save(p)) \/ LoseEvents \/ OnWatchInotify
  PROVE  Covers(srv', dirty')
<1>0. Sound(srv) /\ srv \in Server /\ srv.watch \in Watch BY DEF IInv, Server
<1>1. ASSUME NEW p \in Paths, Save(p) PROVE Covers(srv', dirty')
  <2> DEFINE w == [srv.watch EXCEPT !.inq = @ \cup {p}]
  <2>1. srv' = [srv EXCEPT !.watch = w] /\ Watching(srv)
        /\ dirty' = dirty \cup (Route[p] \cap srv.watch.session.targets)
    BY <1>1 DEF Save
  <2>2. /\ w.session = srv.watch.session /\ w.closing = srv.watch.closing /\ w.stale = srv.watch.stale
        /\ w.batch = srv.watch.batch /\ w.rescan = srv.watch.rescan /\ w.changed = srv.watch.changed
        /\ w.inq = srv.watch.inq \cup {p}
    BY <1>0 DEF Watch
  <2> HIDE DEF w
  <2>3. srv'.watch = w /\ srv'.job = srv.job BY <1>0, <2>1 DEF Server
  <2>4. DueRuns(srv) \cup Route[p] \subseteq DueRuns(srv')
    BY <1>1, <2>2, <2>3 DEF DueRuns, FromChanges
  <2>5. Watching(srv') /\ srv'.watch.closing = srv.watch.closing
        /\ srv'.watch.session = srv.watch.session
    BY <2>1, <2>2, <2>3
  <2> QED BY <2>1, <2>4, <2>5 DEF Covers
<1>2. CASE LoseEvents
  <2> DEFINE w == [srv.watch EXCEPT !.inq = {"lost"}]
  <2>1. srv' = [srv EXCEPT !.watch = w] /\ Watching(srv) /\ dirty' = dirty
    BY <1>2 DEF LoseEvents
  <2>2. w.session = srv.watch.session /\ w.inq = {"lost"} BY <1>0 DEF Watch
  <2> HIDE DEF w
  <2>3. srv'.watch = w /\ srv'.job = srv.job BY <1>0, <2>1 DEF Server
  <2>4. srv'.watch.session.targets \subseteq DueRuns(srv')
    BY <2>2, <2>3 DEF DueRuns, FromChanges
  <2> QED BY <2>1, <2>2, <2>3, <2>4 DEF Covers
<1>3. CASE OnWatchInotify
  <2> DEFINE r == srv.watch.rescan \/ "lost" \in srv.watch.inq
             c == srv.watch.changed \cup (srv.watch.inq \cap Paths)
             w == [srv.watch EXCEPT !.inq = {}, !.changed = c, !.rescan = r, !.debounce = TRUE]
             t == [srv EXCEPT !.watch = w]
  <2>1. Return(t, proc) BY <1>3 DEF OnWatchInotify
  <2> HIDE DEF r, c
  <2>2. /\ w.session = srv.watch.session /\ w.closing = srv.watch.closing /\ w.stale = srv.watch.stale
        /\ w.batch = srv.watch.batch /\ w.rescan = r /\ w.changed = c /\ w.inq = {}
    BY <1>0 DEF Watch
  <2> HIDE DEF w
  <2>3. t.watch = w /\ t.job = srv.job /\ t.pipes = srv.pipes BY <1>0 DEF Server
  <2> HIDE DEF t
  <2>4. FromChanges(t) = FromChanges(srv) BY <2>2, <2>3 DEF FromChanges, r, c
  <2>5. ~Spawned(t) /\ ~Cancelled(t) BY <2>2, <2>3 DEF Spawned, Cancelled
  <2>6. Covers(t, dirty) BY <2>2, <2>3, <2>4 DEF Covers, DueRuns
  <2> QED BY <2>1, <2>5, <2>6, ReturnCovers
<1> QED BY <1>1, <1>2, <1>3

\* The debounce timer cancels the run in progress, whose module is then owed
\* again, or starts what is owed.
LEMMA DebounceCovers ==
  ASSUME "resource" \notin Faults, EveryFileConcernsAll, IInv, Covers(srv, dirty), OnWatchDebounce
  PROVE  Covers(srv', dirty')
<1>0. Sound(srv) /\ srv \in Server /\ srv.watch \in Watch /\ Watching(srv)
  BY DEF OnWatchDebounce, IInv, NoWatch, Server
<1> DEFINE d == [srv.watch EXCEPT !.debounce = FALSE]
           s == [srv EXCEPT !.watch = d]
<1>1. /\ d \in Watch /\ d.session = srv.watch.session /\ d.closing = srv.watch.closing
      /\ d.stale = srv.watch.stale /\ d.batch = srv.watch.batch /\ d.rescan = srv.watch.rescan
      /\ d.changed = srv.watch.changed /\ d.inq = srv.watch.inq
  BY <1>0 DEF Watch
<1> HIDE DEF d
<1>2. Sound(s) /\ s.watch = d /\ s.job = srv.job /\ s.pipes = srv.pipes /\ Watching(s)
  BY <1>0, <1>1 DEF Server
<1>3. /\ srv.watch.debounce
      /\ IF s.watch.changed = {} /\ ~s.watch.rescan THEN Return(s, proc)
         ELSE IF s.job # NoJob
         THEN Return(BeginWorkerCancel(
                       [(IF s.watch.stale THEN s ELSE SendText(s)) EXCEPT !.watch.rerun = TRUE],
                       TRUE, FALSE), proc)
         ELSE \E t \in HandlePendingBatch(s) : Return(t, proc)
  BY DEF OnWatchDebounce, d
<1> HIDE DEF s
<1>4. FromChanges(s) = FromChanges(srv) BY <1>1, <1>2 DEF FromChanges
<1>5. Covers(s, dirty) BY <1>1, <1>2, <1>4 DEF Covers, DueRuns
<1>6. CASE Return(s, proc)
  <2>1. ~Spawned(s) /\ ~Cancelled(s) BY <1>1, <1>2 DEF Spawned, Cancelled
  <2> QED BY <1>5, <1>6, <2>1, ReturnCovers
<1>7. CASE ~(s.watch.changed = {} /\ ~s.watch.rescan) /\ s.job # NoJob
  <2> DEFINE x == IF s.watch.stale THEN s ELSE SendText(s)
             y == [x EXCEPT !.watch.rerun = TRUE]
             t == BeginWorkerCancel(y, TRUE, FALSE)
             v == [s.watch EXCEPT !.rerun = TRUE, !.closing = @ \/ FALSE, !.stale = @ \/ TRUE]
  <2>1. Return(t, proc) BY <1>3, <1>7
  <2>2. x \in Server /\ x.watch = s.watch /\ x.job = s.job /\ x.pipes = s.pipes
    BY <1>2 DEF SendText, Server
  <2> HIDE DEF x
  <2>3. y = [x EXCEPT !.watch = [s.watch EXCEPT !.rerun = TRUE]] BY <2>2
  <2>4. y.job = s.job /\ y.pipes = s.pipes /\ y.watch = [s.watch EXCEPT !.rerun = TRUE] /\ y \in Server
    BY <1>2, <2>2, <2>3 DEF Server, Watch
  <2> HIDE DEF y
  <2>5. t = [y EXCEPT !.watch = v, !.cancel = TRUE, !.timer = "armed"]
    <3>1. t = [y EXCEPT !.watch = [y.watch EXCEPT !.closing = @ \/ FALSE, !.stale = @ \/ TRUE],
                        !.cancel = TRUE, !.timer = "armed"]
      BY <1>7, <2>4 DEF BeginWorkerCancel
    <3>2. [y.watch EXCEPT !.closing = @ \/ FALSE, !.stale = @ \/ TRUE] = v BY <1>1, <1>2, <2>4 DEF Watch
    <3> QED BY <3>1, <3>2
  <2> HIDE DEF t
  <2>6. /\ v.session = s.watch.session /\ v.rescan = s.watch.rescan
        /\ v.changed = s.watch.changed /\ v.inq = s.watch.inq
    BY <1>1, <1>2 DEF Watch
  <2> HIDE DEF v
  <2>7. t.watch = v /\ t.job = s.job /\ t.pipes = s.pipes BY <2>4, <2>5 DEF Server
  <2>8. s.watch.session.targets \subseteq FromChanges(s)
    BY <1>2, <1>7, ChangesConcernAll
  <2>9. FromChanges(t) = FromChanges(s) BY <2>6, <2>7 DEF FromChanges
  <2>10. ~Spawned(t) BY <1>2, <2>7 DEF Spawned
  <2>11. dirty \cup {t.job} \subseteq s.watch.session.targets BY <1>2, <1>5, <1>7, <2>7 DEF Covers
  <2>12. Covers(t, dirty) /\ Covers(t, dirty \cup {t.job})
    BY <1>2, <2>6, <2>7, <2>8, <2>9, <2>11 DEF Covers, DueRuns
  <2> QED BY <2>1, <2>10, <2>12, ReturnCovers
<1>8. ASSUME s.job = NoJob, NEW t \in HandlePendingBatch(s), Return(t, proc)
      PROVE  Covers(srv', dirty')
  <2>1. dirty \subseteq s.watch.session.targets /\ (~s.watch.closing => dirty \subseteq FromChanges(s))
    BY <1>2, <1>5, <1>8 DEF Covers, DueRuns
  <2>2. /\ t.watch.stale = FALSE
        /\ \/ t.job = NoJob /\ Covers(t, dirty)
           \/ Fresh(t) /\ Watching(t) /\ Covers(t, dirty \ {t.job})
    <3> HIDE DEF Sound, Watching
    <3> QED BY <1>2, <1>8, <2>1, PendingCovers
  <2>3. srv.job = NoJob BY <1>2, <1>8
  <2>4. CASE t.job = NoJob /\ Covers(t, dirty)
    <3>1. Sound(t)
      <4> HIDE DEF Sound, Watching
      <4> QED BY <1>2, <1>8, HandlePendingBatchSound
    <3>2. ~Spawned(t) /\ ~Cancelled(t) BY <2>2, <2>4, <3>1 DEF Spawned, Cancelled, Pipes
    <3> QED BY <1>8, <2>4, <3>2, ReturnCovers
  <2>5. CASE Fresh(t) /\ Watching(t) /\ Covers(t, dirty \ {t.job})
    <3>1. Spawned(t) BY <2>3, <2>5, DaemonAssumption DEF Spawned, Fresh
    <3> QED BY <1>8, <2>5, <3>1, ReturnCovers
  <2> QED BY <2>2, <2>4, <2>5
<1> QED BY <1>3, <1>6, <1>7, <1>8

\* The end of a run reports it, drops it as stale, or ends the session.
LEMMA RunEndCovers ==
  ASSUME "resource" \notin Faults, EveryFileConcernsAll, IInv, Covers(srv, dirty),
         OnWorkerPidfd \/ \E p \in Pipes : OnWorkerPipe(p)
  PROVE  Covers(srv', dirty')
<1>0. Sound(srv) /\ srv \in Server /\ srv.job # NoJob
  BY DEF OnWorkerPidfd, OnWorkerPipe, Running, IInv, WorkerSupervised
<1>1. ASSUME NEW s, Sound(s), s.job = srv.job, s.watch = srv.watch, s.pipes = Pipes => srv.pipes = Pipes,
             s.reaped /\ s.pipes = {} => srv.pipes # Pipes, NEW base, ReturnFromFinish(s, base)
      PROVE  Covers(srv', dirty')
  <2>1. PICK t \in FinishActiveRun(s) : IF Drained(t) THEN Exit(t) ELSE Return(t, base)
    BY <1>1 DEF ReturnFromFinish
  <2>2. Covers(s, dirty) /\ s.job # NoJob BY <1>0, <1>1 DEF Covers, DueRuns, FromChanges
  <2>3. Sound(t)
    <3> HIDE DEF Sound
    <3> QED BY <1>1, <2>1, <2>2, FinishActiveRunSound
  <2>4. CASE Drained(t)
    <3>1. t \in Server BY <2>3
    <3> QED BY <2>1, <2>4, <3>1, ExitCovers
  <2>5. CASE ~Drained(t)
    <3>0. Return(t, base) BY <2>1, <2>5
    <3>1. \/ t = s
          \/ ~Watching(t)
          \/ t.watch.stale = FALSE /\ t.job = NoJob /\ Covers(t, dirty)
          \/ /\ s.reaped /\ s.pipes = {}
             /\ t.watch.stale = FALSE /\ Fresh(t) /\ Watching(t) /\ Covers(t, dirty \ {t.job})
      <4> HIDE DEF Sound, Watching
      <4>1. CASE ~s.reaped \/ s.pipes # {} BY <2>1, <4>1 DEF FinishActiveRun
      <4>2. CASE s.reaped /\ s.pipes = {} BY <1>1, <2>1, <2>2, <4>2, FinishCovers
      <4> QED BY <4>1, <4>2
    <3>2. CASE t = s
      <4>1. ~Spawned(t) /\ ~Cancelled(t) BY <1>1, <3>2 DEF Spawned, Cancelled
      <4> QED BY <2>2, <3>0, <3>2, <4>1, ReturnCovers
    <3>3. CASE ~Watching(t) BY <3>0, <3>3, ReturnCovers
    <3>4. CASE t.watch.stale = FALSE /\ t.job = NoJob /\ Covers(t, dirty)
      <4>1. ~Spawned(t) /\ ~Cancelled(t) BY <2>3, <3>4 DEF Spawned, Cancelled, Pipes
      <4> QED BY <3>0, <3>4, <4>1, ReturnCovers
    <3>5. CASE /\ s.reaped /\ s.pipes = {}
               /\ t.watch.stale = FALSE /\ Fresh(t) /\ Watching(t) /\ Covers(t, dirty \ {t.job})
      <4>1. Spawned(t) BY <1>1, <3>5, DaemonAssumption DEF Spawned, Fresh
      <4> QED BY <3>0, <3>5, <4>1, ReturnCovers
    <3> QED BY <3>1, <3>2, <3>3, <3>4, <3>5
  <2> QED BY <2>4, <2>5
<1>2. CASE OnWorkerPidfd
  <2> DEFINE s == [srv EXCEPT !.reaped = TRUE]
  <2>1. Sound(s) /\ s.job = srv.job /\ s.watch = srv.watch /\ s.pipes = srv.pipes BY <1>0 DEF Server
  <2>2. ReturnFromFinish(s, "none") BY <1>2 DEF OnWorkerPidfd
  <2> HIDE DEF s, Sound
  <2> QED BY <1>1, <2>1, <2>2 DEF Pipes
<1>3. ASSUME NEW p \in Pipes, OnWorkerPipe(p) PROVE Covers(srv', dirty')
  <2> DEFINE s == [srv EXCEPT !.pipes = @ \ {p}]
  <2>1. Sound(s) /\ s.job = srv.job /\ s.watch = srv.watch /\ s.pipes = srv.pipes \ {p} BY <1>0 DEF Server
  <2>2. ReturnFromFinish(s, proc) BY <1>3 DEF OnWorkerPipe
  <2>3. s.pipes # Pipes /\ (s.pipes = {} => srv.pipes # Pipes) BY <1>3, <2>1 DEF Pipes
  <2> HIDE DEF s, Sound
  <2> QED BY <1>1, <2>1, <2>2, <2>3
<1> QED BY <1>2, <1>3

\* What is left touches neither the worker's run nor the session.
LEMMA OtherCovers ==
  ASSUME IInv, Covers(srv, dirty),
         \/ PeerCloses \/ (\E how \in {"piped", "logged"} : ChildStart(how)) \/ ChildEnd \/ WorkerExit
         \/ OnWatchClient \/ OnWorkerOutput \/ OnKillTimer \/ UNCHANGED vars
  PROVE  Covers(srv', dirty')
<1>0. srv \in Server BY DEF IInv
<1>1. CASE PeerCloses \/ OnWatchClient
  <2>1. PICK c : Return([srv EXCEPT !.client = c], proc)
    BY <1>1 DEF PeerCloses, OnWatchClient
  <2> QED BY <1>0, <2>1, KeepCovers DEF Server
<1>2. CASE OnWorkerOutput
  <2>1. (\E b : Return([srv EXCEPT !.buffered = b], proc)) \/ Return(SendText(srv), proc)
    BY <1>2 DEF OnWorkerOutput
  <2> QED BY <1>0, <2>1, KeepCovers DEF Server, SendText
<1>3. CASE OnKillTimer
  BY <1>0, <1>3, KeepCovers DEF OnKillTimer, Server
<1>4. CASE (\E how \in {"piped", "logged"} : ChildStart(how)) \/ ChildEnd \/ WorkerExit \/ UNCHANGED vars
  BY <1>4 DEF ChildStart, ChildEnd, WorkerExit, vars
<1> QED BY <1>1, <1>2, <1>3, <1>4

\* A module whose last saved change has not been tested is still due to run
\* (daemon_on_watch_debounce, daemon_finish_active_run), when every file
\* concerns every module and neither fork nor inotify fails.
THEOREM SavesScheduled ==
  ASSUME EveryFileConcernsAll, "resource" \notin Faults
  PROVE  Spec => []SavesAreScheduled
<1>1. Init => Covers(srv, dirty) BY DEF Init, InitServer, Covers, NoWatch
<1>2. IInv /\ Covers(srv, dirty) /\ [Next]_vars => Covers(srv, dirty)'
  <2> SUFFICES ASSUME IInv, Covers(srv, dirty), [Next]_vars PROVE Covers(srv', dirty')
    OBVIOUS
  <2> QED BY RequestCovers, StopCovers, FileEventCovers, DebounceCovers, RunEndCovers, OtherCovers
          DEF Next, Request, Environment, Handler
<1>3. Covers(srv, dirty) => SavesAreScheduled
  BY DEF Covers, DueRuns, FromChanges, SavesAreScheduled, Scheduled
<1> QED BY <1>1, <1>2, <1>3, IInvHolds, PTL DEF Spec

=============================================================================
