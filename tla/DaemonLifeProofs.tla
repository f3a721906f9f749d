-------------------------- MODULE DaemonLifeProofs --------------------------
(***************************************************************************)
(* For any number of front ends and daemons, whatever crashes and is       *)
(* killed: the builds under the lock take turns until it is wiped away,    *)
(* and there is one daemon until front ends work at its files at once.     *)
(***************************************************************************)
EXTENDS DaemonLife, TLAPS

\* What the builds rest on: while the lock was never wiped away, a builder
\* means that the directory is there, and there is one builder at most. A
\* directory without a builder (its worker was killed) is allowed.
BuildInv ==
    /\ worker \in [Daemons -> {"none", "waiting", "building", "tooling", "running"}]
    /\ intact \in BOOLEAN
    /\ intact => /\ Building # {} => lock = TRUE
                 /\ \A d, e \in Building : d = e

\* The workers of the initial state build nothing.
LEMMA BuildInit == Init => BuildInv /\ LockTurns!TurnInit
  BY DEF Init, BuildInv, Building, Tooling, LockTurns!TurnInit

\* The steps that touch neither the workers nor the lock.
LEMMA StepsElsewhere ==
    ASSUME BuildInv, UNCHANGED <<worker, lock, intact>>
    PROVE  BuildInv' /\ UNCHANGED LockTurns!turn_vars
  BY DEF BuildInv, Building, Tooling, LockTurns!turn_vars

\* A worker takes the lock, waits for it or gives up.
LEMMA AcquireTurn ==
    ASSUME BuildInv, NEW d \in Daemons, Acquire(d)
    PROVE  BuildInv' /\ (LockTurns!Begin(d) \/ UNCHANGED LockTurns!turn_vars)
  <1>1. CASE lock' = TRUE /\ ~lock /\ worker' = [worker EXCEPT ![d] = "building"]
    <2>1. intact' = intact BY DEF Acquire, history
    <2>2. Building' = Building \cup {d} /\ Tooling' = Tooling BY <1>1 DEF Acquire, BuildInv, Building, Tooling
    <2>3. d \notin Building \cup Tooling BY DEF Acquire, Building, Tooling
    <2>4. intact => Building = {} BY <1>1 DEF BuildInv
    <2>5. BuildInv' BY <1>1, <2>1, <2>2, <2>4 DEF BuildInv
    <2> QED BY <2>1, <2>2, <2>3, <2>4, <2>5 DEF LockTurns!Begin
  <1>2. CASE lock' = lock /\ worker' = worker
    <2>1. intact' = intact BY DEF Acquire, history
    <2> QED BY <1>2, <2>1, StepsElsewhere
  <1>3. CASE lock' = lock /\ WorkerEnds(d)
    <2>1. intact' = intact BY DEF Acquire, history
    <2>2. Building' = Building /\ Tooling' = Tooling BY <1>3 DEF Acquire, WorkerEnds, Building, Tooling, BuildInv
    <2>3. worker' \in [Daemons -> {"none", "waiting", "building", "tooling", "running"}] BY <1>3 DEF WorkerEnds, BuildInv
    <2> QED BY <1>3, <2>1, <2>2, <2>3 DEF BuildInv, LockTurns!turn_vars
  <1> QED BY <1>1, <1>2, <1>3 DEF Acquire

\* A build ends: its worker goes on to build the tool or to run the tests, or
\* ends. Whoever's lock it removes, while it was never wiped away it was its own.
LEMMA BuiltTurn ==
    ASSUME BuildInv, NEW d \in Daemons, Built(d)
    PROVE  BuildInv' /\ (LockTurns!End(d) \/ LockTurns!GoOn(d))
  <1>1. intact' = intact BY DEF Built, history
  <1>2. d \in Building /\ d \notin Tooling BY DEF Built, Building, Tooling
  <1>3. PICK w \in {"none", "tooling", "running"} : worker' = [worker EXCEPT ![d] = w] BY DEF Built, WorkerEnds
  <1>4. worker' \in [Daemons -> {"none", "waiting", "building", "tooling", "running"}] BY <1>3 DEF BuildInv
  <1>5. Building' = Building \ {d} BY <1>3 DEF Building, BuildInv
  <1>6. intact => Building' = {} BY <1>2, <1>5 DEF BuildInv
  <1>7. BuildInv' BY <1>1, <1>4, <1>6 DEF BuildInv
  <1>8. CASE w = "tooling"
    <2>1. Tooling' = Tooling \cup {d} BY <1>3, <1>8 DEF Tooling, BuildInv
    <2> QED BY <1>1, <1>2, <1>5, <1>7, <2>1 DEF LockTurns!GoOn
  <1>9. CASE w # "tooling"
    <2>1. Tooling' = Tooling \ {d} BY <1>3, <1>9 DEF Tooling, BuildInv
    <2> QED BY <1>1, <1>2, <1>5, <1>7, <2>1 DEF LockTurns!End
  <1> QED BY <1>8, <1>9

\* The tool is built, without the lock.
LEMMA ToolTurn ==
    ASSUME BuildInv, NEW d \in Daemons, ToolBuilt(d)
    PROVE  BuildInv' /\ LockTurns!End(d)
  <1>1. intact' = intact /\ lock' = lock BY DEF ToolBuilt, history
  <1>2. d \in Tooling /\ d \notin Building BY DEF ToolBuilt, Building, Tooling
  <1>3. PICK w \in {"none", "running"} : worker' = [worker EXCEPT ![d] = w] BY DEF ToolBuilt, WorkerEnds
  <1>4. worker' \in [Daemons -> {"none", "waiting", "building", "tooling", "running"}] BY <1>3 DEF BuildInv
  <1>5. Building' = Building \ {d} /\ Tooling' = Tooling \ {d} BY <1>3 DEF Building, Tooling, BuildInv
  <1>6. BuildInv' BY <1>1, <1>2, <1>4, <1>5 DEF BuildInv
  <1> QED BY <1>1, <1>2, <1>5, <1>6 DEF LockTurns!End

\* A worker ends or is killed, and whatever it held stays.
LEMMA WorkerGone ==
    ASSUME BuildInv, NEW d \in Daemons, WorkerEnds(d), UNCHANGED <<lock, intact>>
    PROVE  BuildInv' /\ (LockTurns!End(d) \/ UNCHANGED LockTurns!turn_vars)
  <1>1. worker' \in [Daemons -> {"none", "waiting", "building", "tooling", "running"}] BY DEF WorkerEnds, BuildInv
  <1>2. Building' = Building \ {d} /\ Tooling' = Tooling \ {d} BY DEF WorkerEnds, Building, Tooling, BuildInv
  <1>3. BuildInv' BY <1>1, <1>2 DEF BuildInv
  <1>4. CASE d \in Building \cup Tooling BY <1>2, <1>3, <1>4 DEF LockTurns!End
  <1>5. CASE d \notin Building \cup Tooling BY <1>2, <1>3, <1>5 DEF LockTurns!turn_vars
  <1> QED BY <1>4, <1>5

\* A run is asked for: the worker of a daemon that has none begins to wait.
LEMMA RequestTurn ==
    ASSUME BuildInv, NEW f \in FrontEnds, Request(f)
    PROVE  BuildInv' /\ UNCHANGED LockTurns!turn_vars
  <1>1. intact' = intact BY DEF Request
  <1>2. CASE UNCHANGED worker_vars BY <1>1, <1>2, StepsElsewhere DEF worker_vars
  <1>3. CASE /\ Answered /\ worker[socket] = "none"
             /\ worker' = [worker EXCEPT ![socket] = "waiting"] /\ lock' = lock
    <2>1. socket \in Daemons BY <1>3 DEF Answered, Serving
    <2>2. worker' \in [Daemons -> {"none", "waiting", "building", "tooling", "running"}] BY <1>3, <2>1 DEF BuildInv
    <2>3. Building' = Building /\ Tooling' = Tooling BY <1>3, <2>1 DEF Building, Tooling, BuildInv
    <2> QED BY <1>1, <1>3, <2>2, <2>3 DEF BuildInv, LockTurns!turn_vars
  <1> QED BY <1>2, <1>3 DEF Request, worker_vars

\* `test clean` ends the promise only when a build is under way.
LEMMA CleanTurn ==
    ASSUME BuildInv, NEW f \in FrontEnds, Clean(f)
    PROVE  BuildInv' /\ (LockTurns!Wipe \/ UNCHANGED LockTurns!turn_vars)
  <1>1. worker' = worker BY DEF Clean
  <1>2. Building' = Building /\ Tooling' = Tooling BY <1>1 DEF Building, Tooling
  <1>3. CASE UNCHANGED <<lock, intact>> BY <1>1, <1>3, StepsElsewhere
  <1>4. CASE lock' = FALSE /\ intact' = (intact /\ Building = {})
    <2>1. CASE Building = {}
      <3>1. intact' = intact BY <1>4, <2>1 DEF BuildInv
      <3>2. BuildInv' BY <1>1, <1>2, <2>1, <3>1 DEF BuildInv
      <3> QED BY <1>2, <3>1, <3>2 DEF LockTurns!turn_vars
    <2>2. CASE Building # {}
      <3>1. intact' = FALSE BY <1>4, <2>2
      <3>2. BuildInv' BY <1>1, <3>1 DEF BuildInv
      <3> QED BY <1>2, <2>2, <3>1, <3>2 DEF LockTurns!Wipe
    <2> QED BY <2>1, <2>2
  <1> QED BY <1>3, <1>4 DEF Clean

\* Every step of the daemons, workers and front ends is a step of the turns, or
\* none, and keeps the invariant.
LEMMA StepTurn ==
    ASSUME BuildInv, [Next]_vars
    PROVE  BuildInv' /\ [LockTurns!TurnNext]_(LockTurns!turn_vars)
  <1>1. ASSUME NEW d \in Daemons, DaemonNext(d) \/ Crash(d)
        PROVE  UNCHANGED <<worker, lock, intact>>
    BY <1>1 DEF DaemonNext, Crash, Clear, Bind, Serve, ExitLoop, Teardown, worker_vars, history
  <1>2. ASSUME NEW d \in Daemons, Ran(d) \/ Killed(d)
        PROVE  WorkerEnds(d) /\ UNCHANGED <<lock, intact>>
    BY <1>2 DEF Ran, Killed, history
  <1>3. ASSUME NEW f \in FrontEnds, Command(f)
        PROVE  UNCHANGED <<worker, lock, intact>>
    BY <1>3 DEF Command, worker_vars, history
  <1>4. ASSUME NEW f \in FrontEnds,
               Ping(f) \/ StartPing(f) \/ Inspect(f) \/ Launch(f) \/ Await(f) \/ Result(f) \/ Query(f)
        PROVE  UNCHANGED <<worker, lock, intact>>
    BY <1>4 DEF Ping, StartPing, Inspect, Launch, Await, Result, Query, Quiet, worker_vars
  <1>5. ASSUME NEW f \in FrontEnds,
               StopInspect(f) \/ Stop(f) \/ Wait(f) \/ Cleanup(f) \/ UnlinkSocket(f) \/ UnlinkPid(f) \/ Terminate(f) \/ Kill(f)
        PROVE  UNCHANGED <<worker, lock, intact>>
    BY <1>5 DEF StopInspect, Stop, Wait, Cleanup, UnlinkSocket, UnlinkPid, Terminate, Kill, Quiet, worker_vars
  <1>6. CASE UNCHANGED vars
    <2>1. UNCHANGED <<worker, lock, intact>> BY <1>6 DEF vars, worker_vars, history
    <2> QED BY <2>1, StepsElsewhere
  <1>7. ASSUME NEW d \in Daemons, DaemonNext(d) \/ WorkerNext(d) \/ Crash(d) \/ Killed(d)
        PROVE  BuildInv' /\ [LockTurns!TurnNext]_(LockTurns!turn_vars)
    <2>1. CASE DaemonNext(d) \/ Crash(d) BY <1>1, <2>1, StepsElsewhere
    <2>2. CASE Acquire(d) BY <2>2, AcquireTurn DEF LockTurns!TurnNext
    <2>3. CASE Built(d) BY <2>3, BuiltTurn DEF LockTurns!TurnNext
    <2>5. CASE ToolBuilt(d) BY <2>5, ToolTurn DEF LockTurns!TurnNext
    <2>4. CASE Ran(d) \/ Killed(d) BY <1>2, <2>4, WorkerGone DEF LockTurns!TurnNext
    <2> QED BY <1>7, <2>1, <2>2, <2>3, <2>4, <2>5 DEF WorkerNext
  <1>8. ASSUME NEW f \in FrontEnds, Command(f) \/ FrontNext(f)
        PROVE  BuildInv' /\ [LockTurns!TurnNext]_(LockTurns!turn_vars)
    <2>1. CASE Command(f) BY <1>3, <2>1, StepsElsewhere
    <2>2. CASE Request(f) BY <2>2, RequestTurn
    <2>3. CASE Clean(f) BY <2>3, CleanTurn DEF LockTurns!TurnNext
    <2>4. CASE Ping(f) \/ StartPing(f) \/ Inspect(f) \/ Launch(f) \/ Await(f) \/ Result(f) \/ Query(f)
      BY <1>4, <2>4, StepsElsewhere
    <2>5. CASE StopInspect(f) \/ Stop(f) \/ Wait(f) \/ Cleanup(f) \/ UnlinkSocket(f) \/ UnlinkPid(f) \/ Terminate(f) \/ Kill(f)
      BY <1>5, <2>5, StepsElsewhere
    <2> QED BY <1>8, <2>1, <2>2, <2>3, <2>4, <2>5 DEF FrontNext
  <1> QED BY <1>6, <1>7, <1>8 DEF Next

\* The front ends, daemons and workers implement builds that take turns: the
\* directory made by acquire_build_lock and removed by release_build_lock keeps
\* the builds of two test binaries of a profile apart, however many daemons
\* there are and whatever crashes, until `test clean` removes it under a build.
\* A worker builds the nobify tool only after its turn, beside the others.
THEOREM TurnsKept == Spec => BuildsTakeTurns
  <1>1. BuildInv /\ [Next]_vars => BuildInv' /\ [LockTurns!TurnNext]_(LockTurns!turn_vars)
    BY StepTurn
  <1> QED BY <1>1, BuildInit, PTL DEF Spec, BuildsTakeTurns, LockTurns!Turns

-----------------------------------------------------------------------------
(* One daemon.                                                             *)

\* A front end that waits for a result, terminates or kills has a daemon it
\* does that to.
TargetsKnown ==
    \A f \in FrontEnds : front[f].pc \in {"result", "terminate", "kill"} => front[f].target \in Daemons

\* One front end at most is at work on the daemon's files.
OneAtWork == \A f, g \in FrontEnds : Touching(front[f].pc) /\ Touching(front[g].pc) => f = g

OneAlive == \A d, e \in Daemons : Alive(d) /\ Alive(e) => d = e

\* A daemon that does not serve yet is awaited by the front end that launched
\* it.
ComingIsAwaited ==
    \A d \in Daemons : daemon[d] \in {"launched", "cleared", "bound"} => \E f \in FrontEnds : front[f].pc = "await"

\* The files follow the daemon: none while it is between removing and binding
\* them, then its own until it has torn them down.
FilesFollow ==
    \A d \in Daemons : /\ daemon[d] = "cleared" => socket = None
                       /\ daemon[d] \in {"bound", "serving", "closing"} => socket = d
                       /\ daemon[d] \in {"serving", "closing"} => pidfile = d

\* Whoever is about to launch a daemon, or to remove files it found stale,
\* does so while no daemon is alive, however long ago it looked.
ActsOnTruth ==
    \A f \in FrontEnds : front[f].pc \in {"launch", "unlink_socket", "unlink_pid"} => \A d \in Daemons : ~Alive(d)

Alone == OneAtWork /\ OneAlive /\ ComingIsAwaited /\ FilesFollow /\ ActsOnTruth

LifeInv == TypeOK /\ TargetsKnown /\ (~raced => Alone)

\* What a step of front end f does to the front ends: it comes to a place of
\* the given ones, and the others stay where they are.
FrontTypes == [FrontEnds -> [pc : Pcs, cmd : AllCommands \cup {"none"}, tries : Nat, target : Daemons \cup {None},
                             socket : BOOLEAN, pid : BOOLEAN]]
Moves(f, pcs) ==
    /\ front' \in FrontTypes
    /\ front'[f].pc \in pcs
    /\ front'[f].pc \in {"result", "terminate", "kill"} => front'[f].target \in Daemons
    /\ \A g \in FrontEnds : g # f => front'[g] = front[g]

\* Going somewhere keeps the target; places that need one are gone to only by
\* the steps that have one.
LEMMA GotoMoves ==
    ASSUME front \in FrontTypes, NEW f \in FrontEnds, NEW pc \in Pcs, Goto(f, pc),
           pc \in {"result", "terminate", "kill"} => front[f].target \in Daemons
    PROVE  Moves(f, {pc})
  BY DEF Goto, Moves, FrontTypes

\* A front end that is done is idle.
LEMMA DoneMoves ==
    ASSUME front \in FrontTypes, NEW f \in FrontEnds, Done(f)
    PROVE  Moves(f, {"idle"})
  BY DEF Done, Moves, FrontTypes, Idle, Pcs

\* Where a stop that ended well leads.
LEMMA AfterStopMoves ==
    ASSUME front \in FrontTypes, NEW f \in FrontEnds, AfterStop(f)
    PROVE  Moves(f, {"clean", "start_ping", "idle"})
  <1>1. CASE Goto(f, "clean") BY <1>1, GotoMoves DEF Moves, Pcs
  <1>2. CASE Goto(f, "start_ping") BY <1>2, GotoMoves DEF Moves, Pcs
  <1>3. CASE Done(f) BY <1>3, DoneMoves DEF Moves
  <1> QED BY <1>1, <1>2, <1>3 DEF AfterStop

\* Where a start that ended well leads.
LEMMA AfterStartMoves ==
    ASSUME front \in FrontTypes, NEW f \in FrontEnds, AfterStart(f)
    PROVE  Moves(f, {"request", "idle"})
  <1>1. CASE Goto(f, "request") BY <1>1, GotoMoves DEF Moves, Pcs
  <1>2. CASE Done(f) BY <1>2, DoneMoves DEF Moves
  <1> QED BY <1>1, <1>2 DEF AfterStart

\* A front end that counts another attempt stays where it is.
LEMMA CountMoves ==
    ASSUME front \in FrontTypes, TargetsKnown, NEW f \in FrontEnds, front' = [front EXCEPT ![f].tries = @ + 1]
    PROVE  Moves(f, {front[f].pc})
  BY DEF Moves, FrontTypes, TargetsKnown

\* A front end that moves keeps the types of all and the targets of all.
LEMMA MovesKeep ==
    ASSUME TargetsKnown, NEW f \in FrontEnds, NEW pcs, Moves(f, pcs)
    PROVE  front' \in FrontTypes /\ TargetsKnown'
  BY DEF Moves, TargetsKnown

\* The steps of the front ends that only look at the files.
LEMMA LookingMoves ==
    ASSUME TypeOK, TargetsKnown, NEW f \in FrontEnds
    PROVE  /\ Command(f) => Moves(f, {"ping", "start_ping", "query"})
           /\ Ping(f) => Moves(f, {"request", "start_ping"})
           /\ StartPing(f) => Moves(f, {"request", "idle", "inspect"})
           /\ Inspect(f) => Moves(f, {"idle", "launch"})
           /\ Result(f) => Moves(f, {"idle"})
           /\ Query(f) => Moves(f, {"stop", "stop_inspect"})
           /\ StopInspect(f) => Moves(f, {"terminate", "idle", "cleanup", "clean", "start_ping"})
           /\ Wait(f) => Moves(f, {"cleanup", "wait", "idle"})
           /\ Cleanup(f) => Moves(f, {"clean", "start_ping", "idle", "unlink_socket"})
  <1>0. front \in FrontTypes BY DEF TypeOK, FrontTypes
  <1> USE <1>0
  <1>1. ASSUME Command(f) PROVE Moves(f, {"ping", "start_ping", "query"})
    <2>1. PICK c \in Commands :
            front' = [front EXCEPT ![f] = [Idle EXCEPT !.cmd = c,
                          !.pc = IF c = "run" THEN "ping" ELSE IF c = "start" THEN "start_ping" ELSE "query"]]
      BY <1>1 DEF Command
    <2> QED BY <2>1, CommandsAssumption DEF Moves, FrontTypes, Idle, Pcs
  <1>2. ASSUME Ping(f) PROVE Moves(f, {"request", "start_ping"})
    <2>1. CASE Goto(f, "request") BY <2>1, GotoMoves DEF Moves, Pcs
    <2>2. CASE Goto(f, "start_ping") BY <2>2, GotoMoves DEF Moves, Pcs
    <2> QED BY <1>2, <2>1, <2>2 DEF Ping
  <1>3. ASSUME StartPing(f) PROVE Moves(f, {"request", "idle", "inspect"})
    <2>1. CASE AfterStart(f) BY <2>1, AfterStartMoves DEF Moves
    <2>2. CASE Goto(f, "inspect") BY <2>2, GotoMoves DEF Moves, Pcs
    <2> QED BY <1>3, <2>1, <2>2 DEF StartPing
  <1>4. ASSUME Inspect(f) PROVE Moves(f, {"idle", "launch"})
    <2>1. CASE Done(f) BY <2>1, DoneMoves DEF Moves
    <2>2. CASE Goto(f, "launch") BY <2>2, GotoMoves DEF Moves, Pcs
    <2> QED BY <1>4, <2>1, <2>2 DEF Inspect
  <1>5. ASSUME Result(f) PROVE Moves(f, {"idle"})
    BY <1>5, DoneMoves DEF Result
  <1>6. ASSUME Query(f) PROVE Moves(f, {"stop", "stop_inspect"})
    <2>1. CASE Goto(f, "stop") BY <2>1, GotoMoves DEF Moves, Pcs
    <2>2. CASE Goto(f, "stop_inspect") BY <2>2, GotoMoves DEF Moves, Pcs
    <2> QED BY <1>6, <2>1, <2>2 DEF Query
  <1>7. ASSUME StopInspect(f) PROVE Moves(f, {"terminate", "idle", "cleanup", "clean", "start_ping"})
    <2>1. CASE PidAlive /\ front' = [front EXCEPT ![f] = [@ EXCEPT !.pc = "terminate", !.target = pidfile]]
      BY <2>1 DEF Moves, FrontTypes, Pcs, PidAlive
    <2>2. CASE Done(f) BY <2>2, DoneMoves DEF Moves
    <2>3. CASE Goto(f, "cleanup") BY <2>3, GotoMoves DEF Moves, Pcs
    <2>4. CASE AfterStop(f) BY <2>4, AfterStopMoves DEF Moves
    <2> QED BY <1>7, <2>1, <2>2, <2>3, <2>4 DEF StopInspect
  <1>8. ASSUME Wait(f) PROVE Moves(f, {"cleanup", "wait", "idle"})
    <2>1. CASE Goto(f, "cleanup") BY <2>1, GotoMoves DEF Moves, Pcs
    <2>2. CASE front' = [front EXCEPT ![f].tries = @ + 1] BY <1>8, <2>2, CountMoves DEF Moves, Wait, At
    <2>3. CASE Done(f) BY <2>3, DoneMoves DEF Moves
    <2> QED BY <1>8, <2>1, <2>2, <2>3 DEF Wait
  <1>9. ASSUME Cleanup(f) PROVE Moves(f, {"clean", "start_ping", "idle", "unlink_socket"})
    <2>1. CASE AfterStop(f) BY <2>1, AfterStopMoves DEF Moves
    <2>2. CASE front' = [front EXCEPT ![f] = [@ EXCEPT !.pc = "unlink_socket", !.socket = socket # None, !.pid = pidfile # None]]
      <3> DEFINE s == socket # None
                 p == pidfile # None
      <3>1. s \in BOOLEAN /\ p \in BOOLEAN OBVIOUS
      <3>2. front' = [front EXCEPT ![f] = [@ EXCEPT !.pc = "unlink_socket", !.socket = s, !.pid = p]] BY <2>2
      <3> HIDE DEF s, p
      <3> QED BY <3>1, <3>2 DEF Moves, FrontTypes, Pcs
    <2> QED BY <1>9, <2>1, <2>2 DEF Cleanup
  <1> QED BY <1>1, <1>2, <1>3, <1>4, <1>5, <1>6, <1>7, <1>8, <1>9

\* The steps of the front ends that change something of a daemon, its files or
\* its worker.
LEMMA ActingMoves ==
    ASSUME TypeOK, TargetsKnown, NEW f \in FrontEnds
    PROVE  /\ Launch(f) => Moves(f, {"idle", "await"})
           /\ Await(f) => Moves(f, {"request", "idle", "await"})
           /\ Request(f) => Moves(f, {"idle", "result"})
           /\ Stop(f) => Moves(f, {"idle", "wait"})
           /\ UnlinkSocket(f) => Moves(f, {"unlink_pid"})
           /\ UnlinkPid(f) => Moves(f, {"clean", "start_ping", "idle"})
           /\ Terminate(f) => Moves(f, {"kill"})
           /\ Kill(f) => Moves(f, {"kill", "cleanup"})
           /\ Clean(f) => Moves(f, {"idle"})
  <1>0. front \in FrontTypes BY DEF TypeOK, FrontTypes
  <1> USE <1>0
  <1>1. ASSUME Launch(f) PROVE Moves(f, {"idle", "await"})
    <2>1. CASE Done(f) BY <2>1, DoneMoves DEF Moves
    <2>2. CASE Goto(f, "await") BY <2>2, GotoMoves DEF Moves, Pcs
    <2> QED BY <1>1, <2>1, <2>2 DEF Launch
  <1>2. ASSUME Await(f) PROVE Moves(f, {"request", "idle", "await"})
    <2>1. CASE AfterStart(f) BY <2>1, AfterStartMoves DEF Moves
    <2>2. CASE front' = [front EXCEPT ![f].tries = @ + 1] BY <1>2, <2>2, CountMoves DEF Moves, Await, At
    <2>3. CASE Done(f) BY <2>3, DoneMoves DEF Moves
    <2> QED BY <1>2, <2>1, <2>2, <2>3 DEF Await
  <1>3. ASSUME Request(f) PROVE Moves(f, {"idle", "result"})
    <2>1. CASE Done(f) BY <2>1, DoneMoves DEF Moves
    <2>2. CASE Answered /\ front' = [front EXCEPT ![f] = [@ EXCEPT !.pc = "result", !.target = socket]]
      BY <2>2 DEF Moves, FrontTypes, Pcs, Answered, Serving
    <2> QED BY <1>3, <2>1, <2>2 DEF Request
  <1>4. ASSUME Stop(f) PROVE Moves(f, {"idle", "wait"})
    <2>1. CASE Done(f) BY <2>1, DoneMoves DEF Moves
    <2>2. CASE Goto(f, "wait") BY <2>2, GotoMoves DEF Moves, Pcs
    <2> QED BY <1>4, <2>1, <2>2 DEF Stop
  <1>5. ASSUME UnlinkSocket(f) PROVE Moves(f, {"unlink_pid"})
    BY <1>5, GotoMoves DEF UnlinkSocket, Pcs
  <1>6. ASSUME UnlinkPid(f) PROVE Moves(f, {"clean", "start_ping", "idle"})
    BY <1>6, AfterStopMoves DEF UnlinkPid
  <1>7. ASSUME Terminate(f) PROVE Moves(f, {"kill"})
    BY <1>7 DEF Terminate, At, TargetsKnown, Moves, FrontTypes, Pcs
  <1>8. ASSUME Kill(f) PROVE Moves(f, {"kill", "cleanup"})
    <2>1. CASE Goto(f, "cleanup") BY <2>1, GotoMoves DEF Moves, Pcs
    <2>2. CASE front' = [front EXCEPT ![f].tries = @ + 1] BY <1>8, <2>2, CountMoves DEF Moves, Kill, At
    <2> QED BY <1>8, <2>1, <2>2 DEF Kill
  <1>9. ASSUME Clean(f) PROVE Moves(f, {"idle"})
    BY <1>9, DoneMoves DEF Clean
  <1> QED BY <1>1, <1>2, <1>3, <1>4, <1>5, <1>6, <1>7, <1>8, <1>9

\* The types, and the targets with them, are kept by every step.
LEMMA TypesStep ==
    ASSUME TypeOK, TargetsKnown, [Next]_vars
    PROVE  TypeOK' /\ TargetsKnown'
  <1> USE NoneAssumption
  <1>1. ASSUME NEW d \in Daemons, DaemonNext(d) \/ Crash(d)
        PROVE  TypeOK' /\ TargetsKnown'
    <2>1. UNCHANGED <<worker_vars, front, commands, history, stopping, cancelled>>
      BY <1>1 DEF DaemonNext, Clear, Bind, Serve, ExitLoop, Teardown, Crash
    <2>2. socket' \in Daemons \cup {None} /\ pidfile' \in Daemons \cup {None}
      BY <1>1 DEF DaemonNext, Clear, Bind, Serve, ExitLoop, Teardown, Crash, TypeOK
    <2>3. daemon' \in [Daemons -> {"unborn", "launched", "cleared", "bound", "serving", "closing", "gone"}]
      BY <1>1 DEF DaemonNext, Clear, Bind, Serve, ExitLoop, Teardown, Crash, TypeOK
    <2>4. crashes' \in Nat
      BY <1>1 DEF DaemonNext, Clear, Bind, Serve, ExitLoop, Teardown, Crash, TypeOK
    <2> QED BY <2>1, <2>2, <2>3, <2>4 DEF TypeOK, TargetsKnown, worker_vars, history
  <1>2. ASSUME NEW d \in Daemons, WorkerNext(d) \/ Killed(d)
        PROVE  TypeOK' /\ TargetsKnown'
    <2>1. UNCHANGED <<daemon_vars, front, commands, crashes, history>>
      BY <1>2 DEF WorkerNext, Acquire, Built, ToolBuilt, Ran, Killed
    <2>2. worker' \in [Daemons -> {"none", "waiting", "building", "tooling", "running"}]
      BY <1>2 DEF WorkerNext, Acquire, Built, ToolBuilt, Ran, Killed, WorkerEnds, TypeOK
    <2>3. tries' \in [Daemons -> Nat]
      BY <1>2 DEF WorkerNext, Acquire, Built, ToolBuilt, Ran, Killed, WorkerEnds, TypeOK
    <2>5. lock' \in BOOLEAN
      BY <1>2 DEF WorkerNext, Acquire, Built, ToolBuilt, Ran, Killed, WorkerEnds, TypeOK
    <2>4. client' \in [Daemons -> FrontEnds \cup {None}]
      BY <1>2 DEF WorkerNext, Acquire, Built, ToolBuilt, Ran, Killed, WorkerEnds, TypeOK
    <2> QED BY <2>1, <2>2, <2>3, <2>4, <2>5 DEF TypeOK, TargetsKnown, daemon_vars, history
  <1>3. ASSUME NEW f \in FrontEnds, Command(f) \/ FrontNext(f)
        PROVE  front' \in FrontTypes /\ TargetsKnown'
    <2>1. \E pcs : Moves(f, pcs) BY <1>3, LookingMoves, ActingMoves DEF FrontNext
    <2> QED BY <2>1, MovesKeep
  <1>4. ASSUME NEW f \in FrontEnds, Command(f) \/ FrontNext(f)
        PROVE  raced' \in BOOLEAN /\ commands' \in Nat /\ crashes' \in Nat
    <2>1. CASE Command(f) BY <2>1 DEF Command, history, TypeOK
    <2>2. CASE Await(f) BY <2>2 DEF Await, Race, TypeOK
    <2>3. CASE FrontStep(f) BY <2>3 DEF FrontStep, Race, TypeOK
    <2> QED BY <1>4, <2>1, <2>2, <2>3
            DEF FrontNext, Ping, StartPing, Inspect, Launch, Request, Result, Query, StopInspect, Stop, Wait, Cleanup,
                UnlinkSocket, UnlinkPid, Terminate, Kill, Clean
  <1>5. ASSUME NEW f \in FrontEnds,
               \/ Command(f) \/ Ping(f) \/ StartPing(f) \/ Inspect(f) \/ Await(f) \/ Result(f)
               \/ Query(f) \/ StopInspect(f) \/ Wait(f) \/ Cleanup(f)
        PROVE  TypeOK' /\ TargetsKnown'
    <2>1. UNCHANGED <<daemon_vars, worker_vars, intact>>
      BY <1>5 DEF Command, Ping, StartPing, Inspect, Await, Result, Query, StopInspect, Wait, Cleanup, Quiet, history
    <2> QED BY <1>3, <1>4, <1>5, <2>1 DEF TypeOK, FrontTypes, FrontNext, daemon_vars, worker_vars
  <1>6. ASSUME NEW f \in FrontEnds, Launch(f) \/ Kill(f)
        PROVE  TypeOK' /\ TargetsKnown'
    <2>1. UNCHANGED <<socket, pidfile, stopping, cancelled, worker_vars, intact>> BY <1>6 DEF Launch, Kill
    <2>2. daemon' \in [Daemons -> {"unborn", "launched", "cleared", "bound", "serving", "closing", "gone"}]
      BY <1>6 DEF Launch, Kill, TypeOK
    <2> QED BY <1>3, <1>4, <1>6, <2>1, <2>2 DEF TypeOK, FrontTypes, FrontNext, worker_vars
  <1>7. ASSUME NEW f \in FrontEnds, Request(f)
        PROVE  TypeOK' /\ TargetsKnown'
    <2>1. UNCHANGED <<daemon_vars, intact, lock>> BY <1>7 DEF Request, worker_vars
    <2>2. worker' \in [Daemons -> {"none", "waiting", "building", "tooling", "running"}] BY <1>7 DEF Request, worker_vars, TypeOK
    <2>3. tries' \in [Daemons -> Nat] BY <1>7 DEF Request, worker_vars, TypeOK
    <2>4. client' \in [Daemons -> FrontEnds \cup {None}] BY <1>7 DEF Request, worker_vars, TypeOK
    <2> QED BY <1>3, <1>4, <1>7, <2>1, <2>2, <2>3, <2>4 DEF TypeOK, FrontTypes, FrontNext, daemon_vars
  <1>8. ASSUME NEW f \in FrontEnds, Stop(f) \/ Terminate(f)
        PROVE  TypeOK' /\ TargetsKnown'
    <2>1. UNCHANGED <<socket, pidfile, daemon, worker_vars, intact>> BY <1>8 DEF Stop, Terminate
    <2>2. stopping' \subseteq Daemons /\ cancelled' \subseteq stopping'
      BY <1>8 DEF Stop, Terminate, Answered, Serving, At, TargetsKnown, TypeOK
    <2> QED BY <1>3, <1>4, <1>8, <2>1, <2>2 DEF TypeOK, FrontTypes, FrontNext, worker_vars
  <1>9. ASSUME NEW f \in FrontEnds, UnlinkSocket(f) \/ UnlinkPid(f)
        PROVE  TypeOK' /\ TargetsKnown'
    <2>1. UNCHANGED <<daemon, stopping, cancelled, worker_vars, intact>> BY <1>9 DEF UnlinkSocket, UnlinkPid
    <2>2. socket' \in Daemons \cup {None} /\ pidfile' \in Daemons \cup {None}
      BY <1>9 DEF UnlinkSocket, UnlinkPid, TypeOK
    <2> QED BY <1>3, <1>4, <1>9, <2>1, <2>2 DEF TypeOK, FrontTypes, FrontNext, worker_vars
  <1>10. ASSUME NEW f \in FrontEnds, Clean(f)
         PROVE  TypeOK' /\ TargetsKnown'
    <2>1. UNCHANGED <<daemon_vars, worker, tries, client>> BY <1>10 DEF Clean
    <2>2. lock' \in BOOLEAN /\ intact' \in BOOLEAN BY <1>10 DEF Clean, TypeOK
    <2> QED BY <1>3, <1>4, <1>10, <2>1, <2>2 DEF TypeOK, FrontTypes, FrontNext, daemon_vars
  <1>11. CASE UNCHANGED vars
    BY <1>11 DEF vars, daemon_vars, worker_vars, history, TypeOK, TargetsKnown
  <1> QED BY <1>1, <1>2, <1>5, <1>6, <1>7, <1>8, <1>9, <1>10, <1>11 DEF Next, FrontNext

\* A daemon that moves between two lives, with its files, and no front end
\* with it.
LEMMA DaemonAlone ==
    ASSUME LifeInv, ~raced, NEW d \in Daemons, DaemonNext(d) \/ Crash(d)
    PROVE  Alone'
  <1>1. Alone /\ front' = front /\ daemon \in [Daemons -> {"unborn", "launched", "cleared", "bound", "serving", "closing", "gone"}]
    BY DEF LifeInv, TypeOK, DaemonNext, Clear, Bind, Serve, ExitLoop, Teardown, Crash
  <1>2. Alive(d) /\ \A e \in Daemons : e # d => ~Alive(e)
    BY <1>1 DEF Alone, OneAlive, Alive, DaemonNext, Clear, Bind, Serve, ExitLoop, Teardown, Crash
  <1>3. \A e \in Daemons : e # d => daemon'[e] = daemon[e]
    BY <1>1 DEF DaemonNext, Clear, Bind, Serve, ExitLoop, Teardown, Crash
  <1>4. \A e \in Daemons : e # d => daemon'[e] \in {"unborn", "gone"} BY <1>2, <1>3 DEF Alive
  <1>5. OneAtWork' BY <1>1 DEF Alone, OneAtWork
  <1>6. OneAlive' BY <1>4 DEF OneAlive, Alive
  <1>7. ActsOnTruth' BY <1>1, <1>2 DEF Alone, ActsOnTruth
  <1>8. daemon'[d] \in {"launched", "cleared", "bound"} => daemon[d] \in {"launched", "cleared"}
    BY <1>1 DEF DaemonNext, Clear, Bind, Serve, ExitLoop, Teardown, Crash
  <1>9. ComingIsAwaited' BY <1>1, <1>4, <1>8 DEF Alone, ComingIsAwaited
  <1>10. FilesFollow'
    <2>1. /\ daemon'[d] = "cleared" => socket' = None
          /\ daemon'[d] \in {"bound", "serving", "closing"} => socket' = d
          /\ daemon'[d] \in {"serving", "closing"} => pidfile' = d
      BY <1>1 DEF Alone, FilesFollow, DaemonNext, Clear, Bind, Serve, ExitLoop, Teardown, Crash
    <2> QED BY <1>4, <2>1 DEF FilesFollow
  <1> QED BY <1>5, <1>6, <1>7, <1>9, <1>10 DEF Alone

\* A front end that only moves, while the daemons and their files stay as they
\* are: it must not leave a daemon that is still coming, and must not set out to
\* act on what is not true.
LEMMA FrontAlone ==
    ASSUME Alone, NEW f \in FrontEnds, NEW pcs, Moves(f, pcs), daemon' = daemon, socket' = socket, pidfile' = pidfile,
           Touching(front'[f].pc) => \A g \in FrontEnds : g # f => ~Touching(front[g].pc),
           front[f].pc = "await" => front'[f].pc = "await" \/ socket \in Serving,
           front'[f].pc \in {"launch", "unlink_socket", "unlink_pid"} => \A d \in Daemons : ~Alive(d)
    PROVE  Alone'
  <1>1. Alone OBVIOUS
  <1>2. OneAtWork' BY DEF Alone, OneAtWork, Moves
  <1>3. OneAlive' BY <1>1 DEF Alone, OneAlive, Alive
  <1>4. ComingIsAwaited'
    <2>1. CASE front[f].pc = "await" /\ socket \in Serving
      <3>1. \A d \in Daemons : Alive(d) => daemon[d] = "serving" BY <1>1, <2>1 DEF Alone, OneAlive, Serving, Alive
      <3> QED BY <3>1 DEF ComingIsAwaited, Alive
    <2>2. CASE front[f].pc = "await" => front'[f].pc = "await"
      BY <1>1, <2>2 DEF Alone, ComingIsAwaited, Moves
    <2> QED BY <2>1, <2>2
  <1>5. FilesFollow' BY <1>1 DEF Alone, FilesFollow
  <1>6. ActsOnTruth' BY <1>1 DEF Alone, ActsOnTruth, Moves, Alive
  <1> QED BY <1>2, <1>3, <1>4, <1>5, <1>6 DEF Alone

\* A step of f in which nobody raced left it alone at work, if it is at work.
LEMMA NoRace ==
    ASSUME LifeInv, ~raced', NEW f \in FrontEnds, Race(f)
    PROVE  Alone /\ (Touching(front'[f].pc) => \A g \in FrontEnds : g # f => ~Touching(front[g].pc))
  BY DEF LifeInv, Race

\* A front end at work on the files that finds no living daemon in the pid file
\* is right: a daemon that serves has its pid there, and one that does not serve
\* yet is awaited by a front end that would be at work as well.
LEMMA PidTellsTruth ==
    ASSUME TypeOK, Alone, ~PidAlive, NEW f \in FrontEnds,
           front[f].pc # "await",
           \A g \in FrontEnds : g # f => ~Touching(front[g].pc)
    PROVE  \A d \in Daemons : ~Alive(d)
  <1>1. SUFFICES ASSUME NEW d \in Daemons, Alive(d) PROVE FALSE OBVIOUS
  <1>2. daemon[d] \in {"launched", "cleared", "bound", "serving", "closing"} BY <1>1 DEF Alive, TypeOK
  <1>3. CASE daemon[d] \in {"serving", "closing"} BY <1>1, <1>3 DEF Alone, FilesFollow, PidAlive
  <1>4. CASE daemon[d] \in {"launched", "cleared", "bound"}
    <2>1. PICK g \in FrontEnds : front[g].pc = "await" BY <1>4 DEF Alone, ComingIsAwaited
    <2> QED BY <2>1 DEF Touching
  <1> QED BY <1>2, <1>3, <1>4

\* The steps of the front ends that leave the daemons and their files alone.
LEMMA LookingAlone ==
    ASSUME LifeInv, ~raced', NEW f \in FrontEnds,
           \/ Command(f) \/ Ping(f) \/ StartPing(f) \/ Inspect(f) \/ Await(f) \/ Request(f) \/ Result(f)
           \/ Query(f) \/ StopInspect(f) \/ Stop(f) \/ Wait(f) \/ Cleanup(f) \/ Terminate(f) \/ Clean(f)
    PROVE  Alone'
  <1>1. TypeOK /\ TargetsKnown BY DEF LifeInv
  <1>2. UNCHANGED <<daemon, socket, pidfile>>
    BY DEF Command, Ping, StartPing, Inspect, Await, Request, Result, Query, StopInspect, Stop, Wait, Cleanup, Terminate, Clean,
           Quiet, daemon_vars
  <1>3. CASE Command(f)
    <2>1. Moves(f, {"ping", "start_ping", "query"}) BY <1>1, <1>3, LookingMoves
    <2>2. raced' = raced /\ front[f].pc = "idle" BY <1>3 DEF Command, history, At
    <2>3. Alone BY <2>2 DEF LifeInv
    <2> QED BY <1>2, <2>1, <2>2, <2>3, FrontAlone DEF Moves, Touching
  <1>4. CASE Ping(f) \/ StartPing(f) \/ Request(f) \/ Result(f) \/ Query(f) \/ StopInspect(f) \/ Stop(f) \/ Wait(f) \/ Terminate(f) \/ Clean(f)
    <2>1. PICK pcs : Moves(f, pcs) BY <1>1, <1>4, LookingMoves, ActingMoves
    <2>2. front'[f].pc \notin {"launch", "unlink_socket", "unlink_pid"}
      BY <1>1, <1>4, LookingMoves, ActingMoves DEF Moves
    <2>3. front[f].pc # "await"
      BY <1>4 DEF Ping, StartPing, Request, Result, Query, StopInspect, Stop, Wait, Terminate, Clean, At
    <2>4. Race(f)
      BY <1>4 DEF Ping, StartPing, Request, Result, Query, StopInspect, Stop, Wait, Terminate, Clean, FrontStep
    <2> QED BY <1>2, <2>1, <2>2, <2>3, <2>4, NoRace, FrontAlone
  <1>5. CASE Inspect(f)
    <2>1. Moves(f, {"idle", "launch"}) BY <1>1, <1>5, LookingMoves
    <2>2. Race(f) /\ front[f].pc = "inspect" BY <1>5 DEF Inspect, At, FrontStep
    <2>3. front'[f].pc = "launch" => ~PidAlive
      BY <1>1, <1>5, DoneMoves DEF Inspect, TypeOK, FrontTypes, Moves
    <2>4. ASSUME front'[f].pc = "launch" PROVE \A d \in Daemons : ~Alive(d)
      <3>1. ~raced /\ Alone BY <2>2 DEF Race, LifeInv
      <3>2. \A g \in FrontEnds : g # f => ~Touching(front[g].pc) BY <2>2, <3>1 DEF Alone, OneAtWork, Touching
      <3> QED BY <1>1, <2>2, <2>3, <2>4, <3>1, <3>2, PidTellsTruth
    <2>5. front'[f].pc \notin {"unlink_socket", "unlink_pid"} BY <2>1 DEF Moves
    <2> QED BY <1>2, <2>1, <2>2, <2>4, <2>5, NoRace, FrontAlone
  <1>6. CASE Await(f)
    <2>1. Moves(f, {"request", "idle", "await"}) BY <1>1, <1>6, ActingMoves
    <2>2. front[f].pc = "await" BY <1>6 DEF Await, At
    <2>3. CASE Answered /\ Race(f)
      <3>1. front'[f].pc \notin {"launch", "unlink_socket", "unlink_pid"} BY <2>1 DEF Moves
      <3> QED BY <1>2, <2>1, <2>3, <3>1, NoRace, FrontAlone DEF Answered
    <2>4. CASE front' = [front EXCEPT ![f].tries = @ + 1] /\ raced' = raced
      <3>1. front'[f].pc = "await" BY <1>1, <2>2, <2>4 DEF TypeOK
      <3>2. Alone BY <2>4 DEF LifeInv
      <3>3. \A g \in FrontEnds : g # f => ~Touching(front[g].pc) BY <2>2, <3>2 DEF Alone, OneAtWork, Touching
      <3> QED BY <1>2, <2>1, <3>1, <3>2, <3>3, FrontAlone
    <2> QED BY <1>6, <2>3, <2>4 DEF Await
  <1>7. CASE Cleanup(f)
    <2>1. Moves(f, {"clean", "start_ping", "idle", "unlink_socket"}) BY <1>1, <1>7, LookingMoves
    <2>2. Race(f) /\ front[f].pc = "cleanup" BY <1>7 DEF Cleanup, At, FrontStep
    <2>3. front'[f].pc = "unlink_socket" => ~PidAlive
      BY <1>1, <1>7, AfterStopMoves DEF Cleanup, TypeOK, FrontTypes, Moves
    <2>4. ASSUME front'[f].pc = "unlink_socket" PROVE \A d \in Daemons : ~Alive(d)
      <3>1. ~raced /\ Alone BY <2>2 DEF Race, LifeInv
      <3>2. \A g \in FrontEnds : g # f => ~Touching(front[g].pc) BY <2>2, <2>4 DEF Race, Touching
      <3> QED BY <1>1, <2>2, <2>3, <2>4, <3>1, <3>2, PidTellsTruth
    <2>5. front'[f].pc \notin {"launch", "unlink_pid"} BY <2>1 DEF Moves
    <2> QED BY <1>2, <2>1, <2>2, <2>4, <2>5, NoRace, FrontAlone
  <1> QED BY <1>3, <1>4, <1>5, <1>6, <1>7

\* A daemon is launched while no other is alive, and awaited.
LEMMA LaunchAlone ==
    ASSUME LifeInv, ~raced', NEW f \in FrontEnds, Launch(f)
    PROVE  Alone'
  <1>1. TypeOK /\ TargetsKnown /\ Moves(f, {"idle", "await"}) BY ActingMoves DEF LifeInv
  <1>2. Race(f) /\ front[f].pc = "launch" /\ UNCHANGED <<socket, pidfile>> BY DEF Launch, At, FrontStep
  <1>3. ~raced /\ Alone BY <1>2 DEF Race, LifeInv
  <1>4. \A d \in Daemons : ~Alive(d) BY <1>2, <1>3 DEF Alone, ActsOnTruth
  <1>5. CASE daemon' = daemon BY <1>1, <1>2, <1>4, <1>5, NoRace, FrontAlone
  <1>6. CASE Goto(f, "await") /\ \E d \in Daemons : daemon' = [daemon EXCEPT ![d] = "launched"]
    <2>1. PICK d \in Daemons : daemon' = [daemon EXCEPT ![d] = "launched"] BY <1>6
    <2>2. daemon'[d] = "launched" /\ \A e \in Daemons : e # d => daemon'[e] \in {"unborn", "gone"}
      BY <1>1, <1>4, <2>1 DEF TypeOK, Alive
    <2>3. front'[f].pc = "await" BY <1>1, <1>6, GotoMoves DEF TypeOK, FrontTypes, Moves, Pcs
    <2>4. \A g \in FrontEnds : g # f => ~Touching(front'[g].pc)
      BY <1>1, <1>2, <1>3 DEF Alone, OneAtWork, Touching, Moves
    <2>5. OneAtWork' BY <2>4 DEF OneAtWork
    <2>6. OneAlive' BY <2>2 DEF OneAlive, Alive
    <2>7. ComingIsAwaited' BY <2>3 DEF ComingIsAwaited
    <2>8. FilesFollow' BY <2>2 DEF FilesFollow
    <2>9. ActsOnTruth' BY <2>3, <2>4 DEF ActsOnTruth, Touching
    <2> QED BY <2>5, <2>6, <2>7, <2>8, <2>9 DEF Alone
  <1>7. daemon' = daemon \/ (Goto(f, "await") /\ \E d \in Daemons : daemon' = [daemon EXCEPT ![d] = "launched"])
    BY DEF Launch
  <1> QED BY <1>5, <1>6, <1>7

\* Stale files are removed while no daemon is alive.
LEMMA UnlinkAlone ==
    ASSUME LifeInv, ~raced', NEW f \in FrontEnds, UnlinkSocket(f) \/ UnlinkPid(f)
    PROVE  Alone'
  <1>1. TypeOK /\ TargetsKnown /\ Moves(f, {"unlink_pid", "clean", "start_ping", "idle"})
    BY ActingMoves DEF LifeInv, Moves
  <1>2. Race(f) /\ front[f].pc \in {"unlink_socket", "unlink_pid"} /\ daemon' = daemon
    BY DEF UnlinkSocket, UnlinkPid, At, FrontStep
  <1>3. ~raced /\ Alone BY <1>2 DEF Race, LifeInv
  <1>4. \A d \in Daemons : daemon'[d] \in {"unborn", "gone"} BY <1>2, <1>3 DEF Alone, ActsOnTruth, Alive
  <1>5. \A g \in FrontEnds : g # f => ~Touching(front'[g].pc)
    BY <1>1, <1>2, <1>3 DEF Alone, OneAtWork, Touching, Moves
  <1>6. OneAtWork' BY <1>5 DEF OneAtWork
  <1> QED BY <1>4, <1>6 DEF Alone, OneAlive, ComingIsAwaited, FilesFollow, ActsOnTruth, Alive

\* A daemon that is killed leaves its files, and nobody alive with them.
LEMMA KillAlone ==
    ASSUME LifeInv, ~raced', NEW f \in FrontEnds, Kill(f)
    PROVE  Alone'
  <1>1. TypeOK /\ TargetsKnown /\ Moves(f, {"kill", "cleanup"}) BY ActingMoves DEF LifeInv
  <1>2. Race(f) /\ front[f].pc = "kill" /\ UNCHANGED <<socket, pidfile>> BY DEF Kill, At, FrontStep
  <1>3. ~raced /\ Alone BY <1>2 DEF Race, LifeInv
  <1>4. CASE daemon' = daemon
    <2>1. front'[f].pc \notin {"launch", "unlink_socket", "unlink_pid"} BY <1>1 DEF Moves
    <2> QED BY <1>1, <1>2, <1>4, <2>1, NoRace, FrontAlone
  <1>5. CASE daemon' = [daemon EXCEPT ![front[f].target] = "gone"]
    <2>1. \A d \in Daemons : daemon'[d] = daemon[d] \/ daemon'[d] = "gone" BY <1>1, <1>5 DEF TypeOK
    <2>2. OneAtWork' BY <1>1, <1>2, <1>3 DEF Alone, OneAtWork, Touching, Moves
    <2>3. OneAlive' BY <1>3, <2>1 DEF Alone, OneAlive, Alive
    <2>4. ComingIsAwaited' BY <1>1, <1>2, <1>3, <2>1 DEF Alone, ComingIsAwaited, Moves
    <2>5. FilesFollow' BY <1>2, <1>3, <2>1 DEF Alone, FilesFollow
    <2>6. ActsOnTruth' BY <1>1, <1>3, <2>1 DEF Alone, ActsOnTruth, Alive, Moves
    <2> QED BY <2>2, <2>3, <2>4, <2>5, <2>6 DEF Alone
  <1> QED BY <1>4, <1>5 DEF Kill

\* The invariant of the lives of daemons and front ends is kept by every step.
LEMMA LifeStep == LifeInv /\ [Next]_vars => LifeInv'
  <1>1. SUFFICES ASSUME LifeInv, [Next]_vars PROVE LifeInv' OBVIOUS
  <1>2. TypeOK' /\ TargetsKnown' BY <1>1, TypesStep DEF LifeInv
  <1>3. SUFFICES ASSUME ~raced' PROVE Alone' BY <1>2 DEF LifeInv
  <1>4. ASSUME UNCHANGED <<daemon, socket, pidfile, front, raced>> PROVE Alone'
    BY <1>1, <1>3, <1>4 DEF LifeInv, Alone, OneAtWork, OneAlive, ComingIsAwaited, FilesFollow, ActsOnTruth, Alive
  <1>5. ASSUME NEW d \in Daemons, DaemonNext(d) \/ Crash(d) PROVE Alone'
    <2>1. raced' = raced BY <1>5 DEF DaemonNext, Clear, Bind, Serve, ExitLoop, Teardown, Crash, history
    <2> QED BY <1>1, <1>3, <1>5, <2>1, DaemonAlone
  <1>6. ASSUME NEW d \in Daemons, WorkerNext(d) \/ Killed(d) PROVE Alone'
    BY <1>4, <1>6 DEF WorkerNext, Acquire, Built, ToolBuilt, Ran, Killed, daemon_vars, history
  <1>7. ASSUME NEW f \in FrontEnds, Command(f) \/ FrontNext(f) PROVE Alone'
    BY <1>1, <1>3, <1>7, LookingAlone, LaunchAlone, UnlinkAlone, KillAlone DEF FrontNext
  <1>8. CASE UNCHANGED vars BY <1>4, <1>8 DEF vars, daemon_vars, history
  <1> QED BY <1>1, <1>5, <1>6, <1>7, <1>8 DEF Next

\* Before the first command there is no daemon, no file and nobody at work.
LEMMA LifeInit == Init => LifeInv
  <1>1. Init => TypeOK
    <2> DEFINE R == [pc : Pcs, cmd : AllCommands \cup {"none"}, tries : Nat, target : Daemons \cup {None},
                     socket : BOOLEAN, pid : BOOLEAN]
    <2>1. Idle \in R BY DEF Idle, Pcs
    <2> HIDE DEF R
    <2>2. Init => front \in [FrontEnds -> R] BY <2>1 DEF Init
    <2>3. Init => tries \in [Daemons -> Nat] /\ commands \in Nat /\ crashes \in Nat BY DEF Init
    <2>4. Init => lock \in BOOLEAN /\ intact \in BOOLEAN /\ raced \in BOOLEAN BY DEF Init
    <2> QED BY <2>2, <2>3, <2>4 DEF Init, TypeOK, R
  <1>2. Init => TargetsKnown BY DEF Init, TargetsKnown, Idle
  <1>3. Init => OneAtWork /\ ActsOnTruth BY DEF Init, OneAtWork, ActsOnTruth, Touching, Idle
  <1>4. Init => OneAlive /\ ComingIsAwaited /\ FilesFollow BY DEF Init, OneAlive, ComingIsAwaited, FilesFollow, Alive
  <1> QED BY <1>1, <1>2, <1>3, <1>4 DEF LifeInv, Alone

\* The daemons, the files, the workers and the front ends keep to their types,
\* and a daemon cancels its worker only when it is stopping.
THEOREM LifeTypeCorrect == Spec => []TypeOK
  <1>1. LifeInv => TypeOK BY DEF LifeInv
  <1> QED BY <1>1, LifeInit, LifeStep, PTL DEF Spec

\* As long as no two front ends are at work on the daemon's files at once
\* (start_test_daemon, test_daemon_client_cleanup_stale_artifacts) and none gives
\* up on a daemon that is still coming (wait_for_test_daemon_ready), there is one
\* daemon, and while it serves the socket and the pid file are its own.
THEOREM OneDaemonAtATime == Spec => []OneDaemon
  <1>1. LifeInv => OneDaemon
    BY DEF LifeInv, OneDaemon, Alone, OneAlive, FilesFollow, Serving
  <1> QED BY <1>1, LifeInit, LifeStep, PTL DEF Spec

=============================================================================
