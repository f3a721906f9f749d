# Nobify in TLA+

Nobify reads a CMake project and writes a C program (`nob.c`) that builds it.
The code is under `src_v2/`. This directory keeps TLA+ modules that model parts
of that code, TLC configurations that check them on small instances, and proofs
that TLAPS checks for every value of the constants.

    tlc -config DaemonSafety.cfg MCTestDaemon     # one run
    tlapm TestDaemonProofs.tla                    # the proofs of one module

`PROJECT.json` lists the components, the runs, the lines each definition
stands for, the hazards and the theorems.

## 1. The system

`app/nobify.c` is a sequential pipeline: the lexer and parser turn a script into
an AST, the evaluator executes it and appends to an Event IR stream, the builder
turns the stream into a draft of the build model, the draft is validated and
frozen, and the code generator asks the frozen model for what it renders. A
failing phase ends the run. Beside it stands the project's own test
infrastructure: a daemon that runs test modules for clients and while files
change, and that is the concurrent part of the code.

| component | state | operations | what is hard about it |
|---|---|---|---|
| test daemon reactor (`build/test_daemon_runtime.c`) | one `Test_Daemon_Server`: a worker, a client, a watch session, timers, pipes | the handlers of an `sd-event` loop: requests, inotify, debounce and kill timers, pidfd, pipes, signals | handlers interleave with a forked worker, with the programs it starts, with clients that vanish and with file saves |
| daemon client and front end (`build/nob.c`, `test_daemon_client.c`, `test_daemon_protocol.c`) | a socket, a pid file | start, stop, ping, run, watch | two front ends race to start a daemon; stale files after a crash |
| test runner (`build/test_runner_*.c`) | workspaces, depfiles, a build lock per profile | build and run modules | a lock that is a directory; a killed worker keeps it; one tool is built outside it |
| evaluator core (`evaluator/evaluator.c`, `eval_exec_core.c`, `eval_flow_block.c`, `eval_user_command.c`, `eval_nested_exec.c`, `eval_include.c`) | execution contexts, variable scopes, block frames, policy levels, pending flow, transactions | the walk over a node list; calls, files, loops, blocks, return, break | four stacks that must pop what was pushed, whichever way a list is left; pointers into arrays that move |
| evaluator commands (the other `evaluator/eval_*.c`) | target registry, properties, scopes, cache, deferred calls, locks, packages, dependencies, dashboard steps | about 140 handlers that check their arguments, emit events, change files and run programs, each in a transaction | commands run commands: an error inside takes back some state and cannot take back other state; what is known when a command runs is not what is known at the end |
| Event IR (`transpiler/event_ir.c`) | an append-only stream | push, copy, iterate | order is the protocol between evaluator and builder |
| builder (`build_model/build_model_builder*.c`) | the draft: directories and their stack, targets, steps, installs, exports, tests, packages | one case per kind of event | records that exist before they are declared |
| validation (`build_model_validate*.c`) | colours of the search | four passes over the draft | a cycle missed or invented |
| freeze and queries (`build_model_freeze.c`, `build_model_query*.c`) | the frozen model, memo tables of sessions | resolve names and producers; effective items, link line, build order | transitive closures over aliases, interface and imported targets |
| generator expressions (`genex/`) | recursion depth, stack of target properties | evaluate a string | self reference |
| code generator (`codegen/`) | a render context; the written program keeps stamps, objects and artifacts on disk | the program it writes: configure, clean, build, install, export, package, test, dashboards | the program decides by times and stamps what is left to do after crashes, edits, failed tools and changes of configuration |
| lexer, parser, diagnostics, arena | a cursor; nesting depth; counters; blocks | | bounds |

How they interact: the evaluator calls the Event IR; `nobify.c` passes the
stream to the builder and the draft to the validation and the freeze; the code
generator calls the queries, which call the generator expressions. The daemon
forks the test runner and talks to the front end over a socket. Nothing is
shared between processes but the file system.

What makes each part correct is stated as the properties of section 3.

## 2. Modules

| module | models | proofs |
|---|---|---|
| `TestDaemon` | the daemon's reactor and its environment | `TestDaemonProofs` |
| `DaemonLife` | front ends, daemons, their files and the build lock; implements `BuildTurns` | `DaemonLifeProofs` |
| `BuildTurns` | abstract: the builds under the lock of a profile take turns | |
| `EvalFlow` | the execution core of the evaluator | `EvalFlowProofs` |
| `EvalSession` | the session state, transactions, frames | |
| `SessionCommands`, `Ctest`, `Packages`, `FetchContent`, `FileCommands`, `Processes`, `Properties` | the commands, by the files that implement them | |
| `Disk` | the file tree as the code's calls change it (external) | |
| `Replay` | what the generated program makes of recorded actions | |
| `Session` | a script run to its end, with all of these commands | `SessionProofs` |
| `CycleCheck` | the depth-first search of `build_model_validate_cycles.c` | `CycleCheckProofs` |
| `BuildModel` | builder, validation, freeze and queries | `BuildModelProofs` |
| `Configure` | a configure run: commands, events, and `BuildModel` consuming them | `ConfigureProofs` |
| `GeneratedBuild` | the generated program: configure, clean, build | |
| `GeneratedProgram` | its command line, install, export, package, test, dashboard | `GeneratedProofs` |
| `MC...` | the instances: model values, graphs, scripts, projects | |

### TestDaemon

`srv` is the server record; a C function that works on it is an operator from
records to records, and a handler, which the loop runs to its end, is one
action. `SpawnWorker`, `BeginWorkerCancel`, `ResetWorker`, `FinishActiveRun`,
`HandlePendingBatch` and `StartNextModule` keep the order of the calls of the C
functions they are named after, with the returns in the middle where a send or a
system call fails. The environment is modelled from how the code uses it: the worker
process (`proc`), a program it started (`child`), the peer of the client, the inotify queue, which may overflow, and the user who
saves files. `Faults` says which failures happen: `client` (a peer goes away, a
send fails), `resource` (fork, pipe and timer calls fail), `bulk` (output past
the buffer's limit). Telemetry, wording and the preflight caches are left out.
A program of the worker is `piped` when it has the worker's pipes (compilers, and
the test binary of a verbose run) and `logged` when its output goes to log files
(any other test binary, `test_runner_exec.c:1235`): only the first kind keeps the
daemon from seeing the end of file. `SpawnFailed` covers each place where
`daemon_spawn_worker` gives up; when the registration of an event source fails, the
flags of both pipes stay set (`test_daemon_runtime.c:2010`). A worker that such a
failure kills again is taken to have started no program.

### DaemonLife and BuildTurns

Several processes that share only files. A front end is a program counter over
the steps of `ensure_test_daemon_running`, `stop_test_daemon`, `clean` and a run
request; between two of its steps any other process may go. A daemon is launched,
clears stale files, binds, writes its pid file, serves, and tears down; it or its
worker may crash or be killed at each point. A worker takes the lock directory,
builds the test binary, gives the lock back, builds the nobify tool if its module is a
parity test (`ToolBuilt`), and runs. The tool is built in the object directories of the same
profile, after the lock is released (`test_runner_exec.c:1190`, `1356`). `BuildTurns` says what the lock promises
and what it does not: one builder at a time has its turn, and one whose turn is over may go on
beside the next. `LockTurns` maps the detailed module to it. `raced` and `intact` are history: two
front ends at the same files, and the lock removed under a builder.

### EvalFlow

The script is not a constant: when a list asks for its next node, any node of
the kinds of `script` may come, so a run explores every script over those kinds
within the bounds. `stack` is the C call stack of constructs being evaluated;
`mem` holds the arrays that `exec_contexts` has been, because a loop keeps a
pointer into one of them while a push may move the array (a move is a
nondeterministic choice, as `realloc` makes it). One variable stands for all.

### The session modules

`now` is what `eval_command_tx_begin` saves and `eval_command_tx_finish` may
restore: scopes, cache, deferred queues, guards, dependencies, dashboard steps,
properties, the registries. `world` is what it cannot: the disk, locks, policies,
what was sent. `frames` are the commands under way; each has its snapshot and the
commands of its body that are left. One action per command (`Leaf`) or per stage
of a command that runs others (a function, an include, a subdirectory, a deferred
call, `find_package` with its provider, version file and package file,
`FetchContent_MakeAvailable`, `ctest_run_script`). What a command asks of the
machine (a download, a program, a compiler) is part of the command record, so
every answer is tried. The text of a file is a sequence of chunks, which keeps
`configure_file`, generator expressions and appends apart. `Replay` applies the
recorded actions of the configure phase, as `nob_codegen_replay.c` writes them, to
the tree the run started from; `Properties` folds the events of properties the way
the builder does.

### CycleCheck

One action per branch of the recursion (`VisitRoot`, `SkipRoot`, `VisitEdge`,
`SkipEdge`, `ReportCycle`, `Return`); `path` is the C call stack, `dep` the loop
counter of each call. The same search serves the explicit dependencies and the
frozen execution graph. `finish` and `clock` are history.

### BuildModel and Configure

`BuildModel` has one action per kind of event, with the builder's errors;
`Finalize`, `Validate` and `Freeze` are the phases, and the operators of its last
section are what the freeze resolves and the queries return. `BuilderSpec` lets
any event of the Event IR come at any time, which is what the proofs are about.

`Configure` is what runs: a command of the script is an action that makes the
checks of its handler against the registry and appends the handler's events to
`stream`; when the evaluation ends without an error, the stream is wrapped in the
root directory and consumed by the actions of `BuildModel`. `asked` is history:
the edges between targets and steps that the script asked for, against which the
properties hold the frozen model. A definition is abstracted to its visibility, a
path to base, directory and file. The roots are absolute, so a path in the
source tree never names a generated file. `Cyclic` states what `CycleCheck` is
shown to compute.

### GeneratedBuild and GeneratedProgram

What the emitted C does when it runs. `todo` is the rest of the run as a list of
operations; a call of a `build_<target>` or `run_<step>` function puts its body in
front, and one action executes one operation, so a crash, a failing tool or the
clock can come between any two. `files` maps paths to a time in seconds and a text
that says from what, in which configuration and by which version of the program it
was made. `Around` is the user: editing sources, regenerating or recompiling
the program, losing files. `blind` lists the changes that modification times
cannot show (an edit in the second of a build, a header, the old binary of a regenerated program, a
step interrupted after its first output or with an output lost, a memo); a property about up-to-date files leaves those histories out, and section
5 names the ones that are defects.

## 3. Runs

### The daemon

Two modules and two watched files: the smallest instance with a batch of more
than one module and a save that concerns part of it. `MaxSaves` bounds saves; two
allow one during the debounce and one during the run it causes. Three are not
needed: the third finds a server record the first two have produced.

- `daemon_safety` (`DaemonSafety.cfg`), every fault. `WorkerSupervised`: a live worker is
  the one the record names. `CancelEscalates`: a cancelled worker stays under the
  kill timer. `IdleIsClean`: a request is admitted only when nothing of an earlier one
  is left, but for the flags of both pipes after a failed spawn, never of one. `RunsDoNotOverlap`: no worker is
  started while the one before it, or a program that holds its pipes, runs. Of test binaries that write
  to log files it says nothing: section 5.
- `daemon_stop` (`DaemonStop.cfg`), no fault, and a worker that may be stuck.
  `StopExits`, `ForcedStopExits`, `RunFinishes`, `NoRunAfterStop`.
- `daemon_module_watch` (`DaemonModuleWatch.cfg`), every file concerns every module.
  `SavesAreScheduled` and `SavesAreTested`: no save is forgotten. With files that
  concern different modules the code does replace the batch of a cancelled run by
  the modules of the newer save; the hazards name it.
- `daemon_stop_lost_client` (`DaemonStopLostClient.cfg`) is a violation of
  `StopExits`: the reply to a forced stop of an idle daemon cannot be sent, and the handler
  returns before `sd_event_exit` (`test_daemon_runtime.c:2153`) with the daemon marked as stopping.
- `daemon_life` (`DaemonLife.cfg`), two front ends, two daemons, three commands out of run,
  forced restart and clean, one crash, and waits of one try. `OneDaemon`: while front ends
  do not race, there is one daemon and its files are there, after every crash and stop.
  `BuildsTakeTurns`: the refinement of `BuildTurns`, that is, the builds under the lock. `FrontEndsEnd`: every command ends. Two of
  each are what a race, a restart and a leftover need; the number of tries only delays
  the step after the last one.

Fairness: the loop dispatches what is pending in turn, so each handler is weakly
fair; the kill timer is one of them, and is armed again only by a save, of which
there are finitely many. A worker that does not hang ends although it is
interrupted by nothing (`SF` on `WorkerExit`, since its start and its programs
disable it); `StuckWorkerSpec` drops this for `ForcedStopExits`. Programs that a
worker started end. In `DaemonLife` each process is weakly fair, since the operating
system runs it; crashes, kills and commands need not come.

### The evaluator

`MaxOps` bounds the constructs being evaluated at once, `MaxBlocks` the open
blocks: three and two allow a block in a call in a loop, and two blocks that one
return unwinds. The lists are of any length.

- `flow` (`Flow.cfg`): two families of scripts (`FlowScripts`). In the first everything is
  pushed and popped while the array of contexts grows, in the second loops and values
  are used while it need not grow. `ContextsMatch`, `ScopesMatch`: whichever way a list is
  left, each construct pops its own. `ReturnConsumed`, `ReturnPropagates`, `ReturnEnds`: a return
  reaches its function or file, with its values, through any blocks. The fairness is that
  of one sequential thread.
- `flow_stale_context` (`FlowStaleContext.cfg`) violates `SignalHasLoop`: a loop reads
  its pending signal from the array's old copy.

The passing run stays clear of two defects by `MaxFiles = 1` (nested files, section 5)
and, for loops, by an array that need not grow.

- `session` (`Session.cfg`): nineteen families of scripts (`MCScripts`), each position of a script a
  set of commands, one family per part: files, functions and locks; policies and the cache;
  deferred calls; the first `project()`; files of the end of the run; file commands; archives,
  downloads and links; dashboards; tests; scripts in processes of their own; packages;
  dependencies with and without a provider; programs; probes; properties. An error can be
  put in most places and inside most nested files, so that every transaction is both kept and taken
  back. `StacksAligned`, `LocksScoped`, `ActivesAligned`: the stacks of scopes, deferred queues, locks,
  packages and dependencies are those of the commands under way. `SubmissionFresh`: a dashboard never
  submits a report older than the newest. `FetchedOnce`, `MakeAvailableComplete`: a dependency is
  fetched once, and what a command says it made available is. `ReplayFaithful`: the
  generated program's replay leaves the tree the run left. `PropertiesMirrored`: the builder's properties are those the script reads. A
  script has four to eight positions, which is what one command, the command it runs, an
  error and the command that reads the result need; there is no bound on depth but that of the files.

### The build model

- `cycle_search` (`CycleSearch.cfg`): all graphs of three nodes with up to two
  dependencies each, with self-dependencies, repetitions and unresolved names.
  `SilenceMeansOrder`, `ErrorMeansCycle`, `SearchEnds`.
- `configure_clean` (`ConfigureClean.cfg`): five script shapes over three names, one
  file and one subdirectory (`MCConfigure`), each position a set of commands:
  links of every visibility through interface libraries and aliases; order through
  targets that are not built; what is visible across directories; steps, hooks and
  generated sources in one directory and in two. `BuilderAccepts`: a script without a diagnostic
  is a stream the builder accepts. `StreamWellFormed`: such a draft never fails the
  structural or resolution pass. `DeclarationsKept`, `UsageExact`, `AskedIsOrdered`:
  the frozen model has the targets, the usage requirements and the order the
  script asked for. `DraftSound`: the invariant that is proved below. Three names
  are what a chain through an intermediate target needs, and the shapes are cut so that
  each question has the commands that bear on it. Links and dependencies that name a later
  target are run, and left out of `UsageExact` and `AskedIsOrdered` (see the hazards). The usage
  a script asks for is CMake's: a target takes what it links PRIVATE or PUBLIC, and from there
  what is linked PUBLIC or INTERFACE. `UsageExact` says that all of it arrives, and nothing else
  unless there is a link on the way that should hide what is behind it; there the code
  passes on more (`PrivateStaysPrivate`, section 5).

### The generated program

- `generated_program` (`GeneratedProgram.cfg`): small projects (`MCPlans`), each with its own bounds on
  seconds, runs and changes: a chain of steps and a library, a linked program, two
  configurations with configure actions, cycles, install rules with packages, tests and a
  dashboard. `BuildIsCurrent`: after a run that succeeds everything it built is what a
  build from nothing would give, whatever happened before. `ConfigsApart`: no object
  of another configuration under a stamp. `NoReentry`: no step or target is entered again before it is left.
  `PackagesExact`: each archive has its component's files and nothing of the one before. Two runs with one or
  two changes between them are what an interrupted build, its repair and a stale file need.
- `generated_dashboard` (`GeneratedDashboard.cfg`) violates `DashboardBuilds`: `test` builds the programs of its
  tests, the configure step of the replayed dashboard cleans the tree, and its build step does nothing,
  because the process remembers the targets as built.

The runs of a program that has ended or of a script that is over stop there, so those
configurations do not check for deadlock; `flow`, `session` and `configure_clean` do.

## 4. Proofs

The eight proof modules are for every value of the constants: any number of
modules, files, nodes, names, processes, any projects, any scripts.

`TestDaemonProofs`. The invariants of `daemon_safety` are not inductive one by one.
`IInv` adds `Sound(srv)`, a predicate on server records that each C function is
shown to keep (one lemma per function), and that ties the worker, its pipes and
exit flag, the timer and the session, with the flags of both pipes or of none when there
is no run; and `PipesHeld`, that the worker and a piped program of it keep both pipes open. Each action is then a `Sound` record returned to the loop
(`ReturnInv`). From `IInv`: `TypeCorrect`, `Supervision`, `Escalation`, `DrainCloses`
(shutdown marks the active session), `SessionOwnsRuns` (no run outlives its session),
`IdleClean`, and the action property `NoOverlap`. Two more need an invariant of their own:

- `NothingAfterStop` (the action property `NoRunAfterStop`). `StopHasRun`: a session that is
  still open when the daemon is stopping has a run, so the end of that run closes it, and
  nothing is left that could start another. The hypothesis is that no client fails: a
  stop whose answer cannot be sent returns before the loop is told to exit, and the
  open session goes on (section 5).
- `SavesScheduled` (`SavesAreScheduled`). `Covers(s, D)`: the modules with untested saves are modules
  of the session, and the batch, the changes read and the events queued contain them. It is shown
  of each function that replaces one of the three by another. The hypotheses are those of the
  run: every file concerns every module (otherwise the batch of a cancelled run is replaced by the
  modules of the newer save, which is listed as a hazard), and fork and inotify do not fail, since the
  code drops the batch then. Clients may fail and events may overflow.

`DaemonLifeProofs`. `TurnsKept`: `DaemonLife` implements `BuildTurns`, for any number of front ends
and daemons and any crashes. `BuildInv` is the invariant the step simulation needs:
while the lock was not wiped away, a builder under the lock means that the directory is there and
that it is alone. The builders of the tool are beside it, any number of them. A directory without a builder is allowed: that is what a killed worker leaves.
`OneDaemonAtATime` (`OneDaemon`) rests on `LifeInv`. As long as front ends do not race, one of them
is at work on the files (`OneAtWork`), one daemon is alive (`OneAlive`), a daemon that does not serve
yet is awaited by the one that launched it (`ComingIsAwaited`), the socket and the pid file follow the
daemon from its binding to its teardown (`FilesFollow`), and who is about to launch a daemon or to
remove stale files does so while none is alive, although it looked some steps ago (`ActsOnTruth`).
The last two are what `OneDaemon` lacks to be inductive.

`CycleCheckProofs`. `SearchInv`: the gray nodes are the open calls, each call was made
for the dependency its caller is at, what is behind an open call is done, and a
black node finished after everything it depends on. `NoCycleMissed` and
`NoCycleInvented` follow; the second takes the open calls from the gray node on as
the set each of whose members depends on another.

`BuildModelProofs`. For every stream of events, including those no evaluator
emits, `BuilderTypeCorrect` and `BuilderKeepsDraftSound`. The two need each other: owners exist
because the current directory does, which is the chain of the stack. One lemma
per kind of event; an error leaves the draft as it was. `StructureSound`: of the structural pass, only
the question whether every target was declared can be answered with no. That every chain of parents ends
(`ChainsEnd`) follows from `ParentsFirst`: the k-th ancestor of a directory is none or has a number at most `Len(directories) - k`,
shown along the recursive function `Ancestor` by a least counterexample.

`ConfigureProofs`. Whatever the script, a configure run is a run of the builder (`ConfigureIsBuilder`: the evaluator
emits events and nothing else), so `DraftSound` holds of it (`ConfigureDraftSound`), and its own state keeps its type
(`ConfigureTypeCorrect`). The other three are what the evaluator's checks are for: `StreamsAccepted` (`BuilderAccepts`),
`StreamsWellFormed` (`StreamWellFormed`) and `DeclarationsMirrored` (`DeclarationsKept`). The builder makes its checks long after
the commands made theirs, so the invariant must say what the builder will find when it comes to an event:

- a `View` is the draft as far as the builder's checks and the declarations go (the open directories, the names with
  flags, kind, alias, directory and dependencies, the steps with their owners), and `Takes(ev, u, v)` says which views an event is
  accepted with and what it makes of them; `ApplyView` shows that the builder does so;
- `Leads(q, u, w)`: the events of `q` are all accepted, one after the other, from `u` to `w`. It is shown to compose and to
  split at either end;
- `Mirror(w)`: the view `w` is the evaluator's registry and its step keys;
- `ConfigureInv`: while the script runs, the stream leads from the root directory to a view that is the registry and whose open
  directories are the evaluator's; while the builder consumes it, the rest of the stream leads there from the draft; after that
  the draft is there. One lemma per group of commands (`DeclaringAhead`, `StepAhead`, `ChangingAhead`) shows that what a handler lets through
  takes the view along, one per phase of the pipeline that it arrives.

The hypothesis `Careful` is about the scripts, and names the two things the handlers leave to them: `add_custom_target` does not
ask whether its name is new, and definitions of the scope are emitted for a new target before its declaration
(`eval_project.c:925`; section 5). Without either half `BuilderAccepts` is false. `MCConfigure` states `Careful` of the scripts of
`configure_clean` as an assumption, which TLC evaluates.

`EvalFlowProofs`. `ReturnsAreConsumed`: `ReturnConsumed` for every script without loops, of any length and nesting. `Returns`: the contexts that were
asked to return are the ones on top, and all but the lowest of them are blocks; the rest of the invariant ties the
operations on the C stack to the contexts they pushed, since the end of a function clears the context that is on top then. With loops
the statement needs the array not to grow: a loop reads its signal at an address taken before its body ran, and after a fatal result or a move of the array
that address is of another context (`flow_stale_context`), so those scripts are left to TLC.

`SessionProofs`. `StacksStayAligned` (`StacksAligned`) and `ActivesStayAligned` (`ActivesAligned`), for every script, file, package, dependency and
nesting, with no assumption on the constants. Neither is inductive: a command that fails puts back the snapshot its transaction was started with,
which may have been taken many frames ago, so the invariant must say of each snapshot what the two say of the session.

- `Shape(st, fr, n)`: the state `st` is in step with the first `n` frames: one scope, one queue, one entry of the packages being found and of the dependencies
  being made for each frame that keeps one open, in the order of the frames;
- `Aligned` (`SessionInv`): the session is in step with all frames, the snapshot of the k-th frame with those below it, and so is the state a
  dashboard script with a new process is to go back to. It also says which frames have a transaction: all but the first, the deferred calls, and
  those right above a frame that has one;
- `Same(a, b)`: the four stacks of the two states are alike. A command that does not run a script keeps it (`Keeps`), whatever it does to variables,
  cache, properties, tests and records; there is a lemma for each file of commands (`CoreLeaves`, `FileLeaves`, `DashboardLeaves`, `ProcessLeaves`, `PropertyLeaves`);
- `Grown(a, b, f)`: the state `b` has what frame `f` keeps open, and nothing else, above the stacks of `a`: what entering a function, a directory, a search,
  a dependency or a new process shows, and what leaving it takes back in the other direction;
- a fatal `execute_process` closes all frames at once: `Unwound` is the lowest snapshot, with the variables the transactions above it hand down cut to
  its height (`UnwoundShape`).

The lists are compared by the rank of a frame among those that keep something open (`Rank`), since the entries of a stack have no
reference to their frame: the code finds its own entry by being last.

`GeneratedProofs`. `ProgramInv` (`ProgramSound`) is about the order of what a run has still to do, `todo`:

- `Ready`: an operation that compiles or runs commands comes after one that leaves only
  the stamp of the configuration at hand (`Settles`: a configure, a stamp), with nothing between that may
  change the configuration (`Breaks`: a dashboard step, `--config`, a new command);
- `Cleaning`: before a configure action or a stamp there is only what `clean_all` and the
  configure actions do, every object and stamp on the disk is removed by then, and every guarded
  output of another configuration is written again before the stamp;
- `Returning`: each function that is still to return is open, and returns once;
- `Apart`: a stamp is alone, and what it vouches for (`Vouched`) is of its configuration.

The first part of the module says what each emitted function contributes to `todo` (`Calls`,
`TargetBody`, `CleanOps`, `InstallOps`, `PackageOps`, `TestOps`...), the second has a lemma per action.
A crash empties `todo`, so what is on the disk must be sound between any two operations; this is
why `Apart` cannot be proved alone. `NeverReentered` (`NoReentry`) follows without further hypotheses.
`ConfigsKeptApart` (`ConfigsApart`) assumes `SameOutputs`: the configure outputs are the same in all versions of a project. Without
it the statement is false of the code, and harmlessly so: a step of the first version leaves an output; the
second version drops the step and is configured in another configuration; the third, once it is compiled, lists that
path among its configure outputs, and the old file is beside a stamp that is older than the program, so
the next build configures again. The projects are constrained by `PlansAssumption` only: lists are
sequences, and install rules, exports, commands and dashboard steps are of the kinds the generator
writes. `Keep` filters a list by a recursive function over positions; what it and the concatenations of lists contain is
shown by taking a least counterexample in an interval (`UpTo`), which needs no induction theorem with an operator parameter.

Assumptions: `None` is no name (`NoneAssumption`), the scripts of `Configure` are made of its commands (`ScriptsAssumption`), and those named in the modules
that declare the constants.

Only model-checked:

- liveness (`StopExits`, `ForcedStopExits`, `RunFinishes`, `SavesAreTested`, `FrontEndsEnd`, `ReturnEnds`, `SearchEnds`), which the prover
  cannot treat with fairness;
- `EvalFlow`: `ContextsMatch` and `ScopesMatch` compare counts of filtered stacks, and hold only where the two defects
  named in section 3 are kept out, so a statement for every value of the constants would be one about those cases;
- `Session`: `LocksScoped`, `SubmissionFresh`, `FetchedOnce`, `ReplayFaithful` and `PropertiesMirrored`. The last two compare a fold over
  the whole stream with another one, and need induction over data; `SubmissionFresh` and `FetchedOnce` hold of runs without errors only, along the
  order of the stages of a dashboard and of a dependency; `LocksScoped` needs the depths the code releases by to be those of the frames,
  which are not in `SessionInv`;
- `BuildIsCurrent` and `PackagesExact`: they hold of projects that meet conditions the generator does not check (one writer
  for each path, an order that covers every read), and need an invariant that relates the time of every file to the times of what it was
  made from; this has not been attempted;
- `UsageExact` and `AskedIsOrdered` compare closures over the frozen graph with closures over what the script asked for;
  the draft they start from is the one `DeclarationsMirrored` is about, but its links, definitions and step items are not in the views.

## 5. Differences found

Three are runs that are expected to be violated, with a finding in `PROJECT.json`:
`daemon_stop_lost_client`, `flow_stale_context`, `generated_dashboard`. The others were met while
modelling; the model does what the code does, and the properties of the passing runs leave them
out where it is said.

The evaluator core.

- After a nested `include()` or `add_subdirectory()`, the clean-up of `eval_execute_file`
  (`eval_nested_exec.c:205`) also pops the context of the file around it: current directory
  and depths are wrong from there on and a `GUARD FILE` lock taken later is never released.
  `Flow.cfg` with `MaxFiles = 2` shows it as a violation of `ContextsMatch`.
- `add_compile_definitions(FOO)` before `add_executable(app)` emits the definition before the
  declaration (`eval_project.c:925`), which the builder refuses, after a run without diagnostics.
- `eval_result_from_ctx` (`evaluator_internal.h:879`) is a soft error as soon as any earlier
  command of the run had one, and `fetchcontent_run_inline_command` takes it for a failure: after
  an unrelated error `FetchContent_MakeAvailable(a b)` stops after `a` and reports nothing
  (`MakeAvailableOrError` in `Session`).
- A deferred call is run again when the file that ends is inside a command whose transaction
  is taken back, since the queue is restored (`DeferredOnce`), and deferred calls run at the
  end of any executed file, not only of the directory.
- Policies, locks and files are not part of a transaction; a lock released by the end of a scope
  emits no event; events of nested commands precede the pending ones of the command around them.

Commands.

- `find_package`: a stale `<pkg>_FOUND` of 0 makes a later successful look-up report not found
  (`eval_package.c:1288`), and a version asked of a redirected package always ends not found.
- `try_run` without an answer: inside a function or an included file the transaction around it
  takes the placeholders back although `TryRunResults.cmake` is written; when that file cannot
  be written nothing is reported; a second `try_run` takes the placeholder for an answer.
- A `SOURCE_FROM_*` that cannot be written ends `try_compile` silently, and so do several `ctest_*` steps
  whose report cannot be written.
- Properties: a raw property that is set twice keeps its first value in the model
  (`build_model_query.c:189`) and its last in the evaluator; `set_property(DIRECTORY other)` emits no
  event; `INITIALIZE_FROM_VARIABLE` reaches the model and not `get_target_property`;
  properties set in an included file go to the include's own directory record. `world.aside` lists
  the records of these kinds.
- Replay: symbolic links are not replayed (`LinksReplayed`); `file(CONFIGURE)`, `COPY_FILE`,
  `TOUCH` and local uploads are not recorded; `COPY` of a tree applies modes differently; an append to a
  file of the source tree is appended again by each configure. `world.gap` marks the runs of the first two kinds.

The build model.

- `bm_collect_dependency_usage_from_link_items` (`build_model_query.c:534-573`) follows every link of a dependency; visibility is
  looked at for definitions (`bm_collect_items`, line 302) and not for links. With `b PRIVATE a`, `a PRIVATE c` and an
  INTERFACE definition of `c`, the target `b` is compiled with the definition, which CMake keeps from it; so is a target that links
  a library INTERFACE only, and its own INTERFACE definitions are used for itself. `docs/project_priorities.md:11` has "total parity
  with `CMake 3.28`" as the goal, and `docs/build_model/build_model_closure_matrix.md:50` has "Effective propagation and transitive query semantics" as `closed`.
  `ConfigureClean.cfg` with the invariant `PrivateStaysPrivate` shows the first case. `UsageExact` leaves these links out on the side of what is too much.

The generated program.

- A step whose first command makes its first output and whose later command fails is skipped by the next
  build. A regenerated source with the old binary still running its commands leaves a stamp that looks current. Equal times
  count as up to date, and headers are not inputs. `blind` marks these histories.
- A stamp-only rule always reruns, because the stamp is never written. A file written and then renamed
  makes the guard on its first name fail for ever. A symbolic link replay, a probe's
  marker, or `clean_all` of an artifact directory outside the binary root are further cases where
  `docs/codegen/codegen_runtime_contract.md` says more than the program does.

The daemon.

- A client that disconnects during a foreground run makes `daemon_finish_active_run` return (line 1771) before
  `daemon_reset_worker_state`: `worker_pid` stays set and the daemon is busy for ever. This is another way to violate `StopExits` than the
  shortest one, which `daemon_stop_lost_client` shows. The reply to a plain stop can be lost in the same way (line 2124).
- A worker that is killed leaves its test binary behind. When the binary writes to log files nothing tells the daemon of it,
  and the next worker starts while it runs.
- The nobify tool of the parity tests is built outside the build lock, so two workers of different daemons, or one that builds it and one
  that builds a test binary, can write the same objects (`test_runner_exec.c:1190`).
- Two racing front ends end with two daemons, of which one cannot be reached
  (`docs/archive/roadmaps/test_daemon_roadmap.md:301`); so does a front end that gives up waiting. `test clean`
  after a crash removes the lock under the build of an orphaned worker. `OneDaemon` and `BuildsTakeTurns` say
  up to which point the promises hold.

## 6. What is not modelled

Text: lexing, parsing, generator expressions, conditions and arithmetic, strings, lists, paths,
rendering of C and of export files. These are functions of text without state; a model would repeat them.
Records of the build model other than directories, targets, steps and properties, which are copied
from the event to the query. The query session's memo tables, over a model that does not change.
Of what is modelled, these details are left out: generator expressions in the arguments of a step that name a target
(`build_model_query.c:2556`); a query or an allocation that fails inside the cycle search; a removal that fails in `clean_all`, and other files in the directory of an
artifact, which it removes whole (`nob_codegen.c:2097`); a checkout that fails after the clone of a dependency; the pending
error count that `try_run` lowers again (`eval_try_run.c:461`), which with the later flush is one assignment.
Dashboards of other trees than the generated program's own (`nob_codegen_replay.c:2500-2724`), the archive writers, and curl
and libarchive. `ctest_run_script` whose script stops the whole run. Allocation: memory is taken to be available,
except where a moving array matters. Descriptors are not counted, the bytes in a pipe are not (a child that
fills its output before it reads its input, `eval_runtime_process.c:462`), and a client that connects to the daemon
and stays silent (the listener reads with blocking calls) would be a handler that never returns.

## 7. Plan

1. Proofs. `ContextsMatch` and `ScopesMatch` for one file and an array that does not move; links, definitions and step items in the views of
   `ConfigureProofs`, and from there `UsageExact`; depths and file frames in `SessionInv`, and from there `LocksScoped`.
2. `install`, `export` and `cpack` commands with their records, as events of `BuildModel`, so that the install
   rules of `GeneratedProgram` are what a script asked for.
3. Candidates for further divergences: the private links of static libraries that the link line lacks
   (`docs/archive/build_model/build_model_query_v2_spec.md:72`), links and `DEPENDS` that
   name later targets (`docs/build_model/build_model_closure_matrix.md:50,54`) and a custom
   target declared twice (`docs/archive/build_model/build_model_builder.md:127`).
