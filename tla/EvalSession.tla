---------------------------- MODULE EvalSession -----------------------------
(***************************************************************************)
(* The session state of the evaluator and the transactions commands run    *)
(* in: every command takes a snapshot of the session, and an error in it,  *)
(* or in any command run inside it, puts the snapshot back when it ends    *)
(* (eval_command_tx_begin and eval_command_tx_finish in evaluator.c).      *)
(* Files that include other files, functions, cmake_language() calls and   *)
(* the commands that run scripts nest transactions to any depth.           *)
(*                                                                         *)
(* now    what a transaction can undo                                      *)
(* world  what it cannot: the disk, the locks, what was sent elsewhere     *)
(* frames the commands under way, the innermost last; each holds the       *)
(*        snapshot to go back to and the commands it has left to run       *)
(*                                                                         *)
(* A command is a record of its name, its arguments and, for a command     *)
(* that asks something of the machine, what the machine answers.           *)
(***************************************************************************)
EXTENDS Naturals, FiniteSets, FiniteSetsExt, SequencesExt, Disk

CONSTANTS
    None,
    Root,      \* the root of the source tree
    Scripts,   \* the scripts that may be run: sequences of sets of commands
    Files,     \* the files they include or run, by name: [dir, body]
    Tree,      \* the file tree before the run
    Packages   \* by package: the modules and configurations there are, by
               \* directory, and the version files, by file

VARIABLES
    now,       \* the transactional state of the session
    world,     \* the state no transaction restores
    frames,    \* the stack of commands and files under way
    errors,    \* run_report.error_count
    stream,    \* the events emitted so far
    calls_run  \* history: the deferred calls that were run, in order

vars == <<now, world, frames, errors, stream, calls_run>>

-----------------------------------------------------------------------------
(* The state.                                                              *)

\* Eval_Directory_Node: what is known of a directory that was entered.
NewNode(parent) == [parent |-> parent, vars |-> Empty, macros |-> {}, files |-> {}]

\* What eval_command_tx_begin takes a snapshot of.
InitialState ==
    [scopes       |-> <<[CMAKE_CURRENT_SOURCE_DIR |-> Root]>>,   \* scope_state.scopes, the root scope first
     cache        |-> Empty,          \* cache_entries
     commands     |-> Empty,          \* user_commands
     watched      |-> {},             \* watched_variables
     deferred     |-> <<[dir |-> Root, calls |-> <<>>]>>,   \* deferred_dirs
     next_call    |-> 0,              \* next_deferred_call_id
     ids          |-> {},             \* generated_deferred_ids
     jobs         |-> <<>>,           \* file_generate_jobs
     targets      |-> Empty,          \* targets.records: by name, the directory
     tests        |-> {},             \* tests.records: <<directory, name>>
     dirs         |-> [d \in {Root} |-> NewNode(None)],   \* directories.nodes, by directory
     props        |-> <<>>,           \* properties.records, in the order they were made: [key, value]
     defs         |-> Empty,          \* property_definitions, by <<scope, property>>
     modules      |-> {},             \* cpack_module_loaded, fetchcontent_module_loaded
     provider     |-> [command |-> None, methods |-> {}],
     finding      |-> <<>>,           \* active_find_packages
     found        |-> {},             \* found_packages
     missing      |-> {},             \* not_found_packages
     registry     |-> {},             \* registry_entries: <<package, prefix>>
     decls        |-> Empty,          \* fetchcontent_declarations
     states       |-> Empty,          \* fetchcontent_states
     making       |-> <<>>,           \* active_fetchcontent_makeavailable
     env          |-> Empty,          \* env_overrides
     steps        |-> <<>>]           \* canonical_state.ctest_steps

InitialWorld ==
    [disk    |-> Tree,     \* the file tree
     next_action |-> 0,    \* next_replay_action_id
     floor   |-> "CONFIGURE",   \* replay_phase_floor
     gap     |-> {},       \* history: why the actions recorded may not be all that was done
     exec    |-> <<[kind |-> "root", dir |-> Root, file |-> "CMakeLists.txt"]>>,   \* exec_contexts
     locks   |-> <<>>,     \* file_locks
     policies |-> <<Empty>>,   \* policy_levels, the outermost first
     tags    |-> 0,        \* how many ctest tags were generated
     tag_files |-> Empty,  \* Testing/TAG, by build directory
     reports |-> Empty,    \* the reports of ctest steps, each a number of the run that wrote it
     probes  |-> 0,        \* s_scratch_counter of try_compile
     aside   |-> {},       \* history: the properties written in a way the build model does not follow
     runs    |-> 0,        \* history: how many reports were written
     staged  |-> Empty,    \* history: by part, the last report that was recorded
     sent    |-> <<>>,     \* what ctest_submit delivered
     redirects |-> {},     \* the packages FetchContent wrote a configuration for
     trees   |-> Empty,    \* the source trees it made, by directory
     fetched |-> <<>>]     \* history: the dependencies it fetched, [name, saved, clean]

TopFrame(body) ==
    [kind |-> "top", cmd |-> None, rest |-> body, tx |-> FALSE, before |-> None, preserve |-> FALSE,
     errors |-> 0, dir |-> Root, depth |-> 1, todo |-> None, pending |-> <<>>]

Init ==
    /\ now = InitialState
    /\ world = InitialWorld
    /\ \E s \in DOMAIN Scripts : frames = <<TopFrame(Scripts[s])>>
    /\ errors = 0
    /\ stream = <<>>
    /\ calls_run = <<>>

Top == Last(frames)
OfFrame(kind) == {k \in DOMAIN frames : frames[k].kind = kind}
FileKinds == {"top", "include", "subdirectory", "script"}

-----------------------------------------------------------------------------
(* Execution contexts.                                                     *)

\* eval_exec_push and eval_exec_pop, which forgives an empty stack.
ExecPush(w, kind, dir, file) == [w EXCEPT !.exec = Append(@, [kind |-> kind, dir |-> dir, file |-> file])]
ExecPop(w) == [w EXCEPT !.exec = IF @ = <<>> THEN @ ELSE Front(@)]

\* eval_exec_refresh_cached_state: the depths count the contexts on the stack.
FileDepth     == Len(SelectSeq(world.exec, LAMBDA e : e.kind \in {"root", "include", "subdirectory"}))
FunctionDepth == Len(SelectSeq(world.exec, LAMBDA e : e.kind = "function"))
CurrentFile   == IF world.exec = <<>> THEN "CMakeLists.txt" ELSE Last(world.exec).file
\* eval_exec_is_file_scope
AtFileScope   == \A k \in DOMAIN world.exec : world.exec[k].kind \notin {"function", "macro"}

\* eval_pop_external_context as eval_execute_file uses it: its clean-up pops
\* once more when the context that comes up is that of another file.
FileContextPopped(w) ==
    LET once == ExecPop(w)
    IN  IF once.exec # <<>> /\ Last(once.exec).kind \in {"include", "subdirectory"} THEN ExecPop(once) ELSE once

-----------------------------------------------------------------------------
(* Variables.                                                              *)

Scopes(st)  == DOMAIN st.scopes
DefinedVisible(st, v) == v \in DOMAIN st.cache \/ \E k \in Scopes(st) : v \in DOMAIN st.scopes[k]

\* eval_var_get_visible: the innermost scope that has it, then the cache.
Get(st, v) ==
    LET holders == {k \in Scopes(st) : v \in DOMAIN st.scopes[k]}
    IN  IF holders # {} THEN st.scopes[Max(holders)][v]
        ELSE IF v \in DOMAIN st.cache THEN st.cache[v] ELSE None

\* eval_variable_watch_notify: the variables of the scope after a watched one changed.
Notified(st, scope, v, action, x) ==
    IF v \notin st.watched THEN scope
    ELSE With(With(With(scope, "WATCH_LAST_VAR", v), "WATCH_LAST_ACTION", action), "WATCH_LAST_VALUE", x)

SetAt(st, k, v, x) ==
    [st EXCEPT !.scopes[k] = Notified(st, With(@, v, x), v, "SET", x)]

\* eval_var_set_current
Set(st, v, x)    == SetAt(st, Len(st.scopes), v, x)
SetIf(st, v, x)  == IF v = None THEN st ELSE Set(st, v, x)

\* eval_var_unset_current
Unset(st, v) ==
    [st EXCEPT !.scopes[Len(st.scopes)] = Notified(st, Without(@, v), v, "UNSET", Get(st, v))]

\* eval_current_source_dir, and the variable that eval_exec_publish_current_vars
\* sets in the scope of the moment.
CurrentDir == Get(now, "CMAKE_CURRENT_SOURCE_DIR")
Publish(st, w) ==
    Set(st, "CMAKE_CURRENT_SOURCE_DIR", IF w.exec = <<>> THEN Root ELSE Last(w.exec).dir)

-----------------------------------------------------------------------------
(* Directories: eval_utils.c.                                              *)

\* eval_directory_register_known: the parent of the current directory is the
\* directory of the context around it, whatever that context is of.
Registered(st, w, dir) ==
    LET current == dir = Get(st, "CMAKE_CURRENT_SOURCE_DIR")
        parent  == IF current /\ Len(w.exec) >= 2 THEN w.exec[Len(w.exec) - 1].dir ELSE None
    IN  IF dir \notin DOMAIN st.dirs THEN [st EXCEPT !.dirs = With(@, dir, NewNode(parent))]
        ELSE [st EXCEPT !.dirs[dir].parent = IF @ = None THEN parent ELSE @]

\* eval_directory_capture_current_scope: the variables of the scopes, and not
\* those of the cache.
VisibleNames(st)   == UNION {DOMAIN st.scopes[k] : k \in Scopes(st)}
MacroNames(st)     == {n \in DOMAIN st.commands : st.commands[n].kind = "macro"}
ScopeCaptured(st, w) ==
    LET dir == Get(st, "CMAKE_CURRENT_SOURCE_DIR")
        st2 == Registered(st, w, dir)
    IN  [st2 EXCEPT !.dirs[dir] = [@ EXCEPT !.vars   = [v \in VisibleNames(st) |-> Get(st, v)],
                                            !.macros = MacroNames(st),
                                            !.files  = {w.exec[k].file : k \in DOMAIN w.exec}]]

-----------------------------------------------------------------------------
(* Transactions.                                                           *)

\* eval_command_tx_finish
Settle(before, after, ok, preserve) ==
    IF ok THEN after
    ELSE IF preserve THEN [before EXCEPT !.scopes = SubSeq(after.scopes, 1, Len(before.scopes))]
    ELSE before

\* What a handler leaves: its state, the world, and the events of its transaction.
Done(st)         == [ok |-> TRUE, st |-> st, world |-> world, events |-> <<>>, preserve |-> FALSE]
Wrong            == [Done(now) EXCEPT !.ok = FALSE]
DoneIf(cond, st) == IF cond THEN Done(st) ELSE Wrong

\* The commands that may come next.
Coming == IF frames # <<>> /\ Top.rest # <<>> THEN Head(Top.rest) ELSE {}
Ahead  == [frames EXCEPT ![Len(frames)].rest = Tail(@)]

\* eval_dispatch_command for a handler that runs no other command: the
\* transaction begins and ends in one step. The error of a command is what
\* its frames see in error_count when they end.
Leaf(c, cmd, out) ==
    /\ c.cmd = cmd
    /\ now' = Settle(now, out.st, out.ok, out.preserve)
    /\ world' = out.world
    /\ frames' = Ahead
    /\ errors' = IF out.ok THEN errors ELSE errors + 1
    /\ stream' = IF out.ok THEN stream \o out.events ELSE stream
    /\ UNCHANGED calls_run

NewFrame(kind, c, rest, preserve) ==
    [kind |-> kind, cmd |-> c, rest |-> rest, tx |-> TRUE, before |-> now, preserve |-> preserve,
     errors |-> errors, dir |-> CurrentDir, depth |-> 0, todo |-> None, pending |-> <<>>]

\* A handler that runs other commands: st is the session when they start.
Enter(c, cmd, st, frame, events, w) ==
    /\ c.cmd = cmd
    /\ now' = st
    /\ world' = w
    /\ frames' = Append(Ahead, frame)
    /\ stream' = stream \o events
    /\ UNCHANGED <<errors, calls_run>>

\* The end of the innermost frame: st is the session its handler leaves. The
\* events of its own transaction come after those of the commands it ran, and
\* only if it commits; those that open and close directories always come.
LeaveWith(st, w, own_error, immediate, pending) ==
    LET ok == ~own_error /\ errors = Top.errors
    IN  /\ now' = IF Top.tx THEN Settle(Top.before, st, ok, Top.preserve) ELSE st
        /\ world' = w
        /\ frames' = Front(frames)
        /\ errors' = IF own_error THEN errors + 1 ELSE errors
        /\ stream' = stream \o immediate \o (IF ok THEN pending ELSE <<>>)
        /\ UNCHANGED calls_run
Leave(st, w, own_error, immediate) == LeaveWith(st, w, own_error, immediate, Top.pending)

\* A frame under way that goes on to its next stage.
Resume(st, todo, rest) ==
    /\ now' = st
    /\ frames' = [frames EXCEPT ![Len(frames)] = [@ EXCEPT !.todo = todo, !.rest = rest]]
    /\ UNCHANGED <<errors, calls_run>>

\* eval_result_from_ctx: an inline command is taken to have failed when there
\* is an error in the run, whichever command made it.
InlineFailed == errors > 0
Truthy(x) == x \notin {None, "", "0", "OFF", "FALSE"}

-----------------------------------------------------------------------------
(* Replay actions: what the generated program has to do again.             *)

\* eval_begin_replay_action and the operands that follow it. A marker, of no
\* operation, stands for an effect that cannot be done again.
Action(op, phase, ins, outs, text, args) ==
    [type |-> "REPLAY", op |-> op, phase |-> phase, ins |-> ins, outs |-> outs, text |-> text, args |-> args, id |-> 0]
Marker(phase) == Action("NONE", phase, <<>>, <<>>, <<>>, <<>>)

\* eval_replay_phase_for_filesystem_effect
FilesystemPhase == world.floor

\* What a command that works on the file tree leaves: the tree is changed
\* whether it fails or not, its actions are events of its transaction, and the
\* keys of actions are not given back with it.
Effect(ok, st, disk, actions) ==
    [Done(st) EXCEPT !.ok = ok, !.world.disk = disk, !.world.next_action = @ + Len(actions),
                     !.events = [k \in DOMAIN actions |-> [actions[k] EXCEPT !.id = world.next_action + k]]]

\* A change of the tree that the command does not record.
Unrecorded(ok, st, disk) ==
    [Effect(ok, st, disk, <<>>) EXCEPT !.world.gap = IF disk = world.disk THEN @ ELSE @ \cup {"unrecorded"}]

-----------------------------------------------------------------------------
(* Locks: file(LOCK) in eval_file_generate_lock_archive.c.                 *)

HeldLocks(path) == {k \in DOMAIN world.locks : world.locks[k].path = path}

\* The locks of the scopes inside the one that ends, and not its own.
ReleasedInner(locks, guard, depth) ==
    SelectSeq(locks, LAMBDA l : ~(l.guard = guard /\ (IF guard = "FILE" THEN l.file_depth ELSE l.function_depth) > depth))

\* eval_file_lock_release_by_scope
Released(locks, guard, depth) ==
    SelectSeq(locks, LAMBDA l : ~(l.guard = guard /\ (IF guard = "FILE" THEN l.file_depth ELSE l.function_depth) >= depth))

\* History: the files or functions under way when a lock is taken.
GuardFrames(guard) ==
    {k \in DOMAIN frames : frames[k].kind \in (IF guard = "FILE" THEN FileKinds ELSE {"function"})}

\* With DIRECTORY the lock is a file of its own in the directory, made first.
LockPath(c) == IF c.directory THEN Append(c.path, "cmake.lock") ELSE c.path
LockDisk(c) == IF c.directory /\ CanMkdir(world.disk, c.path) THEN Mkdir(world.disk, c.path) ELSE world.disk
LockAction(op, c) == <<Action(op, "CONFIGURE", <<>>, <<LockPath(c)>>, <<>>, <<>>)>>

LockRelease(c) ==
    [Effect(TRUE, SetIf(now, c.result, "0"), LockDisk(c), LockAction("HOST_LOCK_RELEASE", c)) EXCEPT
        !.world.locks = SelectSeq(@, LAMBDA l : l.path # LockPath(c))]

LockTrouble(c, text, disk) == Unrecorded(c.result # None, SetIf(now, c.result, text), disk)

\* handle_file_lock: the lock file is opened, and made, and then locked; the
\* machine answers "ok" or, after the timeout if there is one, "busy".
FileLock(c) ==
    LET d      == LockDisk(c)
        opened == IF Exists(d, LockPath(c)) THEN d ELSE Put(d, LockPath(c), <<>>)
    IN  Leaf(c, "file_lock",
             IF c.directory /\ ~CanMkdir(d, c.path) THEN LockTrouble(c, "no directory", d)
             ELSE IF c.release THEN LockRelease(c)
             ELSE IF HeldLocks(LockPath(c)) # {} THEN LockTrouble(c, "held", d)
             ELSE IF ~CanWrite(d, LockPath(c)) THEN LockTrouble(c, "no file", d)
             ELSE IF c.answer # "ok" THEN LockTrouble(c, c.answer, opened)
             ELSE [Effect(TRUE, SetIf(now, c.result, "0"), opened, LockAction("HOST_LOCK_ACQUIRE", c)) EXCEPT
                      !.world.locks = Append(@, [path |-> LockPath(c), guard |-> c.guard,
                                                 file_depth |-> FileDepth, function_depth |-> FunctionDepth,
                                                 holders |-> GuardFrames(c.guard)])])

=============================================================================
