-------------------------- MODULE SessionCommands ---------------------------
(***************************************************************************)
(* The commands a script is held together by: variables and the cache,     *)
(* functions and macros, include() and add_subdirectory(), cmake_language  *)
(* with its deferred calls, and the files written when the run ends.       *)
(***************************************************************************)
EXTENDS EvalSession

-----------------------------------------------------------------------------
(* Policies: eval_policy_engine.c. The levels are not part of a            *)
(* transaction. Of the table of policies these are the ones that the       *)
(* commands below consult, with the version that introduced each.          *)

PolicyIntro == [CMP0048 |-> 300, CMP0074 |-> 312, CMP0077 |-> 313, CMP0102 |-> 317, CMP0126 |-> 321, CMP0153 |-> 327]
RunningVersion == 328
PolicyFloor    == 204
DefaultKey == [CMP0048 |-> "CMAKE_POLICY_DEFAULT_CMP0048", CMP0074 |-> "CMAKE_POLICY_DEFAULT_CMP0074",
               CMP0077 |-> "CMAKE_POLICY_DEFAULT_CMP0077",
               CMP0102 |-> "CMAKE_POLICY_DEFAULT_CMP0102", CMP0126 |-> "CMAKE_POLICY_DEFAULT_CMP0126",
               CMP0153 |-> "CMAKE_POLICY_DEFAULT_CMP0153"]

\* eval_policy_get_effective: the innermost level that does not inherit, the
\* default variable, the policy version.
EffectivePolicy(id) ==
    LET setters == {k \in DOMAIN world.policies : id \in DOMAIN world.policies[k]}
        version == Get(now, "CMAKE_POLICY_VERSION")
    IN  IF setters # {} THEN world.policies[Max(setters)][id]
        ELSE IF DefinedVisible(now, DefaultKey[id]) THEN Get(now, DefaultKey[id])
        ELSE IF version # None /\ PolicyIntro[id] <= version THEN "NEW" ELSE ""
PolicyIsNew(id) == EffectivePolicy(id) = "NEW"

PolicyPush(levels) == Append(levels, Empty)
PolicyPop(levels)  == IF Len(levels) > 1 THEN Front(levels) ELSE levels

\* policy_apply_version_defaults
VersionDefaults(levels, version) ==
    [levels EXCEPT ![Len(levels)] =
        [id \in DOMAIN PolicyIntro |-> IF PolicyIntro[id] <= version THEN "NEW" ELSE ""]]

\* What cmake_minimum_required() and cmake_policy(VERSION) do with min...max.
PolicyVersion(c, st, floor) ==
    LET version == IF c.max # None THEN c.max ELSE c.min
        applied == IF version < floor THEN floor ELSE version
    IN  IF c.min > RunningVersion \/ (c.max # None /\ c.max < c.min) THEN Wrong
        ELSE [Done(Set(st, "CMAKE_POLICY_VERSION", applied)) EXCEPT
                 !.world.policies = VersionDefaults(@, applied)]

MinimumRequired(c) ==
    Leaf(c, "cmake_minimum_required",
         PolicyVersion(c, Set(now, "CMAKE_MINIMUM_REQUIRED_VERSION", c.min), PolicyFloor))

\* A POP without a PUSH ends the run (EvalFlow has it); here it never comes.
CmakePolicy(c) ==
    Leaf(c, "cmake_policy",
         CASE c.sub = "VERSION" -> IF c.min < PolicyFloor THEN Wrong ELSE PolicyVersion(c, now, PolicyFloor)
           [] c.sub = "SET"     -> IF c.id \notin DOMAIN PolicyIntro THEN Wrong
                                   ELSE [Done(now) EXCEPT
                                            !.world.policies[Len(world.policies)] = With(@, c.id, c.value)]
           [] c.sub = "GET"     -> DoneIf(c.id \in DOMAIN PolicyIntro, Set(now, c.var, EffectivePolicy(c.id)))
           [] c.sub = "PUSH"    -> [Done(now) EXCEPT !.world.policies = PolicyPush(@)]
           [] OTHER             -> [Done(now) EXCEPT !.world.policies = PolicyPop(@)])

-----------------------------------------------------------------------------
(* Variables: eval_vars.c.                                                 *)

\* set(... CACHE ...): a new or forced entry also removes the variable of the
\* scope, unless CMP0126 is new.
SetCache(c) ==
    LET writes == c.var \notin DOMAIN now.cache \/ c.force
        scoped == IF writes /\ ~PolicyIsNew("CMP0126") THEN Unset(now, c.var) ELSE now
    IN  IF writes THEN [scoped EXCEPT !.cache = With(@, c.var, c.value)] ELSE scoped

SetVariable(c) ==
    Leaf(c, "set",
         CASE c.where = "CACHE"        -> Done(SetCache(c))
           [] c.where = "PARENT_SCOPE" -> IF Len(now.scopes) > 1
                                          THEN Done(SetAt(now, Len(now.scopes) - 1, c.var, c.value))
                                          ELSE Wrong
           [] OTHER                    -> Done(IF c.value = None THEN Unset(now, c.var) ELSE Set(now, c.var, c.value)))

UnsetVariable(c) ==
    Leaf(c, "unset",
         CASE c.where = "CACHE"        -> Done([now EXCEPT !.cache = Without(@, c.var)])
           [] c.where = "PARENT_SCOPE" ->
                IF Len(now.scopes) > 1
                THEN Done([now EXCEPT !.scopes[Len(now.scopes) - 1] =
                              Notified(now, Without(@, c.var), c.var, "UNSET", Get(now, c.var))])
                ELSE Wrong
           [] OTHER                    -> Done(Unset(now, c.var)))

\* option(): the variable of a scope wins when CMP0077 is new, and is removed
\* from the innermost scope that has it when it is not.
OptionCommand(c) ==
    LET holders == {k \in Scopes(now) : c.var \in DOMAIN now.scopes[k]}
        st == IF holders = {} THEN now ELSE [now EXCEPT !.scopes[Max(holders)] = Without(@, c.var)]
    IN  Leaf(c, "option",
             IF holders # {} /\ PolicyIsNew("CMP0077") THEN Done(now)
             ELSE Done(IF c.var \in DOMAIN now.cache THEN st ELSE [st EXCEPT !.cache = With(@, c.var, c.value)]))

\* mark_as_advanced() makes an empty entry of a name the cache does not have,
\* unless CMP0102 is new.
MarkAsAdvanced(c) ==
    Leaf(c, "mark_as_advanced",
         Done(IF c.var \in DOMAIN now.cache \/ PolicyIsNew("CMP0102") THEN now
              ELSE [now EXCEPT !.cache = With(@, c.var, "")]))

\* variable_watch()
VariableWatch(c) == Leaf(c, "variable_watch", Done([now EXCEPT !.watched = @ \cup {c.var}]))

\* message(FATAL_ERROR), and a command that reports an error and does nothing.
ErrorCommand(c) == Leaf(c, "error", Wrong)

\* A command nobody knows is reported as a warning.
UnknownCommand(c) == Leaf(c, "unknown", Done(now))

\* eval_target_apply_defined_initializers: events and no records.
Initializers(name) ==
    LET wanted == SetToSeq({d \in DOMAIN now.defs : /\ d[1] = "TARGET" /\ now.defs[d].init # None
                                                    /\ DefinedVisible(now, now.defs[d].init)})
    IN  [k \in DOMAIN wanted |-> [type |-> "TARGET_PROP_SET", name |-> name, prop |-> wanted[k][2], op |-> "SET",
                                  items |-> <<Get(now, now.defs[wanted[k]].init)>>]]

\* add_executable() as the other commands see it (Configure has it in full).
AddTarget(c) ==
    Leaf(c, "add_target",
         IF c.name \in DOMAIN now.targets THEN Wrong
         ELSE [Done([Registered(now, world, CurrentDir) EXCEPT !.targets = With(@, c.name, CurrentDir)]) EXCEPT
                  !.world.aside = @ \cup {[scope |-> "TARGET", dir |-> None, name |-> c.name, prop |-> d[2]] :
                                            d \in {e \in DOMAIN now.defs : e[1] = "TARGET" /\ now.defs[e].init # None}},
                  !.events = Append(Initializers(c.name), [type |-> "TARGET_DECLARE", name |-> c.name])])

-----------------------------------------------------------------------------
(* Functions and macros: eval_user_command.c.                              *)

\* A later definition replaces the earlier one.
DefineCommand(c) ==
    Leaf(c, "define",
         Done([now EXCEPT !.commands = With(@, c.name, [kind |-> c.kind, params |-> c.params, body |-> c.body])]))

\* eval_user_cmd_invoke: the scope a function starts with (without ARGV0, ARGV1 ...,
\* the arguments one by one).
ArgumentScope(params, args) ==
    LET bound == [p \in ToSet(params) |->
                     LET k == CHOOSE i \in DOMAIN params : params[i] = p
                     IN  IF k \in DOMAIN args THEN args[k] ELSE ""]
    IN  With(With(With(bound, "ARGC", Len(args)), "ARGV", args), "ARGN", SubSeq(args, Len(params) + 1, Len(args)))

\* The state and the frame of a call of a user command; a macro runs in the
\* scope it is called from.
CallKind(name) == IF now.commands[name].kind = "macro" THEN "macro" ELSE "function"
CallState(name, args) ==
    IF CallKind(name) = "macro" THEN now
    ELSE [now EXCEPT !.scopes = Append(@, ArgumentScope(now.commands[name].params, args))]
CallFrame(c, name) ==
    [NewFrame(CallKind(name), c, now.commands[name].body, TRUE) EXCEPT
        !.depth = IF CallKind(name) = "function" THEN FunctionDepth + 1 ELSE 0]
CallWorld(name) == ExecPush(world, CallKind(name), CurrentDir, CurrentFile)

InvokeCommand(c) ==
    \/ /\ c.cmd = "invoke" /\ c.name \in DOMAIN now.commands
       /\ Enter(c, "invoke", CallState(c.name, c.args), CallFrame(c, c.name), <<>>, CallWorld(c.name))
    \/ /\ c.cmd = "invoke" /\ c.name \notin DOMAIN now.commands
       /\ Leaf(c, "invoke", Done(now))

LeaveFunction ==
    /\ frames # <<>> /\ Top.kind = "function" /\ Top.rest = <<>>
    /\ Leave([now EXCEPT !.scopes = Front(@)],
             ExecPop([world EXCEPT !.locks = Released(@, "FUNCTION", Top.depth)]), FALSE, <<>>)

LeaveMacro ==
    /\ frames # <<>> /\ Top.kind = "macro" /\ Top.rest = <<>>
    /\ Leave(now, ExecPop(world), FALSE, <<>>)

\* return(PROPAGATE) of a function: its scope's variables go to the caller's, where
\* a watch is told of the last of them (the names are a set here: any may be last).
ReturnCommand(c) ==
    /\ c.cmd = "return" /\ Top.kind = "function"
    /\ LET mine == Last(now.scopes)
           kept == {v \in c.propagate : v \in DOMAIN mine}
           caller == now.scopes[Len(now.scopes) - 1]
           given == [v \in DOMAIN caller \cup kept |-> IF v \in kept THEN mine[v] ELSE caller[v]]
           told == kept \cap now.watched
       IN  \E last \in (IF told = {} THEN {None} ELSE told) :
               now' = [now EXCEPT !.scopes[Len(now.scopes) - 1] =
                          IF told = {} THEN given ELSE Notified(now, given, last, "SET", mine[last])]
    /\ frames' = [frames EXCEPT ![Len(frames)].rest = <<>>]
    /\ UNCHANGED <<world, errors, stream, calls_run>>

-----------------------------------------------------------------------------
(* Files: eval_include.c and eval_nested_exec.c.                           *)

EnterEvent(dir) == [type |-> "DIRECTORY_ENTER", dir |-> dir]
LeaveEvent(dir) == [type |-> "DIRECTORY_LEAVE", dir |-> dir]

\* eval_execute_file
FileFrame(kind, c, file) ==
    [NewFrame(kind, c, Files[file].body, FALSE) EXCEPT !.depth = FileDepth + 1]

\* include(): two module names only switch commands on.
Include(c) ==
    \/ /\ c.cmd = "include" /\ c.file \in {"CPack", "FetchContent"}
       /\ Leaf(c, "include", Done(SetIf([now EXCEPT !.modules = @ \cup {c.file}], c.result, c.file)))
    \/ /\ c.cmd = "include" /\ c.file \notin {"CPack", "FetchContent"} \cup DOMAIN Files
       /\ Leaf(c, "include", [Done(SetIf(now, c.result, "NOTFOUND")) EXCEPT !.ok = c.optional])
    \/ /\ c.cmd = "include" /\ c.file \in DOMAIN Files
       /\ LET w == ExecPush([world EXCEPT !.policies = PolicyPush(@)], "include", CurrentDir, c.file)
           IN  Enter(c, "include", Publish(SetIf(now, c.result, c.file), w), FileFrame("include", c, c.file),
                     <<EnterEvent(CurrentDir)>>, w)

\* A directory opens a scope and a queue of deferred calls of its own.
DirectoryWorld(file) == ExecPush(world, "subdirectory", Files[file].dir, file)
DirectoryState(file) ==
    LET entered == Publish([ScopeCaptured(now, world) EXCEPT !.scopes = Append(@, Empty)], DirectoryWorld(file))
    IN  [Registered(entered, DirectoryWorld(file), Files[file].dir) EXCEPT
            !.deferred = Append(@, [dir |-> Files[file].dir, calls |-> <<>>])]
DirectoryFrame(c, file) == [FileFrame("subdirectory", c, file) EXCEPT !.dir = Files[file].dir]

\* add_subdirectory(): the events come even when there is no CMakeLists.txt.
AddSubdirectory(c) ==
    \/ /\ c.cmd = "add_subdirectory" /\ c.file \in DOMAIN Files
       /\ Enter(c, "add_subdirectory", DirectoryState(c.file), DirectoryFrame(c, c.file),
                <<EnterEvent(Files[c.file].dir)>>, DirectoryWorld(c.file))
    \/ /\ c.cmd = "add_subdirectory" /\ c.file \notin DOMAIN Files
       /\ now' = now /\ world' = world /\ frames' = Ahead /\ errors' = errors + 1
       /\ stream' = stream \o <<EnterEvent(c.file), LeaveEvent(c.file)>>
       /\ UNCHANGED calls_run

\* include_guard(): a file guarded already ends at once. The guard is a variable
\* (c.key, one for each file and mode).
Guarded(c) ==
    CASE c.mode = "VARIABLE"  -> DefinedVisible(now, c.key)
      [] c.mode = "GLOBAL"    -> c.key \in DOMAIN now.scopes[1] \cup DOMAIN now.cache
      [] c.mode = "DIRECTORY" -> /\ c.key \in DOMAIN now.scopes[1]
                                 /\ now.scopes[1][c.key] \cap {Root, CurrentDir} # {}
GuardState(c) ==
    CASE c.mode = "VARIABLE"  -> Set(now, c.key, "1")
      [] c.mode = "GLOBAL"    -> SetAt(now, 1, c.key, "1")
      [] OTHER                ->
            LET dirs == IF c.key \in DOMAIN now.scopes[1] THEN now.scopes[1][c.key] ELSE {}
            IN  SetAt(now, 1, c.key, dirs \cup {CurrentDir})
IncludeGuard(c) ==
    \/ /\ c.cmd = "include_guard" /\ ~Guarded(c)
       /\ Leaf(c, "include_guard", Done(GuardState(c)))
    \/ /\ c.cmd = "include_guard" /\ Guarded(c)
       /\ frames' = [frames EXCEPT ![Len(frames)].rest = <<>>]
       /\ UNCHANGED <<now, world, errors, stream, calls_run>>

\* Every file that ends runs the calls deferred to its directory, one at a time.
CallsLeft == Last(now.deferred).calls
FileIsOver(kind) == frames # <<>> /\ Top.kind = kind /\ Top.rest = <<>> /\ CallsLeft = <<>>

\* eval_defer_flush_current_directory: the call leaves the queue before it runs,
\* in a context of its own.
FlushDeferred ==
    /\ frames # <<>> /\ Top.kind \in FileKinds /\ Top.rest = <<>> /\ CallsLeft # <<>>
    /\ world' = ExecPush(world, "deferred", CurrentDir, CurrentFile)
    /\ now' = Publish([now EXCEPT !.deferred[Len(now.deferred)].calls = Tail(@)], world')
    /\ frames' = Append(frames, [NewFrame("deferred", None, <<{Head(CallsLeft).call}>>, FALSE) EXCEPT !.tx = FALSE])
    /\ calls_run' = Append(calls_run, Head(CallsLeft).serial)
    /\ UNCHANGED <<errors, stream>>

LeaveDeferred ==
    /\ frames # <<>> /\ Top.kind = "deferred" /\ Top.rest = <<>>
    /\ Leave(Publish(now, ExecPop(world)), ExecPop(world), FALSE, <<>>)

\* The end of eval_execute_file: what it does to the contexts and the locks.
FileLeft == FileContextPopped([world EXCEPT !.locks = Released(@, "FILE", Top.depth)])

\* The policy level of the file is popped with it.
LeaveInclude ==
    /\ FileIsOver("include")
    /\ Leave(Publish(now, FileLeft), [FileLeft EXCEPT !.policies = PolicyPop(@)], FALSE, <<LeaveEvent(Top.dir)>>)

\* A directory that leaves its queue of deferred calls.
LeaveSubdirectoryQueue ==
    /\ FileIsOver("subdirectory")
    /\ Leave(Publish([ScopeCaptured(now, world) EXCEPT !.scopes = Front(@)], FileLeft), FileLeft, FALSE, <<LeaveEvent(Top.dir)>>)

LeaveSubdirectory ==
    /\ FileIsOver("subdirectory")
    /\ Leave(Publish([ScopeCaptured(now, world) EXCEPT !.scopes = Front(@), !.deferred = Front(@)], FileLeft),
             FileLeft, FALSE, <<LeaveEvent(Top.dir)>>)

-----------------------------------------------------------------------------
(* cmake_language(): eval_flow_cmake_language.c.                           *)

\* CALL and EVAL CODE run their code in a transaction that keeps variables.
CmakeLanguageCall(c) ==
    \/ /\ c.cmd = "cmake_language" /\ ~c.disallowed
       /\ Enter(c, "cmake_language", now, NewFrame("call", c, c.body, TRUE), <<>>, world)
    \/ /\ c.cmd = "cmake_language" /\ c.disallowed
       /\ Leaf(c, "cmake_language", Wrong)

LeaveCall ==
    /\ frames # <<>> /\ Top.kind = "call" /\ Top.rest = <<>>
    /\ Leave(now, world, FALSE, <<>>)

\* flow_resolve_defer_directory: the current directory, or the innermost
\* unfinished directory of that name; zero stands for no such directory.
DeferDirectory(dir) ==
    LET open == {k \in DOMAIN now.deferred : dir = None \/ now.deferred[k].dir = dir}
    IN  IF open = {} THEN 0 ELSE Max(open)

\* An id is [form, n]; the generated ones have a leading underscore.
GeneratedId(st) == [form |-> "underscore", n |-> st.next_call]
ValidId(st, id) ==
    /\ id.form \notin {"empty", "capital"}
    /\ id.form = "underscore" => id \in st.ids

\* cmake_language(DEFER CALL)
DeferCall(c) ==
    LET k     == DeferDirectory(c.dir)
        fresh == IF c.id # None THEN now ELSE [now EXCEPT !.next_call = @ + 1]
        id    == IF c.id # None THEN c.id ELSE GeneratedId(fresh)
        st    == IF c.id # None THEN now ELSE [fresh EXCEPT !.ids = @ \cup {id}]
        entry == [id |-> id, call |-> c.call, serial |-> Len(stream) + Len(calls_run)]
    IN  Leaf(c, "defer",
             IF k = 0 \/ c.disallowed \/ ~ValidId(st, id) THEN Wrong
             ELSE [Done(SetIf([st EXCEPT !.deferred[k].calls = Append(@, entry)], c.id_var, id)) EXCEPT
                      !.events = <<[type |-> "DEFER_QUEUE", serial |-> entry.serial]>>])

\* DEFER CANCEL_CALL, GET_CALL_IDS and GET_CALL
DeferCancel(c) ==
    LET k == DeferDirectory(c.dir)
    IN  Leaf(c, "defer_cancel",
             IF k = 0 THEN Wrong
             ELSE Done([now EXCEPT !.deferred[k].calls = SelectSeq(@, LAMBDA e : e.id # c.id)]))

DeferGet(c) ==
    LET k     == DeferDirectory(c.dir)
        calls == now.deferred[k].calls
        found == {i \in DOMAIN calls : calls[i].id = c.id}
    IN  Leaf(c, "defer_get",
             IF k = 0 THEN Wrong
             ELSE IF c.id = None THEN Done(Set(now, c.var, [i \in DOMAIN calls |-> calls[i].id]))
             ELSE Done(Set(now, c.var, IF found = {} THEN None ELSE calls[Min(found)].call.cmd)))

\* flow_cmake_language_provider_context_is_active: the file is one that the
\* first project() is including.
ProviderContext ==
    \E k \in DOMAIN frames \ {1} : frames[k].kind = "script" /\ frames[k - 1].kind = "project" /\ CurrentFile = frames[k].todo.file

\* SET_DEPENDENCY_PROVIDER: at file scope, and a command that exists.
SetProvider(c) ==
    Leaf(c, "set_provider",
         IF ~AtFileScope \/ ~ProviderContext THEN Wrong
         ELSE IF c.command = None THEN Done([now EXCEPT !.provider = [command |-> None, methods |-> {}]])
         ELSE DoneIf(c.command \in DOMAIN now.commands /\ c.methods # {},
                     [now EXCEPT !.provider = [command |-> c.command, methods |-> c.methods]]))

-----------------------------------------------------------------------------
(* project(): eval_project.c. The first one runs the files that            *)
(* CMAKE_PROJECT_TOP_LEVEL_INCLUDES names before it enables its languages. *)

Languages == {"C", "CXX"}

ProjectVariables(c) ==
    LET top   == CurrentDir = Root
        first == Get(now, "CMAKE_PROJECT_NAME") = None
        st    == Set(Set(now, "PROJECT_NAME", c.name), "PROJECT_IS_TOP_LEVEL", top)
    IN  IF top \/ first THEN Set(st, "CMAKE_PROJECT_NAME", c.name) ELSE st

ProjectIncludes ==
    LET named == Get(now, "CMAKE_PROJECT_TOP_LEVEL_INCLUDES")
    IN  IF Get(now, "CMAKE_PROJECT_NAME") = None /\ named # None THEN named ELSE <<>>

Project(c) ==
    \/ c.cmd = "project" /\ c.malformed /\ Leaf(c, "project", Wrong)
    \/ /\ c.cmd = "project" /\ ~c.malformed
       /\ Enter(c, "project", ProjectVariables(c),
                [NewFrame("project", c, <<>>, FALSE) EXCEPT !.todo = ProjectIncludes], <<>>, world)

AtFrame(kind) == frames # <<>> /\ Top.kind = kind

\* eval_execute_file of a command that runs a file itself: no transaction of its own.
ScriptFrame(body, file, policy) ==
    [NewFrame("script", None, body, FALSE) EXCEPT
        !.tx = FALSE, !.depth = FileDepth + 1, !.todo = [policy |-> policy, file |-> file]]
ScriptWorld(file, policy) ==
    ExecPush(IF policy THEN [world EXCEPT !.policies = PolicyPush(@)] ELSE world, "include", CurrentDir, file)

RunFile(file, policy, todo) ==
    /\ frames' = Append([frames EXCEPT ![Len(frames)].todo = todo], ScriptFrame(Files[file].body, file, policy))
    /\ world' = ScriptWorld(file, policy)
    /\ now' = Publish(now, world')
    /\ UNCHANGED <<errors, calls_run>>

ProjectInclude ==
    /\ AtFrame("project") /\ Top.todo # <<>> /\ Head(Top.todo) \in DOMAIN Files
    /\ RunFile(Head(Top.todo), TRUE, Tail(Top.todo))
    /\ stream' = Append(stream, EnterEvent(CurrentDir))

LeaveScript ==
    /\ FileIsOver("script")
    /\ Leave(Publish(now, FileLeft),
             IF Top.todo.policy THEN [FileLeft EXCEPT !.policies = PolicyPop(@)] ELSE FileLeft,
             FALSE, IF Top.todo.policy THEN <<LeaveEvent(Top.dir)>> ELSE <<>>)

\* apply_enabled_languages, unless an include was not found.
ProjectEnd ==
    /\ AtFrame("project")
    /\ \/ /\ Top.todo # <<>> /\ Head(Top.todo) \notin DOMAIN Files
          /\ Leave(now, world, TRUE, <<>>)
       \/ /\ Top.todo = <<>>
          /\ Leave(Set(now, "NOBIFY_ENABLED_LANGUAGES", Top.cmd.languages), world,
                   ~(Top.cmd.languages \subseteq Languages), <<>>)

-----------------------------------------------------------------------------
(* The end of the run: eval_context_run_prepared.                          *)

\* file(GENERATE) only queues a job.
FileGenerate(c) ==
    Leaf(c, "file_generate",
         DoneIf((c.input = None) # (c.content = None) /\ ~(c.use_source /\ c.no_source),
                [now EXCEPT !.jobs = Append(@, [path |-> c.path, input |-> c.input, content |-> c.content,
                                                condition |-> c.condition, target |-> c.target,
                                                mode |-> c.mode, use_source |-> c.use_source])]))

WithParent(d, p) == Mkdir(d, Front(p))
CanWriteIn(d, p) == CanMkdir(d, Front(p)) /\ CanWrite(WithParent(d, p), p)
WithMode(d, p, mode) == IF mode = "" THEN d ELSE [d EXCEPT ![Follow(d, p)].mode = mode]
WriteText(phase, path, text, mode) == Action("FS_WRITE_TEXT", phase, <<>>, <<path>>, text, <<mode>>)

\* file(WRITE)
FileWrite(c) ==
    Leaf(c, "file_write",
         IF CanWriteIn(world.disk, c.path)
         THEN Effect(TRUE, now, Put(WithParent(world.disk, c.path), c.path, c.text),
                     <<WriteText(FilesystemPhase, c.path, c.text, "")>>)
         ELSE Effect(FALSE, now, IF CanMkdir(world.disk, Front(c.path)) THEN WithParent(world.disk, c.path) ELSE world.disk,
                     <<>>))

\* One job of eval_file_generate_flush; an error does not stop the others. A
\* file that has its text already is not written, and its mode left as it is.
GenerateJob(acc, job) ==
    LET readable  == job.input # None => IsFileAt(acc.disk, job.input)
        text      == IF job.input = None THEN job.content ELSE TextAt(acc.disk, job.input)
        mode      == IF job.mode # "" THEN job.mode
                     ELSE IF job.use_source /\ job.input # None THEN acc.disk[Follow(acc.disk, job.input)].mode ELSE ""
        made      == WithParent(acc.disk, job.path)
        same      == IsFileAt(made, job.path) /\ TextAt(made, job.path) = text
        erroneous == [acc EXCEPT !.errors = @ + 1]
        seen      == [acc EXCEPT !.seen = With(@, job.path, text)]
    IN  IF ~job.condition THEN acc
        ELSE IF job.target # None /\ job.target \notin DOMAIN now.targets THEN erroneous
        ELSE IF ~readable THEN erroneous
        ELSE IF job.path \in DOMAIN acc.seen THEN (IF acc.seen[job.path] = text THEN acc ELSE erroneous)
        ELSE IF ~CanWriteIn(acc.disk, job.path) THEN [seen EXCEPT !.errors = @ + 1]
        ELSE [seen EXCEPT !.disk = IF same THEN made ELSE WithMode(Put(made, job.path, text), job.path, mode),
                          !.events = Append(@, WriteText("CONFIGURE", job.path, text, mode))]

GenerateFlush ==
    FoldLeft(GenerateJob, [seen |-> Empty, disk |-> world.disk, errors |-> 0, events |-> <<>>], now.jobs)

EndOfRun ==
    /\ FileIsOver("top")
    /\ now' = [now EXCEPT !.jobs = <<>>, !.deferred = Front(@)]
    /\ world' = ExecPop([world EXCEPT !.locks = Released(@, "FILE", 1), !.disk = GenerateFlush.disk,
                                      !.next_action = @ + Len(GenerateFlush.events)])
    /\ errors' = errors + GenerateFlush.errors
    /\ stream' = stream \o [k \in DOMAIN GenerateFlush.events |->
                                [GenerateFlush.events[k] EXCEPT !.id = world.next_action + k]]
    /\ frames' = <<>>
    /\ UNCHANGED calls_run

=============================================================================
