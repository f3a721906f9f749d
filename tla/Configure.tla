----------------------------- MODULE Configure ------------------------------
(***************************************************************************)
(* One configure run: the evaluator runs the commands of a script that     *)
(* describe the build and records an event stream; when there was no error *)
(* the application wraps the stream in the root directory and hands it to  *)
(* the builder, validates the draft and freezes it (app/nobify.c).         *)
(*                                                                         *)
(* A command is a record, the name of the command and its arguments; a     *)
(* script is a sequence of sets of commands, of which the k-th command run *)
(* is any one of the k-th set.                                             *)
(***************************************************************************)
EXTENDS BuildModel

CONSTANTS
    Root,     \* the root of the source tree
    Scripts   \* a sequence of the scripts that may be run

ASSUME RootAssumption == Root \in Location

VARIABLES
    script,      \* which script is run
    line,        \* the number of its next command
    registry,    \* the evaluator's target records
    defined,     \* the directories whose scope has a global definition
    outputs,     \* custom_command_output_steps: the step that makes a file
    next_key,    \* the next build step key
    at,          \* the directory being evaluated
    stream,      \* the events not yet consumed
    evaluation,  \* "running", "clean" or "error"
    asked        \* history: the edges between targets and steps the script asked for

eval_vars == <<script, line, registry, defined, outputs, next_key, at, stream, evaluation, asked>>
vars == <<bm_vars, eval_vars>>

Init ==
    /\ BuilderInit
    /\ script \in DOMAIN Scripts
    /\ line = 1
    /\ registry = [n \in {} |-> n]
    /\ defined = {}
    /\ outputs = [p \in {} |-> p]
    /\ next_key = 1
    /\ at = Root
    /\ stream = <<>>
    /\ evaluation = "running"
    /\ asked = {}

-----------------------------------------------------------------------------
(* The commands a script is made of.                                       *)

Executable(n, options, source)    == [cmd |-> "add_executable", name |-> n, type |-> "EXECUTABLE",
                                      options |-> options, source |-> source]
Library(n, type, options, source) == [cmd |-> "add_library", name |-> n, type |-> type,
                                      options |-> options, source |-> source]
Alias(n, real)                    == [cmd |-> "alias", name |-> n, real |-> real]
CustomTarget(n, all, dep, program) == [cmd |-> "add_custom_target", name |-> n, all |-> all,
                                       dep |-> dep, program |-> program]
CommandOutput(f, dep, program)    == [cmd |-> "add_custom_command", file |-> f, dep |-> dep, program |-> program]
CommandAppend(f, dep, program)    == [cmd |-> "append", file |-> f, dep |-> dep, program |-> program]
CommandHook(n, stage, program)    == [cmd |-> "hook", name |-> n, stage |-> stage, dep |-> None, program |-> program]
DependsOn(n, d)                   == [cmd |-> "add_dependencies", name |-> n, dep |-> d]
Link(n, vis, item)                == [cmd |-> "target_link_libraries", name |-> n, vis |-> vis, item |-> item]
Definitions(n, vis)               == [cmd |-> "target_compile_definitions", name |-> n, vis |-> vis]
GlobalDefinitions                 == [cmd |-> "add_compile_definitions"]
Subdirectory(sub)                 == [cmd |-> "add_subdirectory", sub |-> sub]
EndOfDirectory                    == [cmd |-> "end of CMakeLists.txt"]

\* GLOBAL is an option of imported targets.
Options == {o \in SUBSET PropertyKey : "IMPORTED_GLOBAL" \in o => "IMPORTED" \in o}

Command ==
    [cmd : {"add_executable"}, name : Name, type : {"EXECUTABLE"}, options : Options, source : Path \cup {None}]
    \cup [cmd : {"add_library"}, name : Name, type : LibraryKind, options : Options, source : Path \cup {None}]
    \cup [cmd : {"alias"}, name : Name, real : Name]
    \cup [cmd : {"add_custom_target"}, name : Name, all : BOOLEAN, dep : Name \cup File \cup {None},
          program : Name \cup {None}]
    \cup [cmd : {"add_custom_command", "append"}, file : File, dep : Name \cup File \cup {None},
          program : Name \cup {None}]
    \cup [cmd : {"hook"}, name : Name, stage : HookKind, dep : {None}, program : Name \cup {None}]
    \cup [cmd : {"add_dependencies"}, name : Name, dep : Name]
    \cup [cmd : {"target_link_libraries"}, name : Name, vis : Visibility, item : Name]
    \cup [cmd : {"target_compile_definitions"}, name : Name, vis : Visibility]
    \cup [cmd : {"add_compile_definitions", "end of CMakeLists.txt"}]
    \cup [cmd : {"add_subdirectory"}, sub : Location \ {Root}]

ASSUME ScriptsAssumption == \A s \in DOMAIN Scripts : Scripts[s] \in Seq(SUBSET Command)

DeclaresTarget == {"add_executable", "add_library", "alias", "add_custom_target"}

\* What the handlers leave to the script: add_custom_target does not ask
\* whether its name is new, and the definitions of the scope are recorded for
\* a new target before the target is declared.
Careful ==
    \A s \in DOMAIN Scripts : \A i, j \in DOMAIN Scripts[s] : i < j =>
        \A c \in Scripts[s][i], d \in Scripts[s][j] :
            /\ c.cmd \in DeclaresTarget /\ d.cmd = "add_custom_target" => c.name # d.name
            /\ c.cmd = "add_compile_definitions" /\ d.cmd \in {"add_executable", "add_library"} =>
                   "IMPORTED" \in d.options

\* The commands that may come next.
Coming ==
    IF evaluation = "running" /\ line \in DOMAIN Scripts[script] THEN Scripts[script][line] ELSE {}

Run(c, cmd) ==
    /\ c.cmd = cmd
    /\ line' = line + 1
    /\ UNCHANGED <<bm_vars, script, evaluation>>

\* An error diagnostic: the stream will not be used, whatever follows.
Diagnose(c, cmd, wrong) ==
    /\ c.cmd = cmd
    /\ wrong
    /\ evaluation' = "error"
    /\ stream' = <<>>
    /\ UNCHANGED <<bm_vars, script, line, registry, defined, outputs, next_key, at, asked>>

Emit(events) == stream' = stream \o events
Only(condition, events) == IF condition THEN events ELSE <<>>

-----------------------------------------------------------------------------
(* The registry of targets.                                                *)

TargetKnown(n) == n \in DOMAIN registry
AliasKnown(n)  == TargetKnown(n) /\ "ALIAS" \in registry[n].flags

\* eval_target_visible: an imported target that is not global, and its
\* aliases, are seen from the directory that declared it and below.
TargetVisible(n) ==
    /\ TargetKnown(n)
    /\ LET real == IF AliasKnown(n) THEN registry[registry[n].of] ELSE registry[n]
       IN  \/ "IMPORTED" \notin real.flags
           \/ "IMPORTED_GLOBAL" \in real.flags
           \/ registry[n].at \in {Root, at}

\* Targets that may be changed: visible, and not an alias.
Changeable(n) == TargetVisible(n) /\ ~AliasKnown(n)

\* A target that is known already keeps its record.
Register(n, type, flags, of) ==
    LET record == [type |-> type, flags |-> flags, of |-> of, at |-> at, index |-> Cardinality(DOMAIN registry)]
    IN  registry' = [x \in DOMAIN registry \cup {n} |-> IF TargetKnown(x) THEN registry[x] ELSE record]

\* The targets that are no aliases, of every directory, in the order they
\* were registered: the set has one member.
KnownTargets ==
    LET real == {n \in DOMAIN registry : ~AliasKnown(n)}
    IN  {known \in [1 .. Cardinality(real) -> real] :
           \A i, j \in DOMAIN known : i < j => registry[known[i]].index < registry[known[j]].index}

-----------------------------------------------------------------------------
(* The commands that declare targets.                                      *)

\* k_global_defs_var as the scope of the current directory sees it.
GlobalDefinition == defined \cap {Root, at} # {}

\* The properties come before the declaration, the sources after it.
TargetEvents(c) ==
    IF "IMPORTED" \in c.options
    THEN <<PropSet(c.name, "IMPORTED", TRUE)>>
         \o Only("IMPORTED_GLOBAL" \in c.options, <<PropSet(c.name, "IMPORTED_GLOBAL", TRUE)>>)
         \o <<Declare(c.name, c.type, {"IMPORTED"}, None)>>
    ELSE Only("EXCLUDE_FROM_ALL" \in c.options, <<PropSet(c.name, "EXCLUDE_FROM_ALL", TRUE)>>)
         \o Only(GlobalDefinition, <<CompileDefinitions(c.name, "PRIVATE")>>)
         \o <<Declare(c.name, c.type, {}, None)>>
         \o Only(c.type # "INTERFACE" /\ c.source # None, <<AddSource(c.name, c.source)>>)

AddTarget(c, cmd) ==
    \/ Diagnose(c, cmd, TargetKnown(c.name))
    \/ /\ Run(c, cmd)
       /\ ~TargetKnown(c.name)
       /\ Register(c.name, c.type, c.options \cap {"IMPORTED", "IMPORTED_GLOBAL"}, None)
       /\ Emit(TargetEvents(c))
       /\ UNCHANGED <<defined, outputs, next_key, at, asked>>

AddExecutable(c) == AddTarget(c, "add_executable")
AddLibrary(c)    == AddTarget(c, "add_library")

\* add_library(n ALIAS real) and add_executable(n ALIAS real)
AddAlias(c) ==
    \/ Diagnose(c, "alias", TargetKnown(c.name) \/ ~TargetKnown(c.real) \/ AliasKnown(c.real))
    \/ /\ Run(c, "alias")
       /\ ~TargetKnown(c.name) /\ TargetKnown(c.real) /\ ~AliasKnown(c.real)
       /\ Register(c.name, registry[c.real].type, {"ALIAS"}, c.real)
       /\ Emit(<<Declare(c.name, registry[c.real].type, {"ALIAS"}, c.real)>>)
       /\ UNCHANGED <<defined, outputs, next_key, at, asked>>

\* A dependency of a step is a reference to a target if the target is known now.
StepEvents(k, c, known) ==
    Only(c.dep # None, <<StepDependency(k, [item |-> c.dep, ref |-> c.dep \in known])>>)
    \o Only(c.program # None, <<StepCommand(k, c.program)>>)

\* The history of what a step needs: a name that is no target yet is a file
\* name to the evaluator, the program of a command is looked up at the end.
AskStep(k, c, known) ==
    asked' = asked \cup {<<"depends", k, d>> : d \in {c.dep} \cap known}
                   \cup {<<"runs", k, p>> : p \in {c.program} \ {None}}

\* add_custom_target does not ask whether the name is new.
AddCustomTarget(c) ==
    LET known == DOMAIN registry \cup {c.name} IN
    /\ Run(c, "add_custom_target")
    /\ Register(c.name, "UNKNOWN", {}, None)
    /\ Emit(<<Declare(c.name, "UNKNOWN", {}, None), PropSet(c.name, "EXCLUDE_FROM_ALL", ~c.all),
              StepDeclare(next_key, "CUSTOM_TARGET", c.name)>> \o StepEvents(next_key, c, known))
    /\ next_key' = next_key + 1
    /\ AskStep(next_key, c, known)
    /\ UNCHANGED <<defined, outputs, at>>

\* add_custom_command(OUTPUT f ...): the first step for a file stays its step.
AddCustomCommandOutput(c) ==
    /\ Run(c, "add_custom_command")
    /\ Emit(<<StepDeclare(next_key, "OUTPUT_RULE", None), StepOutput(next_key, c.file)>>
            \o StepEvents(next_key, c, DOMAIN registry))
    /\ outputs' = [p \in DOMAIN outputs \cup {<<at, c.file>>} |->
                      IF p \in DOMAIN outputs THEN outputs[p] ELSE next_key]
    /\ next_key' = next_key + 1
    /\ AskStep(next_key, c, DOMAIN registry)
    /\ UNCHANGED <<registry, defined, at>>

\* add_custom_command(OUTPUT f ... APPEND)
AddCustomCommandAppend(c) ==
    \/ Diagnose(c, "append", <<at, c.file>> \notin DOMAIN outputs)
    \/ /\ Run(c, "append")
       /\ <<at, c.file>> \in DOMAIN outputs
       /\ Emit(StepEvents(outputs[<<at, c.file>>], c, DOMAIN registry))
       /\ AskStep(outputs[<<at, c.file>>], c, DOMAIN registry)
       /\ UNCHANGED <<registry, defined, outputs, next_key, at>>

\* add_custom_command(TARGET n stage ...), which has no DEPENDS.
AddCustomCommandTarget(c) ==
    \/ Diagnose(c, "hook", ~TargetKnown(c.name) \/ AliasKnown(c.name))
    \/ /\ Run(c, "hook")
       /\ TargetKnown(c.name) /\ ~AliasKnown(c.name)
       /\ Emit(<<StepDeclare(next_key, c.stage, c.name)>> \o StepEvents(next_key, c, DOMAIN registry))
       /\ next_key' = next_key + 1
       /\ AskStep(next_key, c, DOMAIN registry)
       /\ UNCHANGED <<registry, defined, outputs, at>>

-----------------------------------------------------------------------------
(* The commands that change targets and directories.                       *)

\* Mutant: only the target that depends is looked up.
MutDependenciesUnchecked(c) ==
    LET Plain(n) == TargetKnown(n) /\ ~AliasKnown(n) IN
    \/ Diagnose(c, "add_dependencies", ~Plain(c.name))
    \/ /\ Run(c, "add_dependencies")
       /\ Plain(c.name)
       /\ Emit(<<AddDependency(c.name, c.dep)>>)
       /\ asked' = asked \cup {<<"order", c.name, d>> : d \in {c.dep} \cap DOMAIN registry}
       /\ UNCHANGED <<registry, defined, outputs, next_key, at>>

AddDependencies(c) ==
    LET Plain(n) == TargetKnown(n) /\ ~AliasKnown(n) IN
    \/ Diagnose(c, "add_dependencies", ~Plain(c.name) \/ ~Plain(c.dep))
    \/ /\ Run(c, "add_dependencies")
       /\ Plain(c.name) /\ Plain(c.dep)
       /\ Emit(<<AddDependency(c.name, c.dep)>>)
       /\ asked' = asked \cup {<<"order", c.name, c.dep>>}
       /\ UNCHANGED <<registry, defined, outputs, next_key, at>>

\* A link item is a reference to a target if the target is known now, and the
\* history has only these; without a keyword the item is PRIVATE to the builder.
TargetLinkLibraries(c) ==
    \/ Diagnose(c, "target_link_libraries", ~Changeable(c.name))
    \/ /\ Run(c, "target_link_libraries")
       /\ Changeable(c.name)
       /\ Emit(<<LinkLibraries(c.name, [vis |-> c.vis, item |-> c.item, ref |-> TargetKnown(c.item)])>>)
       /\ asked' = asked \cup {<<c.vis, c.name, i>> : i \in {c.item} \cap DOMAIN registry}
       /\ UNCHANGED <<registry, defined, outputs, next_key, at>>

\* An imported target takes INTERFACE definitions only.
TargetCompileDefinitions(c) ==
    LET allowed == Changeable(c.name) /\ ("IMPORTED" \in registry[c.name].flags => c.vis = "INTERFACE") IN
    \/ Diagnose(c, "target_compile_definitions", ~allowed)
    \/ /\ Run(c, "target_compile_definitions")
       /\ allowed
       /\ Emit(<<CompileDefinitions(c.name, c.vis)>>)
       /\ UNCHANGED <<registry, defined, outputs, next_key, at, asked>>

\* add_compile_definitions of the one definition: for every target there is,
\* for the directory, and for the targets to come in its scope.
AddCompileDefinitions(c) ==
    /\ Run(c, "add_compile_definitions")
    /\ IF GlobalDefinition THEN UNCHANGED <<stream, defined>>
       ELSE /\ \E known \in KnownTargets :
                 Emit([i \in DOMAIN known |-> CompileDefinitions(known[i], "PRIVATE")]
                      \o <<DirectoryMutate("PRIVATE")>>)
            /\ defined' = defined \cup {at}
    /\ UNCHANGED <<registry, outputs, next_key, at, asked>>

\* add_subdirectory runs the script of the directory, in a scope of its own.
AddSubdirectory(c) ==
    /\ at = Root
    /\ Run(c, "add_subdirectory")
    /\ Emit(<<Enter(c.sub)>>)
    /\ at' = c.sub
    /\ UNCHANGED <<registry, defined, outputs, next_key, asked>>

EndSubdirectory(c) ==
    /\ at # Root
    /\ Run(c, "end of CMakeLists.txt")
    /\ Emit(<<Leave(at)>>)
    /\ at' = Root
    /\ defined' = defined \ {at}
    /\ UNCHANGED <<registry, outputs, next_key, asked>>

-----------------------------------------------------------------------------
(* The pipeline.                                                           *)

\* nobify_wrap_stream_with_root, and on to the builder.
FinishEvaluation ==
    /\ evaluation = "running"
    /\ line = Len(Scripts[script]) + 1
    /\ at = Root
    /\ evaluation' = "clean"
    /\ stream' = <<Enter(Root)>> \o stream \o <<Leave(Root)>>
    /\ UNCHANGED <<bm_vars, script, line, registry, defined, outputs, next_key, at, asked>>

ApplyNextEvent ==
    /\ evaluation = "clean"
    /\ stream # <<>>
    /\ ApplyEvent(Head(stream))
    /\ stream' = Tail(stream)
    /\ UNCHANGED <<script, line, registry, defined, outputs, next_key, at, evaluation, asked>>

Passes ==
    /\ evaluation = "clean"
    /\ stream = <<>>
    /\ Finalize \/ Validate \/ Freeze
    /\ UNCHANGED eval_vars

\* The run is over, with a model or without.
Stop ==
    /\ evaluation = "error" \/ phase \in {"failed", "rejected", "frozen"}
    /\ UNCHANGED vars

Next ==
    \/ \E c \in Coming : AddExecutable(c)
    \/ \E c \in Coming : AddLibrary(c)
    \/ \E c \in Coming : AddAlias(c)
    \/ \E c \in Coming : AddCustomTarget(c)
    \/ \E c \in Coming : AddCustomCommandOutput(c)
    \/ \E c \in Coming : AddCustomCommandAppend(c)
    \/ \E c \in Coming : AddCustomCommandTarget(c)
    \/ \E c \in Coming : AddDependencies(c)
    \/ \E c \in Coming : TargetLinkLibraries(c)
    \/ \E c \in Coming : TargetCompileDefinitions(c)
    \/ \E c \in Coming : AddCompileDefinitions(c)
    \/ \E c \in Coming : AddSubdirectory(c)
    \/ \E c \in Coming : EndSubdirectory(c)
    \/ FinishEvaluation
    \/ ApplyNextEvent
    \/ Passes
    \/ Stop

Spec == Init /\ [][Next]_vars

-----------------------------------------------------------------------------
(* Properties.                                                             *)

Edge == {"order", "depends", "runs"} \cup Visibility

TypeOK ==
    /\ BuilderTypeOK
    /\ DOMAIN registry \subseteq Name
    /\ \A n \in DOMAIN registry :
          registry[n] \in [type : TargetKind, flags : SUBSET Flag, of : Name \cup {None}, at : Location, index : Nat]
    /\ defined \subseteq Location
    /\ DOMAIN outputs \subseteq Location \X File
    /\ \A p \in DOMAIN outputs : outputs[p] \in 1 .. next_key - 1
    /\ at \in Location
    /\ \A i \in DOMAIN stream : stream[i].kind \in EventKind
    /\ evaluation \in {"running", "clean", "error"}
    /\ \A e \in asked : e[1] \in Edge

\* A script the evaluator has no error for is a stream the builder takes to
\* the end (bm_builder_apply_stream is handed only streams without an error
\* diagnostic, and answers a builder error by giving up the run).
BuilderAccepts == evaluation = "clean" => phase # "failed"

\* What the evaluator lets through meets the structural and the resolution
\* pass: a draft can be rejected for a cycle, a semantic rule or its execution
\* graph, never for a name that is missing (bm_validate_structural_pass,
\* bm_validate_resolution_pass against the checks of the command handlers).
StreamWellFormed ==
    phase \in {"finalized", "validated", "rejected", "frozen"} => Structural /\ Resolution

\* The frozen model has the targets of the evaluator's registry, each with its
\* kind, directory, alias and the way it is imported, though the properties
\* that say so reach the builder before the declaration.
DeclarationsKept ==
    phase = "frozen" =>
        /\ DOMAIN targets = DOMAIN registry
        /\ \A n \in DOMAIN registry :
              /\ targets[n].kind = registry[n].type
              /\ targets[n].of = registry[n].of
              /\ targets[n].flags \cap {"IMPORTED", "IMPORTED_GLOBAL", "ALIAS"} = registry[n].flags
              /\ directories[targets[n].dir].at = registry[n].at

\* The target a name of the script stands for.
Real(n) == IF registry[n].of = None THEN n ELSE registry[n].of

\* What can be reached in a relation, in at most `most' steps.
ReachedBy(from, relation, most) ==
    LET within[k \in 0 .. most] ==
            IF k = 0 THEN from
            ELSE within[k - 1] \cup {e[2] : e \in {r \in relation : r[1] \in within[k - 1]}}
    IN  within[most]

AskedEdges(kinds) == {<<e[2], Real(e[3])>> : e \in {x \in asked : x[1] \in kinds}}

\* The targets that n reaches by links of any visibility.
Linked(n) ==
    ReachedBy({e[2] : e \in {r \in AskedEdges(Visibility) : r[1] = n}},
              AskedEdges(Visibility), Cardinality(Name)) \ {n}

\* The targets whose usage requirements the script asks n to be compiled with:
\* those it links for itself, and what they in turn pass on to their users.
AskedUsage(n) ==
    ReachedBy({e[2] : e \in {r \in AskedEdges({"PRIVATE", "PUBLIC"}) : r[1] = n}},
              AskedEdges({"PUBLIC", "INTERFACE"}), Cardinality(Name)) \ {n}

\* A link that does not pass on what is behind it: one that n has only for its
\* users, or one that a target n reaches has only for itself.
KeptFrom(n) ==
    (AskedEdges({"INTERFACE"}) \cap ({n} \X Name)) \cup (AskedEdges({"PRIVATE"}) \cap (Linked(n) \X Name))

\* The definitions that users of the given targets are compiled with.
PassedOn(from) == {e \in from \X {"PUBLIC", "INTERFACE"} : e[2] \in targets[e[1]].defs}

\* The definitions of other targets that n is compiled with.
TakenFromOthers(n) == {e \in EffectiveDefinitions(n) : e[1] \in DOMAIN targets \ {n}}

\* A target is compiled with the definitions that are not private of every
\* target whose usage it asked for, whatever aliases the links go through, and,
\* where every link on the way passes on what is behind it, with those of no
\* other target (bm_collect_dependency_interface).
UsageExact ==
    phase = "frozen" =>
        \A n \in {m \in DOMAIN targets : ~HasFlag(m, "ALIAS")} :
            /\ PassedOn(AskedUsage(n)) \subseteq TakenFromOthers(n)
            /\ KeptFrom(n) = {} => TakenFromOthers(n) \subseteq PassedOn(AskedUsage(n))

\* What a target links PRIVATE is not passed on to its users, as CMake has it:
\* no target is compiled with the definitions of one that it reaches only
\* through the private links of others
\* (bm_collect_dependency_usage_from_link_items follows every link). The code
\* does not keep this.
PrivateStaysPrivate ==
    phase = "frozen" =>
        \A n \in {m \in DOMAIN targets : ~HasFlag(m, "ALIAS")} :
            AskedEdges({"INTERFACE"}) \cap ({n} \X Name) = {} =>
                TakenFromOthers(n) \subseteq PassedOn(AskedUsage(n))

\* What comes before a node of the execution graph.
Before(x) ==
    ReachedBy({x}, UNION {{<<y, z>> : z \in ExecutionEdges(y)} : y \in ExecutionNodes},
              Cardinality(ExecutionNodes)) \ {x}

\* The targets that the link line of n names: what n links, and what the
\* targets it uses do not keep private.
AskedLinks(n) ==
    {e[2] : e \in {r \in AskedEdges(Visibility) : r[1] = n}} \cup
    {e[2] : e \in {r \in AskedEdges({"PUBLIC", "INTERFACE"}) : r[1] \in Linked(n)}}

\* The targets the script asks to be built before n.
AskedBefore(n) ==
    ReachedBy({n} \cup (IF Kind(n) \in LinkedKind THEN AskedLinks(n) ELSE {}),
              AskedEdges({"order"}), Cardinality(Name)) \ {n}

\* The generated build runs in an order the script asked for: a target that is
\* built comes after every built target that add_dependencies, through targets
\* that are not built too, or its link line puts before it; a step comes after
\* the targets in its DEPENDS and the programs it runs; a target comes after
\* the step that makes one of its sources, wherever the three are declared
\* (bm_query_target_effective_build_order_view,
\* bm_query_build_step_effective_view).
AskedIsOrdered ==
    phase = "frozen" =>
        /\ \A n \in {m \in DOMAIN targets : IsOrderNode(m)} :
              /\ {m \in AskedBefore(n) : IsOrderNode(m)} \subseteq Before(n)
              /\ \A path \in targets[n].sources :
                    path[1] = "bin" /\ <<path[2], path[3]>> \in DOMAIN outputs /\ Kind(n) # "UTILITY"
                        => StepWithKey(outputs[<<path[2], path[3]>>]) \subseteq Before(n)
        /\ \A e \in asked : e[1] = "depends" => \A s \in StepWithKey(e[2]) : Real(e[3]) \in Before(s)
        /\ \A e \in asked : e[1] = "runs" /\ TargetKnown(e[3]) =>
              \A s \in StepWithKey(e[2]) :
                  \/ Real(e[3]) \in Before(s)
                  \/ Real(e[3]) = build_steps[s].owner
                  \/ Kind(Real(e[3])) # "EXECUTABLE" \/ HasFlag(Real(e[3]), "IMPORTED")
=============================================================================
