----------------------------- MODULE BuildModel -----------------------------
(***************************************************************************)
(* The build model (src_v2/build_model): the builder that turns build      *)
(* semantic events into a draft, the validation of the draft, and the      *)
(* freeze that resolves names and checks the execution graph.  The frozen  *)
(* model is the draft read through the operators of the last section,      *)
(* which are what the freeze resolves and what the queries return: nothing *)
(* changes the draft once the builder has been finalized.                  *)
(*                                                                         *)
(* Directories, targets and steps are what the C arrays hold; an id is an  *)
(* index, a name index is the domain of `targets'.  A path is a base, a    *)
(* directory and a file name, with absolute source and binary roots, so a  *)
(* generated file is named by the binary directory it is generated in.     *)
(* Lists whose order no query below looks at are sets.                     *)
(***************************************************************************)
EXTENDS Integers, Sequences, FiniteSets

CONSTANTS
    Name,      \* names that targets may have
    File,      \* names that files may have
    Location,  \* directories of the source tree, each with its binary directory
    None       \* the empty name

ASSUME NoneAssumption == None \notin Name \cup File \cup Location

NoDirectory == 0

LibraryKind == {"STATIC", "SHARED", "MODULE", "OBJECT", "INTERFACE", "UNKNOWN"}
TargetKind  == LibraryKind \cup {"EXECUTABLE", "UTILITY"}
LinkedKind  == {"EXECUTABLE", "SHARED", "MODULE"}
HookedKind  == LinkedKind \cup {"STATIC"}
HookKind    == {"PRE_BUILD", "PRE_LINK", "POST_BUILD"}
StepKind    == HookKind \cup {"OUTPUT_RULE", "CUSTOM_TARGET"}
Visibility  == {"PRIVATE", "PUBLIC", "INTERFACE"}

\* The properties whose promotion the builder knows by name.
PropertyKey == {"IMPORTED", "IMPORTED_GLOBAL", "EXCLUDE_FROM_ALL"}
\* RAW: some property is kept unpromoted.
Flag == PropertyKey \cup {"DECLARED", "ALIAS", "RAW"}

Path     == {"src", "bin"} \X Location \X File
LinkItem == [vis : Visibility, item : Name, ref : BOOLEAN]
StepDep  == [item : Name \cup File, ref : BOOLEAN]

Directory == [parent : Nat, at : Location, defs : SUBSET Visibility]

Target == [flags : SUBSET Flag, kind : TargetKind, dir : Nat, of : Name \cup {None},
           sources : SUBSET Path, deps : SUBSET Name, links : SUBSET LinkItem,
           defs : SUBSET Visibility]

Step == [key : Nat, kind : StepKind, owner : Name \cup {None}, dir : Nat,
         outputs : SUBSET File, deps : SUBSET StepDep, commands : SUBSET Name]

VARIABLES
    directories,      \* the directory records: parent id, location, definitions
    directory_stack,  \* the directories entered and not left
    targets,          \* the target records, by name
    build_steps,      \* the build step records
    phase             \* how far the model is: the builder takes events while it is "open"

draft   == <<directories, directory_stack, targets, build_steps>>
bm_vars == <<directories, directory_stack, targets, build_steps, phase>>

BuilderInit ==
    /\ directories = <<>>
    /\ directory_stack = <<>>
    /\ targets = [n \in {} |-> n]
    /\ build_steps = <<>>
    /\ phase = "open"

-----------------------------------------------------------------------------
(* The events.                                                             *)

Enter(at)                   == [kind |-> "DIRECTORY_ENTER", at |-> at]
Leave(at)                   == [kind |-> "DIRECTORY_LEAVE", at |-> at]
DirectoryMutate(vis)        == [kind |-> "DIRECTORY_PROPERTY_MUTATE", vis |-> vis]
Declare(n, type, flags, of) == [kind |-> "TARGET_DECLARE", name |-> n, type |-> type, flags |-> flags, of |-> of]
AddSource(n, path)          == [kind |-> "TARGET_ADD_SOURCE", name |-> n, path |-> path]
AddDependency(n, d)         == [kind |-> "TARGET_ADD_DEPENDENCY", name |-> n, dep |-> d]
PropSet(n, key, on)         == [kind |-> "TARGET_PROP_SET", name |-> n, key |-> key, on |-> on]
LinkLibraries(n, item)      == [kind |-> "TARGET_LINK_LIBRARIES", name |-> n, item |-> item]
CompileDefinitions(n, vis)  == [kind |-> "TARGET_COMPILE_DEFINITIONS", name |-> n, vis |-> vis]
StepDeclare(k, type, owner) == [kind |-> "BUILD_STEP_DECLARE", key |-> k, type |-> type, owner |-> owner]
StepOutput(k, f)            == [kind |-> "BUILD_STEP_ADD_OUTPUT", key |-> k, file |-> f]
StepDependency(k, d)        == [kind |-> "BUILD_STEP_ADD_DEPENDENCY", key |-> k, dep |-> d]
StepCommand(k, n)           == [kind |-> "BUILD_STEP_ADD_COMMAND", key |-> k, name |-> n]

Event ==
    {Enter(at) : at \in Location} \cup {Leave(at) : at \in Location}
    \cup {DirectoryMutate(vis) : vis \in Visibility}
    \cup {Declare(n, type, flags, of) : n \in Name, type \in TargetKind \ {"UTILITY"},
                                        flags \in SUBSET {"IMPORTED", "ALIAS"}, of \in Name \cup {None}}
    \cup {AddSource(n, path) : n \in Name, path \in Path}
    \cup {AddDependency(n, d) : n \in Name, d \in Name}
    \cup {PropSet(n, key, on) : n \in Name, key \in PropertyKey, on \in BOOLEAN}
    \cup {LinkLibraries(n, item) : n \in Name, item \in LinkItem}
    \cup {CompileDefinitions(n, vis) : n \in Name, vis \in Visibility}
    \cup {StepDeclare(k, type, owner) : k \in Nat, type \in StepKind, owner \in Name \cup {None}}
    \cup {StepOutput(k, f) : k \in Nat, f \in File}
    \cup {StepDependency(k, d) : k \in Nat, d \in StepDep}
    \cup {StepCommand(k, n) : k \in Nat, n \in Name}

EventKind ==
    {"DIRECTORY_ENTER", "DIRECTORY_LEAVE", "DIRECTORY_PROPERTY_MUTATE", "TARGET_DECLARE",
     "TARGET_ADD_SOURCE", "TARGET_ADD_DEPENDENCY", "TARGET_PROP_SET", "TARGET_LINK_LIBRARIES",
     "TARGET_COMPILE_DEFINITIONS", "BUILD_STEP_DECLARE", "BUILD_STEP_ADD_OUTPUT",
     "BUILD_STEP_ADD_DEPENDENCY", "BUILD_STEP_ADD_COMMAND"}

-----------------------------------------------------------------------------
(* The builder: one action per kind of event.                              *)

CurrentDirectory ==
    IF directory_stack = <<>> THEN NoDirectory ELSE directory_stack[Len(directory_stack)]

\* bm_builder_error: the builder takes no further event.
BuilderError ==
    /\ phase' = "failed"
    /\ UNCHANGED draft

Known(n) == n \in DOMAIN targets
HasFlag(n, flag) == flag \in targets[n].flags

\* Mutant: a placeholder that leaves its directory to the declaration.
MutPlaceholderNowhere ==
    [flags |-> {}, kind |-> "UTILITY", dir |-> NoDirectory, of |-> None,
     sources |-> {}, deps |-> {}, links |-> {}, defs |-> {}]

\* bm_target_ensure_placeholder: what a name is before it is declared.
Placeholder ==
    [flags |-> {}, kind |-> "UTILITY", dir |-> CurrentDirectory, of |-> None,
     sources |-> {}, deps |-> {}, links |-> {}, defs |-> {}]

EnsurePlaceholder(n) == IF Known(n) THEN targets[n] ELSE Placeholder

StoreTarget(n, record) ==
    /\ targets' = [x \in DOMAIN targets \cup {n} |-> IF x = n THEN record ELSE targets[x]]
    /\ UNCHANGED <<directories, directory_stack, build_steps, phase>>

DirectoryEnter(ev) ==
    /\ ev.kind = "DIRECTORY_ENTER"
    /\ directories' = Append(directories, [parent |-> CurrentDirectory, at |-> ev.at, defs |-> {}])
    /\ directory_stack' = Append(directory_stack, Len(directories) + 1)
    /\ UNCHANGED <<targets, build_steps, phase>>

DirectoryLeave(ev) ==
    /\ ev.kind = "DIRECTORY_LEAVE"
    /\ \/ /\ CurrentDirectory = NoDirectory \/ directories[CurrentDirectory].at # ev.at
          /\ BuilderError
       \/ /\ CurrentDirectory # NoDirectory
          /\ directories[CurrentDirectory].at = ev.at
          /\ directory_stack' = SubSeq(directory_stack, 1, Len(directory_stack) - 1)
          /\ UNCHANGED <<directories, targets, build_steps, phase>>

DirectoryPropertyMutate(ev) ==
    /\ ev.kind = "DIRECTORY_PROPERTY_MUTATE"
    /\ \/ CurrentDirectory = NoDirectory /\ BuilderError
       \/ /\ CurrentDirectory # NoDirectory
          /\ directories' = [directories EXCEPT ![CurrentDirectory].defs = @ \cup {ev.vis}]
          /\ UNCHANGED <<directory_stack, targets, build_steps, phase>>

\* Mutant: a declaration that resets every flag a property has set.
MutDeclareResets(ev) ==
    /\ ev.kind = "TARGET_DECLARE"
    /\ LET old      == EnsurePlaceholder(ev.name)
           refused  == CurrentDirectory = NoDirectory \/ "DECLARED" \in old.flags
       IN \/ refused /\ BuilderError
          \/ /\ ~refused
             /\ StoreTarget(ev.name, [old EXCEPT !.flags = ev.flags \cup {"DECLARED"},
                                                 !.kind = ev.type, !.dir = CurrentDirectory, !.of = ev.of])

TargetDeclare(ev) ==
    /\ ev.kind = "TARGET_DECLARE"
    /\ LET old      == EnsurePlaceholder(ev.name)
           refused  == CurrentDirectory = NoDirectory \/ "DECLARED" \in old.flags
           kept     == {"EXCLUDE_FROM_ALL", "RAW"} \cup
                       (IF "IMPORTED" \in ev.flags THEN {"IMPORTED_GLOBAL"} ELSE {})
       IN \/ refused /\ BuilderError
          \/ /\ ~refused
             /\ StoreTarget(ev.name, [old EXCEPT !.flags = (@ \cap kept) \cup ev.flags \cup {"DECLARED"},
                                                 !.kind = ev.type, !.dir = CurrentDirectory, !.of = ev.of])

\* The events that add one item to a target that must exist.
TargetItem(ev) ==
    LET old == targets[ev.name]
    IN  CASE ev.kind = "TARGET_ADD_SOURCE"          -> [old EXCEPT !.sources = @ \cup {ev.path}]
          [] ev.kind = "TARGET_ADD_DEPENDENCY"      -> [old EXCEPT !.deps = @ \cup {ev.dep}]
          [] ev.kind = "TARGET_LINK_LIBRARIES"      -> [old EXCEPT !.links = @ \cup {ev.item}]
          [] ev.kind = "TARGET_COMPILE_DEFINITIONS" -> [old EXCEPT !.defs = @ \cup {ev.vis}]

TargetAdd(ev) ==
    /\ ev.kind \in {"TARGET_ADD_SOURCE", "TARGET_ADD_DEPENDENCY", "TARGET_LINK_LIBRARIES",
                    "TARGET_COMPILE_DEFINITIONS"}
    /\ \/ ~Known(ev.name) /\ BuilderError
       \/ Known(ev.name) /\ StoreTarget(ev.name, TargetItem(ev))

\* Mutant: a property of a target that is not there, taken for an error.
MutPropSetStrict(ev) ==
    /\ ev.kind = "TARGET_PROP_SET"
    /\ \/ ~Known(ev.name) /\ BuilderError
       \/ /\ Known(ev.name)
          /\ StoreTarget(ev.name, [targets[ev.name] EXCEPT !.flags = @ \cup {ev.key}])

\* A property may come before the declaration: it makes the placeholder.
TargetPropSet(ev) ==
    /\ ev.kind = "TARGET_PROP_SET"
    /\ LET refused == ~Known(ev.name) /\ CurrentDirectory = NoDirectory
           raw     == IF ev.key = "EXCLUDE_FROM_ALL" THEN {} ELSE {"RAW"}
           cleared == IF ev.key = "IMPORTED" THEN {"IMPORTED", "IMPORTED_GLOBAL"} ELSE {ev.key}
       IN \/ refused /\ BuilderError
          \/ ~refused /\ ev.on
             /\ StoreTarget(ev.name, [EnsurePlaceholder(ev.name) EXCEPT !.flags = @ \cup {ev.key} \cup raw])
          \/ ~refused /\ ~ev.on
             /\ StoreTarget(ev.name, [EnsurePlaceholder(ev.name) EXCEPT !.flags = (@ \ cleared) \cup raw])

StepIds == DOMAIN build_steps
StepWithKey(k) == {s \in StepIds : build_steps[s].key = k}

BuildStepDeclare(ev) ==
    /\ ev.kind = "BUILD_STEP_DECLARE"
    /\ LET refused == CurrentDirectory = NoDirectory \/ StepWithKey(ev.key) # {}
       IN \/ refused /\ BuilderError
          \/ /\ ~refused
             /\ build_steps' = Append(build_steps,
                    [key |-> ev.key, kind |-> ev.type, owner |-> ev.owner, dir |-> CurrentDirectory,
                     outputs |-> {}, deps |-> {}, commands |-> {}])
             /\ UNCHANGED <<directories, directory_stack, targets, phase>>

BuildStepItem(ev, s) ==
    LET old == build_steps[s]
    IN  CASE ev.kind = "BUILD_STEP_ADD_OUTPUT"     -> [old EXCEPT !.outputs = @ \cup {ev.file}]
          [] ev.kind = "BUILD_STEP_ADD_DEPENDENCY" -> [old EXCEPT !.deps = @ \cup {ev.dep}]
          [] ev.kind = "BUILD_STEP_ADD_COMMAND"    -> [old EXCEPT !.commands = @ \cup {ev.name}]

BuildStepAdd(ev) ==
    /\ ev.kind \in {"BUILD_STEP_ADD_OUTPUT", "BUILD_STEP_ADD_DEPENDENCY", "BUILD_STEP_ADD_COMMAND"}
    /\ \/ StepWithKey(ev.key) = {} /\ BuilderError
       \/ \E s \in StepWithKey(ev.key) :
             /\ build_steps' = [build_steps EXCEPT ![s] = BuildStepItem(ev, s)]
             /\ UNCHANGED <<directories, directory_stack, targets, phase>>

\* bm_builder_apply_event. The error for a kind of event it has no case for is
\* left out: the evaluator's events all have one.
ApplyEvent(ev) ==
    /\ phase = "open"
    /\ \/ DirectoryEnter(ev)
       \/ DirectoryLeave(ev)
       \/ DirectoryPropertyMutate(ev)
       \/ TargetDeclare(ev)
       \/ TargetAdd(ev)
       \/ TargetPropSet(ev)
       \/ BuildStepDeclare(ev)
       \/ BuildStepAdd(ev)

\* bm_builder_finalize
Finalize ==
    /\ phase = "open"
    /\ phase' = IF directory_stack = <<>> THEN "finalized" ELSE "failed"
    /\ UNCHANGED draft

-----------------------------------------------------------------------------
(* Validation of the draft.                                                *)

\* bm_validate_directory_chain follows parents for at most as many steps as
\* there are directories.
Ancestor(d) ==
    LET up[k \in 0 .. Len(directories)] ==
            IF k = 0 THEN d
            ELSE IF up[k - 1] \in DOMAIN directories THEN directories[up[k - 1]].parent ELSE up[k - 1]
    IN  up

ChainEnds(d) == Ancestor(d)[Len(directories)] = NoDirectory

Structural ==
    /\ \A d \in DOMAIN directories : ChainEnds(d)
    /\ \A n \in DOMAIN targets : HasFlag(n, "DECLARED") /\ targets[n].dir \in DOMAIN directories
    /\ \A s \in StepIds : build_steps[s].dir \in DOMAIN directories

Resolution ==
    /\ \A n \in DOMAIN targets :
          /\ HasFlag(n, "ALIAS") => Known(targets[n].of)
          /\ targets[n].deps \subseteq DOMAIN targets
    /\ \A s \in StepIds : build_steps[s].owner = None \/ Known(build_steps[s].owner)

\* What the depth-first search of CycleCheck reports: nodes each of which
\* depends on one of them.
Cyclic(nodes, Succ(_)) ==
    \E S \in SUBSET nodes : S # {} /\ \A n \in S : Succ(n) \cap S # {}

ExplicitCycle == LET Deps(n) == targets[n].deps IN Cyclic(DOMAIN targets, Deps)

Semantic ==
    \A n \in DOMAIN targets :
        LET t == targets[n] IN
        /\ t.kind = "INTERFACE" => t.sources = {} /\ \A i \in t.links : i.vis # "PRIVATE"
        /\ "ALIAS" \in t.flags =>
               /\ t.sources = {} /\ t.deps = {} /\ t.links = {} /\ t.defs = {}
               /\ t.flags \cap {"EXCLUDE_FROM_ALL", "RAW"} = {}
        /\ "IMPORTED" \in t.flags => "EXCLUDE_FROM_ALL" \notin t.flags
        /\ "IMPORTED_GLOBAL" \in t.flags => "IMPORTED" \in t.flags

\* bm_validate_draft
Validate ==
    /\ phase = "finalized"
    /\ phase' = IF Structural /\ Resolution /\ ~ExplicitCycle /\ Semantic THEN "validated" ELSE "rejected"
    /\ UNCHANGED draft

-----------------------------------------------------------------------------
(* The frozen model: names resolved, and the queries the generator asks.   *)

\* What can be reached from a set in at most as many steps as there are targets.
Reachable(from, Succ(_)) ==
    LET within[k \in 0 .. Cardinality(DOMAIN targets)] ==
            IF k = 0 THEN from ELSE within[k - 1] \cup UNION {Succ(n) : n \in within[k - 1]}
    IN  within[Cardinality(DOMAIN targets)]

\* The target an alias stands for, through as many aliases as there can be:
\* the set is empty when the name leads nowhere.
ResolveAlias(n) ==
    LET Next(x) == IF HasFlag(x, "ALIAS") THEN {targets[x].of} \cap DOMAIN targets ELSE {}
    IN  {x \in Reachable({n} \cap DOMAIN targets, Next) : ~HasFlag(x, "ALIAS")}

ResolveAll(names) == UNION {ResolveAlias(n) : n \in names}

\* bm_promote_custom_target_kinds
Kind(n) ==
    IF /\ targets[n].kind = "UNKNOWN"
       /\ targets[n].flags \cap {"ALIAS", "IMPORTED"} = {}
       /\ \E s \in StepIds : build_steps[s].kind = "CUSTOM_TARGET" /\ build_steps[s].owner = n
    THEN "UTILITY"
    ELSE targets[n].kind

\* The targets whose link items are followed: the items that were references
\* to a target when they were recorded.
LinkedTargets(n) == ResolveAll({i.item : i \in {j \in targets[n].links : j.ref}})

\* Mutant: the usage of the targets that are linked, and not of those they link.
MutUsageOneLevel(n) == LinkedTargets(n) \ {n}

\* bm_collect_dependency_interface: every target whose usage n takes.
UsageClosure(n) == Reachable(LinkedTargets(n), LinkedTargets) \ {n}

\* The definitions target n is compiled with, by the target they come from.
EffectiveDefinitions(n) ==
    {<<n, v>> : v \in targets[n].defs} \cup
    {e \in (DOMAIN directories) \X Visibility :
        /\ e[2] \in directories[e[1]].defs
        /\ \E k \in 0 .. Len(directories) : Ancestor(targets[n].dir)[k] = e[1]} \cup
    {e \in UsageClosure(n) \X (Visibility \ {"PRIVATE"}) : e[2] \in targets[e[1]].defs}

\* bm_query_target_effective_link_items_common
LinkLine(n) ==
    targets[n].links \cup
    {i \in UNION {targets[d].links : d \in UsageClosure(n)} : i.vis # "PRIVATE"}

\* bm_query_target_link_item_target_id: an item that is no reference is looked up by its value.
LinkLineTargets(n) == ResolveAll({i.item : i \in LinkLine(n)})

IsOrderNode(n) ==
    /\ targets[n].flags \cap {"ALIAS", "IMPORTED"} = {}
    /\ Kind(n) \in HookedKind \cup {"OBJECT", "UTILITY"}

\* Mutant: the built targets that are named, with no look behind those that are not built.
MutPrerequisitesNamed(root, names) == {n \in ResolveAll(names) \ {root} : IsOrderNode(n)}

\* bm_query_collect_order_prerequisite_target: looks through what is not built.
OrderPrerequisites(root, names) ==
    LET Through(n) == IF IsOrderNode(n) THEN {} ELSE ResolveAll(targets[n].deps) \ {root}
    IN  {n \in Reachable(ResolveAll(names) \ {root}, Through) : IsOrderNode(n)}

EffectivePath(s, f) == <<"bin", directories[build_steps[s].dir].at, f>>
Produces(s, path) == \E f \in build_steps[s].outputs : EffectivePath(s, f) = path
Producers(path) == {s \in StepIds : Produces(s, path)}

OwnedSteps(n, kinds) == {s \in StepIds : build_steps[s].owner = n /\ build_steps[s].kind \in kinds}

\* bm_query_target_effective_build_order_view: the targets and the steps that
\* come before target n (an alias is viewed as its target).
TargetsBefore(n) ==
    OrderPrerequisites(n, targets[n].deps) \cup
    (IF IsOrderNode(n) /\ Kind(n) \in LinkedKind
     THEN OrderPrerequisites(n, LinkLineTargets(n)) ELSE {})

StepsBefore(n) ==
    IF ~IsOrderNode(n) THEN {}
    ELSE IF Kind(n) = "UTILITY" THEN OwnedSteps(n, {"CUSTOM_TARGET"})
    ELSE UNION {Producers(p) : p \in targets[n].sources} \cup
         (IF Kind(n) \in HookedKind THEN OwnedSteps(n, HookKind) ELSE {})

\* bm_query_build_step_effective_view: the targets and the steps a step needs.
TargetsNeeded(s) ==
    LET step == build_steps[s]
        ran  == {n \in ResolveAll(step.commands) : ~HasFlag(n, "IMPORTED") /\ Kind(n) = "EXECUTABLE"}
    IN  ResolveAll({d.item : d \in {x \in step.deps : x.ref}}) \cup (ran \ ResolveAll({step.owner}))

\* A step that depends on what it makes needs itself. The programs that a
\* generator expression in an argument names (2556-2563) are not modelled.
StepsNeeded(s) ==
    UNION {Producers(EffectivePath(s, d.item)) : d \in {x \in build_steps[s].deps : ~x.ref}}

\* The execution graph, with a step numbered by its id.
ExecutionNodes == DOMAIN targets \cup StepIds
ExecutionEdges(x) ==
    IF x \in StepIds THEN TargetsNeeded(x) \cup StepsNeeded(x)
    ELSE UNION {TargetsBefore(n) \cup StepsBefore(n) : n \in ResolveAlias(x)}

DuplicateProducers ==
    \E s, r \in StepIds : s # r /\ \E f \in build_steps[s].outputs : Produces(r, EffectivePath(s, f))

OwnerContracts ==
    \A s \in StepIds :
        LET owner == build_steps[s].owner
            Is(kinds) == Known(owner) /\ Kind(owner) \in kinds
                         /\ targets[owner].flags \cap {"ALIAS", "IMPORTED"} = {}
        IN  CASE build_steps[s].kind = "OUTPUT_RULE"   -> TRUE
              [] build_steps[s].kind = "CUSTOM_TARGET" -> Is({"UTILITY"})
              [] build_steps[s].kind \in HookKind      -> Is(HookedKind)

\* bm_freeze_draft: an alias that leads nowhere and an execution graph that
\* cannot be run leave no model.
Freeze ==
    /\ phase = "validated"
    /\ phase' = IF /\ \A n \in DOMAIN targets : ResolveAlias(n) # {}
                   /\ ~DuplicateProducers
                   /\ OwnerContracts
                   /\ ~Cyclic(ExecutionNodes, ExecutionEdges)
                THEN "frozen" ELSE "rejected"
    /\ UNCHANGED draft

-----------------------------------------------------------------------------
\* Any stream of events, and then the passes in the order the application runs them.
BuilderNext == (\E ev \in Event : ApplyEvent(ev)) \/ Finalize \/ Validate \/ Freeze

BuilderSpec == BuilderInit /\ [][BuilderNext]_bm_vars

Phase == {"open", "failed", "finalized", "validated", "rejected", "frozen"}

BuilderTypeOK ==
    /\ directories \in Seq(Directory)
    /\ directory_stack \in Seq(Nat)
    /\ DOMAIN targets \subseteq Name
    /\ \A n \in DOMAIN targets : targets[n] \in Target
    /\ build_steps \in Seq(Step)
    /\ phase \in Phase

\* A directory's parent was entered before it, so no chain of parents can loop
\* (the arrays of builder_directory.c).
ParentsFirst == \A d \in DOMAIN directories : directories[d].parent < d

\* The directories entered and not left are one chain from a root: what
\* DIRECTORY_LEAVE goes back to is the parent of what it leaves.
StackIsChain ==
    \A i \in DOMAIN directory_stack :
        /\ directory_stack[i] \in DOMAIN directories
        /\ directories[directory_stack[i]].parent = IF i = 1 THEN NoDirectory ELSE directory_stack[i - 1]

\* Every target, a placeholder too, and every step belongs to a directory there is.
OwnersExist ==
    /\ \A n \in DOMAIN targets : targets[n].dir \in DOMAIN directories
    /\ \A s \in DOMAIN build_steps : build_steps[s].dir \in DOMAIN directories

\* No two steps have a key in common, so an appended item has one step to go to.
KeysUnique == \A s, r \in DOMAIN build_steps : build_steps[s].key = build_steps[r].key => s = r

\* A model past the builder was handed over with every directory left: the
\* events of a stream nest.
HandedOverBalanced == phase \in {"finalized", "validated", "frozen"} => directory_stack = <<>>

\* What the builder keeps true of the draft whatever events it is given.
DraftSound == ParentsFirst /\ StackIsChain /\ OwnersExist /\ KeysUnique /\ HandedOverBalanced
=============================================================================
