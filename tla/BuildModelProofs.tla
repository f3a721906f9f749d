------------------------- MODULE BuildModelProofs ---------------------------
(***************************************************************************)
(* What the builder keeps true of the draft for every stream of events,    *)
(* whether an evaluator, a test or a tool has made it: the records keep    *)
(* their types, and the draft is sound as the validation expects it.       *)
(***************************************************************************)
EXTENDS BuildModel, NaturalsInduction, WellFoundedInduction, TLAPS

BuilderInv == BuilderTypeOK /\ DraftSound

-----------------------------------------------------------------------------
(* The events.                                                             *)

\* What the fields of an event hold, by the kind of the event.
EventFields(ev) ==
    /\ ev.kind \in {"DIRECTORY_ENTER", "DIRECTORY_LEAVE"} => ev.at \in Location
    /\ ev.kind \in {"DIRECTORY_PROPERTY_MUTATE", "TARGET_COMPILE_DEFINITIONS"} => ev.vis \in Visibility
    /\ ev.kind \in {"TARGET_DECLARE", "TARGET_ADD_SOURCE", "TARGET_ADD_DEPENDENCY", "TARGET_PROP_SET",
                    "TARGET_LINK_LIBRARIES", "TARGET_COMPILE_DEFINITIONS", "BUILD_STEP_ADD_COMMAND"}
          => ev.name \in Name
    /\ ev.kind = "TARGET_DECLARE" =>
          ev.type \in TargetKind /\ ev.flags \subseteq {"IMPORTED", "ALIAS"} /\ ev.of \in Name \cup {None}
    /\ ev.kind = "TARGET_ADD_SOURCE" => ev.path \in Path
    /\ ev.kind = "TARGET_ADD_DEPENDENCY" => ev.dep \in Name
    /\ ev.kind = "TARGET_PROP_SET" => ev.key \in PropertyKey
    /\ ev.kind = "TARGET_LINK_LIBRARIES" => ev.item \in LinkItem
    /\ ev.kind \in {"BUILD_STEP_DECLARE", "BUILD_STEP_ADD_OUTPUT", "BUILD_STEP_ADD_DEPENDENCY",
                    "BUILD_STEP_ADD_COMMAND"} => ev.key \in Nat
    /\ ev.kind = "BUILD_STEP_DECLARE" => ev.type \in StepKind /\ ev.owner \in Name \cup {None}
    /\ ev.kind = "BUILD_STEP_ADD_OUTPUT" => ev.file \in File
    /\ ev.kind = "BUILD_STEP_ADD_DEPENDENCY" => ev.dep \in StepDep

\* Every event the Event IR can carry has the fields of its kind (event_ir.h).
LEMMA EventTyped == ASSUME NEW ev \in Event PROVE EventFields(ev)
  <1>1. CASE ev \in {Enter(at) : at \in Location} \cup {Leave(at) : at \in Location}
    BY <1>1 DEF EventFields, Enter, Leave
  <1>2. CASE ev \in {DirectoryMutate(vis) : vis \in Visibility}
    BY <1>2 DEF EventFields, DirectoryMutate
  <1>3. CASE ev \in {Declare(n, type, flags, of) : n \in Name, type \in TargetKind \ {"UTILITY"},
                                        flags \in SUBSET {"IMPORTED", "ALIAS"}, of \in Name \cup {None}}
    <2>1. PICK n \in Name, type \in TargetKind \ {"UTILITY"}, flags \in SUBSET {"IMPORTED", "ALIAS"},
               of \in Name \cup {None} : ev = Declare(n, type, flags, of)
      BY <1>3
    <2>2. /\ ev.kind = "TARGET_DECLARE" /\ ev.name = n /\ ev.type = type /\ ev.flags = flags /\ ev.of = of
      BY <2>1 DEF Declare
    <2>3. ev.name \in Name /\ ev.type \in TargetKind /\ ev.of \in Name \cup {None}
      BY <2>2
    <2>4. ev.flags \subseteq {"IMPORTED", "ALIAS"}
      BY <2>2
    <2> QED
      BY <2>2, <2>3, <2>4 DEF EventFields
  <1>4. CASE ev \in {AddSource(n, path) : n \in Name, path \in Path}
    BY <1>4 DEF EventFields, AddSource
  <1>5. CASE ev \in {AddDependency(n, d) : n \in Name, d \in Name}
    BY <1>5 DEF EventFields, AddDependency
  <1>6. CASE ev \in {PropSet(n, key, on) : n \in Name, key \in PropertyKey, on \in BOOLEAN}
    BY <1>6 DEF EventFields, PropSet
  <1>7. CASE ev \in {LinkLibraries(n, item) : n \in Name, item \in LinkItem}
    BY <1>7 DEF EventFields, LinkLibraries
  <1>8. CASE ev \in {CompileDefinitions(n, vis) : n \in Name, vis \in Visibility}
    BY <1>8 DEF EventFields, CompileDefinitions
  <1>9. CASE ev \in {StepDeclare(k, type, owner) : k \in Nat, type \in StepKind, owner \in Name \cup {None}}
    BY <1>9 DEF EventFields, StepDeclare
  <1>10. CASE ev \in {StepOutput(k, f) : k \in Nat, f \in File}
    BY <1>10 DEF EventFields, StepOutput
  <1>11. CASE ev \in {StepDependency(k, d) : k \in Nat, d \in StepDep}
    BY <1>11 DEF EventFields, StepDependency
  <1>12. CASE ev \in {StepCommand(k, n) : k \in Nat, n \in Name}
    BY <1>12 DEF EventFields, StepCommand
  <1> QED
    BY <1>1, <1>2, <1>3, <1>4, <1>5, <1>6, <1>7, <1>8, <1>9, <1>10, <1>11, <1>12 DEF Event

-----------------------------------------------------------------------------
(* Helpers.                                                                *)

\* The current directory is none or one there is.
LEMMA CurrentExists ==
  ASSUME BuilderInv
  PROVE  /\ CurrentDirectory \in Nat
         /\ CurrentDirectory # NoDirectory => CurrentDirectory \in DOMAIN directories
         /\ CurrentDirectory < Len(directories) + 1
  BY DEF BuilderInv, BuilderTypeOK, DraftSound, StackIsChain, CurrentDirectory, NoDirectory

\* An error stops the builder and leaves the draft as it is.
LEMMA ErrorKeeps == ASSUME BuilderInv, BuilderError PROVE BuilderInv'
  BY DEF BuilderInv, BuilderTypeOK, DraftSound, ParentsFirst, StackIsChain, OwnersExist, KeysUnique,
         HandedOverBalanced, BuilderError, draft, Phase

\* Storing a record of a directory there is keeps the draft sound.
LEMMA StoreKeeps ==
  ASSUME BuilderInv, NEW n \in Name, NEW record \in Target,
         record.dir \in DOMAIN directories, StoreTarget(n, record)
  PROVE  BuilderInv'
  <1>1. /\ DOMAIN targets' = DOMAIN targets \cup {n}
        /\ \A x \in DOMAIN targets' : targets'[x] = IF x = n THEN record ELSE targets[x]
    BY DEF StoreTarget
  <1>2. UNCHANGED <<directories, directory_stack, build_steps, phase>>
    BY DEF StoreTarget
  <1>3. BuilderTypeOK'
    BY <1>1, <1>2 DEF BuilderInv, BuilderTypeOK
  <1>4. OwnersExist'
    BY <1>1, <1>2 DEF BuilderInv, DraftSound, OwnersExist
  <1> QED
    BY <1>2, <1>3, <1>4 DEF BuilderInv, DraftSound, ParentsFirst, StackIsChain, KeysUnique, HandedOverBalanced

\* The record of a name, or the placeholder made for it in a directory.
LEMMA PlaceholderTyped ==
  ASSUME BuilderInv, NEW n \in Name, Known(n) \/ CurrentDirectory # NoDirectory
  PROVE  EnsurePlaceholder(n) \in Target /\ EnsurePlaceholder(n).dir \in DOMAIN directories
  <1>1. CASE Known(n)
    BY <1>1 DEF EnsurePlaceholder, Known, BuilderInv, BuilderTypeOK, DraftSound, OwnersExist
  <1>2. CASE ~Known(n)
    BY <1>2, CurrentExists DEF EnsurePlaceholder, Placeholder, Target, TargetKind
  <1> QED
    BY <1>1, <1>2

-----------------------------------------------------------------------------
(* One lemma per action.                                                   *)

\* A directory is entered: it is a child of the current one and goes on the stack.
LEMMA EnterKeeps ==
  ASSUME BuilderInv, phase = "open", NEW ev, EventFields(ev), DirectoryEnter(ev)
  PROVE  BuilderInv'
  <1> DEFINE id == Len(directories) + 1
             new == [parent |-> CurrentDirectory, at |-> ev.at, defs |-> {}]
  <1>1. /\ directories \in Seq(Directory) /\ directory_stack \in Seq(Nat)
        /\ CurrentDirectory \in Nat /\ CurrentDirectory < id /\ id \in Nat
    BY CurrentExists DEF BuilderInv, BuilderTypeOK
  <1>2. new \in Directory
    BY <1>1 DEF DirectoryEnter, EventFields, Directory
  <1>3. /\ directories' = Append(directories, new)
        /\ directory_stack' = Append(directory_stack, id)
        /\ UNCHANGED <<targets, build_steps, phase>>
    BY DEF DirectoryEnter
  <1> HIDE DEF new
  <1>4. /\ DOMAIN directories' = 1 .. id /\ DOMAIN directories = 1 .. Len(directories)
        /\ \A d \in DOMAIN directories : directories'[d] = directories[d]
        /\ directories'[id] = new
    BY <1>1, <1>2, <1>3
  <1>5. new.parent = CurrentDirectory
    BY DEF new
  <1>6. BuilderTypeOK'
    BY <1>1, <1>2, <1>3 DEF BuilderInv, BuilderTypeOK
  <1>7. ParentsFirst'
    BY <1>1, <1>4, <1>5 DEF BuilderInv, DraftSound, ParentsFirst
  <1>8. StackIsChain'
    <2> SUFFICES ASSUME NEW i \in DOMAIN directory_stack'
                 PROVE  /\ directory_stack'[i] \in DOMAIN directories'
                        /\ directories'[directory_stack'[i]].parent
                             = IF i = 1 THEN NoDirectory ELSE directory_stack'[i - 1]
      BY DEF StackIsChain
    <2>1. CASE i \in DOMAIN directory_stack
      <3>1. directory_stack'[i] = directory_stack[i] /\ (i # 1 => directory_stack'[i - 1] = directory_stack[i - 1])
        BY <1>1, <1>3, <2>1
      <3> QED
        BY <1>1, <1>4, <2>1, <3>1 DEF BuilderInv, DraftSound, StackIsChain
    <2>2. CASE i \notin DOMAIN directory_stack
      <3>1. i = Len(directory_stack) + 1 /\ directory_stack'[i] = id
        BY <1>1, <1>3, <2>2
      <3>2. i # 1 => directory_stack'[i - 1] = directory_stack[Len(directory_stack)]
        BY <1>1, <1>3, <3>1
      <3> QED
        BY <1>1, <1>4, <1>5, <3>1, <3>2 DEF CurrentDirectory
    <2> QED
      BY <2>1, <2>2
  <1>9. OwnersExist'
    BY <1>1, <1>3, <1>4 DEF BuilderInv, DraftSound, OwnersExist
  <1> QED
    BY <1>3, <1>6, <1>7, <1>8, <1>9 DEF BuilderInv, DraftSound, KeysUnique, HandedOverBalanced

\* A directory is left, or the stack does not match and the builder fails.
LEMMA LeaveKeeps ==
  ASSUME BuilderInv, phase = "open", NEW ev, DirectoryLeave(ev)
  PROVE  BuilderInv'
  <1>1. CASE BuilderError
    BY <1>1, ErrorKeeps
  <1>2. CASE ~BuilderError
    <2>1. /\ CurrentDirectory # NoDirectory
          /\ directory_stack' = SubSeq(directory_stack, 1, Len(directory_stack) - 1)
          /\ UNCHANGED <<directories, targets, build_steps, phase>>
      BY <1>2 DEF DirectoryLeave
    <2>2. directory_stack \in Seq(Nat) /\ directory_stack # <<>>
      BY <2>1 DEF BuilderInv, BuilderTypeOK, CurrentDirectory
    <2>3. /\ directory_stack' \in Seq(Nat)
          /\ \A i \in DOMAIN directory_stack' : i \in DOMAIN directory_stack /\ directory_stack'[i] = directory_stack[i]
          /\ \A i \in DOMAIN directory_stack' : i # 1 => i - 1 \in DOMAIN directory_stack'
      BY <2>1, <2>2
    <2>4. StackIsChain'
      BY <2>1, <2>3 DEF BuilderInv, DraftSound, StackIsChain
    <2> QED
      BY <2>1, <2>3, <2>4 DEF BuilderInv, BuilderTypeOK, DraftSound, ParentsFirst, OwnersExist, KeysUnique,
                              HandedOverBalanced
  <1> QED
    BY <1>1, <1>2

\* A property of the current directory is changed.
LEMMA MutateKeeps ==
  ASSUME BuilderInv, phase = "open", NEW ev, EventFields(ev), DirectoryPropertyMutate(ev)
  PROVE  BuilderInv'
  <1>1. CASE BuilderError
    BY <1>1, ErrorKeeps
  <1>2. CASE ~BuilderError
    <2>1. /\ CurrentDirectory \in DOMAIN directories
          /\ directories' = [directories EXCEPT ![CurrentDirectory].defs = @ \cup {ev.vis}]
          /\ UNCHANGED <<directory_stack, targets, build_steps, phase>>
      BY <1>2, CurrentExists DEF DirectoryPropertyMutate
    <2>2. ev.vis \in Visibility
      BY DEF DirectoryPropertyMutate, EventFields
    <2>3. /\ directories' \in Seq(Directory) /\ DOMAIN directories' = DOMAIN directories
          /\ \A d \in DOMAIN directories : directories'[d].parent = directories[d].parent
      <3> DEFINE d == CurrentDirectory
                 old == directories[d]
                 new == [old EXCEPT !.defs = @ \cup {ev.vis}]
      <3>1. directories \in Seq(Directory) /\ d \in DOMAIN directories
        BY <2>1 DEF BuilderInv, BuilderTypeOK
      <3>2. old \in Directory
        BY <3>1
      <3>3. directories' = [directories EXCEPT ![d] = new]
        BY <2>1
      <3> HIDE DEF old
      <3>4. new \in Directory /\ new.parent = old.parent
        BY <2>2, <3>2 DEF Directory
      <3> HIDE DEF new, d
      <3> QED
        BY <3>1, <3>3, <3>4 DEF old
    <2>4. StackIsChain'
      BY <2>1, <2>3 DEF BuilderInv, DraftSound, StackIsChain
    <2> QED
      BY <2>1, <2>3, <2>4 DEF BuilderInv, BuilderTypeOK, DraftSound, ParentsFirst, OwnersExist, KeysUnique,
                              HandedOverBalanced
  <1> QED
    BY <1>1, <1>2

\* A target is declared, perhaps in the place of a placeholder.
LEMMA DeclareKeeps ==
  ASSUME BuilderInv, phase = "open", NEW ev, EventFields(ev), TargetDeclare(ev)
  PROVE  BuilderInv'
  <1>1. CASE BuilderError
    BY <1>1, ErrorKeeps
  <1>2. CASE ~BuilderError
    <2> DEFINE old == EnsurePlaceholder(ev.name)
               kept == {"EXCLUDE_FROM_ALL", "RAW"} \cup
                       (IF "IMPORTED" \in ev.flags THEN {"IMPORTED_GLOBAL"} ELSE {})
               record == [old EXCEPT !.flags = (@ \cap kept) \cup ev.flags \cup {"DECLARED"},
                                     !.kind = ev.type, !.dir = CurrentDirectory, !.of = ev.of]
    <2>1. CurrentDirectory # NoDirectory /\ StoreTarget(ev.name, record)
      BY <1>2 DEF TargetDeclare
    <2>2. /\ ev.name \in Name /\ ev.type \in TargetKind /\ ev.flags \subseteq Flag /\ ev.of \in Name \cup {None}
      BY DEF TargetDeclare, EventFields, Flag, PropertyKey
    <2>3. old \in Target /\ CurrentDirectory \in Nat /\ CurrentDirectory \in DOMAIN directories
      BY <2>1, <2>2, PlaceholderTyped, CurrentExists
    <2>4. record \in Target /\ record.dir = CurrentDirectory
      <3> HIDE DEF old
      <3>1. (old.flags \cap kept) \cup ev.flags \cup {"DECLARED"} \in SUBSET Flag
        BY <2>2, <2>3 DEF Target, Flag
      <3> QED
        BY <2>2, <2>3, <3>1 DEF Target
    <2> QED
      BY <2>1, <2>2, <2>3, <2>4, StoreKeeps
  <1> QED
    BY <1>1, <1>2

\* A known target gets one more item.
LEMMA AddKeeps ==
  ASSUME BuilderInv, phase = "open", NEW ev, EventFields(ev), TargetAdd(ev)
  PROVE  BuilderInv'
  <1>1. CASE BuilderError
    BY <1>1, ErrorKeeps
  <1>2. CASE ~BuilderError
    <2>1. Known(ev.name) /\ StoreTarget(ev.name, TargetItem(ev)) /\ ev.name \in Name
      BY <1>2 DEF TargetAdd, EventFields
    <2>2. targets[ev.name] \in Target /\ targets[ev.name].dir \in DOMAIN directories
      BY <2>1 DEF Known, BuilderInv, BuilderTypeOK, DraftSound, OwnersExist
    <2>3. TargetItem(ev) \in Target /\ TargetItem(ev).dir = targets[ev.name].dir
      <3> DEFINE old == targets[ev.name]
      <3>0. old \in Target
        BY <2>2
      <3> HIDE DEF old
      <3>1. CASE ev.kind = "TARGET_ADD_SOURCE"
        <4>1. TargetItem(ev) = [old EXCEPT !.sources = @ \cup {ev.path}] /\ ev.path \in Path
          BY <3>1 DEF TargetItem, EventFields, old
        <4> QED BY <3>0, <4>1 DEF Target, old
      <3>2. CASE ev.kind = "TARGET_ADD_DEPENDENCY"
        <4>1. TargetItem(ev) = [old EXCEPT !.deps = @ \cup {ev.dep}] /\ ev.dep \in Name
          BY <3>2 DEF TargetItem, EventFields, old
        <4> QED BY <3>0, <4>1 DEF Target, old
      <3>3. CASE ev.kind = "TARGET_LINK_LIBRARIES"
        <4>1. TargetItem(ev) = [old EXCEPT !.links = @ \cup {ev.item}] /\ ev.item \in LinkItem
          BY <3>3 DEF TargetItem, EventFields, old
        <4> QED BY <3>0, <4>1 DEF Target, old
      <3>4. CASE ev.kind = "TARGET_COMPILE_DEFINITIONS"
        <4>1. TargetItem(ev) = [old EXCEPT !.defs = @ \cup {ev.vis}] /\ ev.vis \in Visibility
          BY <3>4 DEF TargetItem, EventFields, old
        <4> QED BY <3>0, <4>1 DEF Target, old
      <3> QED
        BY <3>1, <3>2, <3>3, <3>4 DEF TargetAdd
    <2> QED
      BY <2>1, <2>2, <2>3, StoreKeeps
  <1> QED
    BY <1>1, <1>2

\* A property of a target is set, and a target not known yet gets a placeholder.
LEMMA PropSetKeeps ==
  ASSUME BuilderInv, phase = "open", NEW ev, EventFields(ev), TargetPropSet(ev)
  PROVE  BuilderInv'
  <1>1. CASE BuilderError
    BY <1>1, ErrorKeeps
  <1>2. CASE ~BuilderError
    <2> DEFINE old == EnsurePlaceholder(ev.name)
    <2>1. PICK flags : /\ flags \subseteq old.flags \cup {ev.key} \cup {"RAW"}
                       /\ Known(ev.name) \/ CurrentDirectory # NoDirectory
                       /\ StoreTarget(ev.name, [old EXCEPT !.flags = flags])
      <3> DEFINE raw == IF ev.key = "EXCLUDE_FROM_ALL" THEN {} ELSE {"RAW"}
                 cleared == IF ev.key = "IMPORTED" THEN {"IMPORTED", "IMPORTED_GLOBAL"} ELSE {ev.key}
      <3>1. Known(ev.name) \/ CurrentDirectory # NoDirectory
        BY <1>2 DEF TargetPropSet
      <3>2. \/ StoreTarget(ev.name, [old EXCEPT !.flags = old.flags \cup {ev.key} \cup raw])
            \/ StoreTarget(ev.name, [old EXCEPT !.flags = (old.flags \ cleared) \cup raw])
        BY <1>2 DEF TargetPropSet
      <3>3. /\ old.flags \cup {ev.key} \cup raw \subseteq old.flags \cup {ev.key} \cup {"RAW"}
            /\ (old.flags \ cleared) \cup raw \subseteq old.flags \cup {ev.key} \cup {"RAW"}
        OBVIOUS
      <3> HIDE DEF old, raw, cleared
      <3> QED
        BY <3>1, <3>2, <3>3
    <2>2. ev.name \in Name /\ ev.key \in PropertyKey
      BY DEF TargetPropSet, EventFields
    <2>3. old \in Target /\ old.dir \in DOMAIN directories
      BY <2>1, <2>2, PlaceholderTyped
    <2> HIDE DEF old
    <2>4. flags \in SUBSET Flag
      BY <2>1, <2>2, <2>3 DEF Target, Flag
    <2>5. [old EXCEPT !.flags = flags] \in Target /\ [old EXCEPT !.flags = flags].dir = old.dir
      BY <2>3, <2>4 DEF Target
    <2> QED
      BY <2>1, <2>2, <2>3, <2>5, StoreKeeps
  <1> QED
    BY <1>1, <1>2

\* A build step is declared under a new key.
LEMMA StepDeclareKeeps ==
  ASSUME BuilderInv, phase = "open", NEW ev, EventFields(ev), BuildStepDeclare(ev)
  PROVE  BuilderInv'
  <1>1. CASE BuilderError
    BY <1>1, ErrorKeeps
  <1>2. CASE ~BuilderError
    <2> DEFINE new == [key |-> ev.key, kind |-> ev.type, owner |-> ev.owner, dir |-> CurrentDirectory,
                       outputs |-> {}, deps |-> {}, commands |-> {}]
    <2>1. /\ CurrentDirectory # NoDirectory /\ StepWithKey(ev.key) = {}
          /\ build_steps' = Append(build_steps, new)
          /\ UNCHANGED <<directories, directory_stack, targets, phase>>
      BY <1>2 DEF BuildStepDeclare
    <2>2. ev.key \in Nat /\ ev.type \in StepKind /\ ev.owner \in Name \cup {None}
      BY DEF BuildStepDeclare, EventFields
    <2>3. CurrentDirectory \in Nat /\ CurrentDirectory \in DOMAIN directories
      BY <2>1, CurrentExists
    <2>4. new \in Step
      BY <2>2, <2>3 DEF Step
    <2>5. build_steps \in Seq(Step) /\ new.key = ev.key /\ new.dir = CurrentDirectory
      BY DEF BuilderInv, BuilderTypeOK
    <2>6. \A s \in DOMAIN build_steps : build_steps[s].key # ev.key
      BY <2>1 DEF StepWithKey, StepIds
    <2> HIDE DEF new
    <2>7. /\ build_steps' \in Seq(Step)
          /\ DOMAIN build_steps' = DOMAIN build_steps \cup {Len(build_steps) + 1}
          /\ Len(build_steps) + 1 \notin DOMAIN build_steps
          /\ \A s \in DOMAIN build_steps : build_steps'[s] = build_steps[s]
          /\ build_steps'[Len(build_steps) + 1] = new
      BY <2>1, <2>4, <2>5
    <2>8. KeysUnique'
      BY <2>5, <2>6, <2>7 DEF BuilderInv, DraftSound, KeysUnique
    <2>9. OwnersExist'
      BY <2>1, <2>3, <2>5, <2>7 DEF BuilderInv, DraftSound, OwnersExist
    <2> QED
      BY <2>1, <2>7, <2>8, <2>9 DEF BuilderInv, BuilderTypeOK, DraftSound, ParentsFirst, StackIsChain,
                                    HandedOverBalanced
  <1> QED
    BY <1>1, <1>2

\* A build step that is known gets one more item.
LEMMA StepAddKeeps ==
  ASSUME BuilderInv, phase = "open", NEW ev, EventFields(ev), BuildStepAdd(ev)
  PROVE  BuilderInv'
  <1>1. CASE BuilderError
    BY <1>1, ErrorKeeps
  <1>2. CASE ~BuilderError
    <2>1. PICK s \in StepWithKey(ev.key) :
             /\ build_steps' = [build_steps EXCEPT ![s] = BuildStepItem(ev, s)]
             /\ UNCHANGED <<directories, directory_stack, targets, phase>>
      BY <1>2 DEF BuildStepAdd
    <2>2. s \in DOMAIN build_steps
      BY <2>1 DEF StepWithKey, StepIds
    <2> DEFINE old == build_steps[s]
               item == BuildStepItem(ev, s)
    <2>3. build_steps \in Seq(Step) /\ old \in Step
      BY <2>2 DEF BuilderInv, BuilderTypeOK
    <2>4. item \in Step /\ item.key = old.key /\ item.dir = old.dir
      <3> HIDE DEF old
      <3>1. CASE ev.kind = "BUILD_STEP_ADD_OUTPUT"
        <4>1. item = [old EXCEPT !.outputs = @ \cup {ev.file}] /\ ev.file \in File
          BY <3>1 DEF BuildStepItem, EventFields, old
        <4> HIDE DEF item
        <4> QED BY <2>3, <4>1 DEF Step
      <3>2. CASE ev.kind = "BUILD_STEP_ADD_DEPENDENCY"
        <4>1. item = [old EXCEPT !.deps = @ \cup {ev.dep}] /\ ev.dep \in StepDep
          BY <3>2 DEF BuildStepItem, EventFields, old
        <4> HIDE DEF item
        <4> QED BY <2>3, <4>1 DEF Step
      <3>3. CASE ev.kind = "BUILD_STEP_ADD_COMMAND"
        <4>1. item = [old EXCEPT !.commands = @ \cup {ev.name}] /\ ev.name \in Name
          BY <3>3 DEF BuildStepItem, EventFields, old
        <4> HIDE DEF item
        <4> QED BY <2>3, <4>1 DEF Step
      <3> QED
        BY <3>1, <3>2, <3>3 DEF BuildStepAdd
    <2>5. build_steps' = [build_steps EXCEPT ![s] = item]
      BY <2>1
    <2> HIDE DEF item
    <2>6. /\ build_steps' \in Seq(Step) /\ DOMAIN build_steps' = DOMAIN build_steps
          /\ \A r \in DOMAIN build_steps : /\ build_steps'[r].key = build_steps[r].key
                                           /\ build_steps'[r].dir = build_steps[r].dir
      BY <2>2, <2>3, <2>4, <2>5
    <2>7. KeysUnique' /\ OwnersExist'
      BY <2>1, <2>6 DEF BuilderInv, DraftSound, KeysUnique, OwnersExist
    <2> QED
      BY <2>1, <2>6, <2>7 DEF BuilderInv, BuilderTypeOK, DraftSound, ParentsFirst, StackIsChain,
                              HandedOverBalanced
  <1> QED
    BY <1>1, <1>2

-----------------------------------------------------------------------------
(* The theorems.                                                           *)

\* The passes after the builder change nothing but the phase.
LEMMA PassesKeep == ASSUME BuilderInv, Finalize \/ Validate \/ Freeze PROVE BuilderInv'
  <1>1. UNCHANGED draft /\ phase' \in Phase
    BY DEF Finalize, Validate, Freeze, Phase
  <1>2. HandedOverBalanced'
    <2>1. CASE Finalize
      BY <2>1, <1>1 DEF Finalize, HandedOverBalanced, draft
    <2>2. CASE Validate
      BY <2>2, <1>1 DEF Validate, HandedOverBalanced, draft, BuilderInv, DraftSound
    <2>3. CASE Freeze
      BY <2>3, <1>1 DEF Freeze, HandedOverBalanced, draft, BuilderInv, DraftSound
    <2> QED
      BY <2>1, <2>2, <2>3
  <1> QED
    BY <1>1, <1>2 DEF draft, BuilderInv, BuilderTypeOK, DraftSound, ParentsFirst, StackIsChain, OwnersExist, KeysUnique

\* The draft keeps its types and its soundness under every event, of any
\* stream, and under the passes (build_model_builder.c).
THEOREM BuilderInvariant == BuilderSpec => []BuilderInv
  <1>1. BuilderInit => BuilderInv
    <2> SUFFICES ASSUME BuilderInit PROVE BuilderInv
      OBVIOUS
    <2>1. /\ DOMAIN targets = {} /\ directories = <<>> /\ directory_stack = <<>> /\ build_steps = <<>>
          /\ phase = "open"
      BY DEF BuilderInit
    <2>2. BuilderTypeOK
      BY <2>1 DEF BuilderTypeOK, Phase
    <2>3. DraftSound
      BY <2>1 DEF DraftSound, ParentsFirst, StackIsChain, OwnersExist, KeysUnique, HandedOverBalanced
    <2> QED
      BY <2>2, <2>3 DEF BuilderInv
  <1>2. BuilderInv /\ [BuilderNext]_bm_vars => BuilderInv'
    <2> SUFFICES ASSUME BuilderInv, [BuilderNext]_bm_vars PROVE BuilderInv'
      OBVIOUS
    <2>1. ASSUME NEW ev \in Event, ApplyEvent(ev) PROVE BuilderInv'
      <3>1. EventFields(ev) /\ phase = "open"
        BY <2>1, EventTyped DEF ApplyEvent
      <3>2. CASE DirectoryEnter(ev)
        BY <3>1, <3>2, EnterKeeps
      <3>3. CASE DirectoryLeave(ev)
        BY <3>1, <3>3, LeaveKeeps
      <3>4. CASE DirectoryPropertyMutate(ev)
        BY <3>1, <3>4, MutateKeeps
      <3>5. CASE TargetDeclare(ev)
        BY <3>1, <3>5, DeclareKeeps
      <3>6. CASE TargetAdd(ev)
        BY <3>1, <3>6, AddKeeps
      <3>7. CASE TargetPropSet(ev)
        BY <3>1, <3>7, PropSetKeeps
      <3>8. CASE BuildStepDeclare(ev)
        BY <3>1, <3>8, StepDeclareKeeps
      <3>9. CASE BuildStepAdd(ev)
        BY <3>1, <3>9, StepAddKeeps
      <3> QED
        BY <2>1, <3>2, <3>3, <3>4, <3>5, <3>6, <3>7, <3>8, <3>9 DEF ApplyEvent
    <2>2. CASE Finalize \/ Validate \/ Freeze
      BY <2>2, PassesKeep
    <2>3. CASE UNCHANGED bm_vars
      BY <2>3 DEF bm_vars, BuilderInv, BuilderTypeOK, DraftSound, ParentsFirst, StackIsChain, OwnersExist,
                  KeysUnique, HandedOverBalanced
    <2> QED
      BY <2>1, <2>2, <2>3 DEF BuilderNext
  <1> QED
    BY <1>1, <1>2, PTL DEF BuilderSpec

\* For every stream of events the records of the draft keep their types.
THEOREM BuilderTypeCorrect == BuilderSpec => []BuilderTypeOK
  <1>1. BuilderInv => BuilderTypeOK
    BY DEF BuilderInv
  <1> QED
    BY <1>1, BuilderInvariant, PTL

\* For every stream of events, those the builder refuses included: parents come
\* first, the directory stack is a chain of parents, owners exist, step keys
\* are unique, and what is handed to the validation is balanced.
THEOREM BuilderKeepsDraftSound == BuilderSpec => []DraftSound
  <1>1. BuilderInv => DraftSound
    BY DEF BuilderInv
  <1> QED
    BY <1>1, BuilderInvariant, PTL


-----------------------------------------------------------------------------
(* The chains of parents.                                                  *)

\* Induction up to n, from a least counterexample.
LEMMA UpTo ==
  ASSUME NEW n \in Nat, NEW S, 0 \in S, \A i \in 0 .. (n - 1) : i \in S => i + 1 \in S
  PROVE  \A i \in 0 .. n : i \in S
  <1> DEFINE R == {ss \in Nat \X Nat : ss[1] < ss[2]}
             Bad == {i \in 0 .. n : i \notin S}
  <1>1. IsWellFoundedOn(R, Nat)
    BY NatLessThanWellFounded DEF OpToRel
  <1>2. ASSUME Bad # {} PROVE FALSE
    <2>1. Bad \subseteq Nat
      OBVIOUS
    <2>2. PICK x \in Bad : \A y \in Bad : ~(<<y, x>> \in R)
      BY <1>1, <1>2, <2>1, WFMin
    <2>3. x \in 1 .. n
      BY <2>2
    <2>4. <<x - 1, x>> \in R
      BY <2>3
    <2>5. x - 1 \in S
      BY <2>2, <2>3, <2>4
    <2> QED
      BY <2>2, <2>3, <2>5
  <1> QED
    BY <1>2

\* The directory one goes up to.
Up(x) == IF x \in DOMAIN directories THEN directories[x].parent ELSE x

\* What bm_validate_directory_chain computes: the k-th directory above d.
LEMMA AncestorSteps ==
  ASSUME NEW d, Len(directories) \in Nat
  PROVE  /\ Ancestor(d)[0] = d
         /\ \A k \in 1 .. Len(directories) : Ancestor(d)[k] = Up(Ancestor(d)[k - 1])
  <1> DEFINE n == Len(directories)
             Is(f) == f = [k \in 0 .. n |->
                             IF k = 0 THEN d
                             ELSE IF f[k - 1] \in DOMAIN directories THEN directories[f[k - 1]].parent ELSE f[k - 1]]
             Part(f, m) == /\ f = [k \in 0 .. m |-> f[k]]
                           /\ f[0] = d
                           /\ \A k \in 1 .. m : f[k] = Up(f[k - 1])
             E == {m \in Nat : \E f : Part(f, m)}
  <1>1. n \in Nat
    OBVIOUS
  <1>2. 0 \in E
    <2> DEFINE g == [k \in 0 .. 0 |-> d]
    <2>1. Part(g, 0)
      OBVIOUS
    <2> HIDE DEF g, Part
    <2> QED
      BY <2>1
  <1>3. ASSUME NEW m \in 0 .. (n - 1), m \in E
        PROVE  m + 1 \in E
    <2>1. PICK f : Part(f, m)
      BY <1>3
    <2> DEFINE g == [k \in 0 .. (m + 1) |-> IF k = m + 1 THEN Up(f[m]) ELSE f[k]]
    <2>2. g = [k \in 0 .. (m + 1) |-> g[k]] /\ g[0] = d
      BY <1>1, <2>1
    <2>3. \A k \in 1 .. (m + 1) : g[k] = Up(g[k - 1])
      <3> TAKE k \in 1 .. (m + 1)
      <3>1. CASE k = m + 1
        <4>1. g[k - 1] = f[m] /\ g[k] = Up(f[m])
          BY <1>1, <3>1
        <4> HIDE DEF g
        <4> QED
          BY <4>1
      <3>2. CASE k # m + 1
        <4>1. k \in 1 .. m /\ g[k - 1] = f[k - 1] /\ g[k] = f[k]
          BY <1>1, <3>2
        <4> HIDE DEF g
        <4> QED
          BY <2>1, <4>1
      <3> QED
        BY <3>1, <3>2
    <2>4. Part(g, m + 1) /\ m + 1 \in Nat
      <3> HIDE DEF g
      <3> QED
        BY <1>1, <2>2, <2>3
    <2> HIDE DEF g, Part
    <2> QED
      BY <2>4
  <1>4. n \in E
    <2> HIDE DEF E, n
    <2>1. \A i \in 0 .. (n - 1) : i \in E => i + 1 \in E
      BY <1>3
    <2>2. \A i \in 0 .. n : i \in E
      BY <1>1, <1>2, <2>1, UpTo
    <2> QED
      BY <1>1, <2>2
  <1>5. \E f : Is(f)
    <2>1. PICK f : Part(f, n)
      BY <1>4
    <2>2. \A k \in 0 .. n :
            f[k] = IF k = 0 THEN d
                   ELSE IF f[k - 1] \in DOMAIN directories THEN directories[f[k - 1]].parent ELSE f[k - 1]
      BY <1>1, <2>1 DEF Up
    <2>3. f = [k \in 0 .. n |->
                 IF k = 0 THEN d
                 ELSE IF f[k - 1] \in DOMAIN directories THEN directories[f[k - 1]].parent ELSE f[k - 1]]
      BY <2>1, <2>2
    <2> QED
      BY <2>3
  <1> DEFINE up == CHOOSE f : Is(f)
  <1>6. Is(up)
    BY <1>5
  <1>7. Ancestor(d) = up
    BY DEF Ancestor
  <1> HIDE DEF up
  <1>8. up[0] = d
    BY <1>1, <1>6
  <1>9. ASSUME NEW k \in 1 .. n PROVE up[k] = Up(up[k - 1])
    <2>1. k \in 0 .. n /\ k # 0
      BY <1>1
    <2> HIDE DEF n
    <2> QED
      BY <1>6, <2>1 DEF Up
  <1> QED
    BY <1>7, <1>8, <1>9

\* Parents that come first make chains that end.
LEMMA ChainsEnd == ASSUME BuilderInv, NEW d \in DOMAIN directories PROVE ChainEnds(d)
  <1> DEFINE n == Len(directories)
             M == {k \in 0 .. n : Ancestor(d)[k] = 0 \/ (Ancestor(d)[k] \in 1 .. n /\ Ancestor(d)[k] + k <= n)}
  <1>1. /\ n \in Nat /\ DOMAIN directories = 1 .. n /\ d \in 1 .. n
        /\ \A x \in 1 .. n : directories[x] \in Directory /\ directories[x].parent < x
    BY DEF BuilderInv, BuilderTypeOK, DraftSound, ParentsFirst
  <1>2. Ancestor(d)[0] = d /\ \A k \in 1 .. n : Ancestor(d)[k] = Up(Ancestor(d)[k - 1])
    BY <1>1, AncestorSteps
  <1>3. 0 \in M
    BY <1>1, <1>2
  <1>4. ASSUME NEW k \in 0 .. (n - 1), k \in M PROVE k + 1 \in M
    <2> DEFINE x == Ancestor(d)[k]
    <2>1. Ancestor(d)[k + 1] = Up(x) /\ k + 1 \in 0 .. n
      <3>1. k + 1 \in 1 .. n /\ (k + 1) - 1 = k
        BY <1>1
      <3> HIDE DEF n
      <3> QED
        BY <1>2, <3>1
    <2>2. x = 0 \/ (x \in 1 .. n /\ x + k <= n)
      BY <1>4
    <2> HIDE DEF x
    <2>3. CASE x = 0
      <3>1. Up(x) = 0
        BY <1>1, <2>3 DEF Up
      <3> QED
        BY <2>1, <3>1
    <2>4. CASE x \in 1 .. n /\ x + k <= n
      <3>1. Up(x) = directories[x].parent /\ Up(x) \in Nat /\ Up(x) < x
        BY <1>1, <2>4 DEF Up, Directory
      <3>2. Up(x) = 0 \/ (Up(x) \in 1 .. n /\ Up(x) + (k + 1) <= n)
        BY <1>1, <2>4, <3>1
      <3> QED
        BY <2>1, <3>2
    <2> QED
      BY <2>2, <2>3, <2>4
  <1>5. n \in M
    <2> HIDE DEF M, n
    <2>1. \A k \in 0 .. (n - 1) : k \in M => k + 1 \in M
      BY <1>4
    <2>2. \A k \in 0 .. n : k \in M
      BY <1>1, <1>3, <2>1, UpTo
    <2> QED
      BY <1>1, <2>2
  <1> QED
    BY <1>1, <1>5 DEF ChainEnds, NoDirectory

\* For every stream of events the walk up the parents of a directory ends at
\* no directory within the steps the validation gives it, and what belongs to a
\* directory belongs to one there is: the structural pass can fail only for a
\* target that was never declared (bm_validate_structural_pass).
THEOREM StructureSound ==
  BuilderSpec => []((\A n \in DOMAIN targets : HasFlag(n, "DECLARED")) => Structural)
  <1>1. BuilderInv => ((\A n \in DOMAIN targets : HasFlag(n, "DECLARED")) => Structural)
    BY ChainsEnd DEF Structural, StepIds, BuilderInv, DraftSound, OwnersExist
  <1> QED
    BY <1>1, BuilderInvariant, PTL

=============================================================================
