--------------------------- MODULE ConfigureProofs ---------------------------
(***************************************************************************)
(* What holds of every configure run, for every script: the run is one of  *)
(* the builder's, and its draft is sound.  For scripts that keep clear of  *)
(* two defects of the command handlers (Careful), the builder accepts      *)
(* every stream without a diagnostic, and the model has the targets of the *)
(* script.                                                                 *)
(*                                                                         *)
(* The builder consumes the stream long after the commands have made their *)
(* checks.  The proof runs it ahead: a stream leads from one view of the   *)
(* draft to another, and the view it leads to is the evaluator's registry. *)
(***************************************************************************)
EXTENDS Configure, BuildModelProofs, FiniteSetTheorems, SequenceTheorems

-----------------------------------------------------------------------------
(* Types.                                                                  *)

\* The fields of a command, by its name.
CommandFields(c) ==
    /\ c.cmd \in {"add_executable", "add_library"} =>
          /\ c.name \in Name /\ c.type \in TargetKind \ {"UTILITY"}
          /\ c.options \in Options /\ c.source \in Path \cup {None}
    /\ c.cmd = "alias" => c.name \in Name /\ c.real \in Name
    /\ c.cmd = "add_custom_target" => c.name \in Name /\ c.all \in BOOLEAN
    /\ c.cmd \in {"add_custom_command", "append"} => c.file \in File
    /\ c.cmd = "hook" => c.name \in Name /\ c.stage \in HookKind
    /\ c.cmd \in {"add_custom_target", "add_custom_command", "append", "hook"} =>
          c.dep \in Name \cup File \cup {None} /\ c.program \in Name \cup {None}
    /\ c.cmd = "add_dependencies" => c.name \in Name /\ c.dep \in Name
    /\ c.cmd = "target_link_libraries" => c.name \in Name /\ c.vis \in Visibility /\ c.item \in Name
    /\ c.cmd = "target_compile_definitions" => c.name \in Name /\ c.vis \in Visibility
    /\ c.cmd = "add_subdirectory" => c.sub \in Location \ {Root}

\* A command that comes next is one of the script, with its fields.
LEMMA ComingTyped ==
  ASSUME script \in DOMAIN Scripts, NEW c \in Coming
  PROVE  /\ evaluation = "running" /\ line \in DOMAIN Scripts[script] /\ c \in Scripts[script][line]
         /\ CommandFields(c)
<1>1. evaluation = "running" /\ line \in DOMAIN Scripts[script] /\ c \in Scripts[script][line] BY DEF Coming
<1>2. Scripts[script] \in Seq(SUBSET Command) BY ScriptsAssumption
<1>3. Scripts[script][line] \subseteq Command BY <1>1, <1>2
<1>4. c \in Command BY <1>1, <1>3
<1>5. CommandFields(c)
  <2>1. CASE c \in [cmd : {"add_executable"}, name : Name, type : {"EXECUTABLE"}, options : Options, source : Path \cup {None}]
    BY <2>1 DEF CommandFields, TargetKind, LibraryKind
  <2>2. CASE c \in [cmd : {"add_library"}, name : Name, type : LibraryKind, options : Options, source : Path \cup {None}]
    BY <2>2 DEF CommandFields, TargetKind, LibraryKind
  <2>3. CASE c \in [cmd : {"alias"}, name : Name, real : Name] BY <2>3 DEF CommandFields
  <2>4. CASE c \in [cmd : {"add_custom_target"}, name : Name, all : BOOLEAN, dep : Name \cup File \cup {None},
                    program : Name \cup {None}]
    BY <2>4 DEF CommandFields
  <2>5. CASE c \in [cmd : {"add_custom_command", "append"}, file : File, dep : Name \cup File \cup {None},
                    program : Name \cup {None}]
    BY <2>5 DEF CommandFields
  <2>6. CASE c \in [cmd : {"hook"}, name : Name, stage : HookKind, dep : {None}, program : Name \cup {None}]
    BY <2>6 DEF CommandFields
  <2>7. CASE c \in [cmd : {"add_dependencies"}, name : Name, dep : Name] BY <2>7 DEF CommandFields
  <2>8. CASE c \in [cmd : {"target_link_libraries"}, name : Name, vis : Visibility, item : Name]
    BY <2>8 DEF CommandFields
  <2>9. CASE c \in [cmd : {"target_compile_definitions"}, name : Name, vis : Visibility] BY <2>9 DEF CommandFields
  <2>10. CASE c \in [cmd : {"add_compile_definitions", "end of CMakeLists.txt"}] BY <2>10 DEF CommandFields
  <2>11. CASE c \in [cmd : {"add_subdirectory"}, sub : Location \ {Root}] BY <2>11 DEF CommandFields
  <2> QED BY <1>4, <2>1, <2>2, <2>3, <2>4, <2>5, <2>6, <2>7, <2>8, <2>9, <2>10, <2>11 DEF Command
<1> QED BY <1>1, <1>5

TargetRecord == [type : TargetKind \ {"UTILITY"}, flags : SUBSET {"IMPORTED", "IMPORTED_GLOBAL", "ALIAS"},
                 of : Name \cup {None}, at : Location, index : Nat]

RegistryOK ==
    /\ IsFiniteSet(DOMAIN registry) /\ DOMAIN registry \subseteq Name
    /\ \A n \in DOMAIN registry : registry[n] \in TargetRecord

OutputsOK ==
    /\ next_key \in Nat \ {0}
    /\ DOMAIN outputs \subseteq Location \X File
    /\ \A p \in DOMAIN outputs : outputs[p] \in 1 .. (next_key - 1)

\* The evaluator's state keeps its types, and what it emits are events.
EvalTypes ==
    /\ script \in DOMAIN Scripts /\ line \in Nat
    /\ RegistryOK
    /\ OutputsOK
    /\ defined \subseteq Location /\ at \in Location
    /\ stream \in Seq(Event)
    /\ evaluation \in {"running", "clean", "error"}
    /\ \A e \in asked : e[1] \in Edge

-----------------------------------------------------------------------------
(* What the commands emit.                                                 *)

\* The constructors of events make events.
LEMMA DirectoryEvents ==
  /\ \A l \in Location : Enter(l) \in Event /\ Leave(l) \in Event
  /\ \A vis \in Visibility : DirectoryMutate(vis) \in Event
<1>1. \A l \in Location : Enter(l) \in Event /\ Leave(l) \in Event BY DEF Event
<1>2. \A vis \in Visibility : DirectoryMutate(vis) \in Event BY DEF Event
<1> QED BY <1>1, <1>2

\* The same, of targets ...
LEMMA TargetEventsTyped ==
  /\ \A n \in Name, type \in TargetKind \ {"UTILITY"}, flags \in SUBSET {"IMPORTED", "ALIAS"}, of \in Name \cup {None} :
        Declare(n, type, flags, of) \in Event
  /\ \A n \in Name, path \in Path : AddSource(n, path) \in Event
  /\ \A n \in Name, d \in Name : AddDependency(n, d) \in Event
  /\ \A n \in Name, key \in PropertyKey, on \in BOOLEAN : PropSet(n, key, on) \in Event
  /\ \A n \in Name, item \in LinkItem : LinkLibraries(n, item) \in Event
  /\ \A n \in Name, vis \in Visibility : CompileDefinitions(n, vis) \in Event
<1>1. \A n \in Name, type \in TargetKind \ {"UTILITY"}, flags \in SUBSET {"IMPORTED", "ALIAS"}, of \in Name \cup {None} :
        Declare(n, type, flags, of) \in Event
  BY DEF Event
<1>2. \A n \in Name, path \in Path : AddSource(n, path) \in Event BY DEF Event
<1>3. \A n \in Name, d \in Name : AddDependency(n, d) \in Event BY DEF Event
<1>4. \A n \in Name, key \in PropertyKey, on \in BOOLEAN : PropSet(n, key, on) \in Event BY DEF Event
<1>5. \A n \in Name, item \in LinkItem : LinkLibraries(n, item) \in Event BY DEF Event
<1>6. \A n \in Name, vis \in Visibility : CompileDefinitions(n, vis) \in Event BY DEF Event
<1> QED BY <1>1, <1>2, <1>3, <1>4, <1>5, <1>6

\* ... and of steps.
LEMMA StepEventsTyped ==
  /\ \A k \in Nat, type \in StepKind, owner \in Name \cup {None} : StepDeclare(k, type, owner) \in Event
  /\ \A k \in Nat, f \in File : StepOutput(k, f) \in Event
  /\ \A k \in Nat, d \in StepDep : StepDependency(k, d) \in Event
  /\ \A k \in Nat, n \in Name : StepCommand(k, n) \in Event
<1>1. \A k \in Nat, type \in StepKind, owner \in Name \cup {None} : StepDeclare(k, type, owner) \in Event BY DEF Event
<1>2. \A k \in Nat, f \in File : StepOutput(k, f) \in Event BY DEF Event
<1>3. \A k \in Nat, d \in StepDep : StepDependency(k, d) \in Event BY DEF Event
<1>4. \A k \in Nat, n \in Name : StepCommand(k, n) \in Event BY DEF Event
<1> QED BY <1>1, <1>2, <1>3, <1>4
\* What a step needs and runs.
LEMMA StepEventsSeq ==
  ASSUME NEW k \in Nat, NEW c, c.dep \in Name \cup File \cup {None}, c.program \in Name \cup {None}, NEW known
  PROVE  StepEvents(k, c, known) \in Seq(Event)
<1> DEFINE dep == [item |-> c.dep, ref |-> c.dep \in known]
<1>1. c.dep # None => dep \in StepDep
  <2>1. (c.dep \in known) \in BOOLEAN OBVIOUS
  <2> QED BY <2>1 DEF StepDep
<1> HIDE DEF dep
<1>2. Only(c.dep # None, <<StepDependency(k, dep)>>) \in Seq(Event) BY <1>1, StepEventsTyped DEF Only
<1>3. Only(c.program # None, <<StepCommand(k, c.program)>>) \in Seq(Event) BY StepEventsTyped DEF Only
<1> QED BY <1>2, <1>3 DEF StepEvents, dep

\* What add_executable and add_library emit.
LEMMA TargetEventsSeq ==
  ASSUME NEW c, c.name \in Name, c.type \in TargetKind \ {"UTILITY"}, c.source \in Path \cup {None}
  PROVE  TargetEvents(c) \in Seq(Event)
<1>1. \A key \in PropertyKey : PropSet(c.name, key, TRUE) \in Event
  <2>1. TRUE \in BOOLEAN OBVIOUS
  <2> QED BY <2>1, TargetEventsTyped, Zenon
<1>0. \A x \in Event : \A b \in BOOLEAN : <<x>> \in Seq(Event) /\ Only(b, <<x>>) \in Seq(Event) BY DEF Only
<1>2. <<PropSet(c.name, "IMPORTED", TRUE)>> \in Seq(Event) BY <1>0, <1>1, Zenon DEF PropertyKey
<1>3. Only(GlobalDefinition, <<CompileDefinitions(c.name, "PRIVATE")>>) \in Seq(Event)
  BY TargetEventsTyped DEF Only, Visibility
<1>4. \A flags \in SUBSET {"IMPORTED", "ALIAS"} : <<Declare(c.name, c.type, flags, None)>> \in Seq(Event)
  BY TargetEventsTyped
<1>5. Only(c.type # "INTERFACE" /\ c.source # None, <<AddSource(c.name, c.source)>>) \in Seq(Event)
  BY TargetEventsTyped DEF Only
<1>6. Only("IMPORTED_GLOBAL" \in c.options, <<PropSet(c.name, "IMPORTED_GLOBAL", TRUE)>>) \in Seq(Event)
  <2>1. PropSet(c.name, "IMPORTED_GLOBAL", TRUE) \in Event BY <1>1, Zenon DEF PropertyKey
  <2>2. ("IMPORTED_GLOBAL" \in c.options) \in BOOLEAN OBVIOUS
  <2> QED BY <1>0, <2>1, <2>2, Zenon
<1>7. Only("EXCLUDE_FROM_ALL" \in c.options, <<PropSet(c.name, "EXCLUDE_FROM_ALL", TRUE)>>) \in Seq(Event)
  <2>1. PropSet(c.name, "EXCLUDE_FROM_ALL", TRUE) \in Event BY <1>1, Zenon DEF PropertyKey
  <2>2. ("EXCLUDE_FROM_ALL" \in c.options) \in BOOLEAN OBVIOUS
  <2> QED BY <1>0, <2>1, <2>2, Zenon
<1>8. <<Declare(c.name, c.type, {"IMPORTED"}, None)>> \in Seq(Event) /\ <<Declare(c.name, c.type, {}, None)>> \in Seq(Event)
  BY <1>4
<1>9. \A q1, q2, q3 \in Seq(Event) : q1 \o q2 \o q3 \in Seq(Event) OBVIOUS
<1>10. \A q1, q2, q3, q4 \in Seq(Event) : q1 \o q2 \o q3 \o q4 \in Seq(Event) OBVIOUS
<1>11. CASE "IMPORTED" \in c.options BY <1>2, <1>6, <1>8, <1>9, <1>11 DEF TargetEvents
<1>12. CASE "IMPORTED" \notin c.options BY <1>3, <1>5, <1>7, <1>8, <1>10, <1>12 DEF TargetEvents
<1> QED BY <1>11, <1>12

\* Registering a target.
LEMMA RegisterTyped ==
  ASSUME RegistryOK, at \in Location, NEW n \in Name, NEW type \in TargetKind \ {"UTILITY"},
         NEW flags \in SUBSET {"IMPORTED", "IMPORTED_GLOBAL", "ALIAS"}, NEW of \in Name \cup {None},
         Register(n, type, flags, of)
  PROVE  /\ RegistryOK' /\ DOMAIN registry' = DOMAIN registry \cup {n}
         /\ \A x \in DOMAIN registry : registry'[x] = registry[x]
         /\ ~TargetKnown(n) => /\ registry'[n].type = type /\ registry'[n].flags = flags
                               /\ registry'[n].of = of /\ registry'[n].at = at
<1> DEFINE record == [type |-> type, flags |-> flags, of |-> of, at |-> at, index |-> Cardinality(DOMAIN registry)]
<1>1. registry' = [x \in DOMAIN registry \cup {n} |-> IF TargetKnown(x) THEN registry[x] ELSE record]
  BY DEF Register
<1>2. Cardinality(DOMAIN registry) \in Nat /\ IsFiniteSet(DOMAIN registry \cup {n})
  BY FS_CardinalityType, FS_AddElement DEF RegistryOK
<1>3. record \in TargetRecord BY <1>2 DEF TargetRecord
<1>4. record.type = type /\ record.flags = flags /\ record.of = of /\ record.at = at OBVIOUS
<1> HIDE DEF record
<1>5. DOMAIN registry' = DOMAIN registry \cup {n} /\ \A x \in DOMAIN registry : registry'[x] = registry[x]
  BY <1>1 DEF TargetKnown
<1>6. ~TargetKnown(n) => registry'[n] = record BY <1>1
<1>7. \A x \in DOMAIN registry' : registry'[x] \in TargetRecord
  BY <1>1, <1>3 DEF TargetKnown, RegistryOK
<1> QED BY <1>2, <1>4, <1>5, <1>6, <1>7 DEF RegistryOK

\* A command that fails leaves all but the stream.
LEMMA DiagnoseTypes ==
  ASSUME EvalTypes, NEW c, NEW cmd, NEW wrong, Diagnose(c, cmd, wrong)
  PROVE  EvalTypes' /\ UNCHANGED bm_vars
BY DEF Diagnose, EvalTypes, RegistryOK, OutputsOK

\* A command that runs: what it leaves to show.
LEMMA RunTypes ==
  ASSUME EvalTypes, NEW c, NEW cmd, Run(c, cmd), RegistryOK', OutputsOK', defined' \subseteq Location,
         at' \in Location, NEW events \in Seq(Event), Emit(events), \A e \in asked' : e[1] \in Edge
  PROVE  EvalTypes' /\ UNCHANGED bm_vars
BY DEF Run, Emit, EvalTypes

\* The history of a step's needs.
LEMMA AskTyped ==
  ASSUME EvalTypes, NEW k, NEW c, NEW known, AskStep(k, c, known)
  PROVE  \A e \in asked' : e[1] \in Edge
BY DEF EvalTypes, AskStep, Edge

\* The commands that declare targets keep the types.
LEMMA DeclaringTypes ==
  ASSUME EvalTypes, NEW c \in Coming,
         AddExecutable(c) \/ AddLibrary(c) \/ AddAlias(c) \/ AddCustomTarget(c)
  PROVE  EvalTypes' /\ UNCHANGED bm_vars
<1>0. CommandFields(c) /\ at \in Location /\ RegistryOK /\ OutputsOK BY ComingTyped DEF EvalTypes
<1>1. ASSUME NEW cmd \in {"add_executable", "add_library"}, AddTarget(c, cmd) PROVE EvalTypes' /\ UNCHANGED bm_vars
  <2>1. CASE Diagnose(c, cmd, TargetKnown(c.name)) BY <2>1, DiagnoseTypes
  <2>2. CASE ~Diagnose(c, cmd, TargetKnown(c.name))
    <3>1. /\ Run(c, cmd) /\ Register(c.name, c.type, c.options \cap {"IMPORTED", "IMPORTED_GLOBAL"}, None)
          /\ Emit(TargetEvents(c)) /\ UNCHANGED <<defined, outputs, next_key, at, asked>>
      BY <1>1, <2>2 DEF AddTarget
    <3>2. c.name \in Name /\ c.type \in TargetKind \ {"UTILITY"} /\ c.source \in Path \cup {None}
      BY <1>0, <1>1, <3>1 DEF Run, CommandFields
    <3>3. RegistryOK' BY <1>0, <3>1, <3>2, RegisterTyped
    <3>4. TargetEvents(c) \in Seq(Event) BY <3>2, TargetEventsSeq
    <3> QED BY <3>1, <3>3, <3>4, RunTypes DEF EvalTypes, OutputsOK
  <2> QED BY <2>1, <2>2
<1>2. CASE AddAlias(c)
  <2> DEFINE wrong == TargetKnown(c.name) \/ ~TargetKnown(c.real) \/ AliasKnown(c.real)
  <2>1. CASE Diagnose(c, "alias", wrong) BY <2>1, DiagnoseTypes
  <2>2. CASE ~Diagnose(c, "alias", wrong)
    <3>1. /\ Run(c, "alias") /\ TargetKnown(c.real) /\ Register(c.name, registry[c.real].type, {"ALIAS"}, c.real)
          /\ Emit(<<Declare(c.name, registry[c.real].type, {"ALIAS"}, c.real)>>)
          /\ UNCHANGED <<defined, outputs, next_key, at, asked>>
      BY <1>2, <2>2 DEF AddAlias
    <3>2. c.name \in Name /\ c.real \in Name BY <1>0, <3>1 DEF Run, CommandFields
    <3>3. registry[c.real].type \in TargetKind \ {"UTILITY"}
      BY <1>0, <3>1 DEF RegistryOK, TargetKnown, TargetRecord
    <3>4. RegistryOK' BY <1>0, <3>1, <3>2, <3>3, RegisterTyped
    <3>5. <<Declare(c.name, registry[c.real].type, {"ALIAS"}, c.real)>> \in Seq(Event)
      BY <3>2, <3>3, TargetEventsTyped
    <3> QED BY <3>1, <3>4, <3>5, RunTypes DEF EvalTypes, OutputsOK
  <2> QED BY <2>1, <2>2
<1>3. CASE AddCustomTarget(c)
  <2> DEFINE known == DOMAIN registry \cup {c.name}
             first == <<Declare(c.name, "UNKNOWN", {}, None), PropSet(c.name, "EXCLUDE_FROM_ALL", ~c.all),
                        StepDeclare(next_key, "CUSTOM_TARGET", c.name)>>
  <2>1. /\ Run(c, "add_custom_target") /\ Register(c.name, "UNKNOWN", {}, None)
        /\ Emit(first \o StepEvents(next_key, c, known)) /\ next_key' = next_key + 1
        /\ AskStep(next_key, c, known) /\ UNCHANGED <<defined, outputs, at>>
    BY <1>3 DEF AddCustomTarget
  <2>2. /\ c.name \in Name /\ c.all \in BOOLEAN /\ c.dep \in Name \cup File \cup {None} /\ c.program \in Name \cup {None}
        /\ next_key \in Nat
    BY <1>0, <2>1 DEF Run, CommandFields, OutputsOK
  <2>3. "UNKNOWN" \in TargetKind \ {"UTILITY"} BY DEF TargetKind, LibraryKind
  <2>4. RegistryOK' BY <1>0, <2>1, <2>2, <2>3, RegisterTyped
  <2>5. first \in Seq(Event)
    <3>1. Declare(c.name, "UNKNOWN", {}, None) \in Event BY <2>2, <2>3, TargetEventsTyped
    <3>2. PropSet(c.name, "EXCLUDE_FROM_ALL", ~c.all) \in Event BY <2>2, TargetEventsTyped DEF PropertyKey
    <3>3. StepDeclare(next_key, "CUSTOM_TARGET", c.name) \in Event BY <2>2, StepEventsTyped DEF StepKind
    <3> QED BY <3>1, <3>2, <3>3
  <2>6. StepEvents(next_key, c, known) \in Seq(Event) BY <2>2, StepEventsSeq
  <2> HIDE DEF first
  <2>7. first \o StepEvents(next_key, c, known) \in Seq(Event) BY <2>5, <2>6
  <2>8. OutputsOK' BY <1>0, <2>1 DEF OutputsOK
  <2>9. \A e \in asked' : e[1] \in Edge BY <2>1, AskTyped
  <2> QED BY <2>1, <2>4, <2>7, <2>8, <2>9, RunTypes DEF EvalTypes
<1> QED BY <1>1, <1>2, <1>3 DEF AddExecutable, AddLibrary


\* The custom commands.
LEMMA StepTypes ==
  ASSUME EvalTypes, NEW c \in Coming,
         AddCustomCommandOutput(c) \/ AddCustomCommandAppend(c) \/ AddCustomCommandTarget(c)
  PROVE  EvalTypes' /\ UNCHANGED bm_vars
<1>0. CommandFields(c) /\ at \in Location /\ RegistryOK /\ OutputsOK /\ next_key \in Nat \ {0}
  BY ComingTyped DEF EvalTypes, OutputsOK
<1>1. CASE AddCustomCommandOutput(c)
  <2> DEFINE first == <<StepDeclare(next_key, "OUTPUT_RULE", None), StepOutput(next_key, c.file)>>
             rest == StepEvents(next_key, c, DOMAIN registry)
  <2>1. /\ Run(c, "add_custom_command") /\ Emit(first \o rest) /\ next_key' = next_key + 1
        /\ outputs' = [p \in DOMAIN outputs \cup {<<at, c.file>>} |-> IF p \in DOMAIN outputs THEN outputs[p] ELSE next_key]
        /\ AskStep(next_key, c, DOMAIN registry) /\ UNCHANGED <<registry, defined, at>>
    BY <1>1 DEF AddCustomCommandOutput
  <2>2. c.file \in File /\ c.dep \in Name \cup File \cup {None} /\ c.program \in Name \cup {None}
    BY <1>0, <2>1 DEF Run, CommandFields
  <2>3. StepDeclare(next_key, "OUTPUT_RULE", None) \in Event /\ StepOutput(next_key, c.file) \in Event
    BY <1>0, <2>2, StepEventsTyped DEF StepKind
  <2>4. first \in Seq(Event) BY <2>3
  <2>5. rest \in Seq(Event) BY <1>0, <2>2, StepEventsSeq
  <2> HIDE DEF first, rest
  <2>6. first \o rest \in Seq(Event) BY <2>4, <2>5
  <2>7. OutputsOK'
    <3>1. DOMAIN outputs' \subseteq Location \X File BY <1>0, <2>1, <2>2 DEF OutputsOK
    <3>2. ASSUME NEW p \in DOMAIN outputs' PROVE outputs'[p] \in 1 .. (next_key' - 1)
      <4>1. CASE p \in DOMAIN outputs
        <5>1. outputs'[p] = outputs[p] /\ outputs[p] \in 1 .. (next_key - 1) BY <1>0, <2>1, <4>1 DEF OutputsOK
        <5> QED BY <1>0, <2>1, <5>1
      <4>2. CASE p \notin DOMAIN outputs
        <5>1. outputs'[p] = next_key BY <2>1, <3>2, <4>2
        <5> QED BY <1>0, <2>1, <5>1
      <4> QED BY <4>1, <4>2
    <3>3. next_key' \in Nat \ {0} BY <1>0, <2>1
    <3> QED BY <3>1, <3>2, <3>3 DEF OutputsOK
  <2>8. RegistryOK' BY <1>0, <2>1 DEF RegistryOK
  <2>9. \A e \in asked' : e[1] \in Edge BY <2>1, AskTyped
  <2> QED BY <2>1, <2>6, <2>7, <2>8, <2>9, RunTypes DEF EvalTypes
<1>2. CASE AddCustomCommandAppend(c)
  <2>1. CASE Diagnose(c, "append", <<at, c.file>> \notin DOMAIN outputs) BY <2>1, DiagnoseTypes
  <2>2. CASE ~Diagnose(c, "append", <<at, c.file>> \notin DOMAIN outputs)
    <3> DEFINE k == outputs[<<at, c.file>>]
               rest == StepEvents(k, c, DOMAIN registry)
    <3>1. /\ Run(c, "append") /\ <<at, c.file>> \in DOMAIN outputs /\ Emit(rest) /\ AskStep(k, c, DOMAIN registry)
          /\ UNCHANGED <<registry, defined, outputs, next_key, at>>
      BY <1>2, <2>2 DEF AddCustomCommandAppend
    <3>2. c.dep \in Name \cup File \cup {None} /\ c.program \in Name \cup {None}
      BY <1>0, <3>1 DEF Run, CommandFields
    <3>3. k \in 1 .. (next_key - 1) BY <1>0, <3>1 DEF OutputsOK
    <3>4. k \in Nat BY <1>0, <3>3
    <3> HIDE DEF k
    <3>5. rest \in Seq(Event) BY <3>2, <3>4, StepEventsSeq
    <3> HIDE DEF rest
    <3>6. RegistryOK' /\ OutputsOK' BY <1>0, <3>1 DEF RegistryOK, OutputsOK
    <3>7. \A e \in asked' : e[1] \in Edge BY <3>1, AskTyped
    <3> QED BY <3>1, <3>5, <3>6, <3>7, RunTypes DEF EvalTypes
  <2> QED BY <2>1, <2>2
<1>3. CASE AddCustomCommandTarget(c)
  <2> DEFINE wrong == ~TargetKnown(c.name) \/ AliasKnown(c.name)
  <2>1. CASE Diagnose(c, "hook", wrong) BY <2>1, DiagnoseTypes
  <2>2. CASE ~Diagnose(c, "hook", wrong)
    <3> DEFINE first == <<StepDeclare(next_key, c.stage, c.name)>>
               rest == StepEvents(next_key, c, DOMAIN registry)
    <3>1. /\ Run(c, "hook") /\ Emit(first \o rest) /\ next_key' = next_key + 1
          /\ AskStep(next_key, c, DOMAIN registry) /\ UNCHANGED <<registry, defined, outputs, at>>
      BY <1>3, <2>2 DEF AddCustomCommandTarget
    <3>2. /\ c.name \in Name /\ c.stage \in HookKind
          /\ c.dep \in Name \cup File \cup {None} /\ c.program \in Name \cup {None}
      BY <1>0, <3>1 DEF Run, CommandFields
    <3>3. StepDeclare(next_key, c.stage, c.name) \in Event BY <1>0, <3>2, StepEventsTyped DEF StepKind
    <3>4. first \in Seq(Event) BY <3>3
    <3>5. rest \in Seq(Event) BY <1>0, <3>2, StepEventsSeq
    <3> HIDE DEF first, rest
    <3>6. first \o rest \in Seq(Event) BY <3>4, <3>5
    <3>7. RegistryOK' /\ OutputsOK' BY <1>0, <3>1 DEF RegistryOK, OutputsOK
    <3>8. \A e \in asked' : e[1] \in Edge BY <3>1, AskTyped
    <3> QED BY <3>1, <3>6, <3>7, <3>8, RunTypes DEF EvalTypes
  <2> QED BY <2>1, <2>2
<1> QED BY <1>1, <1>2, <1>3

\* The order of the registry is a sequence of its targets.
LEMMA KnownTyped ==
  ASSUME RegistryOK, NEW known \in KnownTargets
  PROVE  \E k \in Nat : /\ DOMAIN known = 1 .. k
                        /\ \A i \in 1 .. k : known[i] \in DOMAIN registry
<1> DEFINE real == {n \in DOMAIN registry : ~AliasKnown(n)}
<1>1. known \in [1 .. Cardinality(real) -> real] BY DEF KnownTargets
<1>2. Cardinality(real) \in Nat
  <2>1. real \subseteq DOMAIN registry OBVIOUS
  <2> HIDE DEF real
  <2> QED BY <2>1, FS_Subset, FS_CardinalityType DEF RegistryOK
<1> QED BY <1>1, <1>2

\* The commands that change targets and directories.
LEMMA ChangingTypes ==
  ASSUME EvalTypes, NEW c \in Coming,
         \/ AddDependencies(c) \/ TargetLinkLibraries(c) \/ TargetCompileDefinitions(c)
         \/ AddCompileDefinitions(c) \/ AddSubdirectory(c) \/ EndSubdirectory(c)
  PROVE  EvalTypes' /\ UNCHANGED bm_vars
<1>0. CommandFields(c) /\ at \in Location /\ RegistryOK /\ OutputsOK BY ComingTyped DEF EvalTypes
<1>1. ASSUME UNCHANGED <<registry, outputs, next_key>> PROVE RegistryOK' /\ OutputsOK'
  BY <1>0, <1>1 DEF RegistryOK, OutputsOK
<1>2. CASE AddDependencies(c)
  <2> DEFINE Plain(n) == TargetKnown(n) /\ ~AliasKnown(n)
  <2>1. CASE Diagnose(c, "add_dependencies", ~Plain(c.name) \/ ~Plain(c.dep)) BY <2>1, DiagnoseTypes
  <2>2. CASE ~Diagnose(c, "add_dependencies", ~Plain(c.name) \/ ~Plain(c.dep))
    <3>1. /\ Run(c, "add_dependencies") /\ Emit(<<AddDependency(c.name, c.dep)>>)
          /\ asked' = asked \cup {<<"order", c.name, c.dep>>}
          /\ UNCHANGED <<registry, defined, outputs, next_key, at>>
      BY <1>2, <2>2 DEF AddDependencies
    <3>2. c.name \in Name /\ c.dep \in Name BY <1>0, <3>1 DEF Run, CommandFields
    <3>3. <<AddDependency(c.name, c.dep)>> \in Seq(Event) BY <3>2, TargetEventsTyped
    <3>4. \A e \in asked' : e[1] \in Edge BY <3>1 DEF EvalTypes, Edge
    <3> QED BY <1>1, <3>1, <3>3, <3>4, RunTypes DEF EvalTypes
  <2> QED BY <2>1, <2>2
<1>3. CASE TargetLinkLibraries(c)
  <2>1. CASE Diagnose(c, "target_link_libraries", ~Changeable(c.name)) BY <2>1, DiagnoseTypes
  <2>2. CASE ~Diagnose(c, "target_link_libraries", ~Changeable(c.name))
    <3> DEFINE item == [vis |-> c.vis, item |-> c.item, ref |-> TargetKnown(c.item)]
    <3>1. /\ Run(c, "target_link_libraries") /\ Emit(<<LinkLibraries(c.name, item)>>)
          /\ asked' = asked \cup {<<c.vis, c.name, i>> : i \in {c.item} \cap DOMAIN registry}
          /\ UNCHANGED <<registry, defined, outputs, next_key, at>>
      BY <1>3, <2>2 DEF TargetLinkLibraries
    <3>2. c.name \in Name /\ c.vis \in Visibility /\ c.item \in Name BY <1>0, <3>1 DEF Run, CommandFields
    <3>3. item \in LinkItem
      <4>1. TargetKnown(c.item) \in BOOLEAN BY DEF TargetKnown
      <4> QED BY <3>2, <4>1 DEF LinkItem
    <3> HIDE DEF item
    <3>4. <<LinkLibraries(c.name, item)>> \in Seq(Event) BY <3>2, <3>3, TargetEventsTyped
    <3>5. \A e \in asked' : e[1] \in Edge BY <3>1, <3>2 DEF EvalTypes, Edge
    <3> QED BY <1>1, <3>1, <3>4, <3>5, RunTypes DEF EvalTypes
  <2> QED BY <2>1, <2>2
<1>4. CASE TargetCompileDefinitions(c)
  <2> DEFINE allowed == Changeable(c.name) /\ ("IMPORTED" \in registry[c.name].flags => c.vis = "INTERFACE")
  <2>1. CASE Diagnose(c, "target_compile_definitions", ~allowed) BY <2>1, DiagnoseTypes
  <2>2. CASE ~Diagnose(c, "target_compile_definitions", ~allowed)
    <3>1. /\ Run(c, "target_compile_definitions") /\ Emit(<<CompileDefinitions(c.name, c.vis)>>)
          /\ UNCHANGED <<registry, defined, outputs, next_key, at, asked>>
      BY <1>4, <2>2 DEF TargetCompileDefinitions
    <3>2. c.name \in Name /\ c.vis \in Visibility BY <1>0, <3>1 DEF Run, CommandFields
    <3>3. <<CompileDefinitions(c.name, c.vis)>> \in Seq(Event) BY <3>2, TargetEventsTyped
    <3> QED BY <1>1, <3>1, <3>3, RunTypes DEF EvalTypes
  <2> QED BY <2>1, <2>2
<1>5. CASE AddCompileDefinitions(c)
  <2>0. Run(c, "add_compile_definitions") /\ UNCHANGED <<registry, outputs, next_key, at, asked>>
    BY <1>5 DEF AddCompileDefinitions
  <2>1. CASE UNCHANGED <<stream, defined>>
    BY <1>0, <1>1, <2>0, <2>1 DEF EvalTypes, Run
  <2>2. CASE ~UNCHANGED <<stream, defined>>
    <3>1. PICK known \in KnownTargets :
            Emit([i \in DOMAIN known |-> CompileDefinitions(known[i], "PRIVATE")] \o <<DirectoryMutate("PRIVATE")>>)
      BY <1>5, <2>2 DEF AddCompileDefinitions
    <3>2. defined' = defined \cup {at} BY <1>5, <2>2 DEF AddCompileDefinitions
    <3>3. PICK k \in Nat : DOMAIN known = 1 .. k /\ \A i \in 1 .. k : known[i] \in DOMAIN registry
      BY <1>0, KnownTyped
    <3>4. \A i \in 1 .. k : CompileDefinitions(known[i], "PRIVATE") \in Event
      BY <1>0, <3>3, TargetEventsTyped DEF RegistryOK, Visibility
    <3> DEFINE first == [i \in DOMAIN known |-> CompileDefinitions(known[i], "PRIVATE")]
    <3>5. first \in Seq(Event) BY <3>3, <3>4
    <3>6. <<DirectoryMutate("PRIVATE")>> \in Seq(Event) BY DirectoryEvents DEF Visibility
    <3> HIDE DEF first
    <3>7. first \o <<DirectoryMutate("PRIVATE")>> \in Seq(Event) BY <3>5, <3>6
    <3>8. Emit(first \o <<DirectoryMutate("PRIVATE")>>) BY <3>1 DEF first
    <3> QED BY <1>0, <1>1, <2>0, <3>2, <3>7, <3>8, RunTypes DEF EvalTypes
  <2> QED BY <2>1, <2>2
<1>6. CASE AddSubdirectory(c)
  <2>1. /\ Run(c, "add_subdirectory") /\ Emit(<<Enter(c.sub)>>) /\ at' = c.sub
        /\ UNCHANGED <<registry, defined, outputs, next_key, asked>>
    BY <1>6 DEF AddSubdirectory
  <2>2. c.sub \in Location BY <1>0, <2>1 DEF Run, CommandFields
  <2>3. <<Enter(c.sub)>> \in Seq(Event) BY <2>2, DirectoryEvents
  <2> QED BY <1>1, <2>1, <2>2, <2>3, RunTypes DEF EvalTypes
<1>7. CASE EndSubdirectory(c)
  <2>1. /\ Run(c, "end of CMakeLists.txt") /\ Emit(<<Leave(at)>>) /\ at' = Root /\ defined' = defined \ {at}
        /\ UNCHANGED <<registry, outputs, next_key, asked>>
    BY <1>7 DEF EndSubdirectory
  <2>2. <<Leave(at)>> \in Seq(Event) BY <1>0, DirectoryEvents
  <2> QED BY <1>1, <2>1, <2>2, RunTypes, RootAssumption DEF EvalTypes
<1> QED BY <1>2, <1>3, <1>4, <1>5, <1>6, <1>7

\* The end of the evaluation and the pipeline: a step of the builder.
LEMMA PipelineTypes ==
  ASSUME EvalTypes, FinishEvaluation \/ ApplyNextEvent \/ Passes \/ Stop \/ UNCHANGED vars
  PROVE  EvalTypes' /\ [BuilderNext]_bm_vars
<1>1. CASE FinishEvaluation
  <2>1. <<Enter(Root)>> \in Seq(Event) /\ <<Leave(Root)>> \in Seq(Event) BY DirectoryEvents, RootAssumption
  <2>2. stream' \in Seq(Event) BY <1>1, <2>1 DEF FinishEvaluation, EvalTypes
  <2> QED BY <1>1, <2>2 DEF FinishEvaluation, EvalTypes, RegistryOK, OutputsOK
<1>2. CASE ApplyNextEvent
  <2>1. stream \in Seq(Event) /\ stream # <<>> BY <1>2 DEF EvalTypes, ApplyNextEvent
  <2>2. Head(stream) \in Event /\ Tail(stream) \in Seq(Event) BY <2>1
  <2>3. BuilderNext BY <1>2, <2>2 DEF ApplyNextEvent, BuilderNext
  <2> QED BY <1>2, <2>2, <2>3 DEF ApplyNextEvent, EvalTypes, RegistryOK, OutputsOK
<1>3. CASE Passes BY <1>3 DEF Passes, eval_vars, BuilderNext, EvalTypes, RegistryOK, OutputsOK
<1>4. CASE Stop \/ UNCHANGED vars BY <1>4 DEF Stop, vars, eval_vars, EvalTypes, RegistryOK, OutputsOK
<1> QED BY <1>1, <1>2, <1>3, <1>4

\* Every step keeps the types and is one of the builder or none.
LEMMA TypesStep == EvalTypes /\ [Next]_vars => EvalTypes' /\ [BuilderNext]_bm_vars
<1> SUFFICES ASSUME EvalTypes, [Next]_vars PROVE EvalTypes' /\ [BuilderNext]_bm_vars OBVIOUS
<1> QED BY DeclaringTypes, StepTypes, ChangingTypes, PipelineTypes DEF Next

\* The initial state.
LEMMA TypesInit == Init => EvalTypes
<1> SUFFICES ASSUME Init PROVE EvalTypes OBVIOUS
<1>1. DOMAIN registry = {} /\ DOMAIN outputs = {} BY DEF Init
<1>2. RegistryOK BY <1>1, FS_EmptySet DEF RegistryOK
<1>3. OutputsOK BY <1>1 DEF OutputsOK, Init
<1> QED BY <1>2, <1>3, RootAssumption DEF EvalTypes, Init

\* A configure run is a run of the builder: whatever the script, the
\* evaluator hands it events only, and it goes through its passes in order
\* (app/nobify.c, bm_builder_apply_stream).
THEOREM ConfigureIsBuilder == Spec => BuilderSpec
<1>1. Init => BuilderInit BY DEF Init
<1> QED BY <1>1, TypesInit, TypesStep, PTL DEF Spec, BuilderSpec

\* The draft of a configure run is sound, whatever the script.
THEOREM ConfigureDraftSound == Spec => []DraftSound
BY ConfigureIsBuilder, BuilderKeepsDraftSound, PTL

\* The state of the evaluator and of the builder keeps its types.
THEOREM ConfigureTypeCorrect == Spec => []TypeOK
<1>1. EvalTypes /\ BuilderTypeOK => TypeOK
  <2> SUFFICES ASSUME EvalTypes, BuilderTypeOK PROVE TypeOK OBVIOUS
  <2>1. \A n \in DOMAIN registry :
          registry[n] \in [type : TargetKind, flags : SUBSET Flag, of : Name \cup {None}, at : Location, index : Nat]
    BY DEF EvalTypes, RegistryOK, TargetRecord, Flag, PropertyKey
  <2>2. \A i \in DOMAIN stream : stream[i].kind \in EventKind
    <3>1. \A ev \in Event : ev.kind \in EventKind
      BY DEF Event, EventKind, Enter, Leave, DirectoryMutate, Declare, AddSource, AddDependency, PropSet, LinkLibraries,
             CompileDefinitions, StepDeclare, StepOutput, StepDependency, StepCommand
    <3> QED BY <3>1 DEF EvalTypes
  <2> QED BY <2>1, <2>2 DEF EvalTypes, RegistryOK, OutputsOK, TypeOK
<1> QED BY <1>1, TypesInit, TypesStep, ConfigureIsBuilder, BuilderTypeCorrect, PTL DEF Spec


-----------------------------------------------------------------------------
(* What the builder will see of a stream: views of the draft.              *)

\* The draft as far as the builder's checks and the declarations go: the
\* directories that are open, the names, and the steps with their owners.
ViewDirs == [i \in DOMAIN directory_stack |-> directories[directory_stack[i]].at]
ViewName(n) == [flags |-> targets[n].flags, kind |-> targets[n].kind, of |-> targets[n].of,
                at |-> directories[targets[n].dir].at, deps |-> targets[n].deps]
ViewNames == [n \in DOMAIN targets |-> ViewName(n)]
ViewSteps == {<<build_steps[s].key, build_steps[s].owner>> : s \in DOMAIN build_steps}
View == [dirs |-> ViewDirs, names |-> ViewNames, steps |-> ViewSteps]

Here(u) == u.dirs[Len(u.dirs)]

EntryOf(n, u) ==
    IF n \in DOMAIN u.names THEN u.names[n]
    ELSE [flags |-> {}, kind |-> "UTILITY", of |-> None, at |-> Here(u), deps |-> {}]

WithDirs(u, dirs) == [dirs |-> dirs, names |-> u.names, steps |-> u.steps]
WithSteps(u, steps) == [dirs |-> u.dirs, names |-> u.names, steps |-> steps]
WithName(u, n, flags, kind, of, at_, deps) ==
    [dirs |-> u.dirs, steps |-> u.steps,
     names |-> [x \in DOMAIN u.names \cup {n} |->
                   IF x = n THEN [flags |-> flags, kind |-> kind, of |-> of, at |-> at_, deps |-> deps]
                   ELSE u.names[x]]]

FlagsDeclared(ev, old) ==
    (old \cap ({"EXCLUDE_FROM_ALL", "RAW"} \cup (IF "IMPORTED" \in ev.flags THEN {"IMPORTED_GLOBAL"} ELSE {})))
    \cup ev.flags \cup {"DECLARED"}

FlagsSet(ev, old) ==
    LET raw     == IF ev.key = "EXCLUDE_FROM_ALL" THEN {} ELSE {"RAW"}
        cleared == IF ev.key = "IMPORTED" THEN {"IMPORTED", "IMPORTED_GLOBAL"} ELSE {ev.key}
    IN  IF ev.on THEN old \cup {ev.key} \cup raw ELSE (old \ cleared) \cup raw

\* An event that the builder takes and that leaves the view as it is.
Silent(ev, u) ==
    \/ ev.kind = "DIRECTORY_PROPERTY_MUTATE" /\ u.dirs # <<>>
    \/ /\ ev.kind \in {"TARGET_ADD_SOURCE", "TARGET_LINK_LIBRARIES", "TARGET_COMPILE_DEFINITIONS"}
       /\ ev.name \in DOMAIN u.names
    \/ /\ ev.kind \in {"BUILD_STEP_ADD_OUTPUT", "BUILD_STEP_ADD_DEPENDENCY", "BUILD_STEP_ADD_COMMAND"}
       /\ \E s \in u.steps : s[1] = ev.key

\* The builder takes the event with the view u, and has the view v then.
Takes(ev, u, v) ==
    LET old == EntryOf(ev.name, u) IN
    \/ Silent(ev, u) /\ v = u
    \/ ev.kind = "DIRECTORY_ENTER" /\ v = WithDirs(u, Append(u.dirs, ev.at))
    \/ /\ ev.kind = "DIRECTORY_LEAVE" /\ u.dirs # <<>> /\ Here(u) = ev.at
       /\ v = WithDirs(u, SubSeq(u.dirs, 1, Len(u.dirs) - 1))
    \/ /\ ev.kind = "TARGET_DECLARE" /\ u.dirs # <<>> /\ "DECLARED" \notin old.flags
       /\ v = WithName(u, ev.name, FlagsDeclared(ev, old.flags), ev.type, ev.of, Here(u), old.deps)
    \/ /\ ev.kind = "TARGET_PROP_SET" /\ (ev.name \in DOMAIN u.names \/ u.dirs # <<>>)
       /\ v = WithName(u, ev.name, FlagsSet(ev, old.flags), old.kind, old.of, old.at, old.deps)
    \/ /\ ev.kind = "TARGET_ADD_DEPENDENCY" /\ ev.name \in DOMAIN u.names
       /\ v = WithName(u, ev.name, old.flags, old.kind, old.of, old.at, old.deps \cup {ev.dep})
    \/ /\ ev.kind = "BUILD_STEP_DECLARE" /\ u.dirs # <<>> /\ \A s \in u.steps : s[1] # ev.key
       /\ v = WithSteps(u, u.steps \cup {<<ev.key, ev.owner>>})

\* The builder takes every event of q, one after the other.
Leads(q, u, w) ==
    \E p : /\ DOMAIN p = 1 .. (Len(q) + 1) /\ p[1] = u /\ p[Len(q) + 1] = w
           /\ \A i \in 1 .. Len(q) : Takes(q[i], p[i], p[i + 1])

\* Nothing to take.
LEMMA LeadsNowhere == \A u, w : Leads(<<>>, u, w) <=> u = w
<1>1. ASSUME NEW u, NEW w, Leads(<<>>, u, w) PROVE u = w BY <1>1 DEF Leads
<1>2. ASSUME NEW u PROVE Leads(<<>>, u, u)
  <2> DEFINE p == [i \in 1 .. 1 |-> u]
  <2>1. DOMAIN p = 1 .. (Len(<<>>) + 1) /\ p[1] = u /\ p[Len(<<>>) + 1] = u /\ \A i \in 1 .. Len(<<>>) : FALSE
    OBVIOUS
  <2> HIDE DEF p
  <2> QED BY <2>1 DEF Leads
<1> QED BY <1>1, <1>2

\* The next event, and the rest.
LEMMA LeadsNext ==
  ASSUME NEW q \in Seq(Event), q # <<>>, NEW u, NEW w, Leads(q, u, w)
  PROVE  \E v : Takes(Head(q), u, v) /\ Leads(Tail(q), v, w)
<1>1. PICK p : /\ DOMAIN p = 1 .. (Len(q) + 1) /\ p[1] = u /\ p[Len(q) + 1] = w
               /\ \A i \in 1 .. Len(q) : Takes(q[i], p[i], p[i + 1])
  BY DEF Leads
<1>2. /\ Len(q) \in Nat /\ Len(q) > 0 /\ Len(Tail(q)) = Len(q) - 1
      /\ \A i \in 1 .. Len(Tail(q)) : Tail(q)[i] = q[i + 1]
  OBVIOUS
<1>3. Takes(Head(q), u, p[2])
  <2>1. 1 \in 1 .. Len(q) BY <1>2
  <2>2. Takes(q[1], p[1], p[1 + 1]) BY <1>1, <2>1
  <2> QED BY <1>1, <2>2
<1> DEFINE r == [i \in 1 .. Len(q) |-> p[i + 1]]
<1>4. /\ DOMAIN r = 1 .. (Len(Tail(q)) + 1) /\ r[1] = p[2] /\ r[Len(Tail(q)) + 1] = w
  BY <1>1, <1>2
<1>5. \A i \in 1 .. Len(Tail(q)) : Takes(Tail(q)[i], r[i], r[i + 1])
  <2> SUFFICES ASSUME NEW i \in 1 .. Len(Tail(q)) PROVE Takes(Tail(q)[i], r[i], r[i + 1]) OBVIOUS
  <2>1. i + 1 \in 1 .. Len(q) /\ i \in 1 .. Len(q) BY <1>2
  <2>2. Takes(q[i + 1], p[i + 1], p[(i + 1) + 1]) BY <1>1, <2>1
  <2>3. r[i] = p[i + 1] /\ r[i + 1] = p[(i + 1) + 1] /\ Tail(q)[i] = q[i + 1] BY <1>2, <2>1
  <2> QED BY <2>2, <2>3
<1> HIDE DEF r
<1>6. Leads(Tail(q), p[2], w) BY <1>4, <1>5 DEF Leads
<1> QED BY <1>3, <1>6

\* One list of events after another.
LEMMA LeadsOn ==
  ASSUME NEW q \in Seq(Event), NEW r \in Seq(Event), NEW u, NEW v, NEW w, Leads(q, u, v), Leads(r, v, w)
  PROVE  q \o r \in Seq(Event) /\ Leads(q \o r, u, w)
<1>1. PICK p : /\ DOMAIN p = 1 .. (Len(q) + 1) /\ p[1] = u /\ p[Len(q) + 1] = v
               /\ \A i \in 1 .. Len(q) : Takes(q[i], p[i], p[i + 1])
  BY DEF Leads
<1>2. PICK o : /\ DOMAIN o = 1 .. (Len(r) + 1) /\ o[1] = v /\ o[Len(r) + 1] = w
               /\ \A i \in 1 .. Len(r) : Takes(r[i], o[i], o[i + 1])
  BY DEF Leads
<1>3. /\ Len(q) \in Nat /\ Len(r) \in Nat /\ Len(q \o r) = Len(q) + Len(r)
      /\ \A i \in 1 .. Len(q) : (q \o r)[i] = q[i]
      /\ \A i \in (Len(q) + 1) .. (Len(q) + Len(r)) : (q \o r)[i] = r[i - Len(q)]
  OBVIOUS
<1> DEFINE m == [i \in 1 .. (Len(q) + Len(r) + 1) |-> IF i <= Len(q) THEN p[i] ELSE o[i - Len(q)]]
<1>4. DOMAIN m = 1 .. (Len(q \o r) + 1) BY <1>3
<1>5. m[1] = u
  <2>1. CASE Len(q) = 0
    <3>1. m[1] = o[1 - Len(q)] BY <1>3, <2>1
    <3> QED BY <1>1, <1>2, <2>1, <3>1
  <2>2. CASE Len(q) # 0
    <3>1. m[1] = p[1] BY <1>3, <2>2
    <3> QED BY <1>1, <3>1
  <2> QED BY <2>1, <2>2
<1>6. m[Len(q \o r) + 1] = w
  <2>1. m[Len(q) + Len(r) + 1] = o[(Len(q) + Len(r) + 1) - Len(q)] BY <1>3
  <2> QED BY <1>2, <1>3, <2>1
<1>7. ASSUME NEW i \in 1 .. Len(q \o r) PROVE Takes((q \o r)[i], m[i], m[i + 1])
  <2>1. CASE i < Len(q)
    <3>1. m[i] = p[i] /\ m[i + 1] = p[i + 1] /\ i \in 1 .. Len(q) BY <1>3, <2>1
    <3> HIDE DEF m
    <3> QED BY <1>1, <1>3, <3>1
  <2>2. CASE i = Len(q)
    <3>1. m[i] = p[i] /\ m[i + 1] = o[1] /\ i \in 1 .. Len(q) BY <1>3, <2>2
    <3>2. m[i + 1] = p[i + 1] BY <1>1, <1>2, <2>2, <3>1
    <3> HIDE DEF m
    <3> QED BY <1>1, <1>3, <3>1, <3>2
  <2>3. CASE i > Len(q)
    <3>1. /\ m[i] = o[i - Len(q)] /\ m[i + 1] = o[(i - Len(q)) + 1] /\ i - Len(q) \in 1 .. Len(r)
          /\ i \in (Len(q) + 1) .. (Len(q) + Len(r))
      BY <1>3, <2>3
    <3> HIDE DEF m
    <3> QED BY <1>2, <1>3, <3>1
  <2> QED BY <1>3, <2>1, <2>2, <2>3
<1> HIDE DEF m
<1>8. Leads(q \o r, u, w) BY <1>4, <1>5, <1>6, <1>7 DEF Leads
<1> QED BY <1>8

\* One event.
LEMMA LeadsOne == ASSUME NEW ev, NEW u, NEW v, Takes(ev, u, v) PROVE Leads(<<ev>>, u, v)
<1> DEFINE p == [i \in 1 .. 2 |-> IF i = 1 THEN u ELSE v]
<1>1. DOMAIN p = 1 .. (Len(<<ev>>) + 1) /\ p[1] = u /\ p[Len(<<ev>>) + 1] = v OBVIOUS
<1>2. \A i \in 1 .. Len(<<ev>>) : i = 1 /\ <<ev>>[i] = ev /\ p[i] = u /\ p[i + 1] = v OBVIOUS
<1> HIDE DEF p
<1> QED BY <1>1, <1>2 DEF Leads

\* Two events.
LEMMA LeadsTwo ==
  ASSUME NEW e1, NEW e2, NEW u, NEW v1, NEW v, Takes(e1, u, v1), Takes(e2, v1, v)
  PROVE  Leads(<<e1, e2>>, u, v)
<1> DEFINE p == [i \in 1 .. 3 |-> IF i = 1 THEN u ELSE IF i = 2 THEN v1 ELSE v]
           q == <<e1, e2>>
<1>1. DOMAIN p = 1 .. (Len(q) + 1) /\ p[1] = u /\ p[2] = v1 /\ p[Len(q) + 1] = v /\ p[2 + 1] = v OBVIOUS
<1>2. (\A i \in 1 .. Len(q) : i = 1 \/ i = 2) /\ q[1] = e1 /\ q[2] = e2 /\ 1 + 1 = 2 OBVIOUS
<1> HIDE DEF p, q
<1>3. \A i \in 1 .. Len(q) : Takes(q[i], p[i], p[i + 1]) BY <1>1, <1>2
<1>4. Leads(q, u, v) BY <1>1, <1>3 DEF Leads
<1> QED BY <1>4 DEF q

\* Three events.
LEMMA LeadsThree ==
  ASSUME NEW e1, NEW e2, NEW e3, NEW u, NEW v1, NEW v2, NEW v, Takes(e1, u, v1), Takes(e2, v1, v2), Takes(e3, v2, v)
  PROVE  Leads(<<e1, e2, e3>>, u, v)
<1> DEFINE p == [i \in 1 .. 4 |-> IF i = 1 THEN u ELSE IF i = 2 THEN v1 ELSE IF i = 3 THEN v2 ELSE v]
           q == <<e1, e2, e3>>
<1>1. DOMAIN p = 1 .. (Len(q) + 1) /\ p[1] = u /\ p[2] = v1 /\ p[3] = v2 /\ p[Len(q) + 1] = v /\ p[3 + 1] = v OBVIOUS
<1>2. /\ \A i \in 1 .. Len(q) : i = 1 \/ i = 2 \/ i = 3
      /\ q[1] = e1 /\ q[2] = e2 /\ q[3] = e3 /\ 1 + 1 = 2 /\ 2 + 1 = 3
  OBVIOUS
<1> HIDE DEF p, q
<1>3. \A i \in 1 .. Len(q) : Takes(q[i], p[i], p[i + 1]) BY <1>1, <1>2
<1>4. Leads(q, u, v) BY <1>1, <1>3 DEF Leads
<1> QED BY <1>4 DEF q

\* Events that leave the view as it is.
LEMMA LeadsSilent ==
  ASSUME NEW q \in Seq(Event), NEW u, \A i \in 1 .. Len(q) : Silent(q[i], u)
  PROVE  Leads(q, u, u)
<1> DEFINE p == [i \in 1 .. (Len(q) + 1) |-> u]
<1>1. Len(q) \in Nat OBVIOUS
<1>2. DOMAIN p = 1 .. (Len(q) + 1) /\ p[1] = u /\ p[Len(q) + 1] = u BY <1>1
<1>3. \A i \in 1 .. Len(q) : p[i] = u /\ p[i + 1] = u BY <1>1
<1>4. \A i \in 1 .. Len(q) : Takes(q[i], u, u) BY DEF Takes
<1> HIDE DEF p
<1> QED BY <1>2, <1>3, <1>4 DEF Leads


\* How the view shows the state of the builder.
LEMMA ViewFacts ==
  ASSUME BuilderInv
  PROVE  /\ View.dirs = ViewDirs /\ View.names = ViewNames /\ View.steps = ViewSteps
         /\ ViewDirs \in Seq(Location) /\ Len(ViewDirs) = Len(directory_stack)
         /\ DOMAIN ViewNames = DOMAIN targets
         /\ ViewDirs # <<>> <=> CurrentDirectory # NoDirectory
         /\ CurrentDirectory # NoDirectory => Here(View) = directories[CurrentDirectory].at
<1>1. /\ directories \in Seq(Directory) /\ directory_stack \in Seq(Nat)
      /\ \A i \in DOMAIN directory_stack : directory_stack[i] \in DOMAIN directories
  BY DEF BuilderInv, BuilderTypeOK, DraftSound, StackIsChain
<1>2. \A i \in DOMAIN directory_stack : directories[directory_stack[i]].at \in Location
  <2>1. \A d \in DOMAIN directories : directories[d] \in Directory BY <1>1
  <2>2. \A d \in DOMAIN directories : directories[d].at \in Location BY <2>1 DEF Directory
  <2> QED BY <1>1, <2>2
<1>3. View.dirs = ViewDirs /\ View.names = ViewNames /\ View.steps = ViewSteps BY DEF View
<1>4. ViewDirs \in Seq(Location) /\ Len(ViewDirs) = Len(directory_stack) BY <1>1, <1>2 DEF ViewDirs
<1>5. ViewDirs # <<>> <=> directory_stack # <<>> BY <1>1, <1>4
<1>6. directory_stack # <<>> <=> CurrentDirectory # NoDirectory BY <1>1 DEF CurrentDirectory, NoDirectory
<1>7. directory_stack # <<>> => Here(View) = directories[CurrentDirectory].at
  <2>1. directory_stack # <<>> => Len(directory_stack) \in DOMAIN directory_stack BY <1>1
  <2>2. Here(View) = ViewDirs[Len(directory_stack)] BY <1>3, <1>4 DEF Here
  <2>3. directory_stack # <<>> => ViewDirs[Len(directory_stack)] = directories[directory_stack[Len(directory_stack)]].at
    BY <2>1 DEF ViewDirs
  <2> QED BY <2>2, <2>3 DEF CurrentDirectory
<1>8. DOMAIN ViewNames = DOMAIN targets BY DEF ViewNames
<1> QED BY <1>3, <1>4, <1>5, <1>6, <1>7, <1>8

\* Storing a target record, as the view shows it.
LEMMA StoreView ==
  ASSUME BuilderInv, NEW n, NEW record, StoreTarget(n, record)
  PROVE  /\ phase' = phase
         /\ View' = WithName(View, n, record.flags, record.kind, record.of, directories[record.dir].at, record.deps)
<1> DEFINE e == [flags |-> record.flags, kind |-> record.kind, of |-> record.of,
                 at |-> directories[record.dir].at, deps |-> record.deps]
<1>1. /\ targets' = [x \in DOMAIN targets \cup {n} |-> IF x = n THEN record ELSE targets[x]]
      /\ UNCHANGED <<directories, directory_stack, build_steps, phase>>
  BY DEF StoreTarget
<1>2. ViewDirs' = ViewDirs /\ ViewSteps' = ViewSteps BY <1>1 DEF ViewDirs, ViewSteps
<1>3. ViewNames' = [x \in DOMAIN ViewNames \cup {n} |-> IF x = n THEN e ELSE ViewNames[x]]
  <2>1. DOMAIN ViewNames' = DOMAIN ViewNames \cup {n} BY <1>1 DEF ViewNames
  <2>2. ASSUME NEW x \in DOMAIN targets' PROVE ViewNames'[x] = IF x = n THEN e ELSE ViewNames[x]
    BY <1>1, <2>2 DEF ViewNames, ViewName
  <2> HIDE DEF e
  <2>3. ViewNames' = [x \in DOMAIN targets' |-> ViewNames'[x]] BY DEF ViewNames
  <2>4. DOMAIN targets' = DOMAIN ViewNames \cup {n} BY <1>1 DEF ViewNames
  <2> QED BY <2>2, <2>3, <2>4
<1>4. View' = [dirs |-> ViewDirs', names |-> ViewNames', steps |-> ViewSteps'] BY DEF View
<1>5. View.dirs = ViewDirs /\ View.names = ViewNames /\ View.steps = ViewSteps BY DEF View
<1> QED BY <1>1, <1>2, <1>3, <1>4, <1>5 DEF WithName

\* The record the builder looks up, as the view shows it.
LEMMA EntryView ==
  ASSUME BuilderInv, NEW n \in Name, Known(n) \/ CurrentDirectory # NoDirectory
  PROVE  LET old == EnsurePlaceholder(n) IN
         EntryOf(n, View) = [flags |-> old.flags, kind |-> old.kind, of |-> old.of,
                             at |-> directories[old.dir].at, deps |-> old.deps]
<1>1. CASE Known(n)
  BY <1>1, ViewFacts DEF EntryOf, ViewNames, ViewName, EnsurePlaceholder, Known
<1>2. CASE ~Known(n)
  <2>1. EntryOf(n, View) = [flags |-> {}, kind |-> "UTILITY", of |-> None, at |-> Here(View), deps |-> {}]
    BY <1>2, ViewFacts DEF EntryOf, Known
  <2>2. Here(View) = directories[CurrentDirectory].at BY <1>2, ViewFacts
  <2> QED BY <1>2, <2>1, <2>2 DEF EnsurePlaceholder, Placeholder
<1> QED BY <1>1, <1>2


\* A directory is entered or left.
LEMMA DirectoryView ==
  ASSUME BuilderInv, phase = "open", NEW ev, NEW v, Takes(ev, View, v), ev.kind \in {"DIRECTORY_ENTER", "DIRECTORY_LEAVE"},
         EventFields(ev), ApplyEvent(ev)
  PROVE  phase' = "open" /\ View' = v
<1>0. /\ directories \in Seq(Directory) /\ directory_stack \in Seq(Nat) /\ ViewDirs \in Seq(Location)
      /\ Len(ViewDirs) = Len(directory_stack) /\ \A n \in DOMAIN targets : targets[n].dir \in DOMAIN directories
      /\ \A i \in DOMAIN directory_stack : directory_stack[i] \in DOMAIN directories
  BY ViewFacts DEF BuilderInv, BuilderTypeOK, DraftSound, StackIsChain, OwnersExist
<1>1. View' = [dirs |-> ViewDirs', names |-> ViewNames', steps |-> ViewSteps'] BY DEF View
<1>2. CASE ev.kind = "DIRECTORY_ENTER"
  <2> DEFINE new == [parent |-> CurrentDirectory, at |-> ev.at, defs |-> {}]
  <2>1. /\ directories' = Append(directories, new) /\ directory_stack' = Append(directory_stack, Len(directories) + 1)
        /\ UNCHANGED <<targets, build_steps, phase>>
    BY <1>2 DEF ApplyEvent, DirectoryEnter, DirectoryLeave, DirectoryPropertyMutate, TargetDeclare, TargetAdd,
                TargetPropSet, BuildStepDeclare, BuildStepAdd
  <2>2. new.at = ev.at /\ ev.at \in Location BY <1>2 DEF EventFields
  <2> HIDE DEF new
  <2>3. /\ \A d \in DOMAIN directories : directories'[d] = directories[d]
        /\ directories'[Len(directories) + 1] = new
        /\ DOMAIN directory_stack' = 1 .. (Len(directory_stack) + 1)
        /\ \A i \in DOMAIN directory_stack : directory_stack'[i] = directory_stack[i]
        /\ directory_stack'[Len(directory_stack) + 1] = Len(directories) + 1
    BY <1>0, <2>1
  <2>4. \A i \in DOMAIN directory_stack' : ViewDirs'[i] = Append(ViewDirs, ev.at)[i]
    <3>1. ASSUME NEW i \in DOMAIN directory_stack PROVE ViewDirs'[i] = Append(ViewDirs, ev.at)[i]
      <4>1. ViewDirs'[i] = directories'[directory_stack'[i]].at
        <5>1. i \in DOMAIN directory_stack' BY <1>0, <2>3
        <5> QED BY <5>1 DEF ViewDirs
      <4>2. ViewDirs'[i] = ViewDirs[i] BY <1>0, <2>3, <4>1 DEF ViewDirs
      <4> QED BY <1>0, <2>2, <4>2
    <3>2. ViewDirs'[Len(directory_stack) + 1] = Append(ViewDirs, ev.at)[Len(directory_stack) + 1]
      <4>1. ViewDirs'[Len(directory_stack) + 1] = ev.at
        <5>1. Len(directory_stack) + 1 \in DOMAIN directory_stack' BY <1>0, <2>3
        <5> QED BY <2>2, <2>3, <5>1 DEF ViewDirs
      <4> QED BY <1>0, <2>2, <4>1
    <3> QED BY <1>0, <2>3, <3>1, <3>2
  <2>5. ViewDirs' = Append(ViewDirs, ev.at)
    <3>1. ViewDirs' = [i \in DOMAIN directory_stack' |-> ViewDirs'[i]] BY DEF ViewDirs
    <3>2. Append(ViewDirs, ev.at) = [i \in 1 .. (Len(directory_stack) + 1) |-> Append(ViewDirs, ev.at)[i]]
      BY <1>0, <2>2
    <3> QED BY <2>3, <2>4, <3>1, <3>2
  <2>6. ViewNames' = ViewNames
    <3>1. \A n \in DOMAIN targets : ViewName(n)' = ViewName(n) BY <1>0, <2>1, <2>3 DEF ViewName
    <3> QED BY <2>1, <3>1 DEF ViewNames
  <2>7. ViewSteps' = ViewSteps BY <2>1 DEF ViewSteps
  <2>8. v = WithDirs(View, Append(View.dirs, ev.at)) BY <1>2 DEF Takes, Silent
  <2> QED BY <1>1, <2>1, <2>5, <2>6, <2>7, <2>8, ViewFacts DEF WithDirs
<1>3. CASE ev.kind = "DIRECTORY_LEAVE"
  <2>1. /\ View.dirs # <<>> /\ Here(View) = ev.at
        /\ v = WithDirs(View, SubSeq(View.dirs, 1, Len(View.dirs) - 1))
    BY <1>3 DEF Takes, Silent
  <2>2. CurrentDirectory # NoDirectory /\ directories[CurrentDirectory].at = ev.at BY <2>1, ViewFacts
  <2>3. /\ directory_stack' = SubSeq(directory_stack, 1, Len(directory_stack) - 1)
        /\ UNCHANGED <<directories, targets, build_steps, phase>>
    BY <1>3, <2>2 DEF ApplyEvent, DirectoryEnter, DirectoryLeave, DirectoryPropertyMutate, TargetDeclare, TargetAdd,
                TargetPropSet, BuildStepDeclare, BuildStepAdd
  <2>4. Len(directory_stack) # 0 BY <1>0, <2>1, ViewFacts
  <2>5. /\ DOMAIN directory_stack' = 1 .. (Len(directory_stack) - 1)
        /\ \A i \in DOMAIN directory_stack' : i \in DOMAIN directory_stack /\ directory_stack'[i] = directory_stack[i]
    BY <1>0, <2>3, <2>4
  <2>6. ViewDirs' = SubSeq(ViewDirs, 1, Len(ViewDirs) - 1)
    <3>1. ViewDirs' = [i \in 1 .. (Len(directory_stack) - 1) |-> ViewDirs[i]] BY <2>3, <2>5 DEF ViewDirs
    <3>2. SubSeq(ViewDirs, 1, Len(ViewDirs) - 1) = [i \in 1 .. (Len(directory_stack) - 1) |-> ViewDirs[i]]
      BY <1>0, <2>4
    <3> QED BY <3>1, <3>2
  <2>7. ViewNames' = ViewNames /\ ViewSteps' = ViewSteps BY <2>3 DEF ViewNames, ViewName, ViewSteps
  <2> QED BY <1>1, <2>1, <2>3, <2>6, <2>7, ViewFacts DEF WithDirs
<1> QED BY <1>2, <1>3

\* The events on targets that the view shows.
LEMMA TargetView ==
  ASSUME BuilderInv, phase = "open", NEW ev, NEW v, Takes(ev, View, v), EventFields(ev), ApplyEvent(ev),
         ev.kind \in {"TARGET_DECLARE", "TARGET_PROP_SET", "TARGET_ADD_DEPENDENCY"}
  PROVE  phase' = "open" /\ View' = v
<1> DEFINE old == EnsurePlaceholder(ev.name)
           seen == EntryOf(ev.name, View)
<1>0. ev.name \in Name /\ (ev.name \in DOMAIN View.names <=> Known(ev.name)) /\ (View.dirs # <<>> <=> CurrentDirectory # NoDirectory)
  BY ViewFacts DEF EventFields, Known
<1>1. ASSUME Known(ev.name) \/ CurrentDirectory # NoDirectory
      PROVE  /\ old \in Target
             /\ seen = [flags |-> old.flags, kind |-> old.kind, of |-> old.of, at |-> directories[old.dir].at, deps |-> old.deps]
  BY <1>0, <1>1, EntryView, PlaceholderTyped
<1>2. CASE ev.kind = "TARGET_DECLARE"
  <2>1. /\ View.dirs # <<>> /\ "DECLARED" \notin seen.flags
        /\ v = WithName(View, ev.name, FlagsDeclared(ev, seen.flags), ev.type, ev.of, Here(View), seen.deps)
    BY <1>2 DEF Takes, Silent
  <2>2. CurrentDirectory # NoDirectory /\ Here(View) = directories[CurrentDirectory].at BY <1>0, <2>1, ViewFacts
  <2>3. old \in Target /\ seen.flags = old.flags /\ seen.deps = old.deps BY <1>1, <2>2
  <2> DEFINE kept == {"EXCLUDE_FROM_ALL", "RAW"} \cup (IF "IMPORTED" \in ev.flags THEN {"IMPORTED_GLOBAL"} ELSE {})
             record == [old EXCEPT !.flags = (@ \cap kept) \cup ev.flags \cup {"DECLARED"},
                                   !.kind = ev.type, !.dir = CurrentDirectory, !.of = ev.of]
  <2>4. TargetDeclare(ev)
    BY <1>2 DEF ApplyEvent, DirectoryEnter, DirectoryLeave, DirectoryPropertyMutate, TargetAdd,
                TargetPropSet, BuildStepDeclare, BuildStepAdd
  <2>5. StoreTarget(ev.name, record) BY <2>1, <2>2, <2>3, <2>4 DEF TargetDeclare
  <2>6. /\ record.flags = FlagsDeclared(ev, old.flags) /\ record.kind = ev.type /\ record.of = ev.of
        /\ record.dir = CurrentDirectory /\ record.deps = old.deps
    <3> HIDE DEF old
    <3> QED BY <2>3 DEF FlagsDeclared, Target
  <2> HIDE DEF record, seen, old
  <2> QED BY <2>1, <2>2, <2>3, <2>5, <2>6, StoreView
<1>3. CASE ev.kind = "TARGET_PROP_SET"
  <2>1. /\ ev.name \in DOMAIN View.names \/ View.dirs # <<>>
        /\ v = WithName(View, ev.name, FlagsSet(ev, seen.flags), seen.kind, seen.of, seen.at, seen.deps)
    BY <1>3 DEF Takes, Silent
  <2>2. /\ old \in Target /\ seen.flags = old.flags /\ seen.deps = old.deps /\ seen.kind = old.kind /\ seen.of = old.of
        /\ seen.at = directories[old.dir].at
    BY <1>0, <1>1, <2>1
  <2>3. TargetPropSet(ev)
    BY <1>3 DEF ApplyEvent, DirectoryEnter, DirectoryLeave, DirectoryPropertyMutate, TargetAdd,
                TargetDeclare, BuildStepDeclare, BuildStepAdd
  <2> DEFINE record == [old EXCEPT !.flags = FlagsSet(ev, old.flags)]
  <2>4. StoreTarget(ev.name, record) BY <1>0, <2>1, <2>3 DEF TargetPropSet, FlagsSet
  <2>5. /\ record.flags = FlagsSet(ev, old.flags) /\ record.kind = old.kind /\ record.of = old.of
        /\ record.dir = old.dir /\ record.deps = old.deps
    <3> HIDE DEF old
    <3> QED BY <2>2 DEF Target
  <2> HIDE DEF record, seen, old
  <2> QED BY <2>1, <2>2, <2>4, <2>5, StoreView
<1>4. CASE ev.kind = "TARGET_ADD_DEPENDENCY"
  <2>1. /\ ev.name \in DOMAIN View.names
        /\ v = WithName(View, ev.name, seen.flags, seen.kind, seen.of, seen.at, seen.deps \cup {ev.dep})
    BY <1>4 DEF Takes, Silent
  <2>2. /\ old \in Target /\ seen.flags = old.flags /\ seen.deps = old.deps /\ seen.kind = old.kind /\ seen.of = old.of
        /\ seen.at = directories[old.dir].at
    BY <1>0, <1>1, <2>1
  <2>3. TargetAdd(ev)
    BY <1>4 DEF ApplyEvent, DirectoryEnter, DirectoryLeave, DirectoryPropertyMutate, TargetPropSet,
                TargetDeclare, BuildStepDeclare, BuildStepAdd
  <2> DEFINE record == [old EXCEPT !.deps = @ \cup {ev.dep}]
  <2>4. StoreTarget(ev.name, record) BY <1>0, <1>4, <2>1, <2>3 DEF TargetAdd, TargetItem, EnsurePlaceholder
  <2>5. /\ record.flags = old.flags /\ record.kind = old.kind /\ record.of = old.of
        /\ record.dir = old.dir /\ record.deps = old.deps \cup {ev.dep}
    <3> HIDE DEF old
    <3> QED BY <2>2 DEF Target
  <2> HIDE DEF record, seen, old
  <2> QED BY <2>1, <2>2, <2>4, <2>5, StoreView
<1> QED BY <1>2, <1>3, <1>4


\* A step is declared.
LEMMA StepView ==
  ASSUME BuilderInv, phase = "open", NEW ev, NEW v, Takes(ev, View, v), EventFields(ev), ApplyEvent(ev),
         ev.kind = "BUILD_STEP_DECLARE"
  PROVE  phase' = "open" /\ View' = v
<1>1. /\ View.dirs # <<>> /\ \A s \in View.steps : s[1] # ev.key
      /\ v = WithSteps(View, View.steps \cup {<<ev.key, ev.owner>>})
  BY DEF Takes, Silent
<1>2. BuildStepDeclare(ev)
  BY DEF ApplyEvent, DirectoryEnter, DirectoryLeave, DirectoryPropertyMutate, TargetDeclare, TargetAdd,
         TargetPropSet, BuildStepAdd
<1>3. StepWithKey(ev.key) = {} /\ CurrentDirectory # NoDirectory
  <2>1. CurrentDirectory # NoDirectory BY <1>1, ViewFacts
  <2>2. ASSUME NEW s \in DOMAIN build_steps PROVE build_steps[s].key # ev.key
    <3>1. <<build_steps[s].key, build_steps[s].owner>> \in View.steps BY ViewFacts DEF ViewSteps
    <3> QED BY <1>1, <3>1
  <2> QED BY <2>1, <2>2 DEF StepWithKey, StepIds
<1> DEFINE new == [key |-> ev.key, kind |-> ev.type, owner |-> ev.owner, dir |-> CurrentDirectory,
                   outputs |-> {}, deps |-> {}, commands |-> {}]
<1>4. /\ build_steps' = Append(build_steps, new)
      /\ UNCHANGED <<directories, directory_stack, targets, phase>>
  BY <1>2, <1>3 DEF BuildStepDeclare
<1>5. new.key = ev.key /\ new.owner = ev.owner /\ build_steps \in Seq(Step) BY DEF BuilderInv, BuilderTypeOK
<1> HIDE DEF new
<1>6. /\ DOMAIN build_steps' = DOMAIN build_steps \cup {Len(build_steps) + 1}
      /\ \A s \in DOMAIN build_steps : build_steps'[s] = build_steps[s]
      /\ build_steps'[Len(build_steps) + 1] = new
  BY <1>4, <1>5
<1>7. ViewSteps' = ViewSteps \cup {<<ev.key, ev.owner>>} BY <1>5, <1>6 DEF ViewSteps
<1>8. ViewDirs' = ViewDirs /\ ViewNames' = ViewNames BY <1>4 DEF ViewDirs, ViewNames, ViewName
<1>9. View' = [dirs |-> ViewDirs', names |-> ViewNames', steps |-> ViewSteps'] BY DEF View
<1> QED BY <1>1, <1>4, <1>7, <1>8, <1>9, ViewFacts DEF WithSteps

\* The events that the view does not show.
LEMMA SilentView ==
  ASSUME BuilderInv, phase = "open", NEW ev, Silent(ev, View), EventFields(ev), ApplyEvent(ev)
  PROVE  phase' = "open" /\ View' = View
<1>0. View' = [dirs |-> ViewDirs', names |-> ViewNames', steps |-> ViewSteps'] BY DEF View
<1>1. CASE ev.kind = "DIRECTORY_PROPERTY_MUTATE"
  <2>1. DirectoryPropertyMutate(ev)
    BY <1>1 DEF ApplyEvent, DirectoryEnter, DirectoryLeave, TargetDeclare, TargetAdd, TargetPropSet,
                BuildStepDeclare, BuildStepAdd
  <2>2. CurrentDirectory # NoDirectory BY <1>1, ViewFacts DEF Silent
  <2>3. /\ directories' = [directories EXCEPT ![CurrentDirectory].defs = @ \cup {ev.vis}]
        /\ UNCHANGED <<directory_stack, targets, build_steps, phase>>
    BY <2>1, <2>2 DEF DirectoryPropertyMutate
  <2>4. \A d \in DOMAIN directories : directories'[d].at = directories[d].at
    <3> DEFINE cur == directories[CurrentDirectory]
               new == [cur EXCEPT !.defs = @ \cup {ev.vis}]
    <3>1. directories \in Seq(Directory) /\ CurrentDirectory \in DOMAIN directories
      BY <2>2, CurrentExists DEF BuilderInv, BuilderTypeOK
    <3>2. cur \in Directory BY <3>1
    <3>3. directories' = [directories EXCEPT ![CurrentDirectory] = new] BY <2>3
    <3> HIDE DEF cur
    <3>4. new.at = cur.at BY <3>2 DEF Directory
    <3> HIDE DEF new
    <3> QED BY <3>1, <3>3, <3>4 DEF cur
  <2>5. /\ \A n \in DOMAIN targets : targets[n].dir \in DOMAIN directories
        /\ \A i \in DOMAIN directory_stack : directory_stack[i] \in DOMAIN directories
    BY DEF BuilderInv, DraftSound, StackIsChain, OwnersExist
  <2>6. ViewDirs' = ViewDirs BY <2>3, <2>4, <2>5 DEF ViewDirs
  <2>7. ViewNames' = ViewNames
    <3>1. \A n \in DOMAIN targets : ViewName(n)' = ViewName(n) BY <2>3, <2>4, <2>5 DEF ViewName
    <3> QED BY <2>3, <3>1 DEF ViewNames
  <2>8. ViewSteps' = ViewSteps BY <2>3 DEF ViewSteps
  <2> QED BY <1>0, <2>3, <2>6, <2>7, <2>8 DEF View
<1>2. CASE ev.kind \in {"TARGET_ADD_SOURCE", "TARGET_LINK_LIBRARIES", "TARGET_COMPILE_DEFINITIONS"}
  <2>1. TargetAdd(ev)
    BY <1>2 DEF ApplyEvent, DirectoryEnter, DirectoryLeave, DirectoryPropertyMutate, TargetDeclare, TargetPropSet,
                BuildStepDeclare, BuildStepAdd
  <2>2. Known(ev.name) BY <1>2, ViewFacts DEF Silent, Known
  <2>3. StoreTarget(ev.name, TargetItem(ev)) BY <2>1, <2>2 DEF TargetAdd
  <2> DEFINE old == targets[ev.name]
  <2>4. old \in Target BY <2>2 DEF Known, BuilderInv, BuilderTypeOK
  <2>5. /\ TargetItem(ev).flags = old.flags /\ TargetItem(ev).kind = old.kind /\ TargetItem(ev).of = old.of
        /\ TargetItem(ev).dir = old.dir /\ TargetItem(ev).deps = old.deps
    <3> HIDE DEF old
    <3>1. CASE ev.kind = "TARGET_ADD_SOURCE"
      <4>1. TargetItem(ev) = [old EXCEPT !.sources = @ \cup {ev.path}] BY <3>1 DEF TargetItem, old
      <4> QED BY <2>4, <4>1 DEF Target
    <3>2. CASE ev.kind = "TARGET_LINK_LIBRARIES"
      <4>1. TargetItem(ev) = [old EXCEPT !.links = @ \cup {ev.item}] BY <3>2 DEF TargetItem, old
      <4> QED BY <2>4, <4>1 DEF Target
    <3>3. CASE ev.kind = "TARGET_COMPILE_DEFINITIONS"
      <4>1. TargetItem(ev) = [old EXCEPT !.defs = @ \cup {ev.vis}] BY <3>3 DEF TargetItem, old
      <4> QED BY <2>4, <4>1 DEF Target
    <3> QED BY <1>2, <3>1, <3>2, <3>3
  <2>6. /\ targets' = [x \in DOMAIN targets \cup {ev.name} |-> IF x = ev.name THEN TargetItem(ev) ELSE targets[x]]
        /\ UNCHANGED <<directories, directory_stack, build_steps, phase>>
    BY <2>3 DEF StoreTarget
  <2>7. DOMAIN targets' = DOMAIN targets BY <2>2, <2>6 DEF Known
  <2>8. \A n \in DOMAIN targets : /\ targets'[n].flags = targets[n].flags /\ targets'[n].kind = targets[n].kind
                                  /\ targets'[n].of = targets[n].of /\ targets'[n].dir = targets[n].dir
                                  /\ targets'[n].deps = targets[n].deps
    BY <2>5, <2>6
  <2>9. \A n \in DOMAIN targets : ViewName(n)' = ViewName(n) BY <2>6, <2>8 DEF ViewName
  <2>10. ViewNames' = ViewNames BY <2>7, <2>9 DEF ViewNames
  <2>11. ViewDirs' = ViewDirs /\ ViewSteps' = ViewSteps BY <2>6 DEF ViewDirs, ViewSteps
  <2> QED BY <1>0, <2>6, <2>10, <2>11 DEF View
<1>3. CASE ev.kind \in {"BUILD_STEP_ADD_OUTPUT", "BUILD_STEP_ADD_DEPENDENCY", "BUILD_STEP_ADD_COMMAND"}
  <2>1. BuildStepAdd(ev)
    BY <1>3 DEF ApplyEvent, DirectoryEnter, DirectoryLeave, DirectoryPropertyMutate, TargetDeclare, TargetPropSet,
                TargetAdd, BuildStepDeclare
  <2>2. StepWithKey(ev.key) # {}
    <3>1. \E s \in ViewSteps : s[1] = ev.key BY <1>3, ViewFacts DEF Silent
    <3>2. PICK s \in DOMAIN build_steps : <<build_steps[s].key, build_steps[s].owner>>[1] = ev.key BY <3>1 DEF ViewSteps
    <3> QED BY <3>2 DEF StepWithKey, StepIds
  <2>3. PICK s \in StepWithKey(ev.key) :
           /\ build_steps' = [build_steps EXCEPT ![s] = BuildStepItem(ev, s)]
           /\ UNCHANGED <<directories, directory_stack, targets, phase>>
    BY <2>1, <2>2 DEF BuildStepAdd
  <2> DEFINE old == build_steps[s]
  <2>4. s \in DOMAIN build_steps /\ build_steps \in Seq(Step) BY <2>3 DEF StepWithKey, StepIds, BuilderInv, BuilderTypeOK
  <2>5. old \in Step BY <2>4
  <2>6. BuildStepItem(ev, s).key = old.key /\ BuildStepItem(ev, s).owner = old.owner
    <3> HIDE DEF old
    <3>1. CASE ev.kind = "BUILD_STEP_ADD_OUTPUT"
      <4>1. BuildStepItem(ev, s) = [old EXCEPT !.outputs = @ \cup {ev.file}] BY <3>1 DEF BuildStepItem, old
      <4> QED BY <2>5, <4>1 DEF Step
    <3>2. CASE ev.kind = "BUILD_STEP_ADD_DEPENDENCY"
      <4>1. BuildStepItem(ev, s) = [old EXCEPT !.deps = @ \cup {ev.dep}] BY <3>2 DEF BuildStepItem, old
      <4> QED BY <2>5, <4>1 DEF Step
    <3>3. CASE ev.kind = "BUILD_STEP_ADD_COMMAND"
      <4>1. BuildStepItem(ev, s) = [old EXCEPT !.commands = @ \cup {ev.name}] BY <3>3 DEF BuildStepItem, old
      <4> QED BY <2>5, <4>1 DEF Step
    <3> QED BY <1>3, <3>1, <3>2, <3>3
  <2>7. /\ DOMAIN build_steps' = DOMAIN build_steps
        /\ \A r \in DOMAIN build_steps : build_steps'[r].key = build_steps[r].key /\ build_steps'[r].owner = build_steps[r].owner
    BY <2>3, <2>4, <2>6
  <2>8. ViewSteps' = ViewSteps BY <2>7 DEF ViewSteps
  <2>9. ViewDirs' = ViewDirs /\ ViewNames' = ViewNames BY <2>3 DEF ViewDirs, ViewNames, ViewName
  <2> QED BY <1>0, <2>3, <2>8, <2>9 DEF View
<1> QED BY <1>1, <1>2, <1>3 DEF Silent

\* The builder takes the events the view says it takes, and the view is then
\* the one it says (bm_builder_apply_event).
LEMMA ApplyView ==
  ASSUME BuilderInv, NEW ev \in Event, ApplyEvent(ev), NEW v, Takes(ev, View, v)
  PROVE  phase' = "open" /\ View' = v
<1>1. phase = "open" /\ EventFields(ev) BY EventTyped DEF ApplyEvent
<1>2. CASE Silent(ev, View) /\ v = View BY <1>1, <1>2, SilentView
<1>3. CASE ~(Silent(ev, View) /\ v = View)
  <2>1. ev.kind \in {"DIRECTORY_ENTER", "DIRECTORY_LEAVE", "TARGET_DECLARE", "TARGET_PROP_SET", "TARGET_ADD_DEPENDENCY",
                     "BUILD_STEP_DECLARE"}
    BY <1>3 DEF Takes
  <2> QED BY <1>1, <2>1, DirectoryView, TargetView, StepView
<1> QED BY <1>2, <1>3


-----------------------------------------------------------------------------
(* The view a stream leads to is the evaluator's registry.                 *)

Start == [dirs |-> <<Root>>, names |-> [n \in {} |-> n], steps |-> {}]

OpenDirs == IF at = Root THEN <<Root>> ELSE <<Root, at>>

ImportFlag == {"IMPORTED", "IMPORTED_GLOBAL", "ALIAS"}

MirrorNames(w) ==
    /\ DOMAIN w.names = DOMAIN registry
    /\ \A n \in DOMAIN registry :
          /\ "DECLARED" \in w.names[n].flags /\ w.names[n].flags \cap ImportFlag = registry[n].flags
          /\ w.names[n].kind = registry[n].type
          /\ w.names[n].of = registry[n].of
          /\ w.names[n].at = registry[n].at
          /\ w.names[n].deps \subseteq DOMAIN registry
          /\ "ALIAS" \in registry[n].flags => registry[n].of \in DOMAIN registry

MirrorSteps(w) ==
    /\ \A s \in w.steps : s[1] \in 1 .. (next_key - 1) /\ (s[2] = None \/ s[2] \in DOMAIN registry)
    /\ \A k \in 1 .. (next_key - 1) : \E s \in w.steps : s[1] = k

Mirror(w) == MirrorNames(w) /\ MirrorSteps(w)

\* The evaluator's directory is the innermost of the view.
LEMMA HereIsAt == ASSUME NEW w, w.dirs = OpenDirs PROVE w.dirs # <<>> /\ Here(w) = at
BY DEF OpenDirs, Here

\* What is emitted after a stream.
LEMMA EmitLeads ==
  ASSUME stream \in Seq(Event), NEW events \in Seq(Event), Emit(events), NEW u, NEW w, NEW v,
         Leads(stream, u, w), Leads(events, w, v)
  PROVE  Leads(stream', u, v)
BY LeadsOn DEF Emit

\* An optional event that is silent.
LEMMA OnlySilent ==
  ASSUME NEW b \in BOOLEAN, NEW ev \in Event, NEW u, b => Silent(ev, u)
  PROVE  Only(b, <<ev>>) \in Seq(Event) /\ Leads(Only(b, <<ev>>), u, u)
<1>1. CASE b
  <2>1. Takes(ev, u, u) BY <1>1 DEF Takes
  <2> QED BY <1>1, <2>1, LeadsOne DEF Only
<1>2. CASE ~b BY <1>2, LeadsNowhere DEF Only
<1> QED BY <1>1, <1>2

\* What a step needs and runs is silent once the step is declared.
LEMMA StepEventsLead ==
  ASSUME NEW k \in Nat, NEW c, c.dep \in Name \cup File \cup {None}, c.program \in Name \cup {None}, NEW known,
         NEW u, \E s \in u.steps : s[1] = k
  PROVE  Leads(StepEvents(k, c, known), u, u)
<1> DEFINE q == StepEvents(k, c, known)
<1>1. q \in Seq(Event) BY StepEventsSeq
<1>2. ASSUME NEW i \in 1 .. Len(q) PROVE Silent(q[i], u)
  <2> DEFINE ev1 == StepDependency(k, [item |-> c.dep, ref |-> c.dep \in known])
             ev2 == StepCommand(k, c.program)
  <2>1. ev1.kind = "BUILD_STEP_ADD_DEPENDENCY" /\ ev1.key = k /\ ev2.kind = "BUILD_STEP_ADD_COMMAND" /\ ev2.key = k
    BY DEF StepDependency, StepCommand
  <2>2. Silent(ev1, u) /\ Silent(ev2, u) BY <2>1 DEF Silent
  <2> HIDE DEF ev1, ev2
  <2>3. q[i] = ev1 \/ q[i] = ev2
    <3>0. q = Only(c.dep # None, <<ev1>>) \o Only(c.program # None, <<ev2>>) BY DEF StepEvents, ev1, ev2
    <3> DEFINE T == {ev1, ev2}
    <3>1. ev1 \in T /\ ev2 \in T OBVIOUS
    <3> HIDE DEF T, q
    <3>2. Only(c.dep # None, <<ev1>>) \in Seq(T) /\ Only(c.program # None, <<ev2>>) \in Seq(T) BY <3>1 DEF Only
    <3>3. q \in Seq(T)
      <4>1. \A x, y \in Seq(T) : x \o y \in Seq(T) OBVIOUS
      <4> QED BY <3>0, <3>2, <4>1, Zenon
    <3>4. q[i] \in T BY <1>2, <3>3
    <3> QED BY <3>4 DEF T
  <2> QED BY <2>2, <2>3
<1> HIDE DEF q
<1>3. Leads(q, u, u) BY <1>1, <1>2, LeadsSilent
<1> QED BY <1>3 DEF q

\* Declaring a step under the next key.
LEMMA StepMirror ==
  ASSUME NEW u, u.dirs # <<>>, MirrorSteps(u), next_key \in Nat \ {0}, NEW type, NEW owner,
         owner = None \/ owner \in DOMAIN registry', DOMAIN registry \subseteq DOMAIN registry', next_key' = next_key + 1,
         NEW v, v = WithSteps(u, u.steps \cup {<<next_key, owner>>})
  PROVE  /\ Takes(StepDeclare(next_key, type, owner), u, v)
         /\ MirrorSteps(v)' /\ v.dirs = u.dirs /\ v.names = u.names
         /\ \E s \in v.steps : s[1] = next_key
<1> DEFINE ev == StepDeclare(next_key, type, owner)
           new == <<next_key, owner>>
<1>1. ev.kind = "BUILD_STEP_DECLARE" /\ ev.key = next_key /\ ev.owner = owner BY DEF StepDeclare
<1>2. \A s \in u.steps : s[1] # ev.key BY <1>1 DEF MirrorSteps
<1>3. Takes(ev, u, v)
  <2> HIDE DEF ev
  <2> QED BY <1>1, <1>2 DEF Takes
<1>4. v.steps = u.steps \cup {new} /\ v.dirs = u.dirs /\ v.names = u.names BY DEF WithSteps
<1>5. new[1] = next_key /\ new[2] = owner OBVIOUS
<1> HIDE DEF new
<1>6. MirrorSteps(v)'
  <2>1. ASSUME NEW s \in v.steps PROVE s[1] \in 1 .. (next_key' - 1) /\ (s[2] = None \/ s[2] \in DOMAIN registry')
    <3>1. CASE s = new BY <1>5, <3>1
    <3>2. CASE s # new
      <4>1. s \in u.steps BY <1>4, <3>2
      <4>2. s[1] \in 1 .. (next_key - 1) /\ (s[2] = None \/ s[2] \in DOMAIN registry) BY <4>1 DEF MirrorSteps
      <4>3. 1 .. (next_key - 1) \subseteq 1 .. (next_key' - 1) OBVIOUS
      <4> QED BY <4>2, <4>3
    <3> QED BY <3>1, <3>2
  <2>2. ASSUME NEW k \in 1 .. (next_key' - 1) PROVE \E s \in v.steps : s[1] = k
    <3>1. CASE k = next_key BY <1>4, <1>5, <3>1
    <3>2. CASE k # next_key
      <4>1. k \in 1 .. (next_key - 1) BY <3>2
      <4> QED BY <1>4, <4>1 DEF MirrorSteps
    <3> QED BY <3>1, <3>2
  <2> QED BY <2>1, <2>2 DEF MirrorSteps
<1>7. \E s \in v.steps : s[1] = next_key BY <1>4, <1>5
<1> QED BY <1>3, <1>4, <1>6, <1>7


\* Storing a name: what the view has then.
LEMMA WithNameFacts ==
  ASSUME NEW u, NEW n, NEW flags, NEW kind, NEW of, NEW here, NEW deps, NEW v,
         v = WithName(u, n, flags, kind, of, here, deps)
  PROVE  /\ v.dirs = u.dirs /\ v.steps = u.steps /\ DOMAIN v.names = DOMAIN u.names \cup {n}
         /\ \A x \in DOMAIN u.names : x # n => v.names[x] = u.names[x]
         /\ /\ v.names[n].flags = flags /\ v.names[n].kind = kind /\ v.names[n].of = of
            /\ v.names[n].at = here /\ v.names[n].deps = deps
<1> DEFINE e == [flags |-> flags, kind |-> kind, of |-> of, at |-> here, deps |-> deps]
<1>1. /\ v.dirs = u.dirs /\ v.steps = u.steps
      /\ v.names = [x \in DOMAIN u.names \cup {n} |-> IF x = n THEN e ELSE u.names[x]]
  BY DEF WithName
<1>2. e.flags = flags /\ e.kind = kind /\ e.of = of /\ e.at = here /\ e.deps = deps OBVIOUS
<1> HIDE DEF e
<1> QED BY <1>1, <1>2

\* Storing a name twice: the last record stays.
LEMMA WithNameTwice ==
  ASSUME NEW u, NEW n, NEW f1, NEW k1, NEW o1, NEW a1, NEW d1, NEW f2, NEW k2, NEW o2, NEW a2, NEW d2
  PROVE  WithName(WithName(u, n, f1, k1, o1, a1, d1), n, f2, k2, o2, a2, d2) = WithName(u, n, f2, k2, o2, a2, d2)
<1> DEFINE v == WithName(u, n, f1, k1, o1, a1, d1)
           e == [flags |-> f2, kind |-> k2, of |-> o2, at |-> a2, deps |-> d2]
<1>1. /\ v.dirs = u.dirs /\ v.steps = u.steps /\ DOMAIN v.names = DOMAIN u.names \cup {n}
      /\ \A x \in DOMAIN u.names : x # n => v.names[x] = u.names[x]
  BY WithNameFacts
<1> HIDE DEF v, e
<1>2. [x \in DOMAIN v.names \cup {n} |-> IF x = n THEN e ELSE v.names[x]]
      = [x \in DOMAIN u.names \cup {n} |-> IF x = n THEN e ELSE u.names[x]]
  BY <1>1
<1>3. WithName(v, n, f2, k2, o2, a2, d2) = WithName(u, n, f2, k2, o2, a2, d2) BY <1>1, <1>2 DEF WithName, e
<1> QED BY <1>3 DEF v

\* The view w with a placeholder of n that has the flags, and no more.
Pending(u, w, n, flags) ==
    /\ u.dirs = w.dirs
    /\ EntryOf(n, u).flags = flags /\ EntryOf(n, u).deps = {}
    /\ \A f, k, o, a, d : WithName(u, n, f, k, o, a, d) = WithName(w, n, f, k, o, a, d)

\* A name the view does not have.
LEMMA PendingNone == ASSUME NEW w, NEW n, n \notin DOMAIN w.names PROVE Pending(w, w, n, {})
BY DEF Pending, EntryOf

\* A property before the declaration.
LEMMA PendingProp ==
  ASSUME NEW w, NEW u, NEW n, NEW flags, Pending(u, w, n, flags), w.dirs # <<>>, NEW ev, ev.kind = "TARGET_PROP_SET", ev.name = n
  PROVE  \E v : Takes(ev, u, v) /\ Pending(v, w, n, FlagsSet(ev, flags))
<1> DEFINE old == EntryOf(n, u)
           v == WithName(u, n, FlagsSet(ev, flags), old.kind, old.of, old.at, old.deps)
<1>1. old.flags = flags /\ old.deps = {} /\ u.dirs = w.dirs BY DEF Pending
<1>2. Takes(ev, u, v) BY <1>1 DEF Takes
<1> HIDE DEF old
<1>3. /\ v.dirs = u.dirs /\ n \in DOMAIN v.names /\ v.names[n].flags = FlagsSet(ev, flags) /\ v.names[n].deps = {}
  BY <1>1, WithNameFacts
<1>4. \A f, k, o, a, d : WithName(v, n, f, k, o, a, d) = WithName(w, n, f, k, o, a, d)
  <2> SUFFICES ASSUME NEW f, NEW k, NEW o, NEW a, NEW d
               PROVE  WithName(v, n, f, k, o, a, d) = WithName(w, n, f, k, o, a, d)
    OBVIOUS
  <2>1. WithName(v, n, f, k, o, a, d) = WithName(u, n, f, k, o, a, d) BY WithNameTwice
  <2> QED BY <2>1 DEF Pending
<1> HIDE DEF v
<1>5. Pending(v, w, n, FlagsSet(ev, flags)) BY <1>1, <1>3, <1>4 DEF Pending, EntryOf
<1> QED BY <1>2, <1>5

\* The declaration.
LEMMA PendingDeclare ==
  ASSUME NEW w, NEW u, NEW n, NEW flags, Pending(u, w, n, flags), w.dirs # <<>>, "DECLARED" \notin flags,
         NEW ev, ev.kind = "TARGET_DECLARE", ev.name = n
  PROVE  Takes(ev, u, WithName(w, n, FlagsDeclared(ev, flags), ev.type, ev.of, Here(w), {}))
<1> DEFINE old == EntryOf(n, u)
<1>1. old.flags = flags /\ old.deps = {} /\ u.dirs = w.dirs /\ Here(u) = Here(w) BY DEF Pending, Here
<1>2. WithName(u, n, FlagsDeclared(ev, flags), ev.type, ev.of, Here(w), {})
      = WithName(w, n, FlagsDeclared(ev, flags), ev.type, ev.of, Here(w), {})
  BY DEF Pending
<1> HIDE DEF old
<1> QED BY <1>1, <1>2 DEF Takes, old

\* A target that is registered and declared is mirrored.
LEMMA DeclareMirror ==
  ASSUME NEW w, MirrorNames(w), NEW n, n \notin DOMAIN registry,
         DOMAIN registry' = DOMAIN registry \cup {n}, \A x \in DOMAIN registry : registry'[x] = registry[x],
         NEW flags, "DECLARED" \in flags, flags \cap ImportFlag = registry'[n].flags,
         "ALIAS" \in registry'[n].flags => registry'[n].of \in DOMAIN registry,
         NEW v, v = WithName(w, n, flags, registry'[n].type, registry'[n].of, registry'[n].at, {})
  PROVE  MirrorNames(v)'
<1>1. /\ DOMAIN v.names = DOMAIN w.names \cup {n}
      /\ \A x \in DOMAIN w.names : x # n => v.names[x] = w.names[x]
      /\ v.names[n].flags = flags /\ v.names[n].kind = registry'[n].type /\ v.names[n].of = registry'[n].of
      /\ v.names[n].at = registry'[n].at /\ v.names[n].deps = {}
  BY WithNameFacts
<1>2. ASSUME NEW x \in DOMAIN registry'
      PROVE  /\ "DECLARED" \in v.names[x].flags /\ v.names[x].flags \cap ImportFlag = registry'[x].flags
             /\ v.names[x].kind = registry'[x].type
             /\ v.names[x].of = registry'[x].of
             /\ v.names[x].at = registry'[x].at
             /\ v.names[x].deps \subseteq DOMAIN registry'
             /\ "ALIAS" \in registry'[x].flags => registry'[x].of \in DOMAIN registry'
  <2>1. CASE x = n BY <1>1, <2>1
  <2>2. CASE x # n
    <3>1. x \in DOMAIN registry /\ registry'[x] = registry[x] /\ v.names[x] = w.names[x] BY <1>1, <2>2 DEF MirrorNames
    <3> QED BY <3>1 DEF MirrorNames
  <2> QED BY <2>1, <2>2
<1>3. DOMAIN v.names = DOMAIN registry' BY <1>1 DEF MirrorNames
<1> QED BY <1>2, <1>3 DEF MirrorNames

\* A target that only others change stays mirrored, and so do the steps.
LEMMA MirrorSame ==
  ASSUME NEW w, NEW v, v.names = w.names, MirrorNames(w), UNCHANGED registry
  PROVE  MirrorNames(v)'
BY DEF MirrorNames

\* The same, for the steps.
LEMMA StepsSame ==
  ASSUME NEW w, NEW v, v.steps = w.steps, MirrorSteps(w), UNCHANGED next_key, DOMAIN registry \subseteq DOMAIN registry'
  PROVE  MirrorSteps(v)'
BY DEF MirrorSteps


\* The stream so far leads from the root directory to the registry.
Ahead(w) == Leads(stream, Start, w) /\ Mirror(w) /\ w.dirs = OpenDirs

\* What add_executable and add_library emit declares the target.
LEMMA TargetEventsLead ==
  ASSUME NEW w, w.dirs # <<>>, Here(w) = at, NEW c, c.name \in Name, c.type \in TargetKind \ {"UTILITY"},
         c.options \in Options, c.source \in Path \cup {None}, c.name \notin DOMAIN w.names,
         "IMPORTED" \notin c.options => ~GlobalDefinition
  PROVE  \E flags : /\ "DECLARED" \in flags /\ flags \cap ImportFlag = c.options \cap {"IMPORTED", "IMPORTED_GLOBAL"}
                    /\ Leads(TargetEvents(c), w, WithName(w, c.name, flags, c.type, None, at, {}))
<1> DEFINE n == c.name
<1>0. /\ \A key \in PropertyKey : PropSet(n, key, TRUE) \in Event /\ <<PropSet(n, key, TRUE)>> \in Seq(Event)
      /\ \A flags \in SUBSET {"IMPORTED", "ALIAS"} : <<Declare(n, c.type, flags, None)>> \in Seq(Event)
  <2>1. TRUE \in BOOLEAN OBVIOUS
  <2>2. \A key \in PropertyKey : PropSet(n, key, TRUE) \in Event BY <2>1, TargetEventsTyped, Zenon
  <2>3. \A x \in Event : <<x>> \in Seq(Event) OBVIOUS
  <2> QED BY <2>2, <2>3, TargetEventsTyped, Zenon
<1>1. Pending(w, w, n, {}) BY PendingNone
<1>2. ASSUME NEW u, NEW flags, Pending(u, w, n, flags), NEW key \in PropertyKey
      PROVE  \E v : /\ Leads(<<PropSet(n, key, TRUE)>>, u, v)
                    /\ Pending(v, w, n, flags \cup {key} \cup (IF key = "EXCLUDE_FROM_ALL" THEN {} ELSE {"RAW"}))
  <2> DEFINE ev == PropSet(n, key, TRUE)
  <2>1. ev.kind = "TARGET_PROP_SET" /\ ev.name = n /\ ev.key = key /\ ev.on BY Zenon DEF PropSet
  <2> HIDE DEF ev
  <2>2. FlagsSet(ev, flags) = flags \cup {key} \cup (IF key = "EXCLUDE_FROM_ALL" THEN {} ELSE {"RAW"})
    BY <2>1 DEF FlagsSet
  <2>3. PICK v : Takes(ev, u, v) /\ Pending(v, w, n, FlagsSet(ev, flags)) BY <1>2, <2>1, PendingProp
  <2>4. Leads(<<ev>>, u, v) BY <2>3, LeadsOne
  <2>5. Leads(<<PropSet(n, key, TRUE)>>, u, v) BY <2>4, Zenon DEF ev
  <2> QED BY <2>2, <2>3, <2>5, Zenon
<1>3. ASSUME NEW u, NEW flags, Pending(u, w, n, flags), "DECLARED" \notin flags, NEW of \in SUBSET {"IMPORTED", "ALIAS"}
      PROVE  Leads(<<Declare(n, c.type, of, None)>>, u,
                   WithName(w, n, FlagsDeclared(Declare(n, c.type, of, None), flags), c.type, None, at, {}))
  <2> DEFINE ev == Declare(n, c.type, of, None)
  <2>1. ev.kind = "TARGET_DECLARE" /\ ev.name = n /\ ev.type = c.type /\ ev.of = None BY DEF Declare
  <2> HIDE DEF ev
  <2>2. Takes(ev, u, WithName(w, n, FlagsDeclared(ev, flags), c.type, None, at, {})) BY <1>3, <2>1, PendingDeclare
  <2>3. Leads(<<ev>>, u, WithName(w, n, FlagsDeclared(ev, flags), c.type, None, at, {})) BY <2>2, LeadsOne
  <2> QED BY <2>3 DEF ev
<1>4. ASSUME NEW u, NEW flags, Pending(u, w, n, flags), "DECLARED" \notin flags, NEW key \in PropertyKey
      PROVE  /\ Only(key \in c.options, <<PropSet(n, key, TRUE)>>) \in Seq(Event)
             /\ \E v, more : /\ Leads(Only(key \in c.options, <<PropSet(n, key, TRUE)>>), u, v)
                             /\ Pending(v, w, n, more) /\ "DECLARED" \notin more
                             /\ key \in more <=> key \in flags \/ key \in c.options
  <2> DEFINE q == Only(key \in c.options, <<PropSet(n, key, TRUE)>>)
             raw == IF key = "EXCLUDE_FROM_ALL" THEN {} ELSE {"RAW"}
  <2>1. CASE key \in c.options
    <3>1. q = <<PropSet(n, key, TRUE)>> BY <2>1, Zenon DEF Only
    <3>2. PICK v : Leads(<<PropSet(n, key, TRUE)>>, u, v) /\ Pending(v, w, n, flags \cup {key} \cup raw)
      BY <1>2, <1>4
    <3>3. /\ "DECLARED" \notin flags \cup {key} \cup raw /\ key \in flags \cup {key} \cup raw
      BY <1>4 DEF PropertyKey
    <3>4. q \in Seq(Event) /\ Leads(q, u, v) BY <1>0, <1>4, <3>1, <3>2, Zenon
    <3> HIDE DEF q, raw
    <3>5. \E x, more : /\ Leads(q, u, x) /\ Pending(x, w, n, more) /\ "DECLARED" \notin more
                       /\ key \in more <=> key \in flags \/ key \in c.options
      BY <2>1, <3>2, <3>3, <3>4
    <3> QED BY <3>4, <3>5, Zenon DEF q
  <2>2. CASE key \notin c.options
    <3>1. q = <<>> BY <2>2, Zenon DEF Only
    <3>2. Leads(<<>>, u, u) BY LeadsNowhere
    <3>3. <<>> \in Seq(Event) OBVIOUS
    <3>4. Leads(q, u, u) /\ q \in Seq(Event) BY <3>1, <3>2, <3>3, Zenon
    <3> HIDE DEF q
    <3>5. \E x, more : /\ Leads(q, u, x) /\ Pending(x, w, n, more) /\ "DECLARED" \notin more
                       /\ key \in more <=> key \in flags \/ key \in c.options
      BY <1>4, <2>2, <3>4
    <3> QED BY <3>4, <3>5, Zenon DEF q
  <2> QED BY <2>1, <2>2
<1>5. CASE "IMPORTED" \in c.options
  <2> DEFINE q1 == <<PropSet(n, "IMPORTED", TRUE)>>
             q2 == Only("IMPORTED_GLOBAL" \in c.options, <<PropSet(n, "IMPORTED_GLOBAL", TRUE)>>)
             ev == Declare(n, c.type, {"IMPORTED"}, None)
             f1 == {"IMPORTED", "RAW"}
  <2>0. "IMPORTED" \in PropertyKey /\ "IMPORTED_GLOBAL" \in PropertyKey BY DEF PropertyKey
  <2>1. PICK u1 : Leads(q1, w, u1) /\ Pending(u1, w, n, {} \cup {"IMPORTED"} \cup {"RAW"})
    <3>1. PICK u1 : Leads(q1, w, u1) /\ Pending(u1, w, n, {} \cup {"IMPORTED"} \cup (IF "IMPORTED" = "EXCLUDE_FROM_ALL" THEN {} ELSE {"RAW"}))
      BY <1>1, <1>2, <2>0, Zenon
    <3>2. (IF "IMPORTED" = "EXCLUDE_FROM_ALL" THEN {} ELSE {"RAW"}) = {"RAW"} OBVIOUS
    <3> HIDE DEF q1
    <3> QED BY <3>1, <3>2
  <2>2. Pending(u1, w, n, f1)
    <3>1. {} \cup {"IMPORTED"} \cup {"RAW"} = f1 OBVIOUS
    <3> QED BY <2>1, <3>1, Zenon
  <2>3. q2 \in Seq(Event) /\ \E v, more : /\ Leads(q2, u1, v) /\ Pending(v, w, n, more) /\ "DECLARED" \notin more
                                          /\ "IMPORTED_GLOBAL" \in more <=> "IMPORTED_GLOBAL" \in f1 \/ "IMPORTED_GLOBAL" \in c.options
    <3>1. "DECLARED" \notin f1 OBVIOUS
    <3> QED BY <1>4, <2>0, <2>2, <3>1, Zenon
  <2>4. PICK u2, f2 : /\ Leads(q2, u1, u2) /\ Pending(u2, w, n, f2) /\ "DECLARED" \notin f2
                      /\ "IMPORTED_GLOBAL" \in f2 <=> "IMPORTED_GLOBAL" \in f1 \/ "IMPORTED_GLOBAL" \in c.options
    BY <2>3, Zenon
  <2>5. Leads(<<ev>>, u2, WithName(w, n, FlagsDeclared(ev, f2), c.type, None, at, {})) BY <1>3, <2>4
  <2>6. ev.flags = {"IMPORTED"} BY DEF Declare
  <2>7. q1 \in Seq(Event) /\ <<ev>> \in Seq(Event)
    <3>1. q1 \in Seq(Event) BY <1>0, <2>0, Zenon
    <3>2. {"IMPORTED"} \in SUBSET {"IMPORTED", "ALIAS"} OBVIOUS
    <3> QED BY <1>0, <3>1, <3>2, Zenon
  <2>8. TargetEvents(c) = q1 \o q2 \o <<ev>> BY <1>5, Zenon DEF TargetEvents
  <2> HIDE DEF q1, q2, ev
  <2>9. "DECLARED" \in FlagsDeclared(ev, f2) /\ FlagsDeclared(ev, f2) \cap ImportFlag = c.options \cap {"IMPORTED", "IMPORTED_GLOBAL"}
    BY <1>5, <2>4, <2>6 DEF FlagsDeclared, ImportFlag
  <2>10. q1 \o q2 \in Seq(Event) BY <2>3, <2>7
  <2>11. Leads(q1 \o q2, w, u2) BY <2>1, <2>3, <2>4, <2>7, LeadsOn
  <2>12. Leads((q1 \o q2) \o <<ev>>, w, WithName(w, n, FlagsDeclared(ev, f2), c.type, None, at, {}))
    BY <2>5, <2>7, <2>10, <2>11, LeadsOn
  <2> QED BY <2>8, <2>9, <2>12
<1>6. CASE "IMPORTED" \notin c.options
  <2> DEFINE q1 == Only("EXCLUDE_FROM_ALL" \in c.options, <<PropSet(n, "EXCLUDE_FROM_ALL", TRUE)>>)
             q2 == Only(GlobalDefinition, <<CompileDefinitions(n, "PRIVATE")>>)
             ev == Declare(n, c.type, {}, None)
             add == AddSource(n, c.source)
             q4 == Only(c.type # "INTERFACE" /\ c.source # None, <<add>>)
  <2>1. q1 \in Seq(Event) /\ \E v, more : /\ Leads(q1, w, v) /\ Pending(v, w, n, more) /\ "DECLARED" \notin more
    <3>1. "EXCLUDE_FROM_ALL" \in PropertyKey BY DEF PropertyKey
    <3>2. "DECLARED" \notin {} OBVIOUS
    <3> QED BY <1>1, <1>4, <3>1, <3>2, Zenon
  <2>2. PICK u1, f1 : Leads(q1, w, u1) /\ Pending(u1, w, n, f1) /\ "DECLARED" \notin f1 BY <2>1, Zenon
  <2> DEFINE v == WithName(w, n, FlagsDeclared(ev, f1), c.type, None, at, {})
  <2>3. Leads(<<ev>>, u1, v)
    <3>1. {} \in SUBSET {"IMPORTED", "ALIAS"} OBVIOUS
    <3> QED BY <1>3, <2>2, <3>1
  <2>4. q2 = <<>> BY <1>6, Zenon DEF Only
  <2>5. <<ev>> \in Seq(Event)
    <3>1. {} \in SUBSET {"IMPORTED", "ALIAS"} OBVIOUS
    <3> QED BY <1>0, <3>1, Zenon
  <2>6. ev.flags = {} BY DEF Declare
  <2>7. c.options \cap {"IMPORTED", "IMPORTED_GLOBAL"} = {} BY <1>6 DEF Options
  <2>8. n \in DOMAIN v.names BY WithNameFacts
  <2> HIDE DEF v
  <2>9. q4 \in Seq(Event) /\ Leads(q4, v, v)
    <3>1. add.kind = "TARGET_ADD_SOURCE" /\ add.name = n BY DEF AddSource
    <3>2. c.source # None => add \in Event BY TargetEventsTyped
    <3> HIDE DEF add
    <3>3. CASE c.type # "INTERFACE" /\ c.source # None
      <4>1. Silent(add, v) BY <2>8, <3>1 DEF Silent
      <4>2. Takes(add, v, v) BY <4>1 DEF Takes
      <4>3. Leads(<<add>>, v, v) BY <4>2, LeadsOne
      <4>4. q4 = <<add>> BY <3>3, Zenon DEF Only
      <4>5. <<add>> \in Seq(Event) BY <3>2, <3>3
      <4> QED BY <4>3, <4>4, <4>5, Zenon
    <3>4. CASE ~(c.type # "INTERFACE" /\ c.source # None)
      <4>1. q4 = <<>> BY <3>4, Zenon DEF Only
      <4>2. Leads(<<>>, v, v) /\ <<>> \in Seq(Event) BY LeadsNowhere
      <4> QED BY <4>1, <4>2, Zenon
    <3> QED BY <3>3, <3>4
  <2>10. TargetEvents(c) = q1 \o q2 \o <<ev>> \o q4 BY <1>6, Zenon DEF TargetEvents
  <2> HIDE DEF q1, q2, ev, q4
  <2>11. "DECLARED" \in FlagsDeclared(ev, f1) /\ FlagsDeclared(ev, f1) \cap ImportFlag = c.options \cap {"IMPORTED", "IMPORTED_GLOBAL"}
    BY <2>6, <2>7 DEF FlagsDeclared, ImportFlag
  <2>12. q2 \in Seq(Event) /\ Leads(q2, u1, u1) BY <2>4, LeadsNowhere
  <2>13. q1 \o q2 \in Seq(Event) /\ Leads(q1 \o q2, w, u1) BY <2>1, <2>2, <2>12, LeadsOn
  <2> DEFINE q12 == q1 \o q2
             q3 == <<ev>>
  <2> HIDE DEF q12, q3
  <2>14. q12 \o q3 \in Seq(Event) /\ Leads(q12 \o q3, w, v)
    <3>1. q12 \in Seq(Event) /\ q3 \in Seq(Event) /\ Leads(q12, w, u1) /\ Leads(q3, u1, v)
      BY <2>3, <2>5, <2>13 DEF q12, q3
    <3>2. q12 \o q3 \in Seq(Event) BY <3>1
    <3> QED BY <3>1, <3>2, LeadsOn
  <2>15. Leads((q12 \o q3) \o q4, w, v) BY <2>9, <2>14, LeadsOn
  <2> QED BY <2>10, <2>11, <2>15 DEF v, q12, q3
<1> QED BY <1>5, <1>6


\* The commands that declare targets, where the script is careful.
LEMMA DeclaringAhead ==
  ASSUME EvalTypes, NEW w, Ahead(w), NEW c \in Coming,
         AddExecutable(c) \/ AddLibrary(c) \/ AddAlias(c) \/ AddCustomTarget(c), evaluation' = "running",
         c.cmd \in {"add_executable", "add_library"} /\ "IMPORTED" \notin c.options => defined = {},
         c.cmd = "add_custom_target" => c.name \notin DOMAIN registry
  PROVE  \E v : Ahead(v)'
<1>0. /\ CommandFields(c) /\ at \in Location /\ RegistryOK /\ OutputsOK /\ stream \in Seq(Event) /\ next_key \in Nat \ {0}
      /\ Leads(stream, Start, w) /\ MirrorNames(w) /\ MirrorSteps(w) /\ w.dirs = OpenDirs
      /\ w.dirs # <<>> /\ Here(w) = at /\ DOMAIN w.names = DOMAIN registry
  BY ComingTyped, HereIsAt DEF EvalTypes, OutputsOK, Ahead, Mirror, MirrorNames
<1>1. ASSUME NEW cmd \in {"add_executable", "add_library"}, AddTarget(c, cmd) PROVE \E v : Ahead(v)'
  <2>1. /\ Run(c, cmd) /\ ~TargetKnown(c.name)
        /\ Register(c.name, c.type, c.options \cap {"IMPORTED", "IMPORTED_GLOBAL"}, None)
        /\ Emit(TargetEvents(c)) /\ UNCHANGED <<defined, outputs, next_key, at, asked>>
    BY <1>1 DEF AddTarget, Diagnose
  <2>2. /\ c.cmd = cmd /\ c.name \in Name /\ c.type \in TargetKind \ {"UTILITY"} /\ c.source \in Path \cup {None}
        /\ c.options \in Options
    BY <1>0, <1>1, <2>1 DEF Run, CommandFields
  <2>3. /\ DOMAIN registry' = DOMAIN registry \cup {c.name} /\ \A x \in DOMAIN registry : registry'[x] = registry[x]
        /\ registry'[c.name].type = c.type /\ registry'[c.name].flags = c.options \cap {"IMPORTED", "IMPORTED_GLOBAL"}
        /\ registry'[c.name].of = None /\ registry'[c.name].at = at
    <3> DEFINE flags == c.options \cap {"IMPORTED", "IMPORTED_GLOBAL"}
    <3>1. flags \in SUBSET {"IMPORTED", "IMPORTED_GLOBAL", "ALIAS"} /\ None \in Name \cup {None} OBVIOUS
    <3>2. Register(c.name, c.type, flags, None) /\ ~TargetKnown(c.name) /\ RegistryOK /\ at \in Location BY <1>0, <2>1
    <3> HIDE DEF flags
    <3>3. /\ DOMAIN registry' = DOMAIN registry \cup {c.name} /\ \A x \in DOMAIN registry : registry'[x] = registry[x]
          /\ registry'[c.name].type = c.type /\ registry'[c.name].flags = flags
          /\ registry'[c.name].of = None /\ registry'[c.name].at = at
      BY <2>2, <3>1, <3>2, RegisterTyped
    <3> QED BY <3>3 DEF flags
  <2>4. TargetEvents(c) \in Seq(Event) BY <2>2, TargetEventsSeq
  <2>5. c.name \notin DOMAIN registry BY <2>1 DEF TargetKnown
  <2>6. "IMPORTED" \notin c.options => ~GlobalDefinition BY <1>1, <2>2 DEF GlobalDefinition
  <2>7. PICK flags : /\ "DECLARED" \in flags /\ flags \cap ImportFlag = c.options \cap {"IMPORTED", "IMPORTED_GLOBAL"}
                     /\ Leads(TargetEvents(c), w, WithName(w, c.name, flags, c.type, None, at, {}))
    BY <1>0, <2>2, <2>5, <2>6, TargetEventsLead
  <2>8. PICK v : v = WithName(w, c.name, flags, c.type, None, at, {}) OBVIOUS
  <2>9. Leads(stream', Start, v) BY <1>0, <2>1, <2>4, <2>7, <2>8, EmitLeads
  <2>10. MirrorNames(v)'
    <3>1. v = WithName(w, c.name, flags, registry'[c.name].type, registry'[c.name].of, registry'[c.name].at, {})
      BY <2>3, <2>8
    <3>2. flags \cap ImportFlag = registry'[c.name].flags /\ "ALIAS" \notin registry'[c.name].flags BY <2>3, <2>7
    <3> QED BY <1>0, <2>3, <2>5, <2>7, <3>1, <3>2, DeclareMirror
  <2>11. v.dirs = w.dirs /\ v.steps = w.steps BY <2>8, WithNameFacts
  <2>12. MirrorSteps(v)' BY <1>0, <2>1, <2>3, <2>11, StepsSame
  <2>13. v.dirs = OpenDirs' BY <1>0, <2>1, <2>11 DEF OpenDirs
  <2> QED BY <2>9, <2>10, <2>12, <2>13 DEF Ahead, Mirror
<1>2. CASE AddAlias(c)
  <2> DEFINE type == registry[c.real].type
             ev == Declare(c.name, type, {"ALIAS"}, c.real)
  <2>1. /\ Run(c, "alias") /\ ~TargetKnown(c.name) /\ TargetKnown(c.real)
        /\ Register(c.name, type, {"ALIAS"}, c.real) /\ Emit(<<ev>>) /\ UNCHANGED <<defined, outputs, next_key, at, asked>>
    BY <1>2 DEF AddAlias, Diagnose
  <2>2. c.name \in Name /\ c.real \in Name /\ c.name \notin DOMAIN registry /\ c.real \in DOMAIN registry
    BY <1>0, <2>1 DEF Run, CommandFields, TargetKnown
  <2>3. type \in TargetKind \ {"UTILITY"} BY <1>0, <2>2 DEF RegistryOK, TargetRecord
  <2>4. /\ DOMAIN registry' = DOMAIN registry \cup {c.name} /\ \A x \in DOMAIN registry : registry'[x] = registry[x]
        /\ registry'[c.name].type = type /\ registry'[c.name].flags = {"ALIAS"}
        /\ registry'[c.name].of = c.real /\ registry'[c.name].at = at
    <3>1. {"ALIAS"} \in SUBSET {"IMPORTED", "IMPORTED_GLOBAL", "ALIAS"} /\ c.real \in Name \cup {None} BY <2>2
    <3>2. RegistryOK /\ at \in Location BY <1>0
    <3>3. ~TargetKnown(c.name) /\ Register(c.name, type, {"ALIAS"}, c.real) BY <2>1
    <3> HIDE DEF type
    <3> QED BY <2>2, <2>3, <3>1, <3>2, <3>3, RegisterTyped
  <2>5. <<ev>> \in Seq(Event) BY <2>2, <2>3, TargetEventsTyped
  <2>6. ev.kind = "TARGET_DECLARE" /\ ev.name = c.name /\ ev.type = type /\ ev.of = c.real /\ ev.flags = {"ALIAS"}
    BY DEF Declare
  <2>7. PICK v : v = WithName(w, c.name, FlagsDeclared(ev, {}), type, c.real, at, {}) OBVIOUS
  <2> HIDE DEF ev, type
  <2>8. Takes(ev, w, v)
    <3>1. Pending(w, w, c.name, {}) BY <1>0, <2>2, PendingNone
    <3>2. "DECLARED" \notin {} OBVIOUS
    <3> QED BY <1>0, <2>6, <2>7, <3>1, <3>2, PendingDeclare
  <2>9. Leads(<<ev>>, w, v) BY <2>8, LeadsOne
  <2>10. Leads(stream', Start, v) BY <1>0, <2>1, <2>5, <2>9, EmitLeads
  <2>11. "DECLARED" \in FlagsDeclared(ev, {}) /\ FlagsDeclared(ev, {}) \cap ImportFlag = {"ALIAS"}
    BY <2>6 DEF FlagsDeclared, ImportFlag
  <2>12. MirrorNames(v)'
    <3>1. v = WithName(w, c.name, FlagsDeclared(ev, {}), registry'[c.name].type, registry'[c.name].of, registry'[c.name].at, {})
      BY <2>4, <2>7
    <3> QED BY <1>0, <2>2, <2>4, <2>11, <3>1, DeclareMirror
  <2>13. v.dirs = w.dirs /\ v.steps = w.steps BY <2>7, WithNameFacts
  <2>14. MirrorSteps(v)' BY <1>0, <2>1, <2>4, <2>13, StepsSame
  <2>15. v.dirs = OpenDirs' BY <1>0, <2>1, <2>13 DEF OpenDirs
  <2> QED BY <2>10, <2>12, <2>14, <2>15 DEF Ahead, Mirror
<1>3. CASE AddCustomTarget(c)
  <2> DEFINE n == c.name
             known == DOMAIN registry \cup {n}
             ev1 == Declare(n, "UNKNOWN", {}, None)
             ev2 == PropSet(n, "EXCLUDE_FROM_ALL", ~c.all)
             ev3 == StepDeclare(next_key, "CUSTOM_TARGET", n)
             rest == StepEvents(next_key, c, known)
  <2>1. /\ Run(c, "add_custom_target") /\ Register(n, "UNKNOWN", {}, None) /\ Emit(<<ev1, ev2, ev3>> \o rest)
        /\ next_key' = next_key + 1 /\ UNCHANGED <<defined, outputs, at>>
    BY <1>3 DEF AddCustomTarget
  <2>2. /\ n \in Name /\ c.all \in BOOLEAN /\ c.dep \in Name \cup File \cup {None} /\ c.program \in Name \cup {None}
        /\ n \notin DOMAIN registry
    BY <1>0, <2>1 DEF Run, CommandFields
  <2>3. "UNKNOWN" \in TargetKind \ {"UTILITY"} BY DEF TargetKind, LibraryKind
  <2>4. /\ DOMAIN registry' = DOMAIN registry \cup {n} /\ \A x \in DOMAIN registry : registry'[x] = registry[x]
        /\ registry'[n].type = "UNKNOWN" /\ registry'[n].flags = {} /\ registry'[n].of = None /\ registry'[n].at = at
    BY <1>0, <2>1, <2>2, <2>3, RegisterTyped DEF TargetKnown
  <2>5. ev1 \in Event /\ ev2 \in Event /\ ev3 \in Event
    <3>1. ev1 \in Event BY <2>2, <2>3, TargetEventsTyped
    <3>2. ev2 \in Event BY <2>2, TargetEventsTyped DEF PropertyKey
    <3>3. ev3 \in Event BY <1>0, <2>2, StepEventsTyped DEF StepKind
    <3> QED BY <3>1, <3>2, <3>3
  <2>6. rest \in Seq(Event) BY <1>0, <2>2, StepEventsSeq
  <2>7. /\ ev1.kind = "TARGET_DECLARE" /\ ev1.name = n /\ ev1.type = "UNKNOWN" /\ ev1.of = None /\ ev1.flags = {}
        /\ ev2.kind = "TARGET_PROP_SET" /\ ev2.name = n /\ ev2.key = "EXCLUDE_FROM_ALL"
    BY DEF Declare, PropSet
  <2> DEFINE f1 == FlagsDeclared(ev1, {})
             f2 == FlagsSet(ev2, f1)
  <2>8. PICK v1 : v1 = WithName(w, n, f1, "UNKNOWN", None, at, {}) OBVIOUS
  <2>9. PICK v2 : v2 = WithName(w, n, f2, "UNKNOWN", None, at, {}) OBVIOUS
  <2>10. PICK v : v = WithSteps(v2, v2.steps \cup {<<next_key, n>>}) OBVIOUS
  <2> HIDE DEF ev1, ev2
  <2>11. "DECLARED" \in f2 /\ f2 \cap ImportFlag = {} BY <2>7 DEF FlagsDeclared, FlagsSet, ImportFlag
  <2> HIDE DEF f1, f2
  <2>12. Takes(ev1, w, v1)
    <3>1. Pending(w, w, n, {}) BY <1>0, <2>2, PendingNone
    <3>2. "DECLARED" \notin {} OBVIOUS
    <3> QED BY <1>0, <2>7, <2>8, <3>1, <3>2, PendingDeclare DEF f1
  <2>13. Takes(ev2, v1, v2)
    <3>1. /\ n \in DOMAIN v1.names /\ v1.names[n].flags = f1 /\ v1.names[n].kind = "UNKNOWN" /\ v1.names[n].of = None
          /\ v1.names[n].at = at /\ v1.names[n].deps = {}
      BY <2>8, WithNameFacts
    <3>2. WithName(v1, n, f2, "UNKNOWN", None, at, {}) = v2 BY <2>8, <2>9, WithNameTwice
    <3> QED BY <2>7, <3>1, <3>2 DEF Takes, EntryOf, f2
  <2>14. v2.dirs = w.dirs /\ v2.steps = w.steps BY <2>9, WithNameFacts
  <2>15. MirrorSteps(v2) BY <1>0, <2>14 DEF MirrorSteps
  <2>16. /\ Takes(ev3, v2, v) /\ MirrorSteps(v)' /\ v.dirs = v2.dirs /\ v.names = v2.names /\ \E s \in v.steps : s[1] = next_key
    <3>1. n \in DOMAIN registry' /\ DOMAIN registry \subseteq DOMAIN registry' /\ v2.dirs # <<>> BY <1>0, <2>4, <2>14
    <3> QED BY <1>0, <2>1, <2>10, <2>15, <3>1, StepMirror
  <2>17. Leads(rest, v, v) BY <1>0, <2>2, <2>16, StepEventsLead
  <2> HIDE DEF ev3, rest
  <2>18. Leads(<<ev1, ev2, ev3>>, w, v) BY <2>12, <2>13, <2>16, LeadsThree
  <2>19. <<ev1, ev2, ev3>> \in Seq(Event) BY <2>5
  <2>20. Leads(<<ev1, ev2, ev3>> \o rest, w, v) /\ <<ev1, ev2, ev3>> \o rest \in Seq(Event)
    BY <2>6, <2>17, <2>18, <2>19, LeadsOn
  <2>21. Leads(stream', Start, v) BY <1>0, <2>1, <2>20, EmitLeads
  <2>22. MirrorNames(v2)'
    <3>1. v2 = WithName(w, n, f2, registry'[n].type, registry'[n].of, registry'[n].at, {}) BY <2>4, <2>9
    <3> QED BY <1>0, <2>2, <2>4, <2>11, <3>1, DeclareMirror
  <2>23. MirrorNames(v)' BY <2>16, <2>22 DEF MirrorNames
  <2>24. v.dirs = OpenDirs' BY <1>0, <2>1, <2>14, <2>16 DEF OpenDirs
  <2> QED BY <2>16, <2>21, <2>23, <2>24 DEF Ahead, Mirror
<1> QED BY <1>1, <1>2, <1>3 DEF AddExecutable, AddLibrary


\* The custom commands.
LEMMA StepAhead ==
  ASSUME EvalTypes, NEW w, Ahead(w), NEW c \in Coming, evaluation' = "running",
         AddCustomCommandOutput(c) \/ AddCustomCommandAppend(c) \/ AddCustomCommandTarget(c)
  PROVE  \E v : Ahead(v)'
<1>0. /\ CommandFields(c) /\ at \in Location /\ RegistryOK /\ OutputsOK /\ stream \in Seq(Event) /\ next_key \in Nat \ {0}
      /\ Leads(stream, Start, w) /\ MirrorNames(w) /\ MirrorSteps(w) /\ w.dirs = OpenDirs
      /\ w.dirs # <<>> /\ DOMAIN w.names = DOMAIN registry
  BY ComingTyped, HereIsAt DEF EvalTypes, OutputsOK, Ahead, Mirror, MirrorNames
<1>1. CASE AddCustomCommandOutput(c)
  <2> DEFINE ev1 == StepDeclare(next_key, "OUTPUT_RULE", None)
             ev2 == StepOutput(next_key, c.file)
             rest == StepEvents(next_key, c, DOMAIN registry)
  <2>1. /\ Run(c, "add_custom_command") /\ Emit(<<ev1, ev2>> \o rest) /\ next_key' = next_key + 1
        /\ UNCHANGED <<registry, defined, at>>
    BY <1>1 DEF AddCustomCommandOutput
  <2>2. c.file \in File /\ c.dep \in Name \cup File \cup {None} /\ c.program \in Name \cup {None}
    BY <1>0, <2>1 DEF Run, CommandFields
  <2>3. ev1 \in Event /\ ev2 \in Event BY <1>0, <2>2, StepEventsTyped DEF StepKind
  <2>4. rest \in Seq(Event) BY <1>0, <2>2, StepEventsSeq
  <2>5. PICK v : v = WithSteps(w, w.steps \cup {<<next_key, None>>}) OBVIOUS
  <2>6. Takes(ev1, w, v) /\ MirrorSteps(v)' /\ v.dirs = w.dirs /\ v.names = w.names /\ \E s \in v.steps : s[1] = next_key
    BY <1>0, <2>1, <2>5, StepMirror
  <2>7. Leads(rest, v, v) BY <1>0, <2>2, <2>6, StepEventsLead
  <2>8. Takes(ev2, v, v)
    <3>1. ev2.kind = "BUILD_STEP_ADD_OUTPUT" /\ ev2.key = next_key BY DEF StepOutput
    <3> HIDE DEF ev2
    <3> QED BY <2>6, <3>1 DEF Takes, Silent
  <2> HIDE DEF ev1, ev2, rest
  <2>9. Leads(<<ev1, ev2>>, w, v) BY <2>6, <2>8, LeadsTwo
  <2>10. <<ev1, ev2>> \in Seq(Event) BY <2>3
  <2>11. <<ev1, ev2>> \o rest \in Seq(Event) /\ Leads(<<ev1, ev2>> \o rest, w, v) BY <2>4, <2>7, <2>9, <2>10, LeadsOn
  <2>12. Leads(stream', Start, v) BY <1>0, <2>1, <2>11, EmitLeads
  <2>13. MirrorNames(v)' BY <1>0, <2>1, <2>6, MirrorSame
  <2> QED BY <1>0, <2>1, <2>6, <2>12, <2>13 DEF Ahead, Mirror, OpenDirs
<1>2. CASE AddCustomCommandAppend(c)
  <2> DEFINE k == outputs[<<at, c.file>>]
             rest == StepEvents(k, c, DOMAIN registry)
  <2>1. /\ Run(c, "append") /\ <<at, c.file>> \in DOMAIN outputs /\ Emit(rest)
        /\ UNCHANGED <<registry, defined, outputs, next_key, at>>
    BY <1>2 DEF AddCustomCommandAppend, Diagnose
  <2>2. c.dep \in Name \cup File \cup {None} /\ c.program \in Name \cup {None} BY <1>0, <2>1 DEF Run, CommandFields
  <2>3. k \in 1 .. (next_key - 1) BY <1>0, <2>1 DEF OutputsOK
  <2>4. k \in Nat /\ \E s \in w.steps : s[1] = k
    <3> HIDE DEF k
    <3> QED BY <1>0, <2>3 DEF MirrorSteps
  <2> HIDE DEF k
  <2>5. rest \in Seq(Event) /\ Leads(rest, w, w) BY <2>2, <2>4, StepEventsSeq, StepEventsLead
  <2> HIDE DEF rest
  <2>6. Leads(stream', Start, w) BY <1>0, <2>1, <2>5, EmitLeads
  <2>7. MirrorNames(w)' /\ MirrorSteps(w)' BY <1>0, <2>1 DEF MirrorNames, MirrorSteps
  <2> QED BY <1>0, <2>1, <2>6, <2>7 DEF Ahead, Mirror, OpenDirs
<1>3. CASE AddCustomCommandTarget(c)
  <2> DEFINE ev == StepDeclare(next_key, c.stage, c.name)
             rest == StepEvents(next_key, c, DOMAIN registry)
  <2>1. /\ Run(c, "hook") /\ TargetKnown(c.name) /\ Emit(<<ev>> \o rest) /\ next_key' = next_key + 1
        /\ UNCHANGED <<registry, defined, outputs, at>>
    BY <1>3 DEF AddCustomCommandTarget, Diagnose
  <2>2. /\ c.name \in Name /\ c.stage \in HookKind
        /\ c.dep \in Name \cup File \cup {None} /\ c.program \in Name \cup {None}
    BY <1>0, <2>1 DEF Run, CommandFields
  <2>3. <<ev>> \in Seq(Event) BY <1>0, <2>2, StepEventsTyped DEF StepKind
  <2>4. rest \in Seq(Event) BY <1>0, <2>2, StepEventsSeq
  <2>5. PICK v : v = WithSteps(w, w.steps \cup {<<next_key, c.name>>}) OBVIOUS
  <2>6. Takes(ev, w, v) /\ MirrorSteps(v)' /\ v.dirs = w.dirs /\ v.names = w.names /\ \E s \in v.steps : s[1] = next_key
    <3>1. c.name \in DOMAIN registry' /\ DOMAIN registry \subseteq DOMAIN registry' BY <2>1 DEF TargetKnown
    <3> QED BY <1>0, <2>1, <2>5, <3>1, StepMirror
  <2>7. Leads(rest, v, v) BY <1>0, <2>2, <2>6, StepEventsLead
  <2> HIDE DEF ev, rest
  <2>8. Leads(<<ev>>, w, v) BY <2>6, LeadsOne
  <2>9. <<ev>> \o rest \in Seq(Event) /\ Leads(<<ev>> \o rest, w, v) BY <2>3, <2>4, <2>7, <2>8, LeadsOn
  <2>10. Leads(stream', Start, v) BY <1>0, <2>1, <2>9, EmitLeads
  <2>11. MirrorNames(v)' BY <1>0, <2>1, <2>6, MirrorSame
  <2> QED BY <1>0, <2>1, <2>6, <2>10, <2>11 DEF Ahead, Mirror, OpenDirs
<1> QED BY <1>1, <1>2, <1>3

\* The commands that change targets and directories.
LEMMA ChangingAhead ==
  ASSUME EvalTypes, NEW w, Ahead(w), NEW c \in Coming, evaluation' = "running",
         \/ AddDependencies(c) \/ TargetLinkLibraries(c) \/ TargetCompileDefinitions(c)
         \/ AddCompileDefinitions(c) \/ AddSubdirectory(c) \/ EndSubdirectory(c)
  PROVE  \E v : Ahead(v)'
<1>0. /\ CommandFields(c) /\ at \in Location /\ RegistryOK /\ OutputsOK /\ stream \in Seq(Event) /\ next_key \in Nat \ {0}
      /\ Leads(stream, Start, w) /\ MirrorNames(w) /\ MirrorSteps(w) /\ w.dirs = OpenDirs
      /\ w.dirs # <<>> /\ Here(w) = at /\ DOMAIN w.names = DOMAIN registry
  BY ComingTyped, HereIsAt DEF EvalTypes, OutputsOK, Ahead, Mirror, MirrorNames
<1>1. ASSUME UNCHANGED <<registry, next_key>> PROVE \A v : v.names = w.names /\ v.steps = w.steps => MirrorNames(v)' /\ MirrorSteps(v)'
  BY <1>0, <1>1, MirrorSame, StepsSame
<1>2. ASSUME NEW q \in Seq(Event), Leads(q, w, w), Emit(q), UNCHANGED <<registry, next_key, at>> PROVE \E v : Ahead(v)'
  <2>1. Leads(stream', Start, w) BY <1>0, <1>2, EmitLeads
  <2> QED BY <1>0, <1>1, <1>2, <2>1 DEF Ahead, Mirror, OpenDirs
<1>3. CASE AddDependencies(c)
  <2> DEFINE ev == AddDependency(c.name, c.dep)
             old == w.names[c.name]
  <2>1. /\ Run(c, "add_dependencies") /\ TargetKnown(c.name) /\ TargetKnown(c.dep) /\ Emit(<<ev>>)
        /\ UNCHANGED <<registry, defined, outputs, next_key, at>>
    BY <1>3 DEF AddDependencies, Diagnose
  <2>2. c.name \in Name /\ c.dep \in Name /\ c.name \in DOMAIN w.names /\ c.dep \in DOMAIN registry
    BY <1>0, <2>1 DEF Run, CommandFields, TargetKnown
  <2>3. <<ev>> \in Seq(Event) BY <2>2, TargetEventsTyped
  <2>4. ev.kind = "TARGET_ADD_DEPENDENCY" /\ ev.name = c.name /\ ev.dep = c.dep BY DEF AddDependency
  <2>5. PICK v : v = WithName(w, c.name, old.flags, old.kind, old.of, old.at, old.deps \cup {c.dep}) OBVIOUS
  <2> HIDE DEF ev
  <2>6. Takes(ev, w, v) BY <2>2, <2>4, <2>5 DEF Takes, EntryOf
  <2>7. Leads(<<ev>>, w, v) BY <2>6, LeadsOne
  <2>8. Leads(stream', Start, v) BY <1>0, <2>1, <2>3, <2>7, EmitLeads
  <2>9. /\ v.dirs = w.dirs /\ v.steps = w.steps /\ DOMAIN v.names = DOMAIN w.names \cup {c.name}
        /\ \A x \in DOMAIN w.names : x # c.name => v.names[x] = w.names[x]
        /\ v.names[c.name].flags = old.flags /\ v.names[c.name].kind = old.kind /\ v.names[c.name].of = old.of
        /\ v.names[c.name].at = old.at /\ v.names[c.name].deps = old.deps \cup {c.dep}
    <3> HIDE DEF old
    <3> QED BY <2>5, WithNameFacts
  <2>10. MirrorNames(v)'
    <3>1. ASSUME NEW x \in DOMAIN registry
          PROVE  /\ "DECLARED" \in v.names[x].flags /\ v.names[x].flags \cap ImportFlag = registry[x].flags
                 /\ v.names[x].kind = registry[x].type
                 /\ v.names[x].of = registry[x].of
                 /\ v.names[x].at = registry[x].at
                 /\ v.names[x].deps \subseteq DOMAIN registry
                 /\ "ALIAS" \in registry[x].flags => registry[x].of \in DOMAIN registry
      BY <1>0, <2>2, <2>9 DEF MirrorNames
    <3>2. DOMAIN v.names = DOMAIN registry BY <1>0, <2>2, <2>9
    <3> QED BY <2>1, <3>1, <3>2 DEF MirrorNames
  <2>11. MirrorSteps(v)' BY <1>0, <2>1, <2>9, StepsSame
  <2> QED BY <1>0, <2>1, <2>8, <2>9, <2>10, <2>11 DEF Ahead, Mirror, OpenDirs
<1>4. CASE TargetLinkLibraries(c)
  <2> DEFINE item == [vis |-> c.vis, item |-> c.item, ref |-> TargetKnown(c.item)]
             ev == LinkLibraries(c.name, item)
  <2>1. /\ Run(c, "target_link_libraries") /\ Emit(<<ev>>) /\ Changeable(c.name)
        /\ UNCHANGED <<registry, defined, outputs, next_key, at>>
    BY <1>4 DEF TargetLinkLibraries, Diagnose
  <2>2. c.name \in Name /\ c.vis \in Visibility /\ c.item \in Name BY <1>0, <2>1 DEF Run, CommandFields
  <2>3. item \in LinkItem
    <3>1. TargetKnown(c.item) \in BOOLEAN BY DEF TargetKnown
    <3> QED BY <2>2, <3>1 DEF LinkItem
  <2> HIDE DEF item
  <2>4. <<ev>> \in Seq(Event) BY <2>2, <2>3, TargetEventsTyped
  <2>5. ev.kind = "TARGET_LINK_LIBRARIES" /\ ev.name = c.name BY DEF LinkLibraries
  <2>6. c.name \in DOMAIN w.names BY <1>0, <2>1 DEF Changeable, TargetVisible, TargetKnown
  <2> HIDE DEF ev
  <2>7. Takes(ev, w, w) BY <2>5, <2>6 DEF Takes, Silent
  <2> QED BY <1>2, <2>1, <2>4, <2>7, LeadsOne
<1>5. CASE TargetCompileDefinitions(c)
  <2> DEFINE ev == CompileDefinitions(c.name, c.vis)
  <2>1. /\ Run(c, "target_compile_definitions") /\ Emit(<<ev>>) /\ Changeable(c.name)
        /\ UNCHANGED <<registry, defined, outputs, next_key, at, asked>>
    BY <1>5 DEF TargetCompileDefinitions, Diagnose
  <2>2. c.name \in Name /\ c.vis \in Visibility BY <1>0, <2>1 DEF Run, CommandFields
  <2>3. <<ev>> \in Seq(Event) BY <2>2, TargetEventsTyped
  <2>4. ev.kind = "TARGET_COMPILE_DEFINITIONS" /\ ev.name = c.name BY DEF CompileDefinitions
  <2>5. c.name \in DOMAIN w.names BY <1>0, <2>1 DEF Changeable, TargetVisible, TargetKnown
  <2> HIDE DEF ev
  <2>6. Takes(ev, w, w) BY <2>4, <2>5 DEF Takes, Silent
  <2> QED BY <1>2, <2>1, <2>3, <2>6, LeadsOne
<1>6. CASE AddCompileDefinitions(c)
  <2>0. Run(c, "add_compile_definitions") /\ UNCHANGED <<registry, outputs, next_key, at, asked>>
    BY <1>6 DEF AddCompileDefinitions
  <2>1. CASE UNCHANGED <<stream, defined>>
    <3>1. Leads(stream', Start, w) BY <1>0, <2>1
    <3> QED BY <1>0, <1>1, <2>0, <3>1 DEF Ahead, Mirror, OpenDirs
  <2>2. CASE ~UNCHANGED <<stream, defined>>
    <3>1. PICK known \in KnownTargets :
            Emit([i \in DOMAIN known |-> CompileDefinitions(known[i], "PRIVATE")] \o <<DirectoryMutate("PRIVATE")>>)
      BY <1>6, <2>2 DEF AddCompileDefinitions
    <3>2. PICK k \in Nat : DOMAIN known = 1 .. k /\ \A i \in 1 .. k : known[i] \in DOMAIN registry
      BY <1>0, KnownTyped
    <3> DEFINE first == [i \in 1 .. k |-> CompileDefinitions(known[i], "PRIVATE")]
               last == DirectoryMutate("PRIVATE")
    <3>3. ASSUME NEW i \in 1 .. k
          PROVE  CompileDefinitions(known[i], "PRIVATE") \in Event /\ Silent(CompileDefinitions(known[i], "PRIVATE"), w)
      <4> DEFINE ev == CompileDefinitions(known[i], "PRIVATE")
      <4>1. known[i] \in Name /\ known[i] \in DOMAIN w.names BY <1>0, <3>2 DEF RegistryOK
      <4>2. ev \in Event BY <4>1, TargetEventsTyped DEF Visibility
      <4>3. ev.kind = "TARGET_COMPILE_DEFINITIONS" /\ ev.name = known[i] BY DEF CompileDefinitions
      <4> HIDE DEF ev
      <4>4. Silent(ev, w) BY <4>1, <4>3 DEF Silent
      <4> QED BY <4>2, <4>4 DEF ev
    <3>4. first \in Seq(Event) /\ Len(first) = k /\ \A i \in 1 .. k : Silent(first[i], w) BY <3>3
    <3>5. last \in Event /\ last.kind = "DIRECTORY_PROPERTY_MUTATE" BY DirectoryEvents DEF Visibility, DirectoryMutate
    <3>6. Emit(first \o <<last>>) BY <3>1, <3>2
    <3> HIDE DEF first, last
    <3>7. Leads(first, w, w) BY <3>4, LeadsSilent
    <3>8. Takes(last, w, w) BY <1>0, <3>5 DEF Takes, Silent
    <3>9. Leads(<<last>>, w, w) /\ <<last>> \in Seq(Event) BY <3>5, <3>8, LeadsOne
    <3>10. first \o <<last>> \in Seq(Event) /\ Leads(first \o <<last>>, w, w) BY <3>4, <3>7, <3>9, LeadsOn
    <3> QED BY <1>2, <2>0, <3>6, <3>10
  <2> QED BY <2>1, <2>2
<1>7. CASE AddSubdirectory(c)
  <2> DEFINE ev == Enter(c.sub)
  <2>1. /\ at = Root /\ Run(c, "add_subdirectory") /\ Emit(<<ev>>) /\ at' = c.sub
        /\ UNCHANGED <<registry, defined, outputs, next_key, asked>>
    BY <1>7 DEF AddSubdirectory
  <2>2. c.sub \in Location /\ c.sub # Root BY <1>0, <2>1 DEF Run, CommandFields
  <2>3. <<ev>> \in Seq(Event) BY <2>2, DirectoryEvents
  <2>4. ev.kind = "DIRECTORY_ENTER" /\ ev.at = c.sub BY DEF Enter
  <2>5. PICK v : v = WithDirs(w, Append(w.dirs, c.sub)) OBVIOUS
  <2> HIDE DEF ev
  <2>6. Takes(ev, w, v) BY <2>4, <2>5 DEF Takes
  <2>7. Leads(stream', Start, v) BY <1>0, <2>1, <2>3, <2>6, LeadsOne, EmitLeads
  <2>8. v.names = w.names /\ v.steps = w.steps /\ v.dirs = Append(w.dirs, c.sub) BY <2>5 DEF WithDirs
  <2>9. v.dirs = OpenDirs'
    <3>1. w.dirs = <<Root>> BY <1>0, <2>1 DEF OpenDirs
    <3>2. Append(<<Root>>, c.sub) = <<Root, c.sub>>
      <4> DEFINE s == <<Root>>
                 r == Append(s, c.sub)
      <4>1. s \in Seq(Location) /\ Len(s) = 1 /\ s[1] = Root BY RootAssumption
      <4> HIDE DEF s
      <4>2. r \in Seq(Location) /\ Len(r) = 2 /\ r[1] = Root /\ r[2] = c.sub
        <5>0. s \in Seq(Location) /\ c.sub \in Location BY <2>2, <4>1
        <5>1. /\ r \in Seq(Location) /\ Len(r) = Len(s) + 1 /\ r[Len(s) + 1] = c.sub
              /\ \A i \in 1 .. Len(s) : r[i] = s[i]
          BY <5>0, AppendProperties
        <5> QED BY <4>1, <5>1
      <4> HIDE DEF r
      <4>3. <<Root, c.sub>> \in Seq(Location) /\ Len(<<Root, c.sub>>) = 2 BY <2>2, RootAssumption
      <4>4. \A i \in 1 .. Len(r) : r[i] = <<Root, c.sub>>[i] BY <4>2
      <4>5. r = <<Root, c.sub>> BY <4>2, <4>3, <4>4, SeqEqual
      <4> QED BY <4>5 DEF r, s
    <3> QED BY <2>1, <2>2, <2>8, <3>1, <3>2 DEF OpenDirs
  <2> QED BY <1>1, <2>1, <2>7, <2>8, <2>9 DEF Ahead, Mirror
<1>8. CASE EndSubdirectory(c)
  <2> DEFINE ev == Leave(at)
  <2>1. /\ at # Root /\ Run(c, "end of CMakeLists.txt") /\ Emit(<<ev>>) /\ at' = Root
        /\ UNCHANGED <<registry, outputs, next_key, asked>>
    BY <1>8 DEF EndSubdirectory
  <2>2. <<ev>> \in Seq(Event) BY <1>0, DirectoryEvents
  <2>3. ev.kind = "DIRECTORY_LEAVE" /\ ev.at = at BY DEF Leave
  <2>4. PICK v : v = WithDirs(w, SubSeq(w.dirs, 1, Len(w.dirs) - 1)) OBVIOUS
  <2> HIDE DEF ev
  <2>5. Takes(ev, w, v) BY <1>0, <2>3, <2>4 DEF Takes
  <2>6. Leads(stream', Start, v) BY <1>0, <2>1, <2>2, <2>5, LeadsOne, EmitLeads
  <2>7. v.names = w.names /\ v.steps = w.steps /\ v.dirs = SubSeq(w.dirs, 1, Len(w.dirs) - 1) BY <2>4 DEF WithDirs
  <2>8. v.dirs = OpenDirs'
    <3>1. w.dirs = <<Root, at>> BY <1>0, <2>1 DEF OpenDirs
    <3>2. SubSeq(<<Root, at>>, 1, Len(<<Root, at>>) - 1) = <<Root>>
      <4> DEFINE s == <<Root, at>>
                 r == SubSeq(s, 1, Len(s) - 1)
      <4>1. s \in Seq(Location) /\ Len(s) = 2 /\ s[1] = Root BY <1>0, RootAssumption
      <4> HIDE DEF s
      <4>2. r \in Seq(Location) /\ Len(r) = 1 /\ r[1] = Root BY <4>1
      <4> HIDE DEF r
      <4>3. <<Root>> \in Seq(Location) /\ Len(<<Root>>) = 1 /\ <<Root>>[1] = Root BY RootAssumption
      <4>4. r = <<Root>> BY <4>2, <4>3, SeqEqual
      <4> QED BY <4>4 DEF r, s
    <3> QED BY <2>1, <2>7, <3>1, <3>2 DEF OpenDirs
  <2> QED BY <1>1, <2>1, <2>6, <2>7, <2>8 DEF Ahead, Mirror
<1> QED BY <1>3, <1>4, <1>5, <1>6, <1>7, <1>8


-----------------------------------------------------------------------------
(* What the script has run so far.                                         *)

Earlier(c) == \E i \in DOMAIN Scripts[script] : i < line /\ c \in Scripts[script][i]

\* A registered name was declared by an earlier line, and so were definitions
\* of the scope.
History ==
    /\ \A n \in DOMAIN registry : \E c : Earlier(c) /\ c.cmd \in DeclaresTarget /\ c.name = n
    /\ defined # {} => \E c : Earlier(c) /\ c.cmd = "add_compile_definitions"

\* A command that has run is an earlier one from then on.
LEMMA EarlierKept ==
  ASSUME EvalTypes, NEW c \in Coming, NEW cmd, Run(c, cmd)
  PROVE  Earlier(c)' /\ \A d : Earlier(d) => Earlier(d)'
<1>1. line \in DOMAIN Scripts[script] /\ c \in Scripts[script][line] /\ line \in Nat /\ line' = line + 1 /\ script' = script
  BY ComingTyped DEF EvalTypes, Run
<1>2. DOMAIN Scripts[script] \subseteq Nat
  <2>1. Scripts[script] \in Seq(SUBSET Command) BY ScriptsAssumption DEF EvalTypes
  <2> QED BY <2>1
<1> QED BY <1>1, <1>2 DEF Earlier

\* Every step keeps the history.
LEMMA HistoryStep == EvalTypes /\ History /\ [Next]_vars => History'
<1> SUFFICES ASSUME EvalTypes, History, [Next]_vars PROVE History' OBVIOUS
<1>1. CASE UNCHANGED <<registry, defined, script, line>> BY <1>1 DEF History, Earlier
<1>2. ASSUME NEW c \in Coming, NEW cmd, Run(c, cmd),
             \/ DOMAIN registry' = DOMAIN registry
             \/ DOMAIN registry' = DOMAIN registry \cup {c.name} /\ cmd \in DeclaresTarget,
             defined' \subseteq defined \/ cmd = "add_compile_definitions"
      PROVE  History'
  <2>1. Earlier(c)' /\ (\A d : Earlier(d) => Earlier(d)') /\ c.cmd = cmd BY <1>2, EarlierKept DEF Run
  <2>2. ASSUME NEW n \in DOMAIN registry' PROVE \E d : Earlier(d)' /\ d.cmd \in DeclaresTarget /\ d.name = n
    <3>1. CASE n \in DOMAIN registry
      <4>1. PICK d : Earlier(d) /\ d.cmd \in DeclaresTarget /\ d.name = n BY <3>1 DEF History
      <4> QED BY <2>1, <4>1
    <3>2. CASE n \notin DOMAIN registry
      <4>1. n = c.name /\ cmd \in DeclaresTarget BY <1>2, <2>2, <3>2
      <4> QED BY <2>1, <4>1
    <3> QED BY <3>1, <3>2
  <2>3. ASSUME defined' # {} PROVE \E d : Earlier(d)' /\ d.cmd = "add_compile_definitions"
    <3>1. CASE cmd = "add_compile_definitions" BY <2>1, <3>1
    <3>2. CASE cmd # "add_compile_definitions"
      <4>1. defined # {} BY <1>2, <2>3, <3>2
      <4>2. PICK d : Earlier(d) /\ d.cmd = "add_compile_definitions" BY <4>1 DEF History
      <4> QED BY <2>1, <4>2
    <3> QED BY <3>1, <3>2
  <2> QED BY <2>2, <2>3 DEF History
<1>3. ASSUME NEW n, NEW type, NEW flags, NEW of, Register(n, type, flags, of)
      PROVE  DOMAIN registry' = DOMAIN registry \cup {n}
  BY <1>3 DEF Register
<1>4. ASSUME NEW c, NEW cmd, NEW wrong, Diagnose(c, cmd, wrong) PROVE History' BY <1>1, <1>4 DEF Diagnose
<1>5. ASSUME NEW c \in Coming, NEW cmd \in {"add_executable", "add_library"}, AddTarget(c, cmd) PROVE History'
  BY <1>2, <1>3, <1>4, <1>5 DEF AddTarget, DeclaresTarget
<1>6. ASSUME NEW c \in Coming, AddAlias(c) PROVE History' BY <1>2, <1>3, <1>4, <1>6 DEF AddAlias, DeclaresTarget
<1>7. ASSUME NEW c \in Coming, AddCustomTarget(c) PROVE History'
  BY <1>2, <1>3, <1>7 DEF AddCustomTarget, DeclaresTarget
<1>8. ASSUME NEW c \in Coming, AddCustomCommandOutput(c) PROVE History' BY <1>2, <1>8 DEF AddCustomCommandOutput
<1>9. ASSUME NEW c \in Coming, AddCustomCommandAppend(c) PROVE History' BY <1>2, <1>4, <1>9 DEF AddCustomCommandAppend
<1>10. ASSUME NEW c \in Coming, AddCustomCommandTarget(c) PROVE History' BY <1>2, <1>4, <1>10 DEF AddCustomCommandTarget
<1>11. ASSUME NEW c \in Coming, AddDependencies(c) PROVE History' BY <1>2, <1>4, <1>11 DEF AddDependencies
<1>12. ASSUME NEW c \in Coming, TargetLinkLibraries(c) PROVE History' BY <1>2, <1>4, <1>12 DEF TargetLinkLibraries
<1>13. ASSUME NEW c \in Coming, TargetCompileDefinitions(c) PROVE History' BY <1>2, <1>4, <1>13 DEF TargetCompileDefinitions
<1>14. ASSUME NEW c \in Coming, AddCompileDefinitions(c) PROVE History' BY <1>2, <1>14 DEF AddCompileDefinitions
<1>15. ASSUME NEW c \in Coming, AddSubdirectory(c) PROVE History' BY <1>2, <1>15 DEF AddSubdirectory
<1>16. ASSUME NEW c \in Coming, EndSubdirectory(c) PROVE History' BY <1>2, <1>16 DEF EndSubdirectory
<1>17. CASE FinishEvaluation BY <1>1, <1>17 DEF FinishEvaluation
<1>18. CASE ApplyNextEvent BY <1>1, <1>18 DEF ApplyNextEvent
<1>19. CASE Passes BY <1>1, <1>19 DEF Passes, eval_vars
<1>20. CASE Stop \/ UNCHANGED vars BY <1>1, <1>20 DEF Stop, vars, eval_vars
<1>21. ASSUME NEW c \in Coming, AddExecutable(c) \/ AddLibrary(c) PROVE History' BY <1>5, <1>21 DEF AddExecutable, AddLibrary
<1> QED
  BY <1>6, <1>7, <1>8, <1>9, <1>10, <1>11, <1>12, <1>13, <1>14, <1>15, <1>16, <1>17, <1>18, <1>19, <1>20, <1>21 DEF Next

\* A careful script declares a custom target under a new name, and no other
\* target in the scope of definitions.
LEMMA CarefulHere ==
  ASSUME Careful, EvalTypes, History, NEW c \in Coming
  PROVE  /\ c.cmd = "add_custom_target" => c.name \notin DOMAIN registry
         /\ c.cmd \in {"add_executable", "add_library"} /\ "IMPORTED" \notin c.options => defined = {}
<1>1. script \in DOMAIN Scripts /\ line \in DOMAIN Scripts[script] /\ c \in Scripts[script][line]
  BY ComingTyped DEF EvalTypes
<1>2. ASSUME NEW d, Earlier(d)
      PROVE  /\ d.cmd \in DeclaresTarget /\ c.cmd = "add_custom_target" => d.name # c.name
             /\ d.cmd = "add_compile_definitions" /\ c.cmd \in {"add_executable", "add_library"} => "IMPORTED" \in c.options
  <2>1. PICK i \in DOMAIN Scripts[script] : i < line /\ d \in Scripts[script][i] BY <1>2 DEF Earlier
  <2> QED BY <1>1, <2>1 DEF Careful
<1> QED BY <1>2 DEF History


-----------------------------------------------------------------------------
(* The inductive invariant of a configure run.                             *)

\* While the script runs, the stream leads from the root directory to the
\* registry; while the builder consumes it, the rest leads there from the
\* draft; the passes find the registry in the draft.
ConfigureInv ==
    /\ evaluation # "clean" => BuilderInit
    /\ evaluation = "running" => \E w : Ahead(w)
    /\ evaluation = "clean" /\ phase = "open" => \E w : Leads(stream, View, w) /\ w.dirs = <<>> /\ Mirror(w)
    /\ evaluation = "clean" /\ phase # "open" => phase # "failed" /\ Mirror(View)

\* An empty draft is mirrored by an empty registry.
LEMMA ConfigureStart == Init => ConfigureInv /\ History
<1> SUFFICES ASSUME Init PROVE ConfigureInv /\ History OBVIOUS
<1>1. /\ DOMAIN registry = {} /\ next_key = 1 /\ at = Root /\ stream = <<>> /\ evaluation = "running" /\ BuilderInit
      /\ defined = {}
  BY DEF Init
<1>2. PICK w : w = Start OBVIOUS
<1>3. Leads(stream, Start, w) BY <1>1, <1>2, LeadsNowhere
<1>4. w.dirs = <<Root>> /\ DOMAIN w.names = {} /\ w.steps = {} BY <1>2 DEF Start
<1>5. Mirror(w) BY <1>1, <1>4 DEF Mirror, MirrorNames, MirrorSteps
<1>6. Ahead(w) BY <1>1, <1>3, <1>4, <1>5 DEF Ahead, OpenDirs
<1> QED BY <1>1, <1>6 DEF ConfigureInv, History

\* A command runs or fails.
LEMMA CommandOutcome ==
  ASSUME EvalTypes, NEW c \in Coming,
         \/ AddExecutable(c) \/ AddLibrary(c) \/ AddAlias(c) \/ AddCustomTarget(c)
         \/ AddCustomCommandOutput(c) \/ AddCustomCommandAppend(c) \/ AddCustomCommandTarget(c)
         \/ AddDependencies(c) \/ TargetLinkLibraries(c) \/ TargetCompileDefinitions(c)
         \/ AddCompileDefinitions(c) \/ AddSubdirectory(c) \/ EndSubdirectory(c)
  PROVE  evaluation = "running" /\ evaluation' \in {"running", "error"}
<1>1. evaluation = "running" BY ComingTyped DEF EvalTypes
<1>2. ASSUME NEW cmd, Run(c, cmd) PROVE evaluation' \in {"running", "error"} BY <1>1, <1>2 DEF Run
<1>3. ASSUME NEW cmd, NEW wrong, Diagnose(c, cmd, wrong) PROVE evaluation' \in {"running", "error"} BY <1>3 DEF Diagnose
<1>4. ASSUME AddExecutable(c) PROVE evaluation' \in {"running", "error"} BY <1>2, <1>3, <1>4 DEF AddExecutable, AddTarget
<1>5. ASSUME AddLibrary(c) PROVE evaluation' \in {"running", "error"} BY <1>2, <1>3, <1>5 DEF AddLibrary, AddTarget
<1>6. ASSUME AddAlias(c) PROVE evaluation' \in {"running", "error"} BY <1>2, <1>3, <1>6 DEF AddAlias
<1>7. ASSUME AddCustomTarget(c) PROVE evaluation' \in {"running", "error"} BY <1>2, <1>3, <1>7 DEF AddCustomTarget
<1>8. ASSUME AddCustomCommandOutput(c) PROVE evaluation' \in {"running", "error"} BY <1>2, <1>3, <1>8 DEF AddCustomCommandOutput
<1>9. ASSUME AddCustomCommandAppend(c) PROVE evaluation' \in {"running", "error"} BY <1>2, <1>3, <1>9 DEF AddCustomCommandAppend
<1>10. ASSUME AddCustomCommandTarget(c) PROVE evaluation' \in {"running", "error"} BY <1>2, <1>3, <1>10 DEF AddCustomCommandTarget
<1>11. ASSUME AddDependencies(c) PROVE evaluation' \in {"running", "error"} BY <1>2, <1>3, <1>11 DEF AddDependencies
<1>12. ASSUME TargetLinkLibraries(c) PROVE evaluation' \in {"running", "error"} BY <1>2, <1>3, <1>12 DEF TargetLinkLibraries
<1>13. ASSUME TargetCompileDefinitions(c) PROVE evaluation' \in {"running", "error"} BY <1>2, <1>3, <1>13 DEF TargetCompileDefinitions
<1>14. ASSUME AddCompileDefinitions(c) PROVE evaluation' \in {"running", "error"} BY <1>2, <1>3, <1>14 DEF AddCompileDefinitions
<1>15. ASSUME AddSubdirectory(c) PROVE evaluation' \in {"running", "error"} BY <1>2, <1>3, <1>15 DEF AddSubdirectory
<1>16. ASSUME EndSubdirectory(c) PROVE evaluation' \in {"running", "error"} BY <1>2, <1>3, <1>16 DEF EndSubdirectory
<1> QED BY <1>1, <1>4, <1>5, <1>6, <1>7, <1>8, <1>9, <1>10, <1>11, <1>12, <1>13, <1>14, <1>15, <1>16

\* The commands of a careful script.
LEMMA CommandKeeps ==
  ASSUME Careful, EvalTypes, History, ConfigureInv, NEW c \in Coming,
         \/ AddExecutable(c) \/ AddLibrary(c) \/ AddAlias(c) \/ AddCustomTarget(c)
         \/ AddCustomCommandOutput(c) \/ AddCustomCommandAppend(c) \/ AddCustomCommandTarget(c)
         \/ AddDependencies(c) \/ TargetLinkLibraries(c) \/ TargetCompileDefinitions(c)
         \/ AddCompileDefinitions(c) \/ AddSubdirectory(c) \/ EndSubdirectory(c)
  PROVE  ConfigureInv'
<1>1. evaluation = "running" /\ evaluation' \in {"running", "error"} BY CommandOutcome
<1>2. UNCHANGED bm_vars BY DeclaringTypes, StepTypes, ChangingTypes
<1>3. BuilderInit' BY <1>1, <1>2 DEF ConfigureInv, BuilderInit, bm_vars
<1>4. PICK w : Ahead(w) BY <1>1 DEF ConfigureInv
<1>5. ASSUME evaluation' = "running" PROVE \E v : Ahead(v)'
  BY <1>4, <1>5, CarefulHere, DeclaringAhead, StepAhead, ChangingAhead
<1> QED BY <1>1, <1>3, <1>5 DEF ConfigureInv

\* The root directory around the stream.
LEMMA FinishKeeps ==
  ASSUME EvalTypes, ConfigureInv, FinishEvaluation
  PROVE  ConfigureInv'
<1>1. /\ evaluation = "running" /\ at = Root /\ evaluation' = "clean"
      /\ stream' = <<Enter(Root)>> \o stream \o <<Leave(Root)>>
      /\ UNCHANGED <<bm_vars, registry, next_key>> /\ stream \in Seq(Event)
  BY DEF FinishEvaluation, EvalTypes
<1>2. BuilderInit /\ \E w : Ahead(w) BY <1>1 DEF ConfigureInv
<1>3. PICK w : Ahead(w) BY <1>2
<1>4. Leads(stream, Start, w) /\ Mirror(w) /\ w.dirs = <<Root>> BY <1>1, <1>3 DEF Ahead, OpenDirs
<1>5. PICK u : u = View OBVIOUS
<1>6. u.dirs = <<>> /\ u.names = [n \in {} |-> n] /\ u.steps = {}
  <2>1. View.dirs = ViewDirs /\ View.names = ViewNames /\ View.steps = ViewSteps BY DEF View
  <2>2. ViewDirs = <<>> BY <1>2 DEF ViewDirs, BuilderInit
  <2>3. ViewNames = [n \in {} |-> n] BY <1>2 DEF ViewNames, BuilderInit
  <2>4. ViewSteps = {} BY <1>2 DEF ViewSteps, BuilderInit
  <2> QED BY <1>5, <2>1, <2>2, <2>3, <2>4
<1> DEFINE in == Enter(Root)
           out == Leave(Root)
<1>7. in.kind = "DIRECTORY_ENTER" /\ in.at = Root /\ out.kind = "DIRECTORY_LEAVE" /\ out.at = Root BY DEF Enter, Leave
<1>8. <<in>> \in Seq(Event) /\ <<out>> \in Seq(Event) BY DirectoryEvents, RootAssumption
<1> HIDE DEF in, out
<1>9. Takes(in, u, Start)
  <2>1. Append(<<>>, Root) = <<Root>> OBVIOUS
  <2>2. Start = WithDirs(u, Append(u.dirs, in.at)) BY <1>6, <1>7, <2>1 DEF Start, WithDirs
  <2> QED BY <1>7, <2>2 DEF Takes
<1>10. PICK v : v = WithDirs(w, SubSeq(w.dirs, 1, Len(w.dirs) - 1)) OBVIOUS
<1>11. Takes(out, w, v)
  <2>1. w.dirs # <<>> /\ Here(w) = Root BY <1>4 DEF Here
  <2> QED BY <1>7, <1>10, <2>1 DEF Takes
<1>12. v.dirs = <<>> /\ v.names = w.names /\ v.steps = w.steps
  <2>1. SubSeq(<<Root>>, 1, Len(<<Root>>) - 1) = <<>> OBVIOUS
  <2> QED BY <1>4, <1>10, <2>1 DEF WithDirs
<1>13. Leads(<<in>>, u, Start) /\ Leads(<<out>>, w, v) BY <1>9, <1>11, LeadsOne
<1>14. <<in>> \o stream \in Seq(Event) /\ Leads(<<in>> \o stream, u, w) BY <1>1, <1>4, <1>8, <1>13, LeadsOn
<1>15. Leads((<<in>> \o stream) \o <<out>>, u, v) BY <1>8, <1>13, <1>14, LeadsOn
<1>16. Leads(stream', u, v) BY <1>1, <1>15 DEF in, out
<1>17. View' = u BY <1>1, <1>5 DEF View, ViewDirs, ViewNames, ViewName, ViewSteps, bm_vars
<1>18. Mirror(v)' BY <1>1, <1>4, <1>12 DEF Mirror, MirrorNames, MirrorSteps
<1>19. phase' = "open" BY <1>1, <1>2 DEF BuilderInit, bm_vars
<1> QED BY <1>1, <1>12, <1>16, <1>17, <1>18, <1>19 DEF ConfigureInv

\* The builder takes the next event, and is not surprised.
LEMMA ApplyKeeps ==
  ASSUME EvalTypes, BuilderInv, ConfigureInv, ApplyNextEvent
  PROVE  ConfigureInv'
<1>1. /\ evaluation = "clean" /\ evaluation' = "clean" /\ stream # <<>> /\ stream \in Seq(Event) /\ stream' = Tail(stream)
      /\ ApplyEvent(Head(stream)) /\ UNCHANGED <<registry, next_key>> /\ phase = "open"
  BY DEF ApplyNextEvent, EvalTypes, ApplyEvent
<1>2. PICK w : Leads(stream, View, w) /\ w.dirs = <<>> /\ Mirror(w) BY <1>1 DEF ConfigureInv
<1>3. PICK u : u = View OBVIOUS
<1>4. PICK v : Takes(Head(stream), u, v) /\ Leads(Tail(stream), v, w)
  <2>1. Leads(stream, u, w) BY <1>2, <1>3
  <2> QED BY <1>1, <2>1, LeadsNext
<1>5. Head(stream) \in Event BY <1>1
<1>6. phase' = "open" /\ View' = v BY <1>1, <1>3, <1>4, <1>5, ApplyView
<1>7. Leads(stream', View', w) BY <1>1, <1>4, <1>6
<1>8. Mirror(w)' BY <1>1, <1>2 DEF Mirror, MirrorNames, MirrorSteps
<1> QED BY <1>1, <1>2, <1>6, <1>7, <1>8 DEF ConfigureInv

\* The passes: the finalization finds no directory open.
LEMMA PassesAhead ==
  ASSUME BuilderInv, ConfigureInv, Passes
  PROVE  ConfigureInv'
<1>1. /\ evaluation = "clean" /\ evaluation' = "clean" /\ stream = <<>> /\ UNCHANGED <<registry, next_key>>
      /\ Finalize \/ Validate \/ Freeze
  BY DEF Passes, eval_vars
<1>2. UNCHANGED draft BY <1>1 DEF Finalize, Validate, Freeze
<1>3. View' = View BY <1>2 DEF View, ViewDirs, ViewNames, ViewName, ViewSteps, draft
<1>4. Mirror(View)
  <2>1. CASE phase = "open"
    <3>1. PICK w : Leads(stream, View, w) /\ Mirror(w) BY <1>1, <2>1 DEF ConfigureInv
    <3>2. w = View BY <1>1, <3>1, LeadsNowhere
    <3> QED BY <3>1, <3>2
  <2>2. CASE phase # "open" BY <1>1, <2>2 DEF ConfigureInv
  <2> QED BY <2>1, <2>2
<1>5. Mirror(View)'
  <2>1. PICK u : u = View OBVIOUS
  <2>2. Mirror(u)' BY <1>1, <1>4, <2>1 DEF Mirror, MirrorNames, MirrorSteps
  <2>3. u = View' BY <1>3, <2>1
  <2> QED BY <2>2, <2>3 DEF Mirror, MirrorNames, MirrorSteps
<1>6. phase' \notin {"failed", "open"}
  <2>1. CASE Finalize
    <3>1. PICK w : Leads(stream, View, w) /\ w.dirs = <<>> BY <1>1, <2>1 DEF ConfigureInv, Finalize
    <3>2. View.dirs = <<>> BY <1>1, <3>1, LeadsNowhere
    <3>3. directory_stack = <<>> BY <3>2, ViewFacts DEF CurrentDirectory, NoDirectory, BuilderInv, BuilderTypeOK
    <3> QED BY <2>1, <3>3 DEF Finalize
  <2>2. CASE Validate \/ Freeze BY <2>2 DEF Validate, Freeze
  <2> QED BY <1>1, <2>1, <2>2
<1> QED BY <1>1, <1>5, <1>6 DEF ConfigureInv

\* A step that changes nothing.
LEMMA StutterKeeps == ASSUME ConfigureInv, UNCHANGED vars PROVE ConfigureInv'
<1>1. UNCHANGED <<bm_vars, eval_vars>> BY DEF vars
<1>2. UNCHANGED <<stream, evaluation, registry, next_key, at, phase>> BY <1>1 DEF bm_vars, eval_vars
<1>3. View' = View BY <1>1 DEF View, ViewDirs, ViewNames, ViewName, ViewSteps, bm_vars
<1>4. ASSUME NEW w, Mirror(w) PROVE Mirror(w)' BY <1>2, <1>4 DEF Mirror, MirrorNames, MirrorSteps
<1>5. ASSUME NEW w, Ahead(w) PROVE Ahead(w)' BY <1>2, <1>4, <1>5 DEF Ahead, OpenDirs
<1>6. evaluation' # "clean" => BuilderInit' BY <1>1, <1>2 DEF ConfigureInv, BuilderInit, bm_vars
<1>7. evaluation' = "running" => \E w : Ahead(w)' BY <1>2, <1>5 DEF ConfigureInv
<1>8. evaluation' = "clean" /\ phase' = "open" => \E w : Leads(stream', View', w) /\ w.dirs = <<>> /\ Mirror(w)'
  BY <1>2, <1>3, <1>4 DEF ConfigureInv
<1>9. evaluation' = "clean" /\ phase' # "open" => phase' # "failed" /\ Mirror(View)'
  <2>1. PICK u : u = View OBVIOUS
  <2>2. Mirror(u) => Mirror(u)' BY <1>4
  <2>3. u = View' BY <1>3, <2>1
  <2>4. Mirror(View) => Mirror(View)' BY <2>1, <2>2, <2>3 DEF Mirror, MirrorNames, MirrorSteps
  <2> QED BY <1>2, <2>4 DEF ConfigureInv
<1> QED BY <1>6, <1>7, <1>8, <1>9 DEF ConfigureInv

\* Every step of a careful script keeps the invariant.
LEMMA ConfigureStep ==
  ASSUME Careful PROVE EvalTypes /\ BuilderInv /\ History /\ ConfigureInv /\ [Next]_vars => ConfigureInv'
<1> SUFFICES ASSUME EvalTypes, BuilderInv, History, ConfigureInv, [Next]_vars PROVE ConfigureInv' OBVIOUS
<1> QED BY CommandKeeps, FinishKeeps, ApplyKeeps, PassesAhead, StutterKeeps DEF Next, Stop

-----------------------------------------------------------------------------
(* What a configure run with a careful script comes to.                    *)

\* The inductive invariant holds throughout.
LEMMA ConfigureSound ==
  ASSUME Careful PROVE Spec => [](EvalTypes /\ BuilderInv /\ ConfigureInv)
<1>1. EvalTypes /\ BuilderInv /\ History /\ ConfigureInv /\ [Next]_vars => ConfigureInv' BY ConfigureStep
<1> QED
  BY <1>1, TypesInit, TypesStep, ConfigureStart, HistoryStep, ConfigureIsBuilder, BuilderInvariant, PTL DEF Spec

\* Once the draft is handed over, it is the registry.
LEMMA HandedOver ==
  ASSUME BuilderInv, ConfigureInv, phase # "open"
  PROVE  evaluation = "clean" /\ phase # "failed" /\ Mirror(View)
BY DEF ConfigureInv, BuilderInit

\* The registry, found in the draft's targets.
LEMMA TargetsMirrored ==
  ASSUME BuilderInv, Mirror(View)
  PROVE  /\ DOMAIN targets = DOMAIN registry
         /\ \A n \in DOMAIN registry :
               /\ "DECLARED" \in targets[n].flags /\ targets[n].flags \cap ImportFlag = registry[n].flags
               /\ targets[n].kind = registry[n].type /\ targets[n].of = registry[n].of
               /\ directories[targets[n].dir].at = registry[n].at
               /\ targets[n].deps \subseteq DOMAIN registry
               /\ "ALIAS" \in registry[n].flags => registry[n].of \in DOMAIN registry
<1>1. View.names = ViewNames /\ DOMAIN ViewNames = DOMAIN targets BY ViewFacts
<1>2. MirrorNames(View) BY DEF Mirror
<1>3. DOMAIN targets = DOMAIN registry BY <1>1, <1>2 DEF MirrorNames
<1>4. \A n \in DOMAIN targets : View.names[n] = ViewName(n) BY <1>1 DEF ViewNames
<1>5. ASSUME NEW n
      PROVE  /\ ViewName(n).flags = targets[n].flags /\ ViewName(n).kind = targets[n].kind
             /\ ViewName(n).of = targets[n].of /\ ViewName(n).at = directories[targets[n].dir].at
             /\ ViewName(n).deps = targets[n].deps
  BY DEF ViewName
<1>6. ASSUME NEW n \in DOMAIN registry
      PROVE  /\ "DECLARED" \in ViewName(n).flags /\ ViewName(n).flags \cap ImportFlag = registry[n].flags
             /\ ViewName(n).kind = registry[n].type /\ ViewName(n).of = registry[n].of
             /\ ViewName(n).at = registry[n].at /\ ViewName(n).deps \subseteq DOMAIN registry
             /\ "ALIAS" \in registry[n].flags => registry[n].of \in DOMAIN registry
  BY <1>2, <1>3, <1>4 DEF MirrorNames
<1> QED BY <1>3, <1>5, <1>6

\* BuilderAccepts, for every careful script: a script the evaluator has no
\* error for is a stream that bm_builder_apply_stream takes to the end.
THEOREM StreamsAccepted == ASSUME Careful PROVE Spec => []BuilderAccepts
<1>1. ConfigureInv => BuilderAccepts BY DEF ConfigureInv, BuilderAccepts
<1> QED BY <1>1, ConfigureSound, PTL

\* StreamWellFormed, for every careful script: what the command handlers let
\* through, bm_validate_structural_pass and bm_validate_resolution_pass let
\* through.
THEOREM StreamsWellFormed == ASSUME Careful PROVE Spec => []StreamWellFormed
<1>1. BuilderInv /\ ConfigureInv => StreamWellFormed
  <2> SUFFICES ASSUME BuilderInv, ConfigureInv, phase \in {"finalized", "validated", "rejected", "frozen"}
               PROVE  Structural /\ Resolution
    BY DEF StreamWellFormed
  <2>1. Mirror(View) BY HandedOver
  <2>2. \A n \in DOMAIN targets : HasFlag(n, "DECLARED") BY <2>1, TargetsMirrored DEF HasFlag
  <2>3. Structural BY <2>2, ChainsEnd DEF Structural, StepIds, BuilderInv, DraftSound, OwnersExist
  <2>4. \A n \in DOMAIN targets : (HasFlag(n, "ALIAS") => Known(targets[n].of)) /\ targets[n].deps \subseteq DOMAIN targets
    BY <2>1, TargetsMirrored DEF HasFlag, Known, ImportFlag
  <2>5. ASSUME NEW s \in StepIds PROVE build_steps[s].owner = None \/ Known(build_steps[s].owner)
    <3>1. <<build_steps[s].key, build_steps[s].owner>> \in View.steps BY ViewFacts DEF ViewSteps, StepIds
    <3>2. MirrorSteps(View) BY <2>1 DEF Mirror
    <3>3. PICK t : t = <<build_steps[s].key, build_steps[s].owner>> OBVIOUS
    <3>4. t[2] = None \/ t[2] \in DOMAIN registry BY <3>1, <3>2, <3>3 DEF MirrorSteps
    <3> QED BY <2>1, <3>3, <3>4, TargetsMirrored DEF Known
  <2> QED BY <2>3, <2>4, <2>5 DEF Resolution
<1> QED BY <1>1, ConfigureSound, PTL

\* DeclarationsKept, for every careful script: the frozen model has the
\* targets of the evaluator's registry, kind, directory, alias and import.
THEOREM DeclarationsMirrored == ASSUME Careful PROVE Spec => []DeclarationsKept
<1>1. BuilderInv /\ ConfigureInv => DeclarationsKept
  <2> SUFFICES ASSUME BuilderInv, ConfigureInv, phase = "frozen" PROVE DeclarationsKept BY DEF DeclarationsKept
  <2>1. Mirror(View) BY HandedOver
  <2> QED BY <2>1, TargetsMirrored DEF DeclarationsKept, ImportFlag
<1> QED BY <1>1, ConfigureSound, PTL

=============================================================================
