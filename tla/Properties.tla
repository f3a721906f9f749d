---------------------------- MODULE Properties ------------------------------
(***************************************************************************)
(* Properties of the run, of directories, targets, sources, tests and      *)
(* cache entries: eval_target.c, eval_target_property_query.c and          *)
(* eval_property.c. A property is a record of the session, which           *)
(* transactions undo; what the build model is told of it is an event.      *)
(*                                                                         *)
(* A value is the sequence of its items, and a list of names a set. A      *)
(* directory stands for its binary directory too. Aliases and imported     *)
(* targets, the variable NOBIFY_PROPERTY_... that repeats each record and  *)
(* the events of variables are left out.                                   *)
(***************************************************************************)
EXTENDS Ctest

\* What has properties: a source or a test is named alone or in a directory.
PropKey(scope, dir, name, prop) == [scope |-> scope, dir |-> dir, name |-> name, prop |-> prop]
GlobalKey(prop)         == PropKey("GLOBAL", None, "", prop)
DirectoryKey(dir, prop) == PropKey("DIRECTORY", dir, "", prop)
TargetKey(name, prop)   == PropKey("TARGET", None, name, prop)

KnownDir(dir) == dir \in DOMAIN now.dirs

\* eval_test_exists_in_directory_scope: the record, the marker of the directory,
\* or in the current directory that of any.
TestExists(name, dir) ==
    \/ <<dir, name>> \in now.tests
    \/ dir \in MarkedIn(name)
    \/ dir = CurrentDir /\ MarkedIn(name) # {}

-----------------------------------------------------------------------------
(* What the build model makes of the events.                               *)

\* The properties the builder keeps as items of their own; of any other it keeps
\* a raw record for each write.
DirectoryItems == {"INCLUDE_DIRECTORIES", "LINK_DIRECTORIES", "LINK_LIBRARIES", "COMPILE_DEFINITIONS", "COMPILE_OPTIONS",
                   "LINK_OPTIONS"}
TargetItems    == DirectoryItems \cup {"INTERFACE_INCLUDE_DIRECTORIES", "INTERFACE_COMPILE_DEFINITIONS",
                   "INTERFACE_COMPILE_OPTIONS", "INTERFACE_LINK_LIBRARIES", "INTERFACE_LINK_OPTIONS",
                   "INTERFACE_LINK_DIRECTORIES", "INTERFACE_SYSTEM_INCLUDE_DIRECTORIES", "COMPILE_FEATURES", "INTERFACE_COMPILE_FEATURES"}

\* bm_apply_item_mutation, and bm_find_raw_property: the first raw record of a
\* name is the one that is read.
ItemsAfter(values, prop, op, items, typed) ==
    IF prop \notin DOMAIN values THEN With(values, prop, items)
    ELSE IF prop \notin typed THEN values
    ELSE With(values, prop, IF op = "SET" THEN items ELSE values[prop] \o items)

\* TARGET_PROP_SET: text joined to an item is left in a raw record of its own.
TargetAfter(targets, e) ==
    LET before == IF e.name \in DOMAIN targets THEN targets[e.name] ELSE Empty
    IN  With(targets, e.name, IF e.op = "APPEND_STRING" /\ e.prop \in TargetItems THEN before
                              ELSE ItemsAfter(before, e.prop, e.op, e.items, TargetItems))

\* The builder's directory of the moment, and the one each path had first:
\* every DIRECTORY_ENTER makes another, that of an include() too.
BuiltStart == [open |-> <<0>>, made |-> 0, home |-> [d \in {Root} |-> 0], global |-> Empty,
               dirs |-> [d \in {0} |-> Empty], targets |-> Empty]
BuiltStep(b, e) ==
    CASE e.type = "DIRECTORY_ENTER" ->
            [b EXCEPT !.made = @ + 1, !.open = Append(@, b.made + 1), !.dirs = With(@, b.made + 1, Empty),
                      !.home = IF e.dir \in DOMAIN @ THEN @ ELSE With(@, e.dir, b.made + 1)]
      [] e.type = "DIRECTORY_LEAVE" -> [b EXCEPT !.open = Front(@)]
      [] e.type = "DIRECTORY_PROPERTY_MUTATE" ->
            [b EXCEPT !.dirs[Last(b.open)] = ItemsAfter(@, e.prop, e.op, e.items, DirectoryItems)]
      [] e.type = "GLOBAL_PROPERTY_MUTATE" -> [b EXCEPT !.global = ItemsAfter(@, e.prop, e.op, e.items, DirectoryItems)]
      [] e.type = "TARGET_PROP_SET" -> [b EXCEPT !.targets = TargetAfter(@, e)]
      [] OTHER -> b
BuiltFrom(events) == FoldLeft(BuiltStep, BuiltStart, events)

\* What the frozen model answers of a property.
BuiltValue(b, key) ==
    LET values == CASE key.scope = "GLOBAL"    -> b.global
                    [] key.scope = "DIRECTORY" -> b.dirs[b.home[key.dir]]
                    [] key.scope = "TARGET"    -> IF key.name \in DOMAIN b.targets THEN b.targets[key.name] ELSE Empty
    IN  IF key.prop \in DOMAIN values THEN values[key.prop] ELSE None

-----------------------------------------------------------------------------
(* Writing: eval_property_write.                                           *)

\* property_engine_record: the index of the record, or 0.
RecordIndex(st, key) == SelectInSeq(st.props, LAMBDA r : r.key = key)
RecordValue(st, key) == IF RecordIndex(st, key) = 0 THEN None ELSE st.props[RecordIndex(st, key)].value

\* merge_property_value_temp; APPEND_STRING joins the last item and the first.
Merge(current, incoming, op) ==
    IF op = "SET" \/ current = <<>> THEN incoming
    ELSE IF incoming = <<>> THEN current
    ELSE IF op = "APPEND" THEN current \o incoming
    ELSE Front(current) \o <<Last(current) \o Head(incoming)>> \o Tail(incoming)
OrEmpty(x) == IF x = None THEN <<>> ELSE x

\* eval_property_engine_set
RecordSet(st, key, value) ==
    IF RecordIndex(st, key) = 0 THEN [st EXCEPT !.props = Append(@, [key |-> key, value |-> value])]
    ELSE [st EXCEPT !.props[RecordIndex(st, key)].value = value]

\* What a command that writes properties works on: the records, the variables of
\* the scope of the moment, its events and the keys that go aside.
Writing == [props |-> now.props, scope |-> Last(now.scopes), events |-> <<>>, aside |-> world.aside]
WithScope(scope) == [now EXCEPT !.scopes[Len(now.scopes)] = scope]
Wrote(out) ==
    [Done([WithScope(out.scope) EXCEPT !.props = out.props]) EXCEPT !.events = out.events, !.world.aside = out.aside]

\* emit_property_write_semantic_event: another directory's property is not told.
WriteEvents(key, value, op) ==
    LET event(type) == <<[type |-> type, prop |-> key.prop, op |-> op, items |-> value]>>
    IN  CASE key.scope = "DIRECTORY" /\ key.dir = CurrentDir -> event("DIRECTORY_PROPERTY_MUTATE")
          [] key.scope = "GLOBAL" -> event("GLOBAL_PROPERTY_MUTATE")
          [] OTHER -> <<>>

\* The options of the directory are also a variable, which targets start from.
GlobalVariable == [COMPILE_OPTIONS |-> "NOBIFY_GLOBAL_COMPILE_OPTIONS", LINK_OPTIONS |-> "NOBIFY_GLOBAL_LINK_OPTIONS",
                   COMPILE_DEFINITIONS |-> "NOBIFY_GLOBAL_COMPILE_DEFINITIONS"]
VariableWritten(scope, key, merged, value, op) ==
    LET put(v, x) == Notified(now, With(scope, v, x), v, "SET", x)
    IN  IF key.scope = "DIRECTORY" /\ key.dir = CurrentDir /\ key.prop \in DOMAIN GlobalVariable
        THEN put(GlobalVariable[key.prop], Merge(OrEmpty(Get(WithScope(scope), GlobalVariable[key.prop])), value, op))
        ELSE IF key.scope = "CACHE" /\ key.prop = "VALUE" THEN put(key.name, merged)
        ELSE scope

\* History: the ways of writing the build model does not follow. The directory
\* is not the builder's (another one, or a file included in it), text is joined
\* to an item, or a raw record is written again.
GoesAside(out, key, op) ==
    LET b == BuiltFrom(stream \o out.events)
    IN  \/ op = "APPEND_STRING"
        \/ key.scope = "DIRECTORY" /\ ~(key.dir = CurrentDir /\ key.dir \in DOMAIN b.home /\ Last(b.open) = b.home[key.dir])
        \/ RecordIndex(out, key) # 0 /\ key.prop \notin (IF key.scope = "TARGET" THEN TargetItems ELSE DirectoryItems)

\* Mutant of PropertyWrite: the event carries the merged value.
PropertyWriteMerged(out, key, value, op) ==
    LET merged == Merge(OrEmpty(RecordValue(out, key)), value, op)
    IN  [RecordSet(out, key, merged) EXCEPT
            !.scope  = VariableWritten(@, key, merged, value, op),
            !.events = @ \o WriteEvents(key, merged, op),
            !.aside  = IF GoesAside(out, key, op) THEN @ \cup {key} ELSE @]

PropertyWrite(out, key, value, op) ==
    LET merged == Merge(OrEmpty(RecordValue(out, key)), value, op)
    IN  [RecordSet(out, key, merged) EXCEPT
            !.scope  = VariableWritten(@, key, merged, value, op),
            !.events = @ \o WriteEvents(key, value, op),
            !.aside  = IF GoesAside(out, key, op) THEN @ \cup {key} ELSE @]

WriteAll(out, keys, value, op) == FoldLeft(LAMBDA o, k : PropertyWrite(o, k, value, op), out, keys)

\* A target's property is told by the command that writes it.
TargetWrite(out, name, prop, value, op) ==
    [PropertyWrite(out, TargetKey(name, prop), value, op) EXCEPT
        !.events = Append(@, [type |-> "TARGET_PROP_SET", name |-> name, prop |-> prop, op |-> op, items |-> value])]

\* eval_emit_generated_source_marks_for_scope and eval_emit_source_property_mutations_for_scope
SourceMarks(file, dirs, pair) ==
    IF pair.prop # "GENERATED" THEN <<>>
    ELSE [k \in DOMAIN dirs |-> [type |-> "SOURCE_MARK_GENERATED", dir |-> dirs[k], file |-> file,
                                 generated |-> pair.value # <<>> /\ Truthy(Head(pair.value))]]
SourceMutations(file, dirs, pair, op) ==
    [k \in DOMAIN dirs |-> [type |-> "SOURCE_PROPERTY_MUTATE", dir |-> dirs[k], file |-> file, prop |-> pair.prop, op |-> op,
                            items |-> pair.value]]

\* DIRECTORY and TARGET_DIRECTORY of a command on sources.
TargetsKnown(names) == ToSet(names) \subseteq DOMAIN now.targets
SourceDirs(c) == c.dirs \o [k \in DOMAIN c.target_dirs |-> now.targets[c.target_dirs[k]]]

\* A source without a directory is written and told pair by pair; in directories
\* all its records are written first, and the marks come before the mutations.
SourceWrite(out, file, dirs, pairs, op) ==
    LET told(o, events) == [o EXCEPT !.events = @ \o events]
        alone(o, p) == told(PropertyWrite(o, PropKey("SOURCE", None, file, p.prop), p.value, op),
                            SourceMarks(file, <<CurrentDir>>, p) \o SourceMutations(file, <<CurrentDir>>, p, op))
        inDir(o, d) == FoldLeft(LAMBDA q, p : PropertyWrite(q, PropKey("SOURCE", d, file, p.prop), p.value, op), o, pairs)
    IN  IF dirs = <<>> THEN FoldLeft(alone, out, pairs)
        ELSE told(FoldLeft(inDir, out, dirs),
                  FlattenSeq([k \in DOMAIN pairs |-> SourceMarks(file, dirs, pairs[k])])
                  \o FlattenSeq([k \in DOMAIN pairs |-> SourceMutations(file, dirs, pairs[k], op)]))

\* A test without a directory is written twice: alone, and in the current one.
TestWrite(out, name, dirs, pairs, op) ==
    FoldLeft(LAMBDA o, p : WriteAll(o, IF dirs = <<>> THEN <<PropKey("TEST", None, name, p.prop),
                                                             PropKey("TEST", CurrentDir, name, p.prop)>>
                                       ELSE <<PropKey("TEST", Head(dirs), name, p.prop)>>, p.value, op), out, pairs)

Pair(prop, value) == [prop |-> prop, value |-> value]

\* APPEND_STRING takes its arguments as one.
Joined(value) == IF value = <<>> THEN value ELSE <<FoldLeft(LAMBDA a, b : a \o b, "", value)>>

\* set_property(): c.malformed is what the parser of its arguments refuses.
SetPropertyRefused(c) ==
    \/ c.malformed \/ (c.append /\ c.append_string)
    \/ c.scope = "GLOBAL" /\ c.objects # <<>>
    \/ \E k \in DOMAIN c.dirs : ~KnownDir(c.dirs[k])
    \/ ~TargetsKnown(c.target_dirs)
    \/ c.scope = "DIRECTORY" /\ \E k \in DOMAIN c.objects : ~KnownDir(c.objects[k])
    \/ c.scope = "TARGET" /\ ~TargetsKnown(c.objects)
    \/ c.scope = "TEST" /\ \/ Len(c.dirs) > 1
                           \/ \E k \in DOMAIN c.objects : ~TestExists(c.objects[k], Head(Append(c.dirs, CurrentDir)))
    \/ c.scope = "CACHE" /\ ~(ToSet(c.objects) \subseteq DOMAIN now.cache)

PropertySet(c) ==
    LET op    == IF c.append_string THEN "APPEND_STRING" ELSE IF c.append THEN "APPEND" ELSE "SET"
        value == IF c.append_string THEN Joined(c.value) ELSE c.value
        pairs == <<Pair(c.prop, value)>>
        each(o, name) ==
            CASE c.scope = "TARGET"    -> TargetWrite(o, name, c.prop, value, op)
              [] c.scope = "SOURCE"    -> SourceWrite(o, name, SourceDirs(c), pairs, op)
              [] c.scope = "TEST"      -> TestWrite(o, name, c.dirs, pairs, op)
              [] c.scope = "DIRECTORY" -> PropertyWrite(o, DirectoryKey(name, c.prop), value, op)
              [] OTHER                 -> PropertyWrite(o, PropKey(c.scope, None, name, c.prop), value, op)
    IN  IF c.scope = "GLOBAL" THEN PropertyWrite(Writing, GlobalKey(c.prop), value, op)
        ELSE IF c.scope = "DIRECTORY" /\ c.objects = <<>>
             THEN PropertyWrite(Writing, DirectoryKey(CurrentDir, c.prop), value, op)
        ELSE FoldLeft(each, Writing, c.objects)
SetProperty(c) == Leaf(c, "set_property", IF SetPropertyRefused(c) THEN Wrong ELSE Wrote(PropertySet(c)))

TargetPropertiesSet(c) ==
    LET each(o, name) == FoldLeft(LAMBDA q, p : TargetWrite(q, name, p.prop, p.value, "SET"), o, c.pairs)
    IN  FoldLeft(each, Writing, c.objects)
SetTargetProperties(c) ==
    Leaf(c, "set_target_properties",
         IF c.malformed \/ ~TargetsKnown(c.objects) THEN Wrong ELSE Wrote(TargetPropertiesSet(c)))

DirectoryPropertiesSet(c) ==
    FoldLeft(LAMBDA o, p : PropertyWrite(o, DirectoryKey(CurrentDir, p.prop), p.value, "SET"), Writing, c.pairs)
SetDirectoryProperties(c) ==
    Leaf(c, "set_directory_properties", IF c.malformed THEN Wrong ELSE Wrote(DirectoryPropertiesSet(c)))

\* The directories need not be known.
SourcePropertiesSet(c) ==
    FoldLeft(LAMBDA o, file : SourceWrite(o, file, SourceDirs(c), c.pairs, "SET"), Writing, c.objects)
SetSourceFilesProperties(c) ==
    Leaf(c, "set_source_files_properties",
         IF c.malformed \/ ~TargetsKnown(c.target_dirs) THEN Wrong ELSE Wrote(SourcePropertiesSet(c)))

TestPropertiesSet(c) ==
    FoldLeft(LAMBDA o, name : TestWrite(o, name, c.dirs, c.pairs, "SET"), Writing, c.objects)
SetTestsProperties(c) ==
    Leaf(c, "set_tests_properties",
         IF c.malformed \/ \E k \in DOMAIN c.objects : ~TestExists(c.objects[k], Head(Append(c.dirs, CurrentDir)))
         THEN Wrong ELSE Wrote(TestPropertiesSet(c)))

\* define_property(): the first definition stays.
DefineProperty(c) ==
    LET key == <<c.scope, c.prop>>
        def == [inherited |-> c.inherited, init |-> c.init, brief |-> c.brief, full |-> c.full]
    IN  Leaf(c, "define_property",
             IF c.malformed \/ (c.init # None /\ c.scope # "TARGET") THEN Wrong
             ELSE IF key \in DOMAIN now.defs THEN Done(now)
             ELSE Done([now EXCEPT !.defs = With(@, key, def)]))

-----------------------------------------------------------------------------
(* Asking: eval_property_query.                                            *)

\* eval_property_definition_find
Definition(scope, prop) ==
    IF <<scope, prop>> \in DOMAIN now.defs THEN now.defs[<<scope, prop>>]
    ELSE IF scope = "CACHE" /\ <<"CACHED_VARIABLE", prop>> \in DOMAIN now.defs THEN now.defs[<<"CACHED_VARIABLE", prop>>]
    ELSE None

\* property_value_from_store_temp
Stored(key) ==
    IF key.scope = "CACHE" /\ key.prop = "VALUE" /\ key.name \in DOMAIN now.cache THEN Get(now, key.name)
    ELSE RecordValue(now, key)

\* property_value_from_directory_chain_temp: the nearest directory that has it,
\* and then the run. The chain ends at a directory without a parent.
FromDirectories(dir, prop) ==
    LET parent(d) == IF KnownDir(d) THEN now.dirs[d].parent ELSE None
        chain[k \in 0..Cardinality(DOMAIN now.dirs)] ==
            IF k = 0 THEN dir
            ELSE IF chain[k - 1] = None \/ parent(chain[k - 1]) = chain[k - 1] THEN None ELSE parent(chain[k - 1])
        own(k)  == Stored(DirectoryKey(chain[k], prop))
        holders == {k \in DOMAIN chain : chain[k] # None /\ own(k) # None}
    IN  IF holders = {} THEN Stored(GlobalKey(prop)) ELSE own(Min(holders))

\* The directory a source or a test is looked for in.
SelectedDir(key, inherit) ==
    IF key.dir # None THEN key.dir ELSE IF inherit # None THEN inherit ELSE CurrentDir

\* property_source_generated_set_temp: the first record of a source of the name
\* tells; every record is taken to be of the current directory.
GeneratedRecord(key, inherit) ==
    LET k == SelectInSeq(now.props, LAMBDA r : r.key.scope = "SOURCE" /\ r.key.prop = "GENERATED" /\ r.key.name = key.name)
    IN  /\ SelectedDir(key, inherit) = CurrentDir /\ k # 0
        /\ now.props[k].value # <<>> /\ Truthy(Head(now.props[k].value))

\* property_collect_directory_...: the current directory is asked as it is, any
\* other as it was when it was last left.
DirectoryList(dir, prop) ==
    CASE prop = "SUBDIRECTORIES"      -> {d \in DOMAIN now.dirs : now.dirs[d].parent = dir}
      [] prop = "BUILDSYSTEM_TARGETS" -> {t \in DOMAIN now.targets : now.targets[t] = dir}
      [] prop = "IMPORTED_TARGETS"    -> {}
      [] prop = "TESTS"               -> {t[2] : t \in {u \in now.tests : u[1] = dir}}
      [] prop = "VARIABLES"           -> IF dir = CurrentDir THEN VisibleNames(now)
                                         ELSE IF KnownDir(dir) THEN DOMAIN now.dirs[dir].vars ELSE {}
      [] prop = "MACROS"              -> IF dir = CurrentDir THEN MacroNames(now)
                                         ELSE IF KnownDir(dir) THEN now.dirs[dir].macros ELSE {}
      [] prop = "LISTFILE_STACK"      -> IF dir = CurrentDir THEN {world.exec[k].file : k \in DOMAIN world.exec}
                                         ELSE IF KnownDir(dir) THEN now.dirs[dir].files ELSE {}
DirectoryLists == {"SUBDIRECTORIES", "BUILDSYSTEM_TARGETS", "IMPORTED_TARGETS", "TESTS", "VARIABLES", "MACROS", "LISTFILE_STACK"}

\* property_synthetic_value_temp: what is known without a record. A value of None
\* is that of a property which is known and not set.
Unknown == [known |-> FALSE, value |-> None]
Known(x) == [known |-> TRUE, value |-> x]
SyntheticGlobal(key) ==
    CASE key.prop = "CMAKE_ROLE" -> Known(IF now.finding # <<>> THEN <<"FIND_PACKAGE">> ELSE <<"PROJECT">>)
      [] key.prop = "IN_TRY_COMPILE" -> Known(<<"0">>)
      [] key.prop = "GENERATOR_IS_MULTI_CONFIG" ->
            Known(IF Truthy(Get(now, "CMAKE_CONFIGURATION_TYPES")) THEN <<"1">> ELSE <<"0">>)
      [] key.prop = "PACKAGES_FOUND" -> Known(now.found)
      [] key.prop = "PACKAGES_NOT_FOUND" -> Known(now.missing)
      [] OTHER -> Unknown
SyntheticDirectory(key) ==
    CASE key.prop \in {"SOURCE_DIR", "BINARY_DIR"} -> Known(<<key.dir>>)
      [] key.prop = "PARENT_DIRECTORY" ->
            Known(IF KnownDir(key.dir) /\ now.dirs[key.dir].parent # None THEN <<now.dirs[key.dir].parent>> ELSE <<>>)
      [] key.prop \in DirectoryLists -> Known(DirectoryList(key.dir, key.prop))
      [] OTHER -> Unknown
SyntheticTarget(key) ==
    CASE key.prop = "TYPE" -> Known(<<"EXECUTABLE">>)
      [] key.prop \in {"IMPORTED", "IMPORTED_GLOBAL"} -> Known(<<"FALSE">>)
      [] key.prop \in {"ALIASED_TARGET", "ALIAS_GLOBAL"} -> Known(None)
      [] key.prop \in {"SOURCE_DIR", "BINARY_DIR"} -> Known(<<now.targets[key.name]>>)
      [] key.prop \in DirectoryItems \ {"COMPILE_DEFINITIONS"} -> Known(FromDirectories(now.targets[key.name], key.prop))
      [] OTHER -> Unknown
Synthetic(key, inherit) ==
    CASE key.scope = "GLOBAL" -> SyntheticGlobal(key)
      [] key.scope = "DIRECTORY" -> SyntheticDirectory(key)
      [] key.scope = "TARGET" /\ key.name \in DOMAIN now.targets -> SyntheticTarget(key)
      [] key.scope = "SOURCE" /\ key.prop = "LOCATION" ->
            Known(IF SelectedDir(key, inherit) = CurrentDir THEN <<CurrentDir, key.name>> ELSE None)
      [] key.scope = "SOURCE" /\ key.prop = "GENERATED" -> Known(IF GeneratedRecord(key, inherit) THEN <<"1">> ELSE None)
      [] key.scope = "TEST" /\ key.prop = "WORKING_DIRECTORY" /\ <<SelectedDir(key, inherit), key.name>> \in now.tests ->
            Known(<<SelectedDir(key, inherit)>>)
      [] OTHER -> Unknown

\* resolve_property_value_temp: the record; the bare record, for a source of the
\* current directory; what is known without one; the directories above.
Resolve(key, inherit, inherited) ==
    LET bare == IF key.scope = "SOURCE" /\ key.dir = CurrentDir THEN Stored([key EXCEPT !.dir = None]) ELSE None
        base == IF key.scope = "DIRECTORY" THEN key.dir
                ELSE IF key.scope = "TARGET" /\ inherit = None /\ key.name \in DOMAIN now.targets THEN now.targets[key.name]
                ELSE IF key.scope \in {"TARGET", "SOURCE", "TEST"} THEN inherit ELSE None
    IN  IF Stored(key) # None THEN Stored(key)
        ELSE IF bare # None THEN bare
        ELSE IF Synthetic(key, inherit).value # None THEN Synthetic(key, inherit).value
        ELSE IF inherited /\ base # None THEN FromDirectories(base, key.prop) ELSE None

\* property_known_for_scope
IsKnown(key, inherit) ==
    Definition(key.scope, key.prop) # None \/ Synthetic(key, inherit).known \/ Resolve(key, inherit, FALSE) # None

\* eval_property_query, of an object that is there: the state it leaves. A
\* property that is missing unsets the variable, or is told in it.
YesNo(cond) == IF cond THEN <<"1">> ELSE <<"0">>
QueryState(var, key, inherit, mode, missing) ==
    LET def   == Definition(key.scope, key.prop)
        value == Resolve(key, inherit, IF def = None THEN FALSE ELSE def.inherited)
    IN  CASE mode = "DEFINED"    -> Set(now, var, YesNo(IsKnown(key, inherit)))
          [] mode = "BRIEF_DOCS" -> Set(now, var, IF def = None THEN <<"NOTFOUND">> ELSE def.brief)
          [] mode = "FULL_DOCS"  -> Set(now, var, IF def = None THEN <<"NOTFOUND">> ELSE def.full)
          [] mode = "SET"        -> Set(now, var, YesNo(value # None))
          [] OTHER               -> IF value # None THEN Set(now, var, value)
                                    ELSE IF missing = None THEN Unset(now, var) ELSE Set(now, var, missing)
EmptyIfUnset(st, var) == IF DefinedVisible(st, var) THEN st ELSE Set(st, var, <<>>)

\* DIRECTORY and TARGET_DIRECTORY of a command that asks, of which one is given
\* at most: the directory they name.
AskedDir(c) == IF c.dir # None THEN c.dir ELSE IF c.target # None THEN now.targets[c.target] ELSE None
AskedDirKnown(c) == (c.dir = None \/ KnownDir(c.dir)) /\ (c.target = None \/ c.target \in DOMAIN now.targets)
AskedInherit(c) == IF AskedDir(c) = None THEN CurrentDir ELSE AskedDir(c)

\* get_property()
GetPropertyState(c) ==
    LET key == CASE c.scope = "DIRECTORY"          -> DirectoryKey(AskedInherit(c), c.prop)
                 [] c.scope \in {"SOURCE", "TEST"} -> PropKey(c.scope, AskedDir(c), c.name, c.prop)
                 [] OTHER                          -> PropKey(c.scope, None, c.name, c.prop)
        inherit == IF c.scope \in {"DIRECTORY", "SOURCE", "TEST"} THEN AskedInherit(c) ELSE None
        st == QueryState(c.var, key, inherit, c.mode, None)
    IN  IF c.scope # "SOURCE" THEN EmptyIfUnset(st, c.var)
        ELSE IF c.mode = "VALUE" /\ c.prop = "GENERATED" /\ ~DefinedVisible(st, c.var) THEN Set(st, c.var, <<"0">>) ELSE st
GetProperty(c) ==
    Leaf(c, "get_property",
         IF \/ c.malformed \/ ~AskedDirKnown(c)
            \/ c.mode \in {"VALUE", "SET"} /\ c.scope = "TARGET" /\ c.name \notin DOMAIN now.targets
            \/ c.mode \in {"VALUE", "SET"} /\ c.scope = "TEST" /\ ~TestExists(c.name, AskedInherit(c))
         THEN Wrong ELSE Done(GetPropertyState(c)))

\* get_cmake_property(): lists of the run, or a property of the run.
CmakeList(prop) ==
    CASE prop = "VARIABLES"       -> VisibleNames(now)
      [] prop = "CACHE_VARIABLES" -> DOMAIN now.cache
      [] prop = "MACROS"          -> MacroNames(now)
      [] prop = "COMMANDS"        -> DOMAIN now.commands
CmakeLists == {"VARIABLES", "CACHE_VARIABLES", "MACROS", "COMMANDS"}
GetCmakeProperty(c) ==
    LET st == QueryState(c.var, GlobalKey(c.prop), None, "VALUE", None)
    IN  Leaf(c, "get_cmake_property",
             IF c.malformed THEN Wrong
             ELSE IF c.prop \in CmakeLists THEN Done(Set(now, c.var, CmakeList(c.prop)))
             ELSE Done(IF DefinedVisible(st, c.var) THEN st ELSE Set(st, c.var, <<"NOTFOUND">>)))

\* get_directory_property(): with DEFINITION (c.variable) a variable of the
\* directory, as it was when the directory was left.
DirectoryVariable(dir, v) ==
    IF dir = CurrentDir THEN Get(now, v)
    ELSE IF v \in DOMAIN now.dirs[dir].vars THEN now.dirs[dir].vars[v] ELSE None
GetDirectoryProperty(c) ==
    LET value == DirectoryVariable(AskedInherit(c), c.variable)
    IN  Leaf(c, "get_directory_property",
             IF c.malformed \/ ~AskedDirKnown(c) THEN Wrong
             ELSE IF c.variable # None THEN Done(Set(now, c.var, IF value = None THEN <<>> ELSE value))
             ELSE Done(EmptyIfUnset(QueryState(c.var, DirectoryKey(AskedInherit(c), c.prop), AskedInherit(c), "VALUE", None), c.var)))

GetSourceFileProperty(c) ==
    Leaf(c, "get_source_file_property",
         IF c.malformed \/ ~AskedDirKnown(c) THEN Wrong
         ELSE Done(QueryState(c.var, PropKey("SOURCE", AskedDir(c), c.name, c.prop), AskedInherit(c), "VALUE", <<"NOTFOUND">>)))

GetTargetProperty(c) ==
    Leaf(c, "get_target_property",
         IF c.malformed \/ c.name \notin DOMAIN now.targets THEN Wrong
         ELSE Done(QueryState(c.var, TargetKey(c.name, c.prop), None, "VALUE", <<c.var \o "-NOTFOUND">>)))

GetTestProperty(c) ==
    Leaf(c, "get_test_property",
         IF c.malformed \/ ~AskedDirKnown(c) THEN Wrong
         ELSE IF ~TestExists(c.name, AskedInherit(c)) THEN Done(Set(now, c.var, <<"NOTFOUND">>))
         ELSE Done(QueryState(c.var, PropKey("TEST", AskedDir(c), c.name, c.prop), AskedInherit(c), "VALUE", <<"NOTFOUND">>)))

=============================================================================
