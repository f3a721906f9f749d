------------------------------ MODULE Packages ------------------------------
(***************************************************************************)
(* find_package() and the find_*() commands: eval_package.c and            *)
(* eval_package_find_item.c. find_package() may call a dependency provider *)
(* (a function of the script), and runs the files it finds, which may call *)
(* it again.                                                               *)
(*                                                                         *)
(* A version is a number. NAMES and CONFIGS, which only add names to look  *)
(* for, are left out, and so are the <prefix>/lib/cmake variants of a      *)
(* prefix.                                                                 *)
(***************************************************************************)
EXTENDS SessionCommands

ListOf(x) == IF x = None THEN <<>> ELSE x
OnlyIf(cond, seq) == IF cond THEN seq ELSE <<>>

\* The first place of the list that has the thing; None if none does.
FirstIn(places, there) ==
    LET hits == {k \in DOMAIN places : places[k] \in DOMAIN there}
    IN  IF hits = {} THEN None ELSE there[places[Min(hits)]]

\* find_package_push_registry_prefixes: in the order they were registered,
\* which for one package is the order of the prefixes here.
RegistryPrefixes(c) ==
    IF Get(now, "CMAKE_FIND_USE_PACKAGE_REGISTRY") \notin {None, "1"} THEN <<>>
    ELSE SetToSeq({e[2] : e \in {r \in now.registry : r[1] = c.pkg}})

\* find_package_try_module
ModulePath(c) ==
    FirstIn(c.paths \o OnlyIf(~c.no_default, ListOf(Get(now, "CMAKE_MODULE_PATH")) \o <<"CMake">>),
            Packages[c.pkg].modules)

\* find_package_try_config: <pkg>_DIR, the prefixes given, <pkg>_ROOT, the
\* registry, CMAKE_PREFIX_PATH, the install prefix and the system.
ConfigPrefixes(c) ==
    ListOf(Get(now, c.pkg \o "_DIR")) \o c.paths
      \o OnlyIf(~c.no_default, OnlyIf(PolicyIsNew("CMP0074"), ListOf(Get(now, c.pkg \o "_ROOT")))
                               \o RegistryPrefixes(c)
                               \o ListOf(Get(now, "CMAKE_PREFIX_PATH"))
                               \o ListOf(Get(now, "CMAKE_INSTALL_PREFIX"))
                               \o <<"/usr">>)
ConfigPath(c) == FirstIn(ConfigPrefixes(c), Packages[c.pkg].configs)

\* find_package_resolve
Resolved(c) ==
    LET either(a, b) == IF a # None THEN a ELSE b
    IN  CASE c.mode = "MODULE" -> ModulePath(c)
          [] c.mode = "CONFIG" -> ConfigPath(c)
          [] OTHER -> IF Truthy(Get(now, "CMAKE_FIND_PACKAGE_PREFER_CONFIG"))
                      THEN either(ConfigPath(c), ModulePath(c)) ELSE either(ModulePath(c), ConfigPath(c))

\* The configuration FetchContent wrote for a package it overrides.
RedirectBody(pkg) ==
    <<{[cmd |-> "fetch_make_available", names |-> <<pkg>>]},
      {[cmd |-> "set", var |-> pkg \o "_FOUND", value |-> "1", where |-> "", force |-> FALSE]}>>

\* find_package_requested_version_matches
VersionMatches(c, actual) ==
    c.version = None \/ (actual # None /\ IF c.exact THEN actual = c.version ELSE actual >= c.version)

\* What the version file says, from the variables it set.
VersionAccepted(c) ==
    LET exact == Get(now, "PACKAGE_VERSION_EXACT")
        compatible == Get(now, "PACKAGE_VERSION_COMPATIBLE")
    IN  IF c.exact /\ exact # None THEN Truthy(exact)
        ELSE IF ~c.exact /\ compatible # None THEN Truthy(compatible)
        ELSE VersionMatches(c, Get(now, "PACKAGE_VERSION"))

-----------------------------------------------------------------------------
(* find_package(), stage by stage.                                         *)

ProviderSupports(method) == now.provider.command # None /\ method \in now.provider.methods
Stage(kind, stage) == AtFrame(kind) /\ Top.rest = <<>> /\ Top.todo.stage = stage

\* active_find_package_depth: the find_package() calls whose provider is running.
ProviderDepth ==
    Cardinality({k \in DOMAIN frames : frames[k].kind = "find_package" /\ frames[k].todo.stage = "provided"})

FindPackage(c) ==
    \/ /\ c.cmd = "find_package" /\ c.bypass /\ ProviderDepth = 0
       /\ Leaf(c, "find_package", Wrong)
    \/ /\ c.cmd = "find_package" /\ ~(c.bypass /\ ProviderDepth = 0)
       /\ Enter(c, "find_package", now,
                [NewFrame("find_package", c, <<>>, FALSE) EXCEPT
                    !.todo = [stage |-> IF ~c.bypass /\ ProviderSupports("FIND_PACKAGE") THEN "provider" ELSE "resolve",
                              found |-> FALSE, path |-> None]],
                <<>>, world)

\* eval_user_cmd_invoke of a provider, in the transaction of the command.
InvokeProvider(args, todo) ==
    /\ now.provider.command \in DOMAIN now.commands
    /\ now' = CallState(now.provider.command, args)
    /\ frames' = Append([frames EXCEPT ![Len(frames)].todo = todo],
                        [CallFrame(Top.cmd, now.provider.command) EXCEPT !.tx = FALSE])
    /\ world' = CallWorld(now.provider.command)
    /\ UNCHANGED <<errors, stream, calls_run>>

FindProvider ==
    /\ Stage("find_package", "provider")
    /\ InvokeProvider(<<"FIND_PACKAGE", Top.cmd.pkg>>, [Top.todo EXCEPT !.stage = "provided"])

\* The provider found it if the variable says so, whoever set it.
FindProvided ==
    /\ Stage("find_package", "provided")
    /\ LET found == Truthy(Get(now, Top.cmd.pkg \o "_FOUND"))
       IN  Resume(now, [Top.todo EXCEPT !.stage = IF found THEN "end" ELSE "resolve", !.found = found], <<>>)
    /\ UNCHANGED <<world, stream>>

\* find_package_execute_resolved_artifacts: the package is active from here,
\* and its version file, if one is asked for and there, decides first. The
\* version file FetchContent writes accepts every version and states none.
FindResolve ==
    /\ Stage("find_package", "resolve")
    /\ LET c       == Top.cmd
           redirect == c.pkg \in world.redirects
           path    == IF redirect THEN None ELSE Resolved(c)
           st      == Set(Set([now EXCEPT !.finding = Append(@, c.pkg)], c.pkg \o "_CONFIG", path),
                          c.pkg \o "_FIND_REQUIRED", c.required)
           asked   == ~redirect /\ c.version # None /\ path \in DOMAIN Packages[c.pkg].versions
           fits    == IF redirect THEN "1" ELSE None
       IN  IF ~redirect /\ path = None
           THEN Resume(now, [Top.todo EXCEPT !.stage = "end"], <<>>)
           ELSE Resume(IF asked \/ (redirect /\ c.version # None)
                       THEN Set(Set(Set(st, "PACKAGE_VERSION", None), "PACKAGE_VERSION_EXACT", fits),
                                "PACKAGE_VERSION_COMPATIBLE", fits)
                       ELSE st,
                       [Top.todo EXCEPT !.stage = IF asked THEN "version" ELSE "package", !.found = TRUE, !.path = path], <<>>)
    /\ UNCHANGED <<world, stream>>

FindVersionFile ==
    /\ Stage("find_package", "version")
    /\ RunFile(Packages[Top.cmd.pkg].versions[Top.todo.path], FALSE, [Top.todo EXCEPT !.stage = "versioned"])
    /\ UNCHANGED stream

FindVersion ==
    /\ Stage("find_package", "versioned")
    /\ IF VersionAccepted(Top.cmd) THEN Resume(now, [Top.todo EXCEPT !.stage = "package"], <<>>)
       ELSE Resume([now EXCEPT !.finding = Front(@)], [Top.todo EXCEPT !.stage = "end", !.found = FALSE], <<>>)
    /\ UNCHANGED <<world, stream>>

FindPackageFile ==
    /\ Stage("find_package", "package")
    /\ IF Top.todo.path # None
       THEN RunFile(Top.todo.path, FALSE, [Top.todo EXCEPT !.stage = "ran"]) /\ UNCHANGED stream
       ELSE /\ frames' = Append([frames EXCEPT ![Len(frames)].todo = [Top.todo EXCEPT !.stage = "ran"]],
                                ScriptFrame(RedirectBody(Top.cmd.pkg), "redirect", FALSE))
            /\ world' = ScriptWorld("redirect", FALSE)
            /\ now' = Publish(now, world')
            /\ UNCHANGED <<errors, stream, calls_run>>

FindRan ==
    /\ Stage("find_package", "ran")
    /\ LET actual == IF Get(now, Top.cmd.pkg \o "_VERSION") # None THEN Get(now, Top.cmd.pkg \o "_VERSION") ELSE Get(now, "PACKAGE_VERSION")
       IN  Resume([now EXCEPT !.finding = Front(@)],
                  [Top.todo EXCEPT !.stage = "end", !.found = VersionMatches(Top.cmd, actual)], <<>>)
    /\ UNCHANGED <<world, stream>>

\* find_package_finalize_found_var: a <pkg>_FOUND that is set, by the file or
\* long before it, has the last word.
FoundInTheEnd(pkg, found) ==
    found /\ (DefinedVisible(now, pkg \o "_FOUND") => Truthy(Get(now, pkg \o "_FOUND")))

\* package_record_find_result
FindRecorded(st, pkg, found) ==
    IF found THEN [st EXCEPT !.found = @ \cup {pkg}, !.missing = @ \ {pkg}]
    ELSE [st EXCEPT !.found = @ \ {pkg}, !.missing = @ \cup {pkg}]

LeaveFindPackage ==
    /\ Stage("find_package", "end")
    /\ LET pkg   == Top.cmd.pkg
           found == FoundInTheEnd(pkg, Top.todo.found)
       IN  LeaveWith(FindRecorded(Set(now, pkg \o "_FOUND", IF found THEN "1" ELSE "0"), pkg, found), world,
                     ~found /\ Top.cmd.required, <<>>, <<[type |-> "PACKAGE_FIND", name |-> pkg, found |-> found]>>)

\* export(PACKAGE) as find_package() sees it: eval_package_registry_add.
RegistryAdd(c) == Leaf(c, "export_package", Done([now EXCEPT !.registry = @ \cup {<<c.pkg, c.prefix>>}]))

-----------------------------------------------------------------------------
(* find_program(), find_file(), find_path() and find_library().            *)

\* find_item_build_search_dirs: c.root are the directories of the package
\* under way, the others those of the machine and of the variables.
SearchDirs(c) ==
    OnlyIf(now.finding # <<>>, c.root) \o c.hints
      \o OnlyIf(~c.no_default, ListOf(Get(now, "CMAKE_PREFIX_PATH"))) \o c.paths
      \o OnlyIf(~c.no_default, ListOf(Get(now, "CMAKE_INSTALL_PREFIX")) \o <<"/usr">>)

\* find_item_search: every name in a directory before the next directory, or
\* every directory for a name before the next name. c.there are the paths
\* there are.
Candidates(c) ==
    LET dirs  == SearchDirs(c)
        pairs == IF c.names_per_dir
                 THEN [k \in 1..(Len(dirs) * Len(c.names)) |-> <<dirs[((k - 1) \div Len(c.names)) + 1], c.names[((k - 1) % Len(c.names)) + 1]>>]
                 ELSE [k \in 1..(Len(dirs) * Len(c.names)) |-> <<dirs[((k - 1) % Len(dirs)) + 1], c.names[((k - 1) \div Len(dirs)) + 1]>>]
    IN  SelectSeq([k \in DOMAIN pairs |-> pairs[k][1] \o "/" \o pairs[k][2]], LAMBDA p : p \in c.there)

\* A value that names a thing there is is kept.
StillThere(c) == Get(now, c.var) \in c.there

\* find_item_invoke_validator: a validator that is no function accepts nothing.
Validates(c) == c.validator # None
HasValidator(c) == c.validator \in DOMAIN now.commands /\ now.commands[c.validator].kind = "function"

ItemResult(st, c, found) == Set(st, c.var, IF found = None THEN c.var \o "-NOTFOUND" ELSE found)

FindItem(c) ==
    LET all   == IF Validates(c) /\ ~HasValidator(c) THEN <<>> ELSE Candidates(c)
        found == IF all = <<>> THEN None ELSE Head(all)
    IN  \/ /\ c.cmd = "find_item" /\ (StillThere(c) \/ ~Validates(c) \/ all = <<>>)
           /\ Leaf(c, "find_item",
                   IF c.malformed \/ (~StillThere(c) /\ found = None /\ c.required) THEN Wrong
                   ELSE Done(ItemResult(now, c, IF StillThere(c) THEN Get(now, c.var) ELSE found)))
        \/ /\ c.cmd = "find_item" /\ ~StillThere(c) /\ Validates(c) /\ all # <<>>
           /\ Enter(c, "find_item", now,
                    [NewFrame("find_item", c, <<>>, FALSE) EXCEPT !.todo = [stage |-> "try", left |-> all]],
                    <<>>, world)

ValidatorVar == "_NOBIFY_FIND_VALID"

\* The validator is called with the variable to set and the candidate; one that
\* has been redefined and is no function any more refuses the candidate.
ItemValidate ==
    \/ /\ Stage("find_item", "try") /\ Top.todo.left # <<>> /\ HasValidator(Top.cmd)
       /\ LET scope == ArgumentScope(now.commands[Top.cmd.validator].params, <<ValidatorVar, Head(Top.todo.left)>>)
          IN  now' = [Set(now, ValidatorVar, "TRUE") EXCEPT !.scopes = Append(@, scope)]
       /\ frames' = Append([frames EXCEPT ![Len(frames)].todo = [Top.todo EXCEPT !.stage = "tried"]],
                           [CallFrame(Top.cmd, Top.cmd.validator) EXCEPT !.tx = FALSE])
       /\ world' = CallWorld(Top.cmd.validator)
       /\ UNCHANGED <<errors, stream, calls_run>>
    \/ /\ Stage("find_item", "try") /\ Top.todo.left # <<>> /\ ~HasValidator(Top.cmd)
       /\ Resume(now, [Top.todo EXCEPT !.left = Tail(@)], <<>>)
       /\ UNCHANGED <<world, stream>>

\* A variable the validator left empty accepts the candidate.
ItemTried ==
    /\ Stage("find_item", "tried")
    /\ IF Get(now, ValidatorVar) \in {None, ""} \/ Truthy(Get(now, ValidatorVar))
       THEN Resume(now, [Top.todo EXCEPT !.stage = "end"], <<>>)
       ELSE Resume(now, [Top.todo EXCEPT !.stage = "try", !.left = Tail(@)], <<>>)
    /\ UNCHANGED <<world, stream>>

LeaveFindItem ==
    \/ /\ Stage("find_item", "end")
       /\ Leave(ItemResult(now, Top.cmd, Head(Top.todo.left)), world, FALSE, <<>>)
    \/ /\ Stage("find_item", "try") /\ Top.todo.left = <<>>
       /\ Leave(ItemResult(now, Top.cmd, None), world, Top.cmd.required, <<>>)

=============================================================================
