---------------------------- MODULE FetchContent ----------------------------
(***************************************************************************)
(* FetchContent: eval_fetchcontent.c. A dependency is declared once and    *)
(* made available by a provider, by find_package() or by fetching its      *)
(* sources and adding their directory, which may ask for it again.         *)
(*                                                                         *)
(* A declaration is [name, transport, source, file, find_args, override,   *)
(* tag, strategy, disconnected, malformed] with what the machine answers:  *)
(* works (the download, clone or update succeeds), rebases, patches, known *)
(* (a local clone has the tag). source is a directory given for the sources, or     *)
(* None; file the CMakeLists.txt they have, or None.                       *)
(***************************************************************************)
EXTENDS Packages

SourceDir(d) == IF d.source # None THEN d.source ELSE d.name \o "-src"

\* fetchcontent_publish_default_vars
Published(st, name, populated, source) ==
    Set(Set(st, name \o "_SOURCE_DIR", source), name \o "_POPULATED", IF populated THEN "1" ELSE "0")

\* fetchcontent_upsert_state
StateOf(processed, populated, source, by) ==
    [processed |-> processed, populated |-> populated, source |-> source, by |-> by]
UpsertedOnce(st, name, state) == IF name \in DOMAIN st.states THEN st ELSE [st EXCEPT !.states = With(@, name, state)]
Upserted(st, name, state) == [st EXCEPT !.states = With(@, name, state)]

ModuleLoaded == "FetchContent" \in now.modules
IsPopulated(st, name) == name \in DOMAIN st.states /\ st.states[name].populated

\* FetchContent_Declare: the first declaration wins, and the mode of
\* find_package() is that of its time.
FetchDeclare(c) ==
    LET mode == Get(now, "FETCHCONTENT_TRY_FIND_PACKAGE_MODE")
        decl == c.decl @@ [mode |-> IF mode \in {"ALWAYS", "NEVER"} THEN mode ELSE "OPT_IN"]
    IN  Leaf(c, "fetch_declare",
             IF ~ModuleLoaded THEN Wrong
             ELSE IF c.decl.name \in DOMAIN now.decls THEN Done(now)
             ELSE DoneIf(~c.decl.malformed /\ ~(c.decl.override /\ c.decl.find_args),
                         Upserted([now EXCEPT !.decls = With(@, c.decl.name, decl)], c.decl.name,
                                  StateOf(FALSE, FALSE, SourceDir(c.decl), None))))

-----------------------------------------------------------------------------
(* Fetching. An outcome of the transports is [ok, world]: ok says that the  *)
(* sources are there; when they are not an error is reported.              *)

SourceOverride(d) == Get(now, "FETCHCONTENT_SOURCE_DIR_" \o d.name)
PopulatedDir(d) == IF SourceOverride(d) # None THEN SourceOverride(d) ELSE SourceDir(d)

Fetched(d, saved, tree) ==
    [ok |-> TRUE,
     world |-> [world EXCEPT !.trees = With(@, PopulatedDir(d), tree),
                             !.fetched = Append(@, [name |-> d.name, saved |-> saved, clean |-> errors = 0])]]
NotFetched == [ok |-> FALSE, world |-> world]

\* fetchcontent_populate_url: the download is a file(DOWNLOAD) run inline.
PopulateUrl(d, saved) ==
    IF d.transport = "CUSTOM" THEN IF d.works THEN Fetched(d, saved, "custom") ELSE NotFetched
    ELSE IF ~d.works \/ InlineFailed THEN NotFetched
    ELSE Fetched(d, saved, "archive")

\* fetchcontent_is_updates_disconnected: the variable of the dependency comes
\* before the one for all.
UpdatesDisconnected(d, saved) ==
    LET own == "FETCHCONTENT_UPDATES_DISCONNECTED_" \o d.name
    IN  IF d.disconnected # None THEN d.disconnected
        ELSE saved /\ Truthy(Get(now, IF DefinedVisible(now, own) THEN own ELSE "FETCHCONTENT_UPDATES_DISCONNECTED"))

\* fetchcontent_git_fetch_and_update: the tag is checked out, or rebased on; a
\* REBASE_CHECKOUT that cannot rebase checks out.
GitUpdate(d, saved) ==
    IF UpdatesDisconnected(d, saved)
    THEN IF d.known THEN Fetched(d, saved, d.tag) ELSE NotFetched
    ELSE IF ~d.works THEN NotFetched
    ELSE IF d.strategy = "REBASE" /\ ~d.rebases THEN NotFetched
    ELSE Fetched(d, saved, d.tag)

\* fetchcontent_populate_git: a tree that is a clone already is updated. A
\* clone that is followed by a failing checkout is taken to have left no tree.
PopulateGit(d, saved) ==
    IF PopulatedDir(d) \in DOMAIN world.trees THEN GitUpdate(d, saved)
    ELSE IF d.works THEN Fetched(d, saved, d.tag) ELSE NotFetched

\* Subversion, Mercurial and CVS: checked out, or updated.
PopulateOther(d, saved) == IF d.works THEN Fetched(d, saved, d.tag) ELSE NotFetched

\* fetchcontent_run_transport
Transport(d, saved) ==
    CASE d.transport \in {"URL", "CUSTOM"} -> PopulateUrl(d, saved)
      [] d.transport = "GIT"               -> PopulateGit(d, saved)
      [] d.transport \in {"SVN", "HG", "CVS"} -> PopulateOther(d, saved)
      [] d.transport = "NONE"              -> [ok |-> TRUE, world |-> world]

\* The first half of fetchcontent_populate_content: the sources, the patch, the
\* record and the redirection of find_package().
Content(d, saved) ==
    LET source == PopulatedDir(d)
        offline == saved /\ Truthy(Get(now, "FETCHCONTENT_FULLY_DISCONNECTED"))
        got == IF d.transport = "NONE" /\ d.source = None /\ SourceOverride(d) = None THEN NotFetched
               ELSE IF offline
                    THEN IF source \in DOMAIN world.trees THEN [ok |-> TRUE, world |-> world] ELSE NotFetched
               ELSE Transport(d, saved)
        st  == IF saved THEN Published(Upserted(now, d.name, StateOf(TRUE, TRUE, source, "fetch")), d.name, TRUE, source)
               ELSE Set(now, d.name \o "_SOURCE_DIR", source)
    IN  [ok |-> got.ok /\ d.patches, st |-> st,
         world |-> IF got.ok /\ d.patches /\ saved /\ d.override
                   THEN [got.world EXCEPT !.redirects = @ \cup {d.name}] ELSE got.world]

Materialized(name) == [type |-> "DEPENDENCY_MATERIALIZATION", name |-> name]

-----------------------------------------------------------------------------
(* FetchContent_MakeAvailable, a name after the other.                     *)

Verify == "CMAKE_VERIFY_INTERFACE_HEADER_SETS"
Fetching == [stage |-> "begin", left |-> <<>>, pushed |-> FALSE, verify |-> None, events |-> <<>>]

FetchMakeAvailable(c) ==
    \/ /\ c.cmd = "fetch_make_available" /\ ~ModuleLoaded
       /\ Leaf(c, "fetch_make_available", Wrong)
    \/ /\ c.cmd = "fetch_make_available" /\ ModuleLoaded
       /\ Enter(c, "fetch_make_available", now,
                [NewFrame("fetch", c, <<>>, FALSE) EXCEPT !.todo = [Fetching EXCEPT !.left = c.names]],
                <<>>, world)

Dependency == Head(Top.todo.left)
Declared   == now.decls[Dependency]

\* The cleanup of fetchcontent_makeavailable_one.
PoppedNot(st) == st
Popped(st) == IF Top.todo.pushed THEN [st EXCEPT !.making = Front(@)] ELSE st
Cleaned(st) == Popped(IF Top.todo.verify = None THEN Unset(st, Verify) ELSE Set(st, Verify, Top.todo.verify))
NextNameSkipped(st, events) ==
    Resume(Cleaned(st), [Fetching EXCEPT !.left = SubSeq(@, 3, Len(@)), !.events = Top.todo.events \o events], <<>>)
NextName(st, events) ==
    Resume(Cleaned(st), [Fetching EXCEPT !.left = Tail(Top.todo.left), !.events = Top.todo.events \o events], <<>>)

\* The dependency is active from here; one that is populated is only published.
FetchBegin ==
    /\ Stage("fetch", "begin") /\ Top.todo.left # <<>>
    /\ IsPopulated(now, Dependency) \/ Dependency \in DOMAIN now.decls
    /\ LET active   == Contains(now.making, Dependency)
           provided == ~active /\ SourceOverride(Declared) = None /\ ProviderSupports("FETCHCONTENT_MAKEAVAILABLE_SERIAL")
       IN  IF IsPopulated(now, Dependency)
           THEN Resume(Published(now, Dependency, TRUE, now.states[Dependency].source), [Top.todo EXCEPT !.left = Tail(@)], <<>>)
           ELSE Resume(Set([now EXCEPT !.making = IF active THEN @ ELSE Append(@, Dependency)], Verify, "0"),
                       [Top.todo EXCEPT !.stage = IF provided THEN "provider" ELSE "find", !.pushed = ~active,
                                        !.verify = Get(now, Verify)], <<>>)
    /\ UNCHANGED <<world, stream>>

FetchProvider ==
    /\ Stage("fetch", "provider")
    /\ InvokeProvider(<<"FETCHCONTENT_MAKEAVAILABLE_SERIAL", Dependency>>, [Top.todo EXCEPT !.stage = "provided"])

FetchProvided ==
    /\ Stage("fetch", "provided")
    /\ IF IsPopulated(now, Dependency)
       THEN NextName(Published(now, Dependency, TRUE, now.states[Dependency].source), <<Materialized(Dependency)>>)
       ELSE Resume(now, [Top.todo EXCEPT !.stage = "find"], <<>>)
    /\ UNCHANGED <<world, stream>>

\* fetchcontent_run_find_package
TryFind(d) == d.mode = "ALWAYS" \/ (d.mode = "OPT_IN" /\ d.find_args)
FetchFind ==
    /\ Stage("fetch", "find")
    /\ IF TryFind(Declared)
       THEN Resume(now, [Top.todo EXCEPT !.stage = "sought"],
                   <<{[cmd |-> "find_package", pkg |-> Dependency, bypass |-> FALSE, required |-> FALSE, version |-> None,
                       exact |-> FALSE, mode |-> "", paths |-> <<>>, no_default |-> FALSE]}>>)
       ELSE Resume(now, [Top.todo EXCEPT !.stage = "populate"], <<>>)
    /\ UNCHANGED <<world, stream>>

FetchSought ==
    /\ Stage("fetch", "sought") /\ ~InlineFailed
    /\ IF Truthy(Get(now, Dependency \o "_FOUND"))
       THEN NextName(Published(Upserted(now, Dependency, StateOf(FALSE, FALSE, now.states[Dependency].source, "package")),
                               Dependency, FALSE, now.states[Dependency].source), <<Materialized(Dependency)>>)
       ELSE Resume(now, [Top.todo EXCEPT !.stage = "populate"], <<>>)
    /\ UNCHANGED <<world, stream>>

\* The sources, then their directory, if they have a CMakeLists.txt.
FetchPopulate ==
    /\ Stage("fetch", "populate")
    /\ Content(Declared, TRUE).ok
    /\ LET got == Content(Declared, TRUE)
       IN  /\ IF Declared.file = None THEN NextName(got.st, <<Materialized(Dependency)>>)
              ELSE Resume(got.st, [Top.todo EXCEPT !.stage = "added", !.events = Append(@, Materialized(Dependency))],
                          <<{[cmd |-> "add_subdirectory", file |-> Declared.file]}>>)
           /\ world' = got.world
    /\ UNCHANGED stream

FetchAdded ==
    /\ Stage("fetch", "added") /\ ~InlineFailed
    /\ NextName(now, <<>>)
    /\ UNCHANGED <<world, stream>>

\* What a failure of one dependency leaves: the names after it are not tried.
LeaveFetch ==
    \/ /\ Stage("fetch", "begin") /\ Top.todo.left = <<>>
       /\ LeaveWith(now, world, FALSE, <<>>, Top.todo.events)
    \/ /\ Stage("fetch", "begin") /\ Top.todo.left # <<>>
       /\ ~IsPopulated(now, Dependency) /\ Dependency \notin DOMAIN now.decls
       /\ LeaveWith(now, world, TRUE, <<>>, <<>>)
    \/ /\ (Stage("fetch", "sought") \/ Stage("fetch", "added")) /\ InlineFailed
       /\ LeaveWith(Cleaned(now), world, FALSE, <<>>, Top.todo.events)
    \/ /\ Stage("fetch", "populate") /\ ~Content(Declared, TRUE).ok
       /\ LeaveWith(Cleaned(now), Content(Declared, TRUE).world, TRUE, <<>>, <<>>)

-----------------------------------------------------------------------------
(* The other commands.                                                     *)

FetchGetProperties(c) ==
    LET known == c.name \in DOMAIN now.states
    IN  Leaf(c, "fetch_get_properties",
             DoneIf(ModuleLoaded, Published(now, c.name, IsPopulated(now, c.name),
                                            IF known THEN now.states[c.name].source ELSE "")))

\* FetchContent_Populate of a declaration, which may be done once, or of the
\* options it is given (c.decl), which leaves no record.
FetchPopulateCommand(c) ==
    LET saved == c.decl = None
        got   == Content(IF saved THEN now.decls[c.name] ELSE c.decl, saved)
    IN  Leaf(c, "fetch_populate",
             IF ~ModuleLoaded THEN Wrong
             ELSE IF saved /\ (c.name \notin DOMAIN now.decls \/ now.states[c.name].processed) THEN Wrong
             ELSE [Done(got.st) EXCEPT !.ok = got.ok, !.world = got.world, !.events = <<Materialized(c.name)>>])

\* FetchContent_SetPopulated: only a provider may, of the dependency it was
\* asked for.
ProvidingFetch == \E k \in DOMAIN frames : frames[k].kind = "fetch" /\ frames[k].todo.stage = "provided"
FetchSetPopulated(c) ==
    Leaf(c, "fetch_set_populated",
         DoneIf(ModuleLoaded /\ ProvidingFetch /\ now.making # <<>> /\ Last(now.making) = c.name,
                Published(Upserted(now, c.name, StateOf(TRUE, TRUE, c.source, "provider")), c.name, TRUE, c.source)))

=============================================================================
