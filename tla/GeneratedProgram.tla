-------------------------- MODULE GeneratedProgram --------------------------
(***************************************************************************)
(* The generated program as a whole: its command line, and the commands    *)
(* that go beyond building: install, export, package and test, with the    *)
(* dashboard a script replays through the program itself.                  *)
(***************************************************************************)
EXTENDS GeneratedBuild

DefaultTargets ==
    Keep(Project.order,
         {i \in DOMAIN Project.order :
            LET t == Project.target[Project.order[i]]
            IN t.kind \in {"static", "program", "utility"} /\ ~t.excluded})

(***************************************************************************)
(* install_all: the rules in order, then the export files.  A component,   *)
(* when one is asked for, selects what each of them copies; the public     *)
(* headers of a target have a component of their own.                      *)
(***************************************************************************)
Named(component) == IF component = "" THEN "Unspecified" ELSE component

Matches(component, of) == component = "" \/ Named(of) = component

Destination(prefix, name) == <<prefix[1], prefix[2], name>>

CopyOps(prefix, items) ==
    [i \in DOMAIN items |-> Op("copy", Source(items[i]), Destination(prefix, items[i]))]

HeaderComponent(r) == IF r.header_component = "" THEN r.component ELSE r.header_component

TargetRuleOps(prefix, component, r) ==
    (IF ~Matches(component, r.component) THEN << >>
     ELSE << Op("call", r.target, ""),
             Op("copy", Artifact(r.target, job.config), Destination(prefix, r.target)) >>)
    \o (IF ~Matches(component, HeaderComponent(r)) THEN << >>
        ELSE CopyOps(prefix, r.items))

FileRuleOps(prefix, component, r) ==
    IF Matches(component, r.component) THEN CopyOps(prefix, r.items) ELSE << >>

\* A directory is copied as it is found.
DirectoryRuleOps(prefix, component, r) ==
    IF ~Matches(component, r.component) THEN << >>
    ELSE <<[Op("copy tree", prefix, "") EXCEPT !.set = {Source(f) : f \in ToSet(r.items)}]>>

RuleOps(prefix, component, r) ==
    CASE r.kind = "target"    -> TargetRuleOps(prefix, component, r)
      [] r.kind = "file"      -> FileRuleOps(prefix, component, r)
      [] r.kind = "directory" -> DirectoryRuleOps(prefix, component, r)

\* An export of targets with artifacts has a second file for no configuration.
InstallExportOps(prefix, component, e) ==
    IF e.kind # "install" \/ ~Matches(component, e.component) THEN << >>
    ELSE <<Op("write", Destination(prefix, e.name), "")>>
         \o IF e.noconfig THEN <<Op("write", Destination(prefix, e.name \o "-noconfig"), "")>>
            ELSE << >>

InstallOps(prefix, component) ==
    FlattenSeq([i \in DOMAIN Project.install |->
                  RuleOps(prefix, component, Project.install[i])])
    \o FlattenSeq([i \in DOMAIN Project.exports |->
                     InstallExportOps(prefix, component, Project.exports[i])])

\* export_package_registry_add: an entry under the home directory, one for
\* each package and prefix; without a home there is nothing to do.
RegistryOps(e) ==
    IF e.enabled /\ Project.home THEN <<Op("write", <<"registry", e.name, "">>, "")>> ELSE << >>

\* export_all: the build-tree export files and the package registry.
ExportOps ==
    FlattenSeq([i \in DOMAIN Project.exports |->
      LET e == Project.exports[i]
      IN CASE e.kind = "tree"     -> <<Op("write", <<"export", e.name, "">>, "")>>
           [] e.kind = "registry" -> RegistryOps(e)
           [] e.kind = "install"  -> << >>])

(***************************************************************************)
(* package_all.  The archives of a plan share one staging directory, which *)
(* is emptied and filled again for each of them.                           *)
(***************************************************************************)
Staging(plan_name) == <<"staging", plan_name>>

Archive(plan_name, g, u) == <<"package", plan_name, g \o u>>

Metadata(plan_name) == <<"metadata", plan_name, "">>

\* The names without the repetitions: each where it comes first.
Unique(names) ==
    Keep(names, {i \in DOMAIN names : \A j \in 1 .. (i - 1) : names[j] # names[i]})

\* The components a plan lists, else the declared ones, else those of the
\* install rules (the exports are not asked).
Components(k) ==
    IF k.components # << >> THEN Unique(k.components)
    ELSE IF Project.components # << >> THEN Unique(Project.components)
    ELSE Unique(FlattenSeq([i \in DOMAIN Project.install |->
                  LET r == Project.install[i]
                  IN <<Named(r.component)>>
                     \o (IF r.header_component = "" THEN << >> ELSE <<r.header_component>>)]))

UnitKey(k, component) ==
    CASE k.grouping = "ALL_COMPONENTS_IN_ONE" -> ""
      [] k.grouping = "ONE_PER_GROUP" /\ component \in DOMAIN Project.group -> Project.group[component]
      [] OTHER -> component

\* One archive for each group or component, or one for all that is installed.
Units(k) ==
    LET all == Components(k)
        keys == Unique([i \in DOMAIN all |-> UnitKey(k, all[i])])
    IN IF ~k.by_component \/ all = << >> THEN <<[name |-> "", components |-> << >>]>>
       ELSE [i \in DOMAIN keys |->
               [name |-> keys[i],
                components |-> Keep(all, {j \in DOMAIN all : UnitKey(k, all[j]) = keys[i]})]]

PayloadOpsKeepStaging(k, u) ==
    IF u.components = << >> THEN InstallOps(Staging(k.name), "")
    ELSE FlattenSeq([i \in DOMAIN u.components |-> InstallOps(Staging(k.name), u.components[i])])

PayloadOps(k, u) ==
    <<Op("unstage", k.name, "")>>
    \o IF u.components = << >> THEN InstallOps(Staging(k.name), "")
       ELSE FlattenSeq([i \in DOMAIN u.components |-> InstallOps(Staging(k.name), u.components[i])])

ArchiveOps(k, g, u) ==
    << SetOp("remove", {Archive(k.name, g, u.name)}),
       Op("pack", k.name, Archive(k.name, g, u.name)),
       Op("metadata", k.name, Archive(k.name, g, u.name)) >>

Selected(g) == job.arg = "" \/ job.arg = g

PlanOps(k) ==
    <<SetOp("remove", {Metadata(k.name)})>>
    \o FlattenSeq([i \in DOMAIN k.generators |->
         IF ~Selected(k.generators[i]) THEN << >>
         ELSE FlattenSeq([j \in DOMAIN Units(k) |->
                PayloadOps(k, Units(k)[j]) \o ArchiveOps(k, k.generators[i], Units(k)[j])])])

\* A generator that no plan has is refused only after every plan was tried.
PackageOps ==
    IF job.arg \notin {"", "TGZ", "TXZ", "ZIP"} THEN <<Op("refuse", "", "")>>
    ELSE FlattenSeq([i \in DOMAIN Project.packages |-> PlanOps(Project.packages[i])])
         \o IF \/ job.arg = "" \/ Project.packages = << >>
               \/ \E k \in ToSet(Project.packages) : job.arg \in ToSet(k.generators)
            THEN << >> ELSE <<Op("refuse", "", "")>>

(***************************************************************************)
(* run_test_phase: the programs of the selected tests are built, and then  *)
(* either the tests run or the script's dashboard is replayed.             *)
(***************************************************************************)
TestSelected(i) ==
    LET test == Project.tests[i]
    IN /\ job.arg = "" \/ job.arg = test.name
       /\ job.config = "" \/ test.configs = {} \/ job.config \in test.configs

SelectedTests ==
    Keep([i \in DOMAIN Project.tests |-> i], {i \in DOMAIN Project.tests : TestSelected(i)})

TestTarget(i) ==
    IF Project.tests[i].target = "" THEN << >> ELSE Calls(<<Project.tests[i].target>>)

BuildTestOps == FlattenSeq([i \in DOMAIN SelectedTests |-> TestTarget(SelectedTests[i])])

UnknownTest == job.arg # "" /\ \A test \in ToSet(Project.tests) : test.name # job.arg

\* run_registered_tests: every selected test runs, whatever the others did.
RegisteredOps(auto_build, reports) ==
    IF UnknownTest THEN <<Op("refuse", "", "")>>
    ELSE FlattenSeq([i \in DOMAIN SelectedTests |->
             (IF auto_build THEN TestTarget(SelectedTests[i]) ELSE << >>)
             \o <<Op("test", SelectedTests[i], "")>>])
         \o (IF SelectedTests = << >> THEN << >> ELSE reports)
         \o <<Op("sum up", "", "")>>

\* ctest_prepare_tree in append mode, the report and its manifest.
ReportOps(name) ==
    << Op("write", <<"report", "TAG", "">>, ""),
       Op("write", <<"report", job.config, name>>, ""),
       Op("write", <<"report", job.config, name \o "Manifest">>, "") >>

TestReportOps == ReportOps("Test")

CoverageReportOps == ReportOps("Coverage")

MemCheckReportOps == ReportOps("MemCheck")

\* ctest_memcheck over the selected tests, each with its repetitions.
MemCheckOps(d) ==
    IF UnknownTest THEN <<Op("refuse", "", "")>>
    ELSE [i \in DOMAIN SelectedTests |->
            [Op("memcheck", SelectedTests[i], d.count) EXCEPT !.set = {d.repeat, d.stop}]]
         \o (IF SelectedTests = << >> THEN << >> ELSE MemCheckReportOps)
         \o <<Op("sum up", "", "")>>

\* ctest_empty_binary_directory.
EmptyOps ==
    << SetOp("remove", {p \in DOMAIN files : p[1] \notin {"source", "program", "prefix", "registry"}}),
       Op("cleaned", "", "") >>

\* ctest_start: a new tag, unless APPEND keeps the old reports.
StartOps(d) ==
    <<SetOp("remove", IF d.append THEN {} ELSE {p \in DOMAIN files : p[1] = "report"})>>
    \o ReportOps("Start")

\* ctest_configure of the program's own build directory.
ConfigureSelfOps == <<Op("configure", "force", "")>> \o ReportOps("Configure")

\* ctest_build of the program's own build directory, perhaps in another
\* configuration, which is put back afterwards.
BuildSelfOps(d) ==
    << Op("config", IF d.config = "" THEN job.config ELSE d.config, ""),
       Op("configure", "", "") >>
    \o (IF d.target = "" THEN Calls(DefaultTargets) ELSE Calls(<<d.target>>))
    \o <<Op("config", job.config, "")>> \o ReportOps("Build")

DriverOps(d) ==
    CASE d.op = "empty"     -> EmptyOps
      [] d.op = "start"     -> StartOps(d)
      [] d.op = "configure" -> ConfigureSelfOps
      [] d.op = "build"     -> BuildSelfOps(d)
      [] d.op = "test"      -> RegisteredOps(FALSE, TestReportOps)
      [] d.op = "coverage"  -> <<Op("tool", "", "")>> \o CoverageReportOps
      [] d.op = "memcheck"  -> MemCheckOps(d)
      [] d.op = "sleep"     -> << >>

TestOps ==
    BuildTestOps
    \o IF Project.driver = << >> THEN RegisteredOps(TRUE, << >>)
       ELSE [i \in DOMAIN Project.driver |-> Op("driver", "", i)]

-----------------------------------------------------------------------------
(***************************************************************************)
(* main.                                                                   *)
(***************************************************************************)
EnsureConfigured == <<Op("configure", "", "")>>

\* What the command line asks for, once job.cmd, job.arg and job.config are
\* set.
CommandLine ==
    /\ Doing("main")
    /\ Proceed(
         CASE Now.x = "configure" -> <<Op("configure", "force", "")>>
           [] Now.x = "clean"     -> CleanOps
           [] Now.x = "build"     ->
                EnsureConfigured \o (IF job.arg = "" THEN Calls(DefaultTargets)
                                     ELSE Calls(<<job.arg>>))
           [] Now.x = "install"   -> EnsureConfigured \o InstallOps(<<"prefix", "">>, job.arg)
           [] Now.x = "export"    -> EnsureConfigured \o ExportOps
           [] Now.x = "package"   -> EnsureConfigured \o PackageOps
           [] Now.x = "test"      -> EnsureConfigured \o TestOps)
    /\ Quiet

Start ==
    /\ ~job.running /\ used.runs < MaxRuns
    /\ used' = [used EXCEPT !.runs = @ + 1]
    /\ \E request \in Project.requests, c \in Project.configs :
         job' = [Idle EXCEPT !.running = TRUE, !.cmd = request[1], !.arg = request[2],
                             !.config = c, !.todo = <<Op("main", request[1], "")>>]
    /\ result' = Nothing
    /\ blind' = (blind \ {"memo"})
                \cup IF binary = files[Program].text.version THEN {} ELSE {"old binary"}
    /\ UNCHANGED <<plan, files, clock, binary>>

-----------------------------------------------------------------------------
\* install_copy_file: a missing source is an error.
Copy ==
    /\ Doing("copy")
    /\ \/ Exists(Now.x) /\ Made(Now.y, files[Now.x].text)
       \/ ~Exists(Now.x) /\ Fail

CopyTree ==
    /\ Doing("copy tree")
    /\ LET found == Now.set \cap DOMAIN files
           to(p) == Destination(Now.x, p[2])
       IN files' = [q \in DOMAIN files \cup {to(p) : p \in found} |->
                      IF \E p \in found : q = to(p)
                      THEN [time |-> clock, text |-> files[CHOOSE p \in found : q = to(p)].text]
                      ELSE files[q]]
    /\ Proceed(<< >>)
    /\ UNCHANGED <<result, blind>> /\ Kept

Write == Doing("write") /\ Made(Now.x, Text("write", job.config, binary, {}))

Unstage ==
    /\ Doing("unstage")
    /\ files' = Without(files, {p \in DOMAIN files : p[1] = "staging" /\ p[2] = Now.x})
    /\ Proceed(<< >>)
    /\ UNCHANGED <<result, blind>> /\ Kept

\* cpack packs what is in the staging directory.
Pack ==
    /\ Doing("pack")
    /\ Made(Now.y, Text("cpack", job.config, binary,
                        Reading({p \in DOMAIN files : p[1] = "staging" /\ p[2] = Now.x})))

AppendMetadata ==
    /\ Doing("metadata")
    /\ LET path == Metadata(Now.x)
           listed == IF Exists(path) THEN files[path].text.from ELSE {}
       IN Made(path, Text("metadata", job.config, binary, listed \cup Reading({Now.y})))

Refuse == Doing("refuse") /\ Fail

\* A test passes or not; it cannot pass without its program.
RunTest ==
    /\ Doing("test")
    /\ \E passed \in BOOLEAN :
         /\ passed => \/ Project.tests[Now.x].target = ""
                      \/ Exists(Artifact(Project.tests[Now.x].target, job.config))
         /\ job' = [job EXCEPT !.todo = Rest, !.failed = @ \/ ~passed]
    /\ Quiet

\* One attempt of a memory check, and whether it is tried again.
Again(passed) ==
    /\ Now.y > 1
    /\ \/ "until-pass" \in Now.set /\ ~passed
       \/ "until-fail" \in Now.set /\ passed

\* The checks that are still to come, where the loop over them ends here.
Remaining(n) ==
    /\ \A i \in 1 .. n : Rest[i].do = "memcheck"
    /\ n < Len(Rest) => Rest[n + 1].do # "memcheck"

MemCheck ==
    /\ Doing("memcheck")
    /\ \E passed \in BOOLEAN :
         \/ /\ Again(passed)
            /\ Proceed(<<[Op("memcheck", Now.x, Now.y - 1) EXCEPT !.set = Now.set]>>)
         \/ /\ ~Again(passed) /\ (passed \/ "stop" \notin Now.set)
            /\ job' = [job EXCEPT !.failed = @ \/ ~passed, !.todo = Rest]
         \/ /\ ~Again(passed) /\ ~passed /\ "stop" \in Now.set
            /\ \E n \in 0 .. Len(Rest) :
                 /\ Remaining(n)
                 /\ job' = [job EXCEPT !.failed = TRUE, !.todo = SubSeq(Rest, n + 1, Len(Rest))]
    /\ Quiet

SumUp ==
    /\ Doing("sum up")
    /\ \/ job.failed /\ Fail
       \/ ~job.failed /\ Proceed(<< >>) /\ Quiet

\* A coverage tool runs, or cpack or a coverage tool fails.
RunTool == Doing("tool") /\ Proceed(<< >>) /\ Quiet

HostToolFails == (Doing("tool") \/ Doing("pack")) /\ Fail

SetConfig ==
    /\ Doing("config")
    /\ job' = [job EXCEPT !.todo = Rest, !.config = Now.x]
    /\ Quiet

\* ctest_execute_*: a dashboard step whose build directory is the program's
\* own is executed by the program itself.
Driver == Doing("driver") /\ Proceed(DriverOps(Project.driver[Now.y])) /\ Quiet

ProgramStep ==
    \/ BuildStep
    \/ CommandLine \/ Copy \/ CopyTree \/ Write \/ Unstage \/ Pack \/ AppendMetadata \/ Refuse
    \/ RunTest \/ MemCheck \/ SumUp \/ RunTool \/ HostToolFails \/ SetConfig \/ Driver

Next == Start \/ ProgramStep \/ Around

Spec == Init /\ [][Next]_vars

-----------------------------------------------------------------------------
(***************************************************************************)
(* Properties.                                                             *)
(***************************************************************************)

\* A target or a step is as a build from nothing would leave it now.
CurrentTarget(t, c) ==
    Joined(t) =>
      /\ \A s \in ToSet(Project.target[t].sources) :
           /\ Exists(Object(t, s))
           /\ files[Object(t, s)].text = CompileText(t, s, c)
      /\ Exists(Artifact(t, c))
      /\ files[Artifact(t, c)].text =
           IF Project.target[t].kind = "static" THEN Text("ar", c, binary, Reading(Objects(t)))
           ELSE LinkText(t, c)

CurrentStep(s, c) ==
    \A p \in Outputs(s) : Exists(p) /\ files[p].text = CommandText(s, c)

AllCurrent ==
    \A m \in result.made :
      IF m[1] \in DOMAIN Project.step THEN CurrentStep(m[1], m[2])
      ELSE CurrentTarget(m[1], m[2])

\* When a run of the generated program succeeds, everything it says it built
\* is what a build from nothing would give now, whatever crashes, failed
\* tools, edits, configuration changes and lost files came before (build_*
\* and run_* skip what nob_needs_rebuild finds up to date).  The exceptions
\* are the changes modification times cannot show, which `blind' lists.
BuildIsCurrent == result.ok /\ blind = {} => AllCurrent

\* Two configurations never meet in one tree: every object and every file
\* the configure actions made belongs to the configuration whose stamp is
\* there, and there is at most one stamp (objects have one path for all
\* configurations; clean_all in configure_all keeps them apart).
ConfigsApart ==
    \A c \in Configs : Exists(Stamp(c)) =>
      /\ \A d \in Configs \ {c} : ~Exists(Stamp(d))
      /\ \A p \in DOMAIN files :
           p[1] = "object" \/ p \in Guarded => files[p].text.config = c

\* build_state and step_state: no target or step is entered again before it
\* is left, so a cycle through targets and steps ends in an error.
NoReentry ==
    \A i, j \in DOMAIN job.todo :
      (i # j /\ job.todo[i].do = "return" /\ job.todo[j].do = "return")
        => job.todo[i].x # job.todo[j].x

Payload(k, u, c) ==
    LET wanted(of) == u.components = << >> \/ Named(of) \in ToSet(u.components)
        rules == ToSet(Project.install)
        place(name) == Destination(Staging(k.name), name)
        exports == {e \in ToSet(Project.exports) : e.kind = "install" /\ wanted(e.component)}
    IN {<<place(r.target), files[Artifact(r.target, c)].text>> :
          r \in {r \in rules : r.kind = "target" /\ wanted(r.component)}}
       \cup {<<place(f), files[Source(f)].text>> :
               f \in UNION {ToSet(r.items) : r \in {r \in rules :
                       wanted(IF r.kind = "target" THEN HeaderComponent(r) ELSE r.component)}}}
       \cup {<<place(n), Text("write", c, binary, {})>> :
               n \in {e.name : e \in exports}
                     \cup {e.name \o "-noconfig" : e \in {f \in exports : f.noconfig}}}

\* Every archive a successful package command made holds exactly the files
\* of its own components, as they are now, and the metadata lists exactly
\* these archives (package_run_plan reuses one staging directory).
PackagesExact ==
    (result.ok /\ result.cmd = "package") =>
      \A k \in ToSet(Project.packages) :
        LET made == {Archive(k.name, g, u.name) :
                       g \in {g \in ToSet(k.generators) : result.arg \in {"", g}},
                       u \in ToSet(Units(k))}
        IN /\ \A g \in ToSet(k.generators), u \in ToSet(Units(k)) :
                Archive(k.name, g, u.name) \in made =>
                  files[Archive(k.name, g, u.name)].text.from = Payload(k, u, result.config)
           /\ made # {} => files[Metadata(k.name)].text.from = Reading(made)

\* The dashboard steps replayed by the program leave what they report: after
\* a test command that succeeded, what it built is there.
DashboardBuilds == result.ok /\ result.cmd = "test" /\ blind \subseteq {"memo"} => AllCurrent

=============================================================================
