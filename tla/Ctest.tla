------------------------------- MODULE Ctest --------------------------------
(***************************************************************************)
(* The ctest_* commands: eval_ctest.c. A dashboard session is a set of     *)
(* variables in the scope of the command that set them; the steps that     *)
(* were run are records of the session state, which transactions undo; the *)
(* reports they wrote are files, which transactions do not. What a step    *)
(* sends to the server is chosen by its record.                            *)
(*                                                                         *)
(* The source directory is resolved as the build directory is, and left    *)
(* out. A build directory stands for its Testing directory too.            *)
(***************************************************************************)
EXTENDS SessionCommands

DefaultBuild == "bin"

\* ctest_session_resolved_build_dir, for a command with or without BUILD
BuildDir(c) ==
    IF c.build # None THEN c.build
    ELSE IF Get(now, "SESSION::BUILD") # None THEN Get(now, "SESSION::BUILD")
    ELSE IF Get(now, "CTEST_BINARY_DIRECTORY") # None THEN Get(now, "CTEST_BINARY_DIRECTORY")
    ELSE DefaultBuild

\* ctest_parse_generic: the variables a command names are set before it runs,
\* and undone if its arguments are wrong (c.malformed).
ResultVariables(c) == SetIf(SetIf(SetIf(now, c.rv, "0"), c.capture, "0"), c.counted, "0")

\* ctest_apply_resolved_context: the build directory is published at once.
StepState(c) == Set(ResultVariables(c), "CTEST_BINARY_DIRECTORY", BuildDir(c))

\* ctest_ensure_session_tag: the tag of the session, of the TAG file if the
\* command appends to it, or a new one. The TAG file is written again each time.
EnsureTag(st, build, model, group, append) ==
    LET testing == IF Get(st, "SESSION::TESTING_DIR") # None THEN Get(st, "SESSION::TESTING_DIR") ELSE build
        known   == Get(st, "SESSION::TAG")
        reuse   == known = None /\ append /\ testing \in DOMAIN world.tag_files
        fresh   == known = None /\ ~reuse
        tag     == IF fresh THEN world.tags + 1 ELSE IF reuse THEN world.tag_files[testing].tag ELSE known
    IN  [testing |-> testing,
         tag     |-> tag,
         st      |-> Set(Set(Set(Set(st, "SESSION::TAG", tag), "SESSION::TESTING_DIR", testing), "CTEST_TAG", tag),
                         "CTEST_BINARY_DIRECTORY", build),
         world   |-> [world EXCEPT !.tags = IF fresh THEN @ + 1 ELSE @,
                                   !.tag_files = With(@, testing, [tag |-> tag, model |-> model, group |-> group])]]

Model == IF Get(now, "SESSION::MODEL") = None THEN "Experimental" ELSE Get(now, "SESSION::MODEL")
Track == Get(now, "SESSION::TRACK")

\* ctest_project_committed_step: the variables that tell of the last step.
StepPublished(st, step) ==
    Set(Set(st, "NOBIFY_CTEST_LAST_COMMAND", step.part), "NOBIFY_CTEST::STATUS", step.status)

\* ctest_commit_step_record
StepRecorded(st, part, status, tag, report) ==
    LET step == [part |-> part, status |-> status, tag |-> tag, report |-> report]
    IN  StepPublished([st EXCEPT !.steps = Append(@, step)], step)

\* A step that failed: with CAPTURE_CMAKE_ERROR it is recorded and the script
\* goes on, without it the error undoes the record and the variables.
StepFailed(c, part, st) ==
    IF c.capture = None THEN Wrong
    ELSE Done(StepRecorded(Set(st, c.capture, "-1"), part, "FAILED", Get(st, "SESSION::TAG"), None))

\* A step that ran: its report and its manifest go under the tag of the
\* session. The machine may not be able to write them (c.staged): the command
\* then leaves no record, and says nothing.
StepStaged(c, part, status, st, content) ==
    LET t     == EnsureTag(st, BuildDir(c), Model, Track, c.append)
        path  == <<t.testing, t.tag, part>>
        xml   == [run |-> world.runs + 1, of |-> content]
        wrote == [t.world EXCEPT !.reports = With(@, path, xml), !.runs = @ + 1]
    IN  CASE c.staged = "no tag"      -> Done(st)
          [] c.staged = "no report"   -> [Done(t.st) EXCEPT !.world = t.world]
          [] c.staged = "no manifest" -> [Done(t.st) EXCEPT !.world = wrote]
          [] OTHER                    -> [Done(StepRecorded(t.st, part, status, t.tag, path)) EXCEPT
                                             !.world = [wrote EXCEPT !.staged = With(@, part, xml)]]

\* ctest_test and ctest_memcheck turn a report they cannot write into a failure.
StagedOrFailed(c, part, status, st, content) ==
    LET out == StepStaged(c, part, status, st, content)
    IN  IF c.staged = "yes" THEN out
        ELSE IF c.capture = None THEN [Wrong EXCEPT !.world = out.world]
        ELSE [StepFailed(c, part, SetIf(out.st, c.rv, "-1")) EXCEPT !.world = out.world]

\* ctest_begin_test_driver_action: from here on what is done to files is for the
\* tests too.
TestDriver(out, op) ==
    [out EXCEPT !.world.floor = "TEST", !.world.next_action = @ + 1,
                !.events = <<[Action(op, "TEST", <<>>, <<>>, <<>>, <<>>) EXCEPT !.id = world.next_action + 1]>>]

\* The replay event of a command whose step was recorded, failed ones included.
Replayed(out, op) == IF out.ok /\ Len(out.st.steps) > Len(now.steps) THEN TestDriver(out, op) ELSE out

-----------------------------------------------------------------------------
(* The steps. c.command says whether there is a command to run; c.ran that *)
(* it started and did not run out of time; c.exit is its exit code.        *)

Ran(c)       == c.command /\ c.ran
Succeeded(c) == Ran(c) /\ c.exit = 0

\* What the reports say: the counts and codes the variables also get.
BuildXml(c)           == [errors |-> c.count, exit |-> c.exit]
ConfigureXml(c)       == [exit |-> c.exit]
CoverageXml(c)        == [exit |-> c.exit]
UpdateXml(c)          == [updated |-> c.count]
TestXml(run, failed)  == [run |-> run, failed |-> failed]
MemcheckXml(run, failed) == [run |-> run, failed |-> failed]

\* ctest_build(): whatever the build command's exit code, its report is staged.
BuildFailed(c) == StepFailed(c, "Build", SetIf(SetIf(StepState(c), c.counted, "0"), c.rv, "-1"))
BuildRan(c) ==
    StepStaged(c, "Build", "BUILT", SetIf(SetIf(SetIf(StepState(c), c.counted, c.count), c.rv, c.exit), c.capture, "0"),
               BuildXml(c))
CtestBuild(c) ==
    Leaf(c, "ctest_build",
         IF c.malformed THEN Wrong
         ELSE Replayed(IF Ran(c) THEN BuildRan(c) ELSE BuildFailed(c), "CTEST_BUILD_SELF"))

\* ctest_configure() and ctest_coverage(): an exit code that is not zero is a failure.
FailureCode(c) == IF Ran(c) /\ c.exit > 0 THEN c.exit ELSE 1
CtestConfigure(c) ==
    Leaf(c, "ctest_configure",
         IF c.malformed THEN Wrong
         ELSE Replayed(IF Succeeded(c)
                       THEN StepStaged(c, "Configure", "CONFIGURED", SetIf(StepState(c), c.rv, "0"), ConfigureXml(c))
                       ELSE StepFailed(c, "Configure", SetIf(StepState(c), c.rv, FailureCode(c))),
                       "CTEST_CONFIGURE_SELF"))
CtestCoverage(c) ==
    Leaf(c, "ctest_coverage",
         IF c.malformed THEN Wrong
         ELSE Replayed(IF Succeeded(c)
                       THEN StepStaged(c, "Coverage", "COLLECTED", SetIf(StepState(c), c.rv, "0"), CoverageXml(c))
                       ELSE StepFailed(c, "Coverage", SetIf(StepState(c), c.rv, FailureCode(c))),
                       "CTEST_COVERAGE_LOCAL"))

\* ctest_update(): a version that is given needs no command; the command is the
\* one that is set, or that of the version control system (UPDATE_TYPE, or the
\* one whose directory the source tree has). Its event keeps the run from being
\* replayed.
UpdateType(c) == IF c.type # None THEN c.type ELSE c.detected
UpdateRan(c)  == c.version \/ ((c.command \/ UpdateType(c) # None) /\ c.ran /\ c.exit = 0)
CtestUpdate(c) ==
    Leaf(c, "ctest_update",
         IF c.malformed \/ UpdateType(c) \notin {None, "git", "svn", "cvs", "hg", "bzr", "p4"} THEN Wrong
         ELSE Replayed(IF UpdateRan(c)
                       THEN StepStaged(c, "Update", "UPDATED", SetIf(SetIf(StepState(c), c.rv, c.count), c.capture, "0"), UpdateXml(c))
                       ELSE StepFailed(c, "Update", SetIf(StepState(c), c.rv, "-1")),
                       "TEST_DRIVER_REJECT"))

\* enable_testing() and add_test() as the dashboard commands see them.
EnableTesting(c) == Leaf(c, "enable_testing", [Done(now) EXCEPT !.events = <<[type |-> "TEST_ENABLE"]>>])

\* The test is a record and two variables: the marker of the name holds the
\* directories whose own marker is visible with it.
TestMarker(name) == "NOBIFY_TEST::" \o name
MarkedIn(name) == LET dirs == Get(now, TestMarker(name)) IN IF dirs = None THEN {} ELSE dirs
AddTest(c) ==
    Leaf(c, "add_test",
         [Done(Set([Registered(now, world, CurrentDir) EXCEPT !.tests = @ \cup {<<CurrentDir, c.name>>}],
                   TestMarker(c.name), MarkedIn(c.name) \cup {CurrentDir})) EXCEPT
             !.events = <<[type |-> "TEST_ADD", name |-> c.name]>>])

\* ctest_collect_test_plan_from_stream: the tests of the stream, each once for
\* its name and the directory the stream was in, if testing was enabled.
PlanStep(acc, e) ==
    CASE e.type = "DIRECTORY_ENTER" -> [acc EXCEPT !.dirs = Append(@, e.dir)]
      [] e.type = "DIRECTORY_LEAVE" -> [acc EXCEPT !.dirs = IF @ = <<>> THEN @ ELSE Front(@)]
      [] e.type = "TEST_ENABLE"     -> [acc EXCEPT !.enabled = TRUE]
      [] e.type = "TEST_ADD"        ->
            LET test == <<e.name, IF acc.dirs = <<>> THEN Root ELSE Last(acc.dirs)>>
            IN  IF Contains(acc.plan, test) THEN acc ELSE [acc EXCEPT !.plan = Append(@, test)]
      [] OTHER                      -> acc
TestPlan ==
    LET all == FoldLeft(PlanStep, [plan |-> <<>>, dirs |-> <<>>, enabled |-> FALSE], stream)
    IN  IF all.enabled THEN all.plan ELSE <<>>

Outcome(c, k) == IF k \in DOMAIN c.outcomes THEN c.outcomes[k] ELSE "passed"

\* Without a plan the tests of the build tree are run by ctest itself.
ExternalTests(c) == c.ran /\ c.exit = 0

\* ctest_test(): c.until is how many tests start before STOP_TIME.
TestFailed(c) == StepFailed(c, "Test", SetIf(StepState(c), c.rv, "-1"))
CtestTest(c) ==
    LET run    == 1..Min({Len(TestPlan), c.until})
        failed == Cardinality({k \in run : Outcome(c, k) # "passed"})
    IN  Leaf(c, "ctest_test",
             IF c.malformed THEN Wrong
             ELSE IF TestPlan = <<>> /\ ~ExternalTests(c) THEN Replayed(TestFailed(c), "CTEST_TEST")
             ELSE Replayed(StagedOrFailed(c, "Test", "TESTED", SetIf(SetIf(StepState(c), c.rv, failed), c.capture, "0"),
                                          TestXml(Cardinality(run), failed)),
                           "CTEST_TEST"))

\* The attempt whose result counts, of the attempts a test is given: the last
\* one made. A timed out attempt did not pass.
LastAttempt(repeat, attempts) ==
    LET stops == {k \in DOMAIN attempts :
                     CASE repeat = "NONE"          -> TRUE
                       [] repeat = "UNTIL_PASS"    -> attempts[k] = "passed"
                       [] repeat = "UNTIL_FAIL"    -> attempts[k] # "passed"
                       [] repeat = "AFTER_TIMEOUT" -> attempts[k] # "timeout"}
    IN  IF stops = {} THEN Last(attempts) ELSE attempts[Min(stops)]

\* The tests numbered from START to END by STRIDE, in the order they run.
Selected(c) ==
    SelectSeq([k \in 1..Min({c.end, Len(TestPlan)}) |-> k], LAMBDA k : k >= c.start /\ (k - c.start) % c.stride = 0)

\* ctest_memcheck(): each selected test is attempted as REPEAT says, until one
\* fails if STOP_ON_FAILURE. Without a plan and without a memory checker it
\* returns without a word.
MemcheckFailed(c) == StepFailed(c, "MemCheck", SetIf(SetIf(StepState(c), c.counted, "0"), c.rv, "-1"))
MemcheckRan(c) ==
    LET result == LastAttempt(c.repeat, c.outcomes)
        bound  == IF c.stop_on_failure /\ result # "passed" THEN 1 ELSE Len(Selected(c))
        tried  == Min({Len(Selected(c)), c.until, bound})
        failed == IF result = "passed" THEN 0 ELSE tried
        st     == SetIf(SetIf(StepState(c), c.counted, failed), c.rv, IF failed > 0 THEN "1" ELSE "0")
    IN  StagedOrFailed(c, "MemCheck", "MEMCHECKED", SetIf(st, c.capture, "0"), MemcheckXml(tried, failed))
CtestMemcheck(c) ==
    Leaf(c, "ctest_memcheck",
         IF c.malformed THEN Wrong
         ELSE IF TestPlan = <<>> /\ ~c.command THEN Done(StepState(c))
         ELSE Replayed(IF (TestPlan = <<>> /\ ~ExternalTests(c)) \/ (Selected(c) # <<>> /\ ~c.command)
                       THEN MemcheckFailed(c) ELSE MemcheckRan(c),
                       "CTEST_MEMCHECK_LOCAL"))

-----------------------------------------------------------------------------
(* The session and its files.                                              *)

\* ctest_start(): an APPEND may take the model and the group from the TAG file
\* there is. A tag or testing directory the session has already is kept.
CtestStart(c) ==
    LET build   == IF c.build # None THEN c.build
                   ELSE IF Get(now, "CTEST_BINARY_DIRECTORY") # None THEN Get(now, "CTEST_BINARY_DIRECTORY") ELSE DefaultBuild
        testing == IF Get(now, "SESSION::TESTING_DIR") # None THEN Get(now, "SESSION::TESTING_DIR") ELSE build
        there   == c.append /\ testing \in DOMAIN world.tag_files
        model   == IF c.model = None /\ there THEN world.tag_files[testing].model ELSE c.model
        group   == IF c.group # None THEN c.group ELSE IF there THEN world.tag_files[testing].group ELSE model
        st      == Set(Set(Set(now, "SESSION::MODEL", model), "SESSION::BUILD", build), "SESSION::TRACK", group)
        t       == EnsureTag(st, build, model, group, c.append)
    IN  Leaf(c, "ctest_start",
             IF c.malformed \/ model \notin {"Experimental", "Continuous", "Nightly"} \/ c.checkout = "failed" THEN Wrong
             ELSE IF c.staged # "yes" THEN Done(st)
             ELSE TestDriver([Done(StepRecorded(Set(Set(t.st, "CTEST_MODEL", model), "CTEST_TRACK", group),
                                                "Start", "STAGED", t.tag, None)) EXCEPT !.world = t.world],
                             IF c.checkout = None THEN "CTEST_START_LOCAL" ELSE "NONE"))

\* ctest_empty_binary_directory(): c.kept are the reports the machine could not
\* remove.
CtestEmptyBinaryDirectory(c) ==
    LET gone == {p \in DOMAIN world.reports : p[1] = c.build /\ p[3] \notin c.kept}
        cleared == [world EXCEPT !.reports = [p \in DOMAIN @ \ gone |-> @[p]],
                                 !.tag_files = Without(@, c.build)]
    IN  Leaf(c, "ctest_empty_binary_directory",
             IF c.outside THEN Wrong
             ELSE IF c.kept # {} THEN [Wrong EXCEPT !.world = cleared]
             ELSE TestDriver([Done(Set(now, "NOBIFY_CTEST_LAST_COMMAND", "empty")) EXCEPT !.world = cleared],
                             "CTEST_EMPTY_BINARY_DIRECTORY"))

\* ctest_sleep()
CtestSleep(c) ==
    Leaf(c, "ctest_sleep",
         IF c.malformed THEN Wrong ELSE TestDriver(Done(now), "CTEST_SLEEP"))

UploadXml(c) == [files |-> c.count]
\* ctest_upload(): the files must be there; the record has them and Upload.xml.
CtestUpload(c) ==
    Leaf(c, "ctest_upload",
         IF c.malformed \/ ~c.exists THEN Wrong
         ELSE Replayed(StepStaged(c, "Upload", "STAGED", ResultVariables(c), UploadXml(c)), "TEST_DRIVER_REJECT"))

-----------------------------------------------------------------------------
(* Submission.                                                             *)

StepParts == {"Start", "Update", "Configure", "Build", "Test", "Coverage", "MemCheck", "Upload"}
Parts     == StepParts \cup {"Notes", "ExtraFiles", "Submit", "Done"}

\* eval_ctest_find_last_step_by_part; zero if the part was never run.
FirstStep(part) ==
    LET of == {k \in DOMAIN now.steps : now.steps[k].part = part}
    IN  IF of = {} THEN 0 ELSE Min(of)

LastStep(part) ==
    LET of == {k \in DOMAIN now.steps : now.steps[k].part = part}
    IN  IF of = {} THEN 0 ELSE Max(of)

\* ctest_submit_part_is_available: a failed step has no files to send.
PartAvailable(part) ==
    IF part \in StepParts THEN LastStep(part) # 0 /\ (part = "Start" \/ now.steps[LastStep(part)].report # None)
    ELSE part \in {"Notes", "ExtraFiles"} /\ Get(now, part) # None

\* The reports of the parts, chosen before the tag of the submission is.
PartReports(parts) ==
    {<<p, now.steps[LastStep(p)].report>> :
        p \in {q \in parts \cap StepParts : LastStep(q) # 0 /\ now.steps[LastStep(q)].report # None}}

\* ctest_submit_run_request_with_retry: only a request that timed out is made
\* again. A request that is "late" timed out for the client but arrived.
Attempts(answers, retries) ==
    LET final == {k \in DOMAIN answers : answers[k] \notin {"timeout", "late"} \/ k = retries + 1}
    IN  IF final = {} THEN Len(answers) ELSE Min(final)

\* What the server received of the request.
Arrived(answers, last, message) ==
    [k \in 1..Cardinality({j \in 1..last : answers[j] \in {"ok", "late"}}) |-> message]

\* The default signature: everything in one request. A report that is gone
\* makes it fail before anything is sent.
Delivery(c, parts, tag) ==
    LET reports == PartReports(parts)
        there   == \A r \in reports : r[2] \in DOMAIN world.reports
        answers == IF there THEN c.answers ELSE <<"error">>
        last    == Attempts(answers, c.retries)
        message == [tag |-> tag, clean |-> errors = 0, parts |-> parts,
                    reports |-> {<<r[1], world.reports[r[2]], IF r[1] \in DOMAIN world.staged THEN world.staged[r[1]] ELSE None>>
                                    : r \in reports}]
    IN  [success |-> answers[last] = "ok", sent |-> IF there THEN Arrived(answers, last, message) ELSE <<>>]

\* CDASH_UPLOAD asks the server first whether it wants the file (c.wanted), and
\* then sends it, both with retries.
CdashDelivery(c, tag) ==
    LET probe  == c.answers[Attempts(c.answers, c.retries)] = "ok"
        last   == Attempts(c.answers2, c.retries)
        upload == [tag |-> tag, clean |-> errors = 0, parts |-> {}, reports |-> {}]
    IN  [success |-> probe /\ (c.wanted => c.answers2[last] = "ok"),
         sent    |-> IF probe /\ c.wanted THEN Arrived(c.answers2, last, upload) ELSE <<>>]

\* ctest_submit_resolve_parts: those named, or those there is something for.
SubmitParts(c) == IF c.parts = None THEN {p \in Parts : PartAvailable(p)} ELSE c.parts

\* ctest_submit()
SubmitMalformed(c) ==
    \/ c.malformed \/ ~c.exists
    \/ ~(SubmitParts(c) \subseteq Parts)
    \/ c.upload # None /\ c.parts # None
CtestSubmit(c) ==
    LET t      == EnsureTag(ResultVariables(c), BuildDir(c), Model, Track, FALSE)
        remote == IF ~c.url THEN [success |-> FALSE, sent |-> <<>>]
                  ELSE IF c.upload # None THEN CdashDelivery(c, t.tag) ELSE Delivery(c, SubmitParts(c), t.tag)
        w      == [t.world EXCEPT !.sent = @ \o remote.sent]
        st     == SetIf(SetIf(t.st, c.rv, IF remote.success THEN "0" ELSE "1"), c.counted, IF remote.success THEN c.id ELSE "")
        done   == TestDriver([Done(IF remote.success THEN st ELSE SetIf(st, c.capture, "-1")) EXCEPT !.world = w], "NONE")
    IN  Leaf(c, "ctest_submit",
             IF SubmitMalformed(c) THEN Wrong
             ELSE IF remote.success \/ c.capture # None THEN done
             ELSE [Wrong EXCEPT !.world = w])

-----------------------------------------------------------------------------
(* Scripts.                                                                *)

Reject == <<[type |-> "TEST_DRIVER_REJECT"]>>

\* ctest_run_script(): its variables survive an error in a script.
RunScript(c) ==
    Enter(c, "ctest_run_script", now,
          [NewFrame("ctest_script", c, <<>>, TRUE) EXCEPT
              !.todo = [left |-> c.scripts, rv |-> "0", errors |-> errors, running |-> FALSE, before |-> None], !.pending = Reject],
          <<>>, world)

\* ctest_new_process_end: what the script added is cut off, by length; what it
\* replaced stays.
NewProcessEnd(st, before) ==
    [st EXCEPT !.scopes   = Front(@),
               !.commands = [n \in DOMAIN before.commands |-> @[n]],
               !.targets  = before.targets,
               !.provider = before.provider,
               !.finding  = SubSeq(@, 1, Len(before.finding)),
               !.decls    = [d \in DOMAIN before.decls |-> @[d]],
               !.states   = [d \in DOMAIN before.states |-> @[d]],
               !.making   = SubSeq(@, 1, Len(before.making)),
               !.watched  = before.watched,
               !.modules  = before.modules]

ScriptBegin ==
    /\ AtFrame("ctest_script") /\ Top.todo.left # <<>> /\ ~Top.todo.running
    /\ LET todo == [Top.todo EXCEPT !.errors = errors, !.running = TRUE, !.before = now]
       IN  /\ frames' = Append([frames EXCEPT ![Len(frames)].todo = todo],
                               ScriptFrame(Files[Head(todo.left)].body, Head(todo.left), FALSE))
           /\ world' = ScriptWorld(Head(todo.left), FALSE)
           /\ now' = Publish(IF Top.cmd.new_process THEN [now EXCEPT !.scopes = Append(@, Empty)] ELSE now, world')
    /\ UNCHANGED <<errors, stream, calls_run>>

ScriptEnd ==
    /\ AtFrame("ctest_script") /\ Top.todo.running
    /\ frames' = [frames EXCEPT ![Len(frames)].todo =
                     [Top.todo EXCEPT !.left = Tail(@), !.running = FALSE, !.rv = IF errors > Top.todo.errors THEN "1" ELSE "0"]]
    /\ now' = IF Top.cmd.new_process THEN NewProcessEnd(now, Top.todo.before) ELSE now
    /\ UNCHANGED <<world, errors, stream, calls_run>>

LeaveRunScript ==
    /\ AtFrame("ctest_script") /\ Top.todo.left = <<>> /\ ~Top.todo.running
    /\ Leave(SetIf(now, Top.cmd.rv, Top.todo.rv), world, FALSE, <<>>)

\* ctest_read_custom_files(): the custom files there are, in order.
ReadCustomFiles(c) ==
    Enter(c, "ctest_read_custom_files", now,
          [NewFrame("ctest_custom", c, <<>>, FALSE) EXCEPT
              !.todo = SelectSeq(c.files, LAMBDA f : f \in DOMAIN Files), !.pending = Reject],
          <<>>, world)

CustomFile ==
    /\ AtFrame("ctest_custom") /\ Top.todo # <<>>
    /\ RunFile(Head(Top.todo), FALSE, Tail(Top.todo))
    /\ UNCHANGED stream

LeaveCustomFiles ==
    /\ AtFrame("ctest_custom") /\ Top.todo = <<>>
    /\ Leave(Set(now, "NOBIFY_CTEST_LAST_COMMAND", "custom"), world, FALSE, <<>>)

=============================================================================
