----------------------------- MODULE Processes ------------------------------
(***************************************************************************)
(* The commands that run other programs: execute_process(),                *)
(* exec_program(), try_compile() and try_run(), and the environment they   *)
(* run them in. What the machine does with a program is part of the        *)
(* command: a program is a record of how it fares,                         *)
(*    fate   "runs", or why it does not                                    *)
(*    slow   it is still running when the time limit is reached            *)
(*    code   its exit code, as text                                        *)
(*    says, complains   what it writes to its outputs                      *)
(*    copies it writes what it reads before that                           *)
(*    prints it writes this variable of its environment after that         *)
(* Object files, command lines and the echo of commands and logs are left  *)
(* out.                                                                    *)
(***************************************************************************)
EXTENDS FileCommands

CONSTANT HostEnv   \* the environment of the evaluator's process

-----------------------------------------------------------------------------
(* The environment: an override, of a transaction like any variable, hides *)
(* what the process was started with, and None hides it altogether.        *)

\* eval_getenv_temp
EnvOf(st, v) ==
    IF v \in DOMAIN st.env THEN st.env[v] ELSE IF v \in DOMAIN HostEnv THEN HostEnv[v] ELSE None

\* eval_process_collect_envp
ChildEnv(st) ==
    LET known == DOMAIN HostEnv \cup DOMAIN st.env
    IN  [v \in {w \in known : EnvOf(st, w) # None} |-> EnvOf(st, v)]

\* set(ENV{v} x) and unset(ENV{v}), which has no value.
SetEnv(c) == Leaf(c, "set_env", Done([now EXCEPT !.env = With(@, c.var, c.value)]))

-----------------------------------------------------------------------------
(* One program: eval_process_run_capture.                                  *)

NotRun(why) == [started |-> FALSE, timed_out |-> FALSE, out |-> <<>>, err |-> <<>>, result |-> why]

\* The directory is entered, the program started and the directory left; all of
\* the input is written before any output is read.
RunCapture(p, input, limited) ==
    LET printed == IF p.prints = None THEN <<>>
                   ELSE IF p.prints \in DOMAIN ChildEnv(now) THEN Words(ChildEnv(now)[p.prints]) ELSE <<>>
        out     == (IF p.copies THEN input ELSE <<>>) \o p.says \o printed
    IN  CASE p.fate \in {"no directory", "not started", "lost"} -> NotRun(p.fate)
          [] p.fate = "closes its input" /\ input # <<>> -> NotRun(p.fate)
          [] OTHER ->
                [started |-> TRUE, timed_out |-> limited /\ p.slow, out |-> out, err |-> p.complains,
                 result |-> IF limited /\ p.slow THEN "timeout" ELSE p.code]

\* try_compile_run_command_captured, for a program without a time limit.
RanWell(p) == LET r == RunCapture(p, <<>>, FALSE) IN r.started /\ r.result = "0"

-----------------------------------------------------------------------------
(* execute_process() and exec_program(): eval_flow_process.c.              *)

\* The programs run one after the other, each on what the one before wrote, and
\* all against one deadline; one that reaches it is the last.
RunNext(acc, p, limited) ==
    LET r == RunCapture(p, acc.out, limited)
    IN  IF acc.over THEN acc
        ELSE [out |-> r.out, err |-> acc.err \o r.err, results |-> Append(acc.results, r.result),
              failed |-> acc.failed \/ r.result # "0", over |-> r.timed_out]

\* flow_exec_collect_results
CollectResults(c) ==
    IF c.input # None /\ ~IsFileAt(world.disk, c.input)
    THEN [out |-> <<>>, err |-> <<>>, results |-> <<"failed to read INPUT_FILE">>, failed |-> TRUE, over |-> FALSE]
    ELSE LET start == [out |-> IF c.input = None THEN <<>> ELSE TextAt(world.disk, c.input), err |-> <<>>,
                       results |-> <<>>, failed |-> FALSE, over |-> FALSE]
         IN  FoldLeft(LAMBDA acc, p : RunNext(acc, p, c.timeout > 0), start, c.programs)

Loud(quiet, text) == IF quiet THEN <<>> ELSE text
Merged(c, r) == Loud(c.error_quiet, r.err) \o Loud(c.output_quiet, r.out)

\* The variables that flow_exec_apply_outputs sets. One variable for both
\* outputs gets them together, errors first.
OutputVariables(c, r) ==
    LET shared == c.output # None /\ c.output = c.error
        st1 == SetIf(SetIf(now, c.result, Last(r.results)), c.results, r.results)
        st2 == SetIf(st1, c.output, IF shared THEN Loud(c.output_quiet, Merged(c, r)) ELSE Loud(c.output_quiet, r.out))
    IN  SetIf(st2, c.error, IF shared THEN Loud(c.error_quiet, Merged(c, r)) ELSE Loud(c.error_quiet, r.err))

\* The files it writes: a file that cannot be written is an error, and nothing
\* is done after it. Its directory is not made.
OutputFiles(c, r) ==
    LET shared == c.output_file # None /\ c.output_file = c.error_file
        d      == world.disk
        writes == c.output_file # None /\ ~c.output_quiet
        d1     == IF writes THEN Put(d, c.output_file, IF shared THEN Merged(c, r) ELSE r.out) ELSE d
        also   == c.error_file # None /\ ~c.error_quiet /\ ~shared
    IN  IF writes /\ ~CanWrite(d, c.output_file) THEN [ok |-> FALSE, disk |-> d]
        ELSE IF also /\ ~CanWrite(d1, c.error_file) THEN [ok |-> FALSE, disk |-> d1]
        ELSE [ok |-> TRUE, disk |-> IF also THEN Put(d1, c.error_file, r.err) ELSE d1]

\* Whatever the programs did is recorded as a marker, which the generated
\* program refuses to replay.
ProcessEvents(r) == <<[type |-> "PROC_EXEC_REQUEST"], [type |-> "PROC_EXEC_RESULT", failed |-> r.failed]>>
ProcessOutcome(c, r, events) ==
    LET files == OutputFiles(c, r)
        out   == Effect(files.ok, OutputVariables(c, r), files.disk, <<Marker("CONFIGURE")>>)
    IN  [out EXCEPT !.events = events \o @]

\* COMMAND_ERROR_IS_FATAL
IsFatal(c, r) ==
    /\ OutputFiles(c, r).ok
    /\ \/ c.fatal = "ANY" /\ r.failed
       \/ c.fatal = "LAST" /\ Last(r.results) # "0"

\* eval_request_stop: every file, function and transaction under way ends
\* without running anything more, each as failed, and the run ends without the
\* deferred calls and the files of its end. In a script of ctest_run_script()
\* only the script would end; no script here stops so.
\* The session is then what it was before the outermost transaction, but for
\* the variables: the transactions that preserve them hand them on, and the
\* outermost one that does not takes them back.
Unwound(st) ==
    LET open    == {k \in DOMAIN frames : frames[k].tx}
        undoing == {k \in open : ~frames[k].preserve}
        kept    == IF undoing = {} THEN st ELSE frames[Min(undoing)].before
        first   == frames[Min(open)].before
    IN  IF open = {} THEN st ELSE [first EXCEPT !.scopes = SubSeq(kept.scopes, 1, Len(first.scopes))]
Halt(c, cmd, out) ==
    /\ c.cmd = cmd
    /\ OfFrame("ctest_script") = {}
    /\ now' = [Unwound(Settle(now, out.st, FALSE, TRUE)) EXCEPT !.deferred = Front(@)]
    /\ world' = [out.world EXCEPT !.exec = <<>>, !.locks = SelectSeq(@, LAMBDA l : l.guard = "PROCESS")]
    /\ frames' = <<>>
    /\ errors' = errors + 1
    /\ UNCHANGED <<stream, calls_run>>

ExecuteProcess(c) ==
    LET r == CollectResults(c)
    IN  /\ c.cmd = "execute_process" /\ ~(~c.malformed /\ IsFatal(c, r))
        /\ Leaf(c, "execute_process", IF c.malformed THEN Wrong ELSE ProcessOutcome(c, r, ProcessEvents(r)))

ExecuteProcessFatal(c) ==
    LET r == CollectResults(c)
    IN  /\ c.cmd = "execute_process" /\ ~c.malformed /\ IsFatal(c, r)
        /\ Halt(c, "execute_process", ProcessOutcome(c, r, ProcessEvents(r)))

\* exec_program() is one program with a result and an output and no events.
ExecProgram(c) ==
    Leaf(c, "exec_program",
         IF PolicyIsNew("CMP0153") \/ c.malformed THEN Wrong ELSE ProcessOutcome(c, CollectResults(c), <<>>))

-----------------------------------------------------------------------------
(* try_compile(): eval_try_compile*.c. A source is a record of its path,   *)
(* its language ("AUTO" when its name does not tell) and, for one that the *)
(* command writes, the text it gets or the file it gets it from.           *)

\* The directory it works in: the one it names, or one of its own.
BinaryDir(c) ==
    IF c.bin # None THEN c.bin ELSE <<"bin", "CMakeFiles", "CMakeScratch", "try_compile_" \o ToString(world.probes + 1)>>
Probed(c, w) == IF c.bin = None THEN [w EXCEPT !.probes = @ + 1] ELSE w
Bound(d, p) == IF CanMkdir(d, p) THEN Mkdir(d, p) ELSE d

\* SOURCE_FROM_CONTENT, SOURCE_FROM_VAR and SOURCE_FROM_FILE write their file
\* while the arguments are read. A file that cannot be read is passed over; one
\* that cannot be written ends the command without a word.
ReadSource(acc, s, bin) ==
    LET text == IF s.from = None THEN s.text ELSE TextAt(acc.disk, s.from)
        path == bin \o s.path
    IN  IF ~acc.ok \/ (s.from # None /\ ~IsFileAt(acc.disk, s.from)) THEN acc
        ELSE IF s.text = None /\ s.from = None THEN [acc EXCEPT !.items = Append(@, [path |-> s.path, lang |-> s.lang])]
        ELSE IF ~CanWrite(acc.disk, path) THEN [acc EXCEPT !.ok = FALSE]
        ELSE [acc EXCEPT !.disk = Put(@, path, text), !.items = Append(@, [path |-> path, lang |-> s.lang])]
SourceItems(c) ==
    FoldLeft(LAMBDA acc, s : ReadSource(acc, s, BinaryDir(c)),
             [ok |-> TRUE, disk |-> Bound(world.disk, BinaryDir(c)), items |-> <<>>],
             IF c.signature = "SOURCE" THEN c.sources ELSE <<>>)

Failed(d) == [ok |-> FALSE, artifact |-> None, disk |-> d]
Built(d, p) == IF CanWrite(d, p) THEN [ok |-> TRUE, artifact |-> p, disk |-> Put(d, p, Words("program"))] ELSE Failed(d)

WantsLibrary == Get(now, "CMAKE_TRY_COMPILE_TARGET_TYPE") = "STATIC_LIBRARY"
ArtifactName == IF WantsLibrary THEN "libcmk2nob_try_compile.a" ELSE "cmk2nob_try_compile"

\* try_compile_execute_source_request: headers are passed over, the other
\* sources compiled in turn and the objects linked or archived.
ExecuteSource(c, d, items) ==
    LET units == SelectSeq(items, LAMBDA s : s.lang # "HEADERS")
    IN  IF \A k \in DOMAIN units : units[k].lang # "AUTO" /\ Exists(d, units[k].path) /\ units[k].path \in c.compiles
        THEN IF units # <<>> /\ RanWell(c.linker) THEN Built(d, BinaryDir(c) \o <<ArtifactName>>) ELSE Failed(d)
        ELSE Failed(d)

\* try_compile_project_source_visit: the sources under the directory, without
\* what is under the binary directory or made by another probe.
ProjectSources(c, d) ==
    LET found == {p \in Inside(d, c.source_dir) :
                     /\ d[p].kind = "file" /\ ~IsPrefix(BinaryDir(c), p) /\ "CMakeFiles" \notin ToSet(p)
                     /\ Last(p) \in DOMAIN c.languages}
    IN  SetToSeq({[path |-> p, lang |-> c.languages[Last(p)]] : p \in found})

\* try_compile_project_find_named_artifact: the shortest path of a file named
\* after the target.
NamedArtifact(d, bin, target) ==
    LET names == {target, target \o ".exe", target \o ".dll", target \o ".lib",
                  "lib" \o target \o ".a", "lib" \o target \o ".so", "lib" \o target \o ".dylib"}
        found == {p \in Inside(d, bin) : d[p].kind = "file" /\ "CMakeFiles" \notin ToSet(p) /\ Last(p) \in names}
    IN  IF found = {} THEN None ELSE CHOOSE p \in found : \A q \in found : Len(p) <= Len(q)

\* try_compile_execute_project_request: with no cmake but the evaluator's own
\* the project is compiled as the sources it has.
ExecuteProject(c, d) ==
    LET cmake   == Get(now, "CMAKE_COMMAND")
        sources == ProjectSources(c, d)
        d1      == FoldLeft(LAMBDA e, p : Put(Bound(e, Front(p)), p, Words("program")), d, c.makes)
    IN  IF ~Exists(d, Append(c.source_dir, "CMakeLists.txt")) THEN Failed(d)
        ELSE IF cmake \in {None, "cmake"}
             THEN IF sources = <<>> THEN Failed(d) ELSE ExecuteSource(c, d, sources)
        ELSE IF ~RanWell(c.configure) \/ ~RanWell(c.build) THEN Failed(d)
        ELSE [ok |-> TRUE, disk |-> d1, artifact |-> IF c.target = None THEN None ELSE NamedArtifact(d1, BinaryDir(c), c.target)]

Compiled(c) ==
    LET read == SourceItems(c)
    IN  IF c.signature = "PROJECT" THEN ExecuteProject(c, read.disk) ELSE ExecuteSource(c, read.disk, read.items)

\* COPY_FILE, of the artifact of sources only.
Copied(c, r) ==
    IF c.copy = None \/ c.signature = "PROJECT" THEN [st |-> now, ok |-> r.ok, disk |-> r.disk]
    ELSE IF WantsLibrary THEN [st |-> SetIf(now, c.copy_error, "no executable"), ok |-> FALSE, disk |-> r.disk]
    ELSE IF ~r.ok THEN [st |-> SetIf(now, c.copy_error, "failed"), ok |-> FALSE, disk |-> r.disk]
    ELSE LET d      == Bound(r.disk, Front(c.copy))
             copied == CanWrite(d, c.copy)
         IN  [st |-> SetIf(now, c.copy_error, IF copied THEN "" ELSE "failed"), ok |-> copied,
              disk |-> IF copied THEN PutCopy(d, r.artifact, c.copy, d) ELSE d]

\* try_compile_publish_result: a result of the cache is overwritten, and the
\* variables of scopes that hide it are left.
PublishResult(st, c, v, x) == IF c.no_cache THEN Set(st, v, x) ELSE [st EXCEPT !.cache = With(@, v, x)]
Truth(ok) == IF ok THEN "TRUE" ELSE "FALSE"

\* A probe is recorded, and the generated program refuses to repeat it.
Probe(op, c, r) ==
    Action(op, "CONFIGURE", <<>>, <<BinaryDir(c)>>, <<>>, <<c.result, IF r.artifact = None THEN <<>> ELSE r.artifact>>)
ProbeOps == {"PROBE_TRY_COMPILE_SOURCE", "PROBE_TRY_COMPILE_PROJECT", "PROBE_TRY_RUN"}
ProbeFailure(c, ok) == [Unrecorded(ok, now, SourceItems(c).disk) EXCEPT !.world = Probed(c, @)]

TryCompile(c) ==
    LET r    == Compiled(c)
        copy == Copied(c, r)
        st   == SetIf(PublishResult(copy.st, c, c.result, Truth(copy.ok)), c.output, c.log)
        op   == "PROBE_TRY_COMPILE_" \o c.signature
    IN  Leaf(c, "try_compile",
             IF c.malformed THEN ProbeFailure(c, FALSE)
             ELSE IF ~SourceItems(c).ok THEN ProbeFailure(c, TRUE)
             ELSE [Effect(TRUE, st, copy.disk, <<Probe(op, c, r)>>) EXCEPT !.world = Probed(c, @)])

-----------------------------------------------------------------------------
(* try_run(): eval_try_run.c. c.result is the variable of the compilation, *)
(* c.run that of the run.                                                  *)

ClearOutputs(st, c) == SetIf(SetIf(SetIf(st, c.run_output, <<>>), c.run_stdout, <<>>), c.run_stderr, <<>>)
UnsetIf(st, v) == IF v = None THEN st ELSE Unset(st, v)
UnsetOutputs(st, c) == UnsetIf(UnsetIf(UnsetIf(UnsetIf(st, c.run_output), c.run_stdout), c.run_stderr), c.legacy)

\* try_run_publish_compile_phase, try_run_finish_without_run and
\* try_run_publish_process_outputs
CompilePublished(c, r) == SetIf(PublishResult(now, c, c.result, Truth(r.ok)), c.compile_output, c.log)
WithoutRun(st, c, result) == PublishResult(SetIf(ClearOutputs(st, c), c.legacy, c.log), c, c.run, result)
RunPublished(st, c, p) ==
    LET st1 == SetIf(SetIf(PublishResult(st, c, c.run, p.result), c.run_stdout, p.out), c.run_stderr, p.err)
    IN  SetIf(SetIf(st1, c.run_output, p.out \o p.err), c.legacy, c.log \o p.out \o p.err)

\* When cross-compiling without an emulator nothing can be run, and the answers
\* come from entries of the cache: those of the outputs that are asked for.
Unrunnable == Truthy(Get(now, "CMAKE_CROSSCOMPILING")) /\ ~Truthy(Get(now, "CMAKE_CROSSCOMPILING_EMULATOR"))
OutputKey(c) == c.run \o "__TRYRUN_OUTPUT"
AnswerKeys(c) ==
    {c.run} \cup {OutputKey(c) : x \in {v \in {c.run_output, c.legacy} : v # None}}
            \cup {OutputKey(c) \o "_STDOUT" : x \in {v \in {c.run_stdout} : v # None}}
            \cup {OutputKey(c) \o "_STDERR" : x \in {v \in {c.run_stderr} : v # None}}
Answered(c) == AnswerKeys(c) \subseteq DOMAIN now.cache
Answer(k) == IF k \in DOMAIN now.cache THEN now.cache[k] ELSE <<>>

AnswersPublished(st, c) ==
    LET st1 == PublishResult(st, c, c.run, Answer(c.run))
        st2 == SetIf(SetIf(st1, c.run_output, Answer(OutputKey(c))), c.run_stdout, Answer(OutputKey(c) \o "_STDOUT"))
    IN  SetIf(SetIf(st2, c.run_stderr, Answer(OutputKey(c) \o "_STDERR")), c.legacy, <<c.log, Answer(OutputKey(c))>>)

\* try_run_publish_cross_compile_placeholders: entries to be filled in, in the
\* cache and in a file of the build tree that is added to.
PlaceholderRun == "PLEASE_FILL_OUT-FAILED_TO_RUN"
PlaceholderOutput == <<Chunk("plain", "PLEASE_FILL_OUT-NOTFOUND")>>
Placeholders(st, c) ==
    LET st1     == Set(Set(UnsetOutputs(st, c), c.result, "TRUE"), c.run, PlaceholderRun)
        missing == AnswerKeys(c) \ DOMAIN st.cache
    IN  [st1 EXCEPT !.cache = [k \in DOMAIN @ \cup missing |->
            IF k \notin missing THEN @[k] ELSE IF k = c.run THEN PlaceholderRun ELSE PlaceholderOutput]]
ResultsFile == <<"bin", "TryRunResults.cmake">>
ResultsAdded(d, c) ==
    Put(d, ResultsFile, (IF IsFileAt(d, ResultsFile) THEN TextAt(d, ResultsFile) ELSE <<>>) \o Words(c.run))

\* try_run_execute_request, but for the case below.
RunResult(c, r) ==
    LET st == CompilePublished(c, r)
        p  == RunCapture(c.program, <<>>, FALSE)
    IN  IF ~r.ok THEN WithoutRun(st, c, "")
        ELSE IF r.artifact = None THEN WithoutRun(st, c, "FAILED_TO_RUN")
        ELSE IF Unrunnable THEN AnswersPublished(st, c)
        ELSE IF p.started THEN RunPublished(st, c, p) ELSE WithoutRun(st, c, "FAILED_TO_RUN")
TryRunOutcome(c, st, disk) ==
    [Effect(TRUE, st, disk, <<Probe("PROBE_TRY_RUN", c, Compiled(c))>>) EXCEPT !.world = Probed(c, @)]
LacksAnswers(c) ==
    /\ ~c.malformed /\ SourceItems(c).ok
    /\ Compiled(c).ok /\ Compiled(c).artifact # None /\ Unrunnable /\ ~Answered(c)

TryRun(c) ==
    /\ c.cmd = "try_run" /\ ~LacksAnswers(c)
    /\ Leaf(c, "try_run",
            IF c.malformed THEN ProbeFailure(c, FALSE)
            ELSE IF ~SourceItems(c).ok THEN ProbeFailure(c, TRUE)
            ELSE TryRunOutcome(c, RunResult(c, Compiled(c)), Compiled(c).disk))

\* try_run_handle_cross_compile_without_emulator: the error it reports is taken
\* off its own transaction, which commits the entries to be filled in. The
\* commands around it still see an error: the pending count that is raised and
\* lowered again (461-466) and the flush of the diagnostic to the enclosing
\* transaction are here one assignment to `errors'.
TryRunUnanswered(c) ==
    /\ c.cmd = "try_run" /\ LacksAnswers(c)
    /\ LET r   == Compiled(c)
           out == TryRunOutcome(c, Placeholders(CompilePublished(c, r), c),
                                IF CanWrite(r.disk, ResultsFile) THEN ResultsAdded(r.disk, c) ELSE r.disk)
       IN  /\ now' = out.st
           /\ world' = out.world
           /\ frames' = Ahead
           /\ errors' = IF CanWrite(r.disk, ResultsFile) THEN errors + 1 ELSE errors
           /\ stream' = stream \o out.events
           /\ UNCHANGED calls_run

=============================================================================
