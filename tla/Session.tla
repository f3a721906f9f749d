------------------------------ MODULE Session -------------------------------
(***************************************************************************)
(* The evaluator session: a script run to its end, with every command the  *)
(* session modules have.                                                   *)
(***************************************************************************)
EXTENDS Properties, FetchContent, Processes, Replay

CoreCommand(c) ==
    \/ MinimumRequired(c) \/ CmakePolicy(c)
    \/ SetVariable(c) \/ UnsetVariable(c) \/ OptionCommand(c) \/ MarkAsAdvanced(c) \/ VariableWatch(c)
    \/ ErrorCommand(c) \/ UnknownCommand(c) \/ AddTarget(c)
    \/ DefineCommand(c) \/ InvokeCommand(c) \/ ReturnCommand(c)
    \/ Include(c) \/ AddSubdirectory(c) \/ IncludeGuard(c) \/ Project(c)
    \/ CmakeLanguageCall(c) \/ DeferCall(c) \/ DeferCancel(c) \/ DeferGet(c) \/ SetProvider(c)
    \/ FileGenerate(c) \/ FileWrite(c) \/ FileLock(c)

FileCommand(c) ==
    \/ FileRead(c) \/ FileStrings(c) \/ FileAsk(c) \/ FileReadSymlink(c) \/ FileRealPath(c) \/ FileRelativePath(c)
    \/ FileMakeDirectory(c) \/ FileAppend(c) \/ FileRename(c) \/ FileRemove(c) \/ FileCreateLink(c) \/ FileChmod(c)
    \/ FileCopy(c) \/ ConfigureFile(c) \/ FileConfigure(c) \/ FileCopyFile(c) \/ FileTouch(c)
    \/ FileGlob(c) \/ AuxSourceDirectory(c) \/ FileDownload(c) \/ FileUpload(c)
    \/ FileArchiveCreate(c) \/ FileArchiveExtract(c)

CoreStep ==
    \/ LeaveFunction \/ LeaveMacro \/ LeaveInclude \/ LeaveSubdirectory \/ LeaveCall \/ LeaveScript \/ LeaveDeferred
    \/ FlushDeferred \/ ProjectInclude \/ ProjectEnd \/ EndOfRun

DashboardCommand(c) ==
    \/ CtestStart(c) \/ CtestUpdate(c) \/ CtestConfigure(c) \/ CtestBuild(c) \/ CtestTest(c) \/ CtestCoverage(c)
    \/ CtestMemcheck(c) \/ CtestUpload(c) \/ CtestSubmit(c) \/ CtestSleep(c) \/ CtestEmptyBinaryDirectory(c)
    \/ EnableTesting(c) \/ AddTest(c) \/ RunScript(c) \/ ReadCustomFiles(c)

DashboardStep == ScriptBegin \/ ScriptEnd \/ LeaveRunScript \/ CustomFile \/ LeaveCustomFiles

DependencyCommand(c) ==
    \/ FindPackage(c) \/ RegistryAdd(c) \/ FindItem(c)
    \/ FetchDeclare(c) \/ FetchMakeAvailable(c) \/ FetchGetProperties(c) \/ FetchPopulateCommand(c) \/ FetchSetPopulated(c)

DependencyStep ==
    \/ FindProvider \/ FindProvided \/ FindResolve \/ FindVersionFile \/ FindVersion \/ FindPackageFile \/ FindRan
    \/ LeaveFindPackage \/ ItemValidate \/ ItemTried \/ LeaveFindItem
    \/ FetchBegin \/ FetchProvider \/ FetchProvided \/ FetchFind \/ FetchSought \/ FetchPopulate \/ FetchAdded \/ LeaveFetch

ProcessCommand(c) ==
    \/ SetEnv(c) \/ ExecuteProcess(c) \/ ExecuteProcessFatal(c) \/ ExecProgram(c)
    \/ TryCompile(c) \/ TryRun(c) \/ TryRunUnanswered(c)

PropertyCommand(c) ==
    \/ SetProperty(c) \/ SetTargetProperties(c) \/ SetDirectoryProperties(c) \/ SetSourceFilesProperties(c)
    \/ SetTestsProperties(c) \/ DefineProperty(c)
    \/ GetProperty(c) \/ GetCmakeProperty(c) \/ GetDirectoryProperty(c) \/ GetSourceFileProperty(c) \/ GetTargetProperty(c)
    \/ GetTestProperty(c)

Finished == frames = <<>> /\ UNCHANGED vars

Next ==
    \/ \E c \in Coming : CoreCommand(c) \/ FileCommand(c) \/ DashboardCommand(c) \/ DependencyCommand(c) \/ ProcessCommand(c)
                           \/ PropertyCommand(c)
    \/ CoreStep \/ DashboardStep \/ DependencyStep
    \/ Finished

Spec == Init /\ [][Next]_vars

-----------------------------------------------------------------------------

\* What a frame keeps open: a scope, a queue of deferred calls, an active package
\* or an active dependency.
InNewProcess(f) == f.kind = "ctest_script" /\ f.cmd.new_process /\ f.todo.running
HasScope(f) == f.kind \in {"function", "subdirectory"} \/ InNewProcess(f)
HasQueue(f) == f.kind \in {"top", "subdirectory"}
IsFinding(f) == f.kind = "find_package" /\ f.todo.stage \in {"version", "versioned", "package", "ran"}
IsMaking(f)  == f.kind = "fetch" /\ f.todo.pushed

\* The list has an entry for each frame of the set, in order: of[k] for frame k.
InStep(list, set, of) ==
    /\ Len(list) = Cardinality(set)
    /\ \A k \in set : list[Cardinality({j \in set : j <= k})] = of[k]

\* The stacks stay in step: every scope but the root's belongs to a function, a
\* directory or a new process under way, and the queues of deferred calls are those of the
\* directories under way, in order, however often a command inside failed and
\* went back to its snapshot (eval_command_tx_finish restores the queues and
\* truncates the scopes while eval_execute_file pops them).
StacksAligned ==
    /\ Len(now.scopes) = 1 + Cardinality({k \in DOMAIN frames : HasScope(frames[k])})
    /\ InStep([k \in DOMAIN now.deferred |-> now.deferred[k].dir],
              {k \in DOMAIN frames : HasQueue(frames[k])}, [k \in DOMAIN frames |-> frames[k].dir])

\* No lock outlives its guard: one guarded by a file or a function is held only
\* while the file or function that took it is under way. Locks are not undone
\* with a transaction, so only the end of the frame can release them.
LocksScoped ==
    \A k \in DOMAIN world.locks :
        LET l == world.locks[k]
        IN  l.guard # "PROCESS" => \A f \in l.holders : f <= Len(frames)

\* Every deferred call is run at most once. The code does not keep this: a
\* project() that fails after its top-level includes ran restores the queue.
DeferredOnce == \A i, j \in DOMAIN calls_run : calls_run[i] = calls_run[j] => i = j

\* ctest_submit() never sends a report older than the last one that was
\* recorded of the part: while no command failed, whatever the scopes and tags
\* the steps were run under, the step chosen by ctest_submit_append_part_files
\* is the newest.
SubmissionFresh ==
    \A k \in DOMAIN world.sent :
        world.sent[k].clean => \A r \in world.sent[k].reports : r[2].run >= r[3].run

\* The packages find_package() is running the files of, and the dependencies
\* FetchContent_MakeAvailable() is working on, are those of the commands under
\* way, in order: providers and configuration files read these lists to tell
\* whether they were asked already, so neither a failure undone by a
\* transaction nor an early way out may leave one behind or lose one.
ActivesAligned ==
    LET active == {k \in DOMAIN frames : IsFinding(frames[k])}
        made   == {k \in DOMAIN frames : IsMaking(frames[k])}
    IN  /\ InStep(now.finding, active, [k \in active |-> frames[k].cmd.pkg])
        /\ InStep(now.making, made, [k \in made |-> Head(frames[k].todo.left)])

\* No dependency is fetched twice in a run without errors, though its provider,
\* its own directory, a redirected find_package() and other dependencies may
\* all ask for it again while it is being made available.
FetchedOnce ==
    \A i, j \in DOMAIN world.fetched :
        LET a == world.fetched[i]
            b == world.fetched[j]
        IN  (a.saved /\ b.saved /\ a.clean /\ b.clean /\ a.name = b.name) => i = j

Available(st, n) == n \in DOMAIN st.states /\ (st.states[n].populated \/ st.states[n].by = "package")
EndsFetch == AtFrame("fetch") /\ Len(frames') < Len(frames)

\* A FetchContent_MakeAvailable() that ends without an error in the run has
\* made every dependency it names available.
MakeAvailableComplete ==
    [][EndsFetch /\ errors' = 0 => \A n \in ToSet(Top.cmd.names) : Available(now', n)]_vars

\* A FetchContent_MakeAvailable() that reports no error has made every
\* dependency it names available, whatever other commands reported before it.
\* The code does not keep this: an earlier error counts as its own.
MakeAvailableOrError ==
    [][EndsFetch /\ errors' = Top.errors => \A n \in ToSet(Top.cmd.names) : Available(now', n)]_vars

\* What configure_all makes of the tree the run started from.
ReplayedExactly ==
    LET replay == ReplayAll(ConfigureActions, Tree)
        evaluated(d) == [p \in DOMAIN Contents(d) |-> <<Evaluated(Contents(d)[p][1]), DOMAIN Contents(d)[p][2]>>]
    IN  replay.ok /\ evaluated(replay.disk) = evaluated(world.disk)
Probing == \E k \in DOMAIN ConfigureActions : ConfigureActions[k].op \in ProbeOps
Repeatable == frames = <<>> /\ errors = 0 /\ world.floor = "CONFIGURE" /\ ~Marked(ConfigureActions) /\ ~Probing

\* The generated program repeats the run: when a run without errors has ended,
\* replaying its recorded actions in order on the tree the run started from
\* succeeds and leaves every file with the text the run left it with, its
\* generator expressions evaluated. What a transaction took back, a mode or a
\* marker, an effect recorded as something else, or actions recorded in
\* another order than they were done would show here. Left out are runs with
\* an effect that is not recorded, or that only the tests repeat.
ReplayFaithful == Repeatable /\ world.gap = {} => ReplayedExactly

\* The same for the links that file(CREATE_LINK SYMBOLIC) makes. The code does
\* not keep this.
LinksReplayed == Repeatable /\ world.gap \subseteq {"symbolic link"} => ReplayedExactly

\* The frozen model knows every property the script does: while nothing failed,
\* folding the events of the stream the way the builder does gives each record
\* of the run, of a directory or of a target the value get_property() answers,
\* though the evaluator keeps merged values and the builder is only told of
\* each write. Left out are the ways of writing it is known not to follow
\* (world.aside, see GoesAside).
PropertiesMirrored ==
    errors = 0 =>
        LET built == BuiltFrom(stream)
        IN  \A k \in DOMAIN now.props :
                LET r == now.props[k]
                IN  (r.key.scope \in {"GLOBAL", "DIRECTORY", "TARGET"} /\ r.key \notin world.aside)
                        => BuiltValue(built, r.key) = r.value

=============================================================================
