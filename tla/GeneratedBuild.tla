--------------------------- MODULE GeneratedBuild ---------------------------
(***************************************************************************)
(* The program the code generator writes (nob_codegen.c): what it does to  *)
(* the disk when it configures, cleans and builds.  The emitted functions  *)
(* call each other; here a run of the program is its continuation, the     *)
(* sequence `todo' of operations still to do, and calling a function puts  *)
(* its body in front.  One action executes the first operation, so a crash *)
(* or the clock can come between any two.                                  *)
(*                                                                         *)
(* A file is its modification time, in seconds, and its text.  Texts are   *)
(* abstract: what made the file, in which configuration, by which version  *)
(* of the program, from which texts.                                       *)
(***************************************************************************)
EXTENDS Integers, Sequences, FiniteSets, SequencesExt

CONSTANTS
    Plans,   \* the projects: each a sequence of versions of one project
    Configs  \* the configurations, with "" the one of no --config

(***************************************************************************)
(* What the generator is given: every list of the build model is a         *)
(* sequence, and every rule, export, dashboard step and command is of a    *)
(* kind the generator knows.                                               *)
(***************************************************************************)
Sequence(q) == q \in Seq(ToSet(q))

GoodTarget(d) ==
    /\ Sequence(d.explicit) /\ Sequence(d.custom) /\ Sequence(d.pre_build)
    /\ Sequence(d.generated) /\ Sequence(d.sources) /\ Sequence(d.link)
    /\ Sequence(d.pre_link) /\ Sequence(d.post_build)

GoodStep(d) == Sequence(d.targets) /\ Sequence(d.producers) /\ Sequence(d.writes)

GoodRule(r) == r.kind \in {"target", "file", "directory"} /\ Sequence(r.items)

GoodPackage(k) == Sequence(k.generators) /\ Sequence(k.components)

DriverKinds == {"empty", "start", "configure", "build", "test", "coverage", "memcheck", "sleep"}

Commands == {"configure", "clean", "build", "install", "export", "package", "test"}

GoodProject(project) ==
    /\ Sequence(project.order) /\ Sequence(project.components) /\ Sequence(project.tests)
    /\ Sequence(project.configure)
    /\ Sequence(project.install) /\ Sequence(project.exports)
    /\ Sequence(project.packages) /\ Sequence(project.driver)
    /\ \A t \in DOMAIN project.target : GoodTarget(project.target[t])
    /\ \A s \in DOMAIN project.step : GoodStep(project.step[s])
    /\ \A i \in DOMAIN project.install : GoodRule(project.install[i])
    /\ \A i \in DOMAIN project.exports : project.exports[i].kind \in {"tree", "registry", "install"}
    /\ \A i \in DOMAIN project.packages : GoodPackage(project.packages[i])
    /\ \A i \in DOMAIN project.driver : project.driver[i].op \in DriverKinds
    /\ \A request \in project.requests : request[1] \in Commands

ASSUME PlansAssumption ==
    \A p \in Plans :
      /\ Sequence(p) /\ p # << >>
      /\ \A v \in DOMAIN p : GoodProject(p[v])

VARIABLES
    plan,     \* the project at hand, chosen once
    files,    \* path -> [time, text]; a path outside the domain is missing
    clock,    \* the current second
    binary,   \* the version of the program that was compiled last
    job,      \* the running program, or Idle
    result,   \* what the last run was and did, or Nothing
    blind,    \* reasons why modification times cannot show a change
    used      \* [runs, changes]: how much of the bounds is spent

vars == <<plan, files, clock, binary, job, result, blind, used>>

\* Bounds: on the clock, on the runs of the program, and on the edits,
\* regenerations and losses of files.
MaxTime == plan[1].limit.time
MaxRuns == plan[1].limit.runs
MaxChanges == plan[1].limit.changes

Idle == [running |-> FALSE, cmd |-> "", arg |-> "", config |-> "", todo |-> << >>,
         open |-> {}, done |-> {}, made |-> {}, failed |-> FALSE]

Nothing == [cmd |-> "", arg |-> "", config |-> "", made |-> {}, ok |-> FALSE]

(***************************************************************************)
(* Paths and texts.                                                        *)
(***************************************************************************)
Program == <<"program", "", "">>

Source(s) == <<"source", s, "">>

Object(t, s) == <<"object", t, s>>

Artifact(t, c) == <<"artifact", t, c>>

Output(o) == <<"output", o, "">>

Stamp(c) == <<"stamp", c, "">>

Text(by, c, v, from) == [by |-> by, config |-> c, version |-> v, from |-> from]

\* The project as the compiled program knows it.
Project == plan[binary]

Exists(p) == p \in DOMAIN files

With(fs, p, t) ==
    [q \in DOMAIN fs \cup {p} |-> IF q = p THEN [time |-> clock, text |-> t] ELSE fs[q]]

Without(fs, P) == [q \in DOMAIN fs \ P |-> fs[q]]

\* What a tool reads: each path with the text it has now.
Reading(P) == {<<p, files[p].text>> : p \in P \cap DOMAIN files}

\* nob_needs_rebuild: a missing output or input counts as changed, and equal
\* seconds count as unchanged.
NeedsRebuild(out, ins) ==
    ~(/\ Exists(out)
      /\ \A p \in ins : Exists(p) /\ files[p].time <= files[out].time)

(***************************************************************************)
(* Operations.  They share one shape: what to do, and up to two operands.  *)
(***************************************************************************)
Op(do, x, y) == [do |-> do, x |-> x, y |-> y, set |-> {}]

SetOp(do, P) == [do |-> do, x |-> "", y |-> "", set |-> P]

\* The members of s at the positions in P, in their order.
Keep(s, P) ==
    LET kept[i \in 0 .. Len(s)] ==
          IF i = 0 THEN << >>
          ELSE IF i \in P THEN Append(kept[i - 1], s[i]) ELSE kept[i - 1]
    IN kept[Len(s)]

Calls(names) == [i \in DOMAIN names |-> Op("call", names[i], "")]

Node(n) == n \in DOMAIN Project.target \/ n \in DOMAIN Project.step

\* Only these kinds leave an artifact: the others only order the build.
Joined(t) == Project.target[t].kind \in {"static", "program"}

(***************************************************************************)
(* build_<target>: the phases of the build order, one after another.       *)
(***************************************************************************)
CompileOps(t) ==
    LET sources == Project.target[t].sources
    IN [i \in DOMAIN sources |-> Op("compile", t, sources[i])]

JoinOps(t) ==
    IF Project.target[t].kind = "static"
    THEN <<Op("archive", t, "")>>
    ELSE <<Op("link", t, ""), SetOp("require", {Artifact(t, job.config)})>>

TargetBody(t) ==
    LET d == Project.target[t]
    IN CASE d.kind = "alias" -> Calls(d.explicit)
         [] d.kind \in {"interface", "imported"} -> Calls(d.explicit)
         [] d.kind = "utility" -> Calls(d.explicit) \o Calls(d.custom)
         [] OTHER -> Calls(d.explicit) \o Calls(d.pre_build) \o Calls(d.generated)
                     \o CompileOps(t)
                     \o Calls(d.link) \o Calls(d.pre_link) \o JoinOps(t)
                     \o Calls(d.post_build)

(***************************************************************************)
(* run_<step>: dependencies, then the guard of an output rule, then the    *)
(* commands and the check that they made what they declare.                *)
(***************************************************************************)
StepBody(s) ==
    LET d == Project.step[s]
    IN Calls(d.targets) \o Calls(d.producers) \o <<Op("guard", s, "")>>

Outputs(s) == {Output(o) : o \in ToSet(Project.step[s].outputs)}

\* The file whose age stands for the whole step.  A rule without outputs
\* names a stamp that nothing ever writes.
Sentinel(s) ==
    IF Project.step[s].outputs = << >> THEN <<"sentinel", s, "">>
    ELSE Output(Project.step[s].outputs[1])

\* The path that stands for a target: the artifact of the default
\* configuration, whatever the configuration being built.
StatePath(t) == IF Joined(t) THEN Artifact(t, "") ELSE <<"sentinel", t, "">>

RebuildInputsFilesOnly(s) ==
    {Program} \cup {Source(f) : f \in Project.step[s].files}

RebuildInputs(s) ==
    LET d == Project.step[s]
    IN {Program} \cup {StatePath(t) : t \in ToSet(d.targets)}
       \cup {Sentinel(p) : p \in ToSet(d.producers)}
       \cup {Source(f) : f \in d.files}

CommandOps(s) ==
    [k \in 1 .. Len(Project.step[s].writes) |-> Op("command", s, k)]
    \o <<[SetOp("verify", Outputs(s)) EXCEPT !.x = s]>>

\* What the commands of a step read.
CommandReads(s, c) ==
    LET d == Project.step[s]
    IN {Source(f) : f \in d.files}
       \cup {Artifact(t, c) : t \in {u \in ToSet(d.targets) : Joined(u)}}
       \cup UNION {Outputs(p) : p \in ToSet(d.producers)}

(***************************************************************************)
(* clean_all: the state directory first (objects and the stamps of every   *)
(* configuration), then artifacts, step outputs, the configure outputs     *)
(* inside the binary directory, and the package directories.  The code     *)
(* removes the whole directory of an artifact when that is not the binary  *)
(* directory itself; here nothing else lives there.  A removal that fails  *)
(* is not modelled.                                                        *)
(***************************************************************************)
StateFilesKeepObjects == {p \in DOMAIN files : p[1] = "stamp"}

StateFiles == {p \in DOMAIN files : p[1] \in {"object", "stamp", "staging", "metadata"}}

CleanOps ==
    << Op("remove state", "", ""),
       SetOp("remove", {Artifact(t, c) : t \in {u \in DOMAIN Project.target : Joined(u)},
                                         c \in Configs}),
       SetOp("remove", UNION {Outputs(s) : s \in DOMAIN Project.step}),
       SetOp("remove", {Output(a.path) : a \in {b \in ToSet(Project.configure) : b.inside}}),
       SetOp("remove", {p \in DOMAIN files : p[1] = "package"}),
       Op("cleaned", "", "") >>

(***************************************************************************)
(* configure_all: the outputs a current stamp vouches for, and the run     *)
(* that makes it current.                                                  *)
(***************************************************************************)
Guarded ==
    LET actions == ToSet(Project.configure)
    IN {Output(a.path) : a \in {b \in actions : b.op # "remove"}}
       \ {Output(a.path) : a \in {b \in actions : b.op = "remove"}}

\* configure_stamp_is_stale: the program is younger than the stamp.
StampIsStale == files[Program].time > files[Stamp(job.config)].time

Configured(force) ==
    /\ ~force
    /\ Exists(Stamp(job.config))
    /\ ~StampIsStale
    /\ \A p \in Guarded : Exists(p)

ConfigureOps ==
    CleanOps \o [k \in DOMAIN Project.configure |-> Op("replay", "", k)]
    \o <<Op("stamp", "", "")>>

-----------------------------------------------------------------------------
(***************************************************************************)
(* Execution.                                                              *)
(***************************************************************************)
Now == Head(job.todo)

Doing(do) == job.running /\ job.todo # << >> /\ Now.do = do

Rest == Tail(job.todo)

\* The operation is done, and `ops' come next.
Proceed(ops) == job' = [job EXCEPT !.todo = ops \o Rest]

Kept == UNCHANGED <<plan, clock, binary, used>>

Finished(ok) ==
    /\ job' = Idle
    /\ result' = [cmd |-> job.cmd, arg |-> job.arg, config |-> job.config,
                  made |-> job.made, ok |-> ok]

\* A function returned false: every caller does, and the program ends.
Fail == Finished(FALSE) /\ UNCHANGED <<files, blind>> /\ Kept

Quiet == UNCHANGED <<files, result, blind>> /\ Kept

\* A tool ran and wrote `p'.
Made(p, t) ==
    /\ files' = With(files, p, t)
    /\ Proceed(<< >>)
    /\ UNCHANGED <<result, blind>> /\ Kept

\* Targets and steps: done is build_state 2, open is build_state 1; made
\* remembers the configuration in which each was built.
CallNodeUnchecked ==
    /\ Doing("call") /\ Node(Now.x)
    /\ \/ /\ Now.x \in job.done
          /\ Proceed(<< >>)
       \/ /\ Now.x \notin job.done
          /\ job' = [job EXCEPT !.open = @ \cup {Now.x},
                       !.todo = (IF Now.x \in DOMAIN Project.step THEN StepBody(Now.x)
                                 ELSE TargetBody(Now.x))
                                \o <<Op("return", Now.x, "")>> \o Rest]
    /\ Quiet

CallNode ==
    /\ Doing("call") /\ Node(Now.x) /\ Now.x \notin job.open
    /\ \/ /\ Now.x \in job.done
          /\ Proceed(<< >>)
       \/ /\ Now.x \notin job.done
          /\ job' = [job EXCEPT !.open = @ \cup {Now.x},
                       !.todo = (IF Now.x \in DOMAIN Project.step THEN StepBody(Now.x)
                                 ELSE TargetBody(Now.x))
                                \o <<Op("return", Now.x, "")>> \o Rest]
    /\ Quiet

\* build_state 1, or no such target.
CallRefused == Doing("call") /\ (~Node(Now.x) \/ Now.x \in job.open) /\ Fail

ReturnNode ==
    /\ Doing("return")
    /\ job' = [job EXCEPT !.todo = Rest, !.open = @ \ {Now.x}, !.done = @ \cup {Now.x},
                         !.made = @ \cup {<<Now.x, job.config>>}]
    /\ Quiet

\* What a compilation reads: the source, which the guard knows of, and the
\* headers, which it does not.
SourcePath(s) ==
    IF \E p \in DOMAIN Project.step : s \in ToSet(Project.step[p].outputs) THEN Output(s)
    ELSE Source(s)

CompileReads(t, s) == {SourcePath(s)} \cup {Source(h) : h \in Project.target[t].headers}

CompileText(t, s, c) == Text("cc", c, binary, Reading(CompileReads(t, s)))

Compile ==
    /\ Doing("compile")
    /\ LET object == Object(Now.x, Now.y)
           inputs == {Program, SourcePath(Now.y)}
       IN \/ ~NeedsRebuild(object, inputs) /\ Proceed(<< >>) /\ Quiet
          \/ /\ NeedsRebuild(object, inputs)
             /\ CompileReads(Now.x, Now.y) \subseteq DOMAIN files
             /\ Made(object, CompileText(Now.x, Now.y, job.config))
          \/ /\ NeedsRebuild(object, inputs)
             /\ ~(CompileReads(Now.x, Now.y) \subseteq DOMAIN files)
             /\ Fail

Objects(t) == {Object(t, s) : s \in ToSet(Project.target[t].sources)}

Libraries(t, c) == {Artifact(u, c) : u \in {v \in ToSet(Project.target[t].link) : Joined(v)}}

\* `ar rcs' replaces and adds members; it never takes one away.
ArchiveText(t, c) ==
    LET old == IF Exists(Artifact(t, c)) THEN files[Artifact(t, c)].text.from ELSE {}
    IN Text("ar", c, binary,
            Reading(Objects(t)) \cup {member \in old : member[1] \notin Objects(t)})

LinkText(t, c) == Text("ld", c, binary, Reading(Objects(t) \cup Libraries(t, c)))

Join ==
    \/ /\ Doing("archive") /\ Objects(Now.x) \subseteq DOMAIN files
       /\ Made(Artifact(Now.x, job.config), ArchiveText(Now.x, job.config))
    \/ /\ Doing("link")
       /\ (Objects(Now.x) \cup Libraries(Now.x, job.config)) \subseteq DOMAIN files
       /\ Made(Artifact(Now.x, job.config), LinkText(Now.x, job.config))

\* require_paths, after a link and after the commands of a step.
Require ==
    /\ Doing("require") \/ Doing("verify")
    /\ \/ Now.set \subseteq DOMAIN files /\ Proceed(<< >>) /\ Quiet
       \/ ~(Now.set \subseteq DOMAIN files) /\ Fail

\* Only an output rule is guarded; the steps of a target always run.
Guard ==
    /\ Doing("guard")
    /\ Proceed(IF Project.step[Now.x].rule /\ ~NeedsRebuild(Sentinel(Now.x), RebuildInputs(Now.x))
               THEN << >> ELSE CommandOps(Now.x))
    /\ Quiet

CommandText(s, c) == Text(s, c, binary, Reading(CommandReads(s, c)))

\* One command of a step writes some of its outputs.
Command ==
    /\ Doing("command") /\ CommandReads(Now.x, job.config) \subseteq DOMAIN files
    /\ files' = [q \in DOMAIN files \cup {Output(o) : o \in Project.step[Now.x].writes[Now.y]} |->
                   IF q[1] = "output" /\ q[2] \in Project.step[Now.x].writes[Now.y]
                   THEN [time |-> clock, text |-> CommandText(Now.x, job.config)]
                   ELSE files[q]]
    /\ Proceed(<< >>)
    /\ UNCHANGED <<result, blind>> /\ Kept

\* A step that made its first output and stops before its end leaves a
\* sentinel that looks finished.
InterruptedStep ==
    /\ Now.do \in {"command", "verify"} /\ Project.step[Now.x].rule
    /\ Now.do = "command" => Now.y > 1

Interrupted == IF InterruptedStep THEN {"partial step"} ELSE {}

\* A compiler, linker, archiver or command exits with an error.
ToolFails ==
    /\ Doing("compile") \/ Doing("archive") \/ Doing("link") \/ Doing("command")
    /\ Finished(FALSE)
    /\ blind' = blind \cup Interrupted
    /\ UNCHANGED files /\ Kept

\* remove_path_recursive.  The order in which the state directory loses its
\* stamps and its other files is the directory's.
RemovePath ==
    /\ Doing("remove")
    /\ files' = Without(files, Now.set)
    /\ Proceed(<< >>)
    /\ UNCHANGED <<result, blind>> /\ Kept

RemoveState ==
    /\ Doing("remove state")
    /\ LET stamps == {p \in StateFiles : p[1] = "stamp"}
       IN \E first \in {stamps, StateFiles \ stamps} :
            Proceed(<<SetOp("remove", first), SetOp("remove", StateFiles \ first)>>)
    /\ Quiet

\* Nothing stale is left, but what this run already built is still marked
\* as built: build_state is a static of the process.
Cleaned ==
    /\ Doing("cleaned")
    /\ blind' = (IF binary = files[Program].text.version THEN {} ELSE {"old binary"})
                \cup (IF job.done = {} THEN {} ELSE {"memo"})
    /\ Proceed(<< >>)
    /\ UNCHANGED <<files, result>> /\ Kept

ConfigureRun ==
    /\ Doing("configure")
    /\ Proceed(IF Configured(Now.x = "force") THEN << >> ELSE ConfigureOps)
    /\ Quiet

\* A configure action creates a file, adds to it, or removes it.
Replay ==
    /\ Doing("replay")
    /\ LET a == Project.configure[Now.y]
           p == Output(a.path)
           old == IF a.op = "append" /\ Exists(p) THEN Reading({p}) ELSE {}
       IN files' = IF a.op = "remove" THEN Without(files, {p})
                   ELSE With(files, p, Text(a.op, job.config, binary, old))
    /\ Proceed(<< >>)
    /\ UNCHANGED <<result, blind>> /\ Kept

WriteStamp == Doing("stamp") /\ Made(Stamp(job.config), Text("stamp", job.config, binary, {}))

\* The clean command ends by itself; every other run ends when nothing is
\* left to do.
Return ==
    /\ job.running /\ job.todo = << >>
    /\ Finished(~job.failed)
    /\ UNCHANGED <<files, blind>> /\ Kept

BuildStep ==
    \/ CallNode \/ CallRefused \/ ReturnNode \/ Compile \/ Join \/ Require \/ Guard
    \/ Command \/ ToolFails \/ RemovePath \/ RemoveState \/ Cleaned \/ ConfigureRun \/ Replay \/ WriteStamp
    \/ Return

-----------------------------------------------------------------------------
(***************************************************************************)
(* What happens around the program.                                        *)
(***************************************************************************)
Crash ==
    /\ job.running
    /\ job' = Idle /\ result' = Nothing
    /\ blind' = blind \cup IF job.todo # << >> THEN Interrupted ELSE {}
    /\ UNCHANGED files /\ Kept

Tick ==
    /\ clock < MaxTime
    /\ clock' = clock + 1
    /\ UNCHANGED <<plan, files, binary, job, result, blind, used>>

Derived == {p \in DOMAIN files : p[1] \in {"object", "artifact", "output", "stamp"}}

Changing ==
    /\ ~job.running /\ used.changes < MaxChanges
    /\ used' = [used EXCEPT !.changes = @ + 1]
    /\ result' = Nothing

SameSecond == IF \E p \in Derived : files[p].time = clock THEN {"same second"} ELSE {}

\* The user saves a source or a header.
Edit ==
    /\ Changing
    /\ \E p \in DOMAIN files :
         /\ p[1] = "source"
         /\ files' = With(files, p, Text("user", "", files[p].text.version + 1, {}))
         /\ blind' = blind \cup SameSecond \cup
              IF \E t \in DOMAIN Project.target : p \in {Source(h) : h \in Project.target[t].headers}
              THEN {"header"} ELSE {}
    /\ UNCHANGED <<plan, clock, binary, job>>

\* The generator writes the next version of the program ...
Regenerate ==
    /\ Changing
    /\ files[Program].text.version < Len(plan)
    /\ files' = With(files, Program, Text("codegen", "", files[Program].text.version + 1, {}))
    /\ blind' = blind \cup SameSecond
    /\ UNCHANGED <<plan, clock, binary, job>>

\* ... and the user compiles it, perhaps after running the old one again.
Recompile ==
    /\ ~job.running /\ binary # files[Program].text.version
    /\ binary' = files[Program].text.version
    /\ result' = Nothing
    /\ UNCHANGED <<plan, files, clock, job, blind, used>>

\* Something outside removes a file the program made.
Lose ==
    /\ Changing
    /\ \E p \in Derived :
         /\ files' = Without(files, {p})
         /\ blind' = blind \cup
              IF \E s \in DOMAIN Project.step : p \in Outputs(s) \ {Sentinel(s)}
              THEN {"partial step"} ELSE {}
    /\ UNCHANGED <<plan, clock, binary, job>>

Around == Crash \/ Tick \/ Edit \/ Regenerate \/ Recompile \/ Lose

Init ==
    /\ plan \in Plans
    /\ files = [p \in {Program} \cup {Source(s) : s \in plan[1].user} |->
                  [time |-> 0, text |-> Text(IF p = Program THEN "codegen" ELSE "user", "", 1, {})]]
    /\ clock = 0 /\ binary = 1
    /\ job = Idle /\ result = Nothing /\ blind = {}
    /\ used = [runs |-> 0, changes |-> 0]

=============================================================================
