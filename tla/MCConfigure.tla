---------------------------- MODULE MCConfigure -----------------------------
(***************************************************************************)
(* The scripts of the runs: three targets, declared in the order of their  *)
(* names, one file and one subdirectory.                                   *)
(***************************************************************************)
EXTENDS Configure

CONSTANTS a, b, c,  \* the targets
          f,        \* the file
          Sub       \* the subdirectory

Libraries(n, types) == {Library(n, type, {}, None) : type \in types}
Imported(n) == {Library(n, "STATIC", options, None) : options \in {{"IMPORTED"}, {"IMPORTED", "IMPORTED_GLOBAL"}}}
Excluded(n) == {Executable(n, {"EXCLUDE_FROM_ALL"}, None)}
Links(from, to) == {Link(n, vis, m) : n \in from, m \in to, vis \in Visibility}
Orders == {DependsOn(n, m) : n, m \in Name}
Usage(names) == {Definitions(n, vis) : n \in names, vis \in Visibility}

\* Which usage requirements reach a target by which links.
UsageScript == <<
    Libraries(a, {"SHARED"}) \cup Excluded(a),
    Libraries(b, {"STATIC", "INTERFACE"}),
    Libraries(c, {"STATIC"}) \cup Imported(c) \cup {Alias(c, b)},
    Links({a}, {b, c}),
    Links({b}, {a, c}) \cup Orders,
    Usage({b, c})>>

\* Which targets come before a target, through targets that are not built;
\* a link may name a target that is declared after it.
OrderScript == <<
    {Executable(a, {}, None), Library(a, "OBJECT", {}, None)},
    Libraries(b, {"INTERFACE", "UNKNOWN"}) \cup Imported(b),
    Links({a, b}, {b, c}) \cup Orders,
    Libraries(c, {"STATIC", "MODULE"}) \cup {Executable(a, {}, None)},
    Orders \cup {GlobalDefinitions}>>

\* What is seen of a directory from the directory above it.
VisibilityScript == <<
    Libraries(a, {"STATIC"}) \cup Imported(a),
    {Subdirectory(Sub)},
    Imported(b) \cup Excluded(b),
    {Alias(c, a), Alias(c, b), GlobalDefinitions} \cup Libraries(a, {"SHARED"}),
    {EndOfDirectory},
    Usage({b}) \cup {GlobalDefinitions},
    Links(Name, Name) \cup Usage({a, c}) \cup {GlobalDefinitions}>>

Generated(n) == {Executable(n, {}, <<"bin", l, f>>) : l \in Location}
                \cup {Library(n, "OBJECT", {}, <<base, Root, f>>) : base \in {"src", "bin"}}
Rules  == {CommandOutput(f, d, None) : d \in {a, b, None}} \cup {CommandOutput(f, None, p) : p \in {a, b}}
Hooks  == {CommandHook(n, stage, p) : n \in {a, b}, stage \in HookKind, p \in {a, b, None}}
Appended == {CommandAppend(f, d, None) : d \in {a, b}} \cup {CommandAppend(f, None, p) : p \in {a, b}}

\* What steps make and need, in one directory and in two.
StepScript == <<
    Rules,
    Generated(a),
    {CustomTarget(b, FALSE, d, None) : d \in {a, b, f}} \cup {CustomTarget(b, TRUE, None, a), Executable(b, {}, None)},
    Appended \cup Rules,
    Hooks \cup Orders>>

DirectoryStepScript == <<
    Generated(a),
    {Subdirectory(Sub)},
    Rules,
    {EndOfDirectory},
    {CustomTarget(b, TRUE, d, None) : d \in {a, f}} \cup Rules,
    Hooks \cup Appended>>

CleanScripts == <<UsageScript, OrderScript, VisibilityScript, StepScript, DirectoryStepScript>>

\* The scripts are the ones the theorems of ConfigureProofs are about.
ASSUME CleanScriptsCareful == Careful
=============================================================================
