----------------------------- MODULE MCSession ------------------------------
(***************************************************************************)
(* Small scripts for the session, each a sequence of sets of commands.     *)
(***************************************************************************)
EXTENDS Session

CONSTANT root
MCRoot == root

Var(v, x, where)   == [cmd |-> "set", var |-> v, value |-> x, where |-> where, force |-> FALSE]
UnsetVar(v, where) == [cmd |-> "unset", var |-> v, where |-> where]
Error              == [cmd |-> "error"]
Target(n)          == [cmd |-> "add_target", name |-> n]
Fun(n, kind, body) == [cmd |-> "define", name |-> n, kind |-> kind, params |-> <<"p">>, body |-> body]
Call(n)            == [cmd |-> "invoke", name |-> n, args |-> <<"a", "b">>]
IncludeFile(f)     == [cmd |-> "include", file |-> f, result |-> "FOUND", optional |-> FALSE]
Subdir(f)          == [cmd |-> "add_subdirectory", file |-> f]
Guard(mode, key)   == [cmd |-> "include_guard", mode |-> mode, key |-> key]
Eval(body)         == [cmd |-> "cmake_language", body |-> body, disallowed |-> FALSE]
Defer(dir, id, call) == [cmd |-> "defer", dir |-> dir, id |-> id, id_var |-> "ID", call |-> call, disallowed |-> FALSE]
Cancel(id)         == [cmd |-> "defer_cancel", dir |-> None, id |-> id]
Lock(p, guard, result) == [cmd |-> "file_lock", path |-> <<p>>, guard |-> guard, release |-> FALSE, result |-> result,
                           answer |-> "ok", directory |-> FALSE]
Unlock(p)          == [cmd |-> "file_lock", path |-> <<p>>, guard |-> "PROCESS", release |-> TRUE, result |-> None,
                       answer |-> "ok", directory |-> FALSE]
Plain(n)           == [form |-> "plain", n |-> n]
Nothing            == [cmd |-> "unknown"]


Option(v, x)  == [cmd |-> "option", var |-> v, value |-> x]
Policy(sub)   == [cmd |-> "cmake_policy", sub |-> sub, id |-> "CMP0126", value |-> "NEW", var |-> "P", min |-> 310, max |-> 322]
Minimum(a, b) == [cmd |-> "cmake_minimum_required", min |-> a, max |-> b]
Provider(n)   == [cmd |-> "set_provider", command |-> n, methods |-> {"FIND_PACKAGE", "FETCHCONTENT_MAKEAVAILABLE_SERIAL"}]
ProjectNamed(n, languages) == [cmd |-> "project", name |-> n, malformed |-> FALSE, languages |-> languages]
Generate(p, input, content, target) ==
    [cmd |-> "file_generate", path |-> p, input |-> input, content |-> content, condition |-> TRUE, target |-> target,
     mode |-> "", use_source |-> FALSE, no_source |-> FALSE]
Write(p, x)   == [cmd |-> "file_write", path |-> p, text |-> x]

FileAppendTo(p, x)   == [cmd |-> "file_append", path |-> p, text |-> x]
MakeDirs(ps)         == [cmd |-> "file_make_directory", paths |-> ps]
RenameTo(p, q)       == [cmd |-> "file_rename", old |-> p, new |-> q, no_replace |-> FALSE, result |-> None]
Removal(ps, recurse)  == [cmd |-> "file_remove", paths |-> ps, recurse |-> recurse]
LinkFrom(p, q)       == [cmd |-> "file_create_link", src |-> p, dst |-> q, symbolic |-> FALSE, copy |-> FALSE, result |-> None]
Chmod(ps, recurse)   == [cmd |-> "file_chmod", paths |-> ps, modes |-> {"OWNER_EXECUTE"}, recurse |-> recurse]
Copy(ps, dest)       == [cmd |-> "file_copy", sources |-> ps, dest |-> dest, filters |-> <<>>, matching |-> FALSE, chain |-> FALSE,
                         mode |-> "", use_source |-> FALSE]
Templated(p, q)    == [cmd |-> "configure_file", input |-> p, output |-> q, copyonly |-> FALSE, at_only |-> FALSE, newline |-> FALSE,
                         malformed |-> FALSE, mode |-> "", no_source |-> FALSE]
Download(p, q, hash) == [cmd |-> "file_download", src |-> p, dst |-> q, hash |-> hash, algo |-> "SHA256", options |-> FALSE, remote |-> FALSE,
                         body |-> <<>>, answer |-> "ok", status |-> None]
Upload(p, q)         == [cmd |-> "file_upload", src |-> p, dst |-> q, hash |-> None, remote |-> FALSE, answer |-> "ok", status |-> None]
Pack(ps, q)          == [cmd |-> "file_archive_create", paths |-> ps, out |-> q, format |-> "PAXR", compressed |-> FALSE, mtime |-> "0",
                         library |-> TRUE, works |-> TRUE]
Unpack(p, q)         == [cmd |-> "file_archive_extract", input |-> p, dst |-> q, list_only |-> FALSE, selective |-> FALSE, zip |-> FALSE,
                         library |-> FALSE, works |-> TRUE]
Glob(patterns, recurse) == [cmd |-> "file_glob", var |-> "L", patterns |-> patterns, recurse |-> recurse, list_dirs |-> TRUE, relative |-> <<>>]
Ask(sub, p)          == [cmd |-> "file_ask", sub |-> sub, path |-> p, var |-> "A"]

InFile == <<"src", "in">>
OutFile == <<"bin", "out">>
MadeSource == <<"bin", "p", "m">>
MCTree ==
    (<<"src">> :> Directory) @@ (<<"bin">> :> Directory) @@ (<<"src", "d">> :> Directory)
    @@ (InFile :> FileOf(<<Chunk("at", "X"), Chunk("define", "X"), Chunk("genex", "config")>>))
    @@ (<<"src", "d", "f">> :> FileOf(Words("f"))) @@ (<<"src", "ln">> :> LinkTo(<<"src", "d", "f">>))

\* A dashboard command with nothing unusual about it.
Plainly == [build |-> None, append |-> FALSE, rv |-> "RV", capture |-> None, counted |-> None, malformed |-> FALSE,
            command |-> TRUE, ran |-> TRUE, exit |-> 0, count |-> 1, staged |-> "yes"]
Step(name)     == [cmd |-> name] @@ Plainly
Captured(c)    == [c EXCEPT !.ran = FALSE, !.capture = "CE"]
Start(model, append) == [cmd |-> "ctest_start", model |-> model, group |-> None, checkout |-> None] @@ [Plainly EXCEPT !.append = append]
Submit(parts, answers) ==
    [cmd |-> "ctest_submit", parts |-> parts, upload |-> None, url |-> TRUE, exists |-> TRUE, answers |-> answers,
     answers2 |-> <<"late", "ok">>, wanted |-> TRUE, retries |-> 1, id |-> "7"] @@ Plainly
UpdateStep(type) == [cmd |-> "ctest_update", version |-> FALSE, type |-> type, detected |-> "git"] @@ Plainly
TestStep   == [cmd |-> "ctest_test", outcomes |-> <<"passed", "failed">>, until |-> 2] @@ Plainly
Memcheck(repeat, outcomes) ==
    [cmd |-> "ctest_memcheck", start |-> 1, end |-> 2, stride |-> 1, repeat |-> repeat, outcomes |-> outcomes, until |-> 2,
     stop_on_failure |-> FALSE] @@ Plainly
EmptyBuild(kept) == [cmd |-> "ctest_empty_binary_directory", build |-> "bin", outside |-> FALSE, kept |-> kept]
RunScripts(scripts, new) == [cmd |-> "ctest_run_script", scripts |-> scripts, new_process |-> new, rv |-> "RV"]

Find(pkg, version)  == [cmd |-> "find_package", pkg |-> pkg, bypass |-> FALSE, required |-> FALSE, version |-> version,
                        exact |-> FALSE, mode |-> "", paths |-> <<>>, no_default |-> FALSE]
Item(validator)     == [cmd |-> "find_item", var |-> "TOOL", names |-> <<"cc", "gcc">>, root |-> <<"r">>, hints |-> <<"h">>, paths |-> <<"p">>,
                        no_default |-> FALSE, names_per_dir |-> FALSE, there |-> {"h/gcc", "p/cc"}, validator |-> validator,
                        malformed |-> FALSE, required |-> FALSE]
Decl(n, transport, file) ==
    [name |-> n, transport |-> transport, source |-> None, file |-> file, find_args |-> FALSE, override |-> FALSE, tag |-> "v1",
     strategy |-> "CHECKOUT", disconnected |-> None, malformed |-> FALSE, works |-> TRUE, rebases |-> FALSE, patches |-> TRUE, known |-> FALSE]
Declare(d)          == [cmd |-> "fetch_declare", decl |-> d]
MakeAvailable(ns)   == [cmd |-> "fetch_make_available", names |-> ns]
Populate(n, d)      == [cmd |-> "fetch_populate", name |-> n, decl |-> d]
SetPopulated(n)     == [cmd |-> "fetch_set_populated", name |-> n, source |-> "elsewhere"]

Env(v, x)     == [cmd |-> "set_env", var |-> v, value |-> x]
Prog          == [fate |-> "runs", slow |-> FALSE, code |-> "0", says |-> <<>>, complains |-> <<>>, copies |-> FALSE, prints |-> None]
Printing(v)   == [Prog EXCEPT !.prints = v, !.complains = Words("e")]
Copying       == [Prog EXCEPT !.copies = TRUE, !.says = Words("c")]
Faring(fate)  == [Copying EXCEPT !.fate = fate]
Exec(ps)      == [cmd |-> "execute_process", programs |-> ps, input |-> None, timeout |-> 0, result |-> "R", results |-> "RS", output |-> "O",
                  error |-> "O", output_file |-> None, error_file |-> None, output_quiet |-> FALSE, error_quiet |-> FALSE, fatal |-> None,
                  malformed |-> FALSE]
Compile(sources) ==
    [cmd |-> "try_compile", signature |-> "SOURCE", bin |-> None, sources |-> sources, compiles |-> {InFile, <<"src", "d", "f">>, MadeSource},
     linker |-> Prog, configure |-> Prog, build |-> Prog, source_dir |-> <<"src">>, languages |-> [f |-> "C"], target |-> None, makes |-> <<>>,
     result |-> "C", no_cache |-> FALSE, output |-> "LOG", log |-> Words("log"), copy |-> None, copy_error |-> "CE", malformed |-> FALSE]
ProjectCompile(target) == [Compile(<<>>) EXCEPT !.signature = "PROJECT", !.bin = <<"bin", "p">>, !.target = target,
                                                !.makes = <<<<"bin", "p", "x", "libt.a">>, <<"bin", "p", "t">>>>]
Source(p, lang) == [path |-> p, lang |-> lang, text |-> None, from |-> None]
RunProbe(sources, bin) ==
    [Compile(sources) EXCEPT !.cmd = "try_run", !.bin = bin]
    @@ [run |-> "RUN", program |-> Copying, compile_output |-> "CO", run_output |-> None, run_stdout |-> "SO", run_stderr |-> None, legacy |-> "LO"]

SetProp(scope, objects, prop, value) ==
    [cmd |-> "set_property", scope |-> scope, objects |-> objects, dirs |-> <<>>, target_dirs |-> <<>>, append |-> FALSE, append_string |-> FALSE,
     prop |-> prop, value |-> value, malformed |-> FALSE]
AppendProp(scope, objects, prop, value) == [SetProp(scope, objects, prop, value) EXCEPT !.append = TRUE]
SetProps(cmd, objects, pairs) ==
    [cmd |-> cmd, objects |-> objects, dirs |-> <<>>, target_dirs |-> <<>>, pairs |-> pairs, malformed |-> FALSE]
DefineProp(scope, prop, init) ==
    [cmd |-> "define_property", scope |-> scope, prop |-> prop, inherited |-> TRUE, init |-> init, brief |-> <<"brief">>, full |-> <<"full">>,
     malformed |-> FALSE]
AskProp(scope, name, prop, mode) ==
    [cmd |-> "get_property", var |-> "V", scope |-> scope, name |-> name, dir |-> None, target |-> None, prop |-> prop, mode |-> mode, malformed |-> FALSE]
AskOther(cmd, name, prop) ==
    [cmd |-> cmd, var |-> "V", name |-> name, dir |-> None, target |-> None, variable |-> None, prop |-> prop, malformed |-> FALSE]
Test(n) == [cmd |-> "add_test", name |-> n]

MCHostEnv == [PATH |-> "path"]

MCPackages ==
    [A |-> [modules |-> [CMake |-> "FindA"], configs |-> [opt |-> "AConfig"], versions |-> [AConfig |-> "AVersion"]],
     B |-> [modules |-> Empty, configs |-> [opt |-> "BConfig"], versions |-> Empty]]

MCFiles ==
    [common |-> [dir |-> root,
                 body |-> <<{Guard("GLOBAL", "G::common")}, {Lock("l", "FILE", None)}, {Target("t"), Error},
                            {Defer(None, None, Target("late")), Nothing}>>],
     sub    |-> [dir |-> "sub",
                 body |-> <<{Var("X", "1", "PARENT_SCOPE")}, {IncludeFile("common")},
                            {Defer(root, None, Target("up")), Nothing}, {Error, Call("f")}>>],
     top    |-> [dir |-> root,
                 body |-> <<{Guard("DIRECTORY", "D::top"), Guard("VARIABLE", "V::top")},
                            {Fun("provide", "function", <<>>)}, {Provider("provide"), Provider("absent"), Provider(None)}>>],
     halts  |-> [dir |-> "halts",
                 body |-> <<{Lock("h", "FILE", None)}, {[Exec(<<[Prog EXCEPT !.code = "3"], Prog>>) EXCEPT !.fatal = "ANY"], Call("f")}>>],
     psub   |-> [dir |-> "psub",
                 body |-> <<{SetProp("DIRECTORY", <<>>, "COMPILE_OPTIONS", <<"-s">>), SetProp("DIRECTORY", <<root>>, "LINK_OPTIONS", <<"-up">>)},
                            {Test("u")}, {AppendProp("DIRECTORY", <<>>, "COMPILE_OPTIONS", <<"-t">>), Error}>>],
     pinc   |-> [dir |-> root,
                 body |-> <<{SetProp("DIRECTORY", <<>>, "LINK_OPTIONS", <<"-i">>), AppendProp("GLOBAL", <<>>, "G", <<"2">>)}>>],
     probes |-> [dir |-> root, body |-> <<{RunProbe(<<Source(InFile, "C")>>, <<"bin", "p">>)}>>],
     FindA  |-> [dir |-> root, body |-> <<{Var("A_FOUND", "1", ""), Var("A_VERSION", 2, ""), Error}, {Item("check"), Nothing}>>],
     AConfig |-> [dir |-> root, body |-> <<{Find("B", None), Nothing}>>],
     AVersion |-> [dir |-> root, body |-> <<{Var("PACKAGE_VERSION", 2, ""), Var("PACKAGE_VERSION_COMPATIBLE", "0", "")}>>],
     BConfig |-> [dir |-> root, body |-> <<{Error, Nothing, Item(None)}>>],
     prov   |-> [dir |-> root,
                 body |-> <<{IncludeFile("FetchContent")},
                            {Fun("provide", "function", <<{SetPopulated("A"), MakeAvailable(<<"B">>), Nothing, [Find("A", None) EXCEPT !.bypass = TRUE]}>>)},
                            {Provider("provide")}>>],
     asub   |-> [dir |-> "asub", body |-> <<{MakeAvailable(<<"A">>), Find("A", None), Error}, {Target("a"), MakeAvailable(<<"B">>)}>>],
     tool   |-> [dir |-> root,
                 body |-> <<{Fun("f", "macro", <<{Target("m")}>>), Var("S", "1", "")}, {Error, Step("ctest_build"), Call("g")}>>]]

MCScripts ==
    <<  \* includes, directories, functions and locks
        <<{Fun("f", "function", <<{Lock("m", "FUNCTION", "R")}, {IncludeFile("common"), Var("Y", "1", "PARENT_SCOPE")}, {Error, Nothing}>>)},
          {Subdir("sub"), Call("f")}, {Eval(<<{Call("f")}, {Error, Nothing}>>), IncludeFile("common")}, {Unlock("l")}>>,
        \* policies, variables and the cache
        <<{Minimum(310, None), Minimum(310, 322), Minimum(400, None)},
          {[cmd |-> "variable_watch", var |-> "X"], Policy("PUSH"), Policy("SET")},
          {Var("X", "1", ""), Var("X", "2", "CACHE"), Option("X", "ON"), Policy("VERSION")},
          {Var("X", "3", "CACHE"), Var("X", None, ""), UnsetVar("X", "CACHE"), UnsetVar("X", "PARENT_SCOPE"), UnsetVar("X", ""),
           [cmd |-> "mark_as_advanced", var |-> "Y"]},
          {Policy("GET"), Policy("POP"), Var("X", "4", "PARENT_SCOPE"), Option("X", "OFF")}>>,
        \* functions, deferred calls and macros
        <<{Fun("f", "function", <<{Var("R", "1", "")}, {[cmd |-> "return", propagate |-> {"R", "Q"}], Nothing}, {Error}>>)},
          {Defer(None, Plain(1), Target("a")), Defer("elsewhere", None, Target("a")), [cmd |-> "variable_watch", var |-> "R"]},
          {Defer(None, None, Call("f"))},
          {Cancel(Plain(1)), [cmd |-> "defer_get", dir |-> None, id |-> None, var |-> "I"], [cmd |-> "defer_get", dir |-> None, id |-> Plain(1), var |-> "I"]},
          {IncludeFile("absent"), Subdir("absent"), IncludeFile("FetchContent"), [Eval(<<>>) EXCEPT !.disallowed = TRUE]},
          {Fun("m", "macro", <<{Call("f")}, {Target("a"), Error}>>)}, {Call("m"), Call("nobody")}>>,
        \* the first project()
        <<{Var("CMAKE_PROJECT_TOP_LEVEL_INCLUDES", <<"top", "top">>, ""), Var("CMAKE_PROJECT_TOP_LEVEL_INCLUDES", <<"top", "absent">>, "")},
          {ProjectNamed("p", {"C"}), ProjectNamed("p", {"D"})}, {Subdir("sub"), Provider(None)},
          {ProjectNamed("q", {"C", "CXX"}), [ProjectNamed("q", {}) EXCEPT !.malformed = TRUE]}>>,
        \* the files of the end of the run
        <<{Generate(OutFile, None, Words("x"), None), Generate(OutFile, InFile, None, None), Generate(OutFile, InFile, Words("x"), None)},
          {Generate(OutFile, None, Words("y"), None), Generate(<<"bin", "b">>, None, Words("y"), "t"), Generate(OutFile, None, Words("x"), None)},
          {Write(InFile, Words("x")), Target("t")}, {Generate(<<"bin", "b">>, OutFile, None, None), Nothing}>>,
        \* files written, appended to, moved, copied and removed
        <<{Write(OutFile, Words("x")), MakeDirs(<<<<"bin", "d">>, OutFile>>), Templated(InFile, OutFile), [Templated(InFile, OutFile) EXCEPT !.copyonly = TRUE], Error},
          {Var("X", "1", ""), RenameTo(OutFile, <<"bin", "d", "g">>), Copy(<<<<"src", "d">>, InFile>>, <<"bin">>),
           [Copy(<<<<"src", "ln">>>>, <<"bin">>) EXCEPT !.chain = TRUE], LinkFrom(<<"src", "d", "f">>, OutFile)},
          {FileAppendTo(OutFile, Words("y")), Removal(<<OutFile, <<"bin", "d">>>>, FALSE), Removal(<<<<"bin", "d">>, <<"src", "d", "f">>>>, TRUE), Templated(InFile, <<"bin", "d">>),
           [RenameTo(OutFile, <<"src", "d">>) EXCEPT !.result = "R"]},
          {Copy(<<OutFile>>, <<"bin", "e">>), Write(<<"bin", "d", "f", "no">>, Words("z")), Generate(OutFile, InFile, None, None), [RenameTo(InFile, OutFile) EXCEPT !.no_replace = TRUE]}>>,
        \* archives, downloads, links and modes
        <<{Pack(<<<<"src", "d">>>>, OutFile), [Pack(<<<<"src", "d">>>>, OutFile) EXCEPT !.format = "TAR"], Download(InFile, OutFile, None), Upload(InFile, OutFile), Lock("l", "PROCESS", None)},
          {Unpack(OutFile, <<"bin", "u">>), [Unpack(OutFile, <<"bin", "u">>) EXCEPT !.zip = TRUE], Download(<<"src", "ln">>, OutFile, Words("f")), Chmod(<<OutFile>>, FALSE), Eval(<<{Write(OutFile, Words("x"))}, {Error, Nothing}>>)},
          {[LinkFrom(InFile, <<"bin", "l">>) EXCEPT !.symbolic = TRUE], [cmd |-> "file_copy_file", src |-> InFile, dst |-> OutFile, only_if_different |-> TRUE, result |-> "R"],
           [cmd |-> "file_touch", paths |-> <<<<"bin", "t">>>>, create |-> TRUE], [cmd |-> "file_configure", path |-> OutFile, text |-> <<Chunk("brace", "X")>>, at_only |-> FALSE],
           [Copy(<<InFile, <<"src", "d">>>>, <<"bin">>) EXCEPT !.filters = <<[names |-> {"d"}, exclude |-> TRUE]>>]},
          {Download(InFile, OutFile, Words("no")), [Download(InFile, <<>>, None) EXCEPT !.status = "S"], Chmod(<<<<"src">>>>, TRUE), Unpack(OutFile, <<"bin", "v">>), Step("ctest_configure")},
          {Write(OutFile, Words("late")), Unlock("l"), Nothing}>>,
        \* what files are asked
        <<{[cmd |-> "file_read", path |-> InFile, var |-> "T", offset |-> 1, limit |-> 1], [cmd |-> "file_read", path |-> <<"no">>, var |-> "T", offset |-> 0, limit |-> None]},
          {[cmd |-> "file_strings", path |-> <<"src", "ln">>, var |-> "T", min |-> 0, max |-> 9, count |-> 1, matches |-> {"f"}], Ask("SIZE", InFile), Ask("HASH", <<"src">>)},
          {[cmd |-> "file_read_symlink", path |-> <<"src", "ln">>, var |-> "T"], [cmd |-> "file_real_path", path |-> <<"src", "ln">>, var |-> "T"],
           [cmd |-> "file_relative_path", path |-> InFile, dir |-> OutFile, var |-> "T"], [cmd |-> "aux_source_directory", dir |-> <<"src">>, sources |-> {"in"}, var |-> "T"]},
          {Glob(<<[dir |-> <<"src">>, names |-> {"in", "d"}]>>, FALSE), Glob(<<[dir |-> <<"src">>, names |-> {"f"}], [dir |-> <<"no">>, names |-> {"f"}]>>, TRUE)}>>,
        \* a dashboard: steps inside and outside a function, and what is submitted
        <<{Fun("steps", "function", <<{Step("ctest_build"), Captured(Step("ctest_build"))}, {Submit(None, <<"late", "ok">>), Submit(None, <<"error">>), Nothing}>>)},
          {Start("Nightly", FALSE), Nothing}, {Call("steps"), Step("ctest_configure")},
          {Step("ctest_build"), [Step("ctest_build") EXCEPT !.staged = "no manifest"], EmptyBuild({}), EmptyBuild({"Build"})},
          {Start(None, TRUE), Start("Weekly", TRUE), Step("ctest_coverage"), [Step("ctest_coverage") EXCEPT !.exit = 2]},
          {Submit(None, <<"ok">>), Submit({"Build", "Done"}, <<"timeout", "late">>), Submit({"Wrong"}, <<"ok">>), [Submit(None, <<"timeout", "ok">>) EXCEPT !.upload = "f"]}>>,
        \* the tests of the stream
        <<{Subdir("sub"), Nothing}, {[cmd |-> "enable_testing"], Nothing}, {[cmd |-> "add_test", name |-> "t"]},
          {[cmd |-> "add_test", name |-> "t"], [cmd |-> "add_test", name |-> "u"]},
          {TestStep, [TestStep EXCEPT !.capture = "CE", !.staged = "no tag"], [TestStep EXCEPT !.malformed = TRUE]},
          {Memcheck("NONE", <<"passed">>), Memcheck("UNTIL_PASS", <<"timeout", "passed">>), Memcheck("AFTER_TIMEOUT", <<"timeout", "failed">>),
           [Memcheck("UNTIL_FAIL", <<"passed">>) EXCEPT !.command = FALSE]},
          {UpdateStep(None), UpdateStep("sccs"), [cmd |-> "ctest_upload", exists |-> TRUE] @@ Plainly, [cmd |-> "ctest_sleep", malformed |-> FALSE]},
          {Submit(None, <<"ok">>)}>>,
        \* scripts, with and without a process of their own
        <<{Fun("f", "function", <<{Error}>>)}, {Fun("g", "function", <<{Target("n")}, {Defer(None, None, Target("late")), Nothing}>>)},
          {RunScripts(<<"tool">>, TRUE), RunScripts(<<"tool", "tool">>, FALSE)},
          {[cmd |-> "ctest_read_custom_files", files |-> <<"absent", "tool">>]}, {Call("f"), Submit(None, <<"ok">>)}>>,
        \* packages: modules, configurations, versions and validators
        <<{Fun("check", "function", <<{Var("_NOBIFY_FIND_VALID", "0", "PARENT_SCOPE"), Nothing}, {Fun("check", "macro", <<>>), Nothing}>>), Fun("check", "macro", <<>>)},
          {Var("CMAKE_PREFIX_PATH", <<"none", "opt">>, ""), [cmd |-> "export_package", pkg |-> "A", prefix |-> "opt"]},
          {Find("A", None), Find("A", 2), [Find("A", 2) EXCEPT !.mode = "CONFIG"], [Find("B", 3) EXCEPT !.required = TRUE], [Find("A", None) EXCEPT !.bypass = TRUE]},
          {Item("check"), [Item(None) EXCEPT !.names_per_dir = TRUE], [Item("nobody") EXCEPT !.required = TRUE]},
          {Find("A", 1), [Item(None) EXCEPT !.there = {}]}>>,
        \* FetchContent without a provider
        <<{IncludeFile("FetchContent"), Nothing}, {Declare([Decl("A", "GIT", "asub") EXCEPT !.override = TRUE]), Declare([Decl("A", "URL", "asub") EXCEPT !.find_args = TRUE])},
          {Declare(Decl("B", "SVN", None)), Declare([Decl("B", "GIT", None) EXCEPT !.works = FALSE]), Declare([Decl("B", "NONE", None) EXCEPT !.override = TRUE, !.find_args = TRUE])},
          {MakeAvailable(<<"A", "B">>), MakeAvailable(<<"B", "A">>), Populate("A", None)},
          {MakeAvailable(<<"A", "B">>), Find("A", None), Populate("A", None), Populate("B", Decl("B", "CUSTOM", None)), [cmd |-> "fetch_get_properties", name |-> "A"]},
          {Declare(Decl("A", "HG", None)), MakeAvailable(<<"B", "A">>), SetPopulated("A")}>>,
        \* a dependency provider
        <<{Var("CMAKE_PROJECT_TOP_LEVEL_INCLUDES", <<"prov">>, "")}, {ProjectNamed("p", {"C"})},
          {Declare([Decl("A", "GIT", "asub") EXCEPT !.find_args = TRUE])}, {Declare(Decl("B", "URL", None))},
          {MakeAvailable(<<"A", "B">>), Find("A", None)}, {MakeAvailable(<<"B", "A">>), Find("A", 2)}>>,
        \* programs that are run, and what stops the run
        <<{Fun("f", "function", <<{Lock("m", "FUNCTION", None)}, {Defer(None, None, Target("late"))},
                                  {[Exec(<<Faring("not started")>>) EXCEPT !.fatal = "LAST"], Exec(<<Prog>>)}>>)},
          {Env("E", "1"), Env("PATH", None), Eval(<<{Env("E", "2")}, {Error, Nothing}>>)},
          {Exec(<<Printing("E"), Copying>>), [Exec(<<Printing("PATH"), Copying>>) EXCEPT !.error_quiet = TRUE, !.output_file = OutFile, !.error_file = OutFile],
           [Exec(<<[Copying EXCEPT !.slow = TRUE], Prog>>) EXCEPT !.timeout = 1, !.input = InFile, !.fatal = "LAST"],
           [Exec(<<Faring("closes its input")>>) EXCEPT !.input = InFile, !.output = None], [Exec(<<Prog>>) EXCEPT !.input = <<"no">>, !.fatal = "ANY"],
           [Exec(<<Prog>>) EXCEPT !.output_file = OutFile, !.error_file = <<"src">>, !.fatal = "ANY"], [Exec(<<>>) EXCEPT !.malformed = TRUE]},
          {Subdir("halts"), Minimum(310, 327), Nothing},
          {[Exec(<<Printing("E")>>) EXCEPT !.cmd = "exec_program", !.error = None], Eval(<<{Target("t")}, {Call("f")}>>)}>>,
        \* probes
        <<{Compile(<<Source(InFile, "C"), Source(<<"src", "h">>, "HEADERS")>>), Compile(<<Source(InFile, "AUTO")>>), ProjectCompile("t"),
           [Compile(<<[Source(<<"m">>, "C") EXCEPT !.text = Words("main")], [Source(<<"n">>, "C") EXCEPT !.from = <<"no">>]>>) EXCEPT !.bin = <<"bin", "p">>, !.copy = <<"bin", "c", "x">>],
           [Compile(<<[Source(<<"m">>, "C") EXCEPT !.from = InFile]>>) EXCEPT !.bin = InFile], [Compile(<<>>) EXCEPT !.malformed = TRUE]},
          {Var("CMAKE_TRY_COMPILE_TARGET_TYPE", "STATIC_LIBRARY", ""), Var("CMAKE_COMMAND", "mycmake", ""), Var("CMAKE_CROSSCOMPILING", "1", ""),
           Write(<<"src", "CMakeLists.txt">>, Words("x")), Nothing},
          {ProjectCompile("t"), [ProjectCompile("t") EXCEPT !.build.code = "2"], [Compile(<<Source(InFile, "CXX")>>) EXCEPT !.copy = <<"bin">>, !.no_cache = TRUE],
           RunProbe(<<Source(InFile, "C")>>, None), [RunProbe(<<Source(InFile, "C")>>, None) EXCEPT !.program.fate = "not started", !.no_cache = TRUE], IncludeFile("probes")},
          {RunProbe(<<Source(InFile, "C")>>, <<"bin", "q">>), [RunProbe(<<>>, <<"bin", "p">>) EXCEPT !.signature = "PROJECT"], RunProbe(<<Source(<<"no">>, "C")>>, None),
           [RunProbe(<<[Source(<<"m">>, "C") EXCEPT !.text = Words("main")]>>, OutFile) EXCEPT !.malformed = TRUE]}>>,
        \* properties of the run, of directories and of targets
        <<{Target("t")},
          {Subdir("psub"), IncludeFile("pinc"), SetProp("DIRECTORY", <<"psub">>, "LINK_OPTIONS", <<"-l">>),
           SetProps("set_directory_properties", <<>>, <<Pair("COMPILE_OPTIONS", <<"-a", "-b">>), Pair("LINK_OPTIONS", <<>>)>>)},
          {AppendProp("DIRECTORY", <<>>, "COMPILE_OPTIONS", <<"-c">>), AppendProp("TARGET", <<"t", "t">>, "COMPILE_OPTIONS", <<"-d">>),
           SetProps("set_target_properties", <<"t">>, <<Pair("COMPILE_OPTIONS", <<"-f">>), Pair("PIC", <<"ON">>)>>)},
          {SetProp("TARGET", <<"t">>, "PIC", <<"OFF">>), Subdir("psub"),
           AppendProp("TARGET", <<"t">>, "COMPILE_OPTIONS", <<"-h", "-i">>), Eval(<<{AppendProp("GLOBAL", <<>>, "LINK_OPTIONS", <<"-j">>)}, {Error, Nothing}>>)}>>,
        \* properties that are defined, and what is asked of them
        <<{DefineProp("TARGET", "PIC", "X"), DefineProp("DIRECTORY", "LINK_OPTIONS", None), DefineProp("DIRECTORY", "PIC", "X")},
          {Var("X", "1", ""), SetProp("GLOBAL", <<>>, "LINK_OPTIONS", <<"-g">>), SetProp("GLOBAL", <<"x">>, "G", <<"1">>)}, {Target("t")},
          {[SetProp("TARGET", <<"t">>, "COMPILE_OPTIONS", <<"-d", "-e">>) EXCEPT !.append_string = TRUE], SetProp("TARGET", <<"no">>, "PIC", <<"ON">>), Subdir("psub")},
          {AskOther("get_target_property", "t", "LINK_OPTIONS"), AskOther("get_target_property", "t", "PIC"), AskOther("get_target_property", "no", "PIC"),
           AskProp("TARGET", "t", "PIC", "SET"), AskProp("TARGET", "t", "PIC", "DEFINED"), AskProp("TARGET", "t", "TYPE", "FULL_DOCS"), AskProp("TARGET", "t", "TYPE", "BRIEF_DOCS"),
           AskProp("GLOBAL", "", "G", "VALUE"),
           [AskOther("get_directory_property", "", "LINK_OPTIONS") EXCEPT !.dir = "psub"], [AskOther("get_directory_property", "", "") EXCEPT !.variable = "X"],
           AskOther("get_directory_property", "", "VARIABLES"), AskOther("get_cmake_property", "", "CACHE_VARIABLES"), AskOther("get_cmake_property", "", "CMAKE_ROLE")}>>,
        \* properties of sources, tests and cache entries
        <<{Target("t")}, {Test("u"), Subdir("psub")}, {Var("X", "1", "CACHE"), [AskOther("get_source_file_property", "f", "GENERATED") EXCEPT !.target = "t"]},
          {SetProp("SOURCE", <<"f">>, "GENERATED", <<"1">>), [SetProp("SOURCE", <<"f", "g">>, "GENERATED", <<"1">>) EXCEPT !.dirs = <<root, "psub">>],
           [SetProps("set_source_files_properties", <<"f">>, <<Pair("GENERATED", <<"0">>), Pair("L", <<"C">>)>>) EXCEPT !.target_dirs = <<"t">>],
           SetProp("CACHE", <<"X">>, "VALUE", <<"2">>), [SetProp("TEST", <<"u">>, "L", <<"1">>) EXCEPT !.dirs = <<"psub">>],
           SetProps("set_tests_properties", <<"u">>, <<Pair("L", <<"1">>)>>), SetProps("set_tests_properties", <<"no">>, <<Pair("L", <<"1">>)>>)},
          {AskOther("get_source_file_property", "f", "GENERATED"), AskOther("get_source_file_property", "f", "L"), AskOther("get_source_file_property", "f", "LOCATION"),
           [AskProp("SOURCE", "f", "GENERATED", "VALUE") EXCEPT !.dir = "psub"], AskProp("CACHE", "X", "VALUE", "VALUE"),
           AskProp("TEST", "u", "WORKING_DIRECTORY", "VALUE"), AskProp("TEST", "no", "L", "SET"), AskOther("get_test_property", "u", "L"), AskOther("get_test_property", "no", "L"),
           [AskOther("get_test_property", "u", "L") EXCEPT !.dir = "nowhere"]}>>
    >>

=============================================================================
