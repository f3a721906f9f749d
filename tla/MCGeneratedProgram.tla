------------------------- MODULE MCGeneratedProgram -------------------------
(***************************************************************************)
(* Small projects for the generated program: a library and a program with  *)
(* generated sources, a configure phase, a project with install rules and  *)
(* packages, and one whose script replays a dashboard.                     *)
(***************************************************************************)
EXTENDS GeneratedProgram

NoTarget == [kind |-> "utility", explicit |-> << >>, pre_build |-> << >>, generated |-> << >>,
             link |-> << >>, pre_link |-> << >>, post_build |-> << >>, custom |-> << >>,
             sources |-> << >>, headers |-> {}, excluded |-> FALSE]

NoStep == [rule |-> FALSE, targets |-> << >>, producers |-> << >>, files |-> {},
           outputs |-> << >>, writes |-> << >>]

NoProject == [order |-> << >>, target |-> << >>, step |-> << >>, configure |-> << >>,
              install |-> << >>, components |-> << >>, group |-> << >>, exports |-> << >>, packages |-> << >>, tests |-> << >>,
              driver |-> << >>, home |-> TRUE, user |-> {}, requests |-> {<<"build", "">>}, configs |-> {""},
              limit |-> [time |-> 2, runs |-> 2, changes |-> 2]]

Small == [time |-> 1, runs |-> 2, changes |-> 1]

Static(sources) == [NoTarget EXCEPT !.kind = "static", !.sources = sources]
Executable(sources) == [NoTarget EXCEPT !.kind = "program", !.sources = sources]

\* A rule of two commands makes a source of the library; a second rule needs
\* the library and the first rule's output.
Chain(sources) ==
    [NoProject EXCEPT
       !.order = <<"lib", "all">>,
       !.target = [lib |-> [Static(sources) EXCEPT !.generated = <<"gen">>],
                   all |-> [NoTarget EXCEPT !.custom = <<"show">>]],
       !.step = [gen |-> [NoStep EXCEPT !.rule = TRUE, !.files = {"in"}, !.outputs = <<"gen.c", "log">>,
                                        !.writes = <<{"gen.c"}, {"log"}>>],
                 pack |-> [NoStep EXCEPT !.rule = TRUE, !.targets = <<"lib">>, !.producers = <<"gen">>,
                                         !.outputs = <<"pack">>, !.writes = <<{"pack"}>>],
                 show |-> [NoStep EXCEPT !.producers = <<"pack">>]],
       !.user = {"a.c", "in"}]

\* A program with its library, headers, target steps and an interface.
Linked ==
    [NoProject EXCEPT
       !.order = <<"api", "lib", "app">>,
       !.target = [api |-> [NoTarget EXCEPT !.kind = "interface"],
                   lib |-> [Static(<<"a.c">>) EXCEPT !.headers = {"a.h"}],
                   app |-> [Executable(<<"m.c">>) EXCEPT !.link = <<"api", "lib">>,
                                                         !.post_build = <<"mark">>]],
       !.step = [mark |-> [NoStep EXCEPT !.targets = << >>, !.outputs = <<"mark">>,
                                         !.writes = <<{"mark"}>>]],
       !.user = {"a.c", "a.h", "m.c"}]

\* Two configurations, configure actions of every kind, one file outside the
\* binary directory.
Two ==
    [NoProject EXCEPT
       !.order = <<"lib">>,
       !.target = [lib |-> Static(<<"a.c">>)],
       !.configure = <<[op |-> "write", path |-> "conf.h", inside |-> TRUE],
                       [op |-> "append", path |-> "conf.h", inside |-> TRUE],
                       [op |-> "write", path |-> "out.txt", inside |-> FALSE],
                       [op |-> "write", path |-> "tmp", inside |-> TRUE],
                       [op |-> "remove", path |-> "tmp", inside |-> TRUE]>>,
       !.user = {"a.c"}, !.configs = {"", "Release"},
       !.limit = [time |-> 1, runs |-> 3, changes |-> 1],
       !.requests = {<<"build", "">>, <<"configure", "">>, <<"clean", "">>}]

\* A cycle of a target and the step that depends on it, an alias.
Knot ==
    [NoProject EXCEPT
       !.order = <<"tie", "same">>,
       !.target = [tie |-> [NoTarget EXCEPT !.custom = <<"turn">>],
                   same |-> [NoTarget EXCEPT !.kind = "alias", !.explicit = <<"tie">>]],
       !.step = [turn |-> [NoStep EXCEPT !.targets = <<"tie">>]],
       !.requests = {<<"build", "">>, <<"build", "same">>, <<"build", "nosuch">>}]

\* Install rules of two components, two archive units.
Shipped(rules, grouping, by_component) ==
    [NoProject EXCEPT
       !.order = <<"lib">>,
       !.target = [lib |-> Static(<<"a.c">>)],
       !.install = rules,
       !.group = [dev |-> "code", doc |-> "code"],
       !.exports = <<[kind |-> "tree", name |-> "libTargets"],
                     [kind |-> "registry", name |-> "Lib", enabled |-> TRUE],
                     [kind |-> "install", name |-> "cmake", component |-> "dev", noconfig |-> TRUE]>>,
       !.packages = <<[name |-> "ship", generators |-> <<"TGZ", "ZIP">>, components |-> << >>,
                       grouping |-> grouping, by_component |-> by_component]>>,
       !.user = {"a.c", "readme"}, !.limit = Small,
       !.requests = {<<"install", "">>, <<"install", "doc">>, <<"export", "">>,
                     <<"package", "">>, <<"package", "ZIP">>, <<"package", "TXZ">>,
                     <<"package", "RPM">>}]

Rules == <<[kind |-> "target", target |-> "lib", items |-> <<"a.c">>, component |-> "dev",
            header_component |-> "doc"],
           [kind |-> "directory", items |-> <<"readme">>, component |-> "", header_component |-> ""],
           [kind |-> "file", items |-> <<"readme">>, component |-> "dev", header_component |-> ""]>>

\* Promises nobody keeps: a source that is missing, a rule that does not
\* write what it declares, a file to install that is not there.
Broken ==
    [NoProject EXCEPT
       !.order = <<"lib", "rest">>,
       !.target = [lib |-> Static(<<"lost.c">>), rest |-> [NoTarget EXCEPT !.custom = <<"idle">>]],
       !.step = [idle |-> [NoStep EXCEPT !.outputs = <<"never">>, !.writes = <<{}>>]],
       !.install = <<[kind |-> "file", items |-> <<"lost.txt">>, component |-> "", header_component |-> ""]>>,
       !.limit = Small,
       !.requests = {<<"build", "">>, <<"build", "rest">>, <<"install", "">>}]

Tested ==
    [NoProject EXCEPT
       !.order = <<"app">>,
       !.target = [app |-> Executable(<<"m.c">>)],
       !.tests = <<[name |-> "runs", target |-> "app", configs |-> {}],
                   [name |-> "script", target |-> "", configs |-> {"Release"}]>>,
       !.user = {"m.c"}, !.configs = {"", "Release"}, !.limit = Small,
       !.requests = {<<"test", "">>, <<"test", "script">>, <<"test", "nosuch">>}]

Step(op) == [op |-> op, append |-> FALSE, config |-> "", target |-> "", repeat |-> "",
             count |-> 1, stop |-> ""]

Dashboard ==
    [Tested EXCEPT
       !.driver = << Step("empty"), Step("start"), Step("configure"),
                     [Step("build") EXCEPT !.config = "Release"], Step("test"), Step("coverage"),
                     [Step("memcheck") EXCEPT !.repeat = "until-pass", !.count = 2, !.stop = "stop"],
                     [Step("memcheck") EXCEPT !.repeat = "until-fail", !.count = 2], Step("sleep") >>,
       !.requests = {<<"test", "script">>, <<"test", "nosuch">>}]

SelfBuild ==
    [Tested EXCEPT !.driver = <<Step("configure"), Step("build")>>, !.configs = {""},
                   !.requests = {<<"test", "">>}]

MCPlans ==
    { <<Chain(<<"a.c", "gen.c">>), Chain(<<"gen.c">>)>>, <<Linked>>, <<Two, Two>>, <<Knot>>,
      <<Shipped(Rules, "ONE_PER_GROUP", TRUE), Shipped(Tail(Rules), "ALL_COMPONENTS_IN_ONE", TRUE)>>,
      <<[Shipped(Rules, "IGNORE", TRUE) EXCEPT !.components = <<"doc">>]>>, <<Shipped(Rules, "", FALSE)>>, <<Tested>>, <<Dashboard>>,
      <<Broken>> }

MCDashboardPlans == {<<SelfBuild>>}

MCConfigs == {"", "Release"}

=============================================================================
