---------------------------- MODULE MCAlgorithms ----------------------------
(***************************************************************************)
(* The pure algorithms of Dag, AutoYml, TaskNames, TaskCalls and Batches   *)
(* over every input of a small family, each checked against what it is     *)
(* meant to compute, stated without the algorithm.  A behaviour picks one  *)
(* input.                                                                  *)
(***************************************************************************)
EXTENDS AutoYml, Graphs

CONSTANTS Gap, End

N == INSTANCE TaskNames
B == INSTANCE Batches
F == INSTANCE TaskCalls

VARIABLE input   \* [topic, in]

(* Names and letters of the tasks: "zb" holds the letter that names "b".   *)
TaskSet == {"a", "b", "zb"}
LettersOf(t) == IF t = "zb" THEN {"b"} ELSE {t}
FalsyValues == {"no"}

Init == input = [topic |-> "none", in |-> None]

Pick(topic, in) == input' = [topic |-> topic, in |-> in]
-----------------------------------------------------------------------------
Items == << "a", "b", "c", "d" >>

PickDag == \E deps \in SUBSET { d \in (1 .. 4) \X (1 .. 4) : d[1] # d[2] \/ d[1] = 1 }, raise \in BOOLEAN :
              Pick("dag", [deps |-> { <<Items[d[1]], Items[d[2]]>> : d \in deps }, raise |-> raise])

Graph(deps) == [node |-> ToSet(Items) \cup TaskSet, edge |-> { d \in deps : d[1] # d[2] }]

Acyclic(deps) == ~ HasCycle(Graph(deps))

Respects(sorted, deps) ==
    \A d \in deps : d[1] # d[2] =>
        SelectInSeq(sorted, LAMBDA t : t = d[1]) < SelectInSeq(sorted, LAMBDA t : t = d[2])

Rearranges(s, t) == Len(s) = Len(t) /\ ToSet(s) = ToSet(t)

DagIsSorted(in) ==
    LET r == DagSort(Items, in.deps, in.raise)
    IN  /\ r.cycle <=> in.raise /\ ~ Acyclic(in.deps)
        /\ ~ r.cycle => Rearranges(r.sorted, Items)
        /\ Acyclic(in.deps) => Respects(r.sorted, in.deps)
        /\ FindCycle(in.deps) = {} <=> Acyclic(in.deps) /\ \A k \in ToSet(Items) : <<k, k>> \notin in.deps
        /\ \A c \in FindCycle(in.deps) : /\ c[1] = Last(c)
                                         /\ \A i \in 1 .. Len(c) - 1 : <<c[i], c[i + 1]>> \in in.deps

Nodes == [name : {"b"}, prev : {{}, {"a"}, {"zb"}}, next : {{}, {"a"}, {"a", "zb"}, {"b"}}, opts : {[own |-> 1]}]
Others == [name : {"zb"}, prev : {{}, {"a"}, {"b"}}, next : {{}, {"a"}}, opts : {[own |-> 1], [join |-> 1]}]
Entries == [name : TaskSet, opts : {[own |-> 2, flow |-> 2]}]

PickTree == \E b \in Nodes, z \in Others, tasks \in {<<1>>, <<2>>, <<1, 2>>, <<2, 1>>},
               flow \in BoundedSeq(Entries, 3), deps \in {{}, {<<"a", "b">>}} :
              Pick("tree", [ tasks |-> [i \in DOMAIN tasks |-> IF tasks[i] = 1 THEN b ELSE z],
                             flow |-> flow, deps |-> deps,
                             sibling |-> [own |-> 3, flow |-> 3, common |-> 3] ])

Declared(w) ==
    LET written == { w.tasks[i] : i \in DOMAIN w.tasks }
    IN  w.deps \cup { <<w.flow[i].name, w.flow[i + 1].name>> : i \in 1 .. Len(w.flow) - 1 }
        \cup UNION { { <<p, t.name>> : p \in t.prev } \cup { <<t.name, n>> : n \in t.next } : t \in written }

TreeIsAsWritten(w) ==
    LET r     == ParseTree(w)
        deps  == Declared(w)
        tasks == { w.tasks[i].name : i \in DOMAIN w.tasks } \cup { w.flow[i].name : i \in DOMAIN w.flow }
        names == tasks \cup UNION { {d[1], d[2]} : d \in deps }
        says(t, k) == IF \E i \in DOMAIN w.tasks : w.tasks[i].name = t /\ k \in DOMAIN w.tasks[i].opts THEN 1
                      ELSE IF k # "common" /\ \E i \in DOMAIN w.flow : w.flow[i].name = t THEN 2 ELSE 3
    IN  /\ Names(r.tree) = names
        /\ \A t \in names : /\ r.tree.next[t] = { d[2] : d \in { d \in deps : d[1] = t } }
                            /\ \A p \in r.tree.prev[t] : <<p, t>> \in deps
        /\ \A t \in names, k \in {"own", "flow", "common"} : r.tree.opts[t][k] = says(t, k)
        /\ ~ Acyclic(deps) => r.cycle
        /\ r.cycle => ~ Acyclic(deps \cup { <<"b", d[2]>> : d \in { d \in deps : d[1] = "zb" } })
        /\ ~ r.cycle => Rearranges(r.sorted, r.tree.order) /\ Respects(r.sorted, deps)

(* Sorting keeps every dependence: dag_sort puts each task after those it  *)
(* depends on and reports a cycle exactly when there is one; a parsed tree *)
(* has the tasks, dependences and options the yml says, in such an order.  *)
(* (`prev' is read letter by letter, so a cycle may also be reported       *)
(* because "zb" holds the name of "b".)                                    *)
SortKeepsOrder ==
    /\ input.topic = "dag"  => DagIsSorted(input.in)
    /\ input.topic = "tree" => TreeIsAsWritten(input.in)
-----------------------------------------------------------------------------
PathTo == [a |-> <<"a">>, b |-> <<"b">>, c |-> <<"c">>, s |-> <<"a", "s">>]
Dicts == DOMAIN PathTo
Ext == UNION { { <<>>, <<PathTo[x]>> } \cup { <<PathTo[x], PathTo[y]>> : y \in Dicts } : x \in Dicts }

Inherits(ext) == { e \in Dicts \X Dicts : Contains(ext[e[1]], PathTo[e[2]]) } \cup {<<"a", "s">>}

PickConfigs ==
    \E ext \in [a : Ext, b : Ext, c : {<<>>, <<PathTo.b>>, <<PathTo.s>>}, s : {<<>>, <<PathTo.b>>, <<PathTo.c>>}],
       own \in [a : {0, 1}, b : {0, 1}, c : {0, 1}, s : {0, 1}], chosen \in BOOLEAN :
        /\ ~ HasCycle([node |-> Dicts, edge |-> Inherits(ext)])
        /\ Pick("configs", [ext |-> ext, own |-> own, chosen |-> chosen])

(* The written configs: own["n"] = 1 where dict n says x; b chooses x by   *)
(* __if__; c takes the template key y from what a says of z.               *)
Written(in) ==
    [ heap  |-> [ n \in Dicts \cup {"root"} |->
                    CASE n = "root" -> [a |-> "a", b |-> "b", c |-> "c"]
                      [] n = "a" -> [s |-> "s", z |-> "za"] @@ (IF in.own.a = 1 THEN [x |-> "xa"] ELSE NoOpts)
                      [] OTHER -> IF in.own[n] = 1 THEN [x |-> "x" \o n] ELSE NoOpts ],
      ext   |-> [ n \in Dicts \cup {"root"} |-> IF n = "root" THEN <<>> ELSE in.ext[n] ],
      cond  |-> [ n \in Dicts \cup {"root"} |-> IF n = "b" /\ in.chosen THEN [x |-> "if"] ELSE NoOpts ],
      templ |-> [ n \in Dicts \cup {"root"} |-> IF n = "c" THEN [y |-> <<"a", "z">>] ELSE NoOpts ],
      plain |-> {}, parsed |-> {}, err |-> FALSE ]

(* What a dict has under a key: its own, else what the first dict it       *)
(* inherits from that has any, has.                                        *)
RECURSIVE Says(_, _, _)
Says(in, n, k) ==
    LET w == Written(in)
        own == w.cond[n] @@ w.heap[n] @@ [q \in DOMAIN w.templ[n] |-> ConfigAt(w, w.templ[n][q])]
        from == SelectSeq(w.ext[n], LAMBDA p : Says(in, ConfigAt(w, p), k) # None)
    IN  IF k \in DOMAIN own THEN own[k]
        ELSE IF from = <<>> THEN None ELSE Says(in, ConfigAt(w, from[1]), k)

ConfigsInherit(in) ==
    LET r == ParseConfigs(Written(in))
    IN  ~ r.err /\ \A n \in Dicts, k \in {"s", "x", "y", "z"} :
                     (IF k \in DOMAIN r.heap[n] THEN r.heap[n][k] ELSE None) = Says(in, n, k)

Plain(x) == [val |-> x]
Said == [f : {"v", "no", None}, g : {"v", None}, h : {"v", None}, root : {"v", "no", None}]

PickImport == \E said \in Said, r \in BoundedSeq({"f", "g", "root"}, 2), f \in BoundedSeq({"g", "h"}, 2), g \in BoundedSeq({"f", "h"}, 2) :
                 Pick("import", [said |-> said, files |-> [root |-> r, f |-> f, g |-> g, h |-> <<>>]])

Files(in) == [ f \in DOMAIN in.files |->
                 [ imports |-> in.files[f],
                   own |-> [dict |-> IF in.said[f] = None THEN [file |-> Plain(f)]
                                     ELSE [file |-> Plain(f), x |-> Plain(IF in.said[f] = "no" THEN "no" ELSE f)]] ] ]

ImportsOnce(in) ==
    LET r     == ParseImport(Files(in), "root", {"root"})
        edges == { e \in (DOMAIN in.files) \X (DOMAIN in.files) : Contains(in.files[e[1]], e[2]) }
        all   == {"root"} \cup Descendants([node |-> DOMAIN in.files, edge |-> edges], "root")
        says  == SelectSeq(r.loaded, LAMBDA f : in.said[f] # None)
        truthy == SelectSeq(says, LAMBDA f : in.said[f] = "v")
    IN  /\ Rearranges(r.loaded, SetToSeq(all)) /\ r.imported = all
        /\ (\A i \in DOMAIN says : in.said[says[i]] = "v") =>
              r.obj.dict = [file |-> Plain("root")] @@ (IF says = <<>> THEN NoOpts ELSE [x |-> Plain(says[1])])
        /\ r.obj = Err => \E i \in 2 .. Len(says) : in.said[says[i]] = "no"
        /\ r.obj # Err /\ truthy # <<>> => r.obj.dict.x = Plain(truthy[1])

(* Every config has what it inherits: its own value of a key, else that of *)
(* the first config it extends which has one, however the configs are      *)
(* ordered and whichever is parsed on behalf of another; and an import     *)
(* brings each file in once, the files met first overriding the others.    *)
(* (A falsy value overrides nothing and may not be overridden: Err.)       *)
ConfigsResolve ==
    /\ input.topic = "configs" => ConfigsInherit(input.in)
    /\ input.topic = "import"  => ImportsOnce(input.in)
-----------------------------------------------------------------------------
TaskNames3 == { <<"n", "t">>, <<"m", "t">>, <<"t">>, <<"n", "t", "f">> }
Keys == TaskNames3 \cup { <<"u">>, <<"u", "f">>, <<"t", "f">>, <<"m", "t", "f">>, <<"v", "w">> }
Tasks == [name : TaskNames3, alias : {{}, {<<"u">>}, {<<"t">>, <<"v", "w">>}}]

PickKey == \E tasks \in BoundedSeq(Tasks, 3), key \in Keys :
              IsInjective([i \in DOMAIN tasks |-> tasks[i].name]) /\ Pick("key", [tasks |-> tasks, key |-> key])

(* The tasks a name may stand for, the better ones first.                  *)
Candidates(tasks, n) ==
    LET named == { tasks[i].name : i \in DOMAIN tasks }
    IN  << named \cap {n},
           { tasks[i].name : i \in { i \in DOMAIN tasks : n \in tasks[i].alias } },
           { t \in named : Len(t) > 1 /\ <<Last(t)>> = n } >>

KeyFindsTask(in) ==
    LET r == N!ParseTaskKey(in.tasks, in.key, None)
        c == Candidates(in.tasks, r.cls)
        none(n) == LET d == Candidates(in.tasks, n) IN d[1] = {} /\ d[2] = {} /\ Cardinality(d[3]) # 1
    IN  /\ in.key = r.cls \o (IF r.func = None THEN <<>> ELSE <<r.func>>)
        /\ r.task # None =>
              \/ r.task \in c[1]
              \/ c[1] = {} /\ r.task \in c[2]
              \/ c[1] = {} /\ c[2] = {} /\ c[3] = {r.task}
        /\ r.task = None => none(in.key) /\ (Len(in.key) > 1 => none(Front(in.key)))
        /\ N!TaskSource(in.tasks, in.key, None) = "dict" <=> r.task # None

As == [prefix : BOOLEAN, path : {<<"lib">>}]
Metas == [name : {<<"t">>, <<"p", "t">>}, cls : {"C", "D"}, as : As \cup {None}, ns : {None, [prefix |-> FALSE, path |-> <<"q">>]}, object : BOOLEAN]

PickLoad == \E metas \in BoundedSeq(Metas, 2), yml \in {None, "C"} : Pick("load", [metas |-> metas, yml |-> yml])

LoadsUnderOneName(in) ==
    LET yml == <<"lib", "t">> :> in.yml
        r == N!LoadTasks(yml, in.metas)
        m(i) == in.metas[i]
        claims(n) == { i \in DOMAIN in.metas : N!LoadedName(m(i)) = n }
    IN  /\ ~ r.err => \A i \in DOMAIN in.metas :
              LET n == N!LoadedName(m(i))
                  first == Min(claims(n))
              IN  r.tasks[n] = IF n \in DOMAIN yml /\ yml[n] # None THEN yml[n]
                               ELSE IF m(first).object THEN <<"object", m(first).cls>> ELSE m(first).cls
        /\ r.err => \E i \in DOMAIN in.metas : LET n == N!LoadedName(m(i)) IN
                       \/ n \in DOMAIN yml /\ yml[n] \notin {None, m(i).cls}
                       \/ \E j \in claims(n) \ {i} : m(j).object \/ m(j).cls # m(i).cls
        /\ \A n \in DOMAIN yml : yml[n] # None => r.tasks[n] = yml[n]

Contexts == BoundedSeq({"a", "b", "c"}, 3)

PickPath == \E context \in Contexts, dots \in 0 .. 5, rest \in {<<"d">>, <<"d", "e">>} :
               Pick("path", [context |-> context, path |-> [dots |-> dots, rest |-> rest]])

(* The two resolvers of relative paths agree; one dot more is one level up.*)
PathsAgree(in) ==
    LET key == N!ResolveKeyPath(in.path, in.context)
        up  == N!ResolveKeyPath([in.path EXCEPT !.dots = @ + 1], in.context)
    IN  in.context # <<>> =>
          /\ key = N!ResolveDottedPath(in.path, in.context)
          /\ in.path.dots > 0 /\ Len(in.context) > 1 => up = N!ResolveKeyPath(in.path, Front(in.context))

Word(w) == [kind |-> "word", name |-> w]
Parts == { Word("x"), [kind |-> "*", name |-> ""], [kind |-> "**", name |-> ""], [kind |-> "var", name |-> "k"] }
RouteSet == [route : BoundedSeq(Parts, 3), methods : {{"GET"}, {"GET", "POST"}}]

PickRoute == \E r \in RouteSet, q \in RouteSet, path \in BoundedSeq({"x", "y"}, 3) :
                Pick("route", [routes |-> <<r, q>>, path |-> path])

(* path fits the pattern, "**" standing for at least `least' parts.        *)
RECURSIVE Fits(_, _, _)
Fits(path, pattern, least) ==
    IF pattern = <<>> THEN path = <<>>
    ELSE IF Head(pattern).kind = "**"
         THEN \E n \in least .. Len(path) : Fits(N!From(path, n + 1), Tail(pattern), least)
         ELSE /\ path # <<>>
              /\ Head(pattern).kind = "word" => Head(path) = Head(pattern).name
              /\ Fits(Tail(path), Tail(pattern), least)

(* "**" comes where the code handles it: nothing, or one part, since the   *)
(* literal prefix or the last "*".                                         *)
Handled(route) ==
    \A i \in DOMAIN route : route[i].kind = "**" =>
        \A j \in 1 .. i - 2 : j <= N!FixLen(route) \/ \E k \in j .. i - 1 : route[k].kind = "*"

RouteFits(in) ==
    LET r == N!FindHandler(in.routes, in.path, "POST")
        open(i) == "POST" \in in.routes[i].methods
    IN  (\A i \in 1 .. 2 : Handled(in.routes[i].route)) /\ r.vars # Err =>
          /\ r.route # 0 => /\ open(r.route) /\ Fits(in.path, in.routes[r.route].route, 0)
                            /\ \A v \in DOMAIN r.vars : Contains(in.path, r.vars[v])
          /\ \A i \in 1 .. 2 : open(i) /\ Fits(in.path, in.routes[i].route, 1) =>
                /\ r.route # 0
                /\ N!FixLen(in.routes[r.route].route) >= N!FixLen(in.routes[i].route)

Args == { [text |-> <<>>, configs |-> <<>>],
          [text |-> <<"(", "x", "+", "y", ")">>, configs |-> <<"x", "y">>],
          [text |-> <<"(", "x", ",", "z", ")">>, configs |-> <<"x">>] }
Calls == [func : {"j", "k"}, args : Args]

PickExpression == \E args \in Args, join \in BoundedSeq(BoundedSeq(Calls, 2), 2) :
                     Pick("expression", << <<[func |-> "t", args |-> args]>> >> \o join)

Joined(parts, sep) ==
    FoldLeft(LAMBDA s, i : s \o (IF i = 1 THEN <<>> ELSE <<sep>>) \o parts[i], <<>>, [i \in DOMAIN parts |-> i])

WrittenBlock(block) == Joined([i \in DOMAIN block |-> <<block[i].func>> \o block[i].args.text], ",")

ExpressionIsRead(blocks) ==
    LET tokens == Joined([i \in DOMAIN blocks |-> WrittenBlock(blocks[i])], "~")
        r      == F!ParseTaskExp(tokens)
        last(b, c) == \A i \in DOMAIN b : b[i].func = b[c].func => i <= c
    IN  /\ r.key = <<"t">> /\ r.bind = blocks[1][1].args.configs
        /\ F!BaseTaskKey(tokens) = r.key
        /\ Len(r.join) = Len(blocks) - 1
        /\ \A i \in DOMAIN r.join :
              LET b == blocks[i + 1]
              IN  /\ DOMAIN r.join[i] = { <<b[c].func>> : c \in DOMAIN b }
                  /\ \A c \in DOMAIN b : last(b, c) => r.join[i][<<b[c].func>>] = b[c].args.configs

Variables ==
    { [text |-> <<"t">>, var |-> TRUE, ns |-> ns, key |-> [dots |-> d, rest |-> rest], default |-> default,
       brace |-> brace, one |-> d + Len(rest) = 1 /\ rest # <<"bb">>] :
         ns \in {None, "config"}, d \in 0 .. 3, rest \in {<<>>, <<"b">>, <<"bb">>, <<"a", "b">>},
         default \in {None, <<"default">>}, brace \in BOOLEAN }
Configs == { {<<"b">>}, {<<>>, <<"a">>, <<"a", "b">>, <<"bb">>}, {<<>>, <<"a">>, <<"a", "c">>, <<"a", "c", "b">>}, {} }

PickTemplate ==
    \E v \in Variables, configs \in Configs, context \in {<<>>, <<"a">>, <<"a", "c">>},
       env \in SUBSET {<<"b">>}, relative \in BOOLEAN, noHit \in {None, <<"none">>} :
        /\ v.key.dots + Len(v.key.rest) > 0
        /\ ~ v.brace => v.ns = None /\ v.key.dots = 0 /\ Len(v.key.rest) = 1 /\ v.default = None
        /\ Pick("template", [v |-> v, configs |-> configs, context |-> context, env |-> env,
                             relative |-> relative, noHit |-> noHit])

(* The text of a variable: the value its key stands for, the same from     *)
(* anywhere the key means the same, else its default.                      *)
TemplateIsFilled(in) ==
    LET maps == (None :> [p \in in.env |-> <<"env", p>>]) @@ ("config" :> [p \in in.configs |-> <<"config", p>>])
        text == [in.v EXCEPT !.var = FALSE]
        fill(t, context, noHit) == F!Substitute(t, maps, "config" :> context, in.relative, noHit)
        bare == fill(<<[in.v EXCEPT !.default = None]>>, in.context, None)
        all  == fill(<<text, in.v, text>>, in.context, in.noHit)
        ofConfig == in.v.ns = "config" \/ (in.relative /\ in.v.key.dots > 0)
    IN  /\ all = LET value == CASE bare # Err -> bare[1]
                                [] bare = Err /\ in.v.default # None -> in.v.default
                                [] OTHER -> in.noHit
                 IN  IF value = None THEN Err ELSE <<text.text, value, text.text>>
        /\ bare # Err /\ bare[1] # text.text =>
              /\ bare[1][1] = IF ofConfig THEN "config" ELSE "env"
              /\ Len(bare[1][2]) >= Len(in.v.key.rest)
              /\ in.v.key.rest = SubSeq(bare[1][2], Len(bare[1][2]) - Len(in.v.key.rest) + 1, Len(bare[1][2]))
        /\ ofConfig /\ in.v.key.dots > 0 /\ in.context # <<>> =>
              fill(<<[in.v EXCEPT !.key.dots = @ + 1, !.one = FALSE]>>, Append(in.context, "b"), <<"none">>)
                 = fill(<<[in.v EXCEPT !.one = FALSE]>>, in.context, <<"none">>)
        /\ in.v.key.dots = 0 => fill(<<in.v>>, <<"a", "a">>, <<"none">>) = fill(<<in.v>>, in.context, <<"none">>)

Key(pattern) == [pattern |-> pattern, name |-> "file"]
Leaf == { [text |-> "text"], [text |-> "other"] }
DictsOf(values) == { [at |-> f] : f \in UNION { [ks -> values] : ks \in SUBSET { Key(TRUE), Key(FALSE) } } }

PickPattern == \E dict \in DictsOf(Leaf \cup DictsOf(Leaf)), depth \in 0 .. 2 :
                  Pick("pattern", [dict |-> dict, depth |-> depth])

(* Below the depth a dict is as it was; above, no text is left under a     *)
(* pattern key, and it is what the plain key of the name now has.          *)
PatternsAreEvaluated(in) ==
    LET r == F!ParsePatternKey(in.dict, in.depth)
        has(d, k, v) == k \in DOMAIN d.at /\ d.at[k] = v
        moves(d) == has(d, Key(TRUE), [text |-> "text"])
        done(d, e) == /\ ~ moves(e)
                      /\ moves(d) => has(e, Key(FALSE), [text |-> "new"])
                      /\ DOMAIN e.at = IF moves(d) THEN {Key(FALSE)} ELSE DOMAIN d.at
                      /\ \A k \in DOMAIN e.at : \/ e.at[k] = [text |-> "new"]
                                                \/ "at" \in DOMAIN e.at[k] \/ d.at[k] = e.at[k]
        under(d) == { k \in DOMAIN d.at : "at" \in DOMAIN d.at[k] }
    IN  IF in.depth = 0 THEN r = in.dict
        ELSE /\ done(in.dict, r)
             /\ \A k \in under(r) : IF in.depth = 1 THEN r.at[k] = in.dict.at[k] ELSE done(in.dict.at[k], r.at[k])

Pqr == <<"p", "q", "r">>
Upto(n) == SubSeq(Pqr, 1, n)
PickDotted == \E mods \in 0 .. 3, attrs \in SUBSET { <<Upto(a), m>> : a \in 2 .. 3, m \in 1 .. 2 }, n \in 1 .. 3 :
                 Pick("dotted", [mods |-> { Upto(m) : m \in 1 .. mods }, attrs |-> attrs, path |-> Upto(n)])

(* A class is looked for in its innermost module only.                     *)
ImportIsInnermost(in) ==
    LET r     == F!DynImport(in.path, in.mods, in.attrs)
        inner == Min({Cardinality(in.mods), Len(in.path)})
    IN  IF inner > 0 /\ \A a \in inner + 1 .. Len(in.path) : <<Upto(a), inner>> \in in.attrs
        THEN r = [n |-> inner, path |-> in.path] ELSE r = Err

(* What is looked up by name is what the name stands for: a task key finds *)
(* the task of that name, alias or unambiguous short name, and never fails *)
(* when there is one; tasks loaded from modules never replace another of   *)
(* the name; relative paths mean the same in configs and in imports; and a *)
(* request gets a handler whose route fits its path and method, with no    *)
(* fitting route of a longer literal prefix.  A task expression is read as *)
(* it was written, templates are filled with what their keys stand for     *)
(* from where they are, and a class comes from its innermost module.       *)
NamesResolve ==
    /\ input.topic = "key"   => KeyFindsTask(input.in)
    /\ input.topic = "load"  => LoadsUnderOneName(input.in)
    /\ input.topic = "path"  => PathsAgree(input.in)
    /\ input.topic = "route" => RouteFits(input.in)
    /\ input.topic = "expression" => ExpressionIsRead(input.in)
    /\ input.topic = "template"   => TemplateIsFilled(input.in)
    /\ input.topic = "pattern"    => PatternsAreEvaluated(input.in)
    /\ input.topic = "dotted"     => ImportIsInnermost(input.in)
-----------------------------------------------------------------------------
PickEvents == \E pattern \in BoundedSeq({"item", Gap, End}, 6), size \in 0 .. 3, raise \in BOOLEAN :
                 Pick("events", [ events |-> [i \in DOMAIN pattern |-> IF pattern[i] = "item" THEN i ELSE pattern[i]],
                                  size |-> size, raise |-> raise ])

IsItem(e) == e \notin {Gap, End}

BatchesPartition(in) ==
    LET ended == SelectInSeq(in.events, LAMBDA e : e = End)
        seen  == IF ended = 0 THEN in.events ELSE SubSeq(in.events, 1, ended)
        items == SelectSeq(seen, IsItem)
        r     == B!BatchItemRecv(in.events, in.size)
        iter  == B!BatchItemIter(items, in.size)
        plain == B!ItemIter(seen, in.raise)
        full  == Max({in.size, 1})
        gap   == SelectInSeq(seen, LAMBDA e : ~ IsItem(e))
    IN  /\ FlattenSeq(r.out) \o r.batch = items
        /\ ended # 0 => r.batch = <<>>
        /\ \A i \in DOMAIN r.out : Len(r.out[i]) \in 1 .. full
        /\ FlattenSeq(iter) = items
        /\ \A i \in DOMAIN iter : Len(iter[i]) \in 1 .. full /\ (i < Len(iter) => Len(iter[i]) = full)
        /\ plain.raised <=> in.raise /\ gap # 0
        /\ SelectSeq(plain.out, LAMBDA e : e # None) =
              IF in.raise /\ gap # 0 THEN SubSeq(seen, 1, gap - 1) ELSE items

Pieces == [key : {"k", "q"}, idx : 1 .. 2, count : 1 .. 2]
PickPieces == \E items \in BoundedSeq(Pieces, 3) : Pick("pieces", items)

GroupsKeepItems(items) ==
    LET grouped == B!GroupBy(items)
        merged  == B!MergeItems(items)
        all(g)  == UNION { ToSet(g[i][2]) : i \in DOMAIN g }
    IN  /\ all(grouped) = ToSet(items) /\ all(merged) = ToSet(items)
        /\ IsInjective([i \in DOMAIN grouped |-> grouped[i][1]])
        /\ \A i \in DOMAIN grouped : /\ \A j \in DOMAIN grouped[i][2] : grouped[i][2][j].key = grouped[i][1]
                                     /\ grouped[i][2] # <<>>
        /\ \A i \in DOMAIN merged : \A j \in DOMAIN merged[i][2] :
              merged[i][2][j].key = merged[i][1] /\ (j > 1 => merged[i][2][j - 1].idx < merged[i][2][j].idx)

Rows == BoundedSeq({"i", "j", None}, 2)
PickJoin == \E rows \in BoundedSeq(Rows, 2), ids \in BoundedSeq({"i", "j"}, 3), columns \in {<<1>>, <<1, 2>>, <<2, 1>>} :
               Pick("join", [rows |-> rows, items |-> [n \in DOMAIN ids |-> [id |-> ids[n], n |-> n]], columns |-> columns])

JoinLosesNothing(in) ==
    LET m == B!JoinItems(in.rows, in.items, 2, in.columns)
        joined == { m[i][3] : i \in DOMAIN m } \ {None}
        last(d) == CHOOSE it \in ToSet(in.items) : it.id = d /\ \A o \in ToSet(in.items) : o.id = d => o.n <= it.n
    IN  /\ joined = { last(it.id) : it \in ToSet(in.items) }
        /\ \A i \in DOMAIN m : Len(m[i]) = 3
        /\ \A i \in DOMAIN in.rows : /\ IsPrefix(in.rows[i], m[i])
                                     /\ m[i][3] # None => \E c \in ToSet(in.columns) : m[i][c] = m[i][3].id
        /\ \A i \in Len(in.rows) + 1 .. Len(m) : \A j \in DOMAIN m : j # i => m[j][3] # m[i][3]

Labels == SUBSET {"p", "q"}
PickLabels == \E pairs \in BoundedSeq(Labels \X Labels, 2) : Pick("labels", pairs)

MeasuresAddUp(pairs) ==
    LET count == [g \in {"TP", "TN", "FP", "FN"} |-> Quantify(DOMAIN pairs, LAMBDA i : B!Measure(pairs[i][1], pairs[i][2]) = g)]
        m     == B!Metrics(count)
        right == Quantify(DOMAIN pairs, LAMBDA i : pairs[i][1] = pairs[i][2])
    IN  pairs # <<>> =>
          /\ m.accuracy = <<right, Len(pairs)>>
          /\ m.precision[2] = Max({1, Quantify(DOMAIN pairs, LAMBDA i : pairs[i][2] # {})})
          /\ \A k \in DOMAIN m : m[k][1] <= m[k][2]
          /\ m.f1[1] * (m.precision[2] * m.recall[1] + m.precision[1] * m.recall[2])
                = m.f1[2] * 2 * m.precision[1] * m.recall[1]

PickNumbers == \E values \in BoundedSeq(1 .. 3, 3), total \in 0 .. 12, place \in 1 .. 3 :
                  Pick("numbers", [values |-> values, total |-> total, place |-> place])

SumsAreKept(in) ==
    LET a     == B!Aggregate(in.values)
        sum   == FoldLeft(+, 0, in.values)
        split == B!RatioSplit(in.total, in.values, in.place)
    IN  /\ a.sum = sum /\ a.count = Len(in.values)
        /\ in.values # <<>> => a.min = Min(ToSet(in.values)) /\ a.max = Max(ToSet(in.values)) /\ a.mean = <<sum, a.count>>
        /\ in.place \in DOMAIN in.values =>
              /\ FoldLeft(+, 0, split) = in.total
              /\ \A i \in DOMAIN split : i # in.place =>
                    2 * split[i] * sum - 2 * in.values[i] * in.total \in -sum .. sum

Bytes == BoundedSeq({0, 2}, 2)
PickBytes == \E type \in {None} \cup Bytes, body \in {None} \cup { <<2>> \o b : b \in Bytes } :
                Pick("bytes", [type |-> type, body |-> body])

Item(i, type, gives) ==
    [ id |-> i, type |-> type, gives |-> gives,
      takes |-> << {}, {"x"}, {"x", "y"}, {"x", "y"} >>[i],
      bind  |-> << {}, {"x"}, {}, {"y"} >>[i] ]
Gives == { {}, {"x"}, {"x", "y"} }

PickChain == \E types \in [1 .. 4 -> {"task", "init"}], gives \in [1 .. 3 -> Gives], hook \in BOOLEAN, fails \in 0 .. 4 :
                Pick("chain", [ items |-> [i \in 1 .. 4 |-> Item(i, types[i], IF i = 4 THEN {} ELSE gives[i])],
                                runs  |-> (IF hook THEN << [type |-> "init", fails |-> 0] >> ELSE <<>>)
                                          \o << [type |-> "task", fails |-> fails], [type |-> "task", fails |-> 0] >> ])

(* Items 2 and 3 are one block, so neither sees the result of the other.   *)
BlockOf(i) == << 1, 2, 2, 3 >>[i]

CallsGetResults(in) ==
    LET chain == << <<in.items[1]>>, <<in.items[2], in.items[3]>>, <<in.items[4]>> >>
        how(r) == [run |-> r, type |-> in.runs[r].type, fails |-> in.runs[r].fails]
        calls == FoldLeft(LAMBDA s, r : F!RunChain(s, chain, how(r)), F!NewChain(1 .. 4), [r \in DOMAIN in.runs |-> r]).calls
        returned(i, p) == { calls[c].run : c \in { c \in 1 .. p - 1 : calls[c].id = i /\ in.runs[calls[c].run].fails # i } }
        givers(k, p) == { i \in 1 .. 4 : /\ BlockOf(i) < BlockOf(calls[p].id)
                                         /\ k \in in.items[i].gives /\ returned(i, p) # {} }
        due(r) == { i \in 1 .. 4 : /\ in.items[i].type = in.runs[r].type
                                   /\ LET f == in.runs[r].fails
                                      IN  f # 0 /\ in.items[f].type = in.runs[r].type => i <= f }
    IN  /\ { <<calls[p].run, calls[p].id>> : p \in DOMAIN calls } = UNION { {r} \X due(r) : r \in DOMAIN in.runs }
        /\ \A p \in 2 .. Len(calls) : \/ calls[p - 1].run < calls[p].run
                                      \/ calls[p - 1].run = calls[p].run /\ calls[p - 1].id < calls[p].id
        /\ \A p \in DOMAIN calls :
              LET item == in.items[calls[p].id]
                  got  == calls[p].kwargs
                  has(k) == givers(k, p) # {}
              IN  /\ DOMAIN got = { k \in item.takes : has(k) \/ k \in item.bind }
                  /\ \A k \in DOMAIN got :
                        got[k] = IF has(k) THEN LET i == Max(givers(k, p)) IN <<i, Max(returned(i, p))>>
                                 ELSE <<"bound", item.id>>

(* Nothing is lost or made up on the way: batches hold every item received *)
(* in order and none is left when the queue has ended; groups and merged   *)
(* groups hold every item under its key; joining a column drops no item;   *)
(* every prediction is measured once and the metrics agree with each other;*)
(* shares add up to what is split; decoding gives what was encoded; and a  *)
(* function is called with the latest results of the blocks before its     *)
(* own, through restarts of the task and hooks that ran earlier.           *)
ItemsKept ==
    /\ input.topic = "events"  => BatchesPartition(input.in)
    /\ input.topic = "pieces"  => GroupsKeepItems(input.in)
    /\ input.topic = "join"    => JoinLosesNothing(input.in)
    /\ input.topic = "labels"  => MeasuresAddUp(input.in)
    /\ input.topic = "numbers" => SumsAreKept(input.in)
    /\ input.topic = "chain"   => CallsGetResults(input.in)
    /\ input.topic = "bytes"   => B!Decode(B!Encode(input.in.type, input.in.body)) = input.in
-----------------------------------------------------------------------------
Next == /\ input.topic = "none"
        /\ \/ PickEvents \/ PickPieces \/ PickJoin \/ PickLabels \/ PickNumbers \/ PickBytes
           \/ PickKey \/ PickLoad \/ PickPath \/ PickRoute
           \/ PickExpression \/ PickTemplate \/ PickPattern \/ PickDotted \/ PickChain
           \/ PickDag \/ PickTree \/ PickConfigs \/ PickImport
=============================================================================
