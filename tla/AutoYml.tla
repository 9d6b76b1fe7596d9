------------------------------ MODULE AutoYml ------------------------------
(***************************************************************************)
(* smart/auto/parser/auto_yml.py: from what a yml file says to the tree of *)
(* tasks that is executed and the configs the tasks are bound to.          *)
(*                                                                         *)
(* Trees.  A written tree is a record                                      *)
(*   tasks   - its task nodes in order, [name, prev, next, opts]: prev is  *)
(*             {} or the set of one name, next a set of names, opts a dict *)
(*   flow    - the parsed __flow__ list, [name, opts]                      *)
(*   deps    - the pairs of __dependance__                                 *)
(*   sibling - the options of __sibling__                                  *)
(* A tree node as the parser keeps it is [order, prev, next, opts], the    *)
(* last three functions on the names in order.                             *)
(***************************************************************************)
EXTENDS Dag, FiniteSetsExt, Functions, TLC

CONSTANTS None,       \* no value
          Letters(_)  \* the one-letter task names among the letters of a name

NoOpts == << >>       \* an empty dict of options

Names(tree) == ToSet(tree.order)

(* normalize_tree_node: the dependences of the node's tasks and of         *)
(* __dependance__, as one set (iterated in any order); a name only         *)
(* mentioned becomes a task; `next' keeps all of a task's next tasks,      *)
(* `prev' the last of its previous ones.                                   *)
NormalizeTreeNode(tree, deps) ==
    LET all   == deps \cup DependanceSet(Names(tree), tree.prev, tree.next)
        named == Names(tree) \cup UNION { {d[1], d[2]} : d \in all }
        prevs(t) == { d[1] : d \in { d \in all : d[2] = t } }
    IN  [ order |-> tree.order \o SetToSeq(named \ Names(tree)),
          prev  |-> [ t \in named |-> IF prevs(t) = {} THEN {} ELSE {CHOOSE p \in prevs(t) : TRUE} ],
          next  |-> [ t \in named |-> { d[2] : d \in { d \in all : d[1] = t } } ],
          opts  |-> [ t \in named |-> IF t \in Names(tree) THEN tree.opts[t] ELSE NoOpts ] ]

(* The node as it is written, each task under a name of its own; the       *)
(* options of a key's expression and of its node are merged already        *)
(* (normalize_tree_task: the node's win, joins of the expression go first).*)
WrittenNode(w) ==
    LET named   == { w.tasks[i].name : i \in DOMAIN w.tasks }
        node(t) == w.tasks[SelectInSeq(w.tasks, LAMBDA n : n.name = t)]
    IN  [ order |-> [ i \in DOMAIN w.tasks |-> w.tasks[i].name ],
          prev  |-> [ t \in named |-> node(t).prev ],
          next  |-> [ t \in named |-> node(t).next ],
          opts  |-> [ t \in named |-> node(t).opts ] ]

(* parse_syntax_flow: consecutive entries depend on each other, and every  *)
(* entry is a task whose own options override those of the expression.     *)
FlowDeps(flow) == { <<flow[i].name, flow[i + 1].name>> : i \in 1 .. Len(flow) - 1 }

ParseFlow(tree, flow) ==
    LET add(s, e) ==
            IF e.name \in Names(s)
            THEN [s EXCEPT !.opts[e.name] = @ @@ e.opts]
            ELSE [ order |-> Append(s.order, e.name),
                   prev  |-> (e.name :> {}) @@ s.prev,
                   next  |-> (e.name :> {}) @@ s.next,
                   opts  |-> (e.name :> e.opts) @@ s.opts ]
    IN  FoldLeft(add, tree, flow)

(* parse_syntax_sibling: every task gets the options it lacks.             *)
ParseSibling(tree, sibling) ==
    [tree EXCEPT !.opts = [t \in DOMAIN tree.opts |-> tree.opts[t] @@ sibling]]

(* sort_tree_node, raise_err_on_cycle: `prev' is a string here, and is     *)
(* taken letter by letter.                                                 *)
SortTreeNode(tree) ==
    DagSort(tree.order,
            DependanceSet(Names(tree),
                          [t \in Names(tree) |-> UNION { Letters(p) : p \in tree.prev[t] }],
                          tree.next),
            TRUE)

(* parse_trees_node, one tree: [tree, sorted, cycle].                      *)
ParseTree(w) ==
    LET first == NormalizeTreeNode(WrittenNode(w), w.deps)
        flown == ParseSibling(ParseFlow(first, w.flow), w.sibling)
        node  == NormalizeTreeNode(flown, FlowDeps(w.flow))
        sort  == SortTreeNode(node)
    IN  [tree |-> node, sorted |-> sort.sorted, cycle |-> sort.cycle]
-----------------------------------------------------------------------------
(***************************************************************************)
(* Values of a yml: [val |-> v], or [dict |-> function].                   *)
(* DictMerger.deep_merge(a, b): b's values override a's, deeply.  A falsy  *)
(* b (0, FALSE, an empty string or dict) overrides nothing, and with       *)
(* no_copy a falsy a that is no dict has no `update': Err.                 *)
(***************************************************************************)
CONSTANTS Falsy,  \* the plain values Python takes for false
          Err     \* the AttributeError

IsDict(v) == "dict" \in DOMAIN v

IsFalsy(v) == IF IsDict(v) THEN DOMAIN v.dict = {} ELSE v.val \in Falsy

RECURSIVE DeepMerge(_, _, _)
DeepMerge(a, b, noCopy) ==
    CASE IsFalsy(a) -> IF noCopy /\ ~ IsDict(a) THEN Err ELSE b
      [] ~ IsFalsy(a) /\ IsFalsy(b) -> a
      [] ~ IsFalsy(a) /\ ~ IsFalsy(b) /\ ~ (IsDict(a) /\ IsDict(b)) -> b
      [] OTHER ->
            LET merged == [ k \in DOMAIN a.dict \cup DOMAIN b.dict |->
                              IF k \notin DOMAIN a.dict THEN b.dict[k]
                              ELSE IF k \notin DOMAIN b.dict THEN a.dict[k]
                              ELSE DeepMerge(a.dict[k], b.dict[k], noCopy) ]
            IN  IF \E k \in DOMAIN merged : merged[k] = Err THEN Err ELSE [dict |-> merged]
-----------------------------------------------------------------------------
(***************************************************************************)
(* parse_import_node.  files[f] is [own, imports]: a dict and the files it *)
(* imports, in order.  A file is imported once; what it says (with what it *)
(* imports) is overridden by the importer so far.                          *)
(***************************************************************************)
RECURSIVE ParseImport(_, _, _)
ParseImport(files, f, imported) ==
    LET step(s, g) ==
            IF g \in s.imported THEN s
            ELSE LET sub == ParseImport(files, g, s.imported \cup {g})
                 IN  [ obj |-> IF sub.obj = Err \/ s.obj = Err THEN Err ELSE DeepMerge(sub.obj, s.obj, TRUE),
                       imported |-> sub.imported,
                       loaded |-> s.loaded \o sub.loaded ]
    IN  FoldLeft(step, [obj |-> files[f].own, imported |-> imported, loaded |-> <<f>>],
                 files[f].imports)
-----------------------------------------------------------------------------
(***************************************************************************)
(* parse_configs_node.  The configs are a heap of dicts: heap[n] maps a    *)
(* key to a plain value or to the name of another dict, so a sub-dict that *)
(* is inherited is shared, as in the code.  ext[n] is what __extend__ of n *)
(* still says (paths), cond[n] the option __if__ chooses, templ[n] what    *)
(* __template__ says (key to path), plain the dicts under __plain__, err   *)
(* whether a template named no key (ValueError).                           *)
(***************************************************************************)
NodesOf(st) == DOMAIN st.heap

(* dict_safe_get(configs, path), None where there is nothing.              *)
ConfigAt(st, path) ==
    FoldLeft(LAMBDA n, k : IF n \in NodesOf(st) /\ k \in DOMAIN st.heap[n]
                           THEN st.heap[n][k] ELSE None,
             "root", path)

(* parse_syntax_template: sets its keys in place, and is popped.           *)
ParseTemplate(st, n) ==
    LET vals == [k \in DOMAIN st.templ[n] |-> ConfigAt(st, st.templ[n][k])]
    IN  [st EXCEPT !.heap[n] = vals @@ @,
                   !.templ[n] = NoOpts,
                   !.err = @ \/ \E k \in DOMAIN vals : vals[k] = None]

(* parse_syntax_if: the chosen option overrides the node.                  *)
ParseIf(st, n) == [st EXCEPT !.heap[n] = st.cond[n] @@ @, !.cond[n] = NoOpts]

ExtendUnparsed(st, n, path) ==   \* a fault: without __before_extend_merge
    FoldLeft(LAMBDA s, p : IF ConfigAt(s, p) \in NodesOf(s)
                           THEN [s EXCEPT !.heap[n] = @ @@ s.heap[ConfigAt(s, p)]] ELSE s,
             [st EXCEPT !.ext[n] = <<>>], st.ext[n])

RECURSIVE DeepParse(_, _, _)

(* parse_syntax_extend: for each path in order, once what it names is      *)
(* parsed, the keys the node lacks.                                        *)
ParseExtend(st, n, path) ==
    LET inherit(s, p) ==
            LET target == ConfigAt(s, p)
                ready  == IF p \in s.parsed THEN s ELSE DeepParse(s, target, p)
            IN  IF target \in NodesOf(s) THEN [ready EXCEPT !.heap[n] = @ @@ ready.heap[target]] ELSE s
    IN  FoldLeft(inherit, [st EXCEPT !.ext[n] = <<>>], st.ext[n])

(* __deep_parse: the node itself, then the dicts below it.                 *)
DeepParse(st, n, path) ==
    LET own  == ParseTemplate(ParseIf(ParseTemplate(st, n), n), n)
        full == LET e == ParseExtend(own, n, path) IN [e EXCEPT !.parsed = @ \cup {path}]
        down(s, k) == IF s.heap[n][k] \in NodesOf(s) THEN DeepParse(s, s.heap[n][k], Append(path, k)) ELSE s
    IN  IF n \in st.plain THEN [st EXCEPT !.plain = @ \ {n}]
        ELSE FoldLeft(down, full, SetToSeq(DOMAIN full.heap[n]))

ParseConfigs(st) == DeepParse(st, "root", <<>>)
=============================================================================
