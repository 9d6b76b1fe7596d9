----------------------------- MODULE TaskCalls -----------------------------
(***************************************************************************)
(* From a task expression to the calls of its functions: the expression    *)
(* (auto/parser/tools.py), the templates in its configs                    *)
(* (utils/template.py), the import of its class (utils/loader.py) and the  *)
(* chain of its functions (auto/exec/fn_chain.py).                         *)
(***************************************************************************)
EXTENDS TaskNames

(* Cut at every separator; `a~b' has two parts, `' has one.                *)
SplitOn(tokens, sep) ==
    FoldLeft(LAMBDA parts, t : IF t = sep THEN Append(parts, <<>>)
                               ELSE [parts EXCEPT ![Len(parts)] = Append(@, t)],
             << <<>> >>, tokens)

(* MethodArgsParser.split: the functions of an expression and the text in  *)
(* their parentheses; a function whose parenthesis stays open is dropped.  *)
SplitStep(s, t) ==
    CASE s.inArg /\ t = ")" -> [s EXCEPT !.inArg = FALSE]
      [] s.inArg /\ t # ")" -> [s EXCEPT !.arg = Append(@, t)]
      [] ~ s.inArg /\ t = "(" -> [s EXCEPT !.inArg = TRUE]
      [] ~ s.inArg /\ t = "," /\ s.func # <<>> ->
            [s EXCEPT !.out = Append(@, <<s.func, s.arg>>), !.func = <<>>, !.arg = <<>>]
      [] ~ s.inArg /\ t = "," /\ s.func = <<>> -> s
      [] OTHER -> [s EXCEPT !.func = Append(@, t)]

MethodArgs(tokens) ==
    LET s == FoldLeft(SplitStep, [inArg |-> FALSE, func |-> <<>>, arg |-> <<>>, out |-> <<>>], tokens)
    IN  IF ~ s.inArg /\ s.func # <<>> THEN Append(s.out, <<s.func, s.arg>>) ELSE s.out

(* MethodArgsParser.parse: the configs each function is bound to, those up *)
(* to the first comma; a function named twice has its last ones.           *)
ParseMethods(tokens) ==
    FoldLeft(LAMBDA m, f : (f[1] :> SelectSeq(SplitOn(f[2], ",")[1], LAMBDA t : t # "+")) @@ m,
             << >>, MethodArgs(tokens))

(* parse_task_exp: the task and the blocks of functions joined to it.      *)
ParseTaskExp(tokens) ==
    LET parts == SplitOn(tokens, "~")
        main  == MethodArgs(parts[1])
    IN  IF main = <<>> THEN Err
        ELSE [ key  |-> main[1][1],
               bind |-> ParseMethods(parts[1])[main[1][1]],
               join |-> [i \in 1 .. Len(parts) - 1 |-> ParseMethods(parts[i + 1])] ]

(* base_task_key: up to the first `~' and the first `(', unless that is    *)
(* the first character.                                                    *)
BaseTaskKey(tokens) ==
    LET first(c) == SelectInSeq(tokens, LAMBDA t : t = c)
        cut == { first(c) : c \in { c \in {"~", "("} : first(c) > 1 } }
    IN  IF cut = {} THEN tokens ELSE SubSeq(tokens, 1, Min(cut) - 1)
-----------------------------------------------------------------------------
(***************************************************************************)
(* NamespaceTemplate.  A template is a sequence of pieces: a text, or a    *)
(* variable [text, var, ns, key, default, brace, one]: ns the namespace    *)
(* written before `:', key a path as in TaskNames, brace for ${..}, one    *)
(* for a key of one character.  A mapping takes paths to values.           *)
(***************************************************************************)
(* The pattern asks for two characters between the braces: ${x} is text.   *)
IsVar(piece) == piece.var /\ (piece.brace /\ piece.ns = None => ~ piece.one)

(* The namespace of a variable that names none: default_ns_fn, where it is *)
(* given (relative), takes a relative key for one of a config.             *)
NsOf(piece, relative) ==
    CASE piece.ns # None -> piece.ns
      [] piece.ns = None /\ relative /\ piece.key.dots > 0 -> "config"
      [] OTHER -> None

(* __get_mapping_val: nothing above the root.                              *)
MappingVal(mapping, key, context) ==
    LET path == ResolveKeyPath(key, context)
    IN  IF path # None /\ path \in DOMAIN mapping THEN mapping[path] ELSE None

(* substitute: maps and contexts by namespace (None for the plain one);    *)
(* noHit is what no_hit_handler returns, None when there is none.          *)
PieceText(piece, maps, contexts, relative, noHit) ==
    LET ns    == NsOf(piece, relative)
        value == IF ns \in DOMAIN maps
                 THEN MappingVal(maps[ns], piece.key, IF ns \in DOMAIN contexts THEN contexts[ns] ELSE <<>>)
                 ELSE None
    IN  CASE ~ IsVar(piece)                                          -> piece.text
          [] IsVar(piece) /\ value # None                            -> value
          [] IsVar(piece) /\ value = None /\ piece.default # None    -> piece.default
          [] OTHER                                                   -> noHit

Substitute(template, maps, contexts, relative, noHit) ==
    LET out == [i \in DOMAIN template |-> PieceText(template[i], maps, contexts, relative, noHit)]
    IN  IF \E i \in DOMAIN out : out[i] = None THEN Err ELSE out

(* DictTemplateParser._parse_pattern_key: down to the depth given, a text  *)
(* under a pattern key moves, evaluated, to the key without its prefix.    *)
(* Keys are [pattern, name]; a value is "text", "other", "new" or a dict.  *)
RECURSIVE ParsePatternKey(_, _)
ParsePatternKey(dict, depth) ==
    LET moved == { k \in DOMAIN dict.at : k.pattern /\ dict.at[k] = [text |-> "text"] }
        kept  == [k \in DOMAIN dict.at \ moved |->
                    IF "at" \in DOMAIN dict.at[k] THEN ParsePatternKey(dict.at[k], depth - 1) ELSE dict.at[k]]
        named == [k \in { [m EXCEPT !.pattern = FALSE] : m \in moved } |-> [text |-> "new"]]
    IN  IF depth = 0 THEN dict ELSE [at |-> named @@ kept]
-----------------------------------------------------------------------------
(* dyn_import: modules as long as there are some, then attributes; it      *)
(* never tries a shorter module.  Paths in mods and attrs.                 *)
DynImport(path, mods, attrs) ==
    LET step(s, i) ==
            LET p == SubSeq(path, 1, i)
            IN  CASE s = Err                   -> s
                  [] s # Err /\ s.n = i - 1 /\ p \in mods -> [n |-> i, path |-> p]
                  [] OTHER                     -> IF <<p, s.n>> \in attrs THEN [s EXCEPT !.path = p] ELSE Err
    IN  IF path = <<>> THEN None ELSE IF <<path[1]>> \notin mods THEN Err
        ELSE FoldLeft(step, [n |-> 1, path |-> <<path[1]>>], [i \in 1 .. Len(path) - 1 |-> i + 1])
-----------------------------------------------------------------------------
(***************************************************************************)
(* FnChain.  A chain is a sequence of blocks of items                      *)
(* [id, type, takes, bind, gives]: the parameters of the function, those   *)
(* bound to it from configs and the keys of the dict it returns.  A state  *)
(* has the last result of every item, the calls so far, and block_rst and  *)
(* chain_rst; a value is <<item, run>>, or <<"bound", item>>.              *)
(***************************************************************************)
(* resolve_func_args: without varkw a function gets what it has parameters *)
(* for; what the chain brings overrides what is bound.                     *)
CallKwargs(item, kwargs) ==
    LET all == kwargs @@ [k \in item.bind |-> <<"bound", item.id>>]
    IN  RestrictDomain(all, LAMBDA k : k \in item.takes)

(* FnItem.call within FnBlock.run_block: an item the filter passes over    *)
(* still adds the result of its last call; a function that raises ends the *)
(* chain and leaves the results of before.  `how' is a run of the chain:   *)
(* its number, the type fn_filter lets through (run_hook: the hook;        *)
(* TaskPod.run_task: the task) and the item that raises in it.             *)
RunItem(s, item, how) ==
    LET runs   == item.type = how.type
        raises == runs /\ item.id = how.fails
        result == IF runs /\ ~ raises THEN [k \in item.gives |-> <<item.id, how.run>>] ELSE s.result[item.id]
        called == [id |-> item.id, run |-> how.run, kwargs |-> CallKwargs(item, s.chain)]
    IN  IF s.raised THEN s
        ELSE [s EXCEPT !.raised = raises, !.result[item.id] = result, !.block = result @@ @,
                       !.calls = IF runs THEN Append(@, called) ELSE @]

(* run_block and run_chain: the items of a block see the results of the    *)
(* blocks before it.                                                       *)
RunBlock(s, block, how) ==
    LET b == FoldLeft(LAMBDA r, item : RunItem(r, item, how), [s EXCEPT !.block = << >>], block)
    IN  [b EXCEPT !.chain = b.block @@ @]

RunChain(state, chain, how) ==
    FoldLeft(LAMBDA s, block : RunBlock(s, block, how),
             [state EXCEPT !.block = << >>, !.chain = << >>, !.raised = FALSE], chain)

(* What FnItem and FnChain start from.                                     *)
NewChain(ids) == [result |-> [i \in ids |-> << >>], calls |-> <<>>, block |-> << >>, chain |-> << >>, raised |-> FALSE]
=============================================================================
