------------------------------ MODULE Batches ------------------------------
(***************************************************************************)
(* Items in batches, groups, columns and counts: smart/utils/batch,        *)
(* auto/pip/QueuePipItemRecv.py, utils/item.py and smart/evals/core.       *)
(***************************************************************************)
EXTENDS Integers, Sequences, SequencesExt, FiniteSets, FiniteSetsExt, Functions

CONSTANTS None,  \* no value
          Gap,   \* queue.Empty: no item within the timeout
          End    \* the end command (QueueItemRecv), or the end of the pip

RecvKeepsOpen(s, e, size) ==   \* a fault: Empty at the end of the queue yields nothing
    CASE e = End \/ (e = Gap /\ s.batch = <<>>) -> s
      [] e = Gap /\ s.batch # <<>> -> [out |-> Append(s.out, s.batch), batch |-> <<>>]
      [] OTHER -> IF Len(s.batch) + 1 >= size
                  THEN [out |-> Append(s.out, Append(s.batch, e)), batch |-> <<>>]
                  ELSE [s EXCEPT !.batch = Append(@, e)]

(* BatchItemRecv.iter_fn with a timeout: what recv brings, in order, from  *)
(* the batch so far.  The first item of a batch is waited for without      *)
(* limit, so a gap does not occur there; the end raises Empty as a gap     *)
(* does, and the loop stops at isEnded.                                    *)
RecvStep(s, e, size) ==
    CASE e \in {Gap, End} /\ s.batch # <<>> -> [out |-> Append(s.out, s.batch), batch |-> <<>>]
      [] e \in {Gap, End} /\ s.batch = <<>> -> s
      [] OTHER -> IF Len(s.batch) + 1 >= size
                  THEN [out |-> Append(s.out, Append(s.batch, e)), batch |-> <<>>]
                  ELSE [s EXCEPT !.batch = Append(@, e)]

BatchItemRecv(events, size) ==
    LET ended == SelectInSeq(events, LAMBDA e : e = End)
        seen  == IF ended = 0 THEN events ELSE SubSeq(events, 1, ended)
    IN  FoldLeft(LAMBDA s, e : RecvStep(s, e, size), [out |-> <<>>, batch |-> <<>>], seen)

(* BatchItemIter.iter_fn: batches by position.                             *)
BatchItemIter(items, size) ==
    LET cut(s, i) == LET b == Append(s.batch, items[i])
                     IN  IF size < 2 \/ i % size = 0 THEN [out |-> Append(s.out, b), batch |-> <<>>]
                         ELSE [s EXCEPT !.batch = b]
        last == FoldLeft(cut, [out |-> <<>>, batch |-> <<>>], [i \in DOMAIN items |-> i])
    IN  IF last.batch = <<>> THEN last.out ELSE Append(last.out, last.batch)

(* BaseItemRecv.iter_fn: what the generator yields (None for a gap without *)
(* raise_empty) and whether it raised Empty, after which it is finished.   *)
ItemIter(events, raiseEmpty) ==
    LET step(s, e) ==
            CASE s.over -> s
              [] ~ s.over /\ e \in {Gap, End} ->
                    IF raiseEmpty THEN [s EXCEPT !.over = TRUE, !.raised = TRUE]
                    ELSE [s EXCEPT !.out = Append(@, None), !.over = e = End]
              [] OTHER -> [s EXCEPT !.out = Append(@, e)]
    IN  FoldLeft(step, [out |-> <<>>, over |-> FALSE, raised |-> FALSE], events)
-----------------------------------------------------------------------------
(***************************************************************************)
(* Grouping.  ItemGroupBy and ItemList.group: items under the key of each  *)
(* (its group key), keys in the order they are met.                        *)
(***************************************************************************)
KeyOrder(items) ==
    FoldLeft(LAMBDA s, it : IF Contains(s, it.key) THEN s ELSE Append(s, it.key), <<>>, items)

GroupBy(items) ==
    LET order == KeyOrder(items)
    IN  [ n \in DOMAIN order |-> <<order[n], SelectSeq(items, LAMBDA it : it.key = order[n])>> ]

(* ItemMergeFn: the parts of a group, [key, idx, count], come in any order *)
(* and are yielded together, by index, once `count' of them are there; the *)
(* groups left at the end as they are.  An item of a group of one is       *)
(* yielded at once.                                                        *)
ByIdx(parts) == LET order == SetToSortSeq(DOMAIN parts, <) IN [ n \in DOMAIN order |-> parts[order[n]] ]

MergeStep(s, it) ==
    LET held  == IF it.key \in DOMAIN s.held THEN s.held[it.key] ELSE << >>
        parts == [ i \in DOMAIN held \cup {it.idx} |-> IF i = it.idx THEN it ELSE held[i] ]
    IN  CASE it.count < 2 -> [s EXCEPT !.out = Append(@, <<it.key, <<it>>>>)]
          [] it.count >= 2 /\ Cardinality(DOMAIN parts) >= it.count ->
                [out  |-> Append(s.out, <<it.key, ByIdx(parts)>>),
                 held |-> Restrict(s.held, DOMAIN s.held \ {it.key})]
          [] OTHER -> [s EXCEPT !.held = [k \in DOMAIN @ \cup {it.key} |-> IF k = it.key THEN parts ELSE @[k]]]

MergeItems(items) ==
    LET end  == FoldLeft(MergeStep, [out |-> <<>>, held |-> << >>], items)
        left == SetToSeq(DOMAIN end.held)
    IN  end.out \o [ n \in DOMAIN left |-> <<left[n], ByIdx(end.held[left[n]])>> ]
-----------------------------------------------------------------------------
(***************************************************************************)
(* Evaluation (smart/evals/core).  ItemMatrix.join_items: the new column   *)
(* of each row holds the item (the last of its id) that matches the first  *)
(* non-empty column with a match; items no row matched become rows.  A row *)
(* is a sequence of ids or None, an item [id, n].                          *)
(***************************************************************************)
JoinItems(rows, items, width, columns) ==
    LET ids      == { items[i].id : i \in DOMAIN items }
        item(d)  == items[SelectLastInSeq(items, LAMBDA it : it.id = d)]
        match(r) == SelectInSeq(columns, LAMBDA c : c <= Len(r) /\ r[c] \in ids)
        padded(r) == r \o [ i \in 1 .. width - Len(r) |-> None ]
        matched  == { rows[i][columns[match(rows[i])]] : i \in { i \in DOMAIN rows : match(rows[i]) # 0 } }
        firsts   == SetToSortSeq({ i \in DOMAIN items : /\ items[i].id \notin matched
                                                        /\ \A j \in 1 .. i - 1 : items[j].id # items[i].id }, <)
    IN  [ n \in DOMAIN rows |-> Append(padded(rows[n]),
                                       IF match(rows[n]) = 0 THEN None
                                       ELSE item(rows[n][columns[match(rows[n])]])) ]
        \o [ n \in DOMAIN firsts |-> Append([ i \in 1 .. width |-> None ], item(items[firsts[n]].id)) ]

(* MultiLabelMatcher.measure_group: labels are compared as sorted lists,   *)
(* that is as sets (of labels written once); a wrong set is an FP only.    *)
Measure(golden, pred) ==
    CASE pred = {} /\ golden = {} -> "TN"
      [] pred = {} /\ golden # {} -> "FN"
      [] OTHER -> IF golden = pred THEN "TP" ELSE "FP"

(* calc_metrics_from_counter: each metric as <<numerator, denominator>>.   *)
Metrics(count) ==
    LET total == count["TP"] + count["TN"] + count["FP"] + count["FN"]
    IN  [ accuracy  |-> <<count["TP"] + count["TN"], total>>,
          precision |-> <<count["TP"], Max({count["TP"] + count["FP"], 1})>>,
          recall    |-> <<count["TP"], Max({count["TP"] + count["FN"], 1})>>,
          f1        |-> <<2 * count["TP"], Max({2 * count["TP"] + count["FP"] + count["FN"], 1})>> ]

(* AggregateView: sum, count, min, max folded value by value; mean is      *)
(* <<sum, count>>, None without values.                                    *)
Aggregate(values) ==
    LET add(s, v) == [ sum |-> s.sum + v, count |-> s.count + 1,
                       min |-> IF s.min = None THEN v ELSE Min({s.min, v}),
                       max |-> IF s.max = None THEN v ELSE Max({s.max, v}) ]
        end == FoldLeft(add, [sum |-> 0, count |-> 0, min |-> None, max |-> None], values)
    IN  [ sum |-> end.sum, count |-> end.count, min |-> end.min, max |-> end.max,
          mean |-> IF end.count = 0 THEN None ELSE <<end.sum, end.count>> ]
-----------------------------------------------------------------------------
(***************************************************************************)
(* utils/ratio.py and utils/serialize.py.                                  *)
(***************************************************************************)
(* Python's round of n / d: half goes to the even neighbour.               *)
RoundDiv(n, d) ==
    LET q == n \div d
        twice == 2 * (n % d)
    IN  IF twice > d \/ (twice = d /\ q % 2 = 1) THEN q + 1 ELSE q

(* ratio_split: rounded shares, what is left over or short at one place.   *)
(* (ratio_normalize divides first; the shares are taken exactly here.)     *)
RatioSplit(total, ratio, place) ==
    LET weight == FoldLeft(+, 0, ratio)
        share(i) == RoundDiv(ratio[i] * total, weight)
        sum == FoldLeftDomain(LAMBDA s, i : s + share(i), 0, ratio)
    IN  [ i \in DOMAIN ratio |-> IF i = place THEN share(i) + total - sum ELSE share(i) ]

(* TypeObjSerializer: bytes 0, length and name of the type, then the body; *)
(* without a type the body alone, whose first byte (text) is above 1.      *)
Encode(type, body) ==
    (IF type = None THEN <<>> ELSE <<0, Len(type)>> \o type) \o (IF body = None THEN <<>> ELSE body)

Decode(data) ==
    LET offset == IF data = <<>> THEN 0
                  ELSE IF data[1] > 1 THEN 0
                  ELSE IF data[1] = 1 THEN 3 ELSE 2   \* up to the length of the type
        typed  == IF offset = 0 THEN None ELSE SubSeq(data, offset + 1, offset + data[offset])
        body   == SubSeq(data, 1 + offset + (IF offset = 0 THEN 0 ELSE data[offset]), Len(data))
    IN  [ type |-> typed, body |-> IF body = <<>> THEN None ELSE body ]
=============================================================================
