-------------------------------- MODULE Dag --------------------------------
(***************************************************************************)
(* smart/utils/dag.py: sorting a list of keys along its dependences, and   *)
(* the search for a cycle.  A dependence is a pair <<prev, next>>.         *)
(*                                                                         *)
(* The code walks the dependences of a key in the order of a Python set,   *)
(* which is any order: SetToSeq picks one.  dag_sort gives every item a    *)
(* sort key, a tuple of positions, and sorts by it.                        *)
(***************************************************************************)
EXTENDS Naturals, Sequences, SequencesExt

(* Python's order of tuples: a proper prefix first, else the first         *)
(* difference decides.                                                     *)
TupleLess(s, t) ==
    \/ IsStrictPrefix(s, t)
    \/ \E i \in DOMAIN s \cap DOMAIN t :
          s[i] < t[i] /\ \A j \in 1 .. i - 1 : s[j] = t[j]

AnyTuple(S) ==   \* a fault: the key of some previous item instead of the largest
    IF S = {} THEN <<>> ELSE CHOOSE s \in S : TRUE

LargestTuple(S) ==
    IF S = {} THEN <<>> ELSE CHOOSE s \in S : \A t \in S : t = s \/ TupleLess(t, s)

(* __set_sort_key: [keys, cycle] after the item at position i has its key; *)
(* chain is the set of positions the recursion came through.  A set key is *)
(* never empty, and is not computed again.                                 *)
RECURSIVE SetSortKey(_, _, _, _, _, _)
SetSortKey(items, deps, raiseErr, st, i, chain) ==
    LET prevs == { j \in DOMAIN items : j # i /\ <<items[j], items[i]>> \in deps }
        below == chain \cup {i}
        visit(s, j) == SetSortKey(items, deps, raiseErr, s, j, below)
        done  == FoldLeft(visit, st, SetToSeq(prevs \ below))
        best  == LargestTuple({ done.keys[j] : j \in prevs \ below })
    IN  CASE st.cycle \/ st.keys[i] # <<>>          -> st
          [] raiseErr /\ prevs \cap below # {}      -> [st EXCEPT !.cycle = TRUE]
          [] done.cycle                             -> done
          [] OTHER -> [done EXCEPT !.keys[i] = Append(best, i)]

(* dag_sort: the sorted items, and whether DagCycleErr was raised.         *)
DagSort(items, deps, raiseErr) ==
    LET start == [keys |-> [i \in DOMAIN items |-> <<>>], cycle |-> FALSE]
        setKey(s, i) == SetSortKey(items, deps, raiseErr, s, i, {})
        end   == FoldLeft(setKey, start, [i \in DOMAIN items |-> i])
        order == SetToSortSeq(DOMAIN items, LAMBDA i, j : TupleLess(end.keys[i], end.keys[j]))
    IN  CASE items = <<>> \/ deps = {} -> [sorted |-> items, cycle |-> FALSE]
          [] end.cycle                 -> [sorted |-> <<>>, cycle |-> TRUE]
          [] OTHER -> [sorted |-> [n \in DOMAIN items |-> items[order[n]]], cycle |-> FALSE]

(* DagItemsTool.get_dependance_set: from the items' `prev' and `next'. The *)
(* code iterates over either value, so a string counts letter by letter:   *)
(* prevKeys[k] is the set of keys that iteration yields.                   *)
DependanceSet(keys, prevKeys, nextKeys) ==
    UNION { { <<p, k>> : p \in prevKeys[k] } \cup { <<k, n>> : n \in nextKeys[k] } : k \in keys }

(* dag_find_cycle.find_cycle: the cycles the search may report from curr,  *)
(* first key repeated at the end; none when the set is empty.              *)
RECURSIVE CyclesFrom(_, _, _)
CyclesFrom(deps, curr, chain) ==
    LET back(dep) == SelectInSeq(chain, LAMBDA k : k = dep)
    IN  UNION { IF back(d[1]) # 0
                THEN { Reverse(SubSeq(chain, back(d[1]), Len(chain)) \o <<curr, d[1]>>) }
                ELSE CyclesFrom(deps, d[1], Append(chain, curr))
                : d \in { d \in deps : d[2] = curr } }

FindCycle(deps) == UNION { CyclesFrom(deps, d[2], <<>>) : d \in deps }
=============================================================================
