----------------------------- MODULE StateFile ------------------------------
(***************************************************************************)
(* auto_tasks/tools/t_statefile.py: a task tree whose root task extracts   *)
(* items in order and passes them to start; workers in between handle them *)
(* in any order; end keeps a file from which the next execution resumes.   *)
(* start and end run in different processes and share a list of the        *)
(* context store.  An execution may be killed at any point.                *)
(***************************************************************************)
EXTENDS Integers, Sequences

CONSTANTS
    NItems,      \* the items to handle are 1..NItems, in the order of their ids
    SaveStep,    \* save_step of end
    MaxRuns      \* executions of the tree

None == 0
Torn == [last |-> -1, doing |-> {}]      \* opened for writing, nothing written
NoFile == [last |-> None, doing |-> {}]  \* reading it gives an empty state_dict

ASSUME StateFileAssumption == NItems \in Nat /\ SaveStep \in Nat \ {0} /\ MaxRuns \in Nat \ {0}

VARIABLES
    file,        \* the file's state_dict
    runs, run,   \* executions begun; "on", "over" or "failed"
    todo,        \* the items extract has still to yield, in the order of their ids
    idKeys,      \* start has put item_id_keys in the context state
    doing_list,  \* the shared list
    flowing,     \* items between start and end
    startPc,     \* where start stands with the first of todo
    endPc,       \* where end stands
    endKeys,     \* what ctx_state.wait('item_id_keys') gave to end
    done,        \* the item end handles
    doing_set, last, received,  \* locals of end
    ended        \* history: the items end has received, over all executions

startVars == <<todo, idKeys, startPc>>
endVars == <<endPc, endKeys, done, doing_set, last, received, ended>>
vars == <<file, runs, run, startVars, doing_list, flowing, endVars>>

\* read: what extract has to yield for the state_dict.  No item of doing is
\* beyond last, so in the order of their ids, which start and end rely on
\* (t_statefile.py:53, 142), those of doing come first.
Resume(f) == f.doing \union (f.last + 1 .. NItems)
IsFirst(x) == x \in todo /\ \A y \in todo : x <= y

Start0(f) ==
    /\ todo' = Resume(f) /\ idKeys' = FALSE /\ startPc' = "set"
    /\ doing_list' = <<>> /\ flowing' = {}
    /\ endPc' = "wait" /\ endKeys' = FALSE /\ done' = None
    /\ doing_set' = {} /\ last' = None /\ received' = 0

Init ==
    /\ file = NoFile /\ runs = 1 /\ run = "on"
    /\ todo = Resume(NoFile) /\ idKeys = FALSE /\ startPc = "set"
    /\ doing_list = <<>> /\ flowing = {}
    /\ endPc = "wait" /\ endKeys = FALSE /\ done = None
    /\ doing_set = {} /\ last = None /\ received = 0 /\ ended = {}

-----------------------------------------------------------------------------
(* start *)

SetIdKeys ==
    /\ run = "on" /\ startPc = "set" /\ idKeys' = TRUE /\ startPc' = "next"
    /\ UNCHANGED <<file, runs, run, todo, doing_list, flowing, endVars>>

\* doing_list.append(val), then the item is yielded and sent.
ListItem(x) ==
    /\ run = "on" /\ startPc = "next" /\ IsFirst(x) /\ startPc' = "send"
    /\ doing_list' = Append(doing_list, x)
    /\ UNCHANGED <<file, runs, run, todo, idKeys, flowing, endVars>>

SendItem(x) ==
    /\ run = "on" /\ startPc = "send" /\ IsFirst(x) /\ startPc' = "next"
    /\ flowing' = flowing \union {x} /\ todo' = todo \ {x}
    /\ UNCHANGED <<file, runs, run, idKeys, doing_list, endVars>>

-----------------------------------------------------------------------------
(* end *)

\* ctx_state.wait with a single key returns at once, whether the key is there
\* or not (store.py:55-58, 129-134).
WaitIdKeys ==
    /\ run = "on" /\ endPc = "wait" /\ endKeys' = idKeys /\ endPc' = "recv"
    /\ UNCHANGED <<file, runs, run, startVars, doing_list, flowing, done, doing_set, last,
                   received, ended>>

\* The next item, in any order; without item_id_keys its key cannot be built.
EndReceive(x) ==
    /\ run = "on" /\ endPc = "recv" /\ x \in flowing
    /\ flowing' = flowing \ {x}
    /\ IF ~ endKeys
       THEN run' = "failed" /\ UNCHANGED <<endPc, done, doing_set, received, ended>>
       ELSE /\ done' = x /\ ended' = ended \union {x} /\ received' = received + 1
            /\ endPc' = IF x \in doing_set THEN "step" ELSE "pop"
            /\ doing_set' = doing_set \ {x} /\ UNCHANGED run
    /\ UNCHANGED <<file, runs, startVars, doing_list, endKeys, last>>

\* A fault: the items passed over are not kept.
PopForgets ==
    /\ run = "on" /\ endPc = "pop" /\ doing_list # <<>>
    /\ doing_list' = Tail(doing_list) /\ last' = Head(doing_list)
    /\ endPc' = IF Head(doing_list) = done THEN "step" ELSE "pop"
    /\ UNCHANGED <<file, runs, run, startVars, flowing, endKeys, done, doing_set, received, ended>>

\* One turn of the loop over doing_list.pop(0); IndexError leaves it.
Pop ==
    /\ run = "on" /\ endPc = "pop"
    /\ IF doing_list = <<>>
       THEN endPc' = "step" /\ UNCHANGED <<doing_list, last, doing_set>>
       ELSE LET doing == Head(doing_list) IN
            /\ doing_list' = Tail(doing_list) /\ last' = doing
            /\ doing_set' = IF doing = done THEN doing_set ELSE doing_set \union {doing}
            /\ endPc' = IF doing = done THEN "step" ELSE "pop"
    /\ UNCHANGED <<file, runs, run, startVars, flowing, endKeys, done, received, ended>>

StepDone ==
    /\ run = "on" /\ endPc = "step"
    /\ endPc' = IF received % SaveStep = 0 THEN "open" ELSE "recv"
    /\ UNCHANGED <<file, runs, run, startVars, doing_list, flowing, endKeys, done, doing_set,
                   last, received, ended>>

\* A fault: nothing is saved after the loop.
ItemsOverUnsaved ==
    /\ run = "on" /\ endPc = "recv" /\ todo = {} /\ startPc = "next" /\ flowing = {}
    /\ endPc' = "over" /\ run' = "over"
    /\ UNCHANGED <<file, runs, startVars, doing_list, flowing, endKeys, done, doing_set,
                   last, received, ended>>

\* start has returned and every item has come: the loop of end is over.
ItemsOver ==
    /\ run = "on" /\ endPc = "recv" /\ todo = {} /\ startPc = "next" /\ flowing = {}
    /\ endPc' = "open_last"
    /\ UNCHANGED <<file, runs, run, startVars, doing_list, flowing, endKeys, done, doing_set,
                   last, received, ended>>

\* _save_statefile: open(..., 'w') truncates the file, then it is written.
SaveOpen ==
    /\ run = "on" /\ endPc \in {"open", "open_last"}
    /\ file' = Torn /\ endPc' = IF endPc = "open" THEN "write" ELSE "write_last"
    /\ UNCHANGED <<runs, run, startVars, doing_list, flowing, endKeys, done, doing_set, last,
                   received, ended>>

SaveWrite ==
    /\ run = "on" /\ endPc \in {"write", "write_last"}
    /\ file' = [last |-> last, doing |-> doing_set]
    /\ IF endPc = "write" THEN endPc' = "recv" /\ UNCHANGED run
                          ELSE endPc' = "over" /\ run' = "over"
    /\ UNCHANGED <<runs, startVars, doing_list, flowing, endKeys, done, doing_set, last,
                   received, ended>>

-----------------------------------------------------------------------------
\* The tree is killed, at any point.
Killed ==
    /\ run = "on" /\ run' = "failed"
    /\ UNCHANGED <<file, runs, startVars, doing_list, flowing, endVars>>

\* The next execution: read loads the file; json.load raises on a torn one.
NextRun ==
    /\ run # "on" /\ runs < MaxRuns /\ runs' = runs + 1
    /\ IF file = Torn
       THEN run' = "failed" /\ UNCHANGED <<startVars, doing_list, flowing, endPc, endKeys, done,
                                           doing_set, last, received>>
       ELSE run' = "on" /\ Start0(file)
    /\ UNCHANGED <<file, ended>>

Next == \/ SetIdKeys \/ (\E x \in todo : ListItem(x) \/ SendItem(x))
        \/ WaitIdKeys \/ (\E x \in flowing : EndReceive(x)) \/ Pop \/ StepDone
        \/ ItemsOver \/ SaveOpen \/ SaveWrite
        \/ Killed \/ NextRun

Spec == Init /\ [][Next]_vars
-----------------------------------------------------------------------------
(* Properties. *)

TypeOK ==
    /\ runs \in 1..MaxRuns /\ run \in {"on", "over", "failed"}
    /\ file = Torn \/ (file.last \in 0..NItems /\ file.doing \subseteq 1..NItems)
    /\ doing_set \subseteq 1..NItems /\ last \in 0..NItems /\ done \in 0..NItems
    /\ todo \subseteq 1..NItems /\ flowing \subseteq 1..NItems /\ ended \subseteq 1..NItems
    /\ doing_list \in Seq(1..NItems) /\ received \in Nat
    /\ idKeys \in BOOLEAN /\ endKeys \in BOOLEAN /\ startPc \in {"set", "next", "send"}
    /\ endPc \in {"wait", "recv", "pop", "step", "open", "write", "open_last", "write_last", "over"}

\* The file can be resumed from at any moment: an item up to last that is not in
\* doing has been handled, in this execution or an earlier one, whatever the
\* order the items came in and wherever the executions were killed
\* (t_statefile.py:16-18, 130-150).  (The types are part of it.)
SafeToResume ==
    TypeOK /\ (file # Torn => \A x \in 1..file.last : x \in file.doing \/ x \in ended)

\* An execution that completes leaves no item unhandled, whatever happened to
\* the executions before it, and nothing in doing (t_statefile.py:94-97).
CompleteRunHandlesAll ==
    run = "over" => ended = 1..NItems /\ file.doing = {}
=============================================================================
