-------------------------- MODULE StateFileProofs ----------------------------
(***************************************************************************)
(* The state file can be resumed from at any moment, and an execution that *)
(* completes leaves nothing unhandled, for any number of items, any        *)
(* save_step and any number of executions of StateFile.                    *)
(***************************************************************************)
EXTENDS StateFile, SequenceTheorems, TLAPS

(***************************************************************************)
(* The inductive invariant                                                 *)
(***************************************************************************)

Members(s) == {s[i] : i \in DOMAIN s}
Increasing(s) == \A i, j \in DOMAIN s : i < j => s[i] < s[j]

\* What start has listed and end has not met: the shared list and doing_set.
Listed == Members(doing_list) \union doing_set

\* What is between listing and end: sent, or the first of todo being sent.
UnderWay == flowing \union (IF startPc = "send" THEN {x \in todo : IsFirst(x)} ELSE {})

\* The file on disk.
FileOK ==
    file # Torn => /\ file.doing \subseteq 1 .. file.last
                   /\ \A x \in 1 .. file.last : x \in file.doing \/ x \in ended

\* No item is lost: each has been handled, flows, or is still to come.
NoneLost == 1 .. NItems \subseteq ended \union todo \union flowing /\ todo \intersect flowing = {}

\* The items listed are those under way, and while end looks for an item in
\* the list, that item.
ListedOK ==
    /\ Listed = UnderWay \union (IF endPc = "pop" THEN {done} ELSE {})
    /\ endPc = "pop" => /\ done \in Members(doing_list) /\ done \notin UnderWay
                        /\ done \in ended
    /\ Members(doing_list) \intersect doing_set = {}

\* start lists the items in order: what is listed is before what is to come.
OrderOK ==
    /\ Increasing(doing_list)
    /\ \A y \in Members(doing_list) : last < y
    /\ \A y \in Listed \union {last}, t \in todo : IF startPc = "send" THEN y <= t ELSE y < t
    /\ startPc = "send" => \E m \in todo : IsFirst(m) /\ m \in Listed

\* What a save would write can be resumed from.
SaveOK ==
    /\ doing_set \subseteq 1 .. last
    /\ \A x \in 1 .. last : x \in doing_set \/ x \in ended

\* At the last save everything has been listed, sent and received.
LastOK ==
    endPc \in {"open_last", "write_last"} =>
        todo = {} /\ flowing = {} /\ startPc = "next"

RunOK == run = "on" => NoneLost /\ ListedOK /\ OrderOK /\ SaveOK /\ LastOK

IInv == TypeOK /\ FileOK /\ CompleteRunHandlesAll /\ RunOK

(***************************************************************************)
(* Increasing sequences                                                    *)
(***************************************************************************)

\* Appending a larger number.
LEMMA AppendIncreasing ==
  ASSUME NEW s \in Seq(1 .. NItems), NEW x \in 1 .. NItems
  PROVE  /\ Append(s, x) \in Seq(1 .. NItems)
         /\ Members(Append(s, x)) = Members(s) \union {x}
         /\ Increasing(s) /\ (\A y \in Members(s) : y < x) => Increasing(Append(s, x))
<1>1. /\ Append(s, x) \in Seq(1 .. NItems) /\ Len(Append(s, x)) = Len(s) + 1
      /\ \A i \in 1 .. Len(s) : Append(s, x)[i] = s[i]
      /\ Append(s, x)[Len(s) + 1] = x
  BY AppendProperties
<1>2. Len(s) \in Nat /\ DOMAIN s = 1 .. Len(s) /\ DOMAIN Append(s, x) = 1 .. (Len(s) + 1)
  BY <1>1, LenProperties
<1>3. Members(Append(s, x)) = Members(s) \union {x}
  <2>1. Members(Append(s, x)) \subseteq Members(s) \union {x}
    BY <1>1, <1>2 DEF Members
  <2>2. Members(s) \union {x} \subseteq Members(Append(s, x))
    BY <1>1, <1>2 DEF Members
  <2> QED
    BY <2>1, <2>2
<1>4. ASSUME Increasing(s), \A y \in Members(s) : y < x
      PROVE  Increasing(Append(s, x))
  <2> SUFFICES ASSUME NEW i \in 1 .. (Len(s) + 1), NEW j \in 1 .. (Len(s) + 1), i < j
               PROVE  Append(s, x)[i] < Append(s, x)[j]
    BY <1>2 DEF Increasing
  <2>1. i \in 1 .. Len(s) /\ Append(s, x)[i] = s[i] /\ s[i] \in Members(s)
    BY <1>1, <1>2 DEF Members
  <2>2. CASE j = Len(s) + 1
    BY <1>1, <1>4, <2>1, <2>2
  <2>3. CASE j \in 1 .. Len(s)
    BY <1>1, <1>2, <1>4, <2>1, <2>3 DEF Increasing
  <2> QED
    BY <1>2, <2>2, <2>3
<1> QED
  BY <1>1, <1>3, <1>4

\* Taking the first, the smallest.
LEMMA HeadIsSmallest ==
  ASSUME NEW s \in Seq(1 .. NItems), s # <<>>, Increasing(s)
  PROVE  /\ Head(s) \in 1 .. NItems /\ Tail(s) \in Seq(1 .. NItems)
         /\ Members(s) = {Head(s)} \union Members(Tail(s))
         /\ \A y \in Members(Tail(s)) : Head(s) < y
         /\ Increasing(Tail(s))
<1>1. /\ Head(s) = s[1] /\ Head(s) \in 1 .. NItems /\ Tail(s) \in Seq(1 .. NItems)
      /\ Len(Tail(s)) = Len(s) - 1 /\ \A i \in 1 .. Len(Tail(s)) : Tail(s)[i] = s[i + 1]
  <2>1. /\ Head(s) \in 1 .. NItems /\ Tail(s) \in Seq(1 .. NItems)
        /\ Len(Tail(s)) = Len(s) - 1 /\ \A i \in 1 .. Len(Tail(s)) : Tail(s)[i] = s[i + 1]
    BY HeadTailProperties
  <2>2. Head(s) = s[1]
    OBVIOUS
  <2> QED
    BY <2>1, <2>2
<1>2. Len(s) \in Nat \ {0} /\ DOMAIN s = 1 .. Len(s) /\ DOMAIN Tail(s) = 1 .. (Len(s) - 1)
  BY <1>1, LenProperties, EmptySeq
<1>3. Members(s) = {Head(s)} \union Members(Tail(s))
  <2>1. ASSUME NEW i \in 1 .. Len(s)
        PROVE  s[i] \in {Head(s)} \union Members(Tail(s))
    <3>1. CASE i = 1
      BY <1>1, <3>1
    <3>2. CASE i # 1
      <4>1. i - 1 \in 1 .. (Len(s) - 1) /\ Tail(s)[i - 1] = s[i]
        BY <1>1, <1>2, <3>2
      <4> QED
        BY <1>2, <4>1 DEF Members
    <3> QED
      BY <3>1, <3>2
  <2>2. ASSUME NEW i \in 1 .. (Len(s) - 1)
        PROVE  Tail(s)[i] \in Members(s)
    <3>1. i + 1 \in 1 .. Len(s) /\ Tail(s)[i] = s[i + 1]
      BY <1>1, <1>2
    <3> QED
      BY <1>2, <3>1 DEF Members
  <2>3. Head(s) \in Members(s)
    BY <1>1, <1>2 DEF Members
  <2> QED
    BY <1>2, <2>1, <2>2, <2>3 DEF Members
<1>4. ASSUME NEW i \in 1 .. (Len(s) - 1)
      PROVE  Head(s) < Tail(s)[i]
  <2>1. i + 1 \in DOMAIN s /\ 1 \in DOMAIN s /\ 1 < i + 1 /\ Tail(s)[i] = s[i + 1]
    BY <1>1, <1>2
  <2> QED
    BY <1>1, <2>1 DEF Increasing
<1>5. Increasing(Tail(s))
  <2> SUFFICES ASSUME NEW i \in 1 .. (Len(s) - 1), NEW j \in 1 .. (Len(s) - 1), i < j
               PROVE  Tail(s)[i] < Tail(s)[j]
    BY <1>2 DEF Increasing
  <2>1. /\ i + 1 \in DOMAIN s /\ j + 1 \in DOMAIN s /\ i + 1 < j + 1
        /\ Tail(s)[i] = s[i + 1] /\ Tail(s)[j] = s[j + 1]
    BY <1>1, <1>2
  <2> QED
    BY <2>1 DEF Increasing
<1> QED
  BY <1>1, <1>2, <1>3, <1>4, <1>5 DEF Members

\* The shared list holds items, and an empty one holds none.
LEMMA MembersAreItems ==
  ASSUME NEW s \in Seq(1 .. NItems)
  PROVE  Members(s) \subseteq 1 .. NItems /\ (Members(s) = {} <=> s = <<>>)
<1>1. Len(s) \in Nat /\ DOMAIN s = 1 .. Len(s) /\ \A i \in 1 .. Len(s) : s[i] \in 1 .. NItems
  BY LenProperties, ElementOfSeq
<1>2. s # <<>> => s[1] \in Members(s)
  BY <1>1, EmptySeq DEF Members
<1>3. Members(<<>>) = {}
  BY DEF Members
<1> QED
  BY <1>1, <1>2, <1>3 DEF Members

(***************************************************************************)
(* The types                                                               *)
(***************************************************************************)

\* Every step keeps the types.
LEMMA TypeStep ==
  ASSUME TypeOK, FileOK, [Next]_vars
  PROVE  TypeOK'
<1> USE StateFileAssumption
<1>1. CASE UNCHANGED vars
  BY <1>1 DEF vars, startVars, endVars, TypeOK
<1>2. CASE SetIdKeys
  BY <1>2 DEF SetIdKeys, endVars, TypeOK
<1>3. ASSUME NEW x \in todo, ListItem(x)
      PROVE  TypeOK'
  <2>1. doing_list' \in Seq(1 .. NItems)
    BY <1>3, AppendIncreasing DEF ListItem, TypeOK
  <2> QED
    BY <1>3, <2>1 DEF ListItem, endVars, TypeOK
<1>4. ASSUME NEW x \in todo, SendItem(x)
      PROVE  TypeOK'
  BY <1>4 DEF SendItem, endVars, TypeOK
<1>5. CASE WaitIdKeys
  BY <1>5 DEF WaitIdKeys, startVars, TypeOK
<1>6. ASSUME NEW x \in flowing, EndReceive(x)
      PROVE  TypeOK'
  <2>1. CASE ~ endKeys
    BY <1>6, <2>1 DEF EndReceive, startVars, TypeOK
  <2>2. CASE endKeys
    <3>1. /\ endPc' \in {"pop", "step"} /\ doing_set' = doing_set \ {x} /\ done' = x
          /\ ended' = ended \union {x} /\ received' = received + 1 /\ flowing' = flowing \ {x}
          /\ UNCHANGED <<run, file, runs, startVars, doing_list, endKeys, last>>
      BY <1>6, <2>2 DEF EndReceive
    <3> QED
      BY <3>1 DEF startVars, TypeOK
  <2> QED
    BY <2>1, <2>2
<1>7. CASE Pop
  <2>1. CASE doing_list = <<>>
    BY <1>7, <2>1 DEF Pop, startVars, TypeOK
  <2>2. CASE doing_list # <<>>
    <3>1. Head(doing_list) \in 1 .. NItems /\ Tail(doing_list) \in Seq(1 .. NItems)
      BY <2>2, HeadTailProperties DEF TypeOK
    <3>2. /\ doing_list' = Tail(doing_list) /\ last' = Head(doing_list)
          /\ doing_set' \subseteq doing_set \union {Head(doing_list)} /\ endPc' \in {"pop", "step"}
          /\ UNCHANGED <<file, runs, run, startVars, flowing, endKeys, done, received, ended>>
      BY <1>7, <2>2 DEF Pop
    <3> QED
      BY <1>7, <2>2, <3>1, <3>2 DEF startVars, TypeOK
  <2> QED
    BY <2>1, <2>2
<1>8. CASE StepDone
  BY <1>8 DEF StepDone, startVars, TypeOK
<1>9. CASE ItemsOver
  BY <1>9 DEF ItemsOver, startVars, TypeOK
<1>10. CASE SaveOpen
  BY <1>10 DEF SaveOpen, startVars, TypeOK
<1>11. CASE SaveWrite
  BY <1>11 DEF SaveWrite, startVars, TypeOK
<1>12. CASE Killed
  BY <1>12 DEF Killed, startVars, endVars, TypeOK
<1>13. CASE NextRun
  <2>1. runs' \in 1 .. MaxRuns /\ UNCHANGED <<file, ended>>
    BY <1>13 DEF NextRun, TypeOK
  <2>2. CASE file = Torn
    BY <1>13, <2>1, <2>2 DEF NextRun, startVars, TypeOK
  <2>3. CASE file # Torn
    <3>1. run' = "on" /\ Start0(file)
      BY <1>13, <2>3 DEF NextRun
    <3>2. Resume(file) \subseteq 1 .. NItems
      BY <2>3 DEF TypeOK, Resume
    <3>3. <<>> \in Seq(1 .. NItems)
      BY EmptySeq
    <3>4. /\ todo' = Resume(file) /\ idKeys' = FALSE /\ startPc' = "set" /\ doing_list' = <<>>
          /\ flowing' = {} /\ endPc' = "wait" /\ endKeys' = FALSE /\ done' = 0
          /\ doing_set' = {} /\ last' = 0 /\ received' = 0
      BY <3>1 DEF Start0, None
    <3> QED
      <4>1. file' = Torn \/ (file'.last \in 0 .. NItems /\ file'.doing \subseteq 1 .. NItems)
        BY <2>1 DEF TypeOK
      <4>2. /\ doing_set' \subseteq 1 .. NItems /\ last' \in 0 .. NItems /\ done' \in 0 .. NItems
            /\ todo' \subseteq 1 .. NItems /\ flowing' \subseteq 1 .. NItems
        BY <3>2, <3>4
      <4>3. ended' \subseteq 1 .. NItems /\ doing_list' \in Seq(1 .. NItems) /\ received' \in Nat
        BY <2>1, <3>3, <3>4 DEF TypeOK
      <4> QED
        BY <2>1, <3>1, <3>4, <4>1, <4>2, <4>3 DEF TypeOK
  <2> QED
    BY <2>2, <2>3
<1> QED
  BY <1>1, <1>2, <1>3, <1>4, <1>5, <1>6, <1>7, <1>8, <1>9, <1>10, <1>11, <1>12, <1>13 DEF Next

(***************************************************************************)
(* The file                                                                *)
(***************************************************************************)

\* A file that is whole says no more than what was handled when it was saved.
LEMMA FileStep ==
  ASSUME IInv, [Next]_vars
  PROVE  FileOK'
<1>1. CASE UNCHANGED file /\ ended \subseteq ended'
  BY <1>1 DEF IInv, FileOK
<1>2. CASE SaveOpen
  BY <1>2 DEF SaveOpen, FileOK
<1>3. CASE SaveWrite
  <2>1. SaveOK /\ file' = [last |-> last, doing |-> doing_set] /\ ended' = ended
    BY <1>3 DEF SaveWrite, IInv, RunOK
  <2>2. file'.last = last /\ file'.doing = doing_set
    BY <2>1
  <2> QED
    BY <2>1, <2>2 DEF FileOK, SaveOK
<1>4. ASSUME NEW x \in flowing, EndReceive(x)
      PROVE  UNCHANGED file /\ ended \subseteq ended'
  BY <1>4 DEF EndReceive
<1>5. CASE \/ UNCHANGED vars \/ SetIdKeys \/ (\E x \in todo : ListItem(x) \/ SendItem(x))
           \/ WaitIdKeys \/ Pop \/ StepDone \/ ItemsOver \/ Killed \/ NextRun
  <2>1. UNCHANGED <<file, ended>>
    BY <1>5 DEF vars, endVars, SetIdKeys, ListItem, SendItem, WaitIdKeys, Pop, StepDone, ItemsOver,
                Killed, NextRun
  <2> QED
    BY <1>1, <2>1
<1> QED
  BY <1>1, <1>2, <1>3, <1>4, <1>5 DEF Next

\* When nothing is left to send, everything has been handled and nothing waits.
LEMMA NothingLeft ==
  ASSUME TypeOK, NoneLost, ListedOK, todo = {}, flowing = {}, startPc = "next", endPc # "pop"
  PROVE  ended = 1 .. NItems /\ doing_set = {}
<1>1. ended = 1 .. NItems
  BY DEF TypeOK, NoneLost
<1>2. Listed = {}
  BY DEF ListedOK, UnderWay
<1> QED
  BY <1>1, <1>2 DEF Listed

\* An execution is over only after its last save.
LEMMA CompleteStep ==
  ASSUME IInv, [Next]_vars
  PROVE  CompleteRunHandlesAll'
<1>1. CASE run' # "over"
  BY <1>1 DEF CompleteRunHandlesAll
<1>2. CASE run' = "over" /\ run = "over"
  <2>1. UNCHANGED <<file, ended>>
    BY <1>2 DEF Next, vars, endVars, SetIdKeys, ListItem, SendItem, WaitIdKeys, EndReceive, Pop,
                StepDone, ItemsOver, SaveOpen, SaveWrite, Killed, NextRun, Start0
  <2> QED
    BY <1>2, <2>1 DEF IInv, CompleteRunHandlesAll
<1>3. CASE run' = "over" /\ run # "over"
  <2>1. SaveWrite /\ endPc = "write_last"
    BY <1>3 DEF Next, vars, endVars, SetIdKeys, ListItem, SendItem, WaitIdKeys, EndReceive, Pop,
                StepDone, ItemsOver, SaveOpen, SaveWrite, Killed, NextRun, Start0
  <2>2. /\ run = "on" /\ file' = [last |-> last, doing |-> doing_set] /\ ended' = ended
    BY <2>1 DEF SaveWrite
  <2>3. ended = 1 .. NItems /\ doing_set = {}
    BY <2>1, <2>2, NothingLeft DEF IInv, RunOK, LastOK
  <2> QED
    BY <2>2, <2>3 DEF CompleteRunHandlesAll
<1> QED
  BY <1>1, <1>2, <1>3

(***************************************************************************)
(* The execution                                                           *)
(***************************************************************************)

\* The first of todo is one item.
LEMMA FirstIsUnique ==
  ASSUME TypeOK, NEW x \in todo, IsFirst(x)
  PROVE  /\ x \in 1 .. NItems
         /\ {y \in todo : IsFirst(y)} = {x}
         /\ \A t \in todo \ {x} : x < t
<1>1. todo \subseteq 1 .. NItems /\ NItems \in Nat
  BY StateFileAssumption DEF TypeOK
<1>2. \A t \in todo : x <= t
  BY DEF IsFirst
<1>3. ASSUME NEW y \in todo, IsFirst(y)
      PROVE  y = x
  <2>1. y <= x
    BY <1>3 DEF IsFirst
  <2> QED
    BY <1>1, <1>2, <2>1
<1>4. {y \in todo : IsFirst(y)} = {x}
  BY <1>3
<1>5. \A t \in todo \ {x} : x < t
  BY <1>1, <1>2
<1> QED
  BY <1>1, <1>4, <1>5

\* What is listed are items.
LEMMA ListedAreItems ==
  ASSUME TypeOK
  PROVE  Listed \union {last} \subseteq 0 .. NItems /\ Listed \subseteq 1 .. NItems
<1>1. Members(doing_list) \subseteq 1 .. NItems
  BY MembersAreItems DEF TypeOK
<1>2. Listed \subseteq 1 .. NItems
  BY <1>1 DEF TypeOK, Listed
<1>3. last \in 0 .. NItems /\ 1 .. NItems \subseteq 0 .. NItems
  BY StateFileAssumption DEF TypeOK
<1> QED
  BY <1>2, <1>3

\* Steps that leave the items where they are.
LEMMA ItemsStay ==
  ASSUME IInv, run = "on", UNCHANGED <<todo, flowing, doing_list, doing_set, last, done, ended>>,
         startPc' = startPc \/ (startPc = "set" /\ startPc' = "next"),
         endPc' = "pop" <=> endPc = "pop",
         endPc' \in {"open_last", "write_last"} => todo = {} /\ flowing = {} /\ startPc = "next"
  PROVE  NoneLost' /\ ListedOK' /\ OrderOK' /\ SaveOK' /\ LastOK'
<1>1. NoneLost /\ ListedOK /\ OrderOK /\ SaveOK
  BY DEF IInv, RunOK
<1>2. UnderWay' = UnderWay /\ Listed' = Listed
  BY DEF UnderWay, Listed, IsFirst
<1>3. NoneLost' /\ SaveOK' /\ LastOK'
  BY <1>1 DEF NoneLost, SaveOK, LastOK
<1>4. ListedOK'
  BY <1>1, <1>2 DEF ListedOK
<1>5. OrderOK'
  BY <1>1, <1>2 DEF OrderOK, IsFirst
<1> QED
  BY <1>3, <1>4, <1>5

\* start lists the next item, the largest so far.
LEMMA ListItemStep ==
  ASSUME IInv, NEW x \in todo, ListItem(x)
  PROVE  NoneLost' /\ ListedOK' /\ OrderOK' /\ SaveOK' /\ LastOK'
<1>1. TypeOK /\ NoneLost /\ ListedOK /\ OrderOK /\ SaveOK /\ LastOK
  BY DEF IInv, RunOK, ListItem
<1>2. /\ startPc = "next" /\ IsFirst(x) /\ startPc' = "send"
      /\ doing_list' = Append(doing_list, x)
      /\ UNCHANGED <<todo, flowing, endPc, done, doing_set, last, ended>>
  BY DEF ListItem, endVars
<1>3. x \in 1 .. NItems /\ {y \in todo : IsFirst(y)} = {x} /\ NItems \in Nat
  BY <1>1, <1>2, FirstIsUnique, StateFileAssumption
<1>4. \A y \in Listed \union {last}, t \in todo : y < t
  BY <1>1, <1>2 DEF OrderOK
<1>5. Members(doing_list') = Members(doing_list) \union {x} /\ Increasing(doing_list')
  BY <1>1, <1>2, <1>3, <1>4, AppendIncreasing DEF TypeOK, OrderOK, Listed
<1>6. Listed' = Listed \union {x}
  BY <1>2, <1>5 DEF Listed
<1>7. {y \in todo' : IsFirst(y)'} = {x}
  BY <1>2, <1>3 DEF IsFirst
<1>8. UnderWay = flowing /\ UnderWay' = flowing \union {x}
  BY <1>2, <1>7 DEF UnderWay
<1>9. x \notin Listed
  <2>1. \A y \in Listed : y < x
    BY <1>4
  <2> QED
    BY <1>3, <2>1
<1>10. ListedOK'
  BY <1>1, <1>2, <1>5, <1>6, <1>8, <1>9 DEF ListedOK, Listed
<1>11. OrderOK'
  <2>1. \A y \in Members(doing_list') : last' < y
    BY <1>1, <1>2, <1>4, <1>5 DEF OrderOK
  <2>2. ASSUME NEW y \in Listed' \union {last'}, NEW t \in todo'
        PROVE  y <= t
    <3>1. CASE y = x
      BY <1>2, <3>1 DEF IsFirst
    <3>2. CASE y # x
      <4>1. y \in Listed \union {last} /\ t \in todo
        BY <1>2, <1>6, <2>2, <3>2
      <4>2. y < t /\ t \in 1 .. NItems /\ y \in 0 .. NItems
        BY <1>1, <1>4, <4>1, ListedAreItems DEF TypeOK
      <4> QED
        BY <1>3, <4>2
    <3> QED
      BY <3>1, <3>2
  <2>3. \E m \in todo' : IsFirst(m)' /\ m \in Listed'
    BY <1>2, <1>6, <1>7
  <2> QED
    BY <1>2, <1>5, <2>1, <2>2, <2>3 DEF OrderOK
<1>12. NoneLost' /\ SaveOK' /\ LastOK'
  BY <1>1, <1>2 DEF NoneLost, SaveOK, LastOK
<1> QED
  BY <1>10, <1>11, <1>12

\* start sends it: what is to come is beyond it.
LEMMA SendItemStep ==
  ASSUME IInv, NEW x \in todo, SendItem(x)
  PROVE  NoneLost' /\ ListedOK' /\ OrderOK' /\ SaveOK' /\ LastOK'
<1>1. TypeOK /\ NoneLost /\ ListedOK /\ OrderOK /\ SaveOK /\ LastOK
  BY DEF IInv, RunOK, SendItem
<1>2. /\ startPc = "send" /\ IsFirst(x) /\ startPc' = "next"
      /\ flowing' = flowing \union {x} /\ todo' = todo \ {x}
      /\ UNCHANGED <<doing_list, endPc, done, doing_set, last, ended>>
  BY DEF SendItem, endVars
<1>3. /\ x \in 1 .. NItems /\ {y \in todo : IsFirst(y)} = {x} /\ NItems \in Nat
      /\ \A t \in todo' : x < t
  BY <1>1, <1>2, FirstIsUnique, StateFileAssumption
<1>4. UnderWay' = UnderWay /\ Listed' = Listed
  BY <1>2, <1>3 DEF UnderWay, Listed
<1>5. ListedOK'
  BY <1>1, <1>2, <1>4 DEF ListedOK
<1>6. OrderOK'
  <2>1. ASSUME NEW y \in Listed \union {last}, NEW t \in todo'
        PROVE  y < t
    <3>1. y <= x /\ x < t
      BY <1>1, <1>2, <1>3 DEF OrderOK
    <3>2. y \in 0 .. NItems /\ t \in 1 .. NItems
      BY <1>1, <1>2, ListedAreItems DEF TypeOK
    <3> QED
      BY <1>3, <3>1, <3>2
  <2> QED
    BY <1>1, <1>2, <1>4, <2>1 DEF OrderOK
<1>7. NoneLost' /\ SaveOK' /\ LastOK'
  BY <1>1, <1>2 DEF NoneLost, SaveOK, LastOK
<1> QED
  BY <1>5, <1>6, <1>7

\* end receives an item: it is in doing_set, or it is still in the list.
LEMMA EndReceiveStep ==
  ASSUME IInv, NEW x \in flowing, EndReceive(x), run' = "on"
  PROVE  NoneLost' /\ ListedOK' /\ OrderOK' /\ SaveOK' /\ LastOK'
<1>1. TypeOK /\ NoneLost /\ ListedOK /\ OrderOK /\ SaveOK /\ LastOK
  BY DEF IInv, RunOK, EndReceive
<1>2. /\ endPc = "recv" /\ flowing' = flowing \ {x} /\ done' = x /\ ended' = ended \union {x}
      /\ endPc' = IF x \in doing_set THEN "step" ELSE "pop"
      /\ doing_set' = doing_set \ {x}
      /\ UNCHANGED <<todo, startPc, doing_list, last>>
  BY DEF EndReceive, startVars
<1>3. Listed = UnderWay /\ Members(doing_list) \intersect doing_set = {}
  BY <1>1, <1>2 DEF ListedOK
<1>4. x \in Listed
  BY <1>3 DEF UnderWay
<1>5. UnderWay' = UnderWay \ {x}
  <2>1. x \notin todo
    BY <1>1 DEF NoneLost
  <2>2. \A y : IsFirst(y)' = IsFirst(y)
    BY <1>2 DEF IsFirst
  <2> QED
    BY <1>2, <2>1, <2>2 DEF UnderWay
<1>6. ASSUME x \in doing_set
      PROVE  ListedOK'
  <2>1. x \notin Members(doing_list) /\ Listed' = Listed \ {x} /\ endPc' = "step"
    BY <1>2, <1>3, <1>6 DEF Listed
  <2>2. Members(doing_list') \intersect doing_set' = {} /\ Listed' = UnderWay'
    BY <1>2, <1>3, <1>5, <2>1
  <2> QED
    BY <2>1, <2>2 DEF ListedOK
<1>7. ASSUME x \notin doing_set
      PROVE  ListedOK'
  <2>1. x \in Members(doing_list) /\ Listed' = Listed /\ endPc' = "pop"
    BY <1>2, <1>4, <1>7 DEF Listed
  <2>2. /\ Members(doing_list') \intersect doing_set' = {} /\ Listed' = UnderWay' \union {x}
        /\ done' \in Members(doing_list') /\ done' \notin UnderWay' /\ done' \in ended'
    BY <1>2, <1>3, <1>4, <1>5, <2>1
  <2> QED
    BY <1>2, <2>1, <2>2 DEF ListedOK
<1>8. ListedOK'
  BY <1>6, <1>7
<1>9. Listed' \subseteq Listed
  BY <1>2 DEF Listed
<1>10. OrderOK'
  <2>1. ASSUME startPc = "send"
        PROVE  \E m \in todo : IsFirst(m)' /\ m \in Listed'
    <3>1. PICK m \in todo : IsFirst(m) /\ m \in Listed
      BY <1>1, <2>1 DEF OrderOK
    <3>2. m # x
      BY <1>1 DEF NoneLost
    <3> QED
      BY <1>2, <3>1, <3>2 DEF Listed, IsFirst
  <2> QED
    BY <1>1, <1>2, <1>9, <2>1 DEF OrderOK
<1>11. NoneLost' /\ SaveOK' /\ LastOK'
  BY <1>1, <1>2 DEF NoneLost, SaveOK, LastOK
<1> QED
  BY <1>8, <1>10, <1>11

\* end takes the next of the list: everything before it has been handled, or
\* is in doing_set.
LEMMA PopStep ==
  ASSUME IInv, Pop
  PROVE  NoneLost' /\ ListedOK' /\ OrderOK' /\ SaveOK' /\ LastOK'
<1>1. TypeOK /\ NoneLost /\ ListedOK /\ OrderOK /\ SaveOK /\ LastOK
  BY DEF IInv, RunOK, Pop
<1>2. endPc = "pop" /\ UNCHANGED <<todo, startPc, flowing, done, ended>>
  BY DEF Pop, startVars
<1>3. done \in Members(doing_list) /\ done \notin UnderWay /\ done \in ended
  BY <1>1, <1>2 DEF ListedOK
<1>4. doing_list # <<>> /\ doing_list \in Seq(1 .. NItems) /\ Increasing(doing_list)
  BY <1>1, <1>3, MembersAreItems DEF TypeOK, OrderOK
<1> DEFINE doing == Head(doing_list)
<1>5. /\ doing \in 1 .. NItems
      /\ Members(doing_list) = {doing} \union Members(Tail(doing_list))
      /\ \A y \in Members(Tail(doing_list)) : doing < y
      /\ Increasing(Tail(doing_list)) /\ Tail(doing_list) \in Seq(1 .. NItems)
  BY <1>4, HeadIsSmallest
<1>6. /\ doing_list' = Tail(doing_list) /\ last' = doing
      /\ doing_set' = (IF doing = done THEN doing_set ELSE doing_set \union {doing})
      /\ endPc' = IF doing = done THEN "step" ELSE "pop"
  BY <1>4 DEF Pop
<1>7. doing \notin Members(Tail(doing_list))
  BY <1>5
<1>8. UnderWay' = UnderWay
  BY <1>2 DEF UnderWay, IsFirst
<1>9. Listed = UnderWay \union {done} /\ Members(doing_list) \intersect doing_set = {}
  BY <1>1, <1>2 DEF ListedOK
<1>10. ListedOK'
  <2>1. CASE doing = done
    <3>1. Listed' = Listed \ {done}
      BY <1>5, <1>6, <1>7, <1>9, <2>1 DEF Listed
    <3> QED
      BY <1>3, <1>5, <1>6, <1>8, <1>9, <2>1, <3>1 DEF ListedOK
  <2>2. CASE doing # done
    <3>1. Listed' = Listed
      BY <1>5, <1>6, <2>2 DEF Listed
    <3> QED
      BY <1>2, <1>3, <1>5, <1>6, <1>7, <1>8, <1>9, <2>2, <3>1 DEF ListedOK
  <2> QED
    BY <2>1, <2>2
<1>11. last < doing /\ last \in 0 .. NItems /\ NItems \in Nat
  BY <1>1, <1>5, StateFileAssumption DEF OrderOK, TypeOK
<1>12. doing \in Listed /\ Listed' \union {last'} \subseteq Listed
  BY <1>5, <1>6 DEF Listed
<1>13. OrderOK'
  <2>1. \A y \in Members(doing_list') : last' < y
    BY <1>5, <1>6
  <2>2. ASSUME startPc = "send"
        PROVE  \E m \in todo : IsFirst(m)' /\ m \in Listed'
    <3>1. PICK m \in todo : IsFirst(m) /\ m \in Listed
      BY <1>1, <2>2 DEF OrderOK
    <3>2. m \in UnderWay
      BY <2>2, <3>1 DEF UnderWay
    <3>3. m \in Listed'
      BY <1>8, <1>10, <3>2 DEF ListedOK
    <3> QED
      BY <1>2, <3>1, <3>3 DEF IsFirst
  <2> QED
    BY <1>1, <1>2, <1>5, <1>6, <1>12, <2>1, <2>2 DEF OrderOK
<1>14. SaveOK'
  <2>1. doing_set' \subseteq 1 .. last'
    <3>1. doing_set \subseteq 1 .. last
      BY <1>1 DEF SaveOK
    <3>2. 1 .. last \subseteq 1 .. doing /\ doing \in 1 .. doing
      BY <1>5, <1>11
    <3>3. doing_set' \subseteq doing_set \union {doing}
      BY <1>6
    <3> QED
      BY <1>6, <3>1, <3>2, <3>3
  <2>2. ASSUME NEW y \in 1 .. last', y \notin ended
        PROVE  y \in doing_set'
    <3>1. y \in 1 .. NItems /\ y <= doing
      BY <1>5, <1>6, <1>11
    <3>2. CASE y \in todo
      <4>1. startPc = "send" /\ doing <= y
        BY <1>1, <1>5, <1>12, <3>1, <3>2 DEF OrderOK
      <4>2. y = doing
        BY <1>5, <3>1, <4>1
      <4> QED
        BY <1>3, <1>6, <2>2, <4>2
    <3>3. CASE y \in flowing
      <4>1. y \in Listed
        BY <1>9, <3>3 DEF UnderWay
      <4>2. y \in doing_set \/ y = doing
        BY <1>5, <3>1, <4>1 DEF Listed
      <4> QED
        BY <1>3, <1>6, <2>2, <4>2
    <3> QED
      BY <1>1, <2>2, <3>1, <3>2, <3>3 DEF NoneLost
  <2> QED
    BY <1>2, <2>1, <2>2 DEF SaveOK
<1>15. NoneLost' /\ LastOK'
  BY <1>1, <1>2, <1>6 DEF NoneLost, LastOK
<1> QED
  BY <1>10, <1>13, <1>14, <1>15

\* An execution resumes with every item not handled.
LEMMA NextRunStep ==
  ASSUME IInv, NextRun, run' = "on"
  PROVE  NoneLost' /\ ListedOK' /\ OrderOK' /\ SaveOK' /\ LastOK'
<1>1. TypeOK /\ FileOK /\ file # Torn /\ ended' = ended
  BY DEF IInv, NextRun
<1>2. /\ todo' = Resume(file) /\ startPc' = "set" /\ doing_list' = <<>> /\ flowing' = {}
      /\ endPc' = "wait" /\ doing_set' = {} /\ last' = 0
  BY <1>1 DEF NextRun, Start0, None
<1>3. 1 .. NItems \subseteq ended \union Resume(file)
  BY <1>1, StateFileAssumption DEF TypeOK, FileOK, Resume
<1>4. Members(doing_list') = {} /\ Increasing(doing_list')
  BY <1>2 DEF Members, Increasing
<1>5. Listed' = {} /\ UnderWay' = {}
  BY <1>2, <1>4 DEF Listed, UnderWay
<1>6. ListedOK' /\ NoneLost' /\ SaveOK' /\ LastOK'
  BY <1>1, <1>2, <1>3, <1>4, <1>5 DEF ListedOK, NoneLost, SaveOK, LastOK
<1>7. OrderOK'
  <2>1. \A t \in Resume(file) : 0 < t
    BY <1>1 DEF TypeOK, FileOK, Resume
  <2> QED
    BY <1>2, <1>4, <1>5, <2>1 DEF OrderOK
<1> QED
  BY <1>6, <1>7

\* Every step keeps what holds of an execution that is on.
LEMMA RunStep ==
  ASSUME IInv, [Next]_vars
  PROVE  RunOK'
<1> SUFFICES ASSUME run' = "on"
             PROVE  NoneLost' /\ ListedOK' /\ OrderOK' /\ SaveOK' /\ LastOK'
  BY DEF RunOK
<1>1. CASE NextRun
  BY <1>1, NextRunStep
<1>2. ASSUME NEW x \in todo, ListItem(x) \/ SendItem(x)
      PROVE  NoneLost' /\ ListedOK' /\ OrderOK' /\ SaveOK' /\ LastOK'
  BY <1>2, ListItemStep, SendItemStep
<1>3. ASSUME NEW x \in flowing, EndReceive(x)
      PROVE  NoneLost' /\ ListedOK' /\ OrderOK' /\ SaveOK' /\ LastOK'
  BY <1>3, EndReceiveStep
<1>4. CASE Pop
  BY <1>4, PopStep
<1>5. CASE UNCHANGED vars
  BY <1>5, ItemsStay DEF vars, startVars, endVars, IInv, RunOK, LastOK
<1>6. CASE SetIdKeys
  BY <1>6, ItemsStay DEF SetIdKeys, endVars, IInv, RunOK, LastOK
<1>7. CASE WaitIdKeys
  BY <1>7, ItemsStay DEF WaitIdKeys, startVars
<1>8. CASE StepDone
  BY <1>8, ItemsStay DEF StepDone, startVars
<1>9. CASE ItemsOver
  BY <1>9, ItemsStay DEF ItemsOver, startVars
<1>10. CASE SaveOpen
  BY <1>10, ItemsStay DEF SaveOpen, startVars, IInv, RunOK, LastOK
<1>11. CASE SaveWrite
  BY <1>11, ItemsStay DEF SaveWrite, startVars
<1>12. CASE Killed
  BY <1>12 DEF Killed
<1> QED
  BY <1>1, <1>2, <1>3, <1>4, <1>5, <1>6, <1>7, <1>8, <1>9, <1>10, <1>11, <1>12 DEF Next

(***************************************************************************)
(* The theorems                                                            *)
(***************************************************************************)

\* IInv is inductive.
THEOREM StateFileInvariance == Spec => []IInv
<1>1. Init => IInv
  <2> SUFFICES ASSUME Init
               PROVE  IInv
    OBVIOUS
  <2>1. <<>> \in Seq(1 .. NItems) /\ Members(<<>>) = {} /\ Increasing(<<>>)
    BY EmptySeq DEF Members, Increasing
  <2>2. Resume(NoFile) = 1 .. NItems /\ NoFile.last = 0 /\ NoFile.doing = {}
    BY DEF Resume, NoFile, None
  <2>3. TypeOK
    <3>1. file.last \in 0 .. NItems /\ file.doing \subseteq 1 .. NItems
      BY <2>2, StateFileAssumption DEF Init
    <3>2. todo = 1 .. NItems /\ last \in 0 .. NItems /\ done \in 0 .. NItems
      BY <2>2, StateFileAssumption DEF Init, None
    <3>3. runs \in 1 .. MaxRuns
      BY StateFileAssumption DEF Init
    <3> QED
      BY <2>1, <3>1, <3>2, <3>3 DEF Init, TypeOK
  <2>4. FileOK /\ CompleteRunHandlesAll
    BY <2>2 DEF Init, FileOK, CompleteRunHandlesAll
  <2>5. Listed = {} /\ UnderWay = {}
    BY <2>1 DEF Init, Listed, UnderWay
  <2>6. RunOK
    BY <2>1, <2>2, <2>5 DEF Init, RunOK, NoneLost, ListedOK, OrderOK, SaveOK, LastOK, None
  <2> QED
    BY <2>3, <2>4, <2>6 DEF IInv
<1>2. IInv /\ [Next]_vars => IInv'
  BY TypeStep, FileStep, CompleteStep, RunStep DEF IInv
<1> QED
  BY <1>1, <1>2, PTL DEF Spec

\* Whatever the order the items came in and wherever executions were killed, a
\* whole file leaves out no item that was not handled (t_statefile.py:16-18,
\* 130-150).
THEOREM FileIsSafe == Spec => []SafeToResume
<1>1. IInv => SafeToResume
  BY DEF IInv, FileOK, SafeToResume
<1> QED
  BY <1>1, StateFileInvariance, PTL

\* An execution that completes has handled every item (t_statefile.py:94-97).
THEOREM CompletionIsComplete == Spec => []CompleteRunHandlesAll
<1>1. IInv => CompleteRunHandlesAll
  BY DEF IInv
<1> QED
  BY <1>1, StateFileInvariance, PTL
=============================================================================
