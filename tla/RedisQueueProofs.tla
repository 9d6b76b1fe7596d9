-------------------------- MODULE RedisQueueProofs --------------------------
(***************************************************************************)
(* Proofs about RedisQueue: its types, that a receiver which stops at an   *)
(* end command has left no item of its sender behind (EndMeansTaken), and  *)
(* the bound on the lists of senders that watch their length               *)
(* (QueueBounded).                                                         *)
(***************************************************************************)
EXTENDS RedisQueue, SequenceTheorems, FiniteSetTheorems, TLAPS

-----------------------------------------------------------------------------
(* Operators. *)

\* The least of some naturals.
LEMMA LeastExists ==
  ASSUME NEW I \in SUBSET Nat, I # {}
  PROVE  Min(I) \in I /\ \A j \in I : Min(I) <= j
<1> DEFINE R == OpToRel(<, Nat)
<1>1. IsWellFoundedOn(R, Nat)
  BY NatLessThanWellFounded
<1>2. PICK x \in I : \A y \in I : <<y, x>> \notin R
  <2> HIDE DEF R
  <2> QED
    BY <1>1, WFMin
<1>3. \A y \in I : x <= y
  <2> SUFFICES ASSUME NEW y \in I PROVE x <= y
    OBVIOUS
  <2>1. x \in Nat /\ y \in Nat
    OBVIOUS
  <2>2. ~ (y < x)
    BY <1>2, <2>1 DEF OpToRel
  <2> QED
    BY <2>1, <2>2
<1> QED
  BY <1>2, <1>3 DEF Min

\* list.remove.
LEMMA RemoveFirstType ==
  ASSUME NEW S, NEW s \in Seq(S), NEW e
  PROVE  RemoveFirst(s, e) \in Seq(S)
<1> DEFINE I == {i \in 1 .. Len(s) : s[i] = e}
<1>1. CASE I = {}
  BY <1>1 DEF RemoveFirst
<1>2. CASE I # {}
  <2>1. Min(I) \in 1 .. Len(s)
    <3>1. I \in SUBSET Nat
      OBVIOUS
    <3>2. Min(I) \in I
      <4> HIDE DEF I
      <4> QED
        BY <1>2, <3>1, LeastExists
    <3> QED
      BY <3>2
  <2>2. RemoveFirst(s, e) = RemoveAt(s, Min(I))
    BY <1>2 DEF RemoveFirst, SelectInSeq
  <2> HIDE DEF I
  <2>3. PICK n \in 1 .. Len(s) : n = Min(I)
    BY <2>1
  <2>4. Len(s) \in Nat
    BY LenProperties
  <2>5. SubSeq(s, 1, n - 1) \in Seq(S) /\ SubSeq(s, n + 1, Len(s)) \in Seq(S)
    BY <2>4, SubSeqProperties
  <2> QED
    BY <2>2, <2>3, <2>5, ConcatProperties DEF RemoveAt
<1> QED
  BY <1>1, <1>2

\* Quotients and remainders.
LEMMA Division ==
  ASSUME NEW i \in Int, NEW d \in Int, d > 0
  PROVE  \E q \in Int, m \in 0 .. d - 1 : i = q * d + m
<1> WITNESS i \div d \in Int, i % d \in 0 .. d - 1
<1> QED
  OBVIOUS

LEMMA Remainder ==
  ASSUME NEW q \in Int, NEW d \in Int, d > 0, NEW m \in 0 .. d - 1
  PROVE  (q * d + m) % d = m
OBVIOUS

LEMMA NextMultiple ==
  ASSUME NEW q \in Int, NEW d \in Int, NEW qd \in Int, NEW i \in Int,
         qd = q * d, i = qd + (d - 1)
  PROVE  i + 1 = (q + 1) * d + 0
OBVIOUS

\* A step of i % d: what the count of items does between two checks.
LEMMA NextMod ==
  ASSUME NEW i \in Nat, NEW d \in Nat \ {0}
  PROVE  /\ i % d \in 0 .. d - 1
         /\ (i + 1) % d = IF i % d = d - 1 THEN 0 ELSE (i % d) + 1
<1>0. i \in Int /\ d \in Int /\ d > 0
  OBVIOUS
<1>1. PICK q \in Int, m \in 0 .. d - 1 : i = q * d + m
  BY <1>0, Division
<1>2. i % d = m
  BY <1>0, <1>1, Remainder
<1>3. PICK qd \in Int : qd = q * d
  BY <1>0
<1>4. CASE m = d - 1
  <2>1. i + 1 = (q + 1) * d + 0
    BY <1>0, <1>1, <1>3, <1>4, NextMultiple
  <2>2. ((q + 1) * d + 0) % d = 0
    BY <1>0, Remainder
  <2> QED
    BY <1>2, <1>4, <2>1, <2>2
<1>5. CASE m # d - 1
  <2>1. m + 1 \in 0 .. d - 1
    BY <1>0, <1>5
  <2>2. i + 1 = qd + (m + 1)
    BY <1>1, <1>3
  <2>3. (q * d + (m + 1)) % d = m + 1
    BY <1>0, <2>1, Remainder
  <2> QED
    BY <1>2, <1>3, <1>5, <2>2, <2>3
<1> QED
  BY <1>4, <1>5

\* A list loses its head, or gets a last message.
LEMMA ListFacts ==
  ASSUME NEW l \in Seq(Messages)
  PROVE  /\ Len(l) \in Nat /\ DOMAIN l = 1 .. Len(l)
         /\ l = <<>> <=> Len(l) = 0
         /\ \A i \in DOMAIN l : l[i] \in Messages
BY LenProperties, ElementOfSeq, EmptySeq

LEMMA PoppedList ==
  ASSUME NEW l \in Seq(Messages), l # <<>>
  PROVE  /\ Head(l) = l[1] /\ l[1] \in Messages /\ Tail(l) \in Seq(Messages)
         /\ Len(Tail(l)) = Len(l) - 1
         /\ \A i \in 1 .. Len(Tail(l)) : i + 1 \in 1 .. Len(l) /\ Tail(l)[i] = l[i + 1]
<1>1. Len(l) \in Nat /\ Len(l) # 0
  BY ListFacts
<1>2. /\ Tail(l) \in Seq(Messages) /\ Len(Tail(l)) = Len(l) - 1
      /\ \A i \in 1 .. Len(Tail(l)) : Tail(l)[i] = l[i + 1]
  BY HeadTailProperties
<1>3. Head(l) = l[1] /\ l[1] \in Messages
  BY <1>1, ElementOfSeq
<1> QED
  BY <1>1, <1>2, <1>3

LEMMA PushedList ==
  ASSUME NEW l \in Seq(Messages), NEW m \in Messages
  PROVE  /\ Append(l, m) \in Seq(Messages) /\ Append(l, m) # <<>>
         /\ Len(Append(l, m)) = Len(l) + 1
         /\ \A i \in 1 .. Len(l) : Append(l, m)[i] = l[i]
         /\ Append(l, m)[Len(l) + 1] = m
BY AppendProperties

-----------------------------------------------------------------------------
(* The types. *)

RedisTypes ==
    /\ queue \in [Keys -> Seq(Messages)] /\ expires \in [Keys -> BOOLEAN]
    /\ \A k \in Keys : expires[k] => queue[k] # <<>>
SenderTypes ==
    /\ spc \in [Senders -> {"start", "item", "wait", "push", "item_ttl", "end", "end_cmd", "done"}]
    /\ sent \in [Senders -> Nat] /\ \A s \in Senders : sent[s] <= Len(Send[s].items)
    /\ \A s \in Senders : spc[s] \in {"wait", "push", "item_ttl"} =>
          sent[s] < Len(Send[s].items) /\ Item(s) \in Keys
    /\ prev \in [Senders -> Nat \union {-1}] /\ same \in [Senders -> 0..TimeoutReads]
ReceiverTypes ==
    /\ rpc \in [Receivers -> {"recv", "forward", "forward_ttl", "done", "raised", "killed"}]
    /\ rest \in [Receivers -> Seq(Keys)]
    /\ held \in [Receivers -> (Keys \X Messages) \union {NoMsg}]
    /\ \A r \in Receivers : rpc[r] \in {"forward", "forward_ttl"} => held[r] \in Keys \X Messages
    /\ endedBy \in [Receivers -> Messages \union {NoMsg}]
OtherTypes == scenario \in Scenarios /\ kills \in 0..MaxKills /\ expiries \in 0..MaxExpiries

LEMMA TypeParts == TypeOK <=> RedisTypes /\ SenderTypes /\ ReceiverTypes /\ OtherTypes
BY DEF TypeOK, RedisTypes, SenderTypes, ReceiverTypes, OtherTypes

LEMMA TypePartsNext == RedisTypes' /\ SenderTypes' /\ ReceiverTypes' /\ OtherTypes' => TypeOK'
BY DEF TypeOK, RedisTypes, SenderTypes, ReceiverTypes, OtherTypes

\* The arguments of the calls.
LEMMA Arguments ==
  ASSUME scenario \in Scenarios
  PROVE  /\ Send \in [Senders -> SendArgs] /\ recv \in [Receivers -> RecvArgs]
         /\ \A s \in Senders : /\ Send[s].key \in Keys
                               /\ Send[s].items \in Seq(Keys \union {NoKey})
                               /\ Len(Send[s].items) \in Nat
                               /\ DOMAIN Send[s].items = 1 .. Len(Send[s].items)
                               /\ Send[s].max \in Nat /\ Send[s].step \in Nat \ {0}
                               /\ Send[s].ttl \in BOOLEAN /\ Send[s].empty_old \in BOOLEAN
         /\ \A r \in Receivers : recv[r].keys \in Seq(Keys) /\ recv[r].multi \in BOOLEAN
<1>1. Send \in [Senders -> SendArgs] /\ recv \in [Receivers -> RecvArgs]
  BY RedisAssumption DEF Send, recv
<1>2. ASSUME NEW s \in Senders
      PROVE  /\ Send[s].key \in Keys /\ Send[s].items \in Seq(Keys \union {NoKey})
             /\ Send[s].max \in Nat /\ Send[s].step \in Nat \ {0}
             /\ Send[s].ttl \in BOOLEAN /\ Send[s].empty_old \in BOOLEAN
  <2>1. Send[s] \in SendArgs
    BY <1>1
  <2> QED
    BY <2>1 DEF SendArgs
<1>3. \A s \in Senders : /\ Len(Send[s].items) \in Nat
                         /\ DOMAIN Send[s].items = 1 .. Len(Send[s].items)
  BY <1>2, LenProperties
<1>4. ASSUME NEW r \in Receivers
      PROVE  recv[r].keys \in Seq(Keys) /\ recv[r].multi \in BOOLEAN
  <2>1. recv[r] \in RecvArgs
    BY <1>1
  <2> QED
    BY <2>1 DEF RecvArgs
<1> QED
  BY <1>1, <1>2, <1>3, <1>4

LEMMA InitTypes == Init => TypeOK
<1> SUFFICES ASSUME Init PROVE TypeOK
  OBVIOUS
<1>1. scenario \in Scenarios
  BY DEF Init
<1>2. RedisTypes
  BY EmptySeq DEF Init, RedisTypes
<1>3. SenderTypes
  <2>1. spc \in [Senders -> {"start", "item", "wait", "push", "item_ttl", "end", "end_cmd", "done"}]
        /\ \A s \in Senders : spc[s] \notin {"wait", "push", "item_ttl"}
    BY DEF Init
  <2>2. sent \in [Senders -> Nat] /\ \A s \in Senders : sent[s] <= Len(Send[s].items)
    BY <1>1, Arguments DEF Init
  <2>3. prev \in [Senders -> Nat \union {-1}] /\ same \in [Senders -> 0..TimeoutReads]
    BY RedisAssumption DEF Init
  <2> QED
    BY <2>1, <2>2, <2>3 DEF SenderTypes
<1>4. ReceiverTypes
  <2>1. rpc \in [Receivers -> {"recv", "forward", "forward_ttl", "done", "raised", "killed"}]
        /\ \A r \in Receivers : rpc[r] \notin {"forward", "forward_ttl"}
    BY DEF Init
  <2>2. rest \in [Receivers -> Seq(Keys)]
    BY <1>1, Arguments DEF Init
  <2>3. /\ held \in [Receivers -> (Keys \X Messages) \union {NoMsg}]
        /\ endedBy \in [Receivers -> Messages \union {NoMsg}]
    BY DEF Init
  <2> QED
    BY <2>1, <2>2, <2>3 DEF ReceiverTypes
<1>5. OtherTypes
  BY <1>1, RedisAssumption DEF Init, OtherTypes
<1> QED
  BY <1>2, <1>3, <1>4, <1>5, TypeParts

\* What a call of redis leaves behind.
LEMMA PushTypes ==
  ASSUME RedisTypes, NEW k \in Keys, NEW m \in Messages, RPush(k, m)
  PROVE  RedisTypes'
<1>1. queue[k] \in Seq(Messages)
  BY DEF RedisTypes
<1>2. Append(queue[k], m) \in Seq(Messages) /\ Append(queue[k], m) # <<>>
  BY <1>1, PushedList
<1> QED
  BY <1>2 DEF RPush, RedisTypes

LEMMA ExpireTypes ==
  ASSUME RedisTypes, NEW k \in Keys, ExpireKey(k)
  PROVE  RedisTypes'
BY DEF ExpireKey, RedisTypes

LEMMA PopTypes ==
  ASSUME RedisTypes, NEW k \in Keys, queue[k] # <<>>, Pop(k)
  PROVE  RedisTypes'
<1>1. queue[k] \in Seq(Messages) /\ Len(queue[k]) \in Nat
  BY ListFacts DEF RedisTypes
<1>2. Tail(queue[k]) \in Seq(Messages) /\ Len(Tail(queue[k])) = Len(queue[k]) - 1
  BY <1>1, PoppedList
<1>3. Len(queue[k]) > 1 => Tail(queue[k]) # <<>>
  <2>1. PICK t \in Seq(Messages) : t = Tail(queue[k])
    BY <1>2
  <2>2. t = <<>> <=> Len(t) = 0
    BY ListFacts
  <2> QED
    BY <1>1, <1>2, <2>1, <2>2
<1>4. queue' \in [Keys -> Seq(Messages)] /\ expires' \in [Keys -> BOOLEAN]
  BY <1>2 DEF Pop, RedisTypes
<1>5. ASSUME NEW l \in Keys, expires'[l] PROVE queue'[l] # <<>>
  <2>1. CASE l = k
    BY <1>3, <1>5, <2>1 DEF Pop, RedisTypes
  <2>2. CASE l # k
    BY <1>5, <2>2 DEF Pop, RedisTypes
  <2> QED
    BY <2>1, <2>2
<1> QED
  BY <1>4, <1>5 DEF RedisTypes

LEMMA ClearTypes ==
  ASSUME RedisTypes, NEW k \in Keys, expires' = [expires EXCEPT ![k] = FALSE],
         queue' = queue \/ queue' = [queue EXCEPT ![k] = <<>>]
  PROVE  RedisTypes'
<1>1. queue' \in [Keys -> Seq(Messages)]
  BY EmptySeq DEF RedisTypes
<1> QED
  BY <1>1 DEF RedisTypes

SenderLocations == {"start", "item", "wait", "push", "item_ttl", "end", "end_cmd", "done"}
SenderAt(s, l, n) == /\ spc' = [spc EXCEPT ![s] = l] /\ sent' = [sent EXCEPT ![s] = n]
                     /\ l \in {"wait", "push", "item_ttl"} =>
                          n < Len(Send[s].items) /\ Send[s].items[n + 1] \in Keys
LEMMA SenderFrame ==
  ASSUME SenderTypes, NEW s \in Senders, Send' = Send,
         NEW l \in SenderLocations, NEW n \in Nat, n <= Len(Send[s].items), SenderAt(s, l, n),
         prev' \in [Senders -> Nat \union {-1}], same' \in [Senders -> 0 .. TimeoutReads]
  PROVE  SenderTypes'
<1>1. spc' \in [Senders -> SenderLocations] /\ sent' \in [Senders -> Nat]
  BY DEF SenderTypes, SenderLocations, SenderAt
<1>2. ASSUME NEW u \in Senders
      PROVE  /\ sent'[u] <= Len(Send'[u].items)
             /\ spc'[u] \in {"wait", "push", "item_ttl"} =>
                  sent'[u] < Len(Send'[u].items) /\ Send'[u].items[sent'[u] + 1] \in Keys
  <2>1. CASE u = s
    BY <2>1 DEF SenderTypes, SenderAt
  <2>2. CASE u # s
    <3>1. sent'[u] = sent[u] /\ spc'[u] = spc[u]
      BY <2>2 DEF SenderTypes, SenderAt
    <3>2. /\ sent[u] <= Len(Send[u].items)
          /\ spc[u] \in {"wait", "push", "item_ttl"} =>
               sent[u] < Len(Send[u].items) /\ Send[u].items[sent[u] + 1] \in Keys
      BY DEF SenderTypes, Item
    <3> QED
      BY <3>1, <3>2
  <2> QED
    BY <2>1, <2>2
<1> QED
  BY <1>1, <1>2 DEF SenderTypes, SenderLocations, Item

\* A sender's own steps keep the types of the senders.
LEMMA SenderMoves ==
  ASSUME TypeOK, NEW s \in Senders, SendStep(s)
  PROVE  SenderTypes' /\ UNCHANGED <<receiverVars, faultVars, scenario>>
<1>1. /\ SenderTypes /\ scenario \in Scenarios /\ sent[s] \in Nat /\ Len(Send[s].items) \in Nat
      /\ sent[s] <= Len(Send[s].items)
  BY TypeParts, Arguments DEF OtherTypes, SenderTypes
<1>2. UNCHANGED <<receiverVars, faultVars, scenario>>
  BY DEF SendStep, Start, NextItem, WaitNoFull, PushItem, ExpireItem, ExpireEnd, PushEnd, NoEnd
<1> SUFFICES SenderTypes'
  BY <1>2
<1>3. Send' = Send
  BY <1>2 DEF Send
<1>4. /\ prev \in [Senders -> Nat \union {-1}] /\ same \in [Senders -> 0 .. TimeoutReads]
      /\ sent = [sent EXCEPT ![s] = sent[s]] /\ spc = [spc EXCEPT ![s] = spc[s]]
      /\ spc[s] \in SenderLocations
  BY <1>1 DEF SenderTypes, SenderLocations
<1>5. CASE \/ Start(s) \/ ExpireEnd(s) \/ PushEnd(s) \/ NoEnd(s)
  <2>1. PICK l \in {"item", "end_cmd", "done"} : spc' = [spc EXCEPT ![s] = l]
    BY <1>5 DEF Start, ExpireEnd, PushEnd, NoEnd, Goto
  <2>2. UNCHANGED <<sent, prev, same>>
    BY <1>5 DEF Start, ExpireEnd, PushEnd, NoEnd
  <2>3. l \in SenderLocations /\ l \notin {"wait", "push", "item_ttl"}
    BY DEF SenderLocations
  <2>4. SenderAt(s, l, sent[s])
    BY <1>4, <2>1, <2>2, <2>3 DEF SenderAt
  <2> QED
    BY <1>1, <1>3, <1>4, <2>2, <2>3, <2>4, SenderFrame
<1>6. CASE NextItem(s)
  <2>0. spc[s] = "item"
    BY <1>6 DEF NextItem
  <2>1. CASE sent[s] = Len(Send[s].items)
    <3>1. spc' = [spc EXCEPT ![s] = "end"] /\ UNCHANGED <<sent, prev, same>>
      BY <1>1, <1>6, <2>1 DEF NextItem, Goto
    <3>2. "end" \in SenderLocations /\ "end" \notin {"wait", "push", "item_ttl"}
      BY DEF SenderLocations
    <3>3. SenderAt(s, "end", sent[s])
      BY <1>4, <3>1 DEF SenderAt
    <3> QED
      BY <1>1, <1>3, <1>4, <3>1, <3>2, <3>3, SenderFrame
  <2>2. CASE sent[s] < Len(Send[s].items) /\ Item(s) = NoKey
    <3>1. sent' = [sent EXCEPT ![s] = sent[s] + 1] /\ UNCHANGED <<spc, prev, same>>
      BY <1>1, <1>6, <2>2 DEF NextItem, Sent
    <3>2. sent[s] + 1 \in Nat /\ sent[s] + 1 <= Len(Send[s].items)
      BY <1>1, <2>2
    <3>3. SenderAt(s, "item", sent[s] + 1) /\ "item" \in SenderLocations
      BY <1>4, <2>0, <3>1 DEF SenderAt, SenderLocations
    <3> QED
      BY <1>1, <1>3, <1>4, <3>1, <3>2, <3>3, SenderFrame
  <2>3. CASE sent[s] < Len(Send[s].items) /\ Item(s) # NoKey
    <3>1. /\ \E l \in {"wait", "push"} : spc' = [spc EXCEPT ![s] = l]
          /\ prev' = [prev EXCEPT ![s] = -1] /\ same' = [same EXCEPT ![s] = 0]
          /\ UNCHANGED sent
      BY <1>1, <1>6, <2>3 DEF NextItem, Goto
    <3>2. Send[s].items[sent[s] + 1] \in Keys
      <4>1. sent[s] + 1 \in 1 .. Len(Send[s].items)
        BY <1>1, <2>3
      <4>2. Send[s].items \in Seq(Keys \union {NoKey})
        BY <1>1, Arguments
      <4>3. Send[s].items[sent[s] + 1] \in Keys \union {NoKey}
        BY <4>1, <4>2, ElementOfSeq
      <4> QED
        BY <2>3, <4>3 DEF Item
    <3>3. prev' \in [Senders -> Nat \union {-1}] /\ same' \in [Senders -> 0 .. TimeoutReads]
      BY <1>4, <3>1, RedisAssumption
    <3>4. PICK l \in {"wait", "push"} : spc' = [spc EXCEPT ![s] = l]
      BY <3>1
    <3>5. l \in SenderLocations
      BY DEF SenderLocations
    <3>6. SenderAt(s, l, sent[s])
      BY <1>4, <2>3, <3>1, <3>2, <3>4 DEF SenderAt
    <3> QED
      BY <1>1, <1>3, <3>3, <3>5, <3>6, SenderFrame
  <2> QED
    BY <1>1, <2>1, <2>2, <2>3
<1>7. CASE WaitNoFull(s)
  <2>1. UNCHANGED sent /\ spc[s] = "wait"
    BY <1>7 DEF WaitNoFull
  <2>2. PICK l \in {"push", "end", "wait"} : spc' = [spc EXCEPT ![s] = l]
    BY <1>4, <1>7 DEF WaitNoFull, Goto
  <2>3. prev' \in [Senders -> Nat \union {-1}] /\ same' \in [Senders -> 0 .. TimeoutReads]
    <3> DEFINE len == Len(queue[Item(s)])
               eq  == IF len = prev[s] /\ Send[s].client_timeout THEN same[s] + 1 ELSE 0
    <3>1. len \in Nat
      BY <1>1, <2>1, TypeParts, ListFacts DEF SenderTypes, RedisTypes
    <3>2. eq \in Nat
      BY <1>4, RedisAssumption
    <3>3. \/ UNCHANGED <<prev, same>>
          \/ /\ prev' = [prev EXCEPT ![s] = len] /\ same' = [same EXCEPT ![s] = eq]
             /\ ~ (eq >= TimeoutReads)
      BY <1>7 DEF WaitNoFull
    <3> HIDE DEF len, eq
    <3>4. CASE UNCHANGED <<prev, same>>
      BY <1>4, <3>4
    <3>5. CASE prev' = [prev EXCEPT ![s] = len] /\ same' = [same EXCEPT ![s] = eq] /\ ~ (eq >= TimeoutReads)
      <4>1. eq \in 0 .. TimeoutReads
        BY <3>2, <3>5, RedisAssumption
      <4> QED
        BY <1>4, <3>1, <3>5, <4>1
    <3> QED
      BY <3>3, <3>4, <3>5
  <2>4. l \in SenderLocations
    BY DEF SenderLocations
  <2>5. sent[s] < Len(Send[s].items) /\ Send[s].items[sent[s] + 1] \in Keys
    BY <1>1, <2>1 DEF SenderTypes, Item
  <2>6. SenderAt(s, l, sent[s])
    BY <1>4, <2>1, <2>2, <2>5 DEF SenderAt
  <2> QED
    BY <1>1, <1>3, <2>3, <2>4, <2>6, SenderFrame
<1>8. CASE PushItem(s) \/ ExpireItem(s)
  <2>1. spc[s] \in {"push", "item_ttl"} /\ UNCHANGED <<prev, same>>
    BY <1>8 DEF PushItem, ExpireItem
  <2>2. sent[s] < Len(Send[s].items) /\ Send[s].items[sent[s] + 1] \in Keys
    BY <1>1, <2>1 DEF SenderTypes, Item
  <2>3. "item" \in SenderLocations /\ "item_ttl" \in SenderLocations
    BY DEF SenderLocations
  <2>4. CASE spc' = [spc EXCEPT ![s] = "item_ttl"] /\ UNCHANGED sent
    <3>1. SenderAt(s, "item_ttl", sent[s])
      BY <1>4, <2>2, <2>4 DEF SenderAt
    <3> QED
      BY <1>1, <1>3, <1>4, <2>1, <2>3, <3>1, SenderFrame
  <2>5. CASE spc' = [spc EXCEPT ![s] = "item"] /\ sent' = [sent EXCEPT ![s] = sent[s] + 1]
    <3>1. sent[s] + 1 \in Nat /\ sent[s] + 1 <= Len(Send[s].items)
      BY <1>1, <2>2
    <3>2. SenderAt(s, "item", sent[s] + 1)
      BY <2>5 DEF SenderAt
    <3> QED
      BY <1>1, <1>3, <1>4, <2>1, <2>3, <3>1, <3>2, SenderFrame
  <2> QED
    BY <1>8, <2>4, <2>5 DEF PushItem, ExpireItem, Goto, Sent
<1> QED
  BY <1>5, <1>6, <1>7, <1>8 DEF SendStep

\* The message a sender pushes, and the list it goes to.
EndKind(s) == IF Send[s].call = "send_all" THEN "end" ELSE "exit"

LEMMA SenderPushes ==
  ASSUME TypeOK, NEW s \in Senders
  PROVE  /\ PushItem(s) => /\ Item(s) \in Keys /\ Msg(s, "item", FALSE) \in Messages
                           /\ RPush(Item(s), Msg(s, "item", FALSE))
         /\ PushEnd(s) => /\ Send[s].key \in Keys
                          /\ Msg(s, EndKind(s), Send[s].ttl) \in Messages
                          /\ RPush(Send[s].key, Msg(s, EndKind(s), Send[s].ttl))
         /\ WaitNoFull(s) \/ ExpireItem(s) => Item(s) \in Keys
<1>1. SenderTypes /\ Send[s].key \in Keys /\ Send[s].ttl \in BOOLEAN
  BY TypeParts, Arguments DEF OtherTypes
<1>2. PushItem(s) \/ WaitNoFull(s) \/ ExpireItem(s) => Item(s) \in Keys
  BY <1>1 DEF PushItem, WaitNoFull, ExpireItem, SenderTypes
<1>3. Msg(s, "item", FALSE) \in Messages /\ Msg(s, EndKind(s), Send[s].ttl) \in Messages
  BY <1>1 DEF Msg, Messages, EndKind
<1> QED
  BY <1>1, <1>2, <1>3 DEF PushItem, PushEnd, EndKind

\* A sender's steps keep the types of redis.
LEMMA SenderKeepsRedis ==
  ASSUME TypeOK, NEW s \in Senders, SendStep(s)
  PROVE  RedisTypes'
<1>1. RedisTypes /\ Send[s].key \in Keys
  BY TypeParts, Arguments DEF OtherTypes
<1>2. CASE Start(s)
  <2>1. /\ expires' = [expires EXCEPT ![Send[s].key] = FALSE]
        /\ queue' = queue \/ queue' = [queue EXCEPT ![Send[s].key] = <<>>]
    BY <1>2 DEF Start
  <2> QED
    BY <1>1, <2>1, ClearTypes
<1>3. CASE NextItem(s) \/ WaitNoFull(s) \/ NoEnd(s)
  BY <1>1, <1>3 DEF NextItem, WaitNoFull, NoEnd, redisVars, RedisTypes
<1>4. CASE PushItem(s)
  BY <1>1, <1>4, SenderPushes, PushTypes
<1>5. CASE PushEnd(s)
  BY <1>1, <1>5, SenderPushes, PushTypes
<1>6. CASE ExpireItem(s)
  BY <1>1, <1>6, SenderPushes, ExpireTypes DEF ExpireItem
<1>7. CASE ExpireEnd(s)
  BY <1>1, <1>7, ExpireTypes DEF ExpireEnd
<1> QED
  BY <1>2, <1>3, <1>4, <1>5, <1>6, <1>7 DEF SendStep

\* The types depend on the variables they speak of, and on the arguments.
LEMMA SenderTypesKept ==
  ASSUME SenderTypes, UNCHANGED <<senderVars, scenario>>
  PROVE  SenderTypes'
<1>1. UNCHANGED <<spc, sent, prev, same>> /\ Send' = Send
  BY DEF senderVars, Send
<1>2. \A s \in Senders : Item(s)' = Item(s)
  BY <1>1 DEF Item
<1> QED
  BY <1>1, <1>2 DEF SenderTypes

LEMMA ReceiverTypesKept ==
  ASSUME ReceiverTypes, UNCHANGED receiverVars
  PROVE  ReceiverTypes'
BY DEF ReceiverTypes, receiverVars

\* What a receiver takes, and from where.
LEMMA Received ==
  ASSUME TypeOK, NEW r \in Receivers, Receive(r)
  PROVE  \E k \in Keys, m \in Messages :
           /\ queue[k] # <<>> /\ m = Head(queue[k]) /\ Pop(k)
           /\ \/ m.kind \notin EndTypes(r) /\ UNCHANGED <<rpc, rest, held, endedBy>>
              \/ /\ m.kind \in EndTypes(r) /\ RGoto(r, "forward")
                 /\ held' = [held EXCEPT ![r] = <<k, m>>] /\ UNCHANGED <<rest, endedBy>>
              \/ m.kind \in EndTypes(r) /\ Ends(r, k, m) /\ UNCHANGED held
<1> DEFINE i == Min(NonEmpty(r))
           k == rest[r][i]
<1>1. RedisTypes /\ ReceiverTypes
  BY TypeParts
<1>2. Len(rest[r]) \in Nat /\ rest[r] \in Seq(Keys)
  BY <1>1, LenProperties DEF ReceiverTypes
<1>3. i \in NonEmpty(r)
  <2>1. NonEmpty(r) \in SUBSET Nat
    BY <1>2 DEF NonEmpty
  <2>2. NonEmpty(r) # {}
    BY DEF Receive
  <2> QED
    BY <2>1, <2>2, LeastExists
<1>4. k \in Keys /\ queue[k] # <<>>
  <2>1. i \in 1 .. Len(rest[r]) /\ queue[k] # <<>>
    BY <1>3 DEF NonEmpty
  <2> QED
    BY <1>2, <2>1, ElementOfSeq
<1>5. Head(queue[k]) \in Messages
  BY <1>1, <1>4, PoppedList DEF RedisTypes
<1> QED
  BY <1>4, <1>5 DEF Receive

LEMMA EndsTypes ==
  ASSUME ReceiverTypes, NEW r \in Receivers, NEW k \in Keys, NEW m \in Messages,
         Ends(r, k, m), held' = held \/ held' = [held EXCEPT ![r] = NoMsg]
  PROVE  ReceiverTypes'
<1>1. RemoveFirst(rest[r], k) \in Seq(Keys)
  BY RemoveFirstType DEF ReceiverTypes
<1>2. rest' \in [Receivers -> Seq(Keys)]
  BY <1>1 DEF Ends, ReceiverTypes
<1>3. PICK l \in {"recv", "done"} : rpc' = [rpc EXCEPT ![r] = l]
  BY DEF Ends, RGoto
<1>4. endedBy' \in [Receivers -> Messages \union {NoMsg}]
  BY DEF Ends, ReceiverTypes
<1>5. held' \in [Receivers -> (Keys \X Messages) \union {NoMsg}]
  BY DEF ReceiverTypes
<1>6. ASSUME NEW q \in Receivers, rpc'[q] \in {"forward", "forward_ttl"}
      PROVE  held'[q] \in Keys \X Messages
  <2>1. q # r
    BY <1>3, <1>6 DEF ReceiverTypes
  <2> QED
    BY <1>3, <1>6, <2>1 DEF ReceiverTypes
<1> QED
  BY <1>2, <1>3, <1>4, <1>5, <1>6 DEF ReceiverTypes

LEMMA ReceiverMoves ==
  ASSUME TypeOK, NEW r \in Receivers, RecvStep(r) \/ Kill(r)
  PROVE  RedisTypes' /\ ReceiverTypes' /\ UNCHANGED <<senderVars, scenario, expiries>>
<1>1. RedisTypes /\ ReceiverTypes
  BY TypeParts
<1>2. UNCHANGED <<senderVars, scenario, expiries>>
  BY DEF RecvStep, Receive, Forward, ForwardExpire, NothingThere, Kill, faultVars
<1> SUFFICES RedisTypes' /\ ReceiverTypes'
  BY <1>2
<1>3. rpc[r] \in {"forward", "forward_ttl"} =>
         \E k \in Keys, m \in Messages : held[r] = <<k, m>> /\ held[r][1] = k /\ held[r][2] = m
  BY <1>1 DEF ReceiverTypes
<1>4. CASE Receive(r)
  <2>1. PICK k \in Keys, m \in Messages :
           /\ queue[k] # <<>> /\ m = Head(queue[k]) /\ Pop(k)
           /\ \/ m.kind \notin EndTypes(r) /\ UNCHANGED <<rpc, rest, held, endedBy>>
              \/ /\ m.kind \in EndTypes(r) /\ RGoto(r, "forward")
                 /\ held' = [held EXCEPT ![r] = <<k, m>>] /\ UNCHANGED <<rest, endedBy>>
              \/ m.kind \in EndTypes(r) /\ Ends(r, k, m) /\ UNCHANGED held
    BY <1>4, Received
  <2>2. RedisTypes'
    BY <1>1, <2>1, PopTypes
  <2>3. CASE UNCHANGED <<rpc, rest, held, endedBy>>
    BY <1>1, <2>2, <2>3 DEF ReceiverTypes
  <2>4. CASE /\ RGoto(r, "forward")
             /\ held' = [held EXCEPT ![r] = <<k, m>>] /\ UNCHANGED <<rest, endedBy>>
    <3>1. held' \in [Receivers -> (Keys \X Messages) \union {NoMsg}]
      BY <1>1, <2>4 DEF ReceiverTypes
    <3>2. ASSUME NEW q \in Receivers, rpc'[q] \in {"forward", "forward_ttl"}
          PROVE  held'[q] \in Keys \X Messages
      BY <1>1, <2>4, <3>2 DEF ReceiverTypes, RGoto
    <3> QED
      BY <1>1, <2>2, <2>4, <3>1, <3>2 DEF ReceiverTypes, RGoto
  <2>5. CASE Ends(r, k, m) /\ UNCHANGED held
    BY <1>1, <2>2, <2>5, EndsTypes
  <2> QED
    BY <2>1, <2>3, <2>4, <2>5
<1>5. CASE Forward(r)
  <2>1. PICK k \in Keys, m \in Messages : held[r] = <<k, m>> /\ held[r][1] = k /\ held[r][2] = m
    BY <1>3, <1>5 DEF Forward
  <2>2. PICK l \in {"raised", "forward_ttl"} : rpc' = [rpc EXCEPT ![r] = l]
    BY <1>5 DEF Forward, RGoto
  <2>3. ReceiverTypes'
    BY <1>1, <1>5, <2>1, <2>2 DEF Forward, ReceiverTypes
  <2>4. UNCHANGED redisVars \/ RPush(k, m)
    BY <1>5, <2>1 DEF Forward
  <2> QED
    BY <1>1, <2>3, <2>4, PushTypes DEF redisVars, RedisTypes
<1>6. CASE ForwardExpire(r)
  <2>1. PICK k \in Keys, m \in Messages : held[r] = <<k, m>> /\ held[r][1] = k /\ held[r][2] = m
    BY <1>3, <1>6 DEF ForwardExpire
  <2>2. ExpireKey(k) /\ Ends(r, k, m) /\ held' = [held EXCEPT ![r] = NoMsg]
    BY <1>6, <2>1 DEF ForwardExpire
  <2> QED
    BY <1>1, <2>2, ExpireTypes, EndsTypes
<1>7. CASE NothingThere(r) \/ Kill(r)
  <2>1. /\ \E l \in {"done", "killed"} : rpc' = [rpc EXCEPT ![r] = l]
        /\ UNCHANGED <<queue, expires, rest, held, endedBy>>
    BY <1>7 DEF NothingThere, Kill, RGoto, redisVars
  <2> QED
    BY <1>1, <2>1 DEF RedisTypes, ReceiverTypes
<1> QED
  BY <1>4, <1>5, <1>6, <1>7 DEF RecvStep

LEMMA TypeStep == TypeOK /\ [Next]_vars => TypeOK'
<1> SUFFICES ASSUME TypeOK, [Next]_vars PROVE TypeOK'
  OBVIOUS
<1>1. RedisTypes /\ SenderTypes /\ ReceiverTypes /\ OtherTypes
  BY TypeParts
<1>2. ASSUME NEW s \in Senders, SendStep(s) PROVE TypeOK'
  <2>1. SenderTypes' /\ RedisTypes' /\ UNCHANGED <<receiverVars, faultVars, scenario>>
    BY <1>2, SenderMoves, SenderKeepsRedis
  <2>2. ReceiverTypes' /\ OtherTypes'
    BY <1>1, <2>1 DEF ReceiverTypes, OtherTypes, receiverVars, faultVars
  <2> QED
    BY <2>1, <2>2, TypePartsNext
<1>3. ASSUME NEW r \in Receivers, RecvStep(r) \/ Kill(r) PROVE TypeOK'
  <2>1. RedisTypes' /\ ReceiverTypes' /\ UNCHANGED <<senderVars, scenario, expiries>>
    BY <1>3, ReceiverMoves
  <2>2. SenderTypes'
    BY <1>1, <2>1, SenderTypesKept
  <2>3. kills' \in 0 .. MaxKills
    BY <1>1, <1>3, RedisAssumption
       DEF RecvStep, Receive, Forward, ForwardExpire, NothingThere, Kill, faultVars, OtherTypes
  <2> QED
    BY <1>1, <2>1, <2>2, <2>3, TypePartsNext DEF OtherTypes
<1>4. ASSUME NEW k \in Keys, Expired(k) PROVE TypeOK'
  <2>1. RedisTypes'
    <3>1. /\ expires' = [expires EXCEPT ![k] = FALSE]
          /\ queue' = [queue EXCEPT ![k] = <<>>]
      BY <1>4 DEF Expired
    <3> QED
      BY <1>1, <3>1, ClearTypes
  <2>2. UNCHANGED <<senderVars, receiverVars, scenario, kills>> /\ expiries' \in 0 .. MaxExpiries
    BY <1>1, <1>4, RedisAssumption DEF Expired, OtherTypes
  <2>3. SenderTypes' /\ ReceiverTypes' /\ OtherTypes'
    BY <1>1, <2>2, SenderTypesKept, ReceiverTypesKept DEF OtherTypes
  <2> QED
    BY <2>1, <2>3, TypePartsNext
<1>5. CASE UNCHANGED vars
  <2>1. UNCHANGED <<scenario, senderVars, receiverVars, faultVars>> /\ UNCHANGED redisVars
    BY <1>5 DEF vars
  <2>2. RedisTypes'
    BY <1>1, <2>1 DEF RedisTypes, redisVars
  <2>3. SenderTypes' /\ ReceiverTypes'
    BY <1>1, <2>1, SenderTypesKept, ReceiverTypesKept
  <2>4. OtherTypes'
    BY <1>1, <2>1 DEF OtherTypes, faultVars
  <2> QED
    BY <2>2, <2>3, <2>4, TypePartsNext
<1> QED
  BY <1>2, <1>3, <1>4, <1>5 DEF Next

\* Type correctness of every run.
THEOREM RedisTypeCorrectness == Spec => []TypeOK
BY InitTypes, TypeStep, PTL DEF Spec

-----------------------------------------------------------------------------
(* How the lists change. *)

\* A step leaves the list of k as it is, clears it or takes its head ...
Shrinks(k) ==
    \E d \in Nat : \A i \in DOMAIN queue'[k] :
        i + d \in DOMAIN queue[k] /\ queue'[k][i] = queue[k][i + d]
\* ... or puts m at its end.
Grows(k, m) == queue'[k] = Append(queue[k], m)

LEMMA SameShrinks ==
  ASSUME RedisTypes, NEW k \in Keys, queue'[k] = queue[k]
  PROVE  Shrinks(k)
<1>1. \A i \in DOMAIN queue[k] : i + 0 \in DOMAIN queue[k] /\ queue[k][i] = queue[k][i + 0]
  BY ListFacts DEF RedisTypes
<1> QED
  BY <1>1 DEF Shrinks

LEMMA ClearedShrinks ==
  ASSUME RedisTypes, NEW k \in Keys, queue'[k] = <<>>
  PROVE  Shrinks(k)
<1>1. DOMAIN queue'[k] = {}
  BY EmptySeq
<1> QED
  BY <1>1 DEF Shrinks

LEMMA PopShrinks ==
  ASSUME RedisTypes, NEW k \in Keys, queue[k] # <<>>, queue'[k] = Tail(queue[k])
  PROVE  Shrinks(k)
<1>1. PICK l \in Seq(Messages), t \in Seq(Messages) : l = queue[k] /\ t = Tail(queue[k])
  BY PoppedList DEF RedisTypes
<1>2. \A i \in 1 .. Len(t) : i + 1 \in 1 .. Len(l) /\ t[i] = l[i + 1]
  BY <1>1, PoppedList DEF RedisTypes
<1>3. DOMAIN t = 1 .. Len(t) /\ DOMAIN l = 1 .. Len(l)
  BY ListFacts
<1> QED
  BY <1>1, <1>2, <1>3 DEF Shrinks

LEMMA QueueMoves ==
  ASSUME TypeOK, [Next]_vars, NEW k \in Keys
  PROVE  \/ Shrinks(k)
         \/ \E s \in Senders : PushItem(s) /\ k = Item(s) /\ Grows(k, Msg(s, "item", FALSE))
         \/ \E s \in Senders : /\ PushEnd(s) /\ k = Send[s].key
                               /\ Grows(k, Msg(s, EndKind(s), Send[s].ttl))
         \/ \E r \in Receivers, m \in Messages : held[r] = <<k, m>> /\ Forward(r) /\ Grows(k, m)
<1>1. RedisTypes /\ ReceiverTypes /\ scenario \in Scenarios
  BY TypeParts DEF OtherTypes
<1>2. queue \in [Keys -> Seq(Messages)]
  BY <1>1 DEF RedisTypes
<1>3. ASSUME NEW l \in Keys, NEW m, RPush(l, m)
      PROVE  Shrinks(k) \/ (l = k /\ Grows(k, m))
  <2>1. CASE l = k
    BY <1>2, <1>3, <2>1 DEF RPush, Grows
  <2>2. CASE l # k
    BY <1>1, <1>2, <1>3, <2>2, SameShrinks DEF RPush
  <2> QED
    BY <2>1, <2>2
<1>4. ASSUME NEW l \in Keys, queue' = queue \/ queue' = [queue EXCEPT ![l] = <<>>]
      PROVE  Shrinks(k)
  BY <1>1, <1>2, <1>4, SameShrinks, ClearedShrinks
<1>5. ASSUME NEW s \in Senders, SendStep(s)
      PROVE  \/ Shrinks(k)
             \/ PushItem(s) /\ k = Item(s) /\ Grows(k, Msg(s, "item", FALSE))
             \/ PushEnd(s) /\ k = Send[s].key /\ Grows(k, Msg(s, EndKind(s), Send[s].ttl))
  <2>1. CASE PushItem(s)
    BY <1>3, <2>1, SenderPushes
  <2>2. CASE PushEnd(s)
    BY <1>3, <2>2, SenderPushes
  <2>3. CASE Start(s)
    <3>1. Send[s].key \in Keys
      BY <1>1, Arguments
    <3> QED
      BY <1>4, <2>3, <3>1 DEF Start
  <2>4. CASE NextItem(s) \/ WaitNoFull(s) \/ ExpireItem(s) \/ ExpireEnd(s) \/ NoEnd(s)
    BY <1>1, <2>4, SameShrinks
       DEF NextItem, WaitNoFull, ExpireItem, ExpireEnd, NoEnd, ExpireKey, redisVars
  <2> QED
    BY <1>5, <2>1, <2>2, <2>3, <2>4 DEF SendStep
<1>6. ASSUME NEW r \in Receivers, RecvStep(r) \/ Kill(r)
      PROVE  \/ Shrinks(k)
             \/ \E m \in Messages : held[r] = <<k, m>> /\ Forward(r) /\ Grows(k, m)
  <2>1. CASE Receive(r)
    <3>1. PICK l \in Keys : queue[l] # <<>> /\ Pop(l)
      BY <2>1, Received
    <3>2. CASE l = k
      BY <1>1, <1>2, <3>1, <3>2, PopShrinks DEF Pop
    <3>3. CASE l # k
      BY <1>1, <1>2, <3>1, <3>3, SameShrinks DEF Pop
    <3> QED
      BY <3>2, <3>3
  <2>2. CASE Forward(r)
    <3>1. PICK l \in Keys, m \in Messages : held[r] = <<l, m>> /\ held[r][1] = l /\ held[r][2] = m
      BY <1>1, <2>2 DEF Forward, ReceiverTypes
    <3>2. CASE RPush(l, m)
      BY <1>3, <2>2, <3>1, <3>2
    <3>3. CASE UNCHANGED queue
      BY <1>1, <3>3, SameShrinks
    <3> QED
      BY <2>2, <3>1, <3>2, <3>3 DEF Forward, redisVars
  <2>3. CASE ForwardExpire(r) \/ NothingThere(r) \/ Kill(r)
    BY <1>1, <2>3, SameShrinks DEF ForwardExpire, NothingThere, Kill, ExpireKey, redisVars
  <2> QED
    BY <1>6, <2>1, <2>2, <2>3 DEF RecvStep
<1>7. ASSUME NEW l \in Keys, Expired(l) PROVE Shrinks(k)
  BY <1>4, <1>7 DEF Expired
<1>8. CASE UNCHANGED vars
  BY <1>1, <1>8, SameShrinks DEF vars, redisVars
<1> QED
  BY <1>5, <1>6, <1>7, <1>8 DEF Next

\* A sender that is done stays done; only its own steps move a sender.
LEMMA SendersMove ==
  ASSUME TypeOK, [Next]_vars
  PROVE  /\ scenario' = scenario /\ Send' = Send /\ recv' = recv
         /\ \A s \in Senders : spc[s] = "done" => spc'[s] = "done"
         /\ \A s \in Senders : SendStep(s) \/ (spc'[s] = spc[s] /\ sent'[s] = sent[s])
<1>1. SenderTypes
  BY TypeParts
<1>2. scenario' = scenario
  <2>1. ASSUME NEW s \in Senders, SendStep(s) PROVE scenario' = scenario
    BY <2>1, SenderMoves
  <2>2. ASSUME NEW r \in Receivers, RecvStep(r) \/ Kill(r) PROVE scenario' = scenario
    BY <2>2, ReceiverMoves
  <2> QED
    BY <2>1, <2>2 DEF Next, Expired, vars
<1>3. ASSUME NEW s \in Senders, NEW u \in Senders, SendStep(u), u # s
      PROVE  spc'[s] = spc[s] /\ sent'[s] = sent[s]
  <2>1. spc' = spc \/ \E l : spc' = [spc EXCEPT ![u] = l]
    BY <1>3 DEF SendStep, Start, NextItem, WaitNoFull, PushItem, ExpireItem, ExpireEnd, PushEnd,
       NoEnd, Goto
  <2>2. sent' = sent \/ \E n : sent' = [sent EXCEPT ![u] = n]
    BY <1>3 DEF SendStep, Start, NextItem, WaitNoFull, PushItem, ExpireItem, ExpireEnd, PushEnd,
       NoEnd, Sent
  <2> QED
    BY <1>1, <1>3, <2>1, <2>2 DEF SenderTypes
<1>4. ASSUME NEW s \in Senders PROVE SendStep(s) \/ (spc'[s] = spc[s] /\ sent'[s] = sent[s])
  <2>1. ASSUME NEW u \in Senders, SendStep(u)
        PROVE  SendStep(s) \/ (spc'[s] = spc[s] /\ sent'[s] = sent[s])
    BY <1>3, <2>1
  <2>2. ASSUME NEW r \in Receivers, RecvStep(r) \/ Kill(r)
        PROVE  spc'[s] = spc[s] /\ sent'[s] = sent[s]
    BY <2>2, ReceiverMoves DEF senderVars
  <2> QED
    BY <2>1, <2>2 DEF Next, Expired, vars, senderVars
<1>5. ASSUME NEW s \in Senders, spc[s] = "done" PROVE spc'[s] = "done"
  <2>1. ~ SendStep(s)
    BY <1>5 DEF SendStep, Start, NextItem, WaitNoFull, PushItem, ExpireItem, ExpireEnd, PushEnd, NoEnd
  <2> QED
    BY <1>4, <1>5, <2>1
<1> QED
  BY <1>2, <1>4, <1>5 DEF Send, recv

-----------------------------------------------------------------------------
(* An end command comes behind all the items of its sender.                *)

\* The sender of end command m is done, and none of its items is left in the
\* list that the command was sent to.
Gone(m) ==
    /\ spc[m.s] = "done"
    /\ \A i \in DOMAIN queue[Send[m.s].key] :
          queue[Send[m.s].key][i].s = m.s => queue[Send[m.s].key][i].kind # "item"
QueueInv == \A k \in Keys : \A i \in DOMAIN queue[k] :
    queue[k][i].kind = "end" => k = Send[queue[k][i].s].key /\ spc[queue[k][i].s] = "done"
OrderInv == \A k \in Keys : \A i, j \in DOMAIN queue[k] :
    i < j /\ queue[k][i].kind = "end" /\ queue[k][j].s = queue[k][i].s => queue[k][j].kind # "item"
GoneInv == \A r \in Receivers :
    /\ held[r] # NoMsg => held[r][2].kind # "item"
    /\ held[r] # NoMsg /\ held[r][2].kind = "end" =>
          Gone(held[r][2]) /\ held[r][1] = Send[held[r][2].s].key
    /\ endedBy[r] # NoMsg /\ endedBy[r].kind = "end" => Gone(endedBy[r])
EndInv == TypeOK /\ QueueInv /\ OrderInv /\ GoneInv

\* What a list gets: an item of a sender that is pushing, or a command; an end
\* comes from a sender that is done with this step at the latest.
Pushed(k, m) ==
    /\ Grows(k, m)
    /\ \/ m.kind = "item" /\ spc[m.s] = "push"
       \/ m.kind # "item" /\ (m.kind = "end" => k = Send[m.s].key /\ spc'[m.s] = "done")

LEMMA MessageFields == \A m \in Messages : m.s \in Senders /\ m.kind \in {"item", "end", "exit"}
BY DEF Messages

LEMMA ListMoves ==
  ASSUME EndInv, [Next]_vars, NEW k \in Keys
  PROVE  Shrinks(k) \/ \E m \in Messages : Pushed(k, m)
<1>1. TypeOK /\ GoneInv
  BY DEF EndInv
<1>2. ASSUME NEW s \in Senders, PushItem(s), k = Item(s), Grows(k, Msg(s, "item", FALSE))
      PROVE  \E m \in Messages : Pushed(k, m)
  <2>1. Msg(s, "item", FALSE) \in Messages /\ spc[s] = "push"
    BY <1>1, <1>2, SenderPushes DEF PushItem
  <2> QED
    BY <1>2, <2>1 DEF Pushed, Msg
<1>3. ASSUME NEW s \in Senders, PushEnd(s), k = Send[s].key, Grows(k, Msg(s, EndKind(s), Send[s].ttl))
      PROVE  \E m \in Messages : Pushed(k, m)
  <2>1. Msg(s, EndKind(s), Send[s].ttl) \in Messages /\ EndKind(s) # "item"
    BY <1>1, <1>3, SenderPushes DEF EndKind
  <2>2. spc'[s] = "done"
    BY <1>1, <1>3, TypeParts DEF PushEnd, Goto, SenderTypes
  <2> QED
    BY <1>3, <2>1, <2>2 DEF Pushed, Msg
<1>4. ASSUME NEW r \in Receivers, NEW m \in Messages, held[r] = <<k, m>>, Forward(r), Grows(k, m)
      PROVE  \E n \in Messages : Pushed(k, n)
  <2>1. held[r][1] = k /\ held[r][2] = m
    BY <1>4
  <2>2. held[r] # NoMsg
    BY <1>4 DEF NoMsg
  <2>3. m.kind # "item"
    BY <1>1, <2>1, <2>2 DEF GoneInv
  <2>4. m.kind = "end" => k = Send[m.s].key /\ spc[m.s] = "done"
    BY <1>1, <2>1, <2>2 DEF GoneInv, Gone
  <2>5. m.kind = "end" => spc'[m.s] = "done"
    BY <1>1, <2>4, SendersMove, MessageFields
  <2> QED
    BY <1>4, <2>3, <2>4, <2>5 DEF Pushed
<1> QED
  BY <1>1, <1>2, <1>3, <1>4, QueueMoves

\* The messages of a list after a step.
LEMMA ListAfter ==
  ASSUME EndInv, TypeOK', NEW k \in Keys, NEW i \in DOMAIN queue'[k]
  PROVE  /\ i \in Nat /\ queue'[k][i] \in Messages
         /\ \A m \in Messages : Pushed(k, m) =>
              \/ i \in DOMAIN queue[k] /\ queue'[k][i] = queue[k][i]
              \/ i = Len(queue[k]) + 1 /\ queue'[k][i] = m
<1>1. queue[k] \in Seq(Messages) /\ queue'[k] \in Seq(Messages)
  BY DEF EndInv, TypeOK
<1>2. /\ Len(queue[k]) \in Nat /\ DOMAIN queue[k] = 1 .. Len(queue[k])
      /\ Len(queue'[k]) \in Nat /\ DOMAIN queue'[k] = 1 .. Len(queue'[k])
      /\ queue'[k][i] \in Messages
  BY <1>1, ListFacts
<1>3. ASSUME NEW m \in Messages, Pushed(k, m)
      PROVE  \/ i \in DOMAIN queue[k] /\ queue'[k][i] = queue[k][i]
             \/ i = Len(queue[k]) + 1 /\ queue'[k][i] = m
  <2>1. queue'[k] = Append(queue[k], m)
    BY <1>3 DEF Pushed, Grows
  <2>2. /\ Len(queue'[k]) = Len(queue[k]) + 1
        /\ \A j \in 1 .. Len(queue[k]) : queue'[k][j] = queue[k][j]
        /\ queue'[k][Len(queue[k]) + 1] = m
    BY <1>1, <2>1, PushedList
  <2>3. PICK n \in Nat : n = Len(queue[k])
    BY <1>2
  <2>4. i \in 1 .. n \/ i = n + 1
    BY <1>2, <2>2, <2>3
  <2> QED
    BY <1>2, <2>2, <2>3, <2>4
<1> QED
  BY <1>2, <1>3

LEMMA GoneStays ==
  ASSUME EndInv, [Next]_vars, TypeOK', NEW m \in Messages, Gone(m)
  PROVE  Gone(m)'
<1> DEFINE k == Send[m.s].key
<1>1. TypeOK /\ m.s \in Senders /\ k \in Keys
  BY MessageFields, TypeParts, Arguments DEF EndInv, OtherTypes
<1>2. Send' = Send /\ spc'[m.s] = "done" /\ spc[m.s] = "done"
  BY <1>1, SendersMove DEF Gone
<1>3. \A i \in DOMAIN queue[k] : queue[k][i].s = m.s => queue[k][i].kind # "item"
  BY DEF Gone
<1> HIDE DEF k
<1>4. ASSUME NEW i \in DOMAIN queue'[k], queue'[k][i].s = m.s
      PROVE  queue'[k][i].kind # "item"
  <2>1. CASE Shrinks(k)
    BY <1>3, <1>4, <2>1 DEF Shrinks
  <2>2. ASSUME NEW n \in Messages, Pushed(k, n) PROVE queue'[k][i].kind # "item"
    <3>1. CASE i \in DOMAIN queue[k] /\ queue'[k][i] = queue[k][i]
      BY <1>3, <1>4, <3>1
    <3>2. CASE queue'[k][i] = n
      BY <1>2, <1>4, <2>2, <3>2 DEF Pushed
    <3> QED
      BY <1>1, <2>2, <3>1, <3>2, ListAfter
  <2> QED
    BY <1>1, <2>1, <2>2, ListMoves
<1> QED
  BY <1>2, <1>4 DEF Gone, k

LEMMA QueueStep ==
  ASSUME EndInv, [Next]_vars, TypeOK'
  PROVE  QueueInv'
<1>1. TypeOK /\ QueueInv /\ Send' = Send
  BY SendersMove DEF EndInv
<1>2. ASSUME NEW k \in Keys, NEW i \in DOMAIN queue'[k], queue'[k][i].kind = "end"
      PROVE  k = Send[queue'[k][i].s].key /\ spc'[queue'[k][i].s] = "done"
  <2>1. ASSUME NEW j \in DOMAIN queue[k], queue'[k][i] = queue[k][j]
        PROVE  k = Send[queue'[k][i].s].key /\ spc'[queue'[k][i].s] = "done"
    <3>1. k = Send[queue'[k][i].s].key /\ spc[queue'[k][i].s] = "done"
      BY <1>1, <1>2, <2>1 DEF QueueInv
    <3>2. queue'[k][i].s \in Senders
      BY ListAfter, MessageFields
    <3> QED
      BY <1>1, <3>1, <3>2, SendersMove
  <2>2. CASE Shrinks(k)
    <3>1. PICK j \in DOMAIN queue[k] : queue'[k][i] = queue[k][j]
      BY <2>2 DEF Shrinks
    <3> QED
      BY <2>1, <3>1
  <2>3. ASSUME NEW m \in Messages, Pushed(k, m)
        PROVE  k = Send[queue'[k][i].s].key /\ spc'[queue'[k][i].s] = "done"
    <3>1. CASE i \in DOMAIN queue[k] /\ queue'[k][i] = queue[k][i]
      BY <2>1, <3>1
    <3>2. CASE queue'[k][i] = m
      BY <1>2, <2>3, <3>2 DEF Pushed
    <3> QED
      BY <2>3, <3>1, <3>2, ListAfter
  <2> QED
    BY <2>2, <2>3, ListMoves
<1> QED
  BY <1>1, <1>2 DEF QueueInv

LEMMA OrderStep ==
  ASSUME EndInv, [Next]_vars, TypeOK'
  PROVE  OrderInv'
<1>1. TypeOK /\ QueueInv /\ OrderInv
  BY DEF EndInv
<1>2. ASSUME NEW k \in Keys, NEW i \in DOMAIN queue'[k], NEW j \in DOMAIN queue'[k], i < j,
             queue'[k][i].kind = "end", queue'[k][j].s = queue'[k][i].s
      PROVE  queue'[k][j].kind # "item"
  <2>0. i \in Nat /\ j \in Nat /\ Len(queue[k]) \in Nat /\ DOMAIN queue[k] = 1 .. Len(queue[k])
    BY <1>1, ListAfter, ListFacts, TypeParts DEF RedisTypes
  <2>1. CASE Shrinks(k)
    <3>1. PICK d \in Nat : \A l \in DOMAIN queue'[k] :
             l + d \in DOMAIN queue[k] /\ queue'[k][l] = queue[k][l + d]
      BY <2>1 DEF Shrinks
    <3>2. i + d < j + d
      BY <1>2, <2>0, <3>1
    <3> QED
      BY <1>1, <1>2, <3>1, <3>2 DEF OrderInv
  <2>2. ASSUME NEW m \in Messages, Pushed(k, m)
        PROVE  queue'[k][j].kind # "item"
    <3>1. CASE i \in DOMAIN queue[k] /\ queue'[k][i] = queue[k][i]
      <4>1. spc[queue'[k][i].s] = "done"
        BY <1>1, <1>2, <3>1 DEF QueueInv
      <4>2. CASE j \in DOMAIN queue[k] /\ queue'[k][j] = queue[k][j]
        BY <1>1, <1>2, <3>1, <4>2 DEF OrderInv
      <4>3. CASE queue'[k][j] = m
        BY <1>2, <2>2, <4>1, <4>3 DEF Pushed
      <4> QED
        BY <2>2, <4>2, <4>3, ListAfter
    <3>2. CASE i = Len(queue[k]) + 1
      <4>1. j \in DOMAIN queue[k] \/ j = Len(queue[k]) + 1
        BY <2>2, ListAfter
      <4> QED
        BY <1>2, <2>0, <3>2, <4>1
    <3> QED
      BY <2>2, <3>1, <3>2, ListAfter
  <2> QED
    BY <2>1, <2>2, ListMoves
<1> QED
  BY <1>2 DEF OrderInv

\* The command at the head of a list leaves no item of its sender behind.
LEMMA HeadIsGone ==
  ASSUME EndInv, [Next]_vars, TypeOK', NEW k \in Keys, queue[k] # <<>>, Pop(k),
         NEW m \in Messages, m = Head(queue[k]), m.kind = "end"
  PROVE  Gone(m)' /\ k = Send'[m.s].key
<1>1. TypeOK /\ QueueInv /\ OrderInv /\ Send' = Send
  BY SendersMove DEF EndInv
<1>2. queue[k] \in Seq(Messages) /\ queue' = [queue EXCEPT ![k] = Tail(queue[k])]
      /\ queue'[k] = Tail(queue[k]) /\ queue'[k] \in Seq(Messages)
  BY <1>1 DEF TypeOK, Pop
<1>3. /\ m = queue[k][1] /\ 1 \in DOMAIN queue[k]
      /\ \A i \in DOMAIN queue'[k] : i \in Nat /\ i + 1 \in DOMAIN queue[k] /\ 1 < i + 1
                                     /\ queue'[k][i] = queue[k][i + 1]
  <2>1. PICK l \in Seq(Messages), t \in Seq(Messages) : l = queue[k] /\ t = queue'[k] /\ t = Tail(l)
    BY <1>2
  <2>2. /\ Head(l) = l[1] /\ Len(t) = Len(l) - 1
        /\ \A i \in 1 .. Len(t) : i + 1 \in 1 .. Len(l) /\ t[i] = l[i + 1]
    BY <2>1, PoppedList
  <2>3. /\ Len(l) \in Nat /\ Len(l) # 0 /\ DOMAIN l = 1 .. Len(l)
        /\ DOMAIN t = 1 .. Len(t) /\ Len(t) \in Nat
    BY <2>1, ListFacts
  <2> QED
    BY <2>1, <2>2, <2>3
<1>4. k = Send[m.s].key /\ spc[m.s] = "done"
  BY <1>1, <1>3 DEF QueueInv
<1>5. spc'[m.s] = "done"
  BY <1>1, <1>4, SendersMove, MessageFields
<1>6. ASSUME NEW i \in DOMAIN queue'[k], queue'[k][i].s = m.s
      PROVE  queue'[k][i].kind # "item"
  BY <1>1, <1>3, <1>6 DEF OrderInv
<1> QED
  BY <1>1, <1>4, <1>5, <1>6 DEF Gone

\* What a receiver holds, and what ended it, before and after a step.
LEMMA ReceiverChanges ==
  ASSUME TypeOK, [Next]_vars, NEW r \in Receivers
  PROVE  \/ held'[r] = held[r] /\ endedBy'[r] = endedBy[r]
         \/ \E k \in Keys, m \in Messages :
               /\ queue[k] # <<>> /\ m = Head(queue[k]) /\ Pop(k) /\ m.kind # "item"
               /\ \/ held'[r] = <<k, m>> /\ endedBy'[r] = endedBy[r]
                  \/ held'[r] = held[r] /\ endedBy'[r] = m
         \/ /\ held[r] \in Keys \X Messages /\ held'[r] = NoMsg
            /\ endedBy'[r] = endedBy[r] \/ endedBy'[r] = held[r][2]
<1>1. ReceiverTypes
  BY TypeParts
<1>2. ASSUME NEW q \in Receivers, RecvStep(q) \/ Kill(q), q # r
      PROVE  held'[r] = held[r] /\ endedBy'[r] = endedBy[r]
  <2>1. held' = held \/ \E x : held' = [held EXCEPT ![q] = x]
    BY <1>2 DEF RecvStep, Receive, Forward, ForwardExpire, NothingThere, Kill
  <2>2. endedBy' = endedBy \/ \E x : endedBy' = [endedBy EXCEPT ![q] = x]
    BY <1>2 DEF RecvStep, Receive, Forward, ForwardExpire, NothingThere, Kill, Ends
  <2> QED
    BY <1>1, <1>2, <2>1, <2>2 DEF ReceiverTypes
<1>3. CASE Receive(r)
  <2>1. PICK k \in Keys, m \in Messages :
           /\ queue[k] # <<>> /\ m = Head(queue[k]) /\ Pop(k)
           /\ \/ m.kind \notin EndTypes(r) /\ UNCHANGED <<rpc, rest, held, endedBy>>
              \/ /\ m.kind \in EndTypes(r) /\ RGoto(r, "forward")
                 /\ held' = [held EXCEPT ![r] = <<k, m>>] /\ UNCHANGED <<rest, endedBy>>
              \/ m.kind \in EndTypes(r) /\ Ends(r, k, m) /\ UNCHANGED held
    BY <1>1, <1>3, Received
  <2>2. m.kind \in EndTypes(r) => m.kind # "item"
    BY DEF EndTypes
  <2>3. Ends(r, k, m) => endedBy'[r] = m \/ endedBy'[r] = endedBy[r]
    BY <1>1 DEF Ends, ReceiverTypes
  <2>4. held' = [held EXCEPT ![r] = <<k, m>>] => held'[r] = <<k, m>>
    BY <1>1 DEF ReceiverTypes
  <2> QED
    BY <2>1, <2>2, <2>3, <2>4
<1>4. CASE ForwardExpire(r)
  <2>1. held[r] \in Keys \X Messages /\ held'[r] = NoMsg
    BY <1>1, <1>4 DEF ForwardExpire, ReceiverTypes
  <2>2. endedBy'[r] = held[r][2] \/ endedBy'[r] = endedBy[r]
    BY <1>1, <1>4 DEF ForwardExpire, Ends, ReceiverTypes
  <2> QED
    BY <2>1, <2>2
<1>5. CASE Forward(r) \/ NothingThere(r) \/ Kill(r)
  BY <1>5 DEF Forward, NothingThere, Kill
<1>6. ASSUME NEW s \in Senders, SendStep(s)
      PROVE  held'[r] = held[r] /\ endedBy'[r] = endedBy[r]
  BY <1>6, SenderMoves DEF receiverVars
<1> QED
  BY <1>2, <1>3, <1>4, <1>5, <1>6 DEF Next, RecvStep, Expired, vars, receiverVars

LEMMA GoneStep ==
  ASSUME EndInv, [Next]_vars, TypeOK'
  PROVE  GoneInv'
<1>1. TypeOK /\ GoneInv /\ Send' = Send /\ ReceiverTypes
  BY SendersMove, TypeParts DEF EndInv
<1> SUFFICES ASSUME NEW r \in Receivers
             PROVE  /\ held'[r] # NoMsg => held'[r][2].kind # "item"
                    /\ held'[r] # NoMsg /\ held'[r][2].kind = "end" =>
                          Gone(held[r][2])' /\ held'[r][1] = Send'[held'[r][2].s].key
                    /\ endedBy'[r] # NoMsg /\ endedBy'[r].kind = "end" => Gone(endedBy[r])'
  BY DEF GoneInv
<1>2. ASSUME held'[r] = held[r]
      PROVE  /\ held'[r] # NoMsg => held'[r][2].kind # "item"
             /\ held'[r] # NoMsg /\ held'[r][2].kind = "end" =>
                   Gone(held[r][2])' /\ held'[r][1] = Send'[held'[r][2].s].key
  <2>1. held[r] # NoMsg => held[r][2] \in Messages
    BY <1>1 DEF ReceiverTypes
  <2>2. PICK h, m : h = held[r] /\ m = h[2]
    OBVIOUS
  <2>3. h # NoMsg /\ m.kind = "end" => Gone(m)
    BY <1>1, <2>2 DEF GoneInv
  <2>4. h # NoMsg /\ m.kind = "end" => Gone(m)'
    BY <2>1, <2>2, <2>3, GoneStays
  <2> QED
    BY <1>1, <1>2, <2>2, <2>4 DEF GoneInv, Gone
<1>3. ASSUME endedBy'[r] = endedBy[r]
      PROVE  endedBy'[r] # NoMsg /\ endedBy'[r].kind = "end" => Gone(endedBy[r])'
  <2>1. PICK m : m = endedBy[r]
    OBVIOUS
  <2>2. m # NoMsg /\ m.kind = "end" => Gone(m)' 
    BY <1>1, <2>1, GoneStays DEF GoneInv, ReceiverTypes
  <2> QED
    BY <1>3, <2>1, <2>2 DEF Gone
<1>4. ASSUME NEW k \in Keys, NEW m \in Messages,
             queue[k] # <<>>, m = Head(queue[k]), Pop(k), m.kind # "item"
      PROVE  /\ held'[r] = <<k, m>> =>
                  /\ held'[r][2].kind # "item"
                  /\ held'[r][2].kind = "end" =>
                       Gone(held[r][2])' /\ held'[r][1] = Send'[held'[r][2].s].key
             /\ endedBy'[r] = m => (endedBy'[r].kind = "end" => Gone(endedBy[r])')
  <2>1. m.kind = "end" => Gone(m)' /\ k = Send'[m.s].key
    BY <1>4, HeadIsGone
  <2>2. ASSUME held'[r] = <<k, m>>
        PROVE  /\ held'[r][2].kind # "item"
               /\ held'[r][2].kind = "end" =>
                    Gone(held[r][2])' /\ held'[r][1] = Send'[held'[r][2].s].key
    <3>1. PICK h : h = held'[r] /\ h[1] = k /\ h[2] = m
      BY <2>2
    <3>2. h[2].kind = "end" => Gone(held[r][2])'
      BY <2>1, <3>1 DEF Gone
    <3> QED
      BY <1>4, <2>1, <3>1, <3>2
  <2>3. ASSUME endedBy'[r] = m
        PROVE  endedBy'[r].kind = "end" => Gone(endedBy[r])'
    BY <2>1, <2>3 DEF Gone
  <2> QED
    BY <2>2, <2>3
<1>5. ASSUME held[r] \in Keys \X Messages, endedBy'[r] = held[r][2]
      PROVE  endedBy'[r].kind = "end" => Gone(endedBy[r])'
  <2>1. PICK m \in Messages : m = held[r][2] /\ held[r] # NoMsg
    BY <1>5 DEF NoMsg
  <2>2. m.kind = "end" => Gone(m)'
    BY <1>1, <2>1, GoneStays DEF GoneInv
  <2> QED
    BY <1>5, <2>1, <2>2 DEF Gone
<1> QED
  BY <1>1, <1>2, <1>3, <1>4, <1>5, ReceiverChanges

LEMMA InitEnd == Init => EndInv
<1> SUFFICES ASSUME Init PROVE EndInv
  OBVIOUS
<1>1. TypeOK
  BY InitTypes
<1>2. \A k \in Keys : DOMAIN queue[k] = {}
  BY EmptySeq DEF Init
<1>3. \A r \in Receivers : held[r] = NoMsg /\ endedBy[r] = NoMsg
  BY DEF Init
<1> QED
  BY <1>1, <1>2, <1>3 DEF EndInv, QueueInv, OrderInv, GoneInv

LEMMA EndStep == EndInv /\ [Next]_vars => EndInv'
<1> SUFFICES ASSUME EndInv, [Next]_vars PROVE EndInv'
  OBVIOUS
<1>1. TypeOK'
  BY TypeStep DEF EndInv
<1> QED
  BY <1>1, QueueStep, OrderStep, GoneStep DEF EndInv

\* An end command that stops a receiver has left no item of its sender behind.
THEOREM EndsBehindItems == Spec => []EndMeansTaken
<1>1. EndInv => EndMeansTaken
  BY DEF EndInv, GoneInv, Gone, EndMeansTaken
<1> QED
  BY InitEnd, EndStep, <1>1, PTL DEF Spec

-----------------------------------------------------------------------------
(* The bound on the lists. *)

\* The items sender s has pushed since it last read the length of the list, at most.
Used(s) == IF spc[s] = "push" /\ (sent[s] + 1) % Send[s].step = 0 THEN 0
           ELSE IF spc[s] = "item_ttl" THEN ((sent[s] + 1) % Send[s].step) + 1
           ELSE (sent[s] % Send[s].step) + 1
UsedIn(k) == {x \in Unchecked(k) : x[2] <= Used(x[1])}
\* The senders of k that all watch its length and send nowhere else.
Bounding(k) == \A s \in SendersTo(k) :
    Send[s].max > 0 /\ \A n \in DOMAIN Send[s].items : Send[s].items[n] = k
\* The items of the list are those a sender found there when it last read the
\* length, and those pushed since.
BoundAt(k) ==
    \/ ItemsIn(k) = {}
    \/ \E s \in SendersTo(k) : Cardinality(ItemsIn(k)) <= Send[s].max + Cardinality(UsedIn(k))
BoundInv == EndInv /\ \A k \in Keys : Bounding(k) => BoundAt(k)

LEMMA UncheckedFacts ==
  ASSUME TypeOK, NEW k
  PROVE  /\ IsFiniteSet(Unchecked(k))
         /\ \A x : x \in Unchecked(k) <=>
              \E s \in SendersTo(k) : \E n \in 1 .. Send[s].step : x = <<s, n>>
<1>1. \A s \in SendersTo(k) : s \in Senders /\ Send[s].step \in Nat
  BY Arguments, TypeParts DEF SendersTo, OtherTypes
<1>2. IsFiniteSet(SendersTo(k))
  BY RedisAssumption, FS_Subset DEF SendersTo
<1> DEFINE Cells(s) == {s} \X (1 .. Send[s].step)
           All == {Cells(s) : s \in SendersTo(k)}
           f == [s \in SendersTo(k) |-> Cells(s)]
<1>3. IsFiniteSet(All)
  <2>1. f \in Surjection(SendersTo(k), All)
    BY DEF Surjection
  <2> HIDE DEF f, All
  <2> QED
    BY <1>2, <2>1, FS_Surjection
<1>4. ASSUME NEW T \in All PROVE IsFiniteSet(T)
  <2>1. PICK s \in SendersTo(k) : T = {s} \X (1 .. Send[s].step)
    OBVIOUS
  <2>2. PICK n \in Int : n = Send[s].step
    BY <1>1
  <2>3. PICK A, B : A = {s} /\ B = 1 .. n
    OBVIOUS
  <2>4. IsFiniteSet(A)
    BY <2>3, FS_Singleton
  <2>5. IsFiniteSet(B)
    BY <2>2, <2>3, FS_Interval
  <2>6. IsFiniteSet(A \X B)
    BY <2>4, <2>5, FS_Product
  <2>7. T = A \X B
    BY <2>1, <2>2, <2>3
  <2> QED
    BY <2>6, <2>7
<1>5. IsFiniteSet(UNION All)
  <2> HIDE DEF All
  <2> QED
    BY <1>3, <1>4, FS_UNION
<1>6. ASSUME NEW x
      PROVE  x \in Unchecked(k) <=>
               \E s \in SendersTo(k) : \E n \in 1 .. Send[s].step : x = <<s, n>>
  BY DEF Unchecked
<1> QED
  BY <1>5, <1>6 DEF Unchecked

LEMMA UsedInFacts ==
  ASSUME TypeOK, NEW k
  PROVE  /\ IsFiniteSet(UsedIn(k)) /\ Cardinality(UsedIn(k)) \in Nat
         /\ IsFiniteSet(Unchecked(k)) /\ Cardinality(Unchecked(k)) \in Nat
         /\ Cardinality(UsedIn(k)) <= Cardinality(Unchecked(k))
<1>1. IsFiniteSet(Unchecked(k))
  BY UncheckedFacts
<1>2. UsedIn(k) \in SUBSET Unchecked(k)
  BY DEF UsedIn
<1> QED
  BY <1>1, <1>2, FS_Subset, FS_CardinalityType

LEMMA ItemsInFacts ==
  ASSUME TypeOK, NEW k \in Keys
  PROVE  /\ IsFiniteSet(ItemsIn(k)) /\ Cardinality(ItemsIn(k)) \in Nat
         /\ Cardinality(ItemsIn(k)) <= Len(queue[k])
<1>1. PICK n \in Nat : n = Len(queue[k]) /\ DOMAIN queue[k] = 1 .. n
  BY ListFacts DEF TypeOK
<1>2. IsFiniteSet(1 .. n) /\ Cardinality(1 .. n) = n
  <2>1. 1 \in Int /\ n \in Int /\ (IF 1 > n THEN 0 ELSE n - 1 + 1) = n
    OBVIOUS
  <2> QED
    BY <2>1, FS_Interval
<1>3. ItemsIn(k) \in SUBSET (1 .. n)
  BY <1>1 DEF ItemsIn
<1> QED
  BY <1>1, <1>2, <1>3, FS_Subset, FS_CardinalityType

\* The same after a step.
LEMMA ItemsInNext ==
  ASSUME TypeOK', NEW k \in Keys
  PROVE  IsFiniteSet(ItemsIn(k)') /\ Cardinality(ItemsIn(k)') \in Nat
<1>1. PICK n \in Nat : DOMAIN queue'[k] = 1 .. n
  BY ListFacts DEF TypeOK
<1>2. IsFiniteSet(1 .. n)
  BY FS_Interval
<1>3. ItemsIn(k)' \in SUBSET (1 .. n)
  BY <1>1 DEF ItemsIn
<1> QED
  BY <1>2, <1>3, FS_Subset, FS_CardinalityType

LEMMA UsedInNext ==
  ASSUME TypeOK, Send' = Send, NEW k
  PROVE  Cardinality(UsedIn(k)') \in Nat
<1>1. Unchecked(k)' = Unchecked(k)
  BY DEF Unchecked, SendersTo
<1>2. UsedIn(k)' \in SUBSET Unchecked(k)
  BY <1>1 DEF UsedIn
<1> QED
  BY <1>2, UsedInFacts, FS_Subset, FS_CardinalityType

\* The items after a step.
LEMMA ItemsShrink ==
  ASSUME TypeOK, TypeOK', NEW k \in Keys, Shrinks(k)
  PROVE  Cardinality(ItemsIn(k)') <= Cardinality(ItemsIn(k))
<1>1. PICK d \in Nat : \A i \in DOMAIN queue'[k] :
         i + d \in DOMAIN queue[k] /\ queue'[k][i] = queue[k][i + d]
  BY DEF Shrinks
<1>2. PICK S, T : S = ItemsIn(k)' /\ T = ItemsIn(k)
  OBVIOUS
<1>3. \A i \in S : i \in Nat
  <2>1. queue'[k] \in Seq(Messages)
    BY DEF TypeOK
  <2>2. DOMAIN queue'[k] = 1 .. Len(queue'[k])
    BY <2>1, ListFacts
  <2> QED
    BY <1>2, <2>2 DEF ItemsIn
<1>4. \A i \in S : i + d \in T
  BY <1>1, <1>2 DEF ItemsIn
<1> DEFINE f == [i \in S |-> i + d]
<1>5. f \in Injection(S, T)
  BY <1>3, <1>4 DEF Injection, IsInjective
<1> HIDE DEF f
<1>6. IsFiniteSet(T)
  BY <1>2, ItemsInFacts
<1> QED
  BY <1>2, <1>5, <1>6, FS_Injection

LEMMA ItemsGrow ==
  ASSUME TypeOK, NEW k \in Keys, NEW m \in Messages, Grows(k, m)
  PROVE  IF m.kind = "item" THEN Cardinality(ItemsIn(k)') = Cardinality(ItemsIn(k)) + 1
                            ELSE ItemsIn(k)' = ItemsIn(k)
<1>1. PICK l \in Seq(Messages), t \in Seq(Messages) : l = queue[k] /\ t = queue'[k] /\ t = Append(l, m)
  BY PushedList DEF TypeOK, Grows
<1>2. PICK n \in Nat : n = Len(l)
  BY ListFacts
<1>3. /\ DOMAIN l = 1 .. n /\ DOMAIN t = 1 .. n + 1
      /\ \A i \in 1 .. n : t[i] = l[i]
      /\ t[n + 1] = m
  BY <1>1, <1>2, PushedList, ListFacts
<1>4. \A i : i \in 1 .. n + 1 <=> i \in 1 .. n \/ i = n + 1
  BY <1>2
<1>5. n + 1 \notin 1 .. n
  BY <1>2
<1>6. ItemsIn(k)' = ItemsIn(k) \union (IF m.kind = "item" THEN {n + 1} ELSE {})
  BY <1>1, <1>3, <1>4, <1>5 DEF ItemsIn
<1>7. n + 1 \notin ItemsIn(k)
  BY <1>1, <1>3, <1>5 DEF ItemsIn
<1>8. IsFiniteSet(ItemsIn(k))
  BY ItemsInFacts
<1> QED
  BY <1>6, <1>7, <1>8, FS_AddElement


\* Where a step takes the count of a sender that bounds the list.
LEMMA UsedMoves ==
  ASSUME TypeOK, NEW k \in Keys, Bounding(k), NEW s \in SendersTo(k), SendStep(s), Send' = Send
  PROVE  /\ PushItem(s) => Used(s) \in 0 .. Send[s].step - 1 /\ Used(s)' = Used(s) + 1
         /\ ~ PushItem(s) => Used(s)' = Used(s) \/ Len(queue[k]) <= Send[s].max
<1>1. s \in Senders /\ Send[s].max > 0 /\ \A n \in DOMAIN Send[s].items : Send[s].items[n] = k
  BY DEF SendersTo, Bounding
<1>2. /\ SenderTypes /\ DOMAIN Send[s].items = 1 .. Len(Send[s].items) /\ Len(Send[s].items) \in Nat
      /\ sent[s] \in Nat /\ Send[s].step \in Nat \ {0}
  BY <1>1, TypeParts, Arguments DEF SenderTypes, OtherTypes
<1>3. PICK n \in Nat, d \in Nat \ {0} : n = sent[s] /\ d = Send[s].step
  BY <1>2
<1>4. PICK e, f : e = n % d /\ f = (n + 1) % d
  OBVIOUS
<1>5. e \in 0 .. d - 1 /\ f = IF e = d - 1 THEN 0 ELSE e + 1
  BY <1>3, <1>4, NextMod
<1>6. n < Len(Send[s].items) => Item(s) = k
  BY <1>1, <1>2, <1>3 DEF Item
<1>7. Used(s) = IF spc[s] = "push" /\ f = 0 THEN 0
                ELSE IF spc[s] = "item_ttl" THEN f + 1 ELSE e + 1
  BY <1>3, <1>4 DEF Used
<1>8. ASSUME sent'[s] = n
      PROVE  Used(s)' = IF spc'[s] = "push" /\ f = 0 THEN 0
                        ELSE IF spc'[s] = "item_ttl" THEN f + 1 ELSE e + 1
  BY <1>3, <1>4, <1>8 DEF Used
<1>9. ASSUME sent'[s] = n + 1, spc'[s] = "item"
      PROVE  Used(s)' = f + 1
  BY <1>3, <1>4, <1>9 DEF Used
<1>10. spc \in [Senders -> {"start", "item", "wait", "push", "item_ttl", "end", "end_cmd", "done"}]
       /\ sent \in [Senders -> Nat]
  BY <1>2 DEF SenderTypes
<1>11. CASE PushItem(s)
  <2>1. spc[s] = "push" /\ n < Len(Send[s].items)
    BY <1>1, <1>2, <1>3, <1>11 DEF PushItem, SenderTypes
  <2>2. \/ spc'[s] = "item_ttl" /\ sent'[s] = n
        \/ spc'[s] = "item" /\ sent'[s] = n + 1
    BY <1>1, <1>3, <1>10, <1>11 DEF PushItem, Goto, Sent
  <2>3. Used(s)' = f + 1
    BY <1>8, <1>9, <2>2
  <2>4. Used(s) = IF f = 0 THEN 0 ELSE e + 1
    BY <1>7, <2>1
  <2> QED
    BY <1>3, <1>5, <1>11, <2>3, <2>4
<1>12. CASE NextItem(s)
  <2>1. spc[s] = "item"
    BY <1>12 DEF NextItem
  <2>2. CASE n = Len(Send[s].items)
    <3>1. PICK l \in Nat : l = Len(Send[s].items)
      BY <1>2
    <3>2. ~ sent[s] < l
      BY <1>3, <2>2, <3>1
    <3>3. spc' = [spc EXCEPT ![s] = "end"] /\ sent' = sent
      BY <1>12, <3>1, <3>2 DEF NextItem, Goto
    <3>4. spc'[s] = "end" /\ sent'[s] = n
      BY <1>1, <1>3, <1>10, <3>3
    <3> QED
      BY <1>7, <1>8, <1>12, <2>1, <3>4 DEF PushItem
  <2>3. CASE n < Len(Send[s].items)
    <3>1. Item(s) # NoKey
      BY <1>6, <2>3, RedisAssumption
    <3>2. sent'[s] = n
      BY <1>1, <1>2, <1>3, <1>12, <2>3, <3>1 DEF NextItem
    <3>3. spc'[s] = IF f = 0 THEN "wait" ELSE "push"
      BY <1>1, <1>2, <1>3, <1>4, <1>10, <1>12, <2>3, <3>1 DEF NextItem, Goto, ChecksQueue
    <3> QED
      BY <1>7, <1>8, <1>12, <2>1, <3>2, <3>3 DEF PushItem
  <2> QED
    BY <1>3, <1>12, <2>2, <2>3 DEF NextItem
<1>13. CASE WaitNoFull(s)
  <2>1. spc[s] = "wait" /\ n < Len(Send[s].items) /\ sent'[s] = n
    BY <1>1, <1>2, <1>3, <1>13 DEF WaitNoFull, SenderTypes
  <2>2. Item(s) = k
    BY <1>6, <2>1
  <2>3. Len(queue[k]) <= Send[s].max \/ spc'[s] \in {"end", "wait"}
    BY <1>1, <1>10, <1>13, <2>1, <2>2 DEF WaitNoFull, Goto
  <2> QED
    BY <1>7, <1>8, <1>13, <2>1, <2>3 DEF PushItem
<1>14. CASE ExpireItem(s)
  <2>1. spc[s] = "item_ttl" /\ spc'[s] = "item" /\ sent'[s] = n + 1
    BY <1>1, <1>3, <1>10, <1>14 DEF ExpireItem, Goto, Sent
  <2> QED
    BY <1>7, <1>9, <1>14, <2>1 DEF PushItem
<1>15. CASE Start(s) \/ ExpireEnd(s) \/ PushEnd(s) \/ NoEnd(s)
  <2>1. /\ spc[s] \in {"start", "end", "end_cmd"} /\ spc'[s] \in {"item", "end_cmd", "done"}
        /\ sent'[s] = n
    BY <1>1, <1>3, <1>10, <1>15 DEF Start, ExpireEnd, PushEnd, NoEnd, Goto
  <2> QED
    BY <1>7, <1>8, <1>15, <2>1 DEF PushItem
<1> QED
  BY <1>11, <1>12, <1>13, <1>14, <1>15 DEF SendStep


LEMMA UsedInSame ==
  ASSUME TypeOK, NEW k, Send' = Send, \A s \in SendersTo(k) : Used(s)' = Used(s)
  PROVE  UsedIn(k)' = UsedIn(k)
<1>1. Unchecked(k)' = Unchecked(k)
  BY DEF Unchecked, SendersTo
<1>2. ASSUME NEW x \in Unchecked(k) PROVE Used(x[1])' = Used(x[1])
  <2>1. PICK s \in SendersTo(k) : x[1] = s
    BY UncheckedFacts
  <2> QED
    BY <2>1 DEF Used
<1> QED
  BY <1>1, <1>2 DEF UsedIn

LEMMA UsedInGrows ==
  ASSUME TypeOK, NEW k, Send' = Send, NEW u \in SendersTo(k),
         Used(u) \in 0 .. Send[u].step - 1, Used(u)' = Used(u) + 1,
         \A s \in SendersTo(k) \ {u} : Used(s)' = Used(s)
  PROVE  Cardinality(UsedIn(k)') = Cardinality(UsedIn(k)) + 1
<1>1. Unchecked(k)' = Unchecked(k)
  BY DEF Unchecked, SendersTo
<1>2. u \in Senders /\ Send[u].step \in Nat
  BY Arguments, TypeParts DEF SendersTo, OtherTypes
<1>3. PICK n \in Nat, c \in Nat : n = Send[u].step /\ c = Used(u) /\ c + 1 \in 1 .. n
  BY <1>2
<1>4. <<u, c + 1>> \in Unchecked(k)
  BY <1>3, UncheckedFacts
<1>5. <<u, c + 1>> \notin UsedIn(k)
  <2>1. ~ (c + 1 <= c)
    BY <1>3
  <2> QED
    BY <1>3, <2>1 DEF UsedIn
<1>6. ASSUME NEW x \in Unchecked(k)
      PROVE  x[2] <= Used(x[1])' <=> (x[2] <= Used(x[1]) \/ x = <<u, c + 1>>)
  <2>1. PICK s \in SendersTo(k) : \E i \in 1 .. Send[s].step : x = <<s, i>>
    BY UncheckedFacts
  <2>2. s \in Senders /\ Send[s].step \in Nat
    BY Arguments, TypeParts DEF SendersTo, OtherTypes
  <2>3. PICK i \in Nat : x = <<s, i>> /\ x[1] = s /\ x[2] = i
    BY <2>1, <2>2
  <2>4. CASE s = u
    <3>1. i <= c + 1 <=> i <= c \/ i = c + 1
      BY <1>3
    <3>2. Used(x[1])' = c + 1 /\ Used(x[1]) = c
      BY <1>3, <2>3, <2>4 DEF Used
    <3>3. x = <<u, c + 1>> <=> i = c + 1
      BY <2>3, <2>4
    <3> QED
      BY <2>3, <3>1, <3>2, <3>3
  <2>5. CASE s # u
    <3>1. Used(s)' = Used(s)
      BY <2>5
    <3> QED
      BY <2>3, <2>5, <3>1 DEF Used
  <2> QED
    BY <2>4, <2>5
<1>7. UsedIn(k)' = UsedIn(k) \union {<<u, c + 1>>}
  BY <1>1, <1>4, <1>6 DEF UsedIn
<1>8. IsFiniteSet(UsedIn(k))
  BY UsedInFacts
<1> QED
  BY <1>5, <1>7, <1>8, FS_AddElement


LEMMA PushedItem ==
  ASSUME TypeOK, NEW s \in Senders, PushItem(s)
  PROVE  /\ s \in SendersTo(Item(s)) /\ Grows(Item(s), Msg(s, "item", FALSE))
         /\ \A q \in Senders \ {s} : spc'[q] = spc[q] /\ sent'[q] = sent[q]
         /\ \A k \in Keys : Bounding(k) /\ s \in SendersTo(k) => Item(s) = k
<1>1. SenderTypes /\ DOMAIN Send[s].items = 1 .. Len(Send[s].items) /\ Len(Send[s].items) \in Nat
  BY TypeParts, Arguments DEF OtherTypes
<1>2. PICK n \in Nat, l \in Nat : n = sent[s] /\ l = Len(Send[s].items) /\ n < l
  BY <1>1 DEF PushItem, SenderTypes
<1>3. n + 1 \in DOMAIN Send[s].items /\ Item(s) = Send[s].items[n + 1]
  BY <1>1, <1>2 DEF Item
<1>4. Grows(Item(s), Msg(s, "item", FALSE))
  <2>1. Item(s) \in Keys /\ RPush(Item(s), Msg(s, "item", FALSE)) /\ queue \in [Keys -> Seq(Messages)]
    BY SenderPushes DEF TypeOK
  <2> QED
    BY <2>1 DEF RPush, Grows
<1>5. /\ spc \in [Senders -> {"start", "item", "wait", "push", "item_ttl", "end", "end_cmd", "done"}]
      /\ sent \in [Senders -> Nat]
  BY <1>1 DEF SenderTypes
<1>6. \A q \in Senders \ {s} : spc'[q] = spc[q] /\ sent'[q] = sent[q]
  BY <1>5 DEF PushItem, Goto, Sent
<1> QED
  BY <1>3, <1>4, <1>6 DEF SendersTo, Bounding

LEMMA BoundStep ==
  ASSUME EndInv, TypeOK', [Next]_vars, NEW k \in Keys, Bounding(k), BoundAt(k)
  PROVE  BoundAt(k)'
<1>1. TypeOK /\ Send' = Send /\ GoneInv
  BY SendersMove DEF EndInv
<1>2. /\ SendersTo(k)' = SendersTo(k)
      /\ \A s \in SendersTo(k) : s \in Senders /\ Send[s].max \in Nat /\ Send[s].max > 0
  BY <1>1, Arguments, TypeParts DEF SendersTo, OtherTypes, Bounding
<1>3. PICK c \in Nat, d \in Nat, u \in Nat, v \in Nat :
         /\ c = Cardinality(ItemsIn(k)) /\ d = Cardinality(ItemsIn(k)')
         /\ u = Cardinality(UsedIn(k)) /\ v = Cardinality(UsedIn(k)')
  <2>1. Cardinality(ItemsIn(k)) \in Nat /\ Cardinality(UsedIn(k)) \in Nat
    BY <1>1, ItemsInFacts, UsedInFacts
  <2>2. Cardinality(ItemsIn(k)') \in Nat
    BY ItemsInNext
  <2>3. Cardinality(UsedIn(k)') \in Nat
    BY <1>1, UsedInNext
  <2> QED
    BY <2>1, <2>2, <2>3
<1>4. SUFFICES ItemsIn(k)' = {} \/ \E s \in SendersTo(k) : d <= Send[s].max + v
  BY <1>1, <1>2, <1>3 DEF BoundAt
<1>5. c = 0 \/ \E s \in SendersTo(k) : c <= Send[s].max + u
  BY <1>3, FS_EmptySet DEF BoundAt
<1>6. CASE \E s \in SendersTo(k) : PushItem(s)
  <2>1. PICK s \in SendersTo(k) : PushItem(s)
    BY <1>6
  <2>2. s \in Senders /\ Grows(k, Msg(s, "item", FALSE)) /\ Msg(s, "item", FALSE) \in Messages
    BY <1>1, <1>2, <2>1, PushedItem, SenderPushes
  <2>3. d = c + 1
    BY <1>1, <1>3, <2>2, ItemsGrow DEF Msg
  <2>4. Used(s) \in 0 .. Send[s].step - 1 /\ Used(s)' = Used(s) + 1
    BY <1>1, <2>1, UsedMoves DEF SendStep
  <2>5. ASSUME NEW q \in SendersTo(k) \ {s} PROVE Used(q)' = Used(q)
    BY <1>1, <1>2, <2>1, <2>2, PushedItem DEF Used
  <2>6. v = u + 1
    BY <1>1, <1>3, <2>4, <2>5, UsedInGrows
  <2>7. \A q \in SendersTo(k) : c = 0 \/ c <= Send[q].max + u => d <= Send[q].max + v
    BY <1>2, <1>3, <2>3, <2>6
  <2> QED
    BY <1>5, <2>7
<1>7. CASE \A s \in SendersTo(k) : ~ PushItem(s)
  <2>1. d <= c
    <3>1. CASE Shrinks(k)
      BY <1>1, <1>3, <3>1, ItemsShrink
    <3>2. ASSUME NEW m \in Messages, m.kind # "item", Grows(k, m) PROVE d <= c
      BY <1>1, <1>3, <3>2, ItemsGrow
    <3>3. ASSUME NEW s \in Senders, PushItem(s), k = Item(s) PROVE FALSE
      BY <1>1, <1>7, <3>3, PushedItem
    <3>4. ASSUME NEW s \in Senders, PushEnd(s), Grows(k, Msg(s, EndKind(s), Send[s].ttl))
          PROVE  d <= c
      BY <1>1, <3>2, <3>4, SenderPushes DEF Msg, EndKind
    <3>5. ASSUME NEW r \in Receivers, NEW m \in Messages, held[r] = <<k, m>>, Grows(k, m)
          PROVE  d <= c
      BY <1>1, <3>2, <3>5 DEF GoneInv, NoMsg
    <3> QED
      BY <1>1, <3>1, <3>3, <3>4, <3>5, QueueMoves
  <2>2. CASE \A s \in SendersTo(k) : Used(s)' = Used(s)
    <3>1. u = v
      BY <1>1, <1>3, <2>2, UsedInSame
    <3>2. CASE c = 0
      <4>1. d = 0
        BY <1>3, <2>1, <3>2
      <4>2. IsFiniteSet(ItemsIn(k)')
        BY ItemsInNext
      <4> QED
        BY <1>3, <4>1, <4>2, FS_EmptySet
    <3>3. ASSUME NEW s \in SendersTo(k), c <= Send[s].max + u PROVE d <= Send[s].max + v
      BY <1>2, <1>3, <2>1, <3>1, <3>3
    <3> QED
      BY <1>5, <3>2, <3>3
  <2>3. CASE \E s \in SendersTo(k) : Used(s)' # Used(s)
    <3>1. PICK s \in SendersTo(k) : Used(s)' # Used(s)
      BY <2>3
    <3>2. SendStep(s)
      BY <1>1, <1>2, <3>1, SendersMove DEF Used
    <3>3. Len(queue[k]) <= Send[s].max
      BY <1>1, <1>7, <3>1, <3>2, UsedMoves
    <3>4. c <= Len(queue[k])
      BY <1>1, <1>3, ItemsInFacts
    <3>5. Len(queue[k]) \in Nat
      BY <1>1, ListFacts DEF TypeOK
    <3>6. d <= Send[s].max + v
      BY <1>2, <1>3, <2>1, <3>3, <3>4, <3>5
    <3> QED
      BY <3>6
  <2> QED
    BY <2>2, <2>3
<1> QED
  BY <1>6, <1>7

LEMMA InitBound == Init => BoundInv
<1> SUFFICES ASSUME Init PROVE BoundInv
  OBVIOUS
<1>1. \A k \in Keys : ItemsIn(k) = {}
  BY EmptySeq DEF Init, ItemsIn
<1> QED
  BY <1>1, InitEnd DEF BoundInv, BoundAt

LEMMA BoundInvStep == BoundInv /\ [Next]_vars => BoundInv'
<1> SUFFICES ASSUME BoundInv, [Next]_vars PROVE BoundInv'
  OBVIOUS
<1>1. EndInv /\ EndInv' /\ TypeOK /\ TypeOK' /\ Send' = Send
  BY EndStep, SendersMove DEF BoundInv, EndInv
<1>2. ASSUME NEW k \in Keys, Bounding(k)' PROVE BoundAt(k)'
  <2>1. Bounding(k)
    BY <1>1, <1>2 DEF Bounding, SendersTo
  <2> QED
    BY <1>1, <2>1, BoundStep DEF BoundInv
<1> QED
  BY <1>1, <1>2 DEF BoundInv

\* When every sender of a list watches its length and sends nowhere else, the
\* list never holds more items than the largest bound plus what each sender
\* pushes from one check to the next.
THEOREM ListsAreBounded == Spec => []QueueBounded
<1>1. BoundInv => QueueBounded
  <2> SUFFICES ASSUME BoundInv PROVE QueueBounded
    OBVIOUS
  <2>1. TypeOK
    BY DEF BoundInv, EndInv
  <2>2. ASSUME NEW k \in Keys, Bounding(k)
        PROVE  \/ ItemsIn(k) = {}
               \/ \E s \in SendersTo(k) :
                     Cardinality(ItemsIn(k)) <= Send[s].max + Cardinality(Unchecked(k))
    <3>1. \A s \in SendersTo(k) : Send[s].max \in Nat
      BY <2>1, Arguments, TypeParts DEF SendersTo, OtherTypes
    <3>2. PICK c \in Nat, u \in Nat, v \in Nat :
             /\ c = Cardinality(ItemsIn(k)) /\ u = Cardinality(UsedIn(k))
             /\ v = Cardinality(Unchecked(k)) /\ u <= v
      BY <2>1, ItemsInFacts, UsedInFacts
    <3>3. \A s \in SendersTo(k) : c <= Send[s].max + u => c <= Send[s].max + v
      BY <3>1, <3>2
    <3> QED
      BY <2>2, <3>2, <3>3 DEF BoundInv, BoundAt
  <2> QED
    BY <2>1, <2>2 DEF QueueBounded, Bounding
<1> QED
  BY InitBound, BoundInvStep, <1>1, PTL DEF Spec
=============================================================================
