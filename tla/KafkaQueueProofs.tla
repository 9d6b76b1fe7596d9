-------------------------- MODULE KafkaQueueProofs --------------------------
(***************************************************************************)
(* KafkaQueue for any jobs, topics, partitions, refusals, crashes and      *)
(* receiver options: a send_all that returned has delivered everything, no *)
(* committed offset passes an unprocessed item, and an end command that    *)
(* shares a partition with its items arrives after them.                   *)
(***************************************************************************)
EXTENDS KafkaQueue, FiniteSetTheorems, SequenceTheorems, TLAPS

(***************************************************************************)
(* Sequences and jobs                                                      *)
(***************************************************************************)

\* A message leaves the outbox, the others keep their order.
LEMMA RemoveAtProperties ==
  ASSUME NEW S, NEW s \in Seq(S), NEW k \in 1 .. Len(s)
  PROVE  /\ RemoveAt(s, k) \in Seq(S)
         /\ Len(RemoveAt(s, k)) = Len(s) - 1
         /\ \A i \in 1 .. Len(s) - 1 : RemoveAt(s, k)[i] = IF i < k THEN s[i] ELSE s[i + 1]
<1> DEFINE a == SubSeq(s, 1, k - 1)
           b == SubSeq(s, k + 1, Len(s))
<1>1. Len(s) \in Nat /\ k \in Nat /\ k >= 1 /\ k <= Len(s)
  BY LenProperties
<1>2. /\ a \in Seq(S) /\ Len(a) = k - 1
      /\ \A i \in 1 .. k - 1 : a[i] = s[i]
  BY <1>1, SubSeqProperties
<1>3. /\ b \in Seq(S) /\ Len(b) = Len(s) - k
      /\ \A i \in 1 .. Len(s) - k : b[i] = s[k + i]
  BY <1>1, SubSeqProperties
<1>4. RemoveAt(s, k) = a \o b
  BY DEF RemoveAt
<1> HIDE DEF a, b
<1>5. /\ a \o b \in Seq(S) /\ Len(a \o b) = Len(s) - 1
      /\ \A i \in 1 .. Len(s) - 1 : (a \o b)[i] = IF i <= k - 1 THEN a[i] ELSE b[i - (k - 1)]
  <2>1. /\ a \o b \in Seq(S)
        /\ Len(a \o b) = Len(a) + Len(b)
        /\ \A i \in 1 .. Len(a) + Len(b) :
             (a \o b)[i] = IF i <= Len(a) THEN a[i] ELSE b[i - Len(a)]
    BY <1>2, <1>3, ConcatProperties, Zenon
  <2>2. Len(a) + Len(b) = Len(s) - 1
    BY <1>1, <1>2, <1>3
  <2> QED
    BY <1>2, <2>1, <2>2
<1>6. ASSUME NEW i \in 1 .. Len(s) - 1
      PROVE  (a \o b)[i] = IF i < k THEN s[i] ELSE s[i + 1]
  <2>1. CASE i < k
    BY <1>1, <1>2, <1>5, <2>1
  <2>2. CASE ~ (i < k)
    <3>1. i - (k - 1) \in 1 .. Len(s) - k /\ k + (i - (k - 1)) = i + 1
      BY <1>1, <2>2
    <3> QED
      BY <1>1, <1>3, <1>5, <2>2, <3>1
  <2> QED
    BY <2>1, <2>2
<1> QED
  BY <1>4, <1>5, <1>6

\* The arguments of a send_all.
LEMMA JobFacts ==
  ASSUME NEW j \in Jobs
  PROVE  /\ Job[j].topic \in Topics
         /\ Len(Job[j].items) \in Nat
         /\ Job[j].step \in Nat \ {0}
         /\ Job[j].end \in {"no", "end", "exit"}
         /\ \A n \in 1 .. Len(Job[j].items) :
              /\ Job[j].items[n].topic \in Topics
              /\ PartitionsOf(Job[j].items[n].route) \subseteq Parts
         /\ DOMAIN Job[j].items = 1 .. Len(Job[j].items)
         /\ Job[j].items # <<>> => Len(Job[j].items) > 0
<1>1. Job[j] \in JobArgs
  BY KafkaAssumption
<1> DEFINE Items == [topic : Topics, route : Parts \union {Unrouted, ByKey}, bad : BOOLEAN]
           its == Job[j].items
<1>2. its \in Seq(Items)
  BY <1>1 DEF JobArgs
<1>3. ASSUME NEW n \in 1 .. Len(its)
      PROVE  its[n] \in Items
  BY <1>2, ElementOfSeq, Zenon
<1>6. Len(its) \in Nat /\ DOMAIN its = 1 .. Len(its) /\ (its # <<>> => Len(its) > 0)
  <2> HIDE DEF its, Items
  <2>1. Len(its) \in Nat /\ DOMAIN its = 1 .. Len(its)
    BY <1>2, LenProperties
  <2>2. its # <<>> => Len(its) # 0
    BY <1>2, EmptySeq
  <2> QED
    BY <2>1, <2>2
<1>4. \A r \in Parts \union {Unrouted, ByKey} : PartitionsOf(r) \subseteq Parts
  BY DEF PartitionsOf
<1>5. ASSUME NEW n \in 1 .. Len(Job[j].items)
      PROVE  /\ Job[j].items[n].topic \in Topics
             /\ Job[j].items[n].route \in Parts \union {Unrouted, ByKey}
  BY <1>3
<1> QED
  BY <1>1, <1>4, <1>5, <1>6 DEF JobArgs

(***************************************************************************)
(* Types: the producers                                                    *)
(***************************************************************************)

Outgoing == [t : Topics, p : Parts, m : Messages]

SendTypes ==
  /\ log \in [Topics -> [Parts -> Seq(Messages)]]
  /\ pc \in [Jobs -> {"next", "flush", "last", "done", "raised"}]
  /\ sent \in [Jobs -> Nat]
  /\ \A j \in Jobs : sent[j] <= Len(Job[j].items)
  /\ outbox \in [Jobs -> Seq(Outgoing)]
  /\ kwargs \in [Jobs -> Parts \union {0}]
  /\ b_flush \in [Jobs -> BOOLEAN]
  /\ lost \in [Jobs -> BOOLEAN]
  /\ refused \in Nat

\* A log keeps what it has.
LogGrows ==
  \A t \in Topics, p \in Parts :
    /\ Len(log[t][p]) <= Len(log'[t][p])
    /\ \A k \in 1 .. Len(log[t][p]) : log'[t][p][k] = log[t][p][k]

\* A message is put in the outbox of j,
LEMMA ProduceKeepsOutbox ==
  ASSUME SendTypes, NEW j \in Jobs, NEW t \in Topics, NEW p \in Parts,
         NEW m \in Messages, Append1(j, t, p, m)
  PROVE  /\ outbox' \in [Jobs -> Seq(Outgoing)]
         /\ Len(outbox'[j]) = Len(outbox[j]) + 1
         /\ \A i \in 1 .. Len(outbox[j]) : outbox'[j][i] = outbox[j][i]
         /\ outbox'[j][Len(outbox[j]) + 1] = [t |-> t, p |-> p, m |-> m]
         /\ \A l \in Jobs : l # j => outbox'[l] = outbox[l]
         /\ Len(outbox[j]) \in Nat
<1>1. outbox[j] \in Seq(Outgoing) /\ [t |-> t, p |-> p, m |-> m] \in Outgoing
  BY DEF SendTypes, Outgoing
<1> DEFINE a == Append(outbox[j], [t |-> t, p |-> p, m |-> m])
<1>2. /\ a \in Seq(Outgoing)
      /\ Len(a) = Len(outbox[j]) + 1
      /\ \A i \in 1 .. Len(outbox[j]) : a[i] = outbox[j][i]
      /\ a[Len(outbox[j]) + 1] = [t |-> t, p |-> p, m |-> m]
      /\ Len(outbox[j]) \in Nat
  BY <1>1, AppendProperties, LenProperties
<1>3. outbox' = [outbox EXCEPT ![j] = a]
  BY DEF Append1
<1> HIDE DEF a
<1> QED
  BY <1>2, <1>3 DEF SendTypes

\* or leaves it for the log, or for nowhere.
LEMMA DeliverFacts ==
  ASSUME SendTypes, NEW j \in Jobs, NEW k \in 1 .. Len(outbox[j]), Deliver(j, k)
  PROVE  /\ outbox' \in [Jobs -> Seq(Outgoing)]
         /\ outbox[j][k] \in Outgoing
         /\ Len(outbox[j]) \in Nat
         /\ Len(outbox'[j]) = Len(outbox[j]) - 1
         /\ \A i \in 1 .. Len(outbox[j]) - 1 :
              outbox'[j][i] = IF i < k THEN outbox[j][i] ELSE outbox[j][i + 1]
         /\ \A l \in Jobs : l # j => outbox'[l] = outbox[l]
<1>1. outbox[j] \in Seq(Outgoing)
  BY DEF SendTypes
<1> DEFINE a == RemoveAt(outbox[j], k)
<1>2. /\ a \in Seq(Outgoing)
      /\ Len(a) = Len(outbox[j]) - 1
      /\ \A i \in 1 .. Len(outbox[j]) - 1 :
           a[i] = IF i < k THEN outbox[j][i] ELSE outbox[j][i + 1]
  BY <1>1, RemoveAtProperties
<1>3. outbox[j][k] \in Outgoing /\ Len(outbox[j]) \in Nat
  BY <1>1, ElementOfSeq, LenProperties
<1>4. outbox' = [outbox EXCEPT ![j] = a]
  BY DEF Deliver
<1> HIDE DEF a
<1> QED
  BY <1>2, <1>3, <1>4 DEF SendTypes

\* An index of a sequence with one element more.
LEMMA AppendedIndex ==
  ASSUME NEW a \in Nat, NEW b, b = a + 1, NEW i \in 1 .. b
  PROVE  i \in 1 .. a \/ i = a + 1
OBVIOUS

\* The log, when the broker takes message m for partition p of topic t.
LEMMA LogAppended ==
  ASSUME SendTypes, NEW t \in Topics, NEW p \in Parts, NEW m \in Messages,
         log' = [log EXCEPT ![t][p] = Append(@, m)]
  PROVE  /\ log' \in [Topics -> [Parts -> Seq(Messages)]]
         /\ LogGrows
         /\ Len(log[t][p]) \in Nat
         /\ Len(log'[t][p]) = Len(log[t][p]) + 1
         /\ log'[t][p][Len(log[t][p]) + 1] = m
         /\ \A u \in Topics, q \in Parts : u # t \/ q # p => log'[u][q] = log[u][q]
<1>1. log \in [Topics -> [Parts -> Seq(Messages)]] /\ log[t][p] \in Seq(Messages)
  BY DEF SendTypes
<1> DEFINE a == Append(log[t][p], m)
<1>2. /\ a \in Seq(Messages)
      /\ Len(a) = Len(log[t][p]) + 1 /\ Len(log[t][p]) \in Nat
      /\ \A i \in 1 .. Len(log[t][p]) : a[i] = log[t][p][i]
      /\ a[Len(log[t][p]) + 1] = m
  BY <1>1, AppendProperties, LenProperties
<1>3. log' = [log EXCEPT ![t][p] = a]
  OBVIOUS
<1> HIDE DEF a
<1>4. log'[t][p] = a /\ \A u \in Topics, q \in Parts : u # t \/ q # p => log'[u][q] = log[u][q]
  BY <1>1, <1>3
<1>5. log' \in [Topics -> [Parts -> Seq(Messages)]]
  BY <1>1, <1>2, <1>3
<1>6. ASSUME NEW u \in Topics, NEW q \in Parts
      PROVE  /\ Len(log[u][q]) <= Len(log'[u][q])
             /\ \A k \in 1 .. Len(log[u][q]) : log'[u][q][k] = log[u][q][k]
  <2>1. Len(log[u][q]) \in Nat
    BY <1>1, LenProperties
  <2>2. CASE u = t /\ q = p
    BY <1>2, <1>4, <2>2
  <2>3. CASE u # t \/ q # p
    BY <1>4, <2>1, <2>3
  <2> QED
    BY <2>2, <2>3
<1> QED
  BY <1>2, <1>4, <1>5, <1>6 DEF LogGrows

\* The item that NextItem sends, and the command that EndCommand sends.
LEMMA NextItemFacts ==
  ASSUME SendTypes, NEW j \in Jobs, NextItem(j), ~ lost[j]
  PROVE  \E p \in Parts, m \in Messages :
           /\ sent[j] + 1 \in 1 .. Len(Job[j].items)
           /\ p \in PartitionsOf(Job[j].items[sent[j] + 1].route)
           /\ m.job = j /\ m.kind \in {"item", "bad"}
           /\ Job[j].items[sent[j] + 1].topic \in Topics
           /\ Append1(j, Job[j].items[sent[j] + 1].topic, p, m)
           /\ kwargs' = [kwargs EXCEPT ![j] = IF Job[j].items[sent[j] + 1].route = Unrouted
                                              THEN 0 ELSE p]
           /\ sent' = [sent EXCEPT ![j] = sent[j] + 1]
<1> DEFINE n == sent[j] + 1
           item == Job[j].items[n]
           m == Msg(j, n, IF item.bad THEN "bad" ELSE "item")
<1>1. sent[j] \in Nat /\ n <= Len(Job[j].items) /\ Len(Job[j].items) \in Nat
  BY JobFacts DEF NextItem, SendTypes
<1>2. n \in 1 .. Len(Job[j].items)
  BY <1>1
<1>3. PICK p \in PartitionsOf(item.route) :
        /\ Append1(j, item.topic, p, m)
        /\ kwargs' = [kwargs EXCEPT ![j] = IF item.route = Unrouted THEN 0 ELSE p]
  BY DEF NextItem
<1>4. p \in Parts /\ item.topic \in Topics
  BY <1>2, <1>3, JobFacts
<1>5. m \in Messages /\ m.job = j /\ m.kind \in {"item", "bad"}
  BY <1>1 DEF Msg, Messages
<1>6. sent' = [sent EXCEPT ![j] = n]
  BY DEF NextItem
<1> QED
  BY <1>2, <1>3, <1>4, <1>5, <1>6

LEMMA EndCommandFacts ==
  ASSUME SendTypes, NEW j \in Jobs, EndCommand(j), ~ lost[j], sent[j] # 0
  PROVE  \E p \in Parts, m \in Messages :
           /\ p \in EndPartitions(j)
           /\ m.job = j /\ m.kind = Job[j].end /\ m.kind \in {"end", "exit"}
           /\ Job[j].topic \in Topics
           /\ Append1(j, Job[j].topic, p, m)
           /\ pc' = [pc EXCEPT ![j] = "last"]
           /\ b_flush' = [b_flush EXCEPT ![j] = TRUE]
<1> DEFINE m == Msg(j, sent[j] + 1, Job[j].end)
<1>1. PICK p \in EndPartitions(j) : Append1(j, Job[j].topic, p, m)
  BY DEF EndCommand
<1>2. p \in Parts
  BY <1>1 DEF EndPartitions, SendTypes
<1>3. Job[j].end \in {"end", "exit"} /\ Job[j].topic \in Topics
  BY JobFacts DEF EndCommand
<1>4. m \in Messages /\ m.job = j /\ m.kind = Job[j].end
  BY <1>3 DEF Msg, Messages, SendTypes
<1> QED
  BY <1>1, <1>2, <1>3, <1>4 DEF EndCommand

\* A step of a job.
LEMMA SendStepKeepsTypes ==
  ASSUME SendTypes, NEW j \in Jobs, SendStep(j)
  PROVE  SendTypes' /\ log' = log
<1> USE DEF SendTypes
<1>1. CASE NextItem(j)
  <2>1. CASE lost[j]
    BY <1>1, <2>1 DEF NextItem, Raise
  <2>2. CASE ~ lost[j]
    <3>1. PICK p \in Parts, m \in Messages :
            /\ sent[j] + 1 \in 1 .. Len(Job[j].items)
            /\ Job[j].items[sent[j] + 1].topic \in Topics
            /\ Append1(j, Job[j].items[sent[j] + 1].topic, p, m)
            /\ kwargs' = [kwargs EXCEPT ![j] = IF Job[j].items[sent[j] + 1].route = Unrouted
                                               THEN 0 ELSE p]
            /\ sent' = [sent EXCEPT ![j] = sent[j] + 1]
      BY <1>1, <2>2, NextItemFacts
    <3>2. outbox' \in [Jobs -> Seq(Outgoing)]
      BY <3>1, ProduceKeepsOutbox
    <3>3. kwargs' \in [Jobs -> Parts \union {0}]
      BY <3>1
    <3>4. sent' \in [Jobs -> Nat] /\ \A l \in Jobs : sent'[l] <= Len(Job[l].items)
      BY <3>1, JobFacts
    <3>5. /\ pc' \in [Jobs -> {"next", "flush", "last", "done", "raised"}]
          /\ b_flush' \in [Jobs -> BOOLEAN]
          /\ UNCHANGED <<log, lost, refused>>
      BY <1>1, <2>2 DEF NextItem
    <3> QED
      BY <3>2, <3>3, <3>4, <3>5
  <2> QED
    BY <2>1, <2>2
<1>2. CASE EndCommand(j)
  <2>1. CASE lost[j] \/ sent[j] = 0
    BY <1>2, <2>1 DEF EndCommand, Raise
  <2>2. CASE ~ (lost[j] \/ sent[j] = 0)
    <3>1. /\ outbox' \in [Jobs -> Seq(Outgoing)]
          /\ pc' = [pc EXCEPT ![j] = "last"]
          /\ b_flush' = [b_flush EXCEPT ![j] = TRUE]
      BY <1>2, <2>2, EndCommandFacts, ProduceKeepsOutbox
    <3> QED
      BY <1>2, <3>1 DEF EndCommand
  <2> QED
    BY <2>1, <2>2
<1>3. CASE Flush(j) \/ NoEndCommand(j) \/ LastFlush(j)
  BY <1>3 DEF Flush, NoEndCommand, LastFlush, Raise
<1> QED
  BY <1>1, <1>2, <1>3 DEF SendStep

\* A delivery.
LEMMA DeliveryKeepsTypes ==
  ASSUME SendTypes, NEW j \in Jobs, NEW k \in 1 .. Len(outbox[j]), Deliver(j, k)
  PROVE  SendTypes' /\ LogGrows
<1> DEFINE o == outbox[j][k]
<1>1. o \in Outgoing /\ outbox' \in [Jobs -> Seq(Outgoing)]
  BY DeliverFacts
<1>2. o.t \in Topics /\ o.p \in Parts /\ o.m \in Messages
  BY <1>1 DEF Outgoing
<1>3. CASE log' = [log EXCEPT ![o.t][o.p] = Append(@, o.m)] /\ UNCHANGED <<lost, refused>>
  <2>1. log' \in [Topics -> [Parts -> Seq(Messages)]] /\ LogGrows
    BY <1>2, <1>3, LogAppended
  <2> QED
    BY <1>1, <1>3, <2>1 DEF Deliver, SendTypes
<1>4. CASE refused' = refused + 1 /\ lost' = [lost EXCEPT ![j] = TRUE] /\ UNCHANGED log
  <2>1. LogGrows
    <3>1. \A t \in Topics, p \in Parts : Len(log[t][p]) \in Nat
      BY LenProperties DEF SendTypes
    <3> QED
      BY <1>4, <3>1 DEF LogGrows
  <2> QED
    BY <1>1, <1>4, <2>1 DEF Deliver, SendTypes
<1> QED
  BY <1>3, <1>4 DEF Deliver

(***************************************************************************)
(* Types: the receiver                                                     *)
(***************************************************************************)

\* No offset points past the end of its log.
WithinLog(e) == e[3] <= Len(log[e[1]][e[2]])

RecvTypes ==
  /\ opts \in ReceiverOptions
  /\ position \in [Topics -> [Parts -> Nat]] /\ committed \in [Topics -> [Parts -> Nat]]
  /\ \A t \in Topics, p \in Parts :
       position[t][p] <= Len(log[t][p]) /\ committed[t][p] <= Len(log[t][p])
  /\ requests \in Seq(Places) /\ uncommitted \in Seq(Places)
  /\ \A e \in ToSet(requests) : WithinLog(e)
  /\ \A e \in ToSet(uncommitted) : WithinLog(e)
  /\ subscription \subseteq subscribed /\ subscribed \subseteq Topics
  /\ rpc \in {"idle", "poll", "user", "commit_in_loop", "left", "commit", "raised"}
  /\ rpc = "user" <=> cur # NoMsg
  /\ cur # NoMsg => cur \in Places
  /\ processed \subseteq Places /\ ended \subseteq Jobs
  /\ crashes \in Nat

\* The entries of a queue.
LEMMA EntriesAppended ==
  ASSUME NEW S, NEW s \in Seq(S), NEW e \in S
  PROVE  /\ Append(s, e) \in Seq(S)
         /\ \A x \in ToSet(Append(s, e)) : x \in ToSet(s) \/ x = e
<1>1. /\ Append(s, e) \in Seq(S)
      /\ DOMAIN Append(s, e) = 1 .. Len(s) + 1
      /\ \A i \in 1 .. Len(s) : Append(s, e)[i] = s[i]
      /\ Append(s, e)[Len(s) + 1] = e
      /\ DOMAIN s = 1 .. Len(s) /\ Len(s) \in Nat
  BY AppendProperties, LenProperties
<1> DEFINE a == Append(s, e)
<1> HIDE DEF a
<1>2. ASSUME NEW i \in DOMAIN a
      PROVE  a[i] \in ToSet(s) \/ a[i] = e
  BY <1>1 DEF ToSet, a
<1>3. \A x \in ToSet(a) : x \in ToSet(s) \/ x = e
  BY <1>2 DEF ToSet
<1> QED
  BY <1>1, <1>3 DEF a

LEMMA EntriesOfTail ==
  ASSUME NEW S, NEW s \in Seq(S), s # <<>>
  PROVE  /\ Head(s) \in S /\ Head(s) \in ToSet(s)
         /\ Tail(s) \in Seq(S)
         /\ \A x \in ToSet(Tail(s)) : x \in ToSet(s)
<1>1. /\ Head(s) \in S /\ Head(s) = s[1]
      /\ Tail(s) \in Seq(S) /\ Len(Tail(s)) = Len(s) - 1
      /\ \A i \in 1 .. Len(s) - 1 : Tail(s)[i] = s[i + 1]
  BY HeadTailProperties
<1>2. /\ DOMAIN s = 1 .. Len(s) /\ Len(s) \in Nat /\ Len(s) # 0
      /\ DOMAIN Tail(s) = 1 .. Len(s) - 1
  BY <1>1, LenProperties, EmptySeq
<1> DEFINE a == Tail(s)
<1> HIDE DEF a
<1>3. ASSUME NEW i \in DOMAIN a
      PROVE  a[i] \in ToSet(s)
  <2>1. i + 1 \in DOMAIN s /\ a[i] = s[i + 1]
    BY <1>1, <1>2 DEF a
  <2> QED
    BY <2>1 DEF ToSet
<1>4. \A x \in ToSet(a) : x \in ToSet(s)
  BY <1>3 DEF ToSet
<1>5. Head(s) \in ToSet(s)
  BY <1>1, <1>2 DEF ToSet
<1> QED
  BY <1>1, <1>4, <1>5 DEF a

LEMMA NoEntries == ToSet(<<>>) = {}
BY DEF ToSet

\* A table of offsets changes at one partition.
LEMMA OffsetSet ==
  ASSUME NEW f \in [Topics -> [Parts -> Nat]], NEW t \in Topics, NEW p \in Parts, NEW n \in Nat
  PROVE  /\ [f EXCEPT ![t][p] = n] \in [Topics -> [Parts -> Nat]]
         /\ [f EXCEPT ![t][p] = n][t][p] = n
         /\ \A u \in Topics, q \in Parts :
              u # t \/ q # p => [f EXCEPT ![t][p] = n][u][q] = f[u][q]
OBVIOUS

LEMMA LogLengths == SendTypes => \A t \in Topics, p \in Parts : Len(log[t][p]) \in Nat
BY LenProperties DEF SendTypes

\* A log that grows keeps the receiver's types.
LEMMA GrowthKeepsRecvTypes ==
  ASSUME SendTypes, RecvTypes, SendTypes', LogGrows, UNCHANGED <<recvVars, brokerVars>>
  PROVE  RecvTypes'
<1>1. \A t \in Topics, p \in Parts :
        Len(log[t][p]) <= Len(log'[t][p]) /\ Len(log[t][p]) \in Nat /\ Len(log'[t][p]) \in Nat
  BY LenProperties DEF LogGrows, SendTypes
<1>2. UNCHANGED <<opts, position, subscription, subscribed, uncommitted, rpc,
                  cur, processed, ended, crashes, committed, requests>>
  BY DEF recvVars, brokerVars
<1>3. \A t \in Topics, p \in Parts :
        position'[t][p] <= Len(log'[t][p]) /\ committed'[t][p] <= Len(log'[t][p])
  <2> SUFFICES ASSUME NEW t \in Topics, NEW p \in Parts
               PROVE  position[t][p] <= Len(log'[t][p]) /\ committed[t][p] <= Len(log'[t][p])
    BY <1>2
  <2>1. position[t][p] \in Nat /\ committed[t][p] \in Nat
    BY DEF RecvTypes
  <2>2. position[t][p] <= Len(log[t][p]) /\ committed[t][p] <= Len(log[t][p])
    BY DEF RecvTypes
  <2> QED
    BY <1>1, <2>1, <2>2
<1>4. \A e \in Places : WithinLog(e) => WithinLog(e)'
  <2> SUFFICES ASSUME NEW e \in Places, e[3] <= Len(log[e[1]][e[2]])
               PROVE  e[3] <= Len(log'[e[1]][e[2]])
    BY DEF WithinLog
  <2>1. PICK t \in Topics, p \in Parts, n \in Nat : t = e[1] /\ p = e[2] /\ n = e[3]
    BY DEF Places
  <2>2. n <= Len(log[t][p])
    BY <2>1
  <2>3. n <= Len(log'[t][p])
    BY <1>1, <2>2
  <2> QED
    BY <2>1, <2>3
<1>5. \A e \in ToSet(requests) : e \in Places
  BY ElementOfSeq, LenProperties DEF RecvTypes, ToSet
<1>6. \A e \in ToSet(uncommitted) : e \in Places
  BY ElementOfSeq, LenProperties DEF RecvTypes, ToSet
<1>7. /\ \A e \in ToSet(requests') : WithinLog(e)'
      /\ \A e \in ToSet(uncommitted') : WithinLog(e)'
  BY <1>2, <1>4, <1>5, <1>6 DEF RecvTypes
<1> QED
  BY <1>2, <1>3, <1>7 DEF RecvTypes

\* A step of the receiver leaves the logs alone.
LEMMA SameLogs ==
  ASSUME SendTypes, UNCHANGED <<log, sendVars>>
  PROVE  /\ SendTypes'
         /\ \A e : WithinLog(e) => WithinLog(e)'
BY DEF SendTypes, sendVars, WithinLog

\* A user asks for topics: new ones are read from the offsets of the group.
LEMMA AskFacts ==
  ASSUME RecvTypes, NEW T \in AskSets, Ask(T)
  PROVE  /\ position' \in [Topics -> [Parts -> Nat]]
         /\ committed' \in [Topics -> [Parts -> Nat]]
         /\ subscription' \subseteq subscribed' /\ subscribed' \subseteq Topics
         /\ \A t \in Topics : position'[t] = position[t] \/ position'[t] = committed[t]
         /\ \A t \in Topics : committed'[t] = committed[t] \/ committed'[t] = position[t]
         /\ ~ opts.autoCommit =>
              /\ \A t \in Topics : committed'[t] = committed[t]
              /\ \A t \in subscription' :
                   \/ position'[t] = committed[t]
                   \/ t \in subscription /\ position'[t] = position[t]
<1> DEFINE new == T \ subscribed
<1>1. T \subseteq Topics /\ subscribed' = subscribed \union new
  BY KafkaAssumption DEF Ask, SubscribeTo
<1>2. CASE new = {}
  BY <1>1, <1>2 DEF Ask, SubscribeTo, RecvTypes
<1>3. CASE new # {}
  <2>1. /\ subscription' = new
        /\ position' = [t \in Topics |-> IF t \in new THEN committed[t] ELSE position[t]]
        /\ committed' = [t \in Topics |-> IF opts.autoCommit /\ t \in subscription
                                          THEN position[t] ELSE committed[t]]
    BY <1>3 DEF Ask, SubscribeTo
  <2>2. position' \in [Topics -> [Parts -> Nat]] /\ committed' \in [Topics -> [Parts -> Nat]]
    BY <2>1 DEF RecvTypes
  <2> QED
    BY <1>1, <2>1, <2>2 DEF RecvTypes
<1> QED
  BY <1>2, <1>3

LEMMA AskKeepsRecvTypes ==
  ASSUME RecvTypes, NEW T \in AskSets, Ask(T)
  PROVE  RecvTypes'
<1>1. UNCHANGED <<log, requests, opts, uncommitted, cur, processed, ended, crashes>>
      /\ rpc = "idle" /\ rpc' = "poll"
  BY DEF Ask
<1>2. ASSUME NEW t \in Topics, NEW p \in Parts
      PROVE  position'[t][p] <= Len(log'[t][p]) /\ committed'[t][p] <= Len(log'[t][p])
  <2>1. position[t][p] <= Len(log[t][p]) /\ committed[t][p] <= Len(log[t][p])
    BY DEF RecvTypes
  <2>2. position'[t][p] = position[t][p] \/ position'[t][p] = committed[t][p]
    BY AskFacts
  <2>3. committed'[t][p] = committed[t][p] \/ committed'[t][p] = position[t][p]
    BY AskFacts
  <2> QED
    BY <1>1, <2>1, <2>2, <2>3
<1>3. /\ position' \in [Topics -> [Parts -> Nat]] /\ committed' \in [Topics -> [Parts -> Nat]]
      /\ subscription' \subseteq subscribed' /\ subscribed' \subseteq Topics
  BY AskFacts
<1>4. /\ \A e \in ToSet(requests') : WithinLog(e)'
      /\ \A e \in ToSet(uncommitted') : WithinLog(e)'
  BY <1>1 DEF RecvTypes, WithinLog
<1> QED
  BY <1>1, <1>2, <1>3, <1>4 DEF RecvTypes

\* A poll takes the next message of a partition.
LEMMA PollFacts ==
  ASSUME SendTypes, RecvTypes, NEW t \in Topics, NEW p \in Parts, Poll(t, p)
  PROVE  LET n == position[t][p] + 1 IN
         /\ rpc = "poll" /\ cur = NoMsg /\ t \in subscription
         /\ n \in Nat /\ n \in 1 .. Len(log[t][p])
         /\ <<t, p, n>> \in Places /\ <<t, p, n>> # NoMsg
         /\ log[t][p][n] \in Messages
         /\ position' \in [Topics -> [Parts -> Nat]] /\ position'[t][p] = n
         /\ \A u \in Topics, q \in Parts : u # t \/ q # p => position'[u][q] = position[u][q]
         /\ uncommitted' = uncommitted \/ uncommitted' = Append(uncommitted, <<t, p, n>>)
         /\ log[t][p][n].kind = "item" => cur' = <<t, p, n>>
         /\ log[t][p][n].kind # "item" => cur' = cur
<1> DEFINE n == position[t][p] + 1
<1>1. position[t][p] \in Nat /\ position \in [Topics -> [Parts -> Nat]]
  BY DEF RecvTypes
<1>2. n \in Nat /\ n <= Len(log[t][p]) /\ Len(log[t][p]) \in Nat /\ n \in 1 .. Len(log[t][p])
  BY <1>1, LogLengths DEF Poll
<1>3. <<t, p, n>> \in Places /\ <<t, p, n>> # NoMsg
  BY <1>2 DEF Places, NoMsg
<1>4. log[t][p] \in Seq(Messages)
  BY DEF SendTypes
<1>5. log[t][p][n] \in Messages
  BY <1>2, <1>4, ElementOfSeq
<1>6. position' = [position EXCEPT ![t][p] = n]
  BY DEF Poll
<1>7. /\ position' \in [Topics -> [Parts -> Nat]] /\ position'[t][p] = n
      /\ \A u \in Topics, q \in Parts : u # t \/ q # p => position'[u][q] = position[u][q]
  BY <1>1, <1>2, <1>6, OffsetSet
<1>8. rpc = "poll" /\ cur = NoMsg /\ t \in subscription
  BY DEF Poll, RecvTypes
<1>9. uncommitted' = uncommitted \/ uncommitted' = Append(uncommitted, <<t, p, n>>)
  BY DEF Poll
<1>10. /\ log[t][p][n].kind = "item" => cur' = <<t, p, n>>
       /\ log[t][p][n].kind # "item" => cur' = cur
  BY <1>5 DEF Poll, EndTypes, Messages
<1> QED
  BY <1>2, <1>3, <1>5, <1>7, <1>8, <1>9, <1>10

LEMMA PollKeepsRecvTypes ==
  ASSUME SendTypes, RecvTypes, NEW t \in Topics, NEW p \in Parts, Poll(t, p)
  PROVE  RecvTypes'
<1> PICK n \in Nat : n = position[t][p] + 1
  BY DEF RecvTypes
<1>0. UNCHANGED <<log, committed, requests, opts, subscription, subscribed, processed, crashes>>
  BY DEF Poll, brokerVars
<1>1. /\ rpc = "poll" /\ cur = NoMsg
      /\ n \in Nat /\ n \in 1 .. Len(log[t][p]) /\ Len(log[t][p]) \in Nat
      /\ <<t, p, n>> \in Places /\ <<t, p, n>> # NoMsg
      /\ log[t][p][n] \in Messages
      /\ position' \in [Topics -> [Parts -> Nat]] /\ position'[t][p] = n
      /\ \A u \in Topics, q \in Parts : u # t \/ q # p => position'[u][q] = position[u][q]
      /\ uncommitted' = uncommitted \/ uncommitted' = Append(uncommitted, <<t, p, n>>)
  BY PollFacts, LogLengths
<1>2. ASSUME NEW u \in Topics, NEW q \in Parts
      PROVE  position'[u][q] <= Len(log'[u][q]) /\ committed'[u][q] <= Len(log'[u][q])
  <2>1. position[u][q] <= Len(log[u][q]) /\ committed[u][q] <= Len(log[u][q])
    BY DEF RecvTypes
  <2>2. CASE u = t /\ q = p
    BY <1>0, <1>1, <2>1, <2>2
  <2>3. CASE u # t \/ q # p
    BY <1>0, <1>1, <2>1, <2>3
  <2> QED
    BY <2>2, <2>3
<1>3. \A e : e = <<t, p, n>> => WithinLog(e)'
  BY <1>0, <1>1 DEF WithinLog
<1>4. uncommitted' \in Seq(Places) /\ \A e \in ToSet(uncommitted') : WithinLog(e)'
  <2>1. uncommitted \in Seq(Places) /\ \A e \in ToSet(uncommitted) : WithinLog(e)'
    BY <1>0 DEF RecvTypes, WithinLog
  <2>2. CASE uncommitted' = uncommitted
    BY <2>1, <2>2
  <2>3. CASE uncommitted' = Append(uncommitted, <<t, p, n>>)
    <3>1. /\ Append(uncommitted, <<t, p, n>>) \in Seq(Places)
          /\ \A e \in ToSet(Append(uncommitted, <<t, p, n>>)) :
               e \in ToSet(uncommitted) \/ e = <<t, p, n>>
      <4>1. <<t, p, n>> \in Places /\ uncommitted \in Seq(Places)
        BY <1>1, <2>1
      <4> QED
        BY <4>1, EntriesAppended, Zenon
    <3>2. \A e \in ToSet(uncommitted') : e \in ToSet(uncommitted) \/ e = <<t, p, n>>
      BY <2>3, <3>1
    <3>3. \A e \in ToSet(uncommitted') : WithinLog(e)'
      BY <1>3, <2>1, <3>2, Zenon
    <3> QED
      BY <2>3, <3>1, <3>3
  <2> QED
    BY <1>1, <2>2, <2>3
<1>5. /\ rpc' \in {"idle", "poll", "user", "commit_in_loop", "left", "commit", "raised"}
      /\ rpc' = "user" <=> cur' # NoMsg
      /\ cur' # NoMsg => cur' \in Places
  <2>1. CASE cur' = <<t, p, n>> /\ rpc' = "user"
    BY <1>1, <2>1
  <2>2. CASE cur' = cur /\ rpc' \in {"poll", "raised", "left"}
    BY <1>1, <2>2
  <2> QED
    BY <1>1, <2>1, <2>2 DEF Poll
<1>6. ended' \subseteq Jobs
  <2>1. log[t][p][n].job \in Jobs
    BY <1>1 DEF Messages
  <2> QED
    BY <2>1 DEF Poll, RecvTypes
<1>7. /\ opts' \in ReceiverOptions /\ committed' \in [Topics -> [Parts -> Nat]]
      /\ requests' \in Seq(Places) /\ \A e \in ToSet(requests') : WithinLog(e)'
      /\ subscription' \subseteq subscribed' /\ subscribed' \subseteq Topics
      /\ processed' \subseteq Places /\ crashes' \in Nat
  BY <1>0 DEF RecvTypes, WithinLog
<1> QED
  BY <1>1, <1>2, <1>4, <1>5, <1>6, <1>7 DEF RecvTypes

\* commit hands an entry of the list to the library.
LEMMA CommitOneFacts ==
  ASSUME RecvTypes, CommitOne
  PROVE  /\ cur = NoMsg /\ rpc # "user" /\ rpc' # "user"
         /\ uncommitted' \in Seq(Places) /\ requests' \in Seq(Places)
         /\ \A e \in ToSet(uncommitted') : e \in ToSet(uncommitted)
         /\ \A e \in ToSet(requests') : e \in ToSet(requests) \/ e \in ToSet(uncommitted)
<1>1. uncommitted \in Seq(Places) /\ requests \in Seq(Places)
  BY DEF RecvTypes
<1>2. cur = NoMsg /\ rpc # "user" /\ rpc' # "user"
  BY DEF CommitOne, RecvTypes
<1>3. CASE uncommitted = <<>>
  BY <1>1, <1>2, <1>3 DEF CommitOne
<1>4. CASE uncommitted # <<>>
  <2>1. uncommitted' = Tail(uncommitted) /\ requests' = Append(requests, Head(uncommitted))
    BY <1>4 DEF CommitOne
  <2>2. /\ Head(uncommitted) \in Places /\ Head(uncommitted) \in ToSet(uncommitted)
        /\ Tail(uncommitted) \in Seq(Places)
        /\ \A e \in ToSet(Tail(uncommitted)) : e \in ToSet(uncommitted)
    BY <1>1, <1>4, EntriesOfTail
  <2>3. /\ Append(requests, Head(uncommitted)) \in Seq(Places)
        /\ \A e \in ToSet(Append(requests, Head(uncommitted))) :
             e \in ToSet(requests) \/ e = Head(uncommitted)
    BY <1>1, <2>2, EntriesAppended
  <2> QED
    BY <1>2, <2>1, <2>2, <2>3
<1> QED
  BY <1>3, <1>4

LEMMA CommitOneKeepsRecvTypes ==
  ASSUME RecvTypes, CommitOne
  PROVE  RecvTypes'
<1>1. /\ UNCHANGED <<log, committed, opts, position, subscription, subscribed,
                     cur, processed, ended, crashes>>
      /\ rpc' \in {"idle", "poll", "commit_in_loop", "commit"}
  BY DEF CommitOne
<1>2. /\ \A e \in ToSet(requests') : WithinLog(e)'
      /\ \A e \in ToSet(uncommitted') : WithinLog(e)'
  BY <1>1, CommitOneFacts DEF RecvTypes, WithinLog
<1> QED
  BY <1>1, <1>2, CommitOneFacts DEF RecvTypes

\* A commit request reaches the broker.
LEMMA CommitArrivesFacts ==
  ASSUME RecvTypes, CommitArrives
  PROVE  \E t \in Topics, p \in Parts, n \in Nat :
           /\ <<t, p, n>> \in ToSet(requests)
           /\ committed' \in [Topics -> [Parts -> Nat]] /\ committed'[t][p] = n
           /\ \A u \in Topics, q \in Parts : u # t \/ q # p => committed'[u][q] = committed[u][q]
           /\ requests' \in Seq(Places)
           /\ \A e \in ToSet(requests') : e \in ToSet(requests)
<1> DEFINE r == Head(requests)
<1>1. /\ r \in Places /\ r \in ToSet(requests)
      /\ Tail(requests) \in Seq(Places)
      /\ \A e \in ToSet(Tail(requests)) : e \in ToSet(requests)
  <2>1. requests \in Seq(Places) /\ requests # <<>>
    BY DEF CommitArrives, RecvTypes
  <2> QED
    BY <2>1, EntriesOfTail
<1>2. /\ committed' = [committed EXCEPT ![r[1]][r[2]] = r[3]]
      /\ requests' = Tail(requests)
  BY DEF CommitArrives
<1> HIDE DEF r
<1>3. PICK t \in Topics, p \in Parts, n \in Nat : r = <<t, p, n>>
  BY <1>1 DEF Places
<1>4. committed' = [committed EXCEPT ![t][p] = n]
  BY <1>2, <1>3
<1>5. /\ committed' \in [Topics -> [Parts -> Nat]] /\ committed'[t][p] = n
      /\ \A u \in Topics, q \in Parts : u # t \/ q # p => committed'[u][q] = committed[u][q]
  <2>1. committed \in [Topics -> [Parts -> Nat]]
    BY DEF RecvTypes
  <2> QED
    BY <1>4, <2>1, OffsetSet
<1>6. /\ <<t, p, n>> \in ToSet(requests)
      /\ requests' \in Seq(Places)
      /\ \A e \in ToSet(requests') : e \in ToSet(requests)
  BY <1>1, <1>2, <1>3
<1> QED
  BY <1>5, <1>6

LEMMA CommitArrivesKeepsRecvTypes ==
  ASSUME RecvTypes, CommitArrives
  PROVE  RecvTypes'
<1>1. PICK t \in Topics, p \in Parts, n \in Nat :
           /\ <<t, p, n>> \in ToSet(requests)
           /\ committed' \in [Topics -> [Parts -> Nat]] /\ committed'[t][p] = n
           /\ \A u \in Topics, q \in Parts : u # t \/ q # p => committed'[u][q] = committed[u][q]
           /\ requests' \in Seq(Places)
           /\ \A e \in ToSet(requests') : e \in ToSet(requests)
  BY CommitArrivesFacts
<1>2. UNCHANGED <<log, opts, position, subscription, subscribed, uncommitted, rpc,
                  cur, processed, ended, crashes>>
  BY DEF CommitArrives, recvVars
<1>3. n <= Len(log[t][p])
  <2>1. WithinLog(<<t, p, n>>)
    BY <1>1 DEF RecvTypes
  <2> QED
    BY <2>1 DEF WithinLog
<1>4. ASSUME NEW u \in Topics, NEW q \in Parts
      PROVE  position'[u][q] <= Len(log'[u][q]) /\ committed'[u][q] <= Len(log'[u][q])
  <2>1. position[u][q] <= Len(log[u][q]) /\ committed[u][q] <= Len(log[u][q])
    BY DEF RecvTypes
  <2>2. CASE u = t /\ q = p
    BY <1>1, <1>2, <1>3, <2>1, <2>2
  <2>3. CASE u # t \/ q # p
    BY <1>1, <1>2, <2>1, <2>3
  <2> QED
    BY <2>2, <2>3
<1>5. /\ \A e \in ToSet(requests') : WithinLog(e)'
      /\ \A e \in ToSet(uncommitted') : WithinLog(e)'
  BY <1>1, <1>2 DEF RecvTypes, WithinLog
<1> QED
  BY <1>1, <1>2, <1>4, <1>5 DEF RecvTypes

\* Every step of the receiver, of its client library and of the broker.
ReceiverStep ==
  \/ \E tp \in TP : Poll(tp[1], tp[2])
  \/ UserCalls \/ Timeout \/ Process \/ CommitOne
  \/ CommitArrives \/ AutoCommit \/ Restart

LEMMA ReceiverKeepsTypes ==
  ASSUME SendTypes, RecvTypes, ReceiverStep
  PROVE  /\ SendTypes' /\ RecvTypes'
         /\ UNCHANGED <<log, sendVars>>
<1>1. CASE \E tp \in TP : Poll(tp[1], tp[2])
  <2>1. PICK t \in Topics, p \in Parts : Poll(t, p)
    BY <1>1 DEF TP
  <2>2. UNCHANGED <<log, sendVars>>
    BY <2>1 DEF Poll
  <2> QED
    BY <2>1, <2>2, PollKeepsRecvTypes, SameLogs
<1>2. CASE \E T \in AskSets : Ask(T)
  <2>1. PICK T \in AskSets : Ask(T)
    BY <1>2
  <2>2. UNCHANGED <<log, sendVars>>
    BY <2>1 DEF Ask
  <2> QED
    BY <2>1, <2>2, AskKeepsRecvTypes, SameLogs
<1>3. CASE CommitOne
  BY <1>3, CommitOneKeepsRecvTypes, SameLogs DEF CommitOne
<1>4. CASE CommitArrives
  BY <1>4, CommitArrivesKeepsRecvTypes, SameLogs DEF CommitArrives
<1>5. CASE Commit \/ Timeout
  BY <1>5, SameLogs DEF Commit, Timeout, brokerVars, RecvTypes
<1>6. CASE Process
  BY <1>6, SameLogs DEF Process, brokerVars, RecvTypes
<1>7. CASE Unsubscribe
  <2>1. UNCHANGED <<log, sendVars, requests, opts, position, uncommitted, cur,
                    processed, ended, crashes>>
        /\ rpc = "left" /\ rpc' = "commit" /\ subscription' = {} /\ subscribed' = {}
    BY <1>7 DEF Unsubscribe
  <2>2. committed' = [t \in Topics |-> IF opts.autoCommit /\ t \in subscription
                                       THEN position[t] ELSE committed[t]]
    BY <1>7 DEF Unsubscribe
  <2>3. /\ committed' \in [Topics -> [Parts -> Nat]]
        /\ \A t \in Topics, p \in Parts :
             position'[t][p] <= Len(log'[t][p]) /\ committed'[t][p] <= Len(log'[t][p])
    BY <2>1, <2>2 DEF RecvTypes
  <2> QED
    BY <2>1, <2>3, SameLogs DEF RecvTypes
<1>8. CASE AutoCommit
  <2>1. UNCHANGED <<log, sendVars, requests>> /\ UNCHANGED recvVars
    BY <1>8 DEF AutoCommit
  <2>2. PICK t \in subscription : committed' = [committed EXCEPT ![t] = position[t]]
    BY <1>8 DEF AutoCommit
  <2>3. t \in Topics
    BY DEF RecvTypes
  <2>4. /\ committed' \in [Topics -> [Parts -> Nat]]
        /\ \A u \in Topics, p \in Parts : committed'[u][p] <= Len(log'[u][p])
    BY <2>1, <2>2, <2>3 DEF RecvTypes
  <2> QED
    BY <2>1, <2>4, SameLogs DEF RecvTypes, recvVars
<1>9. CASE Restart
  <2>1. /\ UNCHANGED <<log, sendVars, committed, opts, position, processed, ended>>
        /\ rpc' = "idle" /\ subscription' = {} /\ subscribed' = {}
        /\ uncommitted' = <<>> /\ requests' = <<>> /\ cur' = NoMsg
        /\ crashes' = crashes \/ crashes' = crashes + 1
    BY <1>9 DEF Restart
  <2>2. crashes' \in Nat
    BY <2>1 DEF RecvTypes
  <2>3. uncommitted' \in Seq(Places) /\ requests' \in Seq(Places)
    BY <2>1, EmptySeq
  <2> QED
    BY <2>1, <2>2, <2>3, SameLogs, NoEntries DEF RecvTypes
<1> QED
  BY <1>1, <1>2, <1>3, <1>4, <1>5, <1>6, <1>7, <1>8, <1>9 DEF ReceiverStep, UserCalls

LEMMA InitTypes == Init => SendTypes /\ RecvTypes
<1> SUFFICES ASSUME Init PROVE SendTypes /\ RecvTypes
  OBVIOUS
<1>1. <<>> \in Seq(Messages) /\ <<>> \in Seq(Outgoing) /\ <<>> \in Seq(Places)
  BY EmptySeq
<1>2. SendTypes
  <2>1. log \in [Topics -> [Parts -> Seq(Messages)]]
    BY <1>1 DEF Init, Empty
  <2>2. outbox \in [Jobs -> Seq(Outgoing)]
    BY <1>1 DEF Init
  <2>3. \A j \in Jobs : sent[j] <= Len(Job[j].items)
    BY JobFacts DEF Init
  <2> QED
    BY <2>1, <2>2, <2>3 DEF Init, SendTypes
<1>3. RecvTypes
  <2>1. position \in [Topics -> [Parts -> Nat]] /\ committed \in [Topics -> [Parts -> Nat]]
    BY DEF Init, Empty
  <2>2. \A t \in Topics, p \in Parts :
          position[t][p] <= Len(log[t][p]) /\ committed[t][p] <= Len(log[t][p])
    BY DEF Init, Empty
  <2>3. opts \in ReceiverOptions
    BY KafkaAssumption DEF Init
  <2> QED
    BY <1>1, <2>1, <2>2, <2>3, NoEntries DEF Init, RecvTypes
<1> QED
  BY <1>2, <1>3

(***************************************************************************)
(* Commits                                                                 *)
(***************************************************************************)

\* The items of a partition up to an offset: all processed,
Handled(e) ==
  \A k \in 1 .. e[3] :
    log[e[1]][e[2]][k].kind = "item" => <<e[1], e[2], k>> \in processed
\* or one of them in the hands of the user.
Taken(e) ==
  \A k \in 1 .. e[3] :
    log[e[1]][e[2]][k].kind = "item" => <<e[1], e[2], k>> \in processed \/ <<e[1], e[2], k>> = cur

\* The offsets that are committed or on their way to the broker,
IsCommitted(e) == e[3] = committed[e[1]][e[2]] \/ e \in ToSet(requests)
\* and those the receiver has reached or will commit.
IsRead(e) == \/ e[1] \in subscription /\ e[3] = position[e[1]][e[2]]
             \/ e \in ToSet(uncommitted)

CommitInv ==
  ~ opts.autoCommit => \A e \in Places : /\ IsCommitted(e) => Handled(e)
                                         /\ IsRead(e) => Taken(e)

LEMMA MarksAreInLogs ==
  ASSUME RecvTypes, NEW e \in Places, IsCommitted(e) \/ IsRead(e)
  PROVE  e[1] \in Topics /\ e[2] \in Parts /\ e[3] \in Nat /\ e[3] <= Len(log[e[1]][e[2]])
BY DEF RecvTypes, IsCommitted, IsRead, WithinLog, Places

\* What was handled stays handled, what was taken is processed or still held.
LEMMA MarksKept ==
  ASSUME SendTypes, LogGrows, processed \subseteq processed',
         \A x \in Places : x = cur => x \in processed' \/ x = cur',
         NEW e \in Places, e[3] <= Len(log[e[1]][e[2]])
  PROVE  (Handled(e) => Handled(e)') /\ (Taken(e) => Taken(e)')
<1>1. e[1] \in Topics /\ e[2] \in Parts /\ e[3] \in Nat
  BY DEF Places
<1>2. Len(log[e[1]][e[2]]) \in Nat
  BY <1>1, LogLengths
<1>3. ASSUME NEW k \in 1 .. e[3]
      PROVE  log'[e[1]][e[2]][k] = log[e[1]][e[2]][k] /\ <<e[1], e[2], k>> \in Places
  <2>1. k \in 1 .. Len(log[e[1]][e[2]]) /\ k \in Nat
    BY <1>1, <1>2
  <2> QED
    BY <1>1, <2>1 DEF LogGrows, Places
<1>4. Handled(e) => Handled(e)'
  BY <1>3 DEF Handled
<1>5. Taken(e) => Taken(e)'
  BY <1>3 DEF Taken
<1> QED
  BY <1>4, <1>5

\* A step may turn what was read into a commit if the user holds nothing.
LEMMA MarksMove ==
  ASSUME SendTypes, RecvTypes, CommitInv, LogGrows, opts' = opts,
         processed \subseteq processed',
         \A x \in Places : x = cur => x \in processed' \/ x = cur',
         ~ opts.autoCommit =>
           \A e \in Places :
             /\ IsCommitted(e)' => IsCommitted(e) \/ (cur = NoMsg /\ IsRead(e))
             /\ IsRead(e)' => IsRead(e) \/ IsCommitted(e) \/ Taken(e)'
  PROVE  CommitInv'
<1> SUFFICES ASSUME ~ opts.autoCommit, NEW e \in Places
             PROVE  (IsCommitted(e)' => Handled(e)') /\ (IsRead(e)' => Taken(e)')
  BY DEF CommitInv
<1>1. (IsCommitted(e) => Handled(e)) /\ (IsRead(e) => Taken(e))
  BY DEF CommitInv
<1>2. IsCommitted(e) \/ IsRead(e) => (Handled(e) => Handled(e)') /\ (Taken(e) => Taken(e)')
  <2> SUFFICES ASSUME IsCommitted(e) \/ IsRead(e)
               PROVE  (Handled(e) => Handled(e)') /\ (Taken(e) => Taken(e)')
    OBVIOUS
  <2>1. e[3] <= Len(log[e[1]][e[2]])
    BY MarksAreInLogs
  <2> QED
    BY <2>1, MarksKept
<1>3. cur = NoMsg /\ Taken(e) => Handled(e)
  BY DEF Taken, Handled, NoMsg
<1>4. Handled(e) => Taken(e)
  BY DEF Taken, Handled
<1> QED
  BY <1>1, <1>2, <1>3, <1>4

LEMMA SameLogGrows == SendTypes /\ log' = log => LogGrows
BY LogLengths DEF LogGrows

\* The next message is the only one taken that was not before.
LEMMA PollKeepsCommits ==
  ASSUME SendTypes, RecvTypes, CommitInv, NEW t \in Topics, NEW p \in Parts, Poll(t, p)
  PROVE  CommitInv'
<1> PICK n \in Nat : n = position[t][p] + 1
  BY DEF RecvTypes
<1>1. /\ cur = NoMsg /\ t \in subscription
      /\ n \in 1 .. Len(log[t][p])
      /\ <<t, p, n>> \in Places /\ <<t, p, n>> # NoMsg
      /\ position'[t][p] = n
      /\ \A u \in Topics, q \in Parts : u # t \/ q # p => position'[u][q] = position[u][q]
      /\ uncommitted' = uncommitted \/ uncommitted' = Append(uncommitted, <<t, p, n>>)
      /\ log[t][p][n].kind = "item" => cur' = <<t, p, n>>
      /\ log[t][p][n].kind # "item" => cur' = cur
  BY PollFacts
<1>2. UNCHANGED <<log, committed, requests, opts, subscription, processed>>
  BY DEF Poll, brokerVars
<1>3. \A x \in Places : x = cur => x \in processed' \/ x = cur'
  BY <1>1 DEF Places, NoMsg
<1>4. ~ opts.autoCommit => \A e : e = <<t, p, n>> => Taken(e)'
  <2> SUFFICES ASSUME ~ opts.autoCommit, NEW k \in 1 .. n, log[t][p][k].kind = "item"
               PROVE  <<t, p, k>> \in processed \/ <<t, p, k>> = cur'
    BY <1>2 DEF Taken
  <2>1. CASE k = n
    BY <1>1, <2>1
  <2>2. CASE k # n
    <3>1. position[t][p] \in Nat /\ <<t, p, position[t][p]>> \in Places
      BY DEF RecvTypes, Places
    <3>2. Taken(<<t, p, position[t][p]>>)
      BY <1>1, <3>1 DEF CommitInv, IsRead
    <3>3. k \in 1 .. position[t][p] /\ k \in Nat
      BY <2>2, <3>1
    <3>4. <<t, p, k>> \in processed \/ <<t, p, k>> = cur
      BY <3>2, <3>3 DEF Taken
    <3> QED
      BY <1>1, <3>4 DEF NoMsg
  <2> QED
    BY <2>1, <2>2
<1>5. \A e \in Places : IsCommitted(e)' => IsCommitted(e)
  BY <1>2 DEF IsCommitted
<1>6. \A e \in Places : IsRead(e)' => IsRead(e) \/ e = <<t, p, n>>
  <2> SUFFICES ASSUME NEW e \in Places, IsRead(e)', e # <<t, p, n>>
               PROVE  IsRead(e)
    OBVIOUS
  <2>1. e \in ToSet(uncommitted') => e \in ToSet(uncommitted)
    <3>1. uncommitted \in Seq(Places) /\ <<t, p, n>> \in Places
      BY <1>1 DEF RecvTypes
    <3>2. \A x \in ToSet(Append(uncommitted, <<t, p, n>>)) :
            x \in ToSet(uncommitted) \/ x = <<t, p, n>>
      BY <3>1, EntriesAppended, Zenon
    <3> QED
      BY <1>1, <3>2
  <2>2. e[1] \in subscription' /\ e[3] = position'[e[1]][e[2]]
          => e[1] \in subscription /\ e[3] = position[e[1]][e[2]]
    BY <1>1, <1>2 DEF Places
  <2> QED
    BY <2>1, <2>2 DEF IsRead
<1>7. \A e \in Places : e = <<t, p, n>> /\ ~ opts.autoCommit => Taken(e)'
  BY <1>4
<1>8. LogGrows /\ opts' = opts /\ processed \subseteq processed'
  BY <1>2, SameLogGrows
<1> QED
  BY <1>3, <1>5, <1>6, <1>7, <1>8, MarksMove

\* A topic asked for anew is read from the group's offset.
LEMMA AskKeepsCommits ==
  ASSUME SendTypes, RecvTypes, CommitInv, NEW T \in AskSets, Ask(T)
  PROVE  CommitInv'
<1>1. UNCHANGED <<log, requests, opts, uncommitted, cur, processed>>
  BY DEF Ask
<1>2. LogGrows
  BY <1>1, SameLogGrows
<1>3. ~ opts.autoCommit =>
        \A e \in Places : /\ IsCommitted(e)' => IsCommitted(e)
                          /\ IsRead(e)' => IsRead(e) \/ IsCommitted(e)
  <2> SUFFICES ASSUME ~ opts.autoCommit, NEW e \in Places
               PROVE  /\ IsCommitted(e)' => IsCommitted(e)
                      /\ IsRead(e)' => IsRead(e) \/ IsCommitted(e)
    OBVIOUS
  <2>1. e[1] \in Topics
    BY DEF Places
  <2>2. /\ committed'[e[1]] = committed[e[1]]
        /\ e[1] \in subscription' => \/ position'[e[1]] = committed[e[1]]
                                     \/ e[1] \in subscription /\ position'[e[1]] = position[e[1]]
    BY <2>1, AskFacts
  <2> QED
    BY <1>1, <2>2 DEF IsCommitted, IsRead
<1> QED
  BY <1>1, <1>2, <1>3, MarksMove

LEMMA ReceiverKeepsCommits ==
  ASSUME SendTypes, RecvTypes, CommitInv, ReceiverStep
  PROVE  CommitInv'
<1>0. log' = log /\ LogGrows
  BY ReceiverKeepsTypes, SameLogGrows
<1>1. CASE \E tp \in TP : Poll(tp[1], tp[2])
  BY <1>1, PollKeepsCommits DEF TP
<1>2. CASE \E T \in AskSets : Ask(T)
  BY <1>2, AskKeepsCommits
<1>3. CASE Commit \/ Timeout
  BY <1>0, <1>3, MarksMove DEF Commit, Timeout, brokerVars, IsCommitted, IsRead
<1>4. CASE Process
  <2>1. /\ UNCHANGED <<opts, committed, requests, position, subscription, uncommitted>>
        /\ processed' = processed \union {cur}
    BY <1>4 DEF Process, brokerVars
  <2>2. \A e \in Places : (IsCommitted(e)' => IsCommitted(e)) /\ (IsRead(e)' => IsRead(e))
    BY <2>1 DEF IsCommitted, IsRead
  <2> QED
    BY <1>0, <2>1, <2>2, MarksMove
<1>5. CASE CommitOne
  <2>1. UNCHANGED <<opts, committed, position, subscription, cur, processed>>
    BY <1>5 DEF CommitOne
  <2>2. /\ cur = NoMsg
        /\ \A e \in ToSet(uncommitted') : e \in ToSet(uncommitted)
        /\ \A e \in ToSet(requests') : e \in ToSet(requests) \/ e \in ToSet(uncommitted)
    BY <1>5, CommitOneFacts
  <2>3. \A e \in Places : /\ IsCommitted(e)' => IsCommitted(e) \/ IsRead(e)
                          /\ IsRead(e)' => IsRead(e)
    BY <2>1, <2>2 DEF IsCommitted, IsRead
  <2> QED
    BY <1>0, <2>1, <2>2, <2>3, MarksMove
<1>6. CASE CommitArrives
  <2>1. UNCHANGED <<opts, position, subscription, uncommitted, cur, processed>>
    BY <1>6 DEF CommitArrives, recvVars
  <2>2. PICK t \in Topics, p \in Parts, n \in Nat :
             /\ <<t, p, n>> \in ToSet(requests)
             /\ committed'[t][p] = n
             /\ \A u \in Topics, q \in Parts : u # t \/ q # p => committed'[u][q] = committed[u][q]
             /\ \A e \in ToSet(requests') : e \in ToSet(requests)
    BY <1>6, CommitArrivesFacts
  <2>3. \A e \in Places : IsCommitted(e)' => IsCommitted(e)
    <3> SUFFICES ASSUME NEW e \in Places, IsCommitted(e)' PROVE IsCommitted(e)
      OBVIOUS
    <3>1. e[1] \in Topics /\ e[2] \in Parts /\ e = <<e[1], e[2], e[3]>>
      BY DEF Places
    <3>2. CASE e \in ToSet(requests')
      BY <2>2, <3>2 DEF IsCommitted
    <3>3. CASE e[3] = committed'[e[1]][e[2]]
      <4>1. CASE e[1] = t /\ e[2] = p
        BY <2>2, <3>1, <3>3, <4>1 DEF IsCommitted
      <4>2. CASE e[1] # t \/ e[2] # p
        BY <2>2, <3>1, <3>3, <4>2 DEF IsCommitted
      <4> QED
        BY <4>1, <4>2
    <3> QED
      BY <3>2, <3>3 DEF IsCommitted
  <2>4. \A e \in Places : IsRead(e)' => IsRead(e)
    BY <2>1 DEF IsRead
  <2> QED
    BY <1>0, <2>1, <2>3, <2>4, MarksMove
<1>7. CASE Unsubscribe
  <2>1. /\ UNCHANGED <<opts, requests, uncommitted, cur, processed>> /\ subscription' = {}
        /\ committed' = [t \in Topics |-> IF opts.autoCommit /\ t \in subscription
                                          THEN position[t] ELSE committed[t]]
    BY <1>7 DEF Unsubscribe
  <2>2. ~ opts.autoCommit => \A e \in Places : committed'[e[1]] = committed[e[1]]
    BY <2>1 DEF Places
  <2>3. ~ opts.autoCommit => \A e \in Places : /\ IsCommitted(e)' => IsCommitted(e)
                                               /\ IsRead(e)' => IsRead(e)
    BY <2>1, <2>2 DEF IsCommitted, IsRead
  <2> QED
    BY <1>0, <2>1, <2>3, MarksMove
<1>8. CASE AutoCommit
  BY <1>8 DEF AutoCommit, CommitInv, recvVars
<1>9. CASE Restart
  <2>1. /\ UNCHANGED <<committed, opts, position, processed>>
        /\ subscription' = {} /\ uncommitted' = <<>> /\ requests' = <<>> /\ cur' = NoMsg
    BY <1>9 DEF Restart
  <2>2. \A e \in Places : (IsCommitted(e)' => IsCommitted(e)) /\ ~ IsRead(e)'
    BY <2>1, NoEntries DEF IsCommitted, IsRead
  <2> SUFFICES ASSUME ~ opts.autoCommit, NEW e \in Places, IsCommitted(e)'
               PROVE  Handled(e)'
    BY <2>1, <2>2 DEF CommitInv
  <2>3. Handled(e)
    BY <2>2 DEF CommitInv
  <2> QED
    BY <1>0, <2>1, <2>3 DEF Handled
<1> QED
  BY <1>1, <1>2, <1>3, <1>4, <1>5, <1>6, <1>7, <1>8, <1>9 DEF ReceiverStep, UserCalls

\* A step of a producer, or a delivery, leaves the receiver alone.
LEMMA ProducersGrowLogs ==
  ASSUME SendTypes, NEW j \in Jobs, SendStep(j) \/ Delivery(j)
  PROVE  SendTypes' /\ LogGrows /\ UNCHANGED <<recvVars, brokerVars>>
<1>1. CASE SendStep(j)
  <2>1. SendTypes' /\ LogGrows
    BY <1>1, SendStepKeepsTypes, SameLogGrows
  <2>2. UNCHANGED <<recvVars, brokerVars>>
    BY <1>1 DEF SendStep, NextItem, Flush, EndCommand, NoEndCommand, LastFlush
  <2> QED
    BY <2>1, <2>2
<1>2. CASE Delivery(j)
  <2>1. PICK k \in 1 .. Len(outbox[j]) : Deliver(j, k)
    BY <1>2 DEF Delivery
  <2> QED
    BY <2>1, DeliveryKeepsTypes DEF Deliver
<1> QED
  BY <1>1, <1>2

LEMMA ProducersKeepCommits ==
  ASSUME SendTypes, RecvTypes, CommitInv, LogGrows, UNCHANGED <<recvVars, brokerVars>>
  PROVE  CommitInv'
<1>1. UNCHANGED <<opts, committed, requests, position, subscription, uncommitted, cur, processed>>
  BY DEF recvVars, brokerVars
<1>2. \A e \in Places : (IsCommitted(e)' => IsCommitted(e)) /\ (IsRead(e)' => IsRead(e))
  BY <1>1 DEF IsCommitted, IsRead
<1> QED
  BY <1>1, <1>2, MarksMove

OffsetInv == SendTypes /\ RecvTypes /\ CommitInv

LEMMA NextIsAStep ==
  Next => (\E j \in Jobs : SendStep(j) \/ Delivery(j)) \/ ReceiverStep
BY DEF Next, ReceiverStep

LEMMA StutterKeepsOffsets ==
  ASSUME OffsetInv, UNCHANGED vars
  PROVE  OffsetInv'
<1>1. UNCHANGED <<log, sendVars>> /\ UNCHANGED <<recvVars, brokerVars>>
  BY DEF vars
<1>2. SendTypes' /\ LogGrows
  BY <1>1, SameLogs, SameLogGrows DEF OffsetInv
<1> QED
  BY <1>1, <1>2, GrowthKeepsRecvTypes, ProducersKeepCommits DEF OffsetInv

\* No offset, committed or on its way, has an item behind it that is neither
\* processed nor in the hands of the user, for any number of crashes, topics
\* and partitions and any order of commit requests and subscriptions.
THEOREM OffsetInvariance == Spec => []OffsetInv
<1>1. Init => OffsetInv
  <2> SUFFICES ASSUME Init PROVE OffsetInv
    OBVIOUS
  <2>1. SendTypes /\ RecvTypes
    BY InitTypes
  <2>2. ASSUME NEW e \in Places, IsCommitted(e) \/ IsRead(e)
        PROVE  Handled(e)
    <3>1. e[3] = 0
      <4>1. e[1] \in Topics /\ e[2] \in Parts
        BY DEF Places
      <4>2. requests = <<>> /\ uncommitted = <<>> /\ subscription = {} /\ committed = Empty(0)
        BY DEF Init
      <4> QED
        BY <2>2, <4>1, <4>2, NoEntries DEF Empty, IsCommitted, IsRead
    <3> QED
      BY <3>1 DEF Handled
  <2> QED
    BY <2>1, <2>2 DEF OffsetInv, CommitInv, Handled, Taken
<1>2. OffsetInv /\ [Next]_vars => OffsetInv'
  <2> SUFFICES ASSUME OffsetInv, [Next]_vars PROVE OffsetInv'
    OBVIOUS
  <2>1. CASE \E j \in Jobs : SendStep(j) \/ Delivery(j)
    <3>1. SendTypes' /\ LogGrows /\ UNCHANGED <<recvVars, brokerVars>>
      BY <2>1, ProducersGrowLogs DEF OffsetInv
    <3> QED
      BY <3>1, GrowthKeepsRecvTypes, ProducersKeepCommits DEF OffsetInv
  <2>2. CASE ReceiverStep
    BY <2>2, ReceiverKeepsTypes, ReceiverKeepsCommits DEF OffsetInv
  <2>3. CASE UNCHANGED vars
    BY <2>3, StutterKeepsOffsets
  <2> QED
    BY <2>1, <2>2, <2>3, NextIsAStep
<1> QED
  BY <1>1, <1>2, PTL DEF Spec

\* With auto commit off, the group's offset never passes an item that no loop
\* body has finished (commit, KafkaQueue.py:466-475).
THEOREM CommitsAreProcessed == Spec => []CommittedIsProcessed
<1>1. OffsetInv => CommittedIsProcessed
  <2> SUFFICES ASSUME OffsetInv, ~ opts.autoCommit, NEW tp \in TP,
                      NEW n \in 1 .. committed[tp[1]][tp[2]],
                      log[tp[1]][tp[2]][n].kind = "item"
               PROVE  <<tp[1], tp[2], n>> \in processed
    BY DEF CommittedIsProcessed
  <2>1. tp[1] \in Topics /\ tp[2] \in Parts
    BY DEF TP
  <2>2. PICK e \in Places : e = <<tp[1], tp[2], committed[tp[1]][tp[2]]>>
    BY <2>1 DEF OffsetInv, RecvTypes, Places
  <2>3. Handled(e)
    BY <2>2 DEF OffsetInv, CommitInv, IsCommitted
  <2> QED
    BY <2>2, <2>3 DEF Handled
<1> QED
  BY <1>1, OffsetInvariance, PTL

(***************************************************************************)
(* Messages                                                                *)
(***************************************************************************)

LEMMA MessagesUnfolded ==
  ASSUME NEW j
  PROVE  /\ \A m : m \in MessagesOf(j) <=>
              \E t \in Topics, p \in Parts : \E n \in 1 .. Len(log[t][p]) :
                m = <<t, p, n>> /\ log[t][p][n].job = j
         /\ \A m : m \in MessagesOf(j)' <=>
              \E t \in Topics, p \in Parts : \E n \in 1 .. Len(log'[t][p]) :
                m = <<t, p, n>> /\ log'[t][p][n].job = j
<1>1. ASSUME NEW m
      PROVE  m \in MessagesOf(j) <=>
              \E t \in Topics, p \in Parts : \E n \in 1 .. Len(log[t][p]) :
                m = <<t, p, n>> /\ log[t][p][n].job = j
  <2>1. ASSUME m \in MessagesOf(j)
        PROVE  \E t \in Topics, p \in Parts : \E n \in 1 .. Len(log[t][p]) :
                 m = <<t, p, n>> /\ log[t][p][n].job = j
    <3>1. PICK tp \in TP : \E n \in 1 .. Len(log[tp[1]][tp[2]]) : m = <<tp[1], tp[2], n>>
      BY <2>1 DEF MessagesOf, Indices
    <3>2. PICK n \in 1 .. Len(log[tp[1]][tp[2]]) : m = <<tp[1], tp[2], n>>
      BY <3>1
    <3>3. log[m[1]][m[2]][m[3]].job = j
      BY <2>1 DEF MessagesOf
    <3>4. tp[1] \in Topics /\ tp[2] \in Parts /\ m[1] = tp[1] /\ m[2] = tp[2] /\ m[3] = n
      BY <3>2 DEF TP
    <3> QED
      BY <3>2, <3>3, <3>4
  <2>2. ASSUME NEW t \in Topics, NEW p \in Parts, NEW n \in 1 .. Len(log[t][p]),
               m = <<t, p, n>>, log[t][p][n].job = j
        PROVE  m \in MessagesOf(j)
    <3>1. PICK tp \in TP : tp = <<t, p>>
      BY DEF TP
    <3>2. m = <<tp[1], tp[2], n>> /\ n \in 1 .. Len(log[tp[1]][tp[2]])
      BY <2>2, <3>1
    <3>3. log[m[1]][m[2]][m[3]].job = j
      BY <2>2
    <3> QED
      BY <3>2, <3>3 DEF MessagesOf, Indices
  <2> QED
    BY <2>1, <2>2
<1>2. ASSUME NEW m
      PROVE  m \in MessagesOf(j)' <=>
              \E t \in Topics, p \in Parts : \E n \in 1 .. Len(log'[t][p]) :
                m = <<t, p, n>> /\ log'[t][p][n].job = j
  <2>1. ASSUME m \in MessagesOf(j)'
        PROVE  \E t \in Topics, p \in Parts : \E n \in 1 .. Len(log'[t][p]) :
                 m = <<t, p, n>> /\ log'[t][p][n].job = j
    <3>1. PICK tp \in TP : \E n \in 1 .. Len(log'[tp[1]][tp[2]]) : m = <<tp[1], tp[2], n>>
      BY <2>1 DEF MessagesOf, Indices
    <3>2. PICK n \in 1 .. Len(log'[tp[1]][tp[2]]) : m = <<tp[1], tp[2], n>>
      BY <3>1
    <3>3. log'[m[1]][m[2]][m[3]].job = j
      BY <2>1 DEF MessagesOf
    <3>4. tp[1] \in Topics /\ tp[2] \in Parts /\ m[1] = tp[1] /\ m[2] = tp[2] /\ m[3] = n
      BY <3>2 DEF TP
    <3> QED
      BY <3>2, <3>3, <3>4
  <2>2. ASSUME NEW t \in Topics, NEW p \in Parts, NEW n \in 1 .. Len(log'[t][p]),
               m = <<t, p, n>>, log'[t][p][n].job = j
        PROVE  m \in MessagesOf(j)'
    <3>1. PICK tp \in TP : tp = <<t, p>>
      BY DEF TP
    <3>2. m = <<tp[1], tp[2], n>> /\ n \in 1 .. Len(log'[tp[1]][tp[2]])
      BY <2>2, <3>1
    <3>3. log'[m[1]][m[2]][m[3]].job = j
      BY <2>2
    <3> QED
      BY <3>2, <3>3 DEF MessagesOf, Indices
  <2> QED
    BY <2>1, <2>2
<1> QED
  BY <1>1, <1>2

\* The broker takes message m: its job has one more, the others what they had.
Logged(t, p, n, m) == log' = [log EXCEPT ![t][p] = Append(@, m)] /\ n = Len(log[t][p]) + 1

LEMMA MessageTaken ==
  ASSUME SendTypes, NEW t \in Topics, NEW p \in Parts, NEW n \in Nat, NEW m \in Messages,
         Logged(t, p, n, m), NEW j, m.job = j
  PROVE  /\ \A x : x \in MessagesOf(j)' <=> x \in MessagesOf(j) \/ x = <<t, p, n>>
         /\ <<t, p, n>> \notin MessagesOf(j)
         /\ \A l : l # j => MessagesOf(l)' = MessagesOf(l)
<1>0. log' = [log EXCEPT ![t][p] = Append(@, m)] /\ n = Len(log[t][p]) + 1
  BY DEF Logged
<1>1. /\ LogGrows
      /\ Len(log[t][p]) \in Nat /\ Len(log[t][p]) + 1 = n
      /\ Len(log'[t][p]) = n
      /\ log'[t][p][n] = m
      /\ \A u \in Topics, q \in Parts : u # t \/ q # p => log'[u][q] = log[u][q]
  <2>1. LogGrows /\ Len(log[t][p]) \in Nat
    BY <1>0, LogAppended
  <2>2. Len(log'[t][p]) = Len(log[t][p]) + 1
    BY <1>0, LogAppended
  <2>3. log'[t][p][Len(log[t][p]) + 1] = m
    BY <1>0, LogAppended
  <2>4. \A u \in Topics, q \in Parts : u # t \/ q # p => log'[u][q] = log[u][q]
    BY <1>0, LogAppended
  <2> QED
    BY <1>0, <2>1, <2>2, <2>3, <2>4
<1>2. n \in Nat /\ n \in 1 .. Len(log'[t][p])
  BY <1>1
<1>3. ASSUME NEW l, NEW x \in MessagesOf(l)
      PROVE  x \in MessagesOf(l)' /\ x # <<t, p, n>>
  <2>1. PICK u \in Topics, q \in Parts : \E k \in 1 .. Len(log[u][q]) :
               x = <<u, q, k>> /\ log[u][q][k].job = l
    BY MessagesUnfolded
  <2>2. PICK k \in 1 .. Len(log[u][q]) : x = <<u, q, k>> /\ log[u][q][k].job = l
    BY <2>1
  <2>3. log'[u][q][k] = log[u][q][k]
    BY <1>1 DEF LogGrows
  <2>4. k \in 1 .. Len(log'[u][q])
    BY <1>1 DEF LogGrows
  <2>5. x \in MessagesOf(l)'
    BY <2>2, <2>3, <2>4, MessagesUnfolded
  <2>6. x # <<t, p, n>>
    BY <1>1, <2>2
  <2> QED
    BY <2>5, <2>6
<1>4. ASSUME NEW l, NEW x \in MessagesOf(l)'
      PROVE  x \in MessagesOf(l) \/ (l = j /\ x = <<t, p, n>>)
  <2>1. PICK u \in Topics, q \in Parts : \E k \in 1 .. Len(log'[u][q]) :
               x = <<u, q, k>> /\ log'[u][q][k].job = l
    BY MessagesUnfolded
  <2>2. PICK k \in 1 .. Len(log'[u][q]) : x = <<u, q, k>> /\ log'[u][q][k].job = l
    BY <2>1
  <2>3. CASE u = t /\ q = p /\ k = n
    BY <1>1, <2>2, <2>3
  <2>4. CASE ~ (u = t /\ q = p /\ k = n)
    <3>1. k \in 1 .. Len(log[u][q])
      BY <1>1, <2>2, <2>4
    <3>2. log'[u][q][k] = log[u][q][k]
      BY <1>1, <3>1 DEF LogGrows
    <3>3. log[u][q][k].job = l
      BY <2>2, <3>2
    <3> QED
      BY <2>2, <3>1, <3>3, MessagesUnfolded
  <2> QED
    BY <2>3, <2>4
<1>5. <<t, p, n>> \in MessagesOf(m.job)'
  BY <1>1, <1>2, MessagesUnfolded
<1>6. \A l : l # m.job => MessagesOf(l)' = MessagesOf(l)
  BY <1>3, <1>4
<1> QED
  BY <1>3, <1>4, <1>5, <1>6

LEMMA SameMessages ==
  ASSUME log' = log
  PROVE  \A l : MessagesOf(l)' = MessagesOf(l)
BY DEF MessagesOf, Indices, TP

(***************************************************************************)
(* Flushes: what a send_all that returned has sent is in the logs          *)
(***************************************************************************)

EndsSent(j) == IF pc[j] \in {"last", "done"} /\ Job[j].end # "no" THEN 1 ELSE 0

\* Nothing is lost: every message produced is in the outbox or in a log, and
\* the flush flag is down only when the outbox is empty.
CountOK(j) ==
  /\ \A i \in 1 .. Len(outbox[j]) : outbox[j][i].m.job = j
  /\ IsFiniteSet(MessagesOf(j))
  /\ ~ lost[j] /\ pc[j] # "raised" =>
       Cardinality(MessagesOf(j)) + Len(outbox[j]) = sent[j] + EndsSent(j)
  /\ pc[j] \in {"next", "last"} /\ ~ b_flush[j] => Len(outbox[j]) = 0 /\ ~ lost[j]
  /\ pc[j] = "done" => Len(outbox[j]) = 0 /\ ~ lost[j]
  /\ pc[j] \in {"last", "done"} => sent[j] = Len(Job[j].items)

LEMMA OtherCounts ==
  ASSUME NEW l, CountOK(l), MessagesOf(l)' = MessagesOf(l),
         pc'[l] = pc[l], sent'[l] = sent[l], outbox'[l] = outbox[l],
         b_flush'[l] = b_flush[l], lost'[l] = lost[l]
  PROVE  CountOK(l)'
BY DEF CountOK, EndsSent

LEMMA EmptyOutbox ==
  ASSUME SendTypes, NEW j \in Jobs
  PROVE  /\ Len(outbox[j]) \in Nat
         /\ outbox[j] = <<>> <=> Len(outbox[j]) = 0
<1>1. outbox[j] \in Seq(Outgoing)
  BY DEF SendTypes
<1> QED
  BY <1>1, LenProperties, EmptySeq

LEMMA NextItemKeepsCount ==
  ASSUME SendTypes, NEW j \in Jobs, CountOK(j), NextItem(j)
  PROVE  CountOK(j)'
<1>0. log' = log /\ lost' = lost /\ pc[j] = "next" /\ MessagesOf(j)' = MessagesOf(j)
  BY SameMessages DEF NextItem
<1>1. CASE lost[j]
  <2>1. UNCHANGED <<sent, outbox, kwargs, b_flush>> /\ pc'[j] = "raised"
    BY <1>1 DEF NextItem, Raise, SendTypes
  <2> QED
    BY <1>0, <1>1, <2>1 DEF CountOK
<1>2. CASE ~ lost[j]
  <2>1. PICK p \in Parts, m \in Messages :
           /\ m.job = j
           /\ Job[j].items[sent[j] + 1].topic \in Topics
           /\ Append1(j, Job[j].items[sent[j] + 1].topic, p, m)
           /\ sent' = [sent EXCEPT ![j] = sent[j] + 1]
    BY <1>2, NextItemFacts
  <2> DEFINE o == [t |-> Job[j].items[sent[j] + 1].topic, p |-> p, m |-> m]
  <2>2. /\ Len(outbox'[j]) = Len(outbox[j]) + 1
        /\ \A i \in 1 .. Len(outbox[j]) : outbox'[j][i] = outbox[j][i]
        /\ outbox'[j][Len(outbox[j]) + 1] = o
        /\ Len(outbox[j]) \in Nat
    BY <2>1, ProduceKeepsOutbox
  <2>3. sent'[j] = sent[j] + 1 /\ sent[j] \in Nat
    BY <2>1 DEF SendTypes
  <2>4. pc'[j] = "flush" \/ (pc'[j] = "next" /\ b_flush'[j] = TRUE)
    BY <1>0, <1>2 DEF NextItem, SendTypes
  <2>5. \A i \in 1 .. Len(outbox'[j]) : outbox'[j][i].m.job = j
    <3>1. \A i \in 1 .. Len(outbox[j]) : outbox[j][i].m.job = j
      BY DEF CountOK
    <3>2. o.m.job = j
      BY <2>1
    <3> QED
      BY <2>2, <3>1, <3>2
  <2>6. IsFiniteSet(MessagesOf(j)') /\ Cardinality(MessagesOf(j)') = Cardinality(MessagesOf(j))
        /\ Cardinality(MessagesOf(j)) \in Nat
    BY <1>0, FS_CardinalityType DEF CountOK
  <2>7. EndsSent(j) = 0 /\ EndsSent(j)' = 0
    BY <1>0, <2>4 DEF EndsSent
  <2>8. Cardinality(MessagesOf(j)) + Len(outbox[j]) = sent[j] + EndsSent(j)
    BY <1>0, <1>2 DEF CountOK
  <2>9. Cardinality(MessagesOf(j)') + Len(outbox'[j]) = sent'[j] + EndsSent(j)'
    BY <2>2, <2>3, <2>6, <2>7, <2>8
  <2> QED
    BY <2>4, <2>5, <2>6, <2>9 DEF CountOK
<1> QED
  BY <1>1, <1>2

LEMMA EndCommandKeepsCount ==
  ASSUME SendTypes, NEW j \in Jobs, CountOK(j), EndCommand(j)
  PROVE  CountOK(j)'
<1>0. /\ log' = log /\ lost' = lost /\ sent' = sent
      /\ pc[j] = "next" /\ sent[j] = Len(Job[j].items) /\ Job[j].end # "no"
      /\ MessagesOf(j)' = MessagesOf(j)
  BY SameMessages DEF EndCommand
<1>1. CASE lost[j] \/ sent[j] = 0
  <2>1. UNCHANGED <<outbox, b_flush>> /\ pc'[j] = "raised"
    BY <1>1 DEF EndCommand, Raise, SendTypes
  <2> QED
    BY <1>0, <2>1 DEF CountOK
<1>2. CASE ~ (lost[j] \/ sent[j] = 0)
  <2>1. PICK p \in Parts, m \in Messages :
           /\ m.job = j /\ Job[j].topic \in Topics
           /\ Append1(j, Job[j].topic, p, m)
           /\ pc' = [pc EXCEPT ![j] = "last"]
           /\ b_flush' = [b_flush EXCEPT ![j] = TRUE]
    BY <1>2, EndCommandFacts
  <2> DEFINE o == [t |-> Job[j].topic, p |-> p, m |-> m]
  <2>2. /\ Len(outbox'[j]) = Len(outbox[j]) + 1
        /\ \A i \in 1 .. Len(outbox[j]) : outbox'[j][i] = outbox[j][i]
        /\ outbox'[j][Len(outbox[j]) + 1] = o
        /\ Len(outbox[j]) \in Nat
    BY <2>1, ProduceKeepsOutbox
  <2>3. pc'[j] = "last" /\ b_flush'[j] = TRUE /\ sent[j] \in Nat /\ sent'[j] = sent[j]
    BY <1>0, <2>1 DEF SendTypes
  <2>4. \A i \in 1 .. Len(outbox'[j]) : outbox'[j][i].m.job = j
    <3>1. \A i \in 1 .. Len(outbox[j]) : outbox[j][i].m.job = j
      BY DEF CountOK
    <3>2. o.m.job = j
      BY <2>1
    <3> SUFFICES ASSUME NEW i \in 1 .. Len(outbox'[j])
                 PROVE  outbox'[j][i].m.job = j
      OBVIOUS
    <3>3. i \in 1 .. Len(outbox[j]) \/ i = Len(outbox[j]) + 1
      BY <2>2, AppendedIndex
    <3> QED
      BY <2>2, <3>1, <3>2, <3>3
  <2>5. IsFiniteSet(MessagesOf(j)') /\ Cardinality(MessagesOf(j)') = Cardinality(MessagesOf(j))
        /\ Cardinality(MessagesOf(j)) \in Nat
    BY <1>0, FS_CardinalityType DEF CountOK
  <2>6. EndsSent(j) = 0 /\ EndsSent(j)' = 1
    BY <1>0, <2>3 DEF EndsSent
  <2>7. Cardinality(MessagesOf(j)) + Len(outbox[j]) = sent[j] + EndsSent(j)
    BY <1>0, <1>2 DEF CountOK
  <2>8. Cardinality(MessagesOf(j)') + Len(outbox'[j]) = sent'[j] + EndsSent(j)'
    BY <2>2, <2>3, <2>5, <2>6, <2>7
  <2> QED
    BY <1>0, <2>3, <2>4, <2>5, <2>8 DEF CountOK
<1> QED
  BY <1>1, <1>2

\* Flush and the return change no message.
LEMMA FlushesKeepCount ==
  ASSUME SendTypes, NEW j \in Jobs, CountOK(j),
         Flush(j) \/ NoEndCommand(j) \/ LastFlush(j)
  PROVE  CountOK(j)'
<1>0. /\ UNCHANGED <<log, sent, outbox, lost>> /\ MessagesOf(j)' = MessagesOf(j)
      /\ Len(outbox[j]) \in Nat
      /\ outbox[j] = <<>> <=> Len(outbox[j]) = 0
  BY SameMessages, EmptyOutbox DEF Flush, NoEndCommand, LastFlush
<1>1. CASE Flush(j)
  <2>1. CASE lost[j]
    <3>1. pc'[j] = "raised"
      BY <1>1, <2>1 DEF Flush, Raise, SendTypes
    <3> QED
      BY <1>0, <3>1 DEF CountOK
  <2>2. CASE ~ lost[j]
    <3>1. pc[j] = "flush" /\ pc'[j] = "next" /\ Len(outbox[j]) = 0
      BY <1>0, <1>1, <2>2 DEF Flush, SendTypes
    <3>2. EndsSent(j)' = EndsSent(j)
      BY <3>1 DEF EndsSent
    <3> QED
      BY <1>0, <2>2, <3>1, <3>2 DEF CountOK
  <2> QED
    BY <2>1, <2>2
<1>2. CASE NoEndCommand(j)
  <2>1. /\ pc[j] = "next" /\ pc'[j] = "last" /\ sent[j] = Len(Job[j].items)
        /\ Job[j].end = "no" /\ b_flush' = b_flush
    BY <1>2 DEF NoEndCommand, SendTypes
  <2>2. EndsSent(j)' = EndsSent(j)
    BY <2>1 DEF EndsSent
  <2> QED
    BY <1>0, <2>1, <2>2 DEF CountOK
<1>3. CASE LastFlush(j)
  <2>1. pc[j] = "last" /\ b_flush' = b_flush /\ (b_flush[j] => Len(outbox[j]) = 0)
    BY <1>0, <1>3 DEF LastFlush, FlushDue
  <2>2. CASE b_flush[j] /\ lost[j]
    <3>1. pc'[j] = "raised"
      BY <1>3, <2>2 DEF LastFlush, FlushDue, Raise, SendTypes
    <3> QED
      BY <1>0, <3>1 DEF CountOK
  <2>3. CASE ~ (b_flush[j] /\ lost[j])
    <3>1. pc'[j] = "done"
      BY <1>3, <2>3 DEF LastFlush, FlushDue, SendTypes
    <3>2. EndsSent(j)' = EndsSent(j)
      BY <2>1, <3>1 DEF EndsSent
    <3>3. Len(outbox[j]) = 0 /\ ~ lost[j]
      BY <2>1, <2>3 DEF CountOK
    <3> QED
      BY <1>0, <2>1, <3>1, <3>2, <3>3 DEF CountOK
  <2> QED
    BY <2>2, <2>3
<1> QED
  BY <1>1, <1>2, <1>3

\* A delivery moves a message from the outbox to a log, or loses it.
LEMMA DeliveryKeepsCount ==
  ASSUME SendTypes, NEW j \in Jobs, CountOK(j), NEW k \in 1 .. Len(outbox[j]), Deliver(j, k)
  PROVE  CountOK(j)' /\ \A l \in Jobs : l # j => MessagesOf(l)' = MessagesOf(l)
<1> DEFINE o == outbox[j][k]
<1>1. /\ o \in Outgoing
      /\ Len(outbox[j]) \in Nat
      /\ Len(outbox'[j]) = Len(outbox[j]) - 1
      /\ \A i \in 1 .. Len(outbox[j]) - 1 :
           outbox'[j][i] = IF i < k THEN outbox[j][i] ELSE outbox[j][i + 1]
  BY DeliverFacts
<1>2. o.t \in Topics /\ o.p \in Parts /\ o.m \in Messages /\ o.m.job = j
  BY <1>1 DEF Outgoing, CountOK
<1>3. UNCHANGED <<pc, sent, b_flush>>
  BY DEF Deliver
<1>4. \A i \in 1 .. Len(outbox'[j]) : outbox'[j][i].m.job = j
  <2>1. \A i \in 1 .. Len(outbox[j]) : outbox[j][i].m.job = j
    BY DEF CountOK
  <2>2. ASSUME NEW i \in 1 .. Len(outbox'[j])
        PROVE  outbox'[j][i].m.job = j
    <3>1. /\ i \in 1 .. Len(outbox[j]) - 1 /\ i \in 1 .. Len(outbox[j])
          /\ i + 1 \in 1 .. Len(outbox[j])
      BY <1>1
    <3> QED
      BY <1>1, <2>1, <3>1
  <2> QED
    BY <2>2
<1>5. pc[j] # "done" /\ (pc[j] \in {"next", "last"} => b_flush[j])
  BY <1>1 DEF CountOK
<1>6. CASE log' = [log EXCEPT ![o.t][o.p] = Append(@, o.m)] /\ UNCHANGED <<lost, refused>>
  <2>1. PICK n \in Nat : n = Len(log[o.t][o.p]) + 1
    BY <1>2, LogLengths
  <2>2. PICK t \in Topics, p \in Parts, m \in Messages :
           t = o.t /\ p = o.p /\ m = o.m /\ m.job = j
    BY <1>2
  <2> HIDE DEF o
  <2>3. log' = [log EXCEPT ![t][p] = Append(@, m)] /\ n = Len(log[t][p]) + 1
    BY <1>6, <2>1, <2>2
  <2>4. /\ \A x : x \in MessagesOf(j)' <=> x \in MessagesOf(j) \/ x = <<t, p, n>>
        /\ <<t, p, n>> \notin MessagesOf(j)
        /\ \A l : l # j => MessagesOf(l)' = MessagesOf(l)
    <3>1. m.job = j
      BY <2>2
    <3>2. Logged(t, p, n, m)
      BY <2>3 DEF Logged
    <3> QED
      BY <3>1, <3>2, MessageTaken
  <2>5. MessagesOf(j)' = MessagesOf(j) \union {<<t, p, n>>}
    BY <2>4
  <2>6. IsFiniteSet(MessagesOf(j))
    BY DEF CountOK
  <2>7. /\ IsFiniteSet(MessagesOf(j)')
        /\ Cardinality(MessagesOf(j)') = Cardinality(MessagesOf(j)) + 1
        /\ Cardinality(MessagesOf(j)) \in Nat
    BY <2>4, <2>5, <2>6, FS_AddElement, FS_CardinalityType
  <2>8. EndsSent(j)' = EndsSent(j) /\ EndsSent(j) \in Nat
    BY <1>3 DEF EndsSent
  <2>9. ~ lost[j] /\ pc[j] # "raised" =>
          Cardinality(MessagesOf(j)') + Len(outbox'[j]) = sent'[j] + EndsSent(j)'
    <3> SUFFICES ASSUME ~ lost[j], pc[j] # "raised"
                 PROVE  Cardinality(MessagesOf(j)') + Len(outbox'[j]) = sent'[j] + EndsSent(j)'
      OBVIOUS
    <3>1. Cardinality(MessagesOf(j)) + Len(outbox[j]) = sent[j] + EndsSent(j)
      BY DEF CountOK
    <3>2. sent'[j] = sent[j] /\ sent[j] \in Nat
      BY <1>3 DEF SendTypes
    <3>3. Len(outbox'[j]) = Len(outbox[j]) - 1 /\ Len(outbox[j]) \in Nat
      BY <1>1
    <3> QED
      BY <2>7, <2>8, <3>1, <3>2, <3>3
  <2>10. pc[j] \in {"last", "done"} => sent[j] = Len(Job[j].items)
    BY DEF CountOK
  <2>11. CountOK(j)'
    BY <1>3, <1>4, <1>5, <1>6, <2>7, <2>9, <2>10 DEF CountOK
  <2> QED
    BY <2>4, <2>11
<1>7. CASE lost' = [lost EXCEPT ![j] = TRUE] /\ UNCHANGED log
  <2>1. lost'[j] = TRUE /\ MessagesOf(j)' = MessagesOf(j)
    BY <1>7, SameMessages DEF SendTypes
  <2> QED
    BY <1>3, <1>4, <1>5, <1>7, <2>1, SameMessages DEF CountOK
<1> QED
  BY <1>6, <1>7 DEF Deliver

\* A step of job j leaves the other jobs alone.
LEMMA SendStepFrame ==
  ASSUME SendTypes, NEW j \in Jobs, SendStep(j), NEW l \in Jobs, l # j
  PROVE  /\ pc'[l] = pc[l] /\ sent'[l] = sent[l] /\ outbox'[l] = outbox[l]
         /\ kwargs'[l] = kwargs[l] /\ b_flush'[l] = b_flush[l] /\ lost'[l] = lost[l]
<1>1. CASE NextItem(j)
  <2>1. CASE lost[j]
    BY <1>1, <2>1 DEF NextItem, SendTypes, Raise
  <2>2. CASE ~ lost[j]
    <3>1. outbox'[l] = outbox[l] /\ kwargs'[l] = kwargs[l]
      <4>1. PICK p \in Parts, m \in Messages :
               /\ Append1(j, Job[j].items[sent[j] + 1].topic, p, m)
               /\ kwargs' = [kwargs EXCEPT ![j] = IF Job[j].items[sent[j] + 1].route = Unrouted
                                                  THEN 0 ELSE p]
        BY <1>1, <2>2, NextItemFacts
      <4>2. outbox'[l] = outbox[l]
        BY <4>1 DEF Append1, SendTypes
      <4>3. kwargs'[l] = kwargs[l]
        BY <4>1 DEF SendTypes
      <4> QED
        BY <4>2, <4>3
    <3>2. pc'[l] = pc[l] /\ b_flush'[l] = b_flush[l]
      BY <1>1, <2>2 DEF NextItem, SendTypes
    <3>3. sent'[l] = sent[l] /\ lost'[l] = lost[l]
      BY <1>1, <2>2 DEF NextItem, SendTypes
    <3> QED
      BY <3>1, <3>2, <3>3
  <2> QED
    BY <2>1, <2>2
<1>2. CASE EndCommand(j)
  <2>1. pc'[l] = pc[l] /\ sent'[l] = sent[l] /\ kwargs'[l] = kwargs[l] /\ lost'[l] = lost[l]
    BY <1>2 DEF EndCommand, SendTypes, Raise
  <2>2. b_flush'[l] = b_flush[l]
    BY <1>2 DEF EndCommand, SendTypes
  <2>3. outbox'[l] = outbox[l]
    BY <1>2 DEF EndCommand, SendTypes, Append1
  <2> QED
    BY <2>1, <2>2, <2>3
<1>3. CASE Flush(j) \/ NoEndCommand(j) \/ LastFlush(j)
  BY <1>3 DEF Flush, NoEndCommand, LastFlush, SendTypes, Raise
<1> QED
  BY <1>1, <1>2, <1>3 DEF SendStep

LEMMA DeliverFrame ==
  ASSUME SendTypes, NEW j \in Jobs, NEW k \in 1 .. Len(outbox[j]), Deliver(j, k),
         NEW l \in Jobs, l # j
  PROVE  /\ pc'[l] = pc[l] /\ sent'[l] = sent[l] /\ outbox'[l] = outbox[l]
         /\ kwargs'[l] = kwargs[l] /\ b_flush'[l] = b_flush[l] /\ lost'[l] = lost[l]
<1>1. outbox'[l] = outbox[l]
  BY DeliverFacts
<1>2. lost'[l] = lost[l]
  BY DEF Deliver, SendTypes
<1> QED
  BY <1>1, <1>2 DEF Deliver

CountInv == \A j \in Jobs : CountOK(j)

LEMMA ProducersKeepCounts ==
  ASSUME SendTypes, CountInv, NEW j \in Jobs, SendStep(j) \/ Delivery(j)
  PROVE  CountInv'
<1> SUFFICES ASSUME NEW l \in Jobs PROVE CountOK(l)'
  BY DEF CountInv
<1>0. CountOK(l) /\ CountOK(j)
  BY DEF CountInv
<1>1. CASE SendStep(j)
  <2>1. CASE l = j
    BY <1>0, <1>1, <2>1, NextItemKeepsCount, EndCommandKeepsCount, FlushesKeepCount
       DEF SendStep
  <2>2. CASE l # j
    <3>1. log' = log
      BY <1>1, SendStepKeepsTypes
    <3>2. MessagesOf(l)' = MessagesOf(l)
      BY <3>1, SameMessages
    <3> QED
      BY <1>0, <1>1, <2>2, <3>2, SendStepFrame, OtherCounts
  <2> QED
    BY <2>1, <2>2
<1>2. CASE Delivery(j)
  <2>1. PICK k \in 1 .. Len(outbox[j]) : Deliver(j, k)
    BY <1>2 DEF Delivery
  <2>2. CASE l = j
    BY <1>0, <2>1, <2>2, DeliveryKeepsCount
  <2>3. CASE l # j
    <3>1. MessagesOf(l)' = MessagesOf(l)
      BY <1>0, <2>1, <2>3, DeliveryKeepsCount
    <3> QED
      BY <1>0, <2>1, <2>3, <3>1, DeliverFrame, OtherCounts
  <2> QED
    BY <2>2, <2>3
<1> QED
  BY <1>1, <1>2

LEMMA ReceiverKeepsCounts ==
  ASSUME CountInv, UNCHANGED <<log, sendVars>>
  PROVE  CountInv'
<1> SUFFICES ASSUME NEW l \in Jobs PROVE CountOK(l)'
  BY DEF CountInv
<1>1. CountOK(l) /\ MessagesOf(l)' = MessagesOf(l)
  BY SameMessages DEF CountInv
<1> QED
  BY <1>1, OtherCounts DEF sendVars

LEMMA InitCounts == Init => CountInv
<1> SUFFICES ASSUME Init, NEW j \in Jobs PROVE CountOK(j)
  BY DEF CountInv
<1>1. /\ pc[j] = "next" /\ sent[j] = 0 /\ outbox[j] = <<>> /\ b_flush[j] = FALSE /\ lost[j] = FALSE
      /\ log = Empty(<<>>)
  BY DEF Init
<1>2. \A t \in Topics, p \in Parts : Len(log[t][p]) = 0
  BY <1>1 DEF Empty
<1>3. MessagesOf(j) = {}
  <2>1. ASSUME NEW m \in MessagesOf(j) PROVE FALSE
    <3>1. PICK t \in Topics, p \in Parts : \E n \in 1 .. Len(log[t][p]) : m = <<t, p, n>>
      BY MessagesUnfolded
    <3> QED
      BY <1>2, <3>1
  <2> QED
    BY <2>1
<1>4. IsFiniteSet(MessagesOf(j)) /\ Cardinality(MessagesOf(j)) = 0
  BY <1>3, FS_EmptySet
<1>5. EndsSent(j) = 0
  BY <1>1 DEF EndsSent
<1> QED
  BY <1>1, <1>4, <1>5 DEF CountOK

DeliveryInv == OffsetInv /\ CountInv

THEOREM DeliveryInvariance == Spec => []DeliveryInv
<1>1. Init => CountInv
  BY InitCounts
<1>2. OffsetInv /\ CountInv /\ [Next]_vars => CountInv'
  <2> SUFFICES ASSUME OffsetInv, CountInv, [Next]_vars PROVE CountInv'
    OBVIOUS
  <2>1. CASE \E j \in Jobs : SendStep(j) \/ Delivery(j)
    BY <2>1, ProducersKeepCounts DEF OffsetInv
  <2>2. CASE ReceiverStep
    BY <2>2, ReceiverKeepsTypes, ReceiverKeepsCounts DEF OffsetInv
  <2>3. CASE UNCHANGED vars
    BY <2>3, ReceiverKeepsCounts DEF vars
  <2> QED
    BY <2>1, <2>2, <2>3, NextIsAStep
<1> QED
  BY <1>1, <1>2, OffsetInvariance, PTL DEF Spec, DeliveryInv

LEMMA TypesAreOK == SendTypes /\ RecvTypes => TypeOK
BY DEF SendTypes, RecvTypes, TypeOK, Outgoing

\* A send_all that returned has every message in the broker's logs, whatever
\* the flush step, the routes and the refusals (send_all, KafkaQueue.py:339-355).
THEOREM ReturnsAreDelivered == Spec => []ReturnedMeansDelivered
<1>1. DeliveryInv => ReturnedMeansDelivered
  <2> SUFFICES ASSUME DeliveryInv PROVE ReturnedMeansDelivered
    OBVIOUS
  <2>1. TypeOK
    BY TypesAreOK DEF DeliveryInv, OffsetInv
  <2>2. ASSUME NEW j \in Jobs, pc[j] = "done"
        PROVE  Cardinality(MessagesOf(j)) = Len(Job[j].items) + IF Job[j].end = "no" THEN 0 ELSE 1
    <3>1. CountOK(j)
      BY DEF DeliveryInv, CountInv
    <3>2. /\ Len(outbox[j]) = 0 /\ sent[j] = Len(Job[j].items)
          /\ Cardinality(MessagesOf(j)) + Len(outbox[j]) = sent[j] + EndsSent(j)
          /\ IsFiniteSet(MessagesOf(j))
      BY <2>2, <3>1 DEF CountOK
    <3>3. Cardinality(MessagesOf(j)) \in Nat
      BY <3>2, FS_CardinalityType
    <3>4. Cardinality(MessagesOf(j)) = sent[j] + EndsSent(j)
      BY <3>2, <3>3
    <3>5. EndsSent(j) = IF Job[j].end = "no" THEN 0 ELSE 1
      BY <2>2 DEF EndsSent
    <3> QED
      BY <3>2, <3>4, <3>5
  <2> QED
    BY <2>1, <2>2 DEF ReturnedMeansDelivered
<1> QED
  BY <1>1, DeliveryInvariance, PTL

(***************************************************************************)
(* Order: the end command of a job comes after its items                   *)
(***************************************************************************)

EndKinds == {"end", "exit"}
KindAt(m) == log[m[1]][m[2]][m[3]].kind

\* A job whose messages share a partition: they all go where the last item
\* went, the end command goes last, and the receiver that ended at the command
\* had processed the items.
OrderOK(j) ==
  /\ \A i \in 1 .. Len(outbox[j]) :
       outbox[j][i].t = Job[j].topic /\ outbox[j][i].p = kwargs[j]
  /\ \A m \in MessagesOf(j) : m[1] = Job[j].topic /\ m[2] = kwargs[j]
  /\ sent[j] = 0 => Len(outbox[j]) = 0 /\ MessagesOf(j) = {}
  /\ sent[j] > 0 => /\ kwargs[j] \in Parts
                    /\ Job[j].items[1].route \in Parts => kwargs[j] = Job[j].items[1].route
  /\ \A i \in 1 .. Len(outbox[j]) : outbox[j][i].m.kind \in EndKinds =>
       i = Len(outbox[j]) /\ pc[j] \notin {"next", "flush"}
  /\ \A m \in MessagesOf(j) : KindAt(m) \in EndKinds =>
       /\ Len(outbox[j]) = 0 /\ pc[j] \notin {"next", "flush"}
       /\ \A l \in MessagesOf(j) : l[3] <= m[3]

EndedOK(j) ==
  j \in ended /\ ~ opts.autoCommit =>
    /\ \E m \in MessagesOf(j) : KindAt(m) \in EndKinds
    /\ \A m \in MessagesOf(j) : KindAt(m) = "item" => m \in processed

OrderInv == \A j \in Jobs : OnePartition(j) => OrderOK(j) /\ EndedOK(j)

\* Without a step of the job, and with the logs as they were at its messages.
LEMMA OtherOrders ==
  ASSUME NEW l, OrderOK(l), MessagesOf(l)' = MessagesOf(l),
         \A m \in MessagesOf(l) : KindAt(m)' = KindAt(m),
         pc'[l] = pc[l], sent'[l] = sent[l], outbox'[l] = outbox[l], kwargs'[l] = kwargs[l]
  PROVE  OrderOK(l)'
BY DEF OrderOK

LEMMA OtherEnds ==
  ASSUME NEW l, EndedOK(l), MessagesOf(l)' = MessagesOf(l),
         \A m \in MessagesOf(l) : KindAt(m)' = KindAt(m),
         ended' = ended, opts' = opts, processed \subseteq processed'
  PROVE  EndedOK(l)'
BY DEF EndedOK

LEMMA KindsKept ==
  ASSUME SendTypes, LogGrows, NEW j, NEW m \in MessagesOf(j)
  PROVE  KindAt(m)' = KindAt(m) /\ m \in Places
<1>1. PICK t \in Topics, p \in Parts : \E n \in 1 .. Len(log[t][p]) : m = <<t, p, n>>
  BY MessagesUnfolded
<1>2. PICK n \in 1 .. Len(log[t][p]) : m = <<t, p, n>>
  BY <1>1
<1>3. log'[t][p][n] = log[t][p][n]
  BY <1>2 DEF LogGrows
<1> QED
  BY <1>2, <1>3 DEF KindAt, Places

\* The route of a job whose messages share a partition.
LEMMA OnePartitionFacts ==
  ASSUME NEW j \in Jobs, OnePartition(j)
  PROVE  /\ \A n \in 1 .. Len(Job[j].items) :
              /\ Job[j].items[n].topic = Job[j].topic
              /\ Job[j].items[n].route = Job[j].items[1].route
              /\ Job[j].items[n].route # Unrouted
              /\ Job[j].items[n].route \notin Parts => Len(Job[j].items) = 1
         /\ 0 \notin Parts
<1>1. PICK r \in Parts \union {ByKey} :
        /\ r = ByKey => Len(Job[j].items) = 1
        /\ \A n \in DOMAIN Job[j].items : /\ Job[j].items[n].topic = Job[j].topic
                                          /\ Job[j].items[n].route = r
  BY DEF OnePartition
<1>2. DOMAIN Job[j].items = 1 .. Len(Job[j].items) /\ Len(Job[j].items) \in Nat
  BY JobFacts
<1>3. 0 \notin Parts
  BY KafkaAssumption
<1>4. r # Unrouted
  BY <1>3 DEF Unrouted, ByKey
<1>5. ASSUME NEW n \in 1 .. Len(Job[j].items)
      PROVE  /\ Job[j].items[n].topic = Job[j].topic
             /\ Job[j].items[n].route = r
             /\ 1 \in 1 .. Len(Job[j].items)
  BY <1>1, <1>2
<1>6. ASSUME NEW n \in 1 .. Len(Job[j].items)
      PROVE  Job[j].items[n].route = Job[j].items[1].route
  BY <1>1, <1>2, <1>5
<1> QED
  BY <1>1, <1>3, <1>4, <1>5, <1>6

LEMMA NextItemKeepsOrder ==
  ASSUME SendTypes, NEW j \in Jobs, OnePartition(j), OrderOK(j), NextItem(j)
  PROVE  OrderOK(j)'
<1>0. /\ log' = log /\ pc[j] = "next" /\ MessagesOf(j)' = MessagesOf(j)
      /\ \A m : KindAt(m)' = KindAt(m)
  BY SameMessages DEF NextItem, KindAt
<1>1. CASE lost[j]
  <2>1. UNCHANGED <<sent, outbox, kwargs, b_flush>> /\ pc'[j] = "raised"
    BY <1>1 DEF NextItem, Raise, SendTypes
  <2> QED
    BY <1>0, <2>1 DEF OrderOK
<1>2. CASE ~ lost[j]
  <2> DEFINE n == sent[j] + 1
             item == Job[j].items[n]
  <2>1. PICK p \in Parts, m \in Messages :
           /\ n \in 1 .. Len(Job[j].items)
           /\ p \in PartitionsOf(item.route)
           /\ m.job = j /\ m.kind \in {"item", "bad"}
           /\ item.topic \in Topics
           /\ Append1(j, item.topic, p, m)
           /\ kwargs' = [kwargs EXCEPT ![j] = IF item.route = Unrouted THEN 0 ELSE p]
           /\ sent' = [sent EXCEPT ![j] = n]
    BY <1>2, NextItemFacts
  <2>2. /\ Len(outbox'[j]) = Len(outbox[j]) + 1
        /\ \A i \in 1 .. Len(outbox[j]) : outbox'[j][i] = outbox[j][i]
        /\ outbox'[j][Len(outbox[j]) + 1] = [t |-> item.topic, p |-> p, m |-> m]
        /\ Len(outbox[j]) \in Nat
    BY <2>1, ProduceKeepsOutbox
  <2>3. item.topic = Job[j].topic /\ item.route # Unrouted /\ item.route = Job[j].items[1].route
        /\ (item.route \notin Parts => Len(Job[j].items) = 1)
    BY <2>1, OnePartitionFacts
  <2>4. sent[j] \in Nat /\ sent'[j] = sent[j] + 1 /\ kwargs'[j] = p
    BY <2>1, <2>3 DEF SendTypes
  <2>5. item.route \in Parts => p = item.route
    BY <2>1 DEF PartitionsOf
  <2>6. sent[j] > 0 => kwargs[j] = p
    <3> SUFFICES ASSUME sent[j] > 0 PROVE kwargs[j] = p
      OBVIOUS
    <3>1. Len(Job[j].items) # 1
      BY <2>1, <2>4, JobFacts
    <3> QED
      BY <2>3, <2>5, <3>1 DEF OrderOK
  <2>7. sent[j] = 0 => Len(outbox[j]) = 0 /\ MessagesOf(j) = {}
    BY DEF OrderOK
  <2>8. sent[j] = 0 \/ sent[j] > 0
    BY <2>4
  <2>9. \A i \in 1 .. Len(outbox'[j]) :
          outbox'[j][i].t = Job[j].topic /\ outbox'[j][i].p = kwargs'[j]
    <3>1. \A i \in 1 .. Len(outbox[j]) :
            outbox[j][i].t = Job[j].topic /\ outbox[j][i].p = p
      BY <2>2, <2>6, <2>7, <2>8 DEF OrderOK
    <3>2. /\ outbox'[j][Len(outbox[j]) + 1].t = Job[j].topic
          /\ outbox'[j][Len(outbox[j]) + 1].p = p
      BY <2>2, <2>3
    <3> SUFFICES ASSUME NEW i \in 1 .. Len(outbox'[j])
                 PROVE  outbox'[j][i].t = Job[j].topic /\ outbox'[j][i].p = p
      BY <2>4
    <3>3. i \in 1 .. Len(outbox[j]) \/ i = Len(outbox[j]) + 1
      BY <2>2, AppendedIndex
    <3>4. CASE i \in 1 .. Len(outbox[j])
      BY <2>2, <3>1, <3>4
    <3>5. CASE i = Len(outbox[j]) + 1
      BY <3>2, <3>5
    <3> QED
      BY <3>3, <3>4, <3>5
  <2>10. \A x \in MessagesOf(j) : x[1] = Job[j].topic /\ x[2] = kwargs'[j]
    BY <2>4, <2>6, <2>7, <2>8 DEF OrderOK
  <2>11. \A i \in 1 .. Len(outbox'[j]) : outbox'[j][i].m.kind \notin EndKinds
    <3>1. \A i \in 1 .. Len(outbox[j]) : outbox[j][i].m.kind \notin EndKinds
      BY <1>0 DEF OrderOK
    <3>2. m.kind \notin EndKinds
      BY <2>1 DEF EndKinds
    <3> QED
      BY <2>2, <3>1, <3>2
  <2>12. \A x \in MessagesOf(j) : KindAt(x) \notin EndKinds
    BY <1>0 DEF OrderOK
  <2>13. kwargs'[j] \in Parts /\ (Job[j].items[1].route \in Parts => kwargs'[j] = Job[j].items[1].route)
    BY <2>3, <2>4, <2>5
  <2>14. sent'[j] # 0
    BY <2>4
  <2> QED
    BY <1>0, <2>9, <2>10, <2>11, <2>12, <2>13, <2>14 DEF OrderOK
<1> QED
  BY <1>1, <1>2

LEMMA EndCommandKeepsOrder ==
  ASSUME SendTypes, NEW j \in Jobs, OnePartition(j), OrderOK(j), EndCommand(j)
  PROVE  OrderOK(j)'
<1>0. /\ log' = log /\ sent' = sent /\ kwargs' = kwargs /\ pc[j] = "next"
      /\ MessagesOf(j)' = MessagesOf(j)
      /\ \A m : KindAt(m)' = KindAt(m)
  BY SameMessages DEF EndCommand, KindAt
<1>1. CASE lost[j] \/ sent[j] = 0
  <2>1. UNCHANGED <<outbox, b_flush>> /\ pc'[j] = "raised"
    BY <1>1 DEF EndCommand, Raise, SendTypes
  <2> QED
    BY <1>0, <2>1 DEF OrderOK
<1>2. CASE ~ (lost[j] \/ sent[j] = 0)
  <2>1. PICK p \in Parts, m \in Messages :
           /\ p \in EndPartitions(j)
           /\ Job[j].topic \in Topics
           /\ Append1(j, Job[j].topic, p, m)
           /\ pc' = [pc EXCEPT ![j] = "last"]
    BY <1>2, EndCommandFacts
  <2>2. /\ Len(outbox'[j]) = Len(outbox[j]) + 1
        /\ \A i \in 1 .. Len(outbox[j]) : outbox'[j][i] = outbox[j][i]
        /\ outbox'[j][Len(outbox[j]) + 1] = [t |-> Job[j].topic, p |-> p, m |-> m]
        /\ Len(outbox[j]) \in Nat
    BY <2>1, ProduceKeepsOutbox
  <2>3. pc'[j] = "last" /\ sent[j] \in Nat /\ sent[j] > 0
    BY <1>2, <2>1 DEF SendTypes
  <2>4. p = kwargs[j]
    <3>1. kwargs[j] \in Parts /\ kwargs[j] # 0
      BY <2>3, KafkaAssumption DEF OrderOK
    <3> QED
      BY <2>1, <3>1 DEF EndPartitions
  <2>5. \A i \in 1 .. Len(outbox'[j]) :
          outbox'[j][i].t = Job[j].topic /\ outbox'[j][i].p = kwargs[j]
    <3>1. \A i \in 1 .. Len(outbox[j]) :
            outbox[j][i].t = Job[j].topic /\ outbox[j][i].p = kwargs[j]
      BY DEF OrderOK
    <3> SUFFICES ASSUME NEW i \in 1 .. Len(outbox'[j])
                 PROVE  outbox'[j][i].t = Job[j].topic /\ outbox'[j][i].p = kwargs[j]
      OBVIOUS
    <3>2. i \in 1 .. Len(outbox[j]) \/ i = Len(outbox[j]) + 1
      BY <2>2, AppendedIndex
    <3>3. CASE i \in 1 .. Len(outbox[j])
      BY <2>2, <3>1, <3>3
    <3>4. CASE i = Len(outbox[j]) + 1
      BY <2>2, <2>4, <3>4
    <3> QED
      BY <3>2, <3>3, <3>4
  <2>6. \A i \in 1 .. Len(outbox'[j]) : outbox'[j][i].m.kind \in EndKinds => i = Len(outbox'[j])
    <3>1. \A i \in 1 .. Len(outbox[j]) : outbox[j][i].m.kind \notin EndKinds
      BY <1>0 DEF OrderOK
    <3> QED
      BY <2>2, <3>1
  <2>7. \A x \in MessagesOf(j) : KindAt(x) \notin EndKinds
    BY <1>0 DEF OrderOK
  <2> QED
    BY <1>0, <2>3, <2>5, <2>6, <2>7 DEF OrderOK
<1> QED
  BY <1>1, <1>2

LEMMA FlushesKeepOrder ==
  ASSUME SendTypes, NEW j \in Jobs, OrderOK(j),
         Flush(j) \/ NoEndCommand(j) \/ LastFlush(j)
  PROVE  OrderOK(j)'
<1>1. /\ UNCHANGED <<log, sent, outbox, kwargs>> /\ MessagesOf(j)' = MessagesOf(j)
      /\ \A m : KindAt(m)' = KindAt(m)
  BY SameMessages DEF Flush, NoEndCommand, LastFlush, KindAt
<1>2. pc[j] \notin {"next", "flush"} => pc'[j] \notin {"next", "flush"}
  BY DEF Flush, NoEndCommand, LastFlush, Raise, SendTypes
<1> QED
  BY <1>1, <1>2 DEF OrderOK

\* The job's first message is delivered, to the end of its partition, or lost.
LEMMA DeliveryKeepsOrder ==
  ASSUME SendTypes, NEW j \in Jobs, CountOK(j), OrderOK(j),
         NEW k \in 1 .. Len(outbox[j]), Deliver(j, k)
  PROVE  OrderOK(j)'
<1> DEFINE o == outbox[j][k]
<1>1. /\ o \in Outgoing
      /\ Len(outbox[j]) \in Nat
      /\ Len(outbox'[j]) = Len(outbox[j]) - 1
      /\ \A i \in 1 .. Len(outbox[j]) - 1 :
           outbox'[j][i] = IF i < k THEN outbox[j][i] ELSE outbox[j][i + 1]
  BY DeliverFacts
<1>2. /\ o.t \in Topics /\ o.p \in Parts /\ o.m \in Messages /\ o.m.job = j
      /\ o.t = Job[j].topic /\ o.p = kwargs[j]
  BY <1>1 DEF Outgoing, CountOK, OrderOK
<1>3. UNCHANGED <<pc, sent, kwargs>>
  BY DEF Deliver
<1>4. k = 1
  <2> SUFFICES ASSUME k # 1 PROVE FALSE
    OBVIOUS
  <2>1. 1 \in 1 .. (k - 1) /\ 1 \in 1 .. Len(outbox[j])
    BY <1>1
  <2>2. outbox[j][1].t = Job[j].topic /\ outbox[j][1].p = kwargs[j]
    BY <2>1 DEF OrderOK
  <2> QED
    BY <1>2, <2>1, <2>2 DEF Deliver, FirstOfPartition
<1>5. ASSUME NEW i \in 1 .. Len(outbox'[j])
      PROVE  i + 1 \in 1 .. Len(outbox[j]) /\ outbox'[j][i] = outbox[j][i + 1]
  BY <1>1, <1>4
<1>6. \A i \in 1 .. Len(outbox'[j]) :
        outbox'[j][i].t = Job[j].topic /\ outbox'[j][i].p = kwargs[j]
  BY <1>5 DEF OrderOK
<1>7. \A i \in 1 .. Len(outbox'[j]) : outbox'[j][i].m.kind \in EndKinds =>
        i = Len(outbox'[j]) /\ pc[j] \notin {"next", "flush"}
  <2> SUFFICES ASSUME NEW i \in 1 .. Len(outbox'[j]), outbox'[j][i].m.kind \in EndKinds
               PROVE  i = Len(outbox'[j]) /\ pc[j] \notin {"next", "flush"}
    OBVIOUS
  <2>1. i + 1 = Len(outbox[j]) /\ pc[j] \notin {"next", "flush"}
    BY <1>5 DEF OrderOK
  <2> QED
    BY <1>1, <2>1
<1>8. sent[j] # 0 /\ \A m \in MessagesOf(j) : KindAt(m) \notin EndKinds
  BY <1>1 DEF OrderOK
<1>9. o.m.kind \in EndKinds => Len(outbox'[j]) = 0 /\ pc[j] \notin {"next", "flush"}
  <2>1. o.m.kind \in EndKinds => k = Len(outbox[j]) /\ pc[j] \notin {"next", "flush"}
    BY DEF OrderOK
  <2> QED
    BY <1>1, <1>4, <2>1
<1>10. sent[j] > 0 => /\ kwargs[j] \in Parts
                      /\ Job[j].items[1].route \in Parts => kwargs[j] = Job[j].items[1].route
  BY DEF OrderOK
<1>11. \A m \in MessagesOf(j) : m[1] = Job[j].topic /\ m[2] = kwargs[j]
  BY DEF OrderOK
<1>12. CASE log' = [log EXCEPT ![o.t][o.p] = Append(@, o.m)] /\ UNCHANGED <<lost, refused>>
  <2>1. PICK n \in Nat : n = Len(log[o.t][o.p]) + 1
    BY <1>2, LogLengths
  <2>2. PICK t \in Topics, p \in Parts, m \in Messages :
           t = o.t /\ p = o.p /\ m = o.m /\ m.job = j
    BY <1>2
  <2>3. m.kind \in EndKinds => Len(outbox'[j]) = 0 /\ pc[j] \notin {"next", "flush"}
    BY <1>9, <2>2
  <2>4. t = Job[j].topic /\ p = kwargs[j]
    BY <1>2, <2>2
  <2>5. log' = [log EXCEPT ![t][p] = Append(@, m)] /\ n = Len(log[t][p]) + 1
    BY <1>12, <2>1, <2>2
  <2> HIDE DEF o
  <2>6. \A x : x \in MessagesOf(j)' <=> x \in MessagesOf(j) \/ x = <<t, p, n>>
    <3>1. m.job = j
      BY <2>2
    <3>2. Logged(t, p, n, m)
      BY <2>5 DEF Logged
    <3> QED
      BY <3>1, <3>2, MessageTaken
  <2>7. LogGrows /\ log'[t][p][n] = m
    <3>1. LogGrows
      BY <2>5, LogAppended
    <3>2. log'[t][p][Len(log[t][p]) + 1] = m
      BY <2>5, LogAppended
    <3> QED
      BY <2>5, <3>1, <3>2
  <2>8. \A x \in MessagesOf(j) : KindAt(x)' \notin EndKinds
    BY <1>8, <2>7, KindsKept
  <2>9. \A x \in MessagesOf(j)' : x[1] = Job[j].topic /\ x[2] = kwargs[j]
    BY <1>11, <2>4, <2>6
  <2>10. \A x \in MessagesOf(j)' : KindAt(x)' \in EndKinds => x = <<t, p, n>> /\ m.kind \in EndKinds
    <3> SUFFICES ASSUME NEW x \in MessagesOf(j)', KindAt(x)' \in EndKinds
                 PROVE  x = <<t, p, n>> /\ m.kind \in EndKinds
      OBVIOUS
    <3>1. x = <<t, p, n>>
      BY <2>6, <2>8
    <3>2. KindAt(x)' = m.kind
      BY <2>7, <3>1 DEF KindAt
    <3> QED
      BY <3>1, <3>2
  <2>11. \A x \in MessagesOf(j)' : x[3] <= n
    <3> SUFFICES ASSUME NEW x \in MessagesOf(j) PROVE x[3] <= n
      BY <2>6
    <3>1. PICK u \in Topics, q \in Parts : \E i \in 1 .. Len(log[u][q]) : x = <<u, q, i>>
      BY MessagesUnfolded
    <3>2. PICK i \in 1 .. Len(log[u][q]) : x = <<u, q, i>>
      BY <3>1
    <3>3. u = t /\ q = p
      BY <1>11, <2>4, <3>2
    <3>4. Len(log[t][p]) \in Nat
      BY LogLengths
    <3> QED
      BY <2>5, <3>2, <3>3, <3>4
  <2>12. \A x \in MessagesOf(j)' : KindAt(x)' \in EndKinds =>
           /\ Len(outbox'[j]) = 0 /\ pc'[j] \notin {"next", "flush"}
           /\ \A l \in MessagesOf(j)' : l[3] <= x[3]
    <3> SUFFICES ASSUME NEW x \in MessagesOf(j)', KindAt(x)' \in EndKinds
                 PROVE  /\ Len(outbox'[j]) = 0 /\ pc'[j] \notin {"next", "flush"}
                        /\ \A l \in MessagesOf(j)' : l[3] <= x[3]
      OBVIOUS
    <3>1. x = <<t, p, n>> /\ m.kind \in EndKinds
      BY <2>10
    <3>2. x[3] = n
      BY <3>1
    <3> QED
      BY <1>3, <2>3, <2>11, <3>1, <3>2
  <2> QED
    BY <1>3, <1>6, <1>7, <1>8, <1>10, <2>9, <2>12 DEF OrderOK
<1>13. CASE lost' = [lost EXCEPT ![j] = TRUE] /\ UNCHANGED log
  <2>1. MessagesOf(j)' = MessagesOf(j) /\ \A m : KindAt(m)' = KindAt(m)
    BY <1>13, SameMessages DEF KindAt
  <2> QED
    BY <1>3, <1>6, <1>7, <1>8, <1>10, <1>11, <2>1 DEF OrderOK
<1> QED
  BY <1>12, <1>13 DEF Deliver

LEMMA ProducersKeepOrders ==
  ASSUME SendTypes, CountInv, NEW j \in Jobs, SendStep(j) \/ Delivery(j),
         NEW l \in Jobs, OnePartition(l), OrderOK(l)
  PROVE  OrderOK(l)'
<1>0. CountOK(l) /\ CountOK(j)
  BY DEF CountInv
<1>1. CASE SendStep(j)
  <2>1. CASE l = j
    BY <1>1, <2>1, NextItemKeepsOrder, EndCommandKeepsOrder, FlushesKeepOrder DEF SendStep
  <2>2. CASE l # j
    <3>1. log' = log
      BY <1>1, SendStepKeepsTypes
    <3>2. MessagesOf(l)' = MessagesOf(l) /\ \A m : KindAt(m)' = KindAt(m)
      BY <3>1, SameMessages DEF KindAt
    <3> QED
      BY <1>1, <2>2, <3>2, SendStepFrame, OtherOrders
  <2> QED
    BY <2>1, <2>2
<1>2. CASE Delivery(j)
  <2>1. PICK k \in 1 .. Len(outbox[j]) : Deliver(j, k)
    BY <1>2 DEF Delivery
  <2>2. CASE l = j
    BY <1>0, <2>1, <2>2, DeliveryKeepsOrder
  <2>3. CASE l # j
    <3>1. MessagesOf(l)' = MessagesOf(l)
      BY <1>0, <2>1, <2>3, DeliveryKeepsCount
    <3>2. \A m \in MessagesOf(l) : KindAt(m)' = KindAt(m)
      BY <2>1, DeliveryKeepsTypes, KindsKept
    <3> QED
      BY <2>1, <2>3, <3>1, <3>2, DeliverFrame, OtherOrders
  <2> QED
    BY <2>2, <2>3
<1> QED
  BY <1>1, <1>2

\* Once a receiver has ended at its command, a job sends nothing more.
LEMMA ProducersKeepEnds ==
  ASSUME SendTypes, CountInv, NEW j \in Jobs, SendStep(j) \/ Delivery(j),
         NEW l \in Jobs, OrderOK(l), EndedOK(l)
  PROVE  EndedOK(l)'
<1>0. CountOK(l) /\ CountOK(j)
  BY DEF CountInv
<1>1. LogGrows /\ UNCHANGED <<ended, opts, processed>>
  BY ProducersGrowLogs DEF recvVars
<1>2. \A m \in MessagesOf(l) : KindAt(m)' = KindAt(m)
  BY <1>1, KindsKept
<1>3. CASE l \notin ended \/ opts.autoCommit
  BY <1>1, <1>3 DEF EndedOK
<1>4. CASE l \in ended /\ ~ opts.autoCommit
  <2>1. Len(outbox[l]) = 0
    BY <1>4 DEF EndedOK, OrderOK
  <2>2. MessagesOf(l)' = MessagesOf(l)
    <3>1. CASE SendStep(j)
      BY <3>1, SendStepKeepsTypes, SameMessages
    <3>2. CASE Delivery(j)
      <4>1. PICK k \in 1 .. Len(outbox[j]) : Deliver(j, k)
        BY <3>2 DEF Delivery
      <4>2. l # j
        BY <2>1, <4>1
      <4> QED
        BY <1>0, <4>1, <4>2, DeliveryKeepsCount
    <3> QED
      BY <3>1, <3>2
  <2> QED
    BY <1>1, <1>2, <2>2, OtherEnds
<1> QED
  BY <1>3, <1>4

\* recv_all ends at a command: what it had read before is processed.
LEMMA PollKeepsEnds ==
  ASSUME OffsetInv, NEW t \in Topics, NEW p \in Parts, Poll(t, p),
         NEW l \in Jobs, OrderOK(l), EndedOK(l)
  PROVE  EndedOK(l)'
<1> USE DEF OffsetInv
<1> PICK n \in Nat : n = position[t][p] + 1
  BY DEF RecvTypes
<1>0. /\ cur = NoMsg /\ t \in subscription
      /\ n \in 1 .. Len(log[t][p])
      /\ log[t][p][n] \in Messages
  BY PollFacts
<1>1. /\ UNCHANGED <<log, opts, processed>> /\ LogGrows
      /\ MessagesOf(l)' = MessagesOf(l)
      /\ \A m : KindAt(m)' = KindAt(m)
  BY SameLogGrows, SameMessages DEF Poll, KindAt
<1>2. CASE l \notin ended' \/ opts.autoCommit
  BY <1>1, <1>2 DEF EndedOK
<1>3. CASE l \in ended
  BY <1>1, <1>3 DEF EndedOK
<1>4. CASE l \in ended' /\ l \notin ended /\ ~ opts.autoCommit
  <2>1. log[t][p][n].job = l /\ log[t][p][n].kind \in EndKinds
    BY <1>4 DEF Poll, EndTypes, EndKinds
  <2>2. PICK e : e = <<t, p, n>>
    OBVIOUS
  <2>3. e \in MessagesOf(l) /\ KindAt(e) \in EndKinds
    BY <1>0, <2>1, <2>2, MessagesUnfolded DEF KindAt
  <2>4. Taken(<<t, p, position[t][p]>>)
    <3>1. <<t, p, position[t][p]>> \in Places
      BY DEF RecvTypes, Places
    <3> QED
      BY <1>0, <1>4, <3>1 DEF CommitInv, IsRead
  <2>5. ASSUME NEW m \in MessagesOf(l), KindAt(m) = "item"
        PROVE  m \in processed
    <3>1. PICK u \in Topics, q \in Parts : \E i \in 1 .. Len(log[u][q]) : m = <<u, q, i>>
      BY MessagesUnfolded
    <3>2. PICK i \in 1 .. Len(log[u][q]) : m = <<u, q, i>>
      BY <3>1
    <3>3. u = t /\ q = p /\ i <= n
      <4>1. m[1] = e[1] /\ m[2] = e[2] /\ m[3] <= e[3]
        BY <2>3 DEF OrderOK
      <4> QED
        BY <2>2, <3>2, <4>1
    <3>4. i # n
      BY <2>1, <2>5, <3>2, <3>3 DEF KindAt, EndKinds
    <3>5. i \in Nat /\ i >= 1 /\ position[t][p] \in Nat
      BY <3>2, LogLengths DEF RecvTypes
    <3>6. i \in 1 .. position[t][p]
      BY <3>3, <3>4, <3>5
    <3>7. log[t][p][i].kind = "item"
      BY <2>5, <3>2, <3>3 DEF KindAt
    <3>8. <<t, p, i>> \in processed \/ <<t, p, i>> = cur
      BY <2>4, <3>6, <3>7 DEF Taken
    <3> QED
      BY <1>0, <3>2, <3>3, <3>8 DEF NoMsg
  <2> QED
    BY <1>1, <2>3, <2>5 DEF EndedOK
<1> QED
  BY <1>2, <1>3, <1>4

LEMMA ReceiverKeepsOrders ==
  ASSUME OffsetInv, ReceiverStep, NEW l \in Jobs, OrderOK(l), EndedOK(l)
  PROVE  OrderOK(l)' /\ EndedOK(l)'
<1>1. /\ UNCHANGED <<log, sendVars>> /\ MessagesOf(l)' = MessagesOf(l)
      /\ \A m : KindAt(m)' = KindAt(m)
  BY ReceiverKeepsTypes, SameMessages DEF OffsetInv, KindAt
<1>2. OrderOK(l)'
  BY <1>1, OtherOrders DEF sendVars
<1>3. CASE \E tp \in TP : Poll(tp[1], tp[2])
  BY <1>2, <1>3, PollKeepsEnds DEF TP
<1>4. CASE ~ \E tp \in TP : Poll(tp[1], tp[2])
  <2>1. UNCHANGED <<ended, opts>> /\ processed \subseteq processed'
    BY <1>4 DEF ReceiverStep, UserCalls, Ask, Commit, Unsubscribe, Timeout, Process,
                CommitOne, CommitArrives, AutoCommit, Restart, recvVars
  <2> QED
    BY <1>1, <1>2, <2>1, OtherEnds
<1> QED
  BY <1>3, <1>4

LEMMA InitOrders == Init => OrderInv
<1> SUFFICES ASSUME Init, NEW j \in Jobs PROVE OrderOK(j) /\ EndedOK(j)
  BY DEF OrderInv
<1>1. sent[j] = 0 /\ outbox[j] = <<>> /\ log = Empty(<<>>) /\ ended = {}
  BY DEF Init
<1>2. \A t \in Topics, p \in Parts : Len(log[t][p]) = 0
  BY <1>1 DEF Empty
<1>3. MessagesOf(j) = {}
  <2>1. ASSUME NEW m \in MessagesOf(j) PROVE FALSE
    <3>1. PICK t \in Topics, p \in Parts : \E n \in 1 .. Len(log[t][p]) : m = <<t, p, n>>
      BY MessagesUnfolded
    <3> QED
      BY <1>2, <3>1
  <2> QED
    BY <2>1
<1> QED
  BY <1>1, <1>3 DEF OrderOK, EndedOK

THEOREM OrderInvariance == Spec => []OrderInv
<1>1. Init => OrderInv
  BY InitOrders
<1>2. DeliveryInv /\ OrderInv /\ [Next]_vars => OrderInv'
  <2> SUFFICES ASSUME DeliveryInv, OrderInv, [Next]_vars,
                      NEW l \in Jobs, OnePartition(l)
               PROVE  OrderOK(l)' /\ EndedOK(l)'
    BY DEF OrderInv, OnePartition
  <2>0. OffsetInv /\ SendTypes /\ CountInv /\ OrderOK(l) /\ EndedOK(l)
    BY DEF DeliveryInv, OffsetInv, OrderInv
  <2>1. CASE \E j \in Jobs : SendStep(j) \/ Delivery(j)
    BY <2>0, <2>1, ProducersKeepOrders, ProducersKeepEnds
  <2>2. CASE ReceiverStep
    BY <2>0, <2>2, ReceiverKeepsOrders
  <2>3. CASE UNCHANGED vars
    <3>1. /\ UNCHANGED <<log, sendVars, ended, opts, processed>>
          /\ MessagesOf(l)' = MessagesOf(l) /\ \A m : KindAt(m)' = KindAt(m)
      BY <2>3, SameMessages DEF vars, recvVars, KindAt
    <3> QED
      BY <2>0, <3>1, OtherOrders, OtherEnds DEF sendVars
  <2> QED
    BY <2>1, <2>2, <2>3, NextIsAStep
<1> QED
  BY <1>1, <1>2, DeliveryInvariance, PTL DEF Spec

\* When the end command of a job whose messages share a partition ends
\* recv_all, every item of the job is processed (KafkaQueue.py:344-353).
THEOREM EndsComeLast == Spec => []EndMeansProcessed
<1>1. OffsetInv /\ OrderInv => EndMeansProcessed
  <2> SUFFICES ASSUME OffsetInv, OrderInv, NEW j \in ended, OnePartition(j), ~ opts.autoCommit,
                      NEW m \in MessagesOf(j), log[m[1]][m[2]][m[3]].kind = "item"
               PROVE  m \in processed
    BY DEF EndMeansProcessed
  <2>1. j \in Jobs
    BY DEF OffsetInv, RecvTypes
  <2> QED
    BY <2>1 DEF OrderInv, EndedOK, KindAt
<1> QED
  BY <1>1, OffsetInvariance, OrderInvariance, PTL
=============================================================================
