----------------------------- MODULE KafkaQueue -----------------------------
(***************************************************************************)
(* smart/utils/kafka/KafkaQueue.py: jobs that send items to topics through *)
(* a Producer (send_one, send_all, send_end_cmd), and one user that calls  *)
(* recv_all and commit in a loop.  The broker (one log per partition, the  *)
(* committed offsets of the group) and the client library (the producer's  *)
(* outbox, the consumer's position) are external: they are modelled from   *)
(* how KafkaQueue uses them.                                               *)
(***************************************************************************)
EXTENDS Integers, Sequences, FiniteSets, SequencesExt

CONSTANTS
    Jobs,        \* the sends; each has its own KafkaQueue, hence its own Producer
    Job,         \* Job[j]: the arguments of send_all, see JobArgs
    Topics,      \* names of topics
    Parts,       \* the partitions of every topic, 1..n
    AskSets,     \* the sets of topics the user may ask for
    Options,     \* the receiver's options, see ReceiverOptions
    MaxLost,     \* messages the broker may refuse (delivery report with an error)
    MaxCrash,    \* crashes of the receiving process
    MaxRequests  \* commit requests in flight

\* An item is its topic, its route and whether it can be decoded.  The route is
\* the partition asked for, or one of:
Unrouted == 0       \* no key and no partition: the library takes any partition
ByKey    == -1      \* the partition its key hashes to
JobArgs == [topic : Topics,
            items : Seq([topic : Topics, route : Parts \union {Unrouted, ByKey}, bad : BOOLEAN]),
            step  : Nat \ {0},      \* flush_step
            end   : {"no", "end", "exit"}]
\* noWait is timeout=0: one poll(0) per message instead of the polling loop.
ReceiverOptions == [autoCommit : BOOLEAN, skipErr : BOOLEAN, daemon : BOOLEAN, noWait : BOOLEAN]

ASSUME KafkaAssumption ==
    /\ Parts \subseteq Nat \ {0}
    /\ Job \in [Jobs -> JobArgs] /\ Options \subseteq ReceiverOptions
    /\ AskSets \subseteq SUBSET Topics

VARIABLES
    log,         \* log[t][p]: the messages of partition p of topic t
    pc,          \* pc[j]: where send_all stands
    sent,        \* sent[j]: items produced so far
    outbox,      \* outbox[j]: produced, not acknowledged by the broker
    kwargs,      \* kwargs[j]: producer_kwargs left by the last item; 0 is {}
    b_flush,     \* b_flush[j]: a flush is due before send_all returns
    lost,        \* lost[j]: a message was refused, report not served yet or raised
    opts,        \* the receiver's options
    committed,   \* committed[t][p]: the group's offset at the broker
    requests,    \* commit requests on their way to the broker
    position,    \* position[t][p]: the consumer's next message
    subscription,\* the topics the client library is subscribed to
    subscribed,  \* KafkaQueue._subscribed_topics
    uncommitted, \* KafkaQueue._uncommit_msg_list
    rpc,         \* where the receiving user stands
    cur,         \* the item the user holds
    processed,   \* history: the messages whose item was processed
    ended,       \* history: the jobs whose end command ended a recv_all
    crashes, refused

sendVars == <<pc, sent, outbox, kwargs, b_flush, lost, refused>>
recvVars == <<opts, position, subscription, subscribed, uncommitted, rpc,
              cur, processed, ended, crashes>>
brokerVars == <<committed, requests>>
vars == <<log, sendVars, recvVars, brokerVars>>

TP == Topics \X Parts
Msg(j, n, kind) == [job |-> j, n |-> n, kind |-> kind]
NoMsg == <<>>
Empty(v) == [t \in Topics |-> [p \in Parts |-> v]]

Init ==
    /\ log = Empty(<<>>)
    /\ pc = [j \in Jobs |-> "next"]
    /\ sent = [j \in Jobs |-> 0]
    /\ outbox = [j \in Jobs |-> <<>>]
    /\ kwargs = [j \in Jobs |-> 0]
    /\ b_flush = [j \in Jobs |-> FALSE]
    /\ lost = [j \in Jobs |-> FALSE]
    /\ refused = 0
    /\ opts \in Options
    /\ committed = Empty(0) /\ requests = <<>>
    /\ position = Empty(0)
    /\ subscription = {} /\ subscribed = {} /\ uncommitted = <<>>
    /\ rpc = "idle" /\ cur = NoMsg
    /\ processed = {} /\ ended = {} /\ crashes = 0

-----------------------------------------------------------------------------
(* The producer. *)

\* The partitions producer.produce may choose for a route.
PartitionsOf(route) == IF route \in Parts THEN {route} ELSE Parts

Append1(j, t, p, m) == outbox' = [outbox EXCEPT ![j] = Append(@, [t |-> t, p |-> p, m |-> m])]

\* poll(0) and flush() serve the delivery reports: _delivery_report raises.
Raise(j) == pc' = [pc EXCEPT ![j] = "raised"]

NextItem(j) ==
    LET n == sent[j] + 1
        item == Job[j].items[n]
    IN
    /\ pc[j] = "next" /\ n <= Len(Job[j].items)
    /\ IF lost[j]
       THEN Raise(j) /\ UNCHANGED <<sent, outbox, kwargs, b_flush>>
       ELSE /\ \E p \in PartitionsOf(item.route) :
                  /\ Append1(j, item.topic, p, Msg(j, n, IF item.bad THEN "bad" ELSE "item"))
                  /\ kwargs' = [kwargs EXCEPT ![j] = IF item.route = Unrouted THEN 0 ELSE p]
            /\ sent' = [sent EXCEPT ![j] = n]
            /\ IF n % Job[j].step = 0
               THEN pc' = [pc EXCEPT ![j] = "flush"] /\ UNCHANGED b_flush
               ELSE b_flush' = [b_flush EXCEPT ![j] = TRUE] /\ UNCHANGED pc
    /\ UNCHANGED <<log, lost, refused, brokerVars, recvVars>>

\* producer.flush() inside the loop: it returns once the outbox is empty.
Flush(j) ==
    /\ pc[j] = "flush" /\ outbox[j] = <<>>
    /\ IF lost[j] THEN Raise(j) /\ UNCHANGED b_flush
                  ELSE /\ pc' = [pc EXCEPT ![j] = "next"]
                       /\ b_flush' = [b_flush EXCEPT ![j] = FALSE]
    /\ UNCHANGED <<log, sent, outbox, kwargs, lost, refused, brokerVars, recvVars>>

\* A fault: the end command is sent without the producer_kwargs.
EndAnywhere(j) == Parts
\* The end command goes with the producer_kwargs of the last item.
EndPartitions(j) == IF kwargs[j] = 0 THEN Parts ELSE {kwargs[j]}

\* Without any item producer_kwargs is unbound and send_all raises.
EndCommand(j) ==
    /\ pc[j] = "next" /\ sent[j] = Len(Job[j].items) /\ Job[j].end # "no"
    /\ IF lost[j] \/ sent[j] = 0
       THEN Raise(j) /\ UNCHANGED <<outbox, b_flush>>
       ELSE /\ \E p \in EndPartitions(j) :
                  Append1(j, Job[j].topic, p, Msg(j, sent[j] + 1, Job[j].end))
            /\ b_flush' = [b_flush EXCEPT ![j] = TRUE]
            /\ pc' = [pc EXCEPT ![j] = "last"]
    /\ UNCHANGED <<log, sent, kwargs, lost, refused, brokerVars, recvVars>>

NoEndCommand(j) ==
    /\ pc[j] = "next" /\ sent[j] = Len(Job[j].items) /\ Job[j].end = "no"
    /\ pc' = [pc EXCEPT ![j] = "last"]
    /\ UNCHANGED <<log, sent, outbox, kwargs, b_flush, lost, refused, brokerVars, recvVars>>

\* A fault: with a flush_step above 1 the last messages are left to the library.
FlushIfStepwise(j) == b_flush[j] /\ Job[j].step = 1
FlushDue(j) == b_flush[j]

LastFlush(j) ==
    /\ pc[j] = "last" /\ (FlushDue(j) => outbox[j] = <<>>)
    /\ IF FlushDue(j) /\ lost[j] THEN Raise(j) ELSE pc' = [pc EXCEPT ![j] = "done"]
    /\ UNCHANGED <<log, sent, outbox, kwargs, b_flush, lost, refused, brokerVars, recvVars>>

\* The library's thread hands a message to the broker, which appends it to the
\* partition or refuses it; the messages to one partition keep their order.
FirstOfPartition(j, k) ==
    \A i \in 1..(k-1) : <<outbox[j][i].t, outbox[j][i].p>> # <<outbox[j][k].t, outbox[j][k].p>>

Deliver(j, k) ==
    LET o == outbox[j][k] IN
    /\ FirstOfPartition(j, k)
    /\ outbox' = [outbox EXCEPT ![j] = RemoveAt(@, k)]
    /\ \/ /\ log' = [log EXCEPT ![o.t][o.p] = Append(@, o.m)]
          /\ UNCHANGED <<lost, refused>>
       \/ /\ refused < MaxLost /\ refused' = refused + 1
          /\ lost' = [lost EXCEPT ![j] = TRUE]
          /\ UNCHANGED log
    /\ UNCHANGED <<pc, sent, kwargs, b_flush, brokerVars, recvVars>>

-----------------------------------------------------------------------------
(* The consumer and its user. *)

\* subscribe(): only topics not seen before reach consumer.subscribe, whose
\* list REPLACES the subscription; a new topic is read from the group's offset.
SubscribeTo(T) ==
    LET new == T \ subscribed IN
    /\ subscribed' = subscribed \union new
    /\ IF new = {}
       THEN UNCHANGED <<subscription, position, committed>>
       ELSE /\ subscription' = new
            /\ position' = [t \in Topics |-> IF t \in new THEN committed[t] ELSE position[t]]
            /\ committed' = [t \in Topics |-> IF opts.autoCommit /\ t \in subscription
                                              THEN position[t] ELSE committed[t]]

Ask(T) ==
    /\ rpc = "idle"
    /\ SubscribeTo(T)
    /\ rpc' = "poll"
    /\ UNCHANGED <<log, sendVars, requests, opts, uncommitted, cur, processed, ended, crashes>>

EndTypes == IF opts.daemon THEN {"exit"} ELSE {"end", "exit"}

\* __consumer_poll returns the next message of a subscribed partition; recv_all
\* yields an item, skips or raises what it cannot decode, and ends at a command.
Poll(t, p) ==
    LET n == position[t][p] + 1
        m == log[t][p][n]
    IN
    /\ rpc = "poll" /\ t \in subscription /\ n <= Len(log[t][p])
    /\ position' = [position EXCEPT ![t][p] = n]
    /\ uncommitted' = IF opts.autoCommit \/ opts.noWait THEN uncommitted
                      ELSE Append(uncommitted, <<t, p, n>>)
    /\ \/ /\ m.kind = "item"
          /\ cur' = <<t, p, n>> /\ rpc' = "user" /\ UNCHANGED ended
       \/ /\ m.kind = "bad"
          /\ rpc' = IF opts.skipErr THEN "poll" ELSE "raised"
          /\ UNCHANGED <<cur, ended>>
       \/ /\ m.kind \in EndTypes
          /\ rpc' = "left" /\ ended' = ended \union {m.job} /\ UNCHANGED cur
       \/ /\ m.kind = "end" /\ opts.daemon
          /\ UNCHANGED <<cur, rpc, ended>>
    /\ UNCHANGED <<log, sendVars, brokerVars, opts, subscription, subscribed,
                   processed, crashes>>

\* The timeout of recv_all passes without a message.
Timeout ==
    /\ rpc = "poll" /\ rpc' = "left"
    /\ UNCHANGED <<log, sendVars, brokerVars, opts, position, subscription, subscribed,
                   uncommitted, cur, processed, ended, crashes>>

\* The body of the user's loop: process the item, then commit, go on, or leave
\* (recv_one returns after one message).
Process ==
    /\ rpc = "user"
    /\ processed' = processed \union {cur} /\ cur' = NoMsg
    /\ rpc' \in {"commit_in_loop", "poll", "left"}
    /\ UNCHANGED <<log, sendVars, brokerVars, opts, position, subscription, subscribed,
                   uncommitted, ended, crashes>>

\* commit(): each turn pops a message, then sends its offset; the call is
\* asynchronous, the request reaches the broker later.
CommitOne ==
    /\ rpc \in {"commit_in_loop", "commit"}
    /\ IF uncommitted = <<>>
       THEN /\ rpc' = IF rpc = "commit" THEN "idle" ELSE "poll"
            /\ UNCHANGED <<uncommitted, requests>>
       ELSE /\ Len(requests) < MaxRequests
            /\ uncommitted' = Tail(uncommitted)
            /\ requests' = Append(requests, Head(uncommitted))
            /\ UNCHANGED rpc
    /\ UNCHANGED <<log, sendVars, committed, opts, position, subscription, subscribed,
                   cur, processed, ended, crashes>>

\* After the loop the user commits, having unsubscribed or not.
Commit ==
    /\ rpc = "left" /\ rpc' = "commit"
    /\ UNCHANGED <<log, sendVars, brokerVars, opts, position, subscription, subscribed,
                   uncommitted, cur, processed, ended, crashes>>

\* A fault: unsubscribe leaves _subscribed_topics as it is.
UnsubscribeBroker ==
    /\ rpc = "left" /\ rpc' = "commit"
    /\ subscription' = {}
    /\ UNCHANGED <<log, sendVars, brokerVars, opts, position, subscribed, uncommitted, cur,
                   processed, ended, crashes>>

\* unsubscribe(): the library drops its positions, KafkaQueue its topics; the
\* messages not committed yet stay in the list.
Unsubscribe ==
    /\ rpc = "left" /\ rpc' = "commit"
    /\ subscription' = {} /\ subscribed' = {}
    /\ committed' = [t \in Topics |-> IF opts.autoCommit /\ t \in subscription
                                      THEN position[t] ELSE committed[t]]
    /\ UNCHANGED <<log, sendVars, requests, opts, position, uncommitted, cur,
                   processed, ended, crashes>>

\* The broker handles a commit request.
CommitArrives ==
    /\ requests # <<>>
    /\ LET r == Head(requests) IN committed' = [committed EXCEPT ![r[1]][r[2]] = r[3]]
    /\ requests' = Tail(requests)
    /\ UNCHANGED <<log, sendVars, recvVars>>

\* A fault: update_consumer_opts(auto_commit=False) is not passed on.
AutoCommitAlways ==
    /\ \E t \in subscription :
          /\ committed[t] # position[t]
          /\ committed' = [committed EXCEPT ![t] = position[t]]
    /\ UNCHANGED <<log, sendVars, recvVars, requests>>

\* enable.auto.commit: the library commits its position from time to time.
AutoCommit ==
    /\ opts.autoCommit
    /\ \E t \in subscription :
          /\ committed[t] # position[t]
          /\ committed' = [committed EXCEPT ![t] = position[t]]
    /\ UNCHANGED <<log, sendVars, recvVars, requests>>

\* The process dies, or the exception of recv_all ends it, and is started
\* again: a new KafkaQueue, the offsets are those of the broker.
Restart ==
    /\ \/ rpc = "raised" /\ UNCHANGED crashes
       \/ crashes < MaxCrash /\ crashes' = crashes + 1
    /\ rpc' = "idle" /\ subscription' = {} /\ subscribed' = {}
    /\ uncommitted' = <<>> /\ requests' = <<>> /\ cur' = NoMsg
    /\ UNCHANGED <<log, sendVars, committed, opts, position, processed, ended>>

-----------------------------------------------------------------------------
SendStep(j) == NextItem(j) \/ Flush(j) \/ EndCommand(j) \/ NoEndCommand(j) \/ LastFlush(j)
Delivery(j) == \E k \in 1..Len(outbox[j]) : Deliver(j, k)
UserCalls == \/ \E T \in AskSets : Ask(T)
             \/ Commit \/ Unsubscribe

Next == \/ \E j \in Jobs : SendStep(j) \/ Delivery(j)
        \/ \E tp \in TP : Poll(tp[1], tp[2])
        \/ UserCalls \/ Timeout \/ Process \/ CommitOne
        \/ CommitArrives \/ AutoCommit \/ Restart

\* The processes run; the library delivers, fetches and commits; the user goes
\* on calling recv_all.  A fetch that can be answered again and again is
\* answered although each poll may time out first.
Fairness ==
    /\ \A j \in Jobs : WF_vars(SendStep(j)) /\ WF_vars(Delivery(j))
    /\ \A tp \in TP : SF_vars(Poll(tp[1], tp[2]))
    /\ WF_vars(\E T \in AskSets : Ask(T)) /\ WF_vars(Process) /\ WF_vars(CommitOne)
    /\ WF_vars(Commit \/ Unsubscribe) /\ WF_vars(CommitArrives)

Spec == Init /\ [][Next]_vars
FairSpec == Spec /\ Fairness
-----------------------------------------------------------------------------
(* Properties. *)

Indices(t, p) == 1..Len(log[t][p])
MessagesOf(j) == {m \in UNION {{<<tp[1], tp[2], n>> : n \in Indices(tp[1], tp[2])} : tp \in TP} :
                    log[m[1]][m[2]][m[3]].job = j}
\* Every message of job j goes to one partition of one topic.
OnePartition(j) ==
    \E r \in Parts \union {ByKey} :
        /\ r = ByKey => Len(Job[j].items) = 1
        /\ \A n \in DOMAIN Job[j].items : /\ Job[j].items[n].topic = Job[j].topic
                                          /\ Job[j].items[n].route = r

Messages == [job : Jobs, n : Nat, kind : {"item", "bad", "end", "exit"}]
Places == Topics \X Parts \X Nat

TypeOK ==
    /\ log \in [Topics -> [Parts -> Seq(Messages)]]
    /\ pc \in [Jobs -> {"next", "flush", "last", "done", "raised"}]
    /\ sent \in [Jobs -> Nat] /\ \A j \in Jobs : sent[j] <= Len(Job[j].items)
    /\ outbox \in [Jobs -> Seq([t : Topics, p : Parts, m : Messages])]
    /\ kwargs \in [Jobs -> Parts \union {0}]
    /\ b_flush \in [Jobs -> BOOLEAN] /\ lost \in [Jobs -> BOOLEAN]
    /\ opts \in ReceiverOptions
    /\ position \in [Topics -> [Parts -> Nat]] /\ committed \in [Topics -> [Parts -> Nat]]
    /\ \A t \in Topics, p \in Parts :
          position[t][p] <= Len(log[t][p]) /\ committed[t][p] <= Len(log[t][p])
    /\ requests \in Seq(Places) /\ uncommitted \in Seq(Places)
    /\ subscription \subseteq subscribed /\ subscribed \subseteq Topics
    /\ rpc \in {"idle", "poll", "user", "commit_in_loop", "left", "commit", "raised"}
    /\ rpc = "user" <=> cur # NoMsg
    /\ cur # NoMsg => cur \in Places
    /\ processed \subseteq Places /\ ended \subseteq Jobs
    /\ crashes \in Nat /\ refused \in Nat

\* A send_all that returned has every message in the broker's logs: the flush
\* flag (KafkaQueue.py:339-355) covers each way out of the loop, whatever the
\* step, and a refused message is raised, never swallowed.  (The types are part
\* of it.)
ReturnedMeansDelivered ==
    TypeOK /\ \A j \in Jobs : pc[j] = "done" =>
        Cardinality(MessagesOf(j)) = Len(Job[j].items) + IF Job[j].end = "no" THEN 0 ELSE 1

\* At least once: with auto commit off, the group's offset never passes an item
\* that no loop body has finished, through crashes, timeouts, changes of the
\* subscription and commits that arrive late (commit, KafkaQueue.py:466-475).
CommittedIsProcessed ==
    ~ opts.autoCommit =>
        \A tp \in TP : \A n \in 1..committed[tp[1]][tp[2]] :
            log[tp[1]][tp[2]][n].kind = "item" => <<tp[1], tp[2], n>> \in processed

\* When the end command of a job whose messages share a partition ends
\* recv_all, the items of that job have been processed (the end command takes
\* the producer_kwargs of the last item, KafkaQueue.py:344-353).
EndMeansProcessed ==
    \A j \in ended : OnePartition(j) /\ ~ opts.autoCommit =>
        \A m \in MessagesOf(j) : log[m[1]][m[2]][m[3]].kind = "item" => m \in processed

\* Every item in a log of the topics the user asks for is processed in the end
\* (auto commit off; an item before an undecodable one only if those are skipped).
EverythingProcessed ==
    \A j \in Jobs : \A n \in DOMAIN Job[j].items :
        LET InLog(m) == log[m[1]][m[2]][m[3]] = Msg(j, n, "item") IN
        ~ opts.autoCommit /\ opts.skipErr /\ (\E m \in MessagesOf(j) : InLog(m))
        ~> \E m \in processed : InLog(m)
=============================================================================
