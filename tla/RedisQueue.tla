----------------------------- MODULE RedisQueue -----------------------------
(***************************************************************************)
(* auto_tasks/redis/RedisQueue.py (and the same protocol in redis_pip.py)  *)
(* with RedisFullUtil and RedisLongPoll of redis_utils.py: senders push    *)
(* items and an end command to lists in redis, receivers pop them.  Every  *)
(* call of redis is a step of its own; between two calls anything can      *)
(* happen.  Redis (lists, expiry, blpop) is external.                      *)
(***************************************************************************)
EXTENDS Integers, Sequences, FiniteSets, SequencesExt

CONSTANTS
    Keys, Senders, Receivers,
    Scenarios,     \* what the senders and receivers call: [send, recv], see below
    TimeoutReads,  \* equal lengths read in a row that make a client_timeout
    MaxKills,      \* receivers that may be killed
    MaxExpiries    \* keys that may outlive their ttl

NoKey == 0  \* an item whose queue key is empty
SendArgs == [call  : {"send_all", "send_exit_cmd", "nothing"},
             key   : Keys, items : Seq(Keys \union {NoKey}),
             end   : BOOLEAN,      \* send_end_cmd
             ttl   : BOOLEAN,      \* end_ttl is set, or follows from client_timeout
             empty_old : BOOLEAN,
             max   : Nat,          \* max_queue_size, 0 for none
             step  : Nat \ {0},    \* check_queue_step
             client_timeout : BOOLEAN,
             item_ttl : BOOLEAN]   \* queue_ttl or the ttl of the item
RecvArgs == [keys : Seq(Keys),        \* none: r calls nothing
             multi : BOOLEAN, daemon : BOOLEAN,
             waits : BOOLEAN]      \* block without a timeout

ASSUME RedisAssumption ==
    /\ \A sc \in Scenarios : sc.send \in [Senders -> SendArgs] /\ sc.recv \in [Receivers -> RecvArgs]
    /\ IsFiniteSet(Senders) /\ NoKey \notin Keys
    /\ TimeoutReads \in Nat \ {0} /\ MaxKills \in Nat /\ MaxExpiries \in Nat

VARIABLES
    queue,       \* queue[k]: the list at key k
    expires,     \* expires[k]: key k has a ttl
    spc, sent,   \* spc[s], sent[s]: where the sender stands, items behind it
    prev, same,  \* wait_no_full: the length read before, equal reads in a row
    scenario,    \* the arguments of all the calls
    rpc,         \* rpc[r]: where the receiver stands
    rest,        \* rest[r]: the keys recv_all still listens to
    held,        \* held[r]: the command being forwarded
    endedBy,     \* history: the sender whose command ended r
    kills, expiries

redisVars == <<queue, expires>>
senderVars == <<spc, sent, prev, same>>
receiverVars == <<rpc, rest, held, endedBy>>
faultVars == <<kills, expiries>>
vars == <<scenario, redisVars, senderVars, receiverVars, faultVars>>

Send == scenario.send
recv == scenario.recv

Msg(s, kind, fwd) == [s |-> s, kind |-> kind, fwd |-> fwd]
Messages == [s : Senders, kind : {"item", "end", "exit"}, fwd : BOOLEAN]
NoMsg == <<>>

Init ==
    /\ scenario \in Scenarios
    /\ queue = [k \in Keys |-> <<>>] /\ expires = [k \in Keys |-> FALSE]
    /\ spc = [s \in Senders |-> CASE Send[s].call = "send_all" -> "start"
                              [] Send[s].call = "send_exit_cmd" -> "end"
                              [] OTHER -> "done"]
    /\ sent = [s \in Senders |-> 0]
    /\ prev = [s \in Senders |-> -1] /\ same = [s \in Senders |-> 0]
    /\ rpc = [r \in Receivers |-> IF recv[r].keys = <<>> THEN "done" ELSE "recv"]
    /\ rest = [r \in Receivers |-> recv[r].keys]
    /\ held = [r \in Receivers |-> NoMsg]
    /\ endedBy = [r \in Receivers |-> NoMsg]
    /\ kills = 0 /\ expiries = 0

-----------------------------------------------------------------------------
(* Redis. *)

RPush(k, m) == queue' = [queue EXCEPT ![k] = Append(@, m)] /\ UNCHANGED expires
\* expire does nothing on a key that does not exist.
ExpireKey(k) == expires' = [expires EXCEPT ![k] = queue[k] # <<>>] /\ UNCHANGED queue
\* A list that becomes empty is gone, with its ttl.
Pop(k) == /\ queue' = [queue EXCEPT ![k] = Tail(@)]
          /\ expires' = [expires EXCEPT ![k] = @ /\ Len(queue[k]) > 1]

Expired(k) ==
    /\ expires[k] /\ expiries < MaxExpiries /\ expiries' = expiries + 1
    /\ queue' = [queue EXCEPT ![k] = <<>>]
    /\ expires' = [expires EXCEPT ![k] = FALSE]
    /\ UNCHANGED <<senderVars, receiverVars, kills, scenario>>

-----------------------------------------------------------------------------
(* send_all and send_exit_cmd. *)

Goto(s, l) == spc' = [spc EXCEPT ![s] = l]
Item(s) == Send[s].items[sent[s] + 1]
Sent(s) == sent' = [sent EXCEPT ![s] = @ + 1]

\* empty_old deletes the list; otherwise its ttl is taken away.
Start(s) ==
    LET k == Send[s].key IN
    /\ spc[s] = "start" /\ Goto(s, "item")
    /\ queue' = IF Send[s].empty_old THEN [queue EXCEPT ![k] = <<>>] ELSE queue
    /\ expires' = [expires EXCEPT ![k] = FALSE]
    /\ UNCHANGED <<sent, prev, same, receiverVars, faultVars, scenario>>

\* A fault: the length is checked one item late.
ChecksAfterStep(s) == Send[s].max > 0 /\ sent[s] % (Send[s].step + 1) = Send[s].step
\* The length of the queue is checked every check_queue_step items.
ChecksQueue(s) == Send[s].max > 0 /\ (sent[s] + 1) % Send[s].step = 0

NextItem(s) ==
    /\ spc[s] = "item"
    /\ \/ /\ sent[s] = Len(Send[s].items)
          /\ Goto(s, "end") /\ UNCHANGED <<sent, prev, same>>
       \/ /\ sent[s] < Len(Send[s].items)
          /\ IF Item(s) = NoKey
             THEN Sent(s) /\ UNCHANGED <<spc, prev, same>>
             ELSE /\ Goto(s, IF ChecksQueue(s) THEN "wait" ELSE "push")
                  /\ prev' = [prev EXCEPT ![s] = -1] /\ same' = [same EXCEPT ![s] = 0]
                  /\ UNCHANGED sent
    /\ UNCHANGED <<redisVars, receiverVars, faultVars, scenario>>

\* A fault: the length read is not kept for the next turn.
WaitNoFullForgets(s) ==
    LET len == Len(queue[Item(s)]) IN
    /\ spc[s] = "wait"
    /\ IF len <= Send[s].max THEN Goto(s, "push") ELSE UNCHANGED spc
    /\ UNCHANGED <<redisVars, sent, prev, same, receiverVars, faultVars, scenario>>

\* One turn of wait_no_full: a length above max is compared with the one before
\* the last sleep; enough equal lengths are taken for a reader that is gone, and
\* the rest of the items is dropped.
WaitNoFull(s) ==
    LET len == Len(queue[Item(s)])
        eq  == IF len = prev[s] /\ Send[s].client_timeout THEN same[s] + 1 ELSE 0
    IN
    /\ spc[s] = "wait"
    /\ IF len <= Send[s].max
       THEN Goto(s, "push") /\ UNCHANGED <<prev, same>>
       ELSE IF eq >= TimeoutReads
       THEN Goto(s, "end") /\ UNCHANGED <<prev, same>>
       ELSE /\ prev' = [prev EXCEPT ![s] = len] /\ same' = [same EXCEPT ![s] = eq]
            /\ UNCHANGED spc
    /\ UNCHANGED <<redisVars, sent, receiverVars, faultVars, scenario>>

PushItem(s) ==
    /\ spc[s] = "push" /\ RPush(Item(s), Msg(s, "item", FALSE))
    /\ IF Send[s].item_ttl THEN Goto(s, "item_ttl") /\ UNCHANGED sent
                           ELSE Goto(s, "item") /\ Sent(s)
    /\ UNCHANGED <<prev, same, receiverVars, faultVars, scenario>>

ExpireItem(s) ==
    /\ spc[s] = "item_ttl" /\ ExpireKey(Item(s))
    /\ Goto(s, "item") /\ Sent(s)
    /\ UNCHANGED <<prev, same, receiverVars, faultVars, scenario>>

\* The ttl comes before the command: it is lost on an empty list.
ExpireEnd(s) ==
    /\ spc[s] = "end" /\ Send[s].end /\ Send[s].ttl
    /\ ExpireKey(Send[s].key) /\ Goto(s, "end_cmd")
    /\ UNCHANGED <<sent, prev, same, receiverVars, faultVars, scenario>>

\* A fault: the end command is pushed to the head of the list.
PushEndFirst(s) ==
    /\ \/ spc[s] = "end_cmd"
       \/ spc[s] = "end" /\ Send[s].end /\ ~ Send[s].ttl
    /\ queue' = [queue EXCEPT ![Send[s].key] =
                    <<Msg(s, IF Send[s].call = "send_all" THEN "end" ELSE "exit", Send[s].ttl)>> \o @]
    /\ Goto(s, "done")
    /\ UNCHANGED <<expires, sent, prev, same, receiverVars, faultVars, scenario>>

PushEnd(s) ==
    /\ \/ spc[s] = "end_cmd"
       \/ spc[s] = "end" /\ Send[s].end /\ ~ Send[s].ttl
    /\ RPush(Send[s].key, Msg(s, IF Send[s].call = "send_all" THEN "end" ELSE "exit", Send[s].ttl))
    /\ Goto(s, "done")
    /\ UNCHANGED <<sent, prev, same, receiverVars, faultVars, scenario>>

NoEnd(s) ==
    /\ spc[s] = "end" /\ ~ Send[s].end /\ Goto(s, "done")
    /\ UNCHANGED <<redisVars, sent, prev, same, receiverVars, faultVars, scenario>>

-----------------------------------------------------------------------------
(* recv_all. *)

RGoto(r, l) == rpc' = [rpc EXCEPT ![r] = l]
EndTypes(r) == IF recv[r].daemon THEN {"exit"} ELSE {"end", "exit"}
NonEmpty(r) == {i \in 1..Len(rest[r]) : queue[rest[r][i]] # <<>>}

\* What an end command of key k does once it needs no forwarding: an exit, or
\* an end on the last key listened to, leaves the loop.
Ends(r, k, m) ==
    LET others == RemoveFirst(rest[r], k)
        goesOn == m.kind = "end" /\ recv[r].multi /\ others # <<>>
    IN
    /\ rest' = [rest EXCEPT ![r] = IF m.kind = "end" /\ recv[r].multi THEN others ELSE @]
    /\ RGoto(r, IF goesOn THEN "recv" ELSE "done")
    /\ endedBy' = [endedBy EXCEPT ![r] = IF goesOn THEN @ ELSE m]

\* blpop takes from the first of the keys that is not empty (lpop from the key).
Receive(r) ==
    /\ rpc[r] = "recv" /\ NonEmpty(r) # {}
    /\ LET k == rest[r][Min(NonEmpty(r))]
           m == Head(queue[k])
       IN /\ Pop(k)
          /\ \/ /\ m.kind \notin EndTypes(r)   \* yield the item, ignore the command
                /\ UNCHANGED <<rpc, rest, held, endedBy>>
             \/ /\ m.kind \in EndTypes(r) /\ m.fwd
                /\ RGoto(r, "forward") /\ held' = [held EXCEPT ![r] = <<k, m>>]
                /\ UNCHANGED <<rest, endedBy>>
             \/ /\ m.kind \in EndTypes(r) /\ ~ m.fwd
                /\ Ends(r, k, m) /\ UNCHANGED held
    /\ UNCHANGED <<senderVars, faultVars, scenario>>

\* A fault: the command is not given back to the other receivers.
ForwardNothing(r) ==
    /\ rpc[r] = "forward"
    /\ Ends(r, held[r][1], held[r][2]) /\ held' = [held EXCEPT ![r] = NoMsg]
    /\ UNCHANGED <<redisVars, senderVars, faultVars, scenario>>

\* redis.rpush(key, cmd): with a list of keys the client refuses the argument
\* and recv_all raises, the command already popped.
Forward(r) ==
    /\ rpc[r] = "forward"
    /\ IF recv[r].multi
       THEN RGoto(r, "raised") /\ UNCHANGED redisVars
       ELSE RGoto(r, "forward_ttl") /\ RPush(held[r][1], held[r][2])
    /\ UNCHANGED <<senderVars, rest, held, endedBy, faultVars, scenario>>

ForwardExpire(r) ==
    /\ rpc[r] = "forward_ttl" /\ ExpireKey(held[r][1])
    /\ Ends(r, held[r][1], held[r][2]) /\ held' = [held EXCEPT ![r] = NoMsg]
    /\ UNCHANGED <<senderVars, faultVars, scenario>>

\* lpop finds nothing, or the timeout of blpop passes: recv_all ends.
NothingThere(r) ==
    /\ rpc[r] = "recv" /\ ~ recv[r].waits /\ NonEmpty(r) = {}
    /\ RGoto(r, "done")
    /\ UNCHANGED <<redisVars, senderVars, rest, held, endedBy, faultVars, scenario>>

Kill(r) ==
    /\ rpc[r] \notin {"done", "raised", "killed"}
    /\ kills < MaxKills /\ kills' = kills + 1
    /\ RGoto(r, "killed")
    /\ UNCHANGED <<redisVars, senderVars, rest, held, endedBy, expiries, scenario>>

-----------------------------------------------------------------------------
SendStep(s) == \/ Start(s) \/ NextItem(s) \/ WaitNoFull(s) \/ PushItem(s) \/ ExpireItem(s)
               \/ ExpireEnd(s) \/ PushEnd(s) \/ NoEnd(s)
RecvStep(r) == Receive(r) \/ Forward(r) \/ ForwardExpire(r) \/ NothingThere(r)

Next == \/ \E s \in Senders : SendStep(s)
        \/ \E r \in Receivers : RecvStep(r) \/ Kill(r)
        \/ \E k \in Keys : Expired(k)

\* Processes run, and redis serves blocked clients in the order they came: a
\* receiver for which there is data again and again gets some.
Fairness == /\ \A s \in Senders : WF_vars(SendStep(s))
            /\ \A r \in Receivers : SF_vars(RecvStep(r))

Spec == Init /\ [][Next]_vars
FairSpec == Spec /\ Fairness
-----------------------------------------------------------------------------
(* Properties. *)

TypeOK ==
    /\ scenario \in Scenarios
    /\ queue \in [Keys -> Seq(Messages)] /\ expires \in [Keys -> BOOLEAN]
    /\ \A k \in Keys : expires[k] => queue[k] # <<>>
    /\ spc \in [Senders -> {"start", "item", "wait", "push", "item_ttl", "end", "end_cmd", "done"}]
    /\ sent \in [Senders -> Nat] /\ \A s \in Senders : sent[s] <= Len(Send[s].items)
    /\ \A s \in Senders : spc[s] \in {"wait", "push", "item_ttl"} =>
          sent[s] < Len(Send[s].items) /\ Item(s) \in Keys
    /\ prev \in [Senders -> Nat \union {-1}] /\ same \in [Senders -> 0..TimeoutReads]
    /\ rpc \in [Receivers -> {"recv", "forward", "forward_ttl", "done", "raised", "killed"}]
    /\ rest \in [Receivers -> Seq(Keys)]
    /\ held \in [Receivers -> (Keys \X Messages) \union {NoMsg}]
    /\ \A r \in Receivers : rpc[r] \in {"forward", "forward_ttl"} => held[r] \in Keys \X Messages
    /\ endedBy \in [Receivers -> Messages \union {NoMsg}]
    /\ kills \in 0..MaxKills /\ expiries \in 0..MaxExpiries

ItemsIn(k) == {i \in DOMAIN queue[k] : queue[k][i].kind = "item"}
SendersTo(k) == {s \in Senders : \E n \in DOMAIN Send[s].items : Send[s].items[n] = k}
\* What the senders of k push between two of their checks.
Unchecked(k) == UNION {{s} \X (1 .. Send[s].step) : s \in SendersTo(k)}

\* When every sender of a key bounds it and uses no other key, the list stays
\* below the largest bound plus what each sender pushes between two checks
\* (RedisQueue.py:245-257): the check and the push are two calls, and only
\* every check_queue_step-th item is checked.  (The types are part of it.)
QueueBounded ==
    TypeOK /\ \A k \in Keys :
        (\A s \in SendersTo(k) : Send[s].max > 0 /\ \A n \in DOMAIN Send[s].items : Send[s].items[n] = k)
        => \/ ItemsIn(k) = {}
           \/ \E s \in SendersTo(k) :
                 Cardinality(ItemsIn(k)) <= Send[s].max + Cardinality(Unchecked(k))

\* A receiver that stops at an end command leaves no item of that sender in the
\* list, for whatever number of receivers pop and forward (RedisQueue.py:145-168).
EndMeansTaken ==
    \A r \in Receivers : endedBy[r] # NoMsg /\ endedBy[r].kind = "end" =>
        \A i \in DOMAIN queue[Send[endedBy[r].s].key] :
            LET m == queue[Send[endedBy[r].s].key][i] IN m.s = endedBy[r].s => m.kind # "item"

Over(r) == rpc[r] \in {"done", "raised", "killed"}
\* A command was lost with the receiver that was to forward it, or with its key.
CommandLost == expiries > 0 \/ \E r \in Receivers : held[r] # NoMsg /\ rpc[r] \in {"killed", "raised"}
\* A receiver takes commands of a kind another receiver of the key waits for.
Swallowed == \E r, q \in Receivers : /\ EndTypes(r) # EndTypes(q)
                                     /\ Range(recv[r].keys) \intersect Range(recv[q].keys) # {}

\* Every receiver stops: one end command with a ttl ends all the receivers of
\* its list (RedisQueue.py:148-154: "当目标队列存在多个接收任务时, 需设置 end_ttl").
EveryReceiverEnds ==
    \A r \in Receivers : <>(Over(r) \/ CommandLost \/ Swallowed)

\* A sender with a client_timeout returns even when its readers are gone.
SenderReturns ==
    \A s \in Senders : Send[s].client_timeout => <>(spc[s] = "done")
=============================================================================
