---------------------------- MODULE MCRedisQueue ----------------------------
(***************************************************************************)
(* Scenarios for TLC, two senders and two receivers each.                  *)
(***************************************************************************)
EXTENDS RedisQueue

CONSTANTS k1, k2, s1, s2, r1, r2

All(key, items) ==
    [call |-> "send_all", key |-> key, items |-> items, end |-> TRUE, ttl |-> TRUE,
     empty_old |-> FALSE, max |-> 0, step |-> 1, client_timeout |-> FALSE, item_ttl |-> FALSE]
Rcv(keys, multi, daemon) == [keys |-> keys, multi |-> multi, daemon |-> daemon, waits |-> TRUE]
NoRcv == Rcv(<<>>, FALSE, FALSE)

\* Both senders bound k1; one has a client_timeout and ends two receivers.
Bounded ==
    [send |-> (s1 :> [All(k1, <<k1, k1, k1>>) EXCEPT !.max = 1, !.client_timeout = TRUE])
           @@ (s2 :> [All(k1, <<k1, k1>>) EXCEPT !.max = 1, !.step = 2, !.end = FALSE]),
     recv |-> (r1 :> Rcv(<<k1>>, FALSE, FALSE))
           @@ (r2 :> [Rcv(<<k1>>, FALSE, FALSE) EXCEPT !.waits = FALSE])]
\* A receiver of a list of keys, and an exit on the last of them.
ListOfKeys ==
    [send |-> (s1 :> [All(k2, <<k2, NoKey>>) EXCEPT !.ttl = FALSE, !.empty_old = TRUE, !.item_ttl = TRUE])
           @@ (s2 :> [All(k1, <<>>) EXCEPT !.ttl = FALSE, !.call = "send_exit_cmd"]),
     recv |-> (r1 :> Rcv(<<k2, k1>>, TRUE, FALSE)) @@ (r2 :> NoRcv)]
\* Two daemons, which an end does not stop and an exit does.
Daemons ==
    [send |-> (s1 :> All(k1, <<k1>>)) @@ (s2 :> [All(k1, <<>>) EXCEPT !.call = "send_exit_cmd"]),
     recv |-> (r1 :> Rcv(<<k1>>, FALSE, TRUE)) @@ (r2 :> Rcv(<<k1>>, FALSE, TRUE))]
MCScenarios == {Bounded, ListOfKeys, Daemons}
=============================================================================
