---------------------------- MODULE MCKafkaQueue ----------------------------
(***************************************************************************)
(* One topic of two partitions for TLC: j1 fills the first partition and   *)
(* flushes late; j2 sends an item that cannot be decoded, to the partition *)
(* of its key.                                                             *)
(***************************************************************************)
EXTENDS KafkaQueue

CONSTANTS t1, j1, j2

It(r, b) == [topic |-> t1, route |-> r, bad |-> b]
MCJob == (j1 :> [topic |-> t1, items |-> <<It(1, FALSE), It(1, FALSE)>>, step |-> 2, end |-> "end"])
      @@ (j2 :> [topic |-> t1, items |-> <<It(ByKey, TRUE)>>, step |-> 1, end |-> "no"])
Opt(auto, skip, daemon, noWait) ==
    [autoCommit |-> auto, skipErr |-> skip, daemon |-> daemon, noWait |-> noWait]
MCOptions == {Opt(FALSE, TRUE, FALSE, FALSE), Opt(TRUE, FALSE, TRUE, TRUE)}
MCParts == 1..2
MCAskSets == {{t1}}
=============================================================================
