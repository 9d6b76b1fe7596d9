----------------------------- MODULE DataStream -----------------------------
(***************************************************************************)
(* What the pip into a task promises its user functions: recv_data yields  *)
(* what send_data of the upstream task was given, and the generator is     *)
(* ended only when everything was sent and everything was received.        *)
(***************************************************************************)
CONSTANT Items

VARIABLES
  sent,      \* the items given to send_data
  received,  \* the items yielded by recv_data
  ended      \* whether recv_data was told that the stream is over

streamVars == <<sent, received, ended>>

StreamInit ==
  /\ sent = {}
  /\ received = {}
  /\ ended = FALSE

Send ==
  /\ ~ ended
  /\ \E x \in Items : sent' = sent \cup {x}
  /\ UNCHANGED <<received, ended>>

Receive ==
  /\ ~ ended
  /\ \E x \in sent \ received : received' = received \cup {x}
  /\ UNCHANGED <<sent, ended>>

End ==
  /\ received = sent
  /\ ended' = TRUE
  /\ UNCHANGED <<sent, received>>

StreamSpec == StreamInit /\ [][Send \/ Receive \/ End]_streamVars
=============================================================================
