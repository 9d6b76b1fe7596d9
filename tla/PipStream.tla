----------------------------- MODULE PipStream ------------------------------
(***************************************************************************)
(* The pip into one task of a tree as an implementation of DataStream.     *)
(***************************************************************************)
EXTENDS TreePod

CONSTANT Pip   \* a task that has an upstream task

ASSUME PipStreamAssumption == Pip \in Tasks /\ HasUpstream(Pip)

Stream == INSTANCE DataStream WITH
  sent <- sent[Pip],
  received <- received[Pip],
  ended <- Ended(Pip)

\* send_data, recv_data and end_cmd together behave like DataStream: nothing is
\* sent after the end was received, and nothing is missing when it is.
ImplementsDataStream == Stream!StreamSpec
=============================================================================
