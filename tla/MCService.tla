----------------------------- MODULE MCService -----------------------------
(***************************************************************************)
(* Timed tasks whose interval takes two turns of the loop of sleep.        *)
(***************************************************************************)
EXTENDS Service

Intervals == [t \in TimingTasks |-> 4]
=============================================================================
