--------------------------- MODULE MCContextStore ---------------------------
(***************************************************************************)
(* Three workers, one of them read only: a dict of counters, one of        *)
(* defaults, and one that is set and deleted without a lock.               *)
(***************************************************************************)
EXTENDS ContextStore, TLC

CONSTANTS counter, default, last, a, b

MCProcs == 1..3
SubSymmetry == Permutations(Subs)
MCOpsOn == (counter :> {"set_fn"}) @@ (default :> {"get_or_set_fn"})
        @@ (last :> {"set", "get", "delete", "delete_key"})
=============================================================================
