--------------------------- MODULE TaskLifecycle ----------------------------
(***************************************************************************)
(* What a client of the task service may rely on when it polls task_info:  *)
(* a task is queued, then running, then done, and only a task that is done *)
(* is removed from the list.  The one exception is a cleaning that comes   *)
(* late and robs a task that is live again: nothing is promised of it.     *)
(***************************************************************************)
CONSTANT Ids

VARIABLE phase   \* phase[id]

Phases == {"absent", "queued", "running", "done", "robbed"}

LifeInit == phase = [id \in Ids |-> "absent"]

Step(id, from, to) ==
  /\ phase[id] = from
  /\ phase' = [phase EXCEPT ![id] = to]

\* A cleaning removes several finished tasks at once; what else it takes, it robs.
Clean ==
  \E removed \in SUBSET {id \in Ids : phase[id] = "done"},
     robbed \in SUBSET {id \in Ids : phase[id] \in {"queued", "running"}} :
    phase' = [id \in Ids |-> CASE id \in removed -> "absent"
                              [] id \in robbed -> "robbed"
                              [] OTHER -> phase[id]]

LifeNext ==
  \/ \E id \in Ids :
       \/ Step(id, "absent", "queued")
       \/ Step(id, "queued", "running")
       \/ Step(id, "running", "done")
       \/ Step(id, "queued", "done")    \* the service was closed meanwhile
  \/ Clean

LifeSpec == LifeInit /\ [][LifeNext]_phase
=============================================================================
