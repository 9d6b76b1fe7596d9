------------------------------ MODULE TaskTree ------------------------------
(***************************************************************************)
(* The shape of a task tree: which task feeds which (smart/auto/tree.py,   *)
(* AutoRunner.__init_tree), and the workers each task runs in.             *)
(*                                                                         *)
(* A task t runs in WorkerNum[t] workers, processes or threads.  With      *)
(* worker_num None (0 here) it runs inline in the main process; it is then *)
(* modelled as its one worker <<t, 1>>, whose home is Main.                *)
(***************************************************************************)
EXTENDS Naturals, Sequences, FiniteSets

CONSTANTS
  NTasks,      \* the tasks are 1..NTasks, in the order the tree starts them
  Nexts,       \* Nexts[t]: TreeTask.next_tasks, the order pips were created
  WorkerNum,   \* WorkerNum[t]: the option worker_num, 0 for None
  ThreadMode,  \* the tasks whose worker_mode is 'thread'
  MaxItems     \* bound: how many items a worker without upstream sends

Tasks == 1 .. NTasks

ASSUME TreeAssumption ==
  /\ NTasks \in Nat \ {0}
  /\ Nexts \in [Tasks -> Seq(Tasks)]
  /\ WorkerNum \in [Tasks -> Nat]
  /\ ThreadMode \subseteq Tasks
  /\ MaxItems \in Nat

\* "one upstream task at most" (class docstring of TreeTask), and DagItemsTool
\* sorted the tasks of the tree before it is run.
ASSUME OneUpstream ==
  /\ \A t \in Tasks : \A i \in DOMAIN Nexts[t] : Nexts[t][i] > t
  /\ \A t, u \in Tasks : \A i \in DOMAIN Nexts[t], j \in DOMAIN Nexts[u] :
       Nexts[t][i] = Nexts[u][j] => t = u /\ i = j

Feeds(t, u) == \E i \in DOMAIN Nexts[t] : Nexts[t][i] = u
HasUpstream(u) == \E t \in Tasks : Feeds(t, u)

Inline(t) == WorkerNum[t] = 0
PodSize(t) == IF Inline(t) THEN 1 ELSE WorkerNum[t]
WorkersOf(t) == {t} \X (1 .. PodSize(t))
Workers == UNION {WorkersOf(t) : t \in Tasks}

\* The process a worker runs in, whose copy of every pip object it uses.
Main == <<0, 0>>
Home(w) == IF Inline(w[1]) \/ w[1] \in ThreadMode THEN Main ELSE w
Procs == Workers \cup {Main}

\* The k-th item of a worker without upstream.
Items == Workers \X (1 .. MaxItems)
=============================================================================
