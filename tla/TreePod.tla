------------------------------ MODULE TreePod -------------------------------
(***************************************************************************)
(* The main process of a task tree: TreePod.start and TreePod.join in      *)
(* smart/auto/exec/tree_pod.py, TaskPod.start and TaskPod.join, composed   *)
(* with the workers of TaskPod.                                            *)
(***************************************************************************)
EXTENDS TaskPod

CONSTANTS
  Stoppable,      \* the tasks a before_task hook may flag with stop_task
  MayStopTree,    \* whether such a hook may flag the whole tree (end_all)
  MayInterrupt    \* whether the main process may receive a SIGINT

ASSUME TreePodAssumption ==
  /\ Stoppable \subseteq Tasks
  /\ MayStopTree \in BOOLEAN
  /\ MayInterrupt \in BOOLEAN

VARIABLES
  mainPc,   \* where the main process is
  cursor,   \* the worker it starts, runs inline or joins next
  stopped,  \* the tasks flagged by context.stop_task
  toKill,   \* the workers in some _to_kill_workers
  pending,  \* the workers this round of the kill loop has still to look at
  round,    \* the rounds of the kill loop still to come; 0 once all_done
  signalled \* the workers on their way to which a SIGINT is

mainVars == <<mainPc, cursor, stopped, toKill, pending, round, signalled>>
vars == <<pipVars, podVars, mainVars>>

MainLocations ==
  {"hooks",   \* before_task hooks
   "start",   \* TaskPod.start, pod after pod
   "inline",  \* in run_task of a task without workers
   "join",    \* TaskPod.join, pod after pod
   "after",   \* after_task hooks
   "kill",    \* the two rounds of forceStop
   "end",     \* join has returned
   "raised"}  \* start has raised: nothing is joined and nothing is killed

First == <<1, 1>>
NextPod(w) == <<w[1] + 1, 1>>
NextWorker(w) == IF w[2] < PodSize(w[1]) THEN <<w[1], w[2] + 1>> ELSE NextPod(w)
PastLast == cursor[1] > NTasks

MainTypeOK ==
  /\ mainPc \in MainLocations
  /\ cursor \in (1 .. NTasks + 1) \X (Nat \ {0})
  /\ stopped \subseteq Tasks
  /\ toKill \subseteq Workers
  /\ pending \subseteq Workers
  /\ round \in 0 .. 2
  /\ signalled \subseteq Workers

TypeOK == PipTypeOK /\ PodTypeOK /\ MainTypeOK

Init ==
  /\ PipInit
  /\ PodInit
  /\ mainPc = "hooks"
  /\ cursor = First
  /\ stopped = {}
  /\ toKill = {}
  /\ pending = {}
  /\ round = 2
  /\ signalled = {}

MainGoTo(l) == mainPc' = l

(***************************************************************************)
(* start                                                                   *)
(***************************************************************************)

\* Hooks may flag tasks, or the tree: then no pod is created at all.
BeforeTask ==
  /\ mainPc = "hooks"
  /\ \E S \in SUBSET Stoppable : stopped' = S
  /\ \/ MainGoTo("start") /\ UNCHANGED cursor
     \/ MayStopTree /\ MainGoTo("after") /\ cursor' = <<NTasks + 1, 1>>
  /\ UNCHANGED <<pipVars, podVars, toKill, pending, round, signalled>>

\* TaskPod.start of a flagged task reads its local worker_num, which is not
\* assigned before the line after the branch: start raises.
StartStopped ==
  /\ mainPc = "start"
  /\ ~ PastLast
  /\ cursor[1] \in stopped
  /\ MainGoTo("raised")
  /\ UNCHANGED <<pipVars, podVars, cursor, stopped, toKill, pending, round, signalled>>

\* A task with worker_num: its workers are started one after the other.
StartPodWorker ==
  /\ mainPc = "start"
  /\ ~ PastLast
  /\ cursor[1] \notin stopped
  /\ ~ Inline(cursor[1])
  /\ StartWorker(cursor)
  /\ cursor' = NextWorker(cursor)
  /\ UNCHANGED <<mainPc, stopped, toKill, pending, round, signalled>>

\* A task without worker_num: run_task is called ...
StartInline ==
  /\ mainPc = "start"
  /\ ~ PastLast
  /\ cursor[1] \notin stopped
  /\ Inline(cursor[1])
  /\ StartWorker(cursor)
  /\ MainGoTo("inline")
  /\ UNCHANGED <<cursor, stopped, toKill, pending, round, signalled>>

\* ... and returns, or raises what the user function raised.
EndInline ==
  /\ mainPc = "inline"
  /\ At(cursor, "dead")
  /\ MainGoTo(IF failed[cursor] THEN "raised" ELSE "start")
  /\ cursor' = NextPod(cursor)
  /\ UNCHANGED <<pipVars, podVars, stopped, toKill, pending, round, signalled>>

StartDone ==
  /\ mainPc = "start"
  /\ PastLast
  /\ MainGoTo("join")
  /\ cursor' = First
  /\ UNCHANGED <<pipVars, podVars, stopped, toKill, pending, round, signalled>>

(***************************************************************************)
(* join                                                                    *)
(***************************************************************************)

\* Mutant of IsDone: off by one.
IsAlmostDone(t) == lock[t] = Free /\ doneCount[t] + 1 >= PodSize(t)

\* TaskPod.is_done: reading worker_done_count.value takes its lock.
IsDone(t) == lock[t] = Free /\ doneCount[t] >= PodSize(t)

\* worker.join(5) until the worker is dead, or its pod is done: a worker that
\* is still alive then (its feeders cannot write) will have to be killed.
JoinWorker ==
  /\ mainPc = "join"
  /\ ~ PastLast
  /\ \/ At(cursor, "dead") /\ UNCHANGED toKill
     \/ /\ ~ At(cursor, "dead")
        /\ IsDone(cursor[1])
        /\ toKill' = toKill \cup {cursor}
  /\ cursor' = NextWorker(cursor)
  /\ UNCHANGED <<pipVars, podVars, mainPc, stopped, pending, round, signalled>>

JoinDone ==
  /\ mainPc = "join"
  /\ PastLast
  /\ MainGoTo("after")
  /\ UNCHANGED <<pipVars, podVars, cursor, stopped, toKill, pending, round, signalled>>

\* Mutant of AfterTask: the pods with workers to kill are forgotten.
AfterTaskForgetful ==
  /\ mainPc = "after"
  /\ MainGoTo("kill")
  /\ pending' = {}
  /\ toKill' = {}
  /\ UNCHANGED <<pipVars, podVars, cursor, stopped, round, signalled>>

\* after_task hooks, then the finally of join.
AfterTask ==
  /\ mainPc = "after"
  /\ MainGoTo("kill")
  /\ pending' = toKill
  /\ UNCHANGED <<pipVars, podVars, cursor, stopped, toKill, round, signalled>>

\* Mutant of InterruptJoin: only the pod that is being joined is killed.
InterruptOnePod ==
  /\ MayInterrupt
  /\ mainPc \in {"join", "after"}
  /\ toKill' = {w \in Workers : w[1] = cursor[1] /\ ~ Inline(w[1]) /\ ~ At(w, "off")}
  /\ pending' = toKill'
  /\ MainGoTo("kill")
  /\ UNCHANGED <<pipVars, podVars, cursor, stopped, round, signalled>>

\* KeyboardInterrupt in join: every worker of every pod is to be killed.
InterruptJoin ==
  /\ MayInterrupt
  /\ mainPc \in {"join", "after"}
  /\ toKill' = {w \in Workers : ~ Inline(w[1]) /\ ~ At(w, "off")}
  /\ pending' = toKill'
  /\ MainGoTo("kill")
  /\ UNCHANGED <<pipVars, podVars, cursor, stopped, round, signalled>>

\* KeyboardInterrupt in start is not caught there.
InterruptStart ==
  /\ MayInterrupt
  /\ mainPc = "start"
  /\ MainGoTo("raised")
  /\ UNCHANGED <<pipVars, podVars, cursor, stopped, toKill, pending, round, signalled>>

Stopped(w) == pc[w] \in {"off", "dead"}

\* The kill loop looks at the workers of to_kill_pods in their order; forceStop sends
\* a SIGINT to a process that is alive, and does nothing to a thread.
KillWorker(w) ==
  /\ mainPc = "kill"
  /\ w \in pending
  /\ \A v \in pending : v[1] > w[1] \/ (v[1] = w[1] /\ v[2] >= w[2])
  /\ pending' = pending \ {w}
  /\ signalled' = IF Home(w) = w /\ ~ Stopped(w) THEN signalled \cup {w} ELSE signalled
  /\ UNCHANGED <<pipVars, podVars, mainPc, cursor, stopped, toKill, round>>

\* The SIGINT reaches the process, which may be over by then.
HandleSignal(w) ==
  /\ w \in signalled
  /\ signalled' = signalled \ {w}
  /\ Interrupt(w) \/ (At(w, "dead") /\ UNCHANGED <<pipVars, podVars>>)
  /\ UNCHANGED <<mainPc, cursor, stopped, toKill, pending, round>>

\* After a round in which nobody was alive, or after the second, join is over.
NextRound ==
  /\ mainPc = "kill"
  /\ pending = {}
  /\ IF round = 2 /\ \E w \in toKill : ~ At(w, "dead")
     THEN /\ round' = 1
          /\ pending' = toKill
          /\ UNCHANGED mainPc
     ELSE /\ MainGoTo("end")
          /\ UNCHANGED <<round, pending>>
  /\ UNCHANGED <<pipVars, podVars, cursor, stopped, toKill, signalled>>

MainStep ==
  \/ BeforeTask
  \/ StartStopped
  \/ StartPodWorker
  \/ StartInline
  \/ EndInline
  \/ StartDone
  \/ JoinWorker
  \/ JoinDone
  \/ AfterTask
  \/ \E w \in Workers : KillWorker(w)
  \/ NextRound

\* Everything is over; nothing but stuttering is left.
Terminated ==
  /\ mainPc \in {"end", "raised"}
  /\ \A w \in Workers : Stopped(w) \/ Home(w) = Main
  /\ UNCHANGED vars

Next ==
  \/ \E w \in Workers : WorkerStep(w) /\ UNCHANGED mainVars
  \/ \E w \in Workers : Fail(w) /\ UNCHANGED mainVars
  \/ \E p \in Procs, t \in Tasks : Feeder(p, t) /\ UNCHANGED mainVars
  \/ MainStep
  \/ \E w \in Workers : HandleSignal(w)
  \/ InterruptJoin
  \/ InterruptStart
  \/ Terminated

(***************************************************************************)
(* Fairness.  Every process and thread keeps running and every feeder      *)
(* thread keeps writing (the operating system schedules them), a signal is *)
(* delivered, user functions do not loop for ever, and join(5) returns.    *)
(* Nothing obliges a function to raise, nor anyone to press Ctrl-C.        *)
(***************************************************************************)
Fairness ==
  /\ \A w \in Workers : WF_vars(WorkerStep(w) /\ UNCHANGED mainVars)
  /\ \A p \in Procs, t \in Tasks : WF_vars(Feeder(p, t) /\ UNCHANGED mainVars)
  /\ WF_vars(\E w \in Workers : HandleSignal(w))
  /\ WF_vars(MainStep)

Spec == Init /\ [][Next]_vars
FairSpec == Spec /\ Fairness

(***************************************************************************)
(* Properties                                                              *)
(***************************************************************************)

\* Code past the count of _on_worker_done.
Past(w) == pc[w] \in {"end", "clean", "exit", "dead"}

\* _on_worker_done: whoever sends end_cmd downstream, or cleans the pip of its
\* task, is the last worker of the task: no other worker of it can still send
\* an item after that end_cmd, nor lose an item to that cleaning.
LastWorkerAlone ==
  \A v, w \in Workers :
    v[1] = w[1] /\ v # w /\ pc[v] \in {"end", "clean"}
      => pc[w] \in {"exit", "dead"}

\* The upstream workers of t all send from one process, hence through one
\* feeder: one worker, threads, or an inline task.
OneFeeder(t) ==
  \A u \in Tasks : Feeds(u, t) =>
    \A v, w \in WorkersOf(u) : Home(v) = Home(w)

Ended(t) == \E p \in Procs : isEnded[p][t]

\* The end command tells the truth: when a worker of t has received it, every
\* item sent to t has been received by a worker of t.  It holds for the tasks
\* whose upstream sends through one feeder.
EndMeansAllReceived ==
  \A t \in Tasks : OneFeeder(t) /\ Ended(t) => received[t] = sent[t]

\* When nobody presses Ctrl-C, forceStop meets only workers whose task function
\* is over, and what their feeders have not written no worker can still read.
KillIsHarmless ==
  mainPc = "kill" /\ ~ MayInterrupt =>
    \A w \in toKill :
      /\ pc[w] \in {"exit", "dead"}
      /\ \A t \in Tasks : buf[w][t] # <<>> =>
           \A v \in WorkersOf(t) : pc[v] \in {"exit", "dead"}

\* The user functions of t read until the end: no timeout or return ends their
\* loop before, the restart policy outlasts their failures.
Patient(t) ==
  /\ t \notin NonBlocking \cup EarlyReturn
  /\ MaxErrors[t] <= RestartMax[t]
ReadsToTheEnd(t) == Patient(t) /\ ~ MayInterrupt

\* _clean_pip_in throws no item away, where the upstream has one feeder and the
\* user functions read until the end: it finds nothing but end commands that
\* were forwarded to workers which ended without them.
CleansOnlyEnds ==
  [][\A w \in Workers :
       OneFeeder(w[1]) /\ ReadsToTheEnd(w[1]) /\ Clean(w)
         => Head(pipe[w[1]]).type = "end"]_vars

\* What a step has to wait for: a message, a place in a queue, the lock of the
\* count, room in an OS pipe; for the main process, that a worker is over.
HasRoom(t) == Bounded(t) => slots[t] > 0
CanStep(w) ==
  \/ pc[w] \in {"task", "rest", "clean"}
  \/ At(w, "get") /\ (pipe[w[1]] # <<>> \/ w[1] \in NonBlocking)
  \/ At(w, "send") /\ HasRoom(Head(todo[w])[1])
  \/ At(w, "forward") /\ HasRoom(w[1])
  \/ At(w, "done") /\ (Inline(w[1]) \/ lock[w[1]] = Free)
  \/ At(w, "end") /\ (todo[w] = <<>> \/ HasRoom(Head(todo[w])[1]))
  \/ At(w, "exit") /\ (Home(w) = w => Flushed(w))
CanFlush(p, t) == buf[p][t] # <<>> /\ Len(pipe[t]) < PipeCapacity
MainCanStep ==
  \/ mainPc \in {"hooks", "after", "kill"}
  \/ mainPc = "start" /\ (PastLast \/ cursor[1] \in stopped \/ At(cursor, "off"))
  \/ mainPc = "inline" /\ At(cursor, "dead")
  \/ mainPc = "join" /\ (PastLast \/ At(cursor, "dead") \/ IsDone(cursor[1]))

\* A bounded queue is read to the end, by workers that learn of the end one by
\* one and that are started before any inline task.
BoundsAreServed ==
  \A t \in Tasks : Bounded(t) =>
    /\ Patient(t)
    /\ ~ Inline(t) /\ (t \in ThreadMode => WorkerNum[t] = 1)
    /\ \A u \in Tasks : Inline(u) => t < u

\* The workers of a tree never all wait for each other, nor the main process for
\* them: until join returns, or start raises, somebody can go on, wherever the
\* readers of the bounded queues stay until the end.
NeverStuck ==
  BoundsAreServed /\ mainPc \notin {"end", "raised"} =>
    \/ MainCanStep
    \/ \E w \in Workers : CanStep(w)
    \/ \E p \in Procs, t \in Tasks : CanFlush(p, t)

\* When join has returned, no worker process reads or sends items any more, but
\* one whose SIGINT is still on its way: each is in the rest of its user function
\* after recv was interrupted, in the finally of run_task, or past it.
EndIsNear ==
  mainPc = "end" =>
    \A w \in Workers : Home(w) = w =>
      \/ w \in signalled
      \/ pc[w] \in {"off", "rest", "done", "end", "clean", "exit", "dead"}

\* What holds at the program counters: the cursor is on a worker until it is
\* past the last; puts and forwards are pending where they are made.
CursorOK ==
  /\ ~ PastLast => cursor \in Workers
  /\ mainPc = "inline" => ~ PastLast
SendOK ==
  \A w \in Workers : At(w, "send") => todo[w] \in Seq(Tasks \X [type : {"data"}, item : Items])
ForwardOK == \A w \in Workers : At(w, "forward") => toForward[w] > 0

\* The count of _on_worker_done counts workers that are past it, and who is in
\* its critical section holds its lock.
CountOK ==
  \A t \in Tasks : ~ Inline(t) =>
    doneCount[t] <= Cardinality({w \in WorkersOf(t) : Past(w)})
LockOK ==
  \A w \in Workers :
    ~ Inline(w[1]) /\ pc[w] \in {"end", "clean"} => lock[w[1]] = w

\* The inductive invariant behind TypeOK and LastWorkerAlone.
TreeInv ==
  TypeOK /\ CursorOK /\ SendOK /\ ForwardOK /\ CountOK /\ LockOK /\ LastWorkerAlone

\* The tree ends, whatever the workers do, and no worker process survives it.
TreeEnds == <>(mainPc \in {"end", "raised"})
WorkersStop == <>[](\A w \in Workers : Stopped(w))

\* When join has returned, whoever was still alive was sent a SIGINT: no worker
\* process stays.
JoinMakesSureOfExit ==
  mainPc = "end" ~> \A w \in Workers : Stopped(w)
=============================================================================
