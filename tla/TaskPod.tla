------------------------------ MODULE TaskPod -------------------------------
(***************************************************************************)
(* The workers of the tasks of a tree: TaskPod.run_task and its callbacks  *)
(* in smart/auto/exec/task_pod.py, Broadcast.send, and the user functions  *)
(* they run.  The user function of a task without upstream sends items;    *)
(* that of any other task passes on what it receives.  Either may raise.   *)
(* The options send_end_cmd and clean_pip_in have their default, True.     *)
(***************************************************************************)
EXTENDS QueuePip

CONSTANTS
  RestartMax,   \* RestartMax[t]: the N of restart 'on-error:N', 0 for 'no'
  MaxErrors,    \* bound: MaxErrors[t], how often one worker of t raises
  NonBlocking,  \* the tasks that receive with block=False or a timeout
  EarlyReturn   \* the tasks that may leave their recv_data loop early

ASSUME PodAssumption ==
  /\ RestartMax \in [Tasks -> Nat]
  /\ MaxErrors \in [Tasks -> Nat]
  /\ NonBlocking \subseteq Tasks
  /\ EarlyReturn \subseteq Tasks

VARIABLES
  pc,         \* pc[w]: where worker w is
  todo,       \* todo[w]: the puts its Broadcast.send has still to make
  toForward,  \* toForward[w]: the end commands _on_queue_end has still to send
  errors,     \* errors[w]: worker_state.error_count
  failed,     \* failed[w]: _err_cb has let the user function's exception pass
  produced,   \* produced[w]: the items a worker without upstream has sent
  doneCount,  \* doneCount[t]: worker_done_count
  lock,       \* lock[t]: the worker that holds the lock of worker_done_count
  sent,       \* history, sent[t]: the items put for task t
  received    \* history, received[t]: the items recv took from the pip of t

endVars == <<doneCount, lock>>
history == <<sent, received>>
podVars == <<pc, todo, toForward, errors, failed, produced, endVars, history>>

\* Nobody holds the lock.
Free == Main

Locations ==
  {"off",      \* not started
   "task",     \* in the user function
   "rest",     \* in the user function, whose recv a SIGINT has ended for good
   "get",      \* in Queue.get, called by QueuePip.recv
   "send",     \* in Broadcast.send of an item
   "forward",  \* in _on_queue_end
   "done",     \* the user function is over, in the finally of run_task
   "end",      \* in Broadcast.send of end_cmd
   "clean",    \* in _clean_pip_in
   "exit",     \* run_task is over; a process waits for its feeder threads
   "dead"}

PodTypeOK ==
  /\ pc \in [Workers -> Locations]
  /\ todo \in [Workers -> Seq(Tasks \X Messages)]
  /\ toForward \in [Workers -> Nat]
  /\ errors \in [Workers -> Nat]
  /\ failed \in [Workers -> BOOLEAN]
  /\ produced \in [Workers -> 0 .. MaxItems]
  /\ doneCount \in [Tasks -> Nat]
  /\ lock \in [Tasks -> Workers \cup {Free}]
  /\ sent \in [Tasks -> SUBSET Items]
  /\ received \in [Tasks -> SUBSET Items]

PodInit ==
  /\ pc = [w \in Workers |-> "off"]
  /\ todo = [w \in Workers |-> <<>>]
  /\ toForward = [w \in Workers |-> 0]
  /\ errors = [w \in Workers |-> 0]
  /\ failed = [w \in Workers |-> FALSE]
  /\ produced = [w \in Workers |-> 0]
  /\ doneCount = [t \in Tasks |-> 0]
  /\ lock = [t \in Tasks |-> Free]
  /\ sent = [t \in Tasks |-> {}]
  /\ received = [t \in Tasks |-> {}]

At(w, l) == pc[w] = l
GoTo(w, l) == pc' = [pc EXCEPT ![w] = l]

(***************************************************************************)
(* The user function                                                       *)
(***************************************************************************)

\* Broadcast.send(m) is entered: m is for every downstream pip, in order.
Broadcast(w, m) ==
  todo' = [todo EXCEPT ![w] =
             [i \in DOMAIN Nexts[w[1]] |-> <<Nexts[w[1]][i], m>>]]

\* send_data(x) in the user function.
SendData(w, x) ==
  /\ Broadcast(w, Data(x))
  /\ GoTo(w, IF Nexts[w[1]] = <<>> THEN "task" ELSE "send")

\* A task without upstream sends its next item.
Produce(w) ==
  /\ At(w, "task")
  /\ ~ HasUpstream(w[1])
  /\ produced[w] < MaxItems
  /\ produced' = [produced EXCEPT ![w] = @ + 1]
  /\ SendData(w, <<w, produced[w] + 1>>)
  /\ UNCHANGED <<pipVars, toForward, errors, failed, endVars, history>>

\* One turn of the loop of Broadcast.send: the message is put in a pip.
PutNext(w) ==
  /\ todo[w] # <<>>
  /\ Put(Home(w), Head(todo[w])[1], Head(todo[w])[2])
  /\ todo' = [todo EXCEPT ![w] = Tail(@)]

SendNext(w) ==
  /\ At(w, "send")
  /\ PutNext(w)
  /\ sent' = [sent EXCEPT ![Head(todo[w])[1]] = @ \cup {Head(todo[w])[2].item}]
  /\ GoTo(w, IF Tail(todo[w]) = <<>> THEN "task" ELSE "send")
  /\ UNCHANGED <<toForward, errors, failed, produced, endVars, received>>

\* The head of the loop of QueuePip.recv: is_ended is not set, get is called.
StartGet(w) ==
  /\ At(w, "task")
  /\ HasUpstream(w[1])
  /\ ~ isEnded[Home(w)][w[1]]
  /\ GoTo(w, "get")
  /\ UNCHANGED <<pipVars, todo, toForward, errors, failed, produced, endVars,
                 history>>

\* An item is received and passed on.
ReceiveItem(w) ==
  /\ At(w, "get")
  /\ \E x \in Items :
       /\ RecvItem(w[1], x)
       /\ received' = [received EXCEPT ![w[1]] = @ \cup {x}]
       /\ SendData(w, x)
  /\ UNCHANGED <<toForward, errors, failed, produced, endVars, sent>>

\* Mutant of Forwards: one end too few.
ForwardsTooFew(t, cmd) ==
  IF Inline(t) \/ cmd.no_forward \/ WorkerNum[t] < 2 THEN 0 ELSE WorkerNum[t] - 2

\* The ends _on_queue_end forwards: on_end is set for tasks with worker_num.
Forwards(t, cmd) ==
  IF Inline(t) \/ cmd.no_forward THEN 0 ELSE WorkerNum[t] - 1

ReceiveEnd(w) ==
  LET n == Forwards(w[1], Head(pipe[w[1]]))
  IN /\ At(w, "get")
     /\ RecvEnd(Home(w), w[1])
     /\ toForward' = [toForward EXCEPT ![w] = n]
     /\ GoTo(w, IF n = 0 THEN "task" ELSE "forward")
     /\ UNCHANGED <<todo, errors, failed, produced, endVars, history>>

\* One turn of the loop of _on_queue_end: an end for another worker of the task.
Forward(w) ==
  /\ At(w, "forward")
  /\ Put(Home(w), w[1], ForwardedEnd)
  /\ toForward' = [toForward EXCEPT ![w] = @ - 1]
  /\ GoTo(w, IF toForward[w] = 1 THEN "task" ELSE "forward")
  /\ UNCHANGED <<todo, errors, failed, produced, endVars, history>>

\* get raises Empty, which ends the generator (end_on_timeout is True).
GetEmpty(w) ==
  /\ At(w, "get")
  /\ w[1] \in NonBlocking
  /\ pipe[w[1]] = <<>>
  /\ GoTo(w, "done")
  /\ UNCHANGED <<pipVars, todo, toForward, errors, failed, produced, endVars,
                 history>>

\* The user function returns.
Return(w) ==
  /\ \/ At(w, "rest")
     \/ /\ At(w, "task")
        /\ \/ ~ HasUpstream(w[1])
           \/ isEnded[Home(w)][w[1]]
           \/ w[1] \in EarlyReturn
  /\ GoTo(w, "done")
  /\ UNCHANGED <<pipVars, todo, toForward, errors, failed, produced, endVars,
                 history>>

\* Mutant of Fail: `<' for `<=' in the test of the restart policy.
FailOnceLess(w) ==
  LET restarts == errors[w] + 1 < RestartMax[w[1]]
  IN /\ pc[w] \in {"task", "rest"}
     /\ errors[w] < MaxErrors[w[1]]
     /\ errors' = [errors EXCEPT ![w] = @ + 1]
     /\ failed' = [failed EXCEPT ![w] = ~ restarts]
     /\ GoTo(w, IF restarts THEN pc[w] ELSE "done")
     /\ UNCHANGED <<pipVars, todo, toForward, produced, endVars, history>>

\* The user function raises; _err_cb decides whether it is run again.  recv has no
\* queue any more once a SIGINT has ended it, and yields nothing when it is.
Fail(w) ==
  LET restarts == errors[w] + 1 <= RestartMax[w[1]]
  IN /\ pc[w] \in {"task", "rest"}
     /\ errors[w] < MaxErrors[w[1]]
     /\ errors' = [errors EXCEPT ![w] = @ + 1]
     /\ failed' = [failed EXCEPT ![w] = ~ restarts]
     /\ GoTo(w, IF restarts THEN pc[w] ELSE "done")
     /\ UNCHANGED <<pipVars, todo, toForward, produced, endVars, history>>

(***************************************************************************)
(* The end of a worker                                                     *)
(***************************************************************************)

\* Mutants of WorkerDone: the test is off by one; the lock is not held while
\* end_cmd is sent and the pip cleaned.
WorkerDoneEarly(w) ==
  LET t == w[1]
      last == doneCount[t] + 1 >= WorkerNum[t] - 1
  IN /\ At(w, "done")
     /\ ~ Inline(t)
     /\ lock[t] = Free
     /\ doneCount' = [doneCount EXCEPT ![t] = @ + 1]
     /\ IF last
        THEN /\ lock' = [lock EXCEPT ![t] = w]
             /\ Broadcast(w, EndCmd)
             /\ GoTo(w, "end")
        ELSE /\ GoTo(w, "exit")
             /\ UNCHANGED <<lock, todo>>
     /\ UNCHANGED <<pipVars, toForward, errors, failed, produced, history>>

WorkerDoneUnlocked(w) ==
  LET t == w[1]
      last == doneCount[t] + 1 >= WorkerNum[t]
  IN /\ At(w, "done")
     /\ ~ Inline(t)
     /\ doneCount' = [doneCount EXCEPT ![t] = @ + 1]
     /\ IF last THEN Broadcast(w, EndCmd) /\ GoTo(w, "end")
        ELSE GoTo(w, "exit") /\ UNCHANGED todo
     /\ UNCHANGED <<pipVars, toForward, errors, failed, produced, lock, history>>

\* _on_worker_done: the count and its test are one critical section, in which
\* the last worker stays while it sends end_cmd and cleans.
WorkerDone(w) ==
  LET t == w[1]
      last == doneCount[t] + 1 >= WorkerNum[t]
  IN /\ At(w, "done")
     /\ ~ Inline(t)
     /\ lock[t] = Free
     /\ doneCount' = [doneCount EXCEPT ![t] = @ + 1]
     /\ IF last
        THEN /\ lock' = [lock EXCEPT ![t] = w]
             /\ Broadcast(w, EndCmd)
             /\ GoTo(w, "end")
        ELSE /\ GoTo(w, "exit")
             /\ UNCHANGED <<lock, todo>>
     /\ UNCHANGED <<pipVars, toForward, errors, failed, produced, history>>

\* run_task of an inline task sends end_cmd itself (send_end_cmd is True).
InlineDone(w) ==
  /\ At(w, "done")
  /\ Inline(w[1])
  /\ Broadcast(w, EndCmd)
  /\ GoTo(w, "end")
  /\ UNCHANGED <<pipVars, toForward, errors, failed, produced, endVars,
                 history>>

SendEnd(w) ==
  /\ At(w, "end")
  /\ PutNext(w)
  /\ UNCHANGED <<pc, toForward, errors, failed, produced, endVars, history>>

\* end_cmd is sent.  An inline task sets worker_done_count only now, and does
\* not get here when its function raised.
StartClean(w) ==
  LET raises == Inline(w[1]) /\ failed[w]
  IN /\ At(w, "end")
     /\ todo[w] = <<>>
     /\ GoTo(w, IF raises THEN "exit" ELSE "clean")
     /\ doneCount' = IF Inline(w[1]) /\ ~ raises
                     THEN [doneCount EXCEPT ![w[1]] = 1] ELSE doneCount
     /\ UNCHANGED <<pipVars, todo, toForward, errors, failed, produced, lock,
                    history>>

\* _clean_pip_in: what is left in the pip is thrown away ...
Clean(w) ==
  /\ At(w, "clean")
  /\ CleanOne(w[1])
  /\ UNCHANGED podVars

\* ... until get(timeout=.1) finds nothing; then the lock is released.
Cleaned(w) ==
  /\ At(w, "clean")
  /\ pipe[w[1]] = <<>>
  /\ lock' = [lock EXCEPT ![w[1]] = Free]
  /\ GoTo(w, "exit")
  /\ UNCHANGED <<pipVars, todo, toForward, errors, failed, produced,
                 doneCount, history>>

\* A worker process ends when its feeder threads have written everything; a
\* thread, or the inline run of a task, ends at once.
Exit(w) ==
  /\ At(w, "exit")
  /\ Home(w) = w => Flushed(w)
  /\ GoTo(w, "dead")
  /\ UNCHANGED <<pipVars, todo, toForward, errors, failed, produced, endVars,
                 history>>

Feeder(p, t) == Flush(p, t) /\ UNCHANGED podVars

\* What worker w does by itself, all but the choice to raise.
WorkerStep(w) ==
  \/ Produce(w)
  \/ SendNext(w)
  \/ StartGet(w)
  \/ ReceiveItem(w)
  \/ ReceiveEnd(w)
  \/ Forward(w)
  \/ GetEmpty(w)
  \/ Return(w)
  \/ WorkerDone(w)
  \/ InlineDone(w)
  \/ SendEnd(w)
  \/ StartClean(w)
  \/ Clean(w)
  \/ Cleaned(w)
  \/ Exit(w)

(***************************************************************************)
(* What the main process does to a worker                                  *)
(***************************************************************************)

\* worker.start()
StartWorker(w) ==
  /\ At(w, "off")
  /\ GoTo(w, "task")
  /\ UNCHANGED <<pipVars, todo, toForward, errors, failed, produced, endVars,
                 history>>

\* Where w may be in QueuePip.recv: it has called get or on_end, or tests is_ended,
\* or has an item it has not yielded yet.
InRecv(w) ==
  /\ HasUpstream(w[1])
  /\ \/ pc[w] \in {"task", "get", "forward"}
     \/ At(w, "send") /\ Len(todo[w]) = Len(Nexts[w[1]])

\* KeyboardInterrupt where w is.  recv catches it: its generator ends, and the
\* user function goes on behind its loop, without the item.  Elsewhere it leaves
\* the user function, and run_task's finally still counts w; there it leaves
\* run_task, and a lock that is held is released.  A process that waits for its
\* feeders ends without them.
Interrupt(w) ==
  /\ Home(w) = w
  /\ \/ InRecv(w) /\ GoTo(w, "rest")
     \/ pc[w] \in {"task", "send", "rest"} /\ GoTo(w, "done")
     \/ pc[w] \in {"done", "end", "clean"} /\ GoTo(w, "exit")
     \/ At(w, "exit") /\ GoTo(w, "dead")
  /\ todo' = [todo EXCEPT ![w] = <<>>]
  /\ toForward' = [toForward EXCEPT ![w] = 0]
  /\ lock' = IF lock[w[1]] = w THEN [lock EXCEPT ![w[1]] = Free] ELSE lock
  /\ IF At(w, "exit") THEN DropBuffers(w) ELSE UNCHANGED pipVars
  /\ UNCHANGED <<errors, failed, produced, doneCount, history>>
=============================================================================
