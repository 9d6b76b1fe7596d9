--------------------------- MODULE TreePodProofs ----------------------------
(***************************************************************************)
(* Type correctness of the task tree, the safety of the end of a task and  *)
(* the truth of an end command, for every tree, worker number, bound,      *)
(* failure and SIGINT of TreePod.  Pip and its assumption are cited by the *)
(* refinement alone, in the last part.                                     *)
(***************************************************************************)
EXTENDS PipStream, FiniteSetTheorems, SequenceTheorems, TLAPS

(***************************************************************************)
(* Workers and processes                                                   *)
(***************************************************************************)

\* A task has at least one worker.
LEMMA PodSizeIsPositive ==
  ASSUME NEW t \in Tasks
  PROVE  PodSize(t) \in Nat /\ PodSize(t) > 0
BY TreeAssumption DEF PodSize, Inline

\* A worker is a pair of its task and its number.
LEMMA WorkerOfItsTask ==
  ASSUME NEW w \in Workers
  PROVE  /\ w[1] \in Tasks
         /\ w \in WorkersOf(w[1])
         /\ w[2] \in 1 .. PodSize(w[1])
         /\ Home(w) \in Procs
<1>1. PICK t \in Tasks : w \in {t} \X (1 .. PodSize(t))
  BY DEF Workers, WorkersOf
<1>2. w[1] = t /\ w[2] \in 1 .. PodSize(t)
  BY <1>1
<1>3. Home(w) \in Procs
  BY DEF Home, Procs
<1> QED
  BY <1>1, <1>2, <1>3 DEF WorkersOf

\* The workers of a task are finitely many, as many as its pod has.
LEMMA WorkersOfIsFinite ==
  ASSUME NEW t \in Tasks
  PROVE  /\ IsFiniteSet(WorkersOf(t))
         /\ Cardinality(WorkersOf(t)) = PodSize(t)
<1>1. PodSize(t) \in Nat /\ PodSize(t) > 0
  BY PodSizeIsPositive
<1>2. IsFiniteSet(1 .. PodSize(t)) /\ Cardinality(1 .. PodSize(t)) = PodSize(t)
  BY <1>1, FS_Interval
<1>3. IsFiniteSet({t}) /\ Cardinality({t}) = 1
  BY FS_Singleton
<1> QED
  BY <1>1, <1>2, <1>3, FS_Product DEF WorkersOf

\* Main is no worker: no task has the number 0.
LEMMA MainIsNoWorker == Main \notin Workers
BY WorkerOfItsTask DEF Main, Tasks

(***************************************************************************)
(* The steps of a pip keep its types                                       *)
(***************************************************************************)

\* QueuePip.send keeps the types of the pips.
LEMMA PutKeepsTypes ==
  ASSUME PipTypeOK, NEW p \in Procs, NEW t \in Tasks, NEW m \in Messages,
         Put(p, t, m)
  PROVE  PipTypeOK'
<1>1. Append(buf[p][t], m) \in Seq(Messages)
  BY AppendProperties DEF PipTypeOK
<1>2. buf' \in [Procs -> [Tasks -> Seq(Messages)]]
  BY <1>1 DEF Put, PipTypeOK
<1>3. slots' \in [Tasks -> Nat]
  BY DEF Put, PipTypeOK
<1> QED
  BY <1>2, <1>3 DEF Put, PipTypeOK

\* So does a feeder thread,
LEMMA FlushKeepsTypes ==
  ASSUME PipTypeOK, NEW p \in Procs, NEW t \in Tasks, Flush(p, t)
  PROVE  PipTypeOK'
<1>1. buf[p][t] \in Seq(Messages) /\ buf[p][t] # <<>> /\ pipe[t] \in Seq(Messages)
  BY DEF Flush, PipTypeOK
<1>2. Head(buf[p][t]) \in Messages /\ Tail(buf[p][t]) \in Seq(Messages)
  BY <1>1, HeadTailProperties
<1>3. Append(pipe[t], Head(buf[p][t])) \in Seq(Messages)
  BY <1>1, <1>2, AppendProperties
<1>4. buf' \in [Procs -> [Tasks -> Seq(Messages)]]
  BY <1>2 DEF Flush, PipTypeOK
<1>5. pipe' \in [Tasks -> Seq(Messages)]
  BY <1>3 DEF Flush, PipTypeOK
<1> QED
  BY <1>4, <1>5 DEF Flush, PipTypeOK

\* and so does Queue.get.
LEMMA GetKeepsTypes ==
  ASSUME PipTypeOK, NEW t \in Tasks, Get(t)
  PROVE  /\ buf' = buf
         /\ pipe' \in [Tasks -> Seq(Messages)]
         /\ slots' \in [Tasks -> Nat]
         /\ Head(pipe[t]) \in Messages
<1>1. pipe[t] \in Seq(Messages) /\ pipe[t] # <<>>
  BY DEF Get, PipTypeOK
<1>2. Head(pipe[t]) \in Messages /\ Tail(pipe[t]) \in Seq(Messages)
  BY <1>1, HeadTailProperties
<1>3. pipe' \in [Tasks -> Seq(Messages)]
  BY <1>2 DEF Get, PipTypeOK
<1>4. slots' \in [Tasks -> Nat]
  BY DEF Get, PipTypeOK
<1> QED
  BY <1>2, <1>3, <1>4 DEF Get

\* Broadcast.send leaves one put of the message per downstream task.
LEMMA BroadcastKeepsTypes ==
  ASSUME NEW w \in Workers, NEW M, NEW m \in M, Broadcast(w, m),
         todo \in [Workers -> Seq(Tasks \X Messages)], M \subseteq Messages
  PROVE  /\ todo' \in [Workers -> Seq(Tasks \X Messages)]
         /\ todo'[w] \in Seq(Tasks \X M)
         /\ \A v \in Workers : v # w => todo'[v] = todo[v]
<1> DEFINE next == Nexts[w[1]]
           puts == [i \in DOMAIN next |-> <<next[i], m>>]
<1>1. next \in Seq(Tasks)
  BY WorkerOfItsTask, TreeAssumption
<1>2. Len(next) \in Nat /\ DOMAIN next = 1 .. Len(next)
  BY <1>1, LenProperties
<1>3. \A i \in 1 .. Len(next) : <<next[i], m>> \in Tasks \X M
  BY <1>1, ElementOfSeq
<1>4. puts \in Seq(Tasks \X M) /\ puts \in Seq(Tasks \X Messages)
  BY <1>2, <1>3, IsASeq
<1>5. todo' = [todo EXCEPT ![w] = puts]
  BY DEF Broadcast
<1> QED
  BY <1>4, <1>5

(***************************************************************************)
(* Type correctness                                                        *)
(***************************************************************************)

\* What the actions of a worker, and those of the main process, have to keep.
PodPart == PipTypeOK /\ PodTypeOK /\ SendOK /\ ForwardOK
MainPart == MainTypeOK /\ CursorOK

DataMessages == [type : {"data"}, item : Items]

\* Data, end and forwarded end are messages of a pip.
LEMMA MessageTypes ==
  /\ \A x \in Items : Data(x) \in DataMessages
  /\ DataMessages \subseteq Messages
  /\ EndCmd \in Messages /\ ForwardedEnd \in Messages
BY DEF DataMessages, Messages, Data, EndCmd, ForwardedEnd

\* send_data keeps the types and leaves only data to put.
LEMMA SendDataKeepsTypes ==
  ASSUME PodPart, NEW w \in Workers, NEW x \in Items, SendData(w, x),
         toForward' = toForward
  PROVE  /\ todo' \in [Workers -> Seq(Tasks \X Messages)]
         /\ pc' \in [Workers -> Locations]
         /\ SendOK'
         /\ ForwardOK'
<1>1. /\ Data(x) \in DataMessages
      /\ DataMessages \subseteq Messages
      /\ Broadcast(w, Data(x))
      /\ todo \in [Workers -> Seq(Tasks \X Messages)]
  BY MessageTypes DEF SendData, PodPart, PodTypeOK
<1>2. /\ todo' \in [Workers -> Seq(Tasks \X Messages)]
      /\ todo'[w] \in Seq(Tasks \X DataMessages)
      /\ \A v \in Workers : v # w => todo'[v] = todo[v]
  BY <1>1, BroadcastKeepsTypes
<1>3. /\ pc' \in [Workers -> Locations]
      /\ pc'[w] \in {"task", "send"}
      /\ \A v \in Workers : v # w => pc'[v] = pc[v]
  BY DEF SendData, GoTo, PodPart, PodTypeOK, Locations
<1>4. SendOK'
  BY <1>2, <1>3 DEF SendOK, At, PodPart, DataMessages
<1>5. ForwardOK'
  BY <1>3 DEF ForwardOK, At, PodPart
<1> QED
  BY <1>2, <1>3, <1>4, <1>5

\* One put of Broadcast.send keeps the types.
LEMMA PutNextKeepsTypes ==
  ASSUME PodPart, NEW w \in Workers, PutNext(w)
  PROVE  /\ PipTypeOK'
         /\ todo' \in [Workers -> Seq(Tasks \X Messages)]
         /\ Head(todo[w]) \in Tasks \X Messages
         /\ At(w, "send") => Head(todo[w]) \in Tasks \X DataMessages
         /\ At(w, "send") => todo'[w] \in Seq(Tasks \X DataMessages)
         /\ \A v \in Workers : v # w => todo'[v] = todo[v]
<1>1. /\ todo[w] \in Seq(Tasks \X Messages) /\ todo[w] # <<>>
      /\ At(w, "send") => todo[w] \in Seq(Tasks \X DataMessages)
  BY DEF PutNext, PodPart, PodTypeOK, SendOK, DataMessages
<1>2. /\ Head(todo[w]) \in Tasks \X Messages
      /\ Tail(todo[w]) \in Seq(Tasks \X Messages)
  BY <1>1, HeadTailProperties
<1>3. At(w, "send") => /\ Head(todo[w]) \in Tasks \X DataMessages
                       /\ Tail(todo[w]) \in Seq(Tasks \X DataMessages)
  BY <1>1, HeadTailProperties
<1>4. Head(todo[w])[1] \in Tasks /\ Head(todo[w])[2] \in Messages
  BY <1>2
<1>5. PipTypeOK'
  BY <1>4, PutKeepsTypes, WorkerOfItsTask DEF PutNext, PodPart
<1>6. /\ todo' \in [Workers -> Seq(Tasks \X Messages)]
      /\ todo'[w] = Tail(todo[w])
      /\ \A v \in Workers : v # w => todo'[v] = todo[v]
  BY <1>2 DEF PutNext, PodPart, PodTypeOK
<1> QED
  BY <1>2, <1>3, <1>5, <1>6

\* The actions of a worker, one by one: sending an item of its own,
LEMMA ProduceKeepsTypes ==
  ASSUME PodPart, NEW w \in Workers, Produce(w)
  PROVE  PodPart'
<1> DEFINE x == <<w, produced[w] + 1>>
<1>1. x \in Items /\ produced' \in [Workers -> 0 .. MaxItems]
  BY TreeAssumption DEF Produce, PodPart, PodTypeOK, Items
<1>2. SendData(w, x) /\ toForward' = toForward
  BY DEF Produce
<1>3. /\ todo' \in [Workers -> Seq(Tasks \X Messages)]
      /\ pc' \in [Workers -> Locations]
      /\ SendOK' /\ ForwardOK'
  BY <1>1, <1>2, SendDataKeepsTypes
<1>4. PipTypeOK'
  BY DEF Produce, PodPart, PipTypeOK, pipVars
<1>5. PodTypeOK'
  BY <1>1, <1>3 DEF Produce, PodPart, PodTypeOK, endVars, history
<1> QED
  BY <1>3, <1>4, <1>5 DEF PodPart

\* putting an item in the next pip, which SendOK says is an item,
LEMMA SendNextKeepsTypes ==
  ASSUME PodPart, NEW w \in Workers, SendNext(w)
  PROVE  PodPart'
<1> DEFINE put == Head(todo[w])
<1>1. /\ PipTypeOK'
      /\ todo' \in [Workers -> Seq(Tasks \X Messages)]
      /\ put \in Tasks \X DataMessages
      /\ todo'[w] \in Seq(Tasks \X DataMessages)
      /\ \A v \in Workers : v # w => todo'[v] = todo[v]
  BY PutNextKeepsTypes DEF SendNext
<1>2. put[1] \in Tasks /\ put[2].item \in Items
  BY <1>1 DEF DataMessages
<1>3. sent' \in [Tasks -> SUBSET Items]
  BY <1>2 DEF SendNext, PodPart, PodTypeOK
<1>4. /\ pc' \in [Workers -> Locations]
      /\ pc'[w] \in {"task", "send"}
      /\ \A v \in Workers : v # w => pc'[v] = pc[v]
  BY DEF SendNext, GoTo, PodPart, PodTypeOK, Locations
<1>5. PodTypeOK'
  BY <1>1, <1>3, <1>4 DEF SendNext, PodPart, PodTypeOK, endVars
<1>6. SendOK'
  BY <1>1, <1>4 DEF SendOK, At, PodPart, DataMessages
<1>7. ForwardOK'
  BY <1>4 DEF SendNext, ForwardOK, At, PodPart
<1> QED
  BY <1>1, <1>5, <1>6, <1>7 DEF PodPart

\* receiving an item,
LEMMA ReceiveItemKeepsTypes ==
  ASSUME PodPart, NEW w \in Workers, ReceiveItem(w)
  PROVE  PodPart'
<1>1. PICK x \in Items :
        /\ RecvItem(w[1], x)
        /\ received' = [received EXCEPT ![w[1]] = @ \cup {x}]
        /\ SendData(w, x)
  BY DEF ReceiveItem
<1>2. w[1] \in Tasks
  BY WorkerOfItsTask
<1>3. PipTypeOK'
  BY <1>1, <1>2, GetKeepsTypes DEF RecvItem, PodPart, PipTypeOK
<1>4. /\ todo' \in [Workers -> Seq(Tasks \X Messages)]
      /\ pc' \in [Workers -> Locations]
      /\ SendOK' /\ ForwardOK'
  BY <1>1, SendDataKeepsTypes DEF ReceiveItem
<1>5. PodTypeOK'
  BY <1>1, <1>2, <1>4 DEF ReceiveItem, PodPart, PodTypeOK, endVars
<1> QED
  BY <1>3, <1>4, <1>5 DEF PodPart

\* Actions of a worker that put nothing and leave what is to be put.
LEMMA QuietStepKeepsTypes ==
  ASSUME PodPart, NEW w \in Workers,
         StartGet(w) \/ GetEmpty(w) \/ Return(w) \/ Exit(w) \/ StartWorker(w)
  PROVE  PodPart'
<1>1. /\ UNCHANGED <<pipVars, todo, toForward, errors, failed, produced, endVars,
                     history>>
      /\ pc' \in [Workers -> Locations]
      /\ pc'[w] \notin {"send", "forward"}
      /\ \A v \in Workers : v # w => pc'[v] = pc[v]
  BY DEF StartGet, GetEmpty, Return, Exit, StartWorker, GoTo, PodPart, PodTypeOK,
         Locations
<1>2. PipTypeOK'
  BY <1>1 DEF PodPart, PipTypeOK, pipVars
<1>3. PodTypeOK'
  BY <1>1 DEF PodPart, PodTypeOK, endVars, history
<1>4. SendOK' /\ ForwardOK'
  BY <1>1 DEF PodPart, SendOK, ForwardOK, At
<1> QED
  BY <1>2, <1>3, <1>4 DEF PodPart

\* receiving an end, after which there is something to forward or nothing,
LEMMA ReceiveEndKeepsTypes ==
  ASSUME PodPart, NEW w \in Workers, ReceiveEnd(w)
  PROVE  PodPart'
<1> DEFINE n == Forwards(w[1], Head(pipe[w[1]]))
<1>1. w[1] \in Tasks /\ Home(w) \in Procs
  BY WorkerOfItsTask
<1>2. n \in Nat
  BY <1>1, TreeAssumption DEF Forwards, Inline
<1>3. /\ RecvEnd(Home(w), w[1])
      /\ toForward' = [toForward EXCEPT ![w] = n]
      /\ GoTo(w, IF n = 0 THEN "task" ELSE "forward")
      /\ UNCHANGED <<todo, errors, failed, produced, endVars, history>>
  BY DEF ReceiveEnd
<1>4. PipTypeOK'
  BY <1>1, <1>3, GetKeepsTypes DEF RecvEnd, PodPart, PipTypeOK
<1>5. /\ pc' \in [Workers -> Locations]
      /\ pc'[w] \in {"task", "forward"}
      /\ pc'[w] = "forward" => n > 0
      /\ \A v \in Workers : v # w => pc'[v] = pc[v]
  BY <1>2, <1>3 DEF GoTo, PodPart, PodTypeOK, Locations
<1>6. /\ toForward' \in [Workers -> Nat]
      /\ toForward'[w] = n
      /\ \A v \in Workers : v # w => toForward'[v] = toForward[v]
  BY <1>2, <1>3 DEF PodPart, PodTypeOK
<1>7. PodTypeOK'
  BY <1>3, <1>5, <1>6 DEF PodPart, PodTypeOK, endVars, history
<1>8. SendOK' /\ ForwardOK'
  BY <1>3, <1>5, <1>6 DEF PodPart, SendOK, ForwardOK, At
<1> QED
  BY <1>4, <1>7, <1>8 DEF PodPart

\* forwarding an end, which ForwardOK says is one more than none,
LEMMA ForwardKeepsTypes ==
  ASSUME PodPart, NEW w \in Workers, Forward(w)
  PROVE  PodPart'
<1>1. w[1] \in Tasks /\ Home(w) \in Procs
  BY WorkerOfItsTask
<1>2. PipTypeOK'
  BY <1>1, MessageTypes, PutKeepsTypes DEF Forward, PodPart
<1>3. toForward[w] \in Nat /\ toForward[w] > 0
  BY DEF Forward, PodPart, PodTypeOK, ForwardOK
<1>4. /\ toForward' \in [Workers -> Nat]
      /\ toForward'[w] = toForward[w] - 1
      /\ \A v \in Workers : v # w => toForward'[v] = toForward[v]
  BY <1>3 DEF Forward, PodPart, PodTypeOK
<1>5. /\ pc' \in [Workers -> Locations]
      /\ pc'[w] \in {"task", "forward"}
      /\ pc'[w] = "forward" => toForward[w] # 1
      /\ \A v \in Workers : v # w => pc'[v] = pc[v]
  BY DEF Forward, GoTo, PodPart, PodTypeOK, Locations
<1>6. PodTypeOK'
  BY <1>4, <1>5 DEF Forward, PodPart, PodTypeOK, endVars, history
<1>7. SendOK'
  BY <1>5 DEF Forward, PodPart, SendOK, At
<1>8. ForwardOK'
  BY <1>3, <1>4, <1>5 DEF PodPart, ForwardOK, At
<1> QED
  BY <1>2, <1>6, <1>7, <1>8 DEF PodPart

\* raising,
LEMMA FailKeepsTypes ==
  ASSUME PodPart, NEW w \in Workers, Fail(w)
  PROVE  PodPart'
<1>1. PipTypeOK'
  BY DEF Fail, PodPart, PipTypeOK, pipVars
<1>2. /\ pc' \in [Workers -> Locations]
      /\ pc'[w] \in {"task", "rest", "done"}
      /\ \A v \in Workers : v # w => pc'[v] = pc[v]
  BY DEF Fail, GoTo, PodPart, PodTypeOK, Locations
<1>3. errors' \in [Workers -> Nat]
  BY DEF Fail, PodPart, PodTypeOK
<1>4. failed' \in [Workers -> BOOLEAN]
  <2>1. (~ (errors[w] + 1 <= RestartMax[w[1]])) \in BOOLEAN
    OBVIOUS
  <2> QED
    BY <2>1 DEF Fail, PodPart, PodTypeOK
<1>5. PodTypeOK'
  BY <1>2, <1>3, <1>4 DEF Fail, PodPart, PodTypeOK, endVars, history
<1>6. SendOK' /\ ForwardOK'
  BY <1>2 DEF Fail, PodPart, SendOK, ForwardOK, At
<1> QED
  BY <1>1, <1>5, <1>6 DEF PodPart

\* being counted in _on_worker_done,
LEMMA WorkerDoneKeepsTypes ==
  ASSUME PodPart, NEW w \in Workers, WorkerDone(w)
  PROVE  PodPart'
<1>1. PipTypeOK'
  BY DEF WorkerDone, PodPart, PipTypeOK, pipVars
<1>2. /\ pc' \in [Workers -> Locations]
      /\ pc'[w] \in {"end", "exit"}
      /\ \A v \in Workers : v # w => pc'[v] = pc[v]
  BY DEF WorkerDone, GoTo, PodPart, PodTypeOK, Locations
<1>3. /\ todo' \in [Workers -> Seq(Tasks \X Messages)]
      /\ \A v \in Workers : v # w => todo'[v] = todo[v]
  <2>1. CASE Broadcast(w, EndCmd)
    BY <2>1, MessageTypes, BroadcastKeepsTypes DEF PodPart, PodTypeOK
  <2>2. CASE UNCHANGED todo
    BY <2>2 DEF PodPart, PodTypeOK
  <2> QED
    BY <2>1, <2>2 DEF WorkerDone
<1>4. /\ doneCount' \in [Tasks -> Nat]
      /\ lock' \in [Tasks -> Workers \cup {Free}]
  <2>1. doneCount' = [doneCount EXCEPT ![w[1]] = @ + 1]
    BY DEF WorkerDone
  <2>2. lock' = lock \/ lock' = [lock EXCEPT ![w[1]] = w]
    BY DEF WorkerDone
  <2>3. doneCount' \in [Tasks -> Nat]
    <3>1. doneCount \in [Tasks -> Nat] /\ doneCount[w[1]] + 1 \in Nat
      BY WorkerOfItsTask DEF PodPart, PodTypeOK
    <3> QED
      BY <2>1, <3>1
  <2>4. lock' \in [Tasks -> Workers \cup {Free}]
    BY <2>2 DEF PodPart, PodTypeOK
  <2> QED
    BY <2>3, <2>4
<1>5. PodTypeOK'
  BY <1>2, <1>3, <1>4 DEF WorkerDone, PodPart, PodTypeOK, history
<1>6. SendOK' /\ ForwardOK'
  BY <1>2, <1>3 DEF WorkerDone, PodPart, SendOK, ForwardOK, At
<1> QED
  BY <1>1, <1>5, <1>6 DEF PodPart

\* ending an inline task,
LEMMA InlineDoneKeepsTypes ==
  ASSUME PodPart, NEW w \in Workers, InlineDone(w)
  PROVE  PodPart'
<1>1. PipTypeOK'
  BY DEF InlineDone, PodPart, PipTypeOK, pipVars
<1>2. /\ pc' \in [Workers -> Locations]
      /\ pc'[w] = "end"
      /\ \A v \in Workers : v # w => pc'[v] = pc[v]
  BY DEF InlineDone, GoTo, PodPart, PodTypeOK, Locations
<1>3. /\ todo' \in [Workers -> Seq(Tasks \X Messages)]
      /\ \A v \in Workers : v # w => todo'[v] = todo[v]
  BY MessageTypes, BroadcastKeepsTypes DEF InlineDone, PodPart, PodTypeOK
<1>4. PodTypeOK'
  BY <1>2, <1>3 DEF InlineDone, PodPart, PodTypeOK, endVars, history
<1>5. SendOK' /\ ForwardOK'
  BY <1>2, <1>3 DEF InlineDone, PodPart, SendOK, ForwardOK, At
<1> QED
  BY <1>1, <1>4, <1>5 DEF PodPart

\* sending end_cmd,
LEMMA SendEndKeepsTypes ==
  ASSUME PodPart, NEW w \in Workers, SendEnd(w)
  PROVE  PodPart'
<1>1. /\ PipTypeOK'
      /\ todo' \in [Workers -> Seq(Tasks \X Messages)]
      /\ \A v \in Workers : v # w => todo'[v] = todo[v]
  BY PutNextKeepsTypes DEF SendEnd
<1>2. PodTypeOK'
  BY <1>1 DEF SendEnd, PodPart, PodTypeOK, endVars, history
<1>3. SendOK' /\ ForwardOK'
  BY <1>1 DEF SendEnd, PodPart, SendOK, ForwardOK, At
<1> QED
  BY <1>1, <1>2, <1>3 DEF PodPart

\* going on to _clean_pip_in,
LEMMA StartCleanKeepsTypes ==
  ASSUME PodPart, NEW w \in Workers, StartClean(w)
  PROVE  PodPart'
<1>1. PipTypeOK'
  BY DEF StartClean, PodPart, PipTypeOK, pipVars
<1>2. /\ pc' \in [Workers -> Locations]
      /\ pc'[w] \in {"exit", "clean"}
      /\ \A v \in Workers : v # w => pc'[v] = pc[v]
  BY DEF StartClean, GoTo, PodPart, PodTypeOK, Locations
<1>3. doneCount' \in [Tasks -> Nat]
  BY DEF StartClean, PodPart, PodTypeOK
<1>4. PodTypeOK'
  BY <1>2, <1>3 DEF StartClean, PodPart, PodTypeOK, history
<1>5. SendOK' /\ ForwardOK'
  BY <1>2 DEF StartClean, PodPart, SendOK, ForwardOK, At
<1> QED
  BY <1>1, <1>4, <1>5 DEF PodPart

\* cleaning,
LEMMA CleanKeepsTypes ==
  ASSUME PodPart, NEW w \in Workers, Clean(w)
  PROVE  PodPart'
<1>1. PipTypeOK'
  BY WorkerOfItsTask, GetKeepsTypes DEF Clean, CleanOne, PodPart, PipTypeOK
<1>2. PodTypeOK' /\ SendOK' /\ ForwardOK'
  BY DEF Clean, PodPart, PodTypeOK, SendOK, ForwardOK, At, podVars, endVars,
         history
<1> QED
  BY <1>1, <1>2 DEF PodPart

\* and releasing the lock.
LEMMA CleanedKeepsTypes ==
  ASSUME PodPart, NEW w \in Workers, Cleaned(w)
  PROVE  PodPart'
<1>1. PipTypeOK'
  BY DEF Cleaned, PodPart, PipTypeOK, pipVars
<1>2. /\ pc' \in [Workers -> Locations]
      /\ pc'[w] = "exit"
      /\ \A v \in Workers : v # w => pc'[v] = pc[v]
  BY DEF Cleaned, GoTo, PodPart, PodTypeOK, Locations
<1>3. lock' \in [Tasks -> Workers \cup {Free}]
  BY DEF Cleaned, PodPart, PodTypeOK
<1>4. PodTypeOK'
  BY <1>2, <1>3 DEF Cleaned, PodPart, PodTypeOK, history
<1>5. SendOK' /\ ForwardOK'
  BY <1>2 DEF Cleaned, PodPart, SendOK, ForwardOK, At
<1> QED
  BY <1>1, <1>4, <1>5 DEF PodPart

\* The feeder of a process, among the other variables.
LEMMA FeederKeepsTypes ==
  ASSUME PodPart, NEW p \in Procs, NEW t \in Tasks, Feeder(p, t)
  PROVE  PodPart'
<1>1. PipTypeOK'
  BY FlushKeepsTypes DEF Feeder, PodPart
<1>2. PodTypeOK' /\ SendOK' /\ ForwardOK'
  BY DEF Feeder, PodPart, PodTypeOK, SendOK, ForwardOK, At, podVars, endVars,
         history
<1> QED
  BY <1>1, <1>2 DEF PodPart

\* Where a SIGINT takes a worker.
LEMMA InterruptGoes ==
  ASSUME PodPart, NEW w \in Workers, Interrupt(w)
  PROVE  /\ pc' \in [Workers -> Locations]
         /\ \A v \in Workers : v # w => pc'[v] = pc[v]
         /\ \/ pc'[w] = "rest" /\ pc[w] \in {"task", "get", "forward", "send"}
            \/ pc'[w] = "done" /\ pc[w] \in {"task", "send", "rest"}
            \/ pc'[w] = "exit" /\ pc[w] \in {"done", "end", "clean"}
            \/ pc'[w] = "dead" /\ pc[w] = "exit"
<1>1. pc \in [Workers -> Locations]
  BY DEF PodPart, PodTypeOK
<1>2. \/ GoTo(w, "rest") /\ pc[w] \in {"task", "get", "forward", "send"}
      \/ GoTo(w, "done") /\ pc[w] \in {"task", "send", "rest"}
      \/ GoTo(w, "exit") /\ pc[w] \in {"done", "end", "clean"}
      \/ GoTo(w, "dead") /\ pc[w] = "exit"
  BY DEF Interrupt, InRecv, At
<1> QED
  BY <1>1, <1>2 DEF GoTo, Locations

\* A SIGINT leaves a worker at one of its locations.
LEMMA InterruptKeepsTypes ==
  ASSUME PodPart, NEW w \in Workers, Interrupt(w)
  PROVE  PodPart'
<1>1. w \in Procs /\ w[1] \in Tasks
  BY WorkerOfItsTask DEF Procs
<1>2. PipTypeOK'
  <2>1. CASE UNCHANGED pipVars
    BY <2>1 DEF PodPart, PipTypeOK, pipVars
  <2>2. CASE DropBuffers(w)
    <3>1. [t \in Tasks |-> <<>>] \in [Tasks -> Seq(Messages)]
      OBVIOUS
    <3> QED
      BY <1>1, <2>2, <3>1 DEF DropBuffers, PodPart, PipTypeOK
  <2> QED
    BY <2>1, <2>2 DEF Interrupt
<1>3. /\ pc' \in [Workers -> Locations]
      /\ pc'[w] \in {"rest", "done", "exit", "dead"}
      /\ \A v \in Workers : v # w => pc'[v] = pc[v]
  BY InterruptGoes
<1>4. /\ todo' \in [Workers -> Seq(Tasks \X Messages)]
      /\ toForward' \in [Workers -> Nat]
      /\ lock' \in [Tasks -> Workers \cup {Free}]
  <2>1. <<>> \in Seq(Tasks \X Messages)
    BY EmptySeq
  <2>2. todo' \in [Workers -> Seq(Tasks \X Messages)]
    BY <2>1 DEF Interrupt, PodPart, PodTypeOK
  <2>3. toForward' \in [Workers -> Nat]
    BY DEF Interrupt, PodPart, PodTypeOK
  <2>4. lock' \in [Tasks -> Workers \cup {Free}]
    BY DEF Interrupt, PodPart, PodTypeOK
  <2> QED
    BY <2>2, <2>3, <2>4
<1>5. \A v \in Workers : v # w => todo'[v] = todo[v] /\ toForward'[v] = toForward[v]
  BY DEF Interrupt, PodPart, PodTypeOK
<1>6. PodTypeOK'
  BY <1>3, <1>4 DEF Interrupt, PodPart, PodTypeOK, history
<1>7. SendOK' /\ ForwardOK'
  BY <1>3, <1>5 DEF PodPart, SendOK, ForwardOK, At
<1> QED
  BY <1>2, <1>6, <1>7 DEF PodPart

\* No action of a worker, of a feeder or of an interrupt breaks the types.
LEMMA WorkerStepKeepsTypes ==
  ASSUME PodPart, NEW w \in Workers, WorkerStep(w)
  PROVE  PodPart'
BY ProduceKeepsTypes, SendNextKeepsTypes, ReceiveItemKeepsTypes,
   QuietStepKeepsTypes, ReceiveEndKeepsTypes, ForwardKeepsTypes,
   WorkerDoneKeepsTypes, InlineDoneKeepsTypes, SendEndKeepsTypes,
   StartCleanKeepsTypes, CleanKeepsTypes, CleanedKeepsTypes
   DEF WorkerStep

\* The workers are what they were.
LEMMA PodStutterKeepsTypes ==
  ASSUME PodPart, UNCHANGED <<pipVars, podVars>>
  PROVE  PodPart'
BY DEF PodPart, PipTypeOK, PodTypeOK, SendOK, ForwardOK, At, pipVars, podVars,
       endVars, history

\* The main process is where it was.
LEMMA MainStutterKeepsTypes ==
  ASSUME MainPart, UNCHANGED mainVars
  PROVE  MainPart'
BY DEF MainPart, MainTypeOK, CursorOK, PastLast, mainVars

\* The cursor moves from worker to worker, and past the last at the end.
LEMMA CursorMoves ==
  ASSUME NEW w \in Workers
  PROVE  /\ NextWorker(w) \in (1 .. NTasks + 1) \X (Nat \ {0})
         /\ NextPod(w) \in (1 .. NTasks + 1) \X (Nat \ {0})
         /\ NextWorker(w)[1] <= NTasks => NextWorker(w) \in Workers
         /\ NextPod(w)[1] <= NTasks => NextPod(w) \in Workers
<1>1. w[1] \in 1 .. NTasks /\ w[2] \in 1 .. PodSize(w[1]) /\ NTasks \in Nat
  BY WorkerOfItsTask, TreeAssumption DEF Tasks
<1>2. PodSize(w[1]) \in Nat
  BY PodSizeIsPositive, WorkerOfItsTask
<1>3. \A t \in Tasks, i \in Nat : i \in 1 .. PodSize(t) => <<t, i>> \in Workers
  BY DEF Workers, WorkersOf
<1>4. w[1] + 1 <= NTasks => NextPod(w) \in Workers
  BY <1>1, <1>3, PodSizeIsPositive DEF NextPod, Tasks
<1>5. w[2] < PodSize(w[1]) => <<w[1], w[2] + 1>> \in Workers
  BY <1>1, <1>2, <1>3 DEF Tasks
<1> QED
  BY <1>1, <1>2, <1>4, <1>5 DEF NextPod, NextWorker

\* Every tree has a first worker.
LEMMA FirstIsAWorker == First \in Workers
<1>1. 1 \in Tasks
  BY TreeAssumption DEF Tasks
<1>2. PodSize(1) \in Nat /\ PodSize(1) > 0
  BY <1>1, PodSizeIsPositive
<1> QED
  BY <1>1, <1>2 DEF First, Workers, WorkersOf

\* The main process, when it moves its cursor or its program counter only.
LEMMA MainMoves ==
  ASSUME MainPart,
         cursor' \in (1 .. NTasks + 1) \X (Nat \ {0}),
         cursor'[1] <= NTasks => cursor' \in Workers,
         mainPc' \in MainLocations,
         mainPc' = "inline" => cursor'[1] <= NTasks,
         stopped' \subseteq Tasks, toKill' \subseteq Workers,
         pending' \subseteq Workers, round' \in 0 .. 2, signalled' \subseteq Workers
  PROVE  MainPart'
<1>1. NTasks \in Nat /\ cursor'[1] \in Nat
  BY TreeAssumption
<1> QED
  BY <1>1 DEF MainPart, MainTypeOK, CursorOK, PastLast

\* What MainPart says of the cursor, in the form MainMoves wants it.
LEMMA CursorFacts ==
  ASSUME MainPart
  PROVE  /\ NTasks \in Nat
         /\ cursor \in (1 .. NTasks + 1) \X (Nat \ {0})
         /\ PastLast <=> ~ (cursor[1] <= NTasks)
         /\ cursor[1] <= NTasks => cursor \in Workers
         /\ mainPc = "inline" => cursor[1] <= NTasks
<1>1. NTasks \in Nat /\ cursor[1] \in Nat
  BY TreeAssumption DEF MainPart, MainTypeOK
<1> QED
  BY <1>1 DEF MainPart, MainTypeOK, CursorOK, PastLast

\* Steps of the main process that concern no worker.
LEMMA MainAloneKeepsTypes ==
  ASSUME PodPart, MainPart,
         \/ BeforeTask \/ StartStopped \/ EndInline \/ StartDone
         \/ JoinWorker \/ JoinDone \/ AfterTask \/ NextRound
         \/ InterruptJoin \/ InterruptStart
  PROVE  PodPart' /\ MainPart'
<1>1. PodPart'
  BY PodStutterKeepsTypes DEF BeforeTask, StartStopped, EndInline, StartDone,
     JoinWorker, JoinDone, AfterTask, NextRound, InterruptJoin, InterruptStart
<1> USE CursorFacts DEF MainGoTo, MainLocations
<1>2. CASE BeforeTask
  <2>1. Stoppable \subseteq Tasks
    BY TreePodAssumption
  <2>2. stopped' \subseteq Tasks
    BY <1>2, <2>1 DEF BeforeTask
  <2>3. /\ cursor' = cursor \/ cursor' = <<NTasks + 1, 1>>
        /\ mainPc' \in {"start", "after"}
        /\ UNCHANGED <<toKill, pending, round, signalled>>
    BY <1>2 DEF BeforeTask
  <2>4. <<NTasks + 1, 1>> \in (1 .. NTasks + 1) \X (Nat \ {0})
    OBVIOUS
  <2>5. /\ cursor' \in (1 .. NTasks + 1) \X (Nat \ {0})
        /\ cursor'[1] <= NTasks => cursor' \in Workers
    BY <2>3, <2>4
  <2>6. MainPart'
    BY <2>2, <2>3, <2>5, MainMoves DEF MainPart, MainTypeOK
  <2> QED
    BY <1>1, <2>6
<1>3. CASE StartStopped \/ JoinDone \/ InterruptStart
  BY <1>1, <1>3, MainMoves DEF StartStopped, JoinDone, InterruptStart, MainPart,
     MainTypeOK
<1>4. CASE EndInline
  <2>1. cursor \in Workers
    BY <1>4 DEF EndInline
  <2> QED
    BY <1>1, <1>4, <2>1, CursorMoves, MainMoves DEF EndInline, MainPart, MainTypeOK
<1>5. CASE StartDone
  <2>1. First \in (1 .. NTasks + 1) \X (Nat \ {0})
    BY DEF First
  <2> QED
    BY <1>1, <1>5, <2>1, FirstIsAWorker, MainMoves DEF StartDone, MainPart,
       MainTypeOK
<1>6. CASE JoinWorker
  <2>1. cursor \in Workers
    BY <1>6 DEF JoinWorker
  <2>2. toKill' \subseteq Workers
    BY <1>6, <2>1 DEF JoinWorker, MainPart, MainTypeOK
  <2> QED
    BY <1>1, <1>6, <2>1, <2>2, CursorMoves, MainMoves DEF JoinWorker, MainPart,
       MainTypeOK
<1>7. CASE AfterTask \/ InterruptJoin
  BY <1>1, <1>7, MainMoves DEF AfterTask, InterruptJoin, MainPart, MainTypeOK
<1>8. CASE NextRound
  BY <1>1, <1>8, MainMoves DEF NextRound, MainPart, MainTypeOK
<1> QED
  BY <1>2, <1>3, <1>4, <1>5, <1>6, <1>7, <1>8

\* Steps of the main process that start or stop a worker.
LEMMA MainOnWorkerKeepsTypes ==
  ASSUME PodPart, MainPart,
         StartPodWorker \/ StartInline \/ \E w \in Workers : KillWorker(w)
  PROVE  PodPart' /\ MainPart'
<1> USE CursorFacts DEF MainGoTo, MainLocations
<1>1. CASE StartPodWorker
  <2>1. cursor \in Workers /\ StartWorker(cursor)
    BY <1>1 DEF StartPodWorker
  <2>2. PodPart'
    BY <2>1, QuietStepKeepsTypes
  <2>3. MainPart'
    BY <1>1, <2>1, CursorMoves, MainMoves DEF StartPodWorker, MainPart, MainTypeOK
  <2> QED
    BY <2>2, <2>3
<1>2. CASE StartInline
  <2>1. cursor \in Workers /\ StartWorker(cursor)
    BY <1>2 DEF StartInline
  <2>2. PodPart'
    BY <2>1, QuietStepKeepsTypes
  <2>3. MainPart'
    BY <1>2, <2>1, MainMoves DEF StartInline, MainPart, MainTypeOK
  <2> QED
    BY <2>2, <2>3
<1>3. ASSUME NEW w \in Workers, KillWorker(w)
      PROVE  PodPart' /\ MainPart'
  <2>1. PodPart'
    BY <1>3, PodStutterKeepsTypes DEF KillWorker
  <2>2. MainPart'
    BY <1>3, MainMoves DEF KillWorker, MainPart, MainTypeOK
  <2> QED
    BY <2>1, <2>2
<1> QED
  BY <1>1, <1>2, <1>3

\* A SIGINT reaches its process.
LEMMA SignalKeepsTypes ==
  ASSUME PodPart, MainPart, NEW w \in Workers, HandleSignal(w)
  PROVE  PodPart' /\ MainPart'
<1>1. PodPart'
  BY InterruptKeepsTypes, PodStutterKeepsTypes DEF HandleSignal
<1>2. MainPart'
  BY DEF HandleSignal, MainPart, MainTypeOK, CursorOK, PastLast
<1> QED
  BY <1>1, <1>2

\* No step of the tree breaks the types.
LEMMA NextKeepsTypes ==
  ASSUME PodPart, MainPart, [Next]_vars
  PROVE  PodPart' /\ MainPart'
<1>1. CASE \E w \in Workers : WorkerStep(w) /\ UNCHANGED mainVars
  BY <1>1, WorkerStepKeepsTypes, MainStutterKeepsTypes
<1>2. CASE \E w \in Workers : Fail(w) /\ UNCHANGED mainVars
  BY <1>2, FailKeepsTypes, MainStutterKeepsTypes
<1>3. CASE \E p \in Procs, t \in Tasks : Feeder(p, t) /\ UNCHANGED mainVars
  BY <1>3, FeederKeepsTypes, MainStutterKeepsTypes
<1>4. CASE MainStep \/ InterruptJoin \/ InterruptStart
  BY <1>4, MainAloneKeepsTypes, MainOnWorkerKeepsTypes DEF MainStep
<1>5. CASE UNCHANGED vars
  BY <1>5, PodStutterKeepsTypes, MainStutterKeepsTypes DEF vars
<1>6. CASE \E w \in Workers : HandleSignal(w)
  BY <1>6, SignalKeepsTypes
<1> QED
  BY <1>1, <1>2, <1>3, <1>4, <1>5, <1>6 DEF Next, Terminated

\* The tree starts with them.
LEMMA InitHasTypes ==
  ASSUME Init
  PROVE  PodPart /\ MainPart
<1>1. PipTypeOK
  <2>1. [t \in Tasks |-> <<>>] \in [Tasks -> Seq(Messages)]
    OBVIOUS
  <2> QED
    BY <2>1, PipAssumption DEF Init, PipInit, PipTypeOK
<1>2. PodTypeOK
  <2>1. <<>> \in Seq(Tasks \X Messages) /\ 0 \in 0 .. MaxItems
    BY EmptySeq, TreeAssumption
  <2> QED
    BY <2>1 DEF Init, PodInit, PodTypeOK, Locations
<1>3. SendOK /\ ForwardOK
  BY DEF Init, PodInit, SendOK, ForwardOK, At
<1>4. MainPart
  <2>1. First \in (1 .. NTasks + 1) \X (Nat \ {0})
    BY TreeAssumption DEF First
  <2> QED
    BY <2>1, FirstIsAWorker DEF Init, MainPart, MainTypeOK, CursorOK,
       MainLocations
<1> QED
  BY <1>1, <1>2, <1>3, <1>4 DEF PodPart

\* Every variable of every task tree keeps its type: no put, no forward and no
\* move of the cursor leaves the workers, tasks and messages there are.
THEOREM TypeCorrectness == Spec => []TypeOK
<1>1. Init => PodPart /\ MainPart
  BY InitHasTypes
<1>2. PodPart /\ MainPart /\ [Next]_vars => (PodPart /\ MainPart)'
  BY NextKeepsTypes
<1>3. PodPart /\ MainPart => TypeOK
  BY DEF PodPart, MainPart, TypeOK
<1> QED
  BY <1>1, <1>2, <1>3, PTL DEF Spec

(***************************************************************************)
(* The last worker of a task is alone                                      *)
(***************************************************************************)

AloneInv == CountOK /\ LockOK /\ LastWorkerAlone

\* The code in the critical section of _on_worker_done.
Ending == {"end", "clean"}
Gone == {"exit", "dead"}

\* A step in which nobody enters the critical section of _on_worker_done.
CalmStep ==
  /\ \A w \in Workers : pc[w] \in Gone => pc'[w] \in Gone
  /\ \A w \in Workers : Past(w) => Past(w)'
  /\ \A w \in Workers : ~ Inline(w[1]) /\ pc'[w] \in Ending =>
       pc[w] \in Ending /\ lock'[w[1]] = lock[w[1]]
  /\ \A t \in Tasks : ~ Inline(t) => doneCount'[t] = doneCount[t]

\* Two workers of a task: it is no inline task.
LEMMA InlineIsAlone ==
  ASSUME NEW v \in Workers, NEW w \in Workers, v[1] = w[1], v # w
  PROVE  ~ Inline(w[1])
<1> SUFFICES ASSUME Inline(w[1]) PROVE FALSE
  OBVIOUS
<1>1. PodSize(w[1]) = 1
  BY DEF PodSize
<1>2. v \in {w[1]} \X (1 .. 1) /\ w \in {w[1]} \X (1 .. 1)
  BY <1>1, WorkerOfItsTask DEF WorkersOf
<1> QED
  BY <1>2

\* The workers of t that are past the count, and that they can be counted.
PastOf(t) == {w \in WorkersOf(t) : Past(w)}

\* They are finitely many, before and after a step.
LEMMA PastOfIsFinite ==
  ASSUME NEW t \in Tasks
  PROVE  /\ IsFiniteSet(PastOf(t)) /\ Cardinality(PastOf(t)) \in Nat
         /\ IsFiniteSet(PastOf(t)') /\ Cardinality(PastOf(t)') \in Nat
BY WorkersOfIsFinite, FS_Subset, FS_CardinalityType DEF PastOf

\* A calm step keeps the last worker of every task alone.
LEMMA CalmStepKeepsAlone ==
  ASSUME PodPart, AloneInv, CalmStep
  PROVE  AloneInv'
<1>1. CountOK'
  <2> SUFFICES ASSUME NEW t \in Tasks, ~ Inline(t)
               PROVE  doneCount'[t] <= Cardinality(PastOf(t)')
    BY DEF CountOK, PastOf
  <2>1. doneCount'[t] = doneCount[t] /\ doneCount[t] \in Nat
    BY DEF CalmStep, PodPart, PodTypeOK
  <2>2. doneCount[t] <= Cardinality(PastOf(t))
    BY DEF AloneInv, CountOK, PastOf
  <2>3. PastOf(t) \subseteq PastOf(t)'
    BY DEF CalmStep, PastOf, Workers
  <2>4. Cardinality(PastOf(t)) <= Cardinality(PastOf(t)')
    BY <2>3, PastOfIsFinite, FS_Subset
  <2> QED
    BY <2>1, <2>2, <2>4, PastOfIsFinite
<1>2. LockOK'
  BY DEF CalmStep, AloneInv, LockOK, Ending
<1>3. LastWorkerAlone'
  <2> SUFFICES ASSUME NEW v \in Workers, NEW w \in Workers,
                      v[1] = w[1], v # w, pc'[v] \in Ending
               PROVE  pc'[w] \in Gone
    BY DEF LastWorkerAlone, Ending, Gone
  <2>1. pc[v] \in Ending
    BY InlineIsAlone DEF CalmStep
  <2>2. pc[w] \in Gone
    BY <2>1 DEF AloneInv, LastWorkerAlone, Ending, Gone
  <2> QED
    BY <2>2 DEF CalmStep
<1> QED
  BY <1>1, <1>2, <1>3 DEF AloneInv

\* A worker that is in its user function, or comes out of it.
InFunction == {"off", "task", "rest", "get", "send", "forward"}

\* What a worker does up to the end of its user function is calm.
LEMMA FunctionStepIsCalm ==
  ASSUME PodPart, NEW w \in Workers,
         \/ Produce(w) \/ SendNext(w) \/ StartGet(w) \/ ReceiveItem(w)
         \/ ReceiveEnd(w) \/ Forward(w) \/ GetEmpty(w) \/ Return(w)
         \/ Fail(w) \/ StartWorker(w)
  PROVE  CalmStep
<1>1. /\ pc[w] \in InFunction
      /\ pc'[w] \in InFunction \cup {"done"}
      /\ \A v \in Workers : v # w => pc'[v] = pc[v]
  BY DEF Produce, SendNext, StartGet, ReceiveItem, ReceiveEnd, Forward, GetEmpty,
     Return, Fail, StartWorker, SendData, GoTo, At, InFunction, PodPart, PodTypeOK
<1>2. UNCHANGED endVars
  BY DEF Produce, SendNext, StartGet, ReceiveItem, ReceiveEnd, Forward, GetEmpty,
     Return, Fail, StartWorker
<1> QED
  BY <1>1, <1>2 DEF CalmStep, Past, Ending, Gone, InFunction, endVars

\* So is what it does in run_task after the count, but for releasing the lock.
LEMMA EndStepIsCalm ==
  ASSUME PodPart, AloneInv, NEW w \in Workers,
         \/ InlineDone(w) \/ SendEnd(w) \/ StartClean(w) \/ Clean(w)
         \/ Cleaned(w) \/ Exit(w)
  PROVE  CalmStep
<1>1. CASE InlineDone(w)
  <2>1. /\ pc[w] = "done" /\ pc'[w] = "end" /\ Inline(w[1])
        /\ \A v \in Workers : v # w => pc'[v] = pc[v]
        /\ UNCHANGED endVars
    BY <1>1 DEF InlineDone, GoTo, At, PodPart, PodTypeOK
  <2> QED
    BY <2>1 DEF CalmStep, Past, Ending, Gone, endVars
<1>2. CASE SendEnd(w) \/ Clean(w)
  BY <1>2 DEF SendEnd, Clean, CalmStep, Past, Ending, endVars, podVars
<1>3. CASE StartClean(w)
  <2>1. /\ pc[w] = "end" /\ pc'[w] \in {"clean", "exit"} /\ lock' = lock
        /\ \A v \in Workers : v # w => pc'[v] = pc[v]
    BY <1>3 DEF StartClean, GoTo, At, PodPart, PodTypeOK
  <2>2. \A t \in Tasks : ~ Inline(t) => doneCount'[t] = doneCount[t]
    BY <1>3 DEF StartClean, PodPart, PodTypeOK
  <2> QED
    BY <2>1, <2>2 DEF CalmStep, Past, Ending, Gone
<1>4. CASE Cleaned(w)
  <2>1. /\ pc[w] = "clean" /\ pc'[w] = "exit" /\ doneCount' = doneCount
        /\ \A v \in Workers : v # w => pc'[v] = pc[v]
    BY <1>4 DEF Cleaned, GoTo, At, PodPart, PodTypeOK
  <2>2. ASSUME NEW v \in Workers, pc'[v] \in Ending
        PROVE  lock'[v[1]] = lock[v[1]]
    <3>1. v # w /\ pc[v] \in Ending
      BY <2>1, <2>2 DEF Ending
    <3>2. v[1] # w[1]
      BY <2>1, <3>1 DEF AloneInv, LastWorkerAlone, Ending
    <3> QED
      BY <1>4, <3>2, WorkerOfItsTask DEF Cleaned, PodPart, PodTypeOK
  <2> QED
    BY <2>1, <2>2 DEF CalmStep, Past, Ending, Gone
<1>5. CASE Exit(w)
  <2>1. /\ pc[w] = "exit" /\ pc'[w] = "dead" /\ UNCHANGED endVars
        /\ \A v \in Workers : v # w => pc'[v] = pc[v]
    BY <1>5 DEF Exit, GoTo, At, PodPart, PodTypeOK
  <2> QED
    BY <2>1 DEF CalmStep, Past, Ending, Gone, endVars
<1> QED
  BY <1>1, <1>2, <1>3, <1>4, <1>5

\* A SIGINT in the critical section releases the lock of the worker it hits only.
LEMMA InterruptIsCalm ==
  ASSUME PodPart, AloneInv, NEW w \in Workers, Interrupt(w)
  PROVE  CalmStep
<1>1. /\ Past(w) => pc'[w] \in Gone
      /\ pc'[w] \notin Ending
      /\ doneCount' = doneCount
      /\ \A v \in Workers : v # w => pc'[v] = pc[v]
  BY InterruptGoes DEF Interrupt, Past, Ending, Gone
<1>2. ASSUME NEW v \in Workers, ~ Inline(v[1]), pc'[v] \in Ending
      PROVE  lock'[v[1]] = lock[v[1]]
  <2>1. v # w /\ pc[v] \in Ending
    BY <1>1, <1>2
  <2>2. lock[v[1]] = v
    BY <1>2, <2>1 DEF AloneInv, LockOK, Ending
  <2> QED
    BY <2>1, <2>2, WorkerOfItsTask DEF Interrupt, PodPart, PodTypeOK
<1> QED
  BY <1>1, <1>2 DEF CalmStep, Past, Ending, Gone

\* _on_worker_done, the one step that enters the critical section.  The worker
\* that finds itself last knows by the count that all others are past it, and
\* by the lock that none of them is still inside.
LEMMA WorkerDoneKeepsAlone ==
  ASSUME PodPart, AloneInv, NEW w \in Workers, WorkerDone(w)
  PROVE  AloneInv'
<1> DEFINE t == w[1]
           last == doneCount[t] + 1 >= WorkerNum[t]
<1>1. /\ t \in Tasks /\ w \in WorkersOf(t) /\ ~ Inline(t)
      /\ WorkerNum[t] \in Nat /\ WorkerNum[t] = PodSize(t)
      /\ doneCount \in [Tasks -> Nat] /\ doneCount[t] \in Nat
  BY WorkerOfItsTask, TreeAssumption DEF WorkerDone, PodSize, PodPart, PodTypeOK
<1>2. /\ pc[w] = "done"
      /\ pc'[w] = IF last THEN "end" ELSE "exit"
      /\ \A v \in Workers : v # w => pc'[v] = pc[v]
  BY DEF WorkerDone, GoTo, At, PodPart, PodTypeOK
<1>3. /\ lock[t] = Free
      /\ IF last THEN lock' = [lock EXCEPT ![t] = w] ELSE lock' = lock
      /\ doneCount' = [doneCount EXCEPT ![t] = @ + 1]
  BY DEF WorkerDone
<1>4. Past(w)' /\ ~ Past(w)
  BY <1>2 DEF Past
<1>5. \A v \in Workers : v # w => (Past(v)' <=> Past(v))
  BY <1>2 DEF Past
<1>6. CountOK'
  <2> SUFFICES ASSUME NEW u \in Tasks, ~ Inline(u)
               PROVE  doneCount'[u] <= Cardinality(PastOf(u)')
    BY DEF CountOK, PastOf
  <2>1. doneCount[u] <= Cardinality(PastOf(u)) /\ doneCount[u] \in Nat
    BY <1>1 DEF AloneInv, CountOK, PastOf
  <2>2. CASE u = t
    <3>1. PastOf(u)' = PastOf(u) \cup {w} /\ w \notin PastOf(u)
      BY <1>1, <1>4, <1>5, <2>2 DEF PastOf, Workers
    <3>2. Cardinality(PastOf(u)') = Cardinality(PastOf(u)) + 1
      BY <3>1, PastOfIsFinite, FS_AddElement
    <3>3. doneCount'[u] = doneCount[u] + 1
      BY <1>1, <1>3, <2>2
    <3> QED
      BY <2>1, <3>2, <3>3, PastOfIsFinite
  <2>3. CASE u # t
    <3>1. w \notin WorkersOf(u)
      BY <2>3 DEF WorkersOf
    <3>2. PastOf(u)' = PastOf(u)
      BY <1>5, <3>1 DEF PastOf, Workers
    <3>3. doneCount'[u] = doneCount[u]
      BY <1>1, <1>3, <2>3
    <3> QED
      BY <2>1, <3>2, <3>3
  <2> QED
    BY <2>2, <2>3
<1>7. LockOK'
  <2> SUFFICES ASSUME NEW v \in Workers, ~ Inline(v[1]), pc'[v] \in Ending
               PROVE  lock'[v[1]] = v
    BY DEF LockOK, Ending
  <2>1. CASE v = w
    BY <1>1, <1>2, <1>3, <2>1 DEF Ending, PodPart, PodTypeOK
  <2>2. CASE v # w
    <3>1. lock[v[1]] = v
      BY <1>2, <2>2 DEF AloneInv, LockOK, Ending
    <3>2. v # Free
      BY MainIsNoWorker DEF Free
    <3>3. v[1] # t
      BY <1>3, <3>1, <3>2
    <3>4. v[1] \in Tasks /\ lock \in [Tasks -> Workers \cup {Free}]
      BY WorkerOfItsTask DEF PodPart, PodTypeOK
    <3>5. CASE lock' = [lock EXCEPT ![t] = w]
      BY <3>1, <3>3, <3>4, <3>5
    <3>6. CASE lock' = lock
      BY <3>1, <3>6
    <3> QED
      BY <1>3, <3>5, <3>6
  <2> QED
    BY <2>1, <2>2
<1>8. ASSUME NEW v \in Workers, v[1] = t, v # w, last
      PROVE  pc[v] \in Gone
  <2> DEFINE others == WorkersOf(t) \ {w}
  <2>1. IsFiniteSet(others) /\ Cardinality(others) = WorkerNum[t] - 1
    BY <1>1, WorkersOfIsFinite, FS_RemoveElement
  <2>2. PastOf(t) \subseteq others
    BY <1>4 DEF PastOf
  <2>3. Cardinality(PastOf(t)) <= Cardinality(others)
    BY <2>1, <2>2, FS_Subset
  <2>4. doneCount[t] <= Cardinality(PastOf(t))
    BY <1>1 DEF AloneInv, CountOK, PastOf
  <2>5. Cardinality(PastOf(t)) = Cardinality(others)
    BY <1>1, <1>8, <2>1, <2>3, <2>4, PastOfIsFinite
  <2>6. PastOf(t) = others
    BY <2>1, <2>2, <2>5, FS_Subset
  <2>7. Past(v)
    BY <1>8, <2>6, WorkerOfItsTask DEF PastOf
  <2>8. v # Free
    BY MainIsNoWorker DEF Free
  <2>9. pc[v] \notin Ending
    BY <1>1, <1>3, <1>8, <2>8 DEF AloneInv, LockOK, Ending
  <2> QED
    BY <2>7, <2>9 DEF Past, Ending, Gone
<1>9. LastWorkerAlone'
  <2> SUFFICES ASSUME NEW v \in Workers, NEW u \in Workers,
                      v[1] = u[1], v # u, pc'[v] \in Ending
               PROVE  pc'[u] \in Gone
    BY DEF LastWorkerAlone, Ending, Gone
  <2>1. CASE v = w
    BY <1>2, <1>8, <2>1 DEF Ending
  <2>2. CASE v # w
    <3>1. pc[v] \in Ending /\ pc[u] \in Gone
      BY <1>2, <2>2 DEF AloneInv, LastWorkerAlone, Ending, Gone
    <3>2. u # w
      BY <1>2, <3>1 DEF Gone
    <3> QED
      BY <1>2, <3>1, <3>2
  <2> QED
    BY <2>1, <2>2
<1> QED
  BY <1>6, <1>7, <1>9 DEF AloneInv

\* A step in which no worker moves is calm.
LEMMA StutterIsCalm ==
  ASSUME UNCHANGED podVars
  PROVE  CalmStep
BY DEF CalmStep, Past, podVars, endVars

\* No step of the tree brings a second worker into the last one's section.
LEMMA NextKeepsAlone ==
  ASSUME PodPart, MainPart, AloneInv, [Next]_vars
  PROVE  AloneInv'
<1>1. CASE \E w \in Workers : WorkerStep(w) /\ UNCHANGED mainVars
  BY <1>1, FunctionStepIsCalm, EndStepIsCalm, CalmStepKeepsAlone,
     WorkerDoneKeepsAlone DEF WorkerStep
<1>2. CASE \E w \in Workers : Fail(w) /\ UNCHANGED mainVars
  BY <1>2, FunctionStepIsCalm, CalmStepKeepsAlone
<1>3. CASE \E p \in Procs, t \in Tasks : Feeder(p, t) /\ UNCHANGED mainVars
  BY <1>3, StutterIsCalm, CalmStepKeepsAlone DEF Feeder
<1>4. CASE StartPodWorker \/ StartInline
  <2>1. cursor \in Workers /\ StartWorker(cursor)
    BY <1>4, CursorFacts DEF StartPodWorker, StartInline
  <2> QED
    BY <2>1, FunctionStepIsCalm, CalmStepKeepsAlone
<1>5. CASE \E w \in Workers : KillWorker(w) \/ HandleSignal(w)
  BY <1>5, InterruptIsCalm, StutterIsCalm, CalmStepKeepsAlone DEF KillWorker, HandleSignal
<1>6. CASE \/ BeforeTask \/ StartStopped \/ EndInline \/ StartDone
           \/ JoinWorker \/ JoinDone \/ AfterTask \/ NextRound
           \/ InterruptJoin \/ InterruptStart
  BY <1>6, StutterIsCalm, CalmStepKeepsAlone DEF BeforeTask, StartStopped,
     EndInline, StartDone, JoinWorker, JoinDone, AfterTask, NextRound,
     InterruptJoin, InterruptStart
<1>7. CASE UNCHANGED vars
  BY <1>7, StutterIsCalm, CalmStepKeepsAlone DEF vars
<1> QED
  BY <1>1, <1>2, <1>3, <1>4, <1>5, <1>6, <1>7 DEF Next, MainStep, Terminated

\* At the start nobody is in it.
LEMMA InitIsAlone ==
  ASSUME Init
  PROVE  AloneInv
<1>1. CountOK
  <2> SUFFICES ASSUME NEW t \in Tasks
               PROVE  0 <= Cardinality(PastOf(t))
    BY DEF Init, PodInit, CountOK, PastOf
  <2> QED
    BY PastOfIsFinite
<1>2. LockOK /\ LastWorkerAlone
  BY DEF Init, PodInit, LockOK, LastWorkerAlone
<1> QED
  BY <1>1, <1>2 DEF AloneInv

\* The inductive invariant of the tree.
THEOREM TreeInvariance == Spec => []TreeInv
<1>1. Init => PodPart /\ MainPart /\ AloneInv
  BY InitHasTypes, InitIsAlone
<1>2. PodPart /\ MainPart /\ AloneInv /\ [Next]_vars
        => (PodPart /\ MainPart /\ AloneInv)'
  BY NextKeepsTypes, NextKeepsAlone
<1>3. PodPart /\ MainPart /\ AloneInv => TreeInv
  BY DEF PodPart, MainPart, AloneInv, TypeOK, TreeInv
<1> QED
  BY <1>1, <1>2, <1>3, PTL DEF Spec

\* The worker that sends end_cmd, or cleans the pip of its task, is the last one
\* of the task: for any number of workers, of any mode, any failures, and
\* whenever a SIGINT arrives.
THEOREM LastWorkerIsAlone == Spec => []LastWorkerAlone
<1>1. TreeInv => LastWorkerAlone
  BY DEF TreeInv
<1> QED
  BY <1>1, TreeInvariance, PTL

(***************************************************************************)
(* What join leaves to be killed                                           *)
(***************************************************************************)

\* The order in which the cursor visits the workers.
Before(v, w) == v[1] < w[1] \/ (v[1] = w[1] /\ v[2] < w[2])

AllGone == \A w \in Workers : pc[w] \in Gone

\* What the main process knows of the workers: while it starts them, that the
\* inline tasks before the cursor are over; while it joins them, that all inline
\* tasks are over, and that the workers it has joined were dead or in a pod that
\* was done; after that, that nobody is left in its user function, unless a hook
\* kept the tree from being started.
StartOK ==
  mainPc \in {"start", "inline"} =>
    \A w \in Workers : Inline(w[1]) /\ w[1] < cursor[1] => At(w, "dead")
JoinOK ==
  mainPc = "join" =>
    \A w \in Workers : /\ Inline(w[1]) => At(w, "dead")
                       /\ Before(w, cursor) => pc[w] \in Gone
KillOK == mainPc \in {"after", "kill"} /\ ~ MayInterrupt => toKill = {} \/ AllGone

MainInv ==
  /\ mainPc = "hooks" => cursor = First
  /\ mainPc \in {"hooks", "start", "inline"} => toKill = {}
  /\ StartOK
  /\ JoinOK
  /\ KillOK

\* A step in which no worker comes back to life.
FinalStep ==
  /\ \A w \in Workers : pc[w] \in Gone => pc'[w] \in Gone
  /\ \A w \in Workers : At(w, "dead") => At(w, "dead")'

\* No worker step does that, nor a failure, a start or a SIGINT.
LEMMA WorkerStepIsFinal ==
  ASSUME PodPart, NEW w \in Workers,
         WorkerStep(w) \/ Fail(w) \/ StartWorker(w) \/ Interrupt(w)
  PROVE  FinalStep
<1>1. /\ pc' \in [Workers -> Locations]
      /\ \A v \in Workers : v # w => pc'[v] = pc[v]
      /\ pc[w] # "dead"
      /\ pc[w] = "exit" => pc'[w] = "dead"
  <2>1. CASE WorkerStep(w)
    BY <2>1, WorkerStepKeepsTypes DEF WorkerStep, Produce, SendNext, StartGet,
       ReceiveItem, ReceiveEnd, Forward, GetEmpty, Return, WorkerDone, InlineDone,
       SendEnd, StartClean, Clean, Cleaned, Exit, SendData, GoTo, At, podVars,
       PodPart, PodTypeOK
  <2>2. CASE Fail(w)
    BY <2>2, FailKeepsTypes DEF Fail, GoTo, At, PodPart, PodTypeOK
  <2>3. CASE StartWorker(w)
    BY <2>3, QuietStepKeepsTypes DEF StartWorker, GoTo, At, PodPart, PodTypeOK
  <2>4. CASE Interrupt(w)
    BY <2>4, InterruptGoes
  <2> QED
    BY <2>1, <2>2, <2>3, <2>4
<1> QED
  BY <1>1 DEF FinalStep, Gone, At

\* A final step of the workers keeps what the main process knows.
LEMMA FinalStepKeepsMain ==
  ASSUME MainInv, FinalStep, UNCHANGED <<mainPc, cursor, toKill>>
  PROVE  MainInv'
BY DEF MainInv, StartOK, JoinOK, KillOK, AllGone, FinalStep

\* A pod that is done has no worker left in its user function, nor in the
\* critical section of _on_worker_done.
LEMMA DoneMeansGone ==
  ASSUME PodPart, AloneInv, NEW w \in Workers, ~ Inline(w[1]), IsDone(w[1])
  PROVE  pc[w] \in Gone
<1> DEFINE t == w[1]
<1>1. t \in Tasks /\ w \in WorkersOf(t)
  BY WorkerOfItsTask
<1>2. lock[t] = Free /\ doneCount[t] >= PodSize(t)
  BY DEF IsDone
<1>3. /\ IsFiniteSet(WorkersOf(t)) /\ Cardinality(WorkersOf(t)) = PodSize(t)
      /\ PodSize(t) \in Nat /\ doneCount[t] \in Nat
  BY <1>1, WorkersOfIsFinite, PodSizeIsPositive DEF PodPart, PodTypeOK
<1>4. doneCount[t] <= Cardinality(PastOf(t)) /\ Cardinality(PastOf(t)) \in Nat
  BY <1>1, PastOfIsFinite DEF AloneInv, CountOK, PastOf
<1>5. PastOf(t) \subseteq WorkersOf(t)
  BY DEF PastOf
<1>6. Cardinality(PastOf(t)) <= Cardinality(WorkersOf(t))
  BY <1>3, <1>5, FS_Subset
<1>7. Cardinality(PastOf(t)) = Cardinality(WorkersOf(t))
  BY <1>2, <1>3, <1>4, <1>6
<1>8. PastOf(t) = WorkersOf(t)
  BY <1>3, <1>5, <1>7, FS_Subset
<1>9. Past(w)
  BY <1>1, <1>8 DEF PastOf
<1>10. pc[w] \notin Ending
  BY <1>2, MainIsNoWorker DEF AloneInv, LockOK, Ending, Free
<1> QED
  BY <1>9, <1>10 DEF Past, Ending, Gone

\* Where the cursor is after a move, seen from a worker.
LEMMA BeforeNext ==
  ASSUME NEW v \in Workers, NEW w \in Workers
  PROVE  /\ Before(v, NextWorker(w)) => v = w \/ Before(v, w)
         /\ v[1] < NextWorker(w)[1] => v[1] = w[1] \/ v[1] < w[1]
         /\ v[1] < NextPod(w)[1] => v[1] = w[1] \/ v[1] < w[1]
<1>1. /\ v[1] \in Nat /\ v[2] \in Nat /\ w[1] \in Nat /\ w[2] \in Nat
      /\ v = <<v[1], v[2]>> /\ w = <<w[1], w[2]>>
      /\ v[2] \in 1 .. PodSize(v[1]) /\ w[2] \in 1 .. PodSize(w[1])
      /\ PodSize(v[1]) \in Nat
  BY WorkerOfItsTask, PodSizeIsPositive DEF Tasks, WorkersOf
<1>2. CASE w[2] < PodSize(w[1])
  BY <1>1, <1>2 DEF NextWorker, NextPod, Before
<1>3. CASE ~ (w[2] < PodSize(w[1]))
  <2>1. NextWorker(w) = <<w[1] + 1, 1>>
    BY <1>3 DEF NextWorker, NextPod
  <2>2. v[1] = w[1] => v[2] <= w[2]
    BY <1>1, <1>3
  <2> QED
    BY <1>1, <2>1, <2>2 DEF NextPod, Before
<1> QED
  BY <1>2, <1>3

\* The steps of the main process keep what it knows.
LEMMA MainStepKeepsMain ==
  ASSUME PodPart, MainPart, AloneInv, MainInv,
         MainStep \/ InterruptJoin \/ InterruptStart
  PROVE  MainInv'
<1> USE CursorFacts DEF MainGoTo
<1>1. CASE BeforeTask
  <2>1. /\ mainPc = "hooks" /\ mainPc' \in {"start", "after"}
        /\ UNCHANGED <<pc, toKill>>
        /\ mainPc' = "start" => cursor' = cursor
    BY <1>1 DEF BeforeTask, podVars
  <2>2. toKill' = {} /\ (mainPc' = "start" => cursor' = First)
    BY <2>1 DEF MainInv
  <2>3. \A w \in Workers : ~ (w[1] < 1)
    BY WorkerOfItsTask DEF Tasks
  <2> QED
    BY <2>1, <2>2, <2>3 DEF MainInv, StartOK, JoinOK, KillOK, First
<1>2. CASE StartStopped \/ InterruptStart
  BY <1>2 DEF StartStopped, InterruptStart, MainInv, StartOK, JoinOK, KillOK
<1>3. CASE StartPodWorker
  <2>1. cursor \in Workers /\ StartWorker(cursor) /\ ~ Inline(cursor[1])
    BY <1>3 DEF StartPodWorker
  <2>2. FinalStep
    BY <2>1, WorkerStepIsFinal
  <2>3. /\ mainPc = "start" /\ mainPc' = "start" /\ toKill' = toKill
        /\ cursor' = NextWorker(cursor)
    BY <1>3 DEF StartPodWorker
  <2>4. ASSUME NEW w \in Workers, Inline(w[1]), w[1] < cursor'[1]
        PROVE  At(w, "dead")'
    <3>1. w[1] < cursor[1]
      BY <2>1, <2>3, <2>4, BeforeNext
    <3> QED
      BY <2>2, <2>3, <2>4, <3>1 DEF FinalStep, MainInv, StartOK
  <2> QED
    BY <2>3, <2>4 DEF MainInv, StartOK, JoinOK, KillOK
<1>4. CASE StartInline
  <2>1. cursor \in Workers /\ StartWorker(cursor)
    BY <1>4 DEF StartInline
  <2>2. FinalStep
    BY <2>1, WorkerStepIsFinal
  <2> QED
    BY <1>4, <2>2 DEF StartInline, FinalStep, MainInv, StartOK, JoinOK, KillOK
<1>5. CASE EndInline
  <2>1. /\ cursor \in Workers /\ mainPc = "inline" /\ At(cursor, "dead")
        /\ mainPc' \in {"raised", "start"} /\ cursor' = NextPod(cursor)
        /\ UNCHANGED <<pc, toKill>>
    BY <1>5 DEF EndInline, podVars
  <2>2. ASSUME NEW w \in Workers, Inline(w[1]), w[1] < cursor'[1]
        PROVE  At(w, "dead")'
    <3>1. w[1] = cursor[1] \/ w[1] < cursor[1]
      BY <2>1, <2>2, BeforeNext
    <3>2. w[1] = cursor[1] => w = cursor
      BY <2>1, <2>2, InlineIsAlone
    <3> QED
      BY <2>1, <2>2, <3>1, <3>2 DEF MainInv, StartOK, At
  <2> QED
    BY <2>1, <2>2 DEF MainInv, StartOK, JoinOK, KillOK
<1>6. CASE StartDone
  <2>1. /\ mainPc = "start" /\ mainPc' = "join" /\ cursor' = First
        /\ cursor[1] \in Nat /\ cursor[1] > NTasks /\ UNCHANGED <<pc, toKill>>
    BY <1>6 DEF StartDone, PastLast, podVars
  <2>2. ASSUME NEW w \in Workers, Inline(w[1])
        PROVE  At(w, "dead")
    <3>1. w[1] \in 1 .. NTasks
      BY WorkerOfItsTask DEF Tasks
    <3> QED
      BY <2>1, <2>2, <3>1 DEF MainInv, StartOK
  <2>3. ASSUME NEW w \in Workers
        PROVE  ~ Before(w, First)
    BY WorkerOfItsTask DEF Tasks, Before, First
  <2> QED
    BY <2>1, <2>2, <2>3 DEF MainInv, StartOK, JoinOK, KillOK, At
<1>7. CASE JoinWorker
  <2>1. /\ cursor \in Workers /\ mainPc = "join" /\ mainPc' = "join"
        /\ cursor' = NextWorker(cursor) /\ UNCHANGED pc
        /\ At(cursor, "dead") \/ IsDone(cursor[1])
    BY <1>7 DEF JoinWorker, podVars
  <2>2. pc[cursor] \in Gone
    <3>1. Inline(cursor[1]) => At(cursor, "dead")
      BY <2>1 DEF MainInv, JoinOK
    <3> QED
      BY <2>1, <3>1, DoneMeansGone DEF At, Gone
  <2>3. ASSUME NEW w \in Workers, Before(w, cursor')
        PROVE  pc[w] \in Gone
    <3>1. w = cursor \/ Before(w, cursor)
      BY <2>1, <2>3, BeforeNext
    <3> QED
      BY <2>1, <2>2, <3>1 DEF MainInv, JoinOK
  <2>4. ASSUME NEW w \in Workers, Inline(w[1])
        PROVE  At(w, "dead")
    BY <2>1, <2>4 DEF MainInv, JoinOK
  <2> QED
    BY <2>1, <2>3, <2>4 DEF MainInv, StartOK, JoinOK, KillOK, At
<1>8. CASE JoinDone
  <2>1. /\ mainPc = "join" /\ mainPc' = "after" /\ UNCHANGED <<pc, toKill>>
        /\ cursor[1] \in Nat /\ cursor[1] > NTasks
    BY <1>8 DEF JoinDone, PastLast, podVars
  <2>2. AllGone
    <3> SUFFICES ASSUME NEW w \in Workers PROVE pc[w] \in Gone
      BY DEF AllGone
    <3>1. w[1] \in 1 .. NTasks
      BY WorkerOfItsTask DEF Tasks
    <3>2. Before(w, cursor)
      BY <2>1, <3>1 DEF Before
    <3> QED
      BY <2>1, <3>2 DEF MainInv, JoinOK
  <2> QED
    BY <2>1, <2>2 DEF MainInv, StartOK, JoinOK, KillOK, AllGone
<1>9. CASE AfterTask \/ InterruptJoin
  BY <1>9 DEF AfterTask, InterruptJoin, MainInv, StartOK, JoinOK, KillOK, AllGone,
     podVars
<1>10. ASSUME NEW w \in Workers, KillWorker(w)
       PROVE  MainInv'
  <2>1. FinalStep
    BY <1>10 DEF KillWorker, FinalStep, At, podVars
  <2> QED
    BY <1>10, <2>1, FinalStepKeepsMain DEF KillWorker
<1>11. CASE NextRound
  BY <1>11 DEF NextRound, MainInv, StartOK, JoinOK, KillOK, AllGone, podVars
<1> QED
  BY <1>1, <1>2, <1>3, <1>4, <1>5, <1>6, <1>7, <1>8, <1>9, <1>10, <1>11
     DEF MainStep

\* No step of the tree makes it wrong.
LEMMA NextKeepsMain ==
  ASSUME PodPart, MainPart, AloneInv, MainInv, [Next]_vars
  PROVE  MainInv'
<1>1. CASE \E w \in Workers : (WorkerStep(w) \/ Fail(w)) /\ UNCHANGED mainVars
  BY <1>1, WorkerStepIsFinal, FinalStepKeepsMain DEF mainVars
<1>2. CASE \/ \E p \in Procs, t \in Tasks : Feeder(p, t) /\ UNCHANGED mainVars
           \/ UNCHANGED vars
  <2>1. UNCHANGED <<podVars, mainVars>>
    BY <1>2 DEF Feeder, vars
  <2>2. FinalStep
    BY <2>1 DEF FinalStep, At, podVars
  <2> QED
    BY <2>1, <2>2, FinalStepKeepsMain DEF mainVars
<1>3. CASE MainStep \/ InterruptJoin \/ InterruptStart
  BY <1>3, MainStepKeepsMain
<1>4. ASSUME NEW w \in Workers, HandleSignal(w)
      PROVE  MainInv'
  <2>1. FinalStep
    <3>1. CASE Interrupt(w)
      BY <3>1, WorkerStepIsFinal
    <3>2. CASE UNCHANGED podVars
      BY <3>2 DEF FinalStep, At, podVars
    <3> QED
      BY <1>4, <3>1, <3>2 DEF HandleSignal
  <2> QED
    BY <1>4, <2>1, FinalStepKeepsMain DEF HandleSignal
<1> QED
  BY <1>1, <1>2, <1>3, <1>4 DEF Next, Terminated

\* Without a SIGINT from outside, the SIGINTs of forceStop meet only workers whose
\* task function is over, and the messages they lose had no reader left: for any
\* tree, worker number, mode and failures.
THEOREM KillsAreHarmless == Spec => []KillIsHarmless
<1>1. Init => PodPart /\ MainPart /\ AloneInv
  BY InitHasTypes, InitIsAlone
<1>2. Init => MainInv
  BY DEF Init, MainInv, StartOK, JoinOK, KillOK
<1>3. PodPart /\ MainPart /\ AloneInv /\ [Next]_vars
        => (PodPart /\ MainPart /\ AloneInv)'
  BY NextKeepsTypes, NextKeepsAlone
<1>4. PodPart /\ MainPart /\ AloneInv /\ MainInv /\ [Next]_vars => MainInv'
  BY NextKeepsMain
<1>5. PodPart /\ MainPart /\ MainInv => KillIsHarmless
  <2> SUFFICES ASSUME MainPart, MainInv, mainPc = "kill", ~ MayInterrupt,
                      NEW w \in toKill
               PROVE  /\ pc[w] \in Gone
                      /\ \A t \in Tasks : \A v \in WorkersOf(t) : pc[v] \in Gone
    BY DEF KillIsHarmless, Gone
  <2>1. AllGone
    BY DEF MainInv, KillOK
  <2>2. w \in Workers /\ \A t \in Tasks : WorkersOf(t) \subseteq Workers
    BY DEF MainPart, MainTypeOK, Workers
  <2> QED
    BY <2>1, <2>2 DEF AllGone
<1> QED
  BY <1>1, <1>2, <1>3, <1>4, <1>5, PTL DEF Spec

-----------------------------------------------------------------------------
(***************************************************************************)
(* The pip into a task implements DataStream, and its end command tells    *)
(* the truth, where the upstream task sends through one feeder.            *)
(***************************************************************************)

(***************************************************************************)
(* The messages of a buffer, or of a pipe                                  *)
(***************************************************************************)

HasEnd(s) == \E i \in DOMAIN s : s[i].type = "end"
DataOf(s) == {x \in Items : \E i \in DOMAIN s : s[i] = Data(x)}

\* Nothing but ends follows an end.
EndsLast(s) ==
  \A i, j \in DOMAIN s : i < j /\ s[i].type = "end" => s[j].type = "end"

\* A message is an item or an end.
LEMMA MessageKinds ==
  ASSUME NEW m \in Messages
  PROVE  /\ m.type = "end" \/ \E x \in Items : m = Data(x)
         /\ m.type = "end" => \A x \in Items : m # Data(x)
         /\ \A x \in Items : Data(x).type # "end"
BY DEF Messages, Data

\* Nothing is in an empty buffer.
LEMMA NoMessages == ~ HasEnd(<<>>) /\ DataOf(<<>>) = {} /\ EndsLast(<<>>)
BY DEF HasEnd, DataOf, EndsLast

\* A message is appended,
LEMMA AppendMessage ==
  ASSUME NEW s \in Seq(Messages), NEW m \in Messages
  PROVE  /\ HasEnd(Append(s, m)) <=> HasEnd(s) \/ m.type = "end"
         /\ \A x \in Items : x \in DataOf(Append(s, m)) <=> x \in DataOf(s) \/ m = Data(x)
         /\ EndsLast(s) /\ (m.type = "end" \/ ~ HasEnd(s)) => EndsLast(Append(s, m))
<1> DEFINE a == Append(s, m)
<1>1. /\ Len(s) \in Nat /\ DOMAIN s = 1 .. Len(s)
      /\ DOMAIN a = 1 .. (Len(s) + 1)
      /\ a[Len(s) + 1] = m
      /\ \A i \in 1 .. Len(s) : a[i] = s[i]
  BY LenProperties, AppendProperties
<1>2. \A i \in DOMAIN a : i \in DOMAIN s \/ i = Len(s) + 1
  BY <1>1
<1>3. DOMAIN s \subseteq DOMAIN a /\ Len(s) + 1 \in DOMAIN a
  BY <1>1
<1> HIDE DEF a
<1>4. HasEnd(a) <=> HasEnd(s) \/ m.type = "end"
  BY <1>1, <1>2, <1>3 DEF HasEnd
<1>5. \A x \in Items : x \in DataOf(a) <=> x \in DataOf(s) \/ m = Data(x)
  BY <1>1, <1>2, <1>3 DEF DataOf
<1>6. ASSUME EndsLast(s), m.type = "end" \/ ~ HasEnd(s)
      PROVE  EndsLast(a)
  <2> SUFFICES ASSUME NEW i \in DOMAIN a, NEW j \in DOMAIN a, i < j,
                      a[i].type = "end"
               PROVE  a[j].type = "end"
    BY DEF EndsLast
  <2>1. i \in DOMAIN s /\ a[i] = s[i]
    BY <1>1
  <2>2. HasEnd(s) /\ m.type = "end"
    BY <1>6, <2>1 DEF HasEnd
  <2> QED
    BY <1>1, <1>2, <1>6, <2>1, <2>2 DEF EndsLast
<1> QED
  BY <1>4, <1>5, <1>6 DEF a

\* or the first one is taken.
LEMMA TakeMessage ==
  ASSUME NEW s \in Seq(Messages), s # <<>>
  PROVE  /\ Head(s) \in Messages /\ Tail(s) \in Seq(Messages)
         /\ HasEnd(s) <=> Head(s).type = "end" \/ HasEnd(Tail(s))
         /\ \A x \in Items : x \in DataOf(s) <=> Head(s) = Data(x) \/ x \in DataOf(Tail(s))
         /\ EndsLast(s) => /\ EndsLast(Tail(s))
                           /\ Head(s).type = "end" => DataOf(Tail(s)) = {}
<1> DEFINE a == Tail(s)
<1>1. /\ Len(s) \in Nat /\ Len(s) > 0 /\ DOMAIN s = 1 .. Len(s)
      /\ DOMAIN a = 1 .. (Len(s) - 1) /\ a \in Seq(Messages)
      /\ Head(s) = s[1] /\ Head(s) \in Messages
      /\ \A i \in 1 .. (Len(s) - 1) : a[i] = s[i + 1]
  BY LenProperties, HeadTailProperties, EmptySeq
<1>2. \A i \in DOMAIN a : i \in Nat /\ i + 1 \in DOMAIN s /\ 1 < i + 1 /\ a[i] = s[i + 1]
  BY <1>1
<1>3. \A i \in DOMAIN s : i = 1 \/ (i - 1 \in DOMAIN a /\ a[i - 1] = s[i])
  BY <1>1
<1>4. 1 \in DOMAIN s
  BY <1>1
<1> HIDE DEF a
<1>5. HasEnd(s) <=> Head(s).type = "end" \/ HasEnd(a)
  <2>1. HasEnd(s) => Head(s).type = "end" \/ HasEnd(a)
    BY <1>1, <1>3 DEF HasEnd
  <2>2. Head(s).type = "end" => HasEnd(s)
    BY <1>1, <1>4 DEF HasEnd
  <2>3. HasEnd(a) => HasEnd(s)
    BY <1>2 DEF HasEnd
  <2> QED
    BY <2>1, <2>2, <2>3
<1>6. \A x \in Items : x \in DataOf(s) <=> Head(s) = Data(x) \/ x \in DataOf(a)
  <2> SUFFICES ASSUME NEW x \in Items
               PROVE  x \in DataOf(s) <=> Head(s) = Data(x) \/ x \in DataOf(a)
    OBVIOUS
  <2>1. x \in DataOf(s) => Head(s) = Data(x) \/ x \in DataOf(a)
    BY <1>1, <1>3 DEF DataOf
  <2>2. Head(s) = Data(x) => x \in DataOf(s)
    BY <1>1, <1>4 DEF DataOf
  <2>3. x \in DataOf(a) => x \in DataOf(s)
    BY <1>2 DEF DataOf
  <2> QED
    BY <2>1, <2>2, <2>3
<1>7. ASSUME EndsLast(s) PROVE EndsLast(a)
  <2> SUFFICES ASSUME NEW i \in DOMAIN a, NEW j \in DOMAIN a, i < j,
                      a[i].type = "end"
               PROVE  a[j].type = "end"
    BY DEF EndsLast
  <2>1. i + 1 < j + 1
    BY <1>2
  <2> QED
    BY <1>2, <1>7, <2>1 DEF EndsLast
<1>8. ASSUME EndsLast(s), Head(s).type = "end" PROVE DataOf(a) = {}
  <2> SUFFICES ASSUME NEW x \in Items, NEW i \in DOMAIN a, a[i] = Data(x)
               PROVE  FALSE
    BY DEF DataOf
  <2>1. s[i + 1].type = "end"
    BY <1>1, <1>2, <1>4, <1>8 DEF EndsLast
  <2> QED
    BY <1>2, <2>1, MessageKinds DEF Data
<1> QED
  BY <1>1, <1>5, <1>6, <1>7, <1>8 DEF a

(***************************************************************************)
(* The invariant of a pip whose upstream task sends through one feeder     *)
(***************************************************************************)

\* The workers that send to t, and the processes they send from.
Upstream(t) == {w \in Workers : Feeds(w[1], t)}
Feeders(t) == {Home(w) : w \in Upstream(t)}

\* What a worker has still to put goes to the tasks it feeds; it is end_cmd once
\* the worker is counted.
TodoOK ==
  \A w \in Workers : pc[w] \in {"send", "end"} =>
    \A i \in DOMAIN todo[w] :
      /\ Feeds(w[1], todo[w][i][1])
      /\ At(w, "end") => todo[w][i][2] = EndCmd

\* Items come from the feeder only.  So do ends, until one was received and is
\* forwarded.
PlaceOK(t) ==
  /\ \A p \in Procs : DataOf(buf[p][t]) # {} => p \in Feeders(t)
  /\ \A p \in Procs : HasEnd(buf[p][t]) => p \in Feeders(t) \/ Ended(t)
  /\ \A w \in WorkersOf(t) : At(w, "forward") => Ended(t)

\* When there is an end, every upstream worker has been counted.
ClosedOK(t) ==
  \/ HasEnd(pipe[t])
  \/ Ended(t)
  \/ \E p \in Procs : HasEnd(buf[p][t])
  => \A w \in Upstream(t) : Past(w)

\* No item follows an end, in a buffer, in the pipe, or from the one to the other.
OrderOK(t) ==
  /\ EndsLast(pipe[t])
  /\ \A p \in Procs : EndsLast(buf[p][t])
  /\ HasEnd(pipe[t]) \/ Ended(t) => \A p \in Procs : DataOf(buf[p][t]) = {}
  /\ Ended(t) => DataOf(pipe[t]) = {}

\* An item on its way, or received, was sent.
SentOK(t) ==
  /\ DataOf(pipe[t]) \subseteq sent[t]
  /\ \A p \in Procs : DataOf(buf[p][t]) \subseteq sent[t]
  /\ received[t] \subseteq sent[t]

\* What was sent is received or on its way; but the last worker of t may throw
\* items away, and a sender that is killed may take some with it, and then
\* nobody is ever told that the stream is over.
Conserved(t) ==
  \A x \in sent[t] :
    \/ x \in received[t]
    \/ x \in DataOf(pipe[t])
    \/ \E p \in Procs : x \in DataOf(buf[p][t])
ReadersOver(t) == \A w \in WorkersOf(t) : pc[w] \in {"clean", "exit", "dead"}
Barren(t) ==
  /\ \A w \in Upstream(t) : At(w, "dead")
  /\ ~ HasEnd(pipe[t])
  /\ \A p \in Procs : ~ HasEnd(buf[p][t])
  /\ ~ Ended(t)
KeptOK(t) ==
  /\ Ended(t) => received[t] = sent[t]
  /\ Ended(t) \/ Conserved(t) \/ ReadersOver(t) \/ Barren(t)

StreamOK(t) == PlaceOK(t) /\ ClosedOK(t) /\ OrderOK(t) /\ SentOK(t) /\ KeptOK(t)
StreamsOK == \A t \in Tasks : OneFeeder(t) => StreamOK(t)

\* A task has one upstream task, and the pips of OneFeeder one feeder.
LEMMA OneUpstreamTask ==
  ASSUME NEW t \in Tasks, NEW v \in Upstream(t), NEW w \in Upstream(t)
  PROVE  v[1] = w[1]
<1>1. v[1] \in Tasks /\ w[1] \in Tasks
  BY WorkerOfItsTask DEF Upstream
<1> QED
  BY <1>1, OneUpstream DEF Upstream, Feeds

LEMMA FeedersAreOne ==
  ASSUME NEW t \in Tasks, OneFeeder(t), NEW p \in Feeders(t), NEW q \in Feeders(t)
  PROVE  p = q
<1>1. PICK v \in Upstream(t) : p = Home(v)
  BY DEF Feeders
<1>2. PICK w \in Upstream(t) : q = Home(w)
  BY DEF Feeders
<1>3. v[1] = w[1]
  BY OneUpstreamTask
<1>4. v[1] \in Tasks /\ v \in WorkersOf(v[1]) /\ w \in WorkersOf(v[1]) /\ Feeds(v[1], t)
  BY <1>3, WorkerOfItsTask DEF Upstream
<1> QED
  BY <1>1, <1>2, <1>4 DEF OneFeeder

(***************************************************************************)
(* What a step may do to the pip of t                                      *)
(***************************************************************************)

\* No worker goes back behind its count, its cleaning or its death.
OverPcs == {"clean", "exit", "dead"}
OnwardStep ==
  \A w \in Workers : /\ Past(w) => Past(w)'
                     /\ pc[w] \in OverPcs => pc'[w] \in OverPcs
                     /\ At(w, "dead") => At(w, "dead")'

SameEnded(t) == \A p \in Procs : isEnded'[p][t] = isEnded[p][t]
SameSent(t) == sent'[t] = sent[t]
SameReceived(t) == received'[t] = received[t]
SamePipe(t) == pipe'[t] = pipe[t]
SameBuffers(t) == \A p \in Procs : buf'[p][t] = buf[p][t]
NoNewForward(t) == \A w \in WorkersOf(t) : At(w, "forward")' => At(w, "forward")

\* A flag that is kept is kept for all.
LEMMA EndedIsKept ==
  ASSUME NEW t, SameEnded(t)
  PROVE  Ended(t)' <=> Ended(t)
BY DEF SameEnded, Ended

\* What OnwardStep says of the workers around t.
LEMMA OnwardAround ==
  ASSUME NEW t \in Tasks, OnwardStep
  PROVE  /\ (\A w \in Upstream(t) : Past(w)) => \A w \in Upstream(t) : Past(w)'
         /\ (\A w \in Upstream(t) : At(w, "dead")) => \A w \in Upstream(t) : At(w, "dead")'
         /\ ReadersOver(t) => ReadersOver(t)'
<1>1. WorkersOf(t) \subseteq Workers /\ Upstream(t) \subseteq Workers
  BY DEF Workers, Upstream
<1> QED
  BY <1>1 DEF OnwardStep, OverPcs, ReadersOver

\* A step that does not concern the pip of t.
LEMMA QuietKeepsStream ==
  ASSUME NEW t \in Tasks, StreamOK(t), OnwardStep, NoNewForward(t),
         SameBuffers(t), SamePipe(t), SameEnded(t), SameSent(t), SameReceived(t)
  PROVE  StreamOK(t)'
<1>1. Ended(t)' <=> Ended(t)
  BY EndedIsKept
<1>2. PlaceOK(t)'
  BY <1>1 DEF StreamOK, PlaceOK, SameBuffers, NoNewForward
<1>3. ClosedOK(t)'
  BY <1>1, OnwardAround DEF StreamOK, ClosedOK, SameBuffers, SamePipe
<1>4. OrderOK(t)'
  BY <1>1 DEF StreamOK, OrderOK, SameBuffers, SamePipe
<1>5. SentOK(t)'
  BY DEF StreamOK, SentOK, SameBuffers, SamePipe, SameSent, SameReceived
<1>6. KeptOK(t)'
  <2>1. Conserved(t) => Conserved(t)'
    BY DEF Conserved, SameBuffers, SamePipe, SameSent, SameReceived
  <2>2. Barren(t) => Barren(t)'
    BY <1>1, OnwardAround DEF Barren, SameBuffers, SamePipe
  <2> QED
    BY <1>1, <2>1, <2>2, OnwardAround DEF StreamOK, KeptOK, SameSent, SameReceived
<1> QED
  BY <1>2, <1>3, <1>4, <1>5, <1>6 DEF StreamOK

\* An upstream worker that is not counted puts an item: there is no end yet.
LEMMA PutDataKeepsStream ==
  ASSUME NEW t \in Tasks, PipTypeOK, StreamOK(t), OnwardStep, NoNewForward(t),
         NEW w \in Upstream(t), ~ Past(w), NEW x \in Items,
         NEW p \in Procs, p = Home(w),
         buf'[p][t] = Append(buf[p][t], Data(x)),
         \A q \in Procs : q # p => buf'[q][t] = buf[q][t],
         sent'[t] = sent[t] \cup {x},
         SamePipe(t), SameEnded(t), SameReceived(t)
  PROVE  StreamOK(t)'
<1>1. Ended(t)' <=> Ended(t)
  BY EndedIsKept
<1>2. /\ ~ Ended(t) /\ ~ HasEnd(pipe[t])
      /\ \A q \in Procs : ~ HasEnd(buf[q][t])
  BY DEF StreamOK, ClosedOK
<1>3. /\ buf[p][t] \in Seq(Messages) /\ Data(x) \in Messages
      /\ Data(x).type # "end"
      /\ \A y \in Items : Data(x) = Data(y) => x = y
  BY MessageTypes, MessageKinds DEF PipTypeOK, Data
<1>4. /\ ~ HasEnd(buf'[p][t])
      /\ EndsLast(buf'[p][t])
      /\ \A y \in Items : y \in DataOf(buf'[p][t]) <=> y \in DataOf(buf[p][t]) \/ y = x
  BY <1>2, <1>3, AppendMessage DEF StreamOK, OrderOK
<1>5. \A q \in Procs : ~ HasEnd(buf'[q][t]) /\ EndsLast(buf'[q][t])
  BY <1>2, <1>4 DEF StreamOK, OrderOK
<1>6. PlaceOK(t)'
  BY <1>1, <1>5 DEF StreamOK, PlaceOK, NoNewForward, Feeders
<1>7. ClosedOK(t)'
  BY <1>1, <1>2, <1>5 DEF ClosedOK, SamePipe
<1>8. OrderOK(t)'
  BY <1>1, <1>2, <1>5 DEF StreamOK, OrderOK, SamePipe
<1>9. SentOK(t)'
  <2>1. \A q \in Procs : DataOf(buf[q][t]) \subseteq sent[t]
    BY DEF StreamOK, SentOK
  <2>2. ASSUME NEW q \in Procs, NEW y \in DataOf(buf'[q][t])
        PROVE  y \in sent[t] \cup {x}
    <3>1. y \in Items
      BY DEF DataOf
    <3>2. CASE q = p
      BY <1>4, <2>1, <3>1, <3>2
    <3>3. CASE q # p
      BY <2>1, <3>3
    <3> QED
      BY <3>2, <3>3
  <2> QED
    BY <2>2 DEF StreamOK, SentOK, SamePipe, SameReceived
<1>10. KeptOK(t)'
  <2>1. Conserved(t) => Conserved(t)'
    <3> SUFFICES ASSUME Conserved(t), NEW y \in sent'[t]
                 PROVE  \/ y \in received[t]
                        \/ y \in DataOf(pipe[t])
                        \/ \E q \in Procs : y \in DataOf(buf'[q][t])
      BY DEF Conserved, SamePipe, SameReceived
    <3>1. CASE y = x
      BY <1>4, <3>1
    <3>2. CASE y # x
      BY <1>4, <3>2 DEF Conserved, DataOf
    <3> QED
      BY <3>1, <3>2
  <2>2. ~ Barren(t)
    BY DEF Barren, At, Past
  <2> QED
    BY <1>1, <1>2, <2>1, <2>2, OnwardAround DEF StreamOK, KeptOK
<1> QED
  BY <1>6, <1>7, <1>8, <1>9, <1>10 DEF StreamOK

\* An end is put: by the last upstream worker, or by one that forwards it.
LEMMA PutEndKeepsStream ==
  ASSUME NEW t \in Tasks, PipTypeOK, StreamOK(t), OnwardStep, NoNewForward(t),
         NEW m \in Messages, m.type = "end",
         NEW p \in Procs, p \in Feeders(t) \/ Ended(t),
         \A w \in Upstream(t) : Past(w),
         Ended(t) \/ \E w \in Upstream(t) : ~ At(w, "dead"),
         buf'[p][t] = Append(buf[p][t], m),
         \A q \in Procs : q # p => buf'[q][t] = buf[q][t],
         SamePipe(t), SameEnded(t), SameSent(t), SameReceived(t)
  PROVE  StreamOK(t)'
<1>1. Ended(t)' <=> Ended(t)
  BY EndedIsKept
<1>2. /\ buf[p][t] \in Seq(Messages)
      /\ \A x \in Items : m # Data(x)
  BY MessageKinds DEF PipTypeOK
<1>3. /\ EndsLast(buf'[p][t])
      /\ \A x \in Items : x \in DataOf(buf'[p][t]) <=> x \in DataOf(buf[p][t])
  BY <1>2, AppendMessage DEF StreamOK, OrderOK
<1>4. DataOf(buf'[p][t]) = DataOf(buf[p][t])
  BY <1>3 DEF DataOf
<1>5. \A q \in Procs : /\ DataOf(buf'[q][t]) = DataOf(buf[q][t])
                       /\ EndsLast(buf'[q][t])
                       /\ HasEnd(buf'[q][t]) => HasEnd(buf[q][t]) \/ q = p
  BY <1>3, <1>4 DEF StreamOK, OrderOK
<1>6. PlaceOK(t)'
  BY <1>1, <1>5 DEF StreamOK, PlaceOK, NoNewForward, Feeders
<1>7. ClosedOK(t)'
  BY OnwardAround DEF ClosedOK
<1>8. OrderOK(t)'
  BY <1>1, <1>5 DEF StreamOK, OrderOK, SamePipe
<1>9. SentOK(t)'
  BY <1>5 DEF StreamOK, SentOK, SamePipe, SameSent, SameReceived
<1>10. KeptOK(t)'
  <2>1. Conserved(t) => Conserved(t)'
    BY <1>5 DEF Conserved, SamePipe, SameSent, SameReceived
  <2>2. ~ Barren(t)
    BY DEF Barren
  <2> QED
    BY <1>1, <2>1, <2>2, OnwardAround DEF StreamOK, KeptOK, SameSent, SameReceived
<1> QED
  BY <1>6, <1>7, <1>8, <1>9, <1>10 DEF StreamOK

\* A feeder thread writes a message to the pipe.  Here one feeder is needed: an
\* end it writes overtakes no item that another process has still to write.
LEMMA FlushKeepsStream ==
  ASSUME NEW t \in Tasks, PipTypeOK, OneFeeder(t), StreamOK(t), OnwardStep,
         NoNewForward(t), NEW p \in Procs, buf[p][t] # <<>>,
         pipe'[t] = Append(pipe[t], Head(buf[p][t])),
         buf'[p][t] = Tail(buf[p][t]),
         \A q \in Procs : q # p => buf'[q][t] = buf[q][t],
         SameEnded(t), SameSent(t), SameReceived(t)
  PROVE  StreamOK(t)'
<1> DEFINE s == buf[p][t]
           m == Head(s)
<1>1. Ended(t)' <=> Ended(t)
  BY EndedIsKept
<1>2. s \in Seq(Messages) /\ s # <<>> /\ pipe[t] \in Seq(Messages)
  BY DEF PipTypeOK
<1>3. /\ m \in Messages
      /\ HasEnd(s) <=> m.type = "end" \/ HasEnd(Tail(s))
      /\ \A x \in Items : x \in DataOf(s) <=> m = Data(x) \/ x \in DataOf(Tail(s))
      /\ EndsLast(s) => EndsLast(Tail(s)) /\ (m.type = "end" => DataOf(Tail(s)) = {})
  BY <1>2, TakeMessage
<1>4. /\ HasEnd(pipe'[t]) <=> HasEnd(pipe[t]) \/ m.type = "end"
      /\ \A x \in Items : x \in DataOf(pipe'[t]) <=> x \in DataOf(pipe[t]) \/ m = Data(x)
      /\ EndsLast(pipe[t]) /\ (m.type = "end" \/ ~ HasEnd(pipe[t])) => EndsLast(pipe'[t])
  BY <1>2, <1>3, AppendMessage
<1>5. buf'[p][t] = Tail(s)
  OBVIOUS
<1> HIDE DEF s, m
<1>6. EndsLast(s) /\ (HasEnd(s) => p \in Feeders(t) \/ Ended(t))
  BY DEF StreamOK, OrderOK, PlaceOK, s
<1>7. /\ HasEnd(buf'[p][t]) => HasEnd(s)
      /\ DataOf(buf'[p][t]) \subseteq DataOf(s)
      /\ EndsLast(buf'[p][t])
  BY <1>3, <1>5, <1>6 DEF DataOf
<1>8. \A q \in Procs : /\ HasEnd(buf'[q][t]) => HasEnd(buf[q][t])
                       /\ DataOf(buf'[q][t]) \subseteq DataOf(buf[q][t])
                       /\ EndsLast(buf'[q][t])
  BY <1>7 DEF StreamOK, OrderOK, s
<1>9. HasEnd(pipe[t]) \/ Ended(t) => DataOf(s) = {} /\ m.type = "end"
  BY <1>3, MessageKinds DEF StreamOK, OrderOK, s
<1>10. PlaceOK(t)'
  BY <1>1, <1>8 DEF StreamOK, PlaceOK, NoNewForward, Feeders
<1>11. ClosedOK(t)'
  <2>1. m.type = "end" => HasEnd(buf[p][t])
    BY <1>3 DEF s
  <2> QED
    BY <1>1, <1>4, <1>8, <2>1, OnwardAround DEF StreamOK, ClosedOK
<1>12. OrderOK(t)'
  <2>1. EndsLast(pipe'[t])
    BY <1>4, <1>9 DEF StreamOK, OrderOK
  <2>2. Ended(t) => DataOf(pipe'[t]) = {}
    BY <1>3, <1>4, <1>9, MessageKinds DEF StreamOK, OrderOK, DataOf
  <2>3. ASSUME HasEnd(pipe'[t]) \/ Ended(t), NEW q \in Procs
        PROVE  DataOf(buf'[q][t]) = {}
    <3>1. CASE HasEnd(pipe[t]) \/ Ended(t)
      BY <1>8, <3>1 DEF StreamOK, OrderOK
    <3>2. CASE m.type = "end" /\ ~ Ended(t)
      <4>1. p \in Feeders(t)
        BY <1>3, <1>6, <3>2
      <4>2. CASE q = p
        BY <1>3, <1>5, <1>6, <3>2, <4>2
      <4>3. CASE q # p
        <5>1. q \notin Feeders(t)
          BY <4>1, <4>3, FeedersAreOne
        <5> QED
          BY <1>8, <5>1 DEF StreamOK, PlaceOK
      <4> QED
        BY <4>2, <4>3
    <3> QED
      BY <1>4, <2>3, <3>1, <3>2
  <2> QED
    BY <1>1, <1>8, <2>1, <2>2, <2>3 DEF OrderOK
<1>13. SentOK(t)'
  <2>1. DataOf(pipe'[t]) \subseteq sent[t]
    <3> SUFFICES ASSUME NEW x \in DataOf(pipe'[t]) PROVE x \in sent[t]
      OBVIOUS
    <3>1. x \in Items
      BY DEF DataOf
    <3>2. x \in DataOf(pipe[t]) \/ x \in DataOf(buf[p][t])
      BY <1>3, <1>4, <3>1 DEF s
    <3> QED
      BY <3>2 DEF StreamOK, SentOK
  <2> QED
    BY <1>8, <2>1 DEF StreamOK, SentOK, SameSent, SameReceived
<1>14. KeptOK(t)'
  <2>1. Conserved(t) => Conserved(t)'
    <3> SUFFICES ASSUME Conserved(t), NEW x \in sent[t]
                 PROVE  \/ x \in received[t]
                        \/ x \in DataOf(pipe'[t])
                        \/ \E q \in Procs : x \in DataOf(buf'[q][t])
      BY DEF Conserved, SameSent, SameReceived
    <3>1. CASE x \in received[t]
      BY <3>1
    <3>2. CASE x \in DataOf(pipe[t])
      BY <1>4, <3>2 DEF DataOf
    <3>3. CASE \E q \in Procs : x \in DataOf(buf[q][t])
      <4>1. PICK q \in Procs : x \in DataOf(buf[q][t])
        BY <3>3
      <4>2. x \in Items
        BY <4>1 DEF DataOf
      <4>3. CASE q = p
        BY <1>3, <1>4, <1>5, <4>1, <4>2, <4>3 DEF s
      <4>4. CASE q # p
        BY <4>1, <4>4
      <4> QED
        BY <4>3, <4>4
    <3> QED
      BY <3>1, <3>2, <3>3 DEF Conserved
  <2>2. Barren(t) => Barren(t)'
    BY <1>1, <1>3, <1>4, <1>8, OnwardAround DEF Barren, s
  <2> QED
    BY <1>1, <2>1, <2>2, OnwardAround DEF StreamOK, KeptOK, SameSent, SameReceived
<1> QED
  BY <1>10, <1>11, <1>12, <1>13, <1>14 DEF StreamOK

\* What is left in the pipe when its head has been taken.
LEMMA PipeTaken ==
  ASSUME NEW t \in Tasks, PipTypeOK, OrderOK(t), pipe[t] # <<>>,
         pipe'[t] = Tail(pipe[t])
  PROVE  /\ Head(pipe[t]) \in Messages
         /\ Head(pipe[t]).type = "end" => HasEnd(pipe[t]) /\ DataOf(pipe'[t]) = {}
         /\ HasEnd(pipe'[t]) => HasEnd(pipe[t])
         /\ DataOf(pipe'[t]) \subseteq DataOf(pipe[t])
         /\ EndsLast(pipe'[t])
         /\ \A x \in Items : x \in DataOf(pipe[t]) <=> Head(pipe[t]) = Data(x) \/ x \in DataOf(pipe'[t])
<1>1. pipe[t] \in Seq(Messages) /\ EndsLast(pipe[t])
  BY DEF PipTypeOK, OrderOK
<1>2. \A x \in Items : x \in DataOf(pipe[t]) <=> Head(pipe[t]) = Data(x) \/ x \in DataOf(pipe'[t])
  BY <1>1, TakeMessage
<1>3. DataOf(pipe'[t]) \subseteq DataOf(pipe[t])
  BY <1>2 DEF DataOf
<1> QED
  BY <1>1, <1>2, <1>3, TakeMessage

\* A reader takes an item out of the pipe: the stream is not over.
LEMMA TakeItemKeepsStream ==
  ASSUME NEW t \in Tasks, PipTypeOK, StreamOK(t), OnwardStep, NoNewForward(t),
         NEW x \in Items, pipe[t] # <<>>, Head(pipe[t]) = Data(x),
         pipe'[t] = Tail(pipe[t]), received'[t] = received[t] \cup {x},
         SameBuffers(t), SameEnded(t), SameSent(t)
  PROVE  StreamOK(t)' /\ ~ Ended(t) /\ x \in sent[t]
<1>1. Ended(t)' <=> Ended(t)
  BY EndedIsKept
<1>2. /\ HasEnd(pipe'[t]) => HasEnd(pipe[t])
      /\ DataOf(pipe'[t]) \subseteq DataOf(pipe[t])
      /\ EndsLast(pipe'[t])
      /\ \A y \in Items : y \in DataOf(pipe[t]) <=> Data(x) = Data(y) \/ y \in DataOf(pipe'[t])
  BY PipeTaken DEF StreamOK
<1>3. x \in DataOf(pipe[t]) /\ \A y \in Items : Data(x) = Data(y) => x = y
  BY <1>2 DEF Data
<1>4. ~ Ended(t) /\ x \in sent[t]
  BY <1>3 DEF StreamOK, OrderOK, SentOK
<1>5. PlaceOK(t)'
  BY <1>1 DEF StreamOK, PlaceOK, SameBuffers, NoNewForward
<1>6. ClosedOK(t)'
  BY <1>1, <1>2, OnwardAround DEF StreamOK, ClosedOK, SameBuffers
<1>7. OrderOK(t)'
  BY <1>1, <1>2, <1>4 DEF StreamOK, OrderOK, SameBuffers
<1>8. SentOK(t)'
  BY <1>2, <1>4 DEF StreamOK, SentOK, SameBuffers, SameSent
<1>9. KeptOK(t)'
  <2>1. Conserved(t) => Conserved(t)'
    <3> SUFFICES ASSUME Conserved(t), NEW y \in sent[t]
                 PROVE  \/ y \in received'[t]
                        \/ y \in DataOf(pipe'[t])
                        \/ \E q \in Procs : y \in DataOf(buf[q][t])
      BY DEF Conserved, SameSent, SameBuffers
    <3>1. CASE y \in DataOf(pipe[t])
      <4>1. y \in Items
        BY <3>1 DEF DataOf
      <4> QED
        BY <1>2, <1>3, <3>1, <4>1
    <3>2. CASE y \notin DataOf(pipe[t])
      BY <3>2 DEF Conserved
    <3> QED
      BY <3>1, <3>2
  <2>2. Barren(t) => Barren(t)'
    BY <1>1, <1>2, OnwardAround DEF Barren, SameBuffers
  <2> QED
    BY <1>1, <1>4, <2>1, <2>2, OnwardAround DEF StreamOK, KeptOK
<1> QED
  BY <1>4, <1>5, <1>6, <1>7, <1>8, <1>9 DEF StreamOK

\* A reader takes an end: nothing is on its way any more.
LEMMA TakeEndKeepsStream ==
  ASSUME NEW t \in Tasks, PipTypeOK, StreamOK(t), OnwardStep,
         ~ ReadersOver(t), pipe[t] # <<>>, Head(pipe[t]).type = "end",
         pipe'[t] = Tail(pipe[t]),
         NEW p \in Procs, isEnded'[p][t],
         SameBuffers(t), SameSent(t), SameReceived(t)
  PROVE  StreamOK(t)' /\ Ended(t)' /\ received[t] = sent[t]
<1>1. Ended(t)'
  BY DEF Ended
<1>2. /\ HasEnd(pipe[t]) /\ DataOf(pipe'[t]) = {}
      /\ EndsLast(pipe'[t])
      /\ \A x \in Items : x \in DataOf(pipe[t]) <=> Head(pipe[t]) = Data(x) \/ x \in DataOf(pipe'[t])
      /\ Head(pipe[t]) \in Messages
  BY PipeTaken DEF StreamOK
<1>3. \A q \in Procs : DataOf(buf[q][t]) = {} /\ EndsLast(buf[q][t])
  BY <1>2 DEF StreamOK, OrderOK
<1>4. DataOf(pipe[t]) = {}
  BY <1>2, MessageKinds DEF DataOf
<1>5. received[t] = sent[t]
  <2>1. CASE Ended(t)
    BY <2>1 DEF StreamOK, KeptOK
  <2>2. CASE ~ Ended(t)
    <3>1. Conserved(t)
      BY <1>2, <2>2 DEF StreamOK, KeptOK, Barren
    <3> QED
      BY <1>3, <1>4, <3>1 DEF Conserved, StreamOK, SentOK
  <2> QED
    BY <2>1, <2>2
<1>6. PlaceOK(t)'
  BY <1>1 DEF StreamOK, PlaceOK, SameBuffers
<1>7. ClosedOK(t)'
  BY <1>2, OnwardAround DEF StreamOK, ClosedOK
<1>8. OrderOK(t)'
  BY <1>2, <1>3 DEF OrderOK, SameBuffers
<1>9. SentOK(t)'
  BY <1>2, <1>5 DEF StreamOK, SentOK, SameBuffers, SameSent, SameReceived
<1>10. KeptOK(t)'
  BY <1>1, <1>5 DEF KeptOK, SameSent, SameReceived
<1> QED
  BY <1>1, <1>5, <1>6, <1>7, <1>8, <1>9, <1>10 DEF StreamOK

\* _clean_pip_in throws a message away: every reader is over.
LEMMA CleanKeepsStream ==
  ASSUME NEW t \in Tasks, PipTypeOK, StreamOK(t), OnwardStep, NoNewForward(t),
         ReadersOver(t), pipe[t] # <<>>, pipe'[t] = Tail(pipe[t]),
         SameBuffers(t), SameEnded(t), SameSent(t), SameReceived(t)
  PROVE  StreamOK(t)'
<1>1. Ended(t)' <=> Ended(t)
  BY EndedIsKept
<1>2. /\ HasEnd(pipe'[t]) => HasEnd(pipe[t])
      /\ DataOf(pipe'[t]) \subseteq DataOf(pipe[t])
      /\ EndsLast(pipe'[t])
  BY PipeTaken DEF StreamOK
<1>3. PlaceOK(t)'
  BY <1>1 DEF StreamOK, PlaceOK, SameBuffers, NoNewForward
<1>4. ClosedOK(t)'
  BY <1>1, <1>2, OnwardAround DEF StreamOK, ClosedOK, SameBuffers
<1>5. OrderOK(t)'
  BY <1>1, <1>2 DEF StreamOK, OrderOK, SameBuffers
<1>6. SentOK(t)'
  BY <1>2 DEF StreamOK, SentOK, SameBuffers, SameSent, SameReceived
<1>7. KeptOK(t)'
  BY <1>1, OnwardAround DEF StreamOK, KeptOK, SameSent, SameReceived
<1> QED
  BY <1>3, <1>4, <1>5, <1>6, <1>7 DEF StreamOK

\* A process is killed with what it has still to write.  If it was the feeder,
\* no worker is left that could send an end, unless one was written before.
LEMMA DropKeepsStream ==
  ASSUME NEW t \in Tasks, PipTypeOK, StreamOK(t), OnwardStep, NoNewForward(t),
         OneFeeder(t), NEW p \in Procs, buf'[p][t] = <<>>,
         p \in Feeders(t) => \A w \in Upstream(t) : At(w, "dead")',
         \A q \in Procs : q # p => buf'[q][t] = buf[q][t],
         SamePipe(t), SameEnded(t), SameSent(t), SameReceived(t)
  PROVE  StreamOK(t)'
<1>1. Ended(t)' <=> Ended(t)
  BY EndedIsKept
<1>2. \A q \in Procs : /\ HasEnd(buf'[q][t]) => HasEnd(buf[q][t]) /\ q # p
                       /\ DataOf(buf'[q][t]) \subseteq DataOf(buf[q][t])
                       /\ EndsLast(buf'[q][t])
  BY NoMessages DEF StreamOK, OrderOK
<1>3. PlaceOK(t)'
  BY <1>1, <1>2 DEF StreamOK, PlaceOK, NoNewForward, Feeders
<1>4. ClosedOK(t)'
  BY <1>1, <1>2, OnwardAround DEF StreamOK, ClosedOK, SamePipe
<1>5. OrderOK(t)'
  BY <1>1, <1>2 DEF StreamOK, OrderOK, SamePipe
<1>6. SentOK(t)'
  BY <1>2 DEF StreamOK, SentOK, SamePipe, SameSent, SameReceived
<1>7. KeptOK(t)'
  <2>1. CASE DataOf(buf[p][t]) = {}
    <3>1. Conserved(t) => Conserved(t)'
      BY <2>1 DEF Conserved, SamePipe, SameSent, SameReceived
    <3>2. Barren(t) => Barren(t)'
      BY <1>1, <1>2, OnwardAround DEF Barren, SamePipe
    <3> QED
      BY <1>1, <3>1, <3>2, OnwardAround DEF StreamOK, KeptOK, SameSent, SameReceived
  <2>2. CASE DataOf(buf[p][t]) # {}
    <3>1. p \in Feeders(t)
      BY <2>2 DEF StreamOK, PlaceOK
    <3>2. ~ HasEnd(pipe[t]) /\ ~ Ended(t)
      BY <2>2 DEF StreamOK, OrderOK
    <3>3. ASSUME NEW q \in Procs PROVE ~ HasEnd(buf'[q][t])
      <4> SUFFICES ASSUME HasEnd(buf'[q][t]) PROVE FALSE
        OBVIOUS
      <4>1. q # p /\ q \in Feeders(t)
        BY <1>2, <3>2 DEF StreamOK, PlaceOK
      <4> QED
        BY <3>1, <4>1, FeedersAreOne
    <3>4. Barren(t)'
      BY <1>1, <3>1, <3>2, <3>3 DEF Barren, SamePipe, Upstream
    <3> QED
      BY <1>1, <3>2, <3>4 DEF KeptOK
  <2> QED
    BY <2>1, <2>2
<1> QED
  BY <1>3, <1>4, <1>5, <1>6, <1>7 DEF StreamOK

(***************************************************************************)
(* Which step of the tree is which step of a pip                           *)
(***************************************************************************)

\* A step of a worker moves this worker only, and onward.
LEMMA WorkerStepIsOnward ==
  ASSUME PodPart, NEW w \in Workers,
         WorkerStep(w) \/ Fail(w) \/ StartWorker(w) \/ Interrupt(w)
  PROVE  /\ OnwardStep
         /\ \A v \in Workers : v # w => pc'[v] = pc[v]
<1>1. /\ pc' \in [Workers -> Locations]
      /\ \A v \in Workers : v # w => pc'[v] = pc[v]
      /\ pc[w] # "dead"
      /\ pc[w] = "exit" => pc'[w] = "dead"
      /\ pc[w] = "clean" => pc'[w] \in {"clean", "exit"}
      /\ pc[w] = "end" => pc'[w] \in {"end", "clean", "exit"}
  <2>1. CASE WorkerStep(w)
    BY <2>1, WorkerStepKeepsTypes DEF WorkerStep, Produce, SendNext, StartGet,
       ReceiveItem, ReceiveEnd, Forward, GetEmpty, Return, WorkerDone, InlineDone,
       SendEnd, StartClean, Clean, Cleaned, Exit, SendData, GoTo, At, podVars,
       PodPart, PodTypeOK
  <2>2. CASE Fail(w)
    BY <2>2, FailKeepsTypes DEF Fail, GoTo, At, PodPart, PodTypeOK
  <2>3. CASE StartWorker(w)
    BY <2>3, QuietStepKeepsTypes DEF StartWorker, GoTo, At, PodPart, PodTypeOK
  <2>4. CASE Interrupt(w)
    BY <2>4, InterruptGoes
  <2> QED
    BY <2>1, <2>2, <2>3, <2>4
<1> QED
  BY <1>1 DEF OnwardStep, OverPcs, Past, At

\* A put concerns one buffer.
LEMMA PutFrame ==
  ASSUME PipTypeOK, NEW p \in Procs, NEW u \in Tasks, NEW m, Put(p, u, m)
  PROVE  /\ buf'[p][u] = Append(buf[p][u], m)
         /\ \A q \in Procs : q # p => buf'[q][u] = buf[q][u]
         /\ \A t \in Tasks : t # u => SameBuffers(t)
         /\ \A t \in Tasks : SamePipe(t) /\ SameEnded(t)
<1>1. buf' = [buf EXCEPT ![p][u] = Append(@, m)] /\ pipe' = pipe /\ isEnded' = isEnded
  BY DEF Put
<1>2. buf \in [Procs -> [Tasks -> Seq(Messages)]]
  BY DEF PipTypeOK
<1> QED
  BY <1>1, <1>2 DEF SameBuffers, SamePipe, SameEnded

\* A get concerns one pipe.
LEMMA GetFrame ==
  ASSUME PipTypeOK, NEW u \in Tasks, Get(u)
  PROVE  /\ pipe[u] # <<>> /\ pipe'[u] = Tail(pipe[u])
         /\ \A t \in Tasks : t # u => SamePipe(t)
         /\ \A t \in Tasks : SameBuffers(t)
BY DEF Get, PipTypeOK, SameBuffers, SamePipe

\* What a step does to the stream of t: the actions of DataStream.
StreamMove(t) ==
  \/ /\ ~ Ended(t)
     /\ \E x \in Items : sent'[t] = sent[t] \cup {x}
     /\ SameReceived(t)
     /\ Ended(t)' <=> Ended(t)
  \/ /\ ~ Ended(t)
     /\ \E x \in sent[t] : received'[t] = received[t] \cup {x}
     /\ SameSent(t)
     /\ Ended(t)' <=> Ended(t)
  \/ /\ received[t] = sent[t]
     /\ Ended(t)'
     /\ SameSent(t)
     /\ SameReceived(t)
  \/ /\ SameSent(t)
     /\ SameReceived(t)
     /\ Ended(t)' <=> Ended(t)
StreamsMove == \A t \in Tasks : OneFeeder(t) => StreamMove(t)

\* It does nothing when nothing is sent or received.
LEMMA StutterMoves ==
  ASSUME UNCHANGED <<sent, received, isEnded>>
  PROVE  StreamsMove
BY EndedIsKept DEF StreamsMove, StreamMove, SameSent, SameReceived, SameEnded

\* Steps that touch no pip: only the locations of workers matter.
LEMMA PipStutterKeepsStreams ==
  ASSUME StreamsOK, OnwardStep, UNCHANGED <<pipVars, sent, received>>,
         \A v \in Workers : At(v, "forward")' => At(v, "forward")
  PROVE  StreamsOK'
<1> SUFFICES ASSUME NEW t \in Tasks, OneFeeder(t)
             PROVE  StreamOK(t)'
  BY DEF StreamsOK
<1>1. WorkersOf(t) \subseteq Workers
  BY DEF Workers
<1>2. /\ NoNewForward(t) /\ SameBuffers(t) /\ SamePipe(t) /\ SameEnded(t)
      /\ SameSent(t) /\ SameReceived(t)
  BY <1>1 DEF NoNewForward, SameBuffers, SamePipe, SameEnded, SameSent,
     SameReceived, pipVars
<1> QED
  BY <1>2, QuietKeepsStream DEF StreamsOK

\* SendNext puts an item in the pip of a task that the worker feeds.
LEMMA SendNextKeepsStreams ==
  ASSUME PodPart, TodoOK, StreamsOK, NEW w \in Workers, SendNext(w)
  PROVE  StreamsOK' /\ StreamsMove
<1> DEFINE put == Head(todo[w])
<1>1. OnwardStep /\ \A v \in Workers : v # w => pc'[v] = pc[v]
  BY WorkerStepIsOnward DEF WorkerStep
<1>2. At(w, "send") /\ pc'[w] \in {"task", "send"}
  BY DEF SendNext, GoTo, PodPart, PodTypeOK
<1>3. todo[w] # <<>> /\ todo[w] \in Seq(Tasks \X DataMessages)
  BY <1>2 DEF SendNext, PutNext, PodPart, SendOK, DataMessages
<1>4. put \in Tasks \X DataMessages /\ put = todo[w][1] /\ 1 \in DOMAIN todo[w]
  BY <1>3, HeadTailProperties, LenProperties, EmptySeq
<1>5. PICK u \in Tasks, x \in Items : put[1] = u /\ put[2] = Data(x) /\ put[2].item = x
  BY <1>4 DEF DataMessages, Data
<1>6. w \in Upstream(u) /\ ~ Past(w)
  BY <1>2, <1>4, <1>5 DEF TodoOK, Upstream, At, Past
<1>7. /\ PipTypeOK /\ Home(w) \in Procs
      /\ Put(Home(w), u, Data(x))
      /\ sent' = [sent EXCEPT ![u] = @ \cup {x}] /\ received' = received
  BY <1>5, WorkerOfItsTask DEF SendNext, PutNext, PodPart
<1>8. sent \in [Tasks -> SUBSET Items]
  BY DEF PodPart, PodTypeOK
<1>9. \A t \in Tasks : NoNewForward(t) /\ SameReceived(t)
  BY <1>1, <1>2, <1>7 DEF NoNewForward, SameReceived, Workers, At
<1>10. \A t \in Tasks : t # u => SameSent(t)
  BY <1>7, <1>8 DEF SameSent
<1>11. sent'[u] = sent[u] \cup {x}
  BY <1>7, <1>8
<1>12. StreamsOK'
  <2> SUFFICES ASSUME NEW t \in Tasks, OneFeeder(t)
               PROVE  StreamOK(t)'
    BY DEF StreamsOK
  <2>1. StreamOK(t)
    BY DEF StreamsOK
  <2>2. CASE t = u
    BY <1>1, <1>6, <1>7, <1>9, <1>11, <2>1, <2>2, PutFrame, PutDataKeepsStream
  <2>3. CASE t # u
    BY <1>1, <1>7, <1>9, <1>10, <2>1, <2>3, PutFrame, QuietKeepsStream
  <2> QED
    BY <2>2, <2>3
<1>13. StreamsMove
  <2> SUFFICES ASSUME NEW t \in Tasks, OneFeeder(t)
               PROVE  StreamMove(t)
    BY DEF StreamsMove
  <2>1. Ended(t)' <=> Ended(t)
    BY <1>7, PutFrame, EndedIsKept
  <2>2. t = u => ~ Ended(t)
    BY <1>6 DEF StreamsOK, StreamOK, ClosedOK
  <2> QED
    BY <1>9, <1>10, <1>11, <2>1, <2>2 DEF StreamMove
<1> QED
  BY <1>12, <1>13

\* An end is put, for whatever reason.
LEMMA PutEndKeepsStreams ==
  ASSUME PodPart, StreamsOK, NEW w \in Workers, WorkerStep(w),
         NEW u \in Tasks, NEW m \in Messages, m.type = "end",
         Put(Home(w), u, m), UNCHANGED history,
         At(w, "forward")' => At(w, "forward"),
         OneFeeder(u) => /\ Home(w) \in Feeders(u) \/ Ended(u)
                         /\ \A v \in Upstream(u) : Past(v)
                         /\ Ended(u) \/ \E v \in Upstream(u) : ~ At(v, "dead")
  PROVE  StreamsOK'
<1> SUFFICES ASSUME NEW t \in Tasks, OneFeeder(t)
             PROVE  StreamOK(t)'
  BY DEF StreamsOK
<1>1. OnwardStep /\ \A v \in Workers : v # w => pc'[v] = pc[v]
  BY WorkerStepIsOnward
<1>2. PipTypeOK /\ Home(w) \in Procs /\ StreamOK(t)
  BY WorkerOfItsTask DEF PodPart, StreamsOK
<1>3. NoNewForward(t) /\ SameSent(t) /\ SameReceived(t)
  BY <1>1 DEF NoNewForward, SameSent, SameReceived, history, Workers, At
<1>4. CASE t = u
  BY <1>1, <1>2, <1>3, <1>4, PutFrame, PutEndKeepsStream
<1>5. CASE t # u
  BY <1>1, <1>2, <1>3, <1>5, PutFrame, QuietKeepsStream
<1> QED
  BY <1>4, <1>5

\* SendEnd puts it when the worker is the last of its task, the others being gone.
LEMMA SendEndKeepsStreams ==
  ASSUME PodPart, AloneInv, TodoOK, StreamsOK, NEW w \in Workers, SendEnd(w)
  PROVE  StreamsOK'
<1> DEFINE put == Head(todo[w])
<1>1. At(w, "end") /\ pc' = pc /\ UNCHANGED history
  BY DEF SendEnd
<1>2. todo[w] # <<>> /\ todo[w] \in Seq(Tasks \X Messages)
  BY DEF SendEnd, PutNext, PodPart, PodTypeOK
<1>3. put \in Tasks \X Messages /\ put = todo[w][1] /\ 1 \in DOMAIN todo[w]
  BY <1>2, HeadTailProperties, LenProperties, EmptySeq
<1>4. PICK u \in Tasks : put[1] = u
  BY <1>3
<1>5. w \in Upstream(u) /\ put[2] = EndCmd
  BY <1>1, <1>3, <1>4 DEF TodoOK, Upstream, At
<1>6. Put(Home(w), u, EndCmd) /\ EndCmd \in Messages /\ EndCmd.type = "end"
  BY <1>4, <1>5, MessageTypes DEF SendEnd, PutNext, EndCmd
<1>7. ASSUME NEW v \in Upstream(u) PROVE Past(v)
  <2>1. v[1] = w[1] /\ v \in Workers
    BY <1>5, OneUpstreamTask DEF Upstream
  <2>2. v # w => pc[v] \in {"exit", "dead"}
    BY <1>1, <2>1 DEF AloneInv, LastWorkerAlone, At
  <2> QED
    BY <1>1, <2>2 DEF Past, At
<1>8. Home(w) \in Feeders(u) /\ ~ At(w, "dead")
  BY <1>1, <1>5 DEF Feeders, At
<1>9. WorkerStep(w) /\ (At(w, "forward")' => At(w, "forward"))
  BY <1>1 DEF WorkerStep, At
<1> QED
  BY <1>1, <1>5, <1>6, <1>7, <1>8, <1>9, PutEndKeepsStreams

\* Forward puts it in the pip of its own task, whose stream is over.
LEMMA ForwardKeepsStreams ==
  ASSUME PodPart, StreamsOK, NEW w \in Workers, Forward(w)
  PROVE  StreamsOK'
<1>1. w[1] \in Tasks /\ w \in WorkersOf(w[1])
  BY WorkerOfItsTask
<1>2. /\ Put(Home(w), w[1], ForwardedEnd) /\ At(w, "forward") /\ UNCHANGED history
      /\ ForwardedEnd \in Messages /\ ForwardedEnd.type = "end"
  BY MessageTypes DEF Forward, ForwardedEnd
<1>3. OneFeeder(w[1]) => Ended(w[1]) /\ \A v \in Upstream(w[1]) : Past(v)
  BY <1>1, <1>2 DEF StreamsOK, StreamOK, PlaceOK, ClosedOK
<1>4. WorkerStep(w)
  BY DEF WorkerStep
<1> QED
  BY <1>1, <1>2, <1>3, <1>4, PutEndKeepsStreams

\* A user function is given an item.
LEMMA ReceiveItemKeepsStreams ==
  ASSUME PodPart, StreamsOK, NEW w \in Workers, ReceiveItem(w)
  PROVE  StreamsOK' /\ StreamsMove
<1> DEFINE u == w[1]
<1>1. OnwardStep /\ \A v \in Workers : v # w => pc'[v] = pc[v]
  BY WorkerStepIsOnward DEF WorkerStep
<1>2. u \in Tasks /\ PipTypeOK
  BY WorkerOfItsTask DEF PodPart
<1>3. PICK x \in Items :
        /\ RecvItem(u, x)
        /\ received' = [received EXCEPT ![u] = @ \cup {x}]
        /\ SendData(w, x)
  BY DEF ReceiveItem
<1>4. sent' = sent /\ pc'[w] \in {"task", "send"}
  BY <1>3 DEF ReceiveItem, SendData, GoTo, PodPart, PodTypeOK
<1>5. Get(u) /\ Head(pipe[u]) = Data(x) /\ isEnded' = isEnded
  BY <1>3 DEF RecvItem
<1>6. \A t \in Tasks : NoNewForward(t) /\ SameSent(t) /\ SameEnded(t)
  BY <1>1, <1>4, <1>5 DEF NoNewForward, SameSent, SameEnded, Workers, At
<1>7. received'[u] = received[u] \cup {x} /\ \A t \in Tasks : t # u => SameReceived(t)
  BY <1>2, <1>3 DEF SameReceived, PodPart, PodTypeOK
<1> SUFFICES ASSUME NEW t \in Tasks, OneFeeder(t)
             PROVE  StreamOK(t)' /\ StreamMove(t)
  BY DEF StreamsOK, StreamsMove
<1>8. StreamOK(t) /\ (Ended(t)' <=> Ended(t))
  BY <1>6, EndedIsKept DEF StreamsOK
<1>9. CASE t = u
  <2>1. StreamOK(t)' /\ ~ Ended(t) /\ x \in sent[t]
    BY <1>1, <1>2, <1>5, <1>6, <1>7, <1>8, <1>9, GetFrame, TakeItemKeepsStream
  <2> QED
    BY <1>6, <1>7, <1>8, <1>9, <2>1 DEF StreamMove
<1>10. CASE t # u
  <2>1. StreamOK(t)'
    BY <1>1, <1>2, <1>5, <1>6, <1>7, <1>8, <1>10, GetFrame, QuietKeepsStream
  <2> QED
    BY <1>6, <1>7, <1>8, <1>10, <2>1 DEF StreamMove
<1> QED
  BY <1>9, <1>10

\* A worker is told that the stream of its task is over.
LEMMA ReceiveEndKeepsStreams ==
  ASSUME PodPart, StreamsOK, NEW w \in Workers, ReceiveEnd(w)
  PROVE  StreamsOK' /\ StreamsMove
<1> DEFINE u == w[1]
<1>1. OnwardStep /\ \A v \in Workers : v # w => pc'[v] = pc[v]
  BY WorkerStepIsOnward DEF WorkerStep
<1>2. u \in Tasks /\ PipTypeOK /\ Home(w) \in Procs /\ w \in WorkersOf(u)
  BY WorkerOfItsTask DEF PodPart
<1>3. /\ At(w, "get") /\ RecvEnd(Home(w), u) /\ sent' = sent /\ received' = received
  BY DEF ReceiveEnd, history
<1>4. /\ Get(u) /\ Head(pipe[u]).type = "end"
      /\ isEnded' = [isEnded EXCEPT ![Home(w)][u] = TRUE]
  BY <1>3 DEF RecvEnd
<1>5. /\ isEnded'[Home(w)][u]
      /\ \A t \in Tasks : t # u => SameEnded(t)
  BY <1>2, <1>4 DEF PipTypeOK, SameEnded
<1>6. \A t \in Tasks : SameSent(t) /\ SameReceived(t)
  BY <1>3 DEF SameSent, SameReceived
<1>7. \A t \in Tasks : t # u => NoNewForward(t)
  <2> SUFFICES ASSUME NEW t \in Tasks, t # u, NEW v \in WorkersOf(t)
               PROVE  pc'[v] = pc[v]
    BY DEF NoNewForward, At
  <2>1. v # w /\ v \in Workers
    BY DEF WorkersOf, Workers
  <2> QED
    BY <1>1, <2>1
<1>8. ~ ReadersOver(u)
  BY <1>2, <1>3 DEF ReadersOver, At
<1> SUFFICES ASSUME NEW t \in Tasks, OneFeeder(t)
             PROVE  StreamOK(t)' /\ StreamMove(t)
  BY DEF StreamsOK, StreamsMove
<1>9. StreamOK(t)
  BY DEF StreamsOK
<1>10. CASE t = u
  <2>1. StreamOK(t)' /\ Ended(t)' /\ received[t] = sent[t]
    BY <1>1, <1>2, <1>4, <1>5, <1>6, <1>8, <1>9, <1>10, GetFrame,
       TakeEndKeepsStream
  <2> QED
    BY <1>6, <2>1 DEF StreamMove
<1>11. CASE t # u
  <2>1. StreamOK(t)'
    BY <1>1, <1>2, <1>4, <1>5, <1>6, <1>7, <1>9, <1>11, GetFrame, QuietKeepsStream
  <2> QED
    BY <1>5, <1>6, <1>11, <2>1, EndedIsKept DEF StreamMove
<1> QED
  BY <1>10, <1>11

\* The last worker of a task cleans its pip.
LEMMA CleanKeepsStreams ==
  ASSUME PodPart, AloneInv, StreamsOK, NEW w \in Workers, Clean(w)
  PROVE  StreamsOK'
<1> DEFINE u == w[1]
<1>1. /\ u \in Tasks /\ PipTypeOK
      /\ At(w, "clean") /\ Get(u) /\ isEnded' = isEnded
      /\ UNCHANGED <<pc, sent, received>>
  BY WorkerOfItsTask DEF Clean, CleanOne, podVars, history, PodPart
<1>2. OnwardStep
  BY WorkerStepIsOnward DEF WorkerStep
<1>3. \A t \in Tasks : /\ NoNewForward(t) /\ SameSent(t) /\ SameReceived(t)
                       /\ SameEnded(t)
  BY <1>1 DEF NoNewForward, SameSent, SameReceived, SameEnded, At
<1>4. ReadersOver(u)
  <2> SUFFICES ASSUME NEW v \in WorkersOf(u)
               PROVE  pc[v] \in {"clean", "exit", "dead"}
    BY DEF ReadersOver
  <2>1. v \in Workers /\ v[1] = u
    BY <1>1 DEF Workers, WorkersOf
  <2> QED
    BY <1>1, <2>1 DEF AloneInv, LastWorkerAlone, At
<1> SUFFICES ASSUME NEW t \in Tasks, OneFeeder(t)
             PROVE  StreamOK(t)'
  BY DEF StreamsOK
<1>5. StreamOK(t)
  BY DEF StreamsOK
<1>6. CASE t = u
  BY <1>1, <1>2, <1>3, <1>4, <1>5, <1>6, GetFrame, CleanKeepsStream
<1>7. CASE t # u
  BY <1>1, <1>2, <1>3, <1>5, <1>7, GetFrame, QuietKeepsStream
<1> QED
  BY <1>6, <1>7

\* A feeder thread writes.
LEMMA FeederKeepsStreams ==
  ASSUME PodPart, StreamsOK, NEW p \in Procs, NEW u \in Tasks, Feeder(p, u)
  PROVE  StreamsOK'
<1>1. /\ PipTypeOK /\ buf[p][u] # <<>> /\ isEnded' = isEnded
      /\ pipe' = [pipe EXCEPT ![u] = Append(@, Head(buf[p][u]))]
      /\ buf' = [buf EXCEPT ![p][u] = Tail(@)]
      /\ UNCHANGED <<pc, sent, received>>
  BY DEF Feeder, Flush, podVars, history, PodPart
<1>2. OnwardStep /\ \A t \in Tasks : /\ NoNewForward(t) /\ SameSent(t)
                                     /\ SameReceived(t) /\ SameEnded(t)
  BY <1>1 DEF OnwardStep, NoNewForward, SameSent, SameReceived, SameEnded, Past, At
<1>3. /\ pipe'[u] = Append(pipe[u], Head(buf[p][u]))
      /\ \A t \in Tasks : t # u => SamePipe(t)
  BY <1>1 DEF SamePipe, PipTypeOK
<1>4. /\ buf'[p][u] = Tail(buf[p][u])
      /\ \A q \in Procs : q # p => buf'[q][u] = buf[q][u]
      /\ \A t \in Tasks : t # u => SameBuffers(t)
  BY <1>1 DEF SameBuffers, PipTypeOK
<1> SUFFICES ASSUME NEW t \in Tasks, OneFeeder(t)
             PROVE  StreamOK(t)'
  BY DEF StreamsOK
<1>5. StreamOK(t)
  BY DEF StreamsOK
<1>6. CASE t = u
  BY <1>1, <1>2, <1>3, <1>4, <1>5, <1>6, FlushKeepsStream
<1>7. CASE t # u
  BY <1>2, <1>3, <1>4, <1>5, <1>7, QuietKeepsStream
<1> QED
  BY <1>6, <1>7

\* A SIGINT ends a worker that waits for its feeders, with what they have still to
\* write.
LEMMA InterruptKeepsStreams ==
  ASSUME PodPart, StreamsOK, NEW w \in Workers, Interrupt(w)
  PROVE  StreamsOK' /\ UNCHANGED <<isEnded, sent, received>>
<1>1. OnwardStep /\ \A v \in Workers : v # w => pc'[v] = pc[v]
  BY WorkerStepIsOnward
<1>2. /\ pc'[w] \in {"rest", "done", "exit", "dead"}
      /\ pc[w] = "exit" => pc'[w] = "dead"
      /\ UNCHANGED <<sent, received>>
      /\ Home(w) = w
  BY InterruptGoes DEF Interrupt, history
<1>3. \A v \in Workers : At(v, "forward")' => At(v, "forward")
  BY <1>1, <1>2 DEF At
<1>4. CASE UNCHANGED pipVars
  BY <1>1, <1>2, <1>3, <1>4, PipStutterKeepsStreams DEF pipVars
<1>5. CASE pc[w] = "exit" /\ DropBuffers(w)
  <2>1. /\ buf' = [buf EXCEPT ![w] = [t \in Tasks |-> <<>>]]
        /\ pipe' = pipe /\ isEnded' = isEnded
    BY <1>5 DEF DropBuffers
  <2>2. PipTypeOK /\ w \in Procs
    BY DEF PodPart, Procs
  <2> SUFFICES ASSUME NEW t \in Tasks, OneFeeder(t)
               PROVE  StreamOK(t)'
    BY <1>2, <2>1 DEF StreamsOK
  <2>3. /\ buf'[w][t] = <<>>
        /\ \A q \in Procs : q # w => buf'[q][t] = buf[q][t]
    BY <2>1, <2>2 DEF PipTypeOK
  <2>4. ASSUME w \in Feeders(t), NEW v \in Upstream(t)
        PROVE  At(v, "dead")'
    <3>1. Home(v) \in Feeders(t) /\ v \in Workers
      BY DEF Feeders, Upstream
    <3>2. Home(v) = w
      BY <2>4, <3>1, FeedersAreOne
    <3>3. v = w
      BY <3>2, MainIsNoWorker DEF Home
    <3> QED
      BY <1>2, <1>5, <3>3 DEF At
  <2>5. /\ StreamOK(t) /\ NoNewForward(t) /\ SamePipe(t) /\ SameEnded(t)
        /\ SameSent(t) /\ SameReceived(t)
    BY <1>2, <1>3, <2>1 DEF StreamsOK, NoNewForward, SamePipe, SameEnded, SameSent,
       SameReceived, Workers
  <2> QED
    BY <1>1, <2>2, <2>3, <2>4, <2>5, DropKeepsStream
<1>6. UNCHANGED isEnded
  BY DEF Interrupt, DropBuffers, pipVars
<1> QED
  BY <1>2, <1>4, <1>5, <1>6 DEF Interrupt, At

(***************************************************************************)
(* The theorems                                                            *)
(***************************************************************************)

\* What Broadcast.send has to put, for one worker.
TodoOf(w) ==
  pc[w] \in {"send", "end"} =>
    \A i \in DOMAIN todo[w] :
      /\ Feeds(w[1], todo[w][i][1])
      /\ At(w, "end") => todo[w][i][2] = EndCmd

\* It stays right when only w moves, and w's part does.
LEMMA TodoOfOthers ==
  ASSUME TodoOK, NEW w \in Workers, TodoOf(w)',
         \A v \in Workers : v # w => pc'[v] = pc[v] /\ todo'[v] = todo[v]
  PROVE  TodoOK'
BY DEF TodoOK, TodoOf, At

\* No step of a worker breaks it.
LEMMA WorkerStepKeepsTodo ==
  ASSUME PodPart, TodoOK, NEW w \in Workers,
         WorkerStep(w) \/ Fail(w) \/ StartWorker(w) \/ Interrupt(w)
  PROVE  TodoOK'
<1> USE DEF PodPart, PodTypeOK
<1>1. \A v \in Workers : v # w => pc'[v] = pc[v]
  BY WorkerStepIsOnward
<1>2. ASSUME NEW m, Broadcast(w, m)
      PROVE  /\ \A i \in DOMAIN todo'[w] : Feeds(w[1], todo'[w][i][1]) /\ todo'[w][i][2] = m
             /\ \A v \in Workers : v # w => todo'[v] = todo[v]
  <2> DEFINE next == Nexts[w[1]]
  <2>1. /\ todo'[w] = [i \in DOMAIN next |-> <<next[i], m>>]
        /\ \A v \in Workers : v # w => todo'[v] = todo[v]
    BY <1>2 DEF Broadcast
  <2>2. DOMAIN todo'[w] = DOMAIN next
    BY <2>1
  <2> QED
    BY <2>1, <2>2 DEF Feeds
<1>3. ASSUME PutNext(w), TodoOf(w), pc[w] \in {"send", "end"},
             pc'[w] = "end" => pc[w] = "end"
      PROVE  TodoOf(w)' /\ \A v \in Workers : v # w => todo'[v] = todo[v]
  <2>1. /\ todo[w] # <<>> /\ todo[w] \in Seq(Tasks \X Messages)
        /\ todo'[w] = Tail(todo[w])
        /\ \A v \in Workers : v # w => todo'[v] = todo[v]
    BY <1>3 DEF PutNext
  <2>2. \A i \in DOMAIN todo'[w] : i + 1 \in DOMAIN todo[w] /\ todo'[w][i] = todo[w][i + 1]
    BY <2>1, LenProperties, HeadTailProperties, EmptySeq
  <2> QED
    BY <1>3, <2>1, <2>2 DEF TodoOf, At
<1>4. TodoOf(w)
  BY DEF TodoOK, TodoOf
<1>5. CASE \/ Produce(w) \/ ReceiveItem(w)
  <2>1. PICK x : SendData(w, x)
    BY <1>5 DEF Produce, ReceiveItem
  <2>2. Broadcast(w, Data(x)) /\ pc'[w] # "end"
    BY <2>1 DEF SendData, GoTo
  <2>3. TodoOf(w)'
    BY <1>2, <2>2 DEF TodoOf, At
  <2> QED
    BY <1>1, <1>2, <2>2, <2>3, TodoOfOthers
<1>6. CASE SendNext(w) \/ SendEnd(w)
  <2>1. /\ PutNext(w) /\ pc[w] \in {"send", "end"}
        /\ pc'[w] = "end" => pc[w] = "end"
    BY <1>6 DEF SendNext, SendEnd, GoTo, At
  <2> QED
    BY <1>1, <1>3, <1>4, <2>1, TodoOfOthers
<1>7. CASE WorkerDone(w) \/ InlineDone(w)
  <2>1. CASE Broadcast(w, EndCmd)
    <3>1. TodoOf(w)'
      BY <1>2, <2>1 DEF TodoOf
    <3> QED
      BY <1>1, <1>2, <2>1, <3>1, TodoOfOthers
  <2>2. CASE pc'[w] = "exit" /\ UNCHANGED todo
    BY <1>1, <2>2, TodoOfOthers DEF TodoOf
  <2> QED
    BY <1>7, <2>1, <2>2 DEF WorkerDone, InlineDone, GoTo
<1>8. CASE \/ StartGet(w) \/ ReceiveEnd(w) \/ Forward(w) \/ GetEmpty(w)
           \/ Return(w) \/ StartClean(w) \/ Cleaned(w) \/ Exit(w)
           \/ Fail(w) \/ StartWorker(w)
  <2>1. todo' = todo /\ pc'[w] \notin {"send", "end"}
    BY <1>8 DEF StartGet, ReceiveEnd, Forward, GetEmpty, Return, StartClean,
       Cleaned, Exit, Fail, StartWorker, GoTo
  <2> QED
    BY <1>1, <2>1, TodoOfOthers DEF TodoOf
<1>9. CASE Clean(w)
  BY <1>9 DEF Clean, podVars, TodoOK, At
<1>10. CASE Interrupt(w)
  <2>1. /\ pc'[w] \in {"rest", "done", "exit", "dead"}
        /\ \A v \in Workers : v # w => todo'[v] = todo[v]
    BY <1>10, InterruptGoes DEF Interrupt
  <2> QED
    BY <1>1, <2>1, TodoOfOthers DEF TodoOf
<1> QED
  BY <1>5, <1>6, <1>7, <1>8, <1>9, <1>10 DEF WorkerStep

\* What every worker step does to the streams.
LEMMA WorkerStepKeepsStreams ==
  ASSUME PodPart, AloneInv, TodoOK, StreamsOK, NEW w \in Workers,
         WorkerStep(w) \/ Fail(w) \/ StartWorker(w) \/ Interrupt(w)
  PROVE  StreamsOK' /\ StreamsMove
<1>1. OnwardStep /\ \A v \in Workers : v # w => pc'[v] = pc[v]
  BY WorkerStepIsOnward
<1>2. CASE SendNext(w) \/ ReceiveItem(w) \/ ReceiveEnd(w)
  BY <1>2, SendNextKeepsStreams, ReceiveItemKeepsStreams, ReceiveEndKeepsStreams
<1>3. CASE SendEnd(w) \/ Forward(w) \/ Clean(w) \/ Interrupt(w)
  <2>1. UNCHANGED <<sent, received, isEnded>>
    BY <1>3, InterruptKeepsStreams DEF SendEnd, PutNext, Put, Forward, Clean,
       CleanOne, history, podVars
  <2> QED
    BY <1>3, <2>1, StutterMoves, SendEndKeepsStreams, ForwardKeepsStreams,
       CleanKeepsStreams, InterruptKeepsStreams
<1>4. CASE \/ Produce(w) \/ StartGet(w) \/ GetEmpty(w) \/ Return(w)
           \/ WorkerDone(w) \/ InlineDone(w) \/ StartClean(w) \/ Cleaned(w)
           \/ Exit(w) \/ Fail(w) \/ StartWorker(w)
  <2>1. UNCHANGED <<pipVars, sent, received>> /\ pc'[w] # "forward"
    BY <1>4 DEF Produce, SendData, StartGet, GetEmpty, Return, WorkerDone,
       InlineDone, StartClean, Cleaned, Exit, Fail, StartWorker, GoTo, history,
       PodPart, PodTypeOK
  <2>2. \A v \in Workers : At(v, "forward")' => At(v, "forward")
    BY <1>1, <2>1 DEF At
  <2>3. UNCHANGED <<sent, received, isEnded>>
    BY <2>1 DEF pipVars
  <2> QED
    BY <1>1, <2>1, <2>2, <2>3, PipStutterKeepsStreams, StutterMoves
<1> QED
  BY <1>2, <1>3, <1>4 DEF WorkerStep

\* The inductive invariant behind the streams.
StreamInv == PodPart /\ MainPart /\ AloneInv /\ TodoOK /\ StreamsOK

LEMMA NextKeepsStreams ==
  ASSUME StreamInv, [Next]_vars
  PROVE  StreamInv' /\ StreamsMove
<1> USE DEF StreamInv
<1>1. (PodPart /\ MainPart /\ AloneInv)'
  BY NextKeepsTypes, NextKeepsAlone
<1>2. ASSUME NEW w \in Workers,
             WorkerStep(w) \/ Fail(w) \/ StartWorker(w) \/ Interrupt(w)
      PROVE  StreamInv' /\ StreamsMove
  BY <1>1, <1>2, WorkerStepKeepsTodo, WorkerStepKeepsStreams
<1>3. CASE \E p \in Procs, t \in Tasks : Feeder(p, t)
  <2>1. TodoOK' /\ StreamsMove
    BY <1>3, StutterMoves DEF Feeder, Flush, podVars, history, TodoOK, At
  <2> QED
    BY <1>1, <1>3, <2>1, FeederKeepsStreams
<1>4. CASE UNCHANGED <<pipVars, podVars>>
  <2>1. OnwardStep
    BY <1>4 DEF OnwardStep, Past, At, podVars
  <2>2. UNCHANGED <<pipVars, sent, received, isEnded, pc, todo>>
    BY <1>4 DEF pipVars, podVars, history
  <2>3. StreamsOK' /\ StreamsMove
    BY <2>1, <2>2, PipStutterKeepsStreams, StutterMoves DEF At
  <2> QED
    BY <1>1, <2>2, <2>3 DEF TodoOK, At
<1>5. CASE MainStep \/ InterruptJoin \/ InterruptStart
  <2>1. CASE StartPodWorker \/ StartInline
    BY <1>2, <2>1, CursorFacts DEF StartPodWorker, StartInline
  <2>2. CASE \E w \in Workers : KillWorker(w)
    BY <1>4, <2>2 DEF KillWorker
  <2>3. CASE \/ BeforeTask \/ StartStopped \/ EndInline \/ StartDone
             \/ JoinWorker \/ JoinDone \/ AfterTask \/ NextRound
             \/ InterruptJoin \/ InterruptStart
    BY <1>4, <2>3 DEF BeforeTask, StartStopped, EndInline, StartDone, JoinWorker,
       JoinDone, AfterTask, NextRound, InterruptJoin, InterruptStart
  <2> QED
    BY <1>5, <2>1, <2>2, <2>3 DEF MainStep
<1>6. CASE UNCHANGED vars
  BY <1>4, <1>6 DEF vars
<1>7. CASE \E w \in Workers : HandleSignal(w)
  BY <1>2, <1>4, <1>7 DEF HandleSignal
<1> QED
  BY <1>2, <1>3, <1>4, <1>5, <1>6, <1>7 DEF Next, Terminated, vars

\* At the start every pip is empty.
LEMMA InitIsStream ==
  ASSUME Init
  PROVE  StreamInv
<1>1. PodPart /\ MainPart /\ AloneInv
  BY InitHasTypes, InitIsAlone
<1>2. TodoOK
  BY DEF Init, PodInit, TodoOK
<1>3. ASSUME NEW t \in Tasks PROVE StreamOK(t)
  <2>1. /\ pipe[t] = <<>> /\ sent[t] = {} /\ received[t] = {}
        /\ \A p \in Procs : buf[p][t] = <<>> /\ ~ isEnded[p][t]
        /\ \A w \in Workers : pc[w] = "off"
    BY <1>3 DEF Init, PipInit, PodInit
  <2>2. ~ Ended(t) /\ \A w \in WorkersOf(t) : ~ At(w, "forward")
    BY <2>1 DEF Ended, At, Workers
  <2> QED
    BY <2>1, <2>2, NoMessages DEF StreamOK, PlaceOK, ClosedOK, OrderOK, SentOK,
       KeptOK, Conserved
<1> QED
  BY <1>1, <1>2, <1>3 DEF StreamInv, StreamsOK

\* The streams of a tree, wherever the upstream task sends through one feeder.
THEOREM StreamInvariance == Spec => []StreamInv
<1>1. Init => StreamInv
  BY InitIsStream
<1>2. StreamInv /\ [Next]_vars => StreamInv'
  BY NextKeepsStreams
<1> QED
  BY <1>1, <1>2, PTL DEF Spec

\* The end command tells the truth, whatever workers fail, return early or are
\* killed: who has received it knows that every item sent to the task has been
\* given to a user function.
THEOREM EndsTellTheTruth == Spec => []EndMeansAllReceived
<1>1. StreamInv => EndMeansAllReceived
  BY DEF StreamInv, StreamsOK, StreamOK, KeptOK, EndMeansAllReceived
<1> QED
  BY <1>1, StreamInvariance, PTL

\* send_data, recv_data and end_cmd of one pip implement DataStream: a step of the
\* tree is a step of the stream of Pip, or a stutter.
THEOREM StreamIsImplemented ==
  ASSUME OneFeeder(Pip)
  PROVE  Spec => ImplementsDataStream
<1>1. Init => Stream!StreamInit
  <2>1. Pip \in Tasks
    BY PipStreamAssumption
  <2> QED
    BY <2>1 DEF Init, PipInit, PodInit, Ended, Stream!StreamInit
<1>2. StreamInv /\ [Next]_vars
        => [Stream!Send \/ Stream!Receive \/ Stream!End]_(Stream!streamVars)
  <2> SUFFICES ASSUME StreamInv, [Next]_vars
               PROVE  \/ Stream!Send \/ Stream!Receive \/ Stream!End
                      \/ UNCHANGED Stream!streamVars
    OBVIOUS
  <2>1. Pip \in Tasks /\ OneFeeder(Pip)
    BY PipStreamAssumption
  <2>2. StreamMove(Pip) /\ StreamOK(Pip)
    BY <2>1, NextKeepsStreams DEF StreamsMove, StreamInv, StreamsOK
  <2>3. (Ended(Pip)' <=> Ended(Pip)) => Ended(Pip)' = Ended(Pip)
    BY DEF Ended
  <2>4. Ended(Pip)' => Ended(Pip)' = TRUE
    BY DEF Ended
  <2>5. ASSUME NEW x \in sent[Pip], received'[Pip] = received[Pip] \cup {x},
               ~ Ended(Pip), SameSent(Pip), Ended(Pip)' = Ended(Pip)
        PROVE  Stream!Receive \/ UNCHANGED Stream!streamVars
    <3>1. CASE x \in received[Pip]
      BY <2>5, <3>1 DEF SameSent, Stream!streamVars
    <3>2. CASE x \notin received[Pip]
      BY <2>5, <3>2 DEF SameSent, Stream!Receive
    <3> QED
      BY <3>1, <3>2
  <2> QED
    BY <2>2, <2>3, <2>4, <2>5 DEF StreamMove, SameSent, SameReceived, Stream!Send,
       Stream!End, Stream!streamVars
<1> QED
  BY <1>1, <1>2, StreamInvariance, PTL DEF Spec, ImplementsDataStream,
     Stream!StreamSpec

-----------------------------------------------------------------------------
(***************************************************************************)
(* What the last worker of a task throws away                              *)
(***************************************************************************)

\* Where the main process has not begun to kill workers.
Unkilled == mainPc \in {"hooks", "start", "inline", "join"}

\* Who reads to the end is done only when it was told the end, as long as no SIGINT
\* has stopped it before.
Told(w) ==
  /\ HasUpstream(w[1]) /\ Patient(w[1])
  /\ Unkilled \/ ~ MayInterrupt
  /\ pc[w] \in {"done", "end", "clean", "exit", "dead"}
  => isEnded[Home(w)][w[1]]
ToldOK == \A w \in Workers : Told(w)

\* Nothing is sent to a task without upstream.
RootOK == \A t \in Tasks : ~ HasUpstream(t) => sent[t] = {}

\* A round of the kill loop looks at the workers that are to be killed only.
PendingOK == mainPc = "kill" => pending \subseteq toKill

\* A SIGINT is on its way only once the main process kills, and then, unless it was
\* interrupted itself, only to workers whose task function is over.
SignalOK ==
  /\ Unkilled => signalled = {}
  /\ ~ MayInterrupt => \A w \in signalled : pc[w] \in Gone

\* So a worker whose recv was interrupted tells of a main process that was, too.
RestOK == \A w \in Workers : At(w, "rest") => ~ Unkilled /\ MayInterrupt

CleanInv ==
  StreamInv /\ MainInv /\ ToldOK /\ RootOK /\ PendingOK /\ SignalOK /\ RestOK

\* A flag that is set stays set.
LEMMA FlagsStay ==
  ASSUME PodPart, NEW w \in Workers, WorkerStep(w) \/ Fail(w) \/ StartWorker(w) \/ Interrupt(w)
  PROVE  \A p \in Procs, t \in Tasks : isEnded[p][t] => isEnded'[p][t]
<1>1. isEnded \in [Procs -> [Tasks -> BOOLEAN]]
  BY DEF PodPart, PipTypeOK
<1>2. CASE ReceiveEnd(w)
  <2>1. isEnded' = [isEnded EXCEPT ![Home(w)][w[1]] = TRUE]
    BY <1>2 DEF ReceiveEnd, RecvEnd
  <2> QED
    BY <1>1, <2>1
<1>3. CASE ~ ReceiveEnd(w)
  <2>1. isEnded' = isEnded
    BY <1>3 DEF WorkerStep, Produce, SendNext, StartGet, ReceiveItem, Forward, GetEmpty,
       Return, WorkerDone, InlineDone, SendEnd, StartClean, Clean, Cleaned, Exit, Fail,
       StartWorker, Interrupt, PutNext, Put, RecvItem, CleanOne, DropBuffers, pipVars
  <2> QED
    BY <2>1
<1> QED
  BY <1>2, <1>3

\* A worker gets to the end of its function when it was told the end; a SIGINT of
\* forceStop finds it behind that end.
LEMMA WorkerStepIsTold ==
  ASSUME PodPart, ToldOK, NEW w \in Workers,
         \/ WorkerStep(w) \/ Fail(w) \/ StartWorker(w)
         \/ Interrupt(w) /\ ~ Unkilled' /\ (MayInterrupt \/ pc[w] \in Gone),
         Unkilled' => Unkilled, RestOK
  PROVE  ToldOK'
<1>1. /\ \A v \in Workers : v # w => pc'[v] = pc[v]
      /\ \A p \in Procs, t \in Tasks : isEnded[p][t] => isEnded'[p][t]
  BY WorkerStepIsOnward, FlagsStay
<1>2. \A v \in Workers : Home(v) \in Procs /\ v[1] \in Tasks
  BY WorkerOfItsTask DEF Home, Procs
<1>3. pc \in [Workers -> Locations]
  BY DEF PodPart, PodTypeOK
<1>4. ASSUME HasUpstream(w[1]), Patient(w[1]), Unkilled' \/ ~ MayInterrupt,
             pc'[w] \in {"done", "end", "clean", "exit", "dead"}
      PROVE  isEnded[Home(w)][w[1]]
  <2>1. CASE Return(w)
    <3>1. ~ At(w, "rest")
      BY <1>4 DEF RestOK
    <3> QED
      BY <1>4, <2>1, <3>1 DEF Return, Patient
  <2>2. CASE Fail(w)
    <3>1. PICK e \in Nat, m \in Nat, r \in Nat :
             e = errors[w] /\ m = MaxErrors[w[1]] /\ r = RestartMax[w[1]]
      BY <1>2, PodAssumption DEF PodPart, PodTypeOK
    <3>2. e < m /\ m <= r
      BY <1>4, <2>2, <3>1 DEF Fail, Patient
    <3>3. e + 1 <= r
      BY <3>1, <3>2
    <3>4. pc' = [pc EXCEPT ![w] = pc[w]] /\ pc[w] \in {"task", "rest"}
      BY <2>2, <3>1, <3>3 DEF Fail, GoTo
    <3> QED
      BY <1>3, <1>4, <3>4
  <2>3. CASE Interrupt(w) /\ ~ Unkilled' /\ (MayInterrupt \/ pc[w] \in Gone)
    <3>1. pc[w] \in Gone
      BY <1>4, <2>3
    <3> QED
      BY <1>4, <3>1 DEF ToldOK, Told, Gone
  <2>4. CASE GetEmpty(w)
    BY <1>4, <2>4 DEF GetEmpty, Patient
  <2>5. CASE \/ WorkerDone(w) \/ InlineDone(w) \/ SendEnd(w) \/ StartClean(w) \/ Clean(w)
             \/ Cleaned(w) \/ Exit(w)
    <3>1. pc[w] \in {"done", "end", "clean", "exit"}
      BY <2>5 DEF WorkerDone, InlineDone, SendEnd, StartClean, Clean, Cleaned, Exit, At
    <3> QED
      BY <1>4, <3>1 DEF ToldOK, Told
  <2>6. CASE \/ Produce(w) \/ SendNext(w) \/ StartGet(w) \/ ReceiveItem(w) \/ ReceiveEnd(w)
             \/ Forward(w) \/ StartWorker(w)
    <3>1. pc'[w] \in {"task", "get", "send", "forward"}
      BY <1>3, <2>6 DEF Produce, SendNext, StartGet, ReceiveItem, ReceiveEnd, Forward,
         StartWorker, SendData, GoTo
    <3> QED
      BY <1>4, <3>1
  <2> QED
    BY <2>1, <2>2, <2>3, <2>4, <2>5, <2>6 DEF WorkerStep
<1>5. Told(w)'
  BY <1>1, <1>2, <1>4 DEF Told
<1>6. ASSUME NEW v \in Workers, v # w PROVE Told(v)'
  BY <1>1, <1>2, <1>6 DEF Told, ToldOK
<1> QED
  BY <1>5, <1>6 DEF ToldOK

\* Who sends, sends to a task that has an upstream.
LEMMA WorkerStepKeepsRoots ==
  ASSUME PodPart, TodoOK, RootOK, NEW w \in Workers,
         WorkerStep(w) \/ Fail(w) \/ StartWorker(w) \/ Interrupt(w)
  PROVE  RootOK'
<1>1. CASE SendNext(w)
  <2>1. todo[w] \in Seq(Tasks \X Messages) /\ todo[w] # <<>> /\ w[1] \in Tasks
    BY <1>1, WorkerOfItsTask DEF SendNext, PutNext, PodPart, PodTypeOK
  <2>2. 1 \in DOMAIN todo[w] /\ Head(todo[w]) = todo[w][1]
    BY <2>1, LenProperties, HeadTailProperties, EmptySeq
  <2>3. HasUpstream(Head(todo[w])[1])
    BY <1>1, <2>1, <2>2 DEF SendNext, At, TodoOK, HasUpstream
  <2>4. sent' = [sent EXCEPT ![Head(todo[w])[1]] = @ \cup {Head(todo[w])[2].item}]
    BY <1>1 DEF SendNext
  <2>5. sent \in [Tasks -> SUBSET Items]
    BY DEF PodPart, PodTypeOK
  <2> QED
    BY <2>3, <2>4, <2>5 DEF RootOK
<1>2. CASE ~ SendNext(w)
  <2>1. sent' = sent
    BY <1>2 DEF WorkerStep, Produce, StartGet, ReceiveItem, ReceiveEnd, Forward, GetEmpty,
       Return, WorkerDone, InlineDone, SendEnd, StartClean, Clean, Cleaned, Exit, Fail,
       StartWorker, Interrupt, podVars, history
  <2> QED
    BY <2>1 DEF RootOK
<1> QED
  BY <1>1, <1>2

\* Once it kills, the main process goes on to its end.
LEMMA NextStaysKilled ==
  ASSUME [Next]_vars, Unkilled'
  PROVE  Unkilled
BY DEF Unkilled, Next, MainStep, BeforeTask, StartStopped, StartPodWorker, StartInline,
   EndInline, StartDone, JoinWorker, JoinDone, AfterTask, KillWorker, NextRound,
   InterruptJoin, InterruptStart, HandleSignal, Terminated, MainGoTo, mainVars, vars

\* Nothing but the SIGINT of a main process that was interrupted takes a worker to
\* the rest of its user function.
LEMMA StepKeepsRest ==
  ASSUME PodPart, RestOK, NEW w \in Workers,
         \/ WorkerStep(w) \/ Fail(w) \/ StartWorker(w)
         \/ Interrupt(w) /\ ~ Unkilled' /\ (MayInterrupt \/ pc[w] \in Gone),
         Unkilled' => Unkilled
  PROVE  RestOK'
<1>1. /\ \A v \in Workers : v # w => pc'[v] = pc[v]
      /\ pc \in [Workers -> Locations]
  BY WorkerStepIsOnward DEF PodPart, PodTypeOK
<1>2. CASE WorkerStep(w) \/ Fail(w) \/ StartWorker(w)
  <2>1. pc'[w] = "rest" => pc[w] = "rest"
    BY <1>1, <1>2 DEF WorkerStep, Produce, SendNext, StartGet, ReceiveItem, ReceiveEnd, Forward,
       GetEmpty, Return, WorkerDone, InlineDone, SendEnd, StartClean, Clean, Cleaned, Exit, Fail,
       StartWorker, SendData, GoTo, At, podVars
  <2> QED
    BY <1>1, <2>1 DEF RestOK, At
<1>3. CASE Interrupt(w) /\ ~ Unkilled' /\ (MayInterrupt \/ pc[w] \in Gone)
  <2>1. pc'[w] = "rest" => MayInterrupt
    BY <1>3, InterruptGoes DEF Gone
  <2> QED
    BY <1>1, <1>3, <2>1 DEF RestOK, At
<1> QED
  BY <1>2, <1>3

\* The kill loop and the SIGINTs it sends.
LEMMA NextKeepsSignals ==
  ASSUME CleanInv, [Next]_vars
  PROVE  PendingOK' /\ SignalOK'
<1>1. PodPart /\ MainPart /\ MainInv
  BY DEF CleanInv, StreamInv
<1>2. PendingOK'
  <2>1. CASE UNCHANGED mainVars
    BY <2>1 DEF CleanInv, PendingOK, mainVars
  <2>2. CASE MainStep \/ InterruptJoin \/ InterruptStart
    BY <2>2 DEF CleanInv, PendingOK, MainStep, BeforeTask, StartStopped, StartPodWorker,
       StartInline, EndInline, StartDone, JoinWorker, JoinDone, AfterTask, KillWorker,
       NextRound, InterruptJoin, InterruptStart, MainGoTo
  <2>3. CASE \E w \in Workers : HandleSignal(w)
    BY <2>3 DEF CleanInv, PendingOK, HandleSignal
  <2> QED
    BY <2>1, <2>2, <2>3 DEF Next, Terminated, vars
<1> SUFFICES SignalOK'
  BY <1>2
<1>3. SignalOK /\ signalled \subseteq Workers /\ (Unkilled' => Unkilled)
  BY <1>1, NextStaysKilled DEF CleanInv, MainPart, MainTypeOK
<1>4. FinalStep => \A w \in Workers : pc[w] \in Gone => pc'[w] \in Gone
  BY DEF FinalStep
<1>5. ASSUME signalled' \subseteq signalled, FinalStep PROVE SignalOK'
  BY <1>3, <1>4, <1>5 DEF SignalOK
<1>6. ASSUME UNCHANGED podVars PROVE FinalStep
  BY <1>6 DEF FinalStep, At, podVars
<1>7. CASE \E w \in Workers : (WorkerStep(w) \/ Fail(w)) /\ UNCHANGED mainVars
  BY <1>1, <1>5, <1>7, WorkerStepIsFinal DEF mainVars
<1>8. CASE \/ \E p \in Procs, t \in Tasks : Feeder(p, t) /\ UNCHANGED mainVars
           \/ UNCHANGED vars
  BY <1>5, <1>6, <1>8 DEF Feeder, vars, mainVars
<1>9. CASE \E w \in Workers : HandleSignal(w)
  BY <1>1, <1>5, <1>6, <1>9, WorkerStepIsFinal DEF HandleSignal
<1>10. CASE StartPodWorker \/ StartInline
  BY <1>1, <1>5, <1>10, WorkerStepIsFinal, CursorFacts DEF StartPodWorker, StartInline
<1>11. CASE \/ BeforeTask \/ StartStopped \/ EndInline \/ StartDone
            \/ JoinWorker \/ JoinDone \/ AfterTask \/ NextRound
            \/ InterruptJoin \/ InterruptStart
  BY <1>5, <1>6, <1>11 DEF BeforeTask, StartStopped, EndInline, StartDone, JoinWorker,
     JoinDone, AfterTask, NextRound, InterruptJoin, InterruptStart
<1>12. CASE \E w \in Workers : KillWorker(w)
  <2>1. PICK w \in Workers : KillWorker(w)
    BY <1>12
  <2>2. /\ mainPc = "kill" /\ mainPc' = "kill" /\ w \in toKill /\ pc' = pc
        /\ signalled' \in {signalled, signalled \cup {w}}
    BY <2>1 DEF KillWorker, CleanInv, PendingOK, podVars
  <2>3. ~ MayInterrupt => pc[w] \in Gone
    BY <1>1, <2>2 DEF MainInv, KillOK, AllGone
  <2> QED
    BY <1>3, <2>2, <2>3 DEF SignalOK, Unkilled
<1> QED
  BY <1>7, <1>8, <1>9, <1>10, <1>11, <1>12 DEF Next, MainStep, Terminated

LEMMA NextKeepsClean ==
  ASSUME CleanInv, [Next]_vars
  PROVE  CleanInv'
<1>1. StreamInv /\ MainInv /\ PodPart /\ MainPart /\ AloneInv /\ TodoOK /\ SignalOK
  BY DEF CleanInv, StreamInv
<1>2. StreamInv' /\ MainInv'
  BY <1>1, NextKeepsStreams, NextKeepsMain
<1>3. PendingOK' /\ SignalOK'
  BY NextKeepsSignals
<1>4. Unkilled' => Unkilled
  BY NextStaysKilled
<1>5. ASSUME NEW w \in Workers,
             \/ WorkerStep(w) \/ Fail(w) \/ StartWorker(w)
             \/ Interrupt(w) /\ ~ Unkilled' /\ (MayInterrupt \/ pc[w] \in Gone)
      PROVE  ToldOK' /\ RootOK' /\ RestOK'
  BY <1>1, <1>5, <1>4, WorkerStepIsTold, WorkerStepKeepsRoots, StepKeepsRest DEF CleanInv
<1>6. ASSUME UNCHANGED <<pc, isEnded, sent>> PROVE ToldOK' /\ RootOK' /\ RestOK'
  BY <1>6, <1>4 DEF CleanInv, ToldOK, Told, RootOK, RestOK, At
<1>7. CASE UNCHANGED podVars /\ UNCHANGED isEnded
  BY <1>2, <1>3, <1>6, <1>7 DEF podVars, history, CleanInv
<1>8. CASE MainStep \/ InterruptJoin \/ InterruptStart
  <2>1. CASE StartPodWorker \/ StartInline
    BY <1>1, <1>2, <1>3, <1>5, <2>1, CursorFacts DEF StartPodWorker, StartInline, CleanInv
  <2>2. CASE \/ BeforeTask \/ StartStopped \/ EndInline \/ StartDone
             \/ JoinWorker \/ JoinDone \/ AfterTask \/ NextRound
             \/ InterruptJoin \/ InterruptStart \/ \E w \in Workers : KillWorker(w)
    BY <1>7, <2>2 DEF BeforeTask, StartStopped, EndInline, StartDone, JoinWorker,
       JoinDone, AfterTask, NextRound, InterruptJoin, InterruptStart, KillWorker, pipVars
  <2> QED
    BY <1>8, <2>1, <2>2 DEF MainStep
<1>9. CASE \E w \in Workers : (WorkerStep(w) \/ Fail(w)) /\ UNCHANGED mainVars
  BY <1>2, <1>3, <1>5, <1>9 DEF CleanInv
<1>10. CASE (\E p \in Procs, t \in Tasks : Feeder(p, t)) \/ UNCHANGED vars
  BY <1>7, <1>10 DEF Feeder, Flush, vars, pipVars
<1>11. CASE \E w \in Workers : HandleSignal(w)
  <2>1. PICK w \in Workers : HandleSignal(w)
    BY <1>11
  <2>2. /\ mainPc' = mainPc /\ w \in signalled
        /\ Interrupt(w) \/ UNCHANGED <<pipVars, podVars>>
    BY <2>1 DEF HandleSignal
  <2>3. ~ Unkilled' /\ (MayInterrupt \/ pc[w] \in Gone)
    BY <1>1, <2>2 DEF SignalOK, Unkilled
  <2> QED
    BY <1>2, <1>3, <1>5, <1>7, <2>2, <2>3 DEF CleanInv, pipVars
<1> QED
  BY <1>8, <1>9, <1>10, <1>11 DEF Next, Terminated

\* No worker is started at first.
LEMMA InitIsClean ==
  ASSUME Init
  PROVE  CleanInv
<1>1. StreamInv
  BY InitIsStream
<1>2. /\ \A w \in Workers : pc[w] = "off"
      /\ \A t \in Tasks : sent[t] = {}
      /\ mainPc = "hooks" /\ cursor = First /\ toKill = {}
  BY DEF Init, PodInit
<1> QED
  BY <1>1, <1>2 DEF Init, CleanInv, MainInv, StartOK, JoinOK, KillOK, ToldOK, Told, RootOK,
     PendingOK, SignalOK, RestOK, At

\* The head of a pip that is cleaned is an end, never an item.
LEMMA CleanedIsEnd ==
  ASSUME CleanInv, NEW w \in Workers, OneFeeder(w[1]), ReadsToTheEnd(w[1]), Clean(w)
  PROVE  Head(pipe[w[1]]).type = "end"
<1>1. PICK t \in Tasks : t = w[1]
  BY WorkerOfItsTask
<1>2. StreamOK(t)
  BY <1>1 DEF CleanInv, StreamInv, StreamsOK
<1>3. DataOf(pipe[t]) = {}
  <2>1. CASE HasUpstream(t)
    <3>1. isEnded[Home(w)][t] /\ Home(w) \in Procs
      BY <1>1, <2>1 DEF CleanInv, ToldOK, Told, Clean, At, Home, Procs, ReadsToTheEnd
    <3> QED
      BY <1>2, <3>1 DEF StreamOK, OrderOK, Ended
  <2>2. CASE ~ HasUpstream(t)
    BY <1>2, <2>2 DEF CleanInv, RootOK, StreamOK, SentOK
  <2> QED
    BY <2>1, <2>2
<1>4. pipe[t] # <<>> /\ pipe[t] \in Seq(Messages)
  BY <1>1 DEF Clean, CleanOne, Get, CleanInv, StreamInv, PodPart, PipTypeOK
<1>5. 1 \in DOMAIN pipe[t] /\ Head(pipe[t]) = pipe[t][1] /\ pipe[t][1] \in Messages
  BY <1>4, LenProperties, HeadTailProperties, EmptySeq, ElementOfSeq
<1>6. \A x \in Items : Head(pipe[t]) # Data(x)
  BY <1>3, <1>5 DEF DataOf
<1> QED
  BY <1>1, <1>5, <1>6, MessageKinds

\* Cleaning throws no item away, wherever the upstream task sends through one
\* feeder and the user functions read to the end: for any tree, worker number,
\* mode, queue bound and restarts.
THEOREM CleaningLosesNothing == Spec => CleansOnlyEnds
<1>1. Init => CleanInv
  BY InitIsClean
<1>2. CleanInv /\ [Next]_vars => CleanInv'
  BY NextKeepsClean
<1>3. CleanInv /\ [Next]_vars
        => [\A w \in Workers : OneFeeder(w[1]) /\ ReadsToTheEnd(w[1]) /\ Clean(w)
              => Head(pipe[w[1]]).type = "end"]_vars
  BY CleanedIsEnd
<1> QED
  BY <1>1, <1>2, <1>3, PTL DEF Spec, CleansOnlyEnds

-----------------------------------------------------------------------------
(***************************************************************************)
(* Nobody waits for ever                                                   *)
(***************************************************************************)

\* How many ends a sequence of messages has.
Ends(s) == {i \in DOMAIN s : s[i].type = "end"}
EndsIn(s) == Cardinality(Ends(s))

\* They can be counted.
LEMMA EndsAreCounted ==
  ASSUME NEW s \in Seq(Messages)
  PROVE  /\ IsFiniteSet(Ends(s)) /\ EndsIn(s) \in Nat
         /\ EndsIn(s) = 0 <=> ~ HasEnd(s)
<1>1. Ends(s) \subseteq 1 .. Len(s) /\ Len(s) \in Nat
  BY LenProperties DEF Ends
<1>2. IsFiniteSet(1 .. Len(s))
  BY <1>1, FS_Interval
<1>3. IsFiniteSet(Ends(s)) /\ EndsIn(s) \in Nat
  BY <1>1, <1>2, FS_Subset, FS_CardinalityType DEF EndsIn
<1>4. Ends(s) = {} <=> ~ HasEnd(s)
  BY DEF Ends, HasEnd
<1>5. EndsIn(s) = 0 <=> Ends(s) = {}
  BY <1>3, FS_EmptySet DEF EndsIn
<1> QED
  BY <1>3, <1>4, <1>5

\* One more is put at the end,
LEMMA EndsOfAppend ==
  ASSUME NEW s \in Seq(Messages), NEW m \in Messages
  PROVE  EndsIn(Append(s, m)) = IF m.type = "end" THEN EndsIn(s) + 1 ELSE EndsIn(s)
<1> DEFINE n == Len(s) + 1
<1>1. /\ n \in Nat /\ DOMAIN s = 1 .. Len(s) /\ DOMAIN Append(s, m) = 1 .. n
      /\ \A i \in 1 .. Len(s) : Append(s, m)[i] = s[i]
      /\ Append(s, m)[n] = m
  BY LenProperties, AppendProperties
<1>2. IsFiniteSet(Ends(s)) /\ EndsIn(s) \in Nat
  BY EndsAreCounted
<1>3. /\ n \notin Ends(s)
      /\ Ends(Append(s, m)) = IF m.type = "end" THEN Ends(s) \cup {n} ELSE Ends(s)
  BY <1>1, LenProperties DEF Ends
<1>4. Cardinality(Ends(s) \cup {n}) = EndsIn(s) + 1
  BY <1>2, <1>3, FS_AddElement DEF EndsIn
<1> QED
  BY <1>2, <1>3, <1>4 DEF EndsIn

\* and the first is taken away.
LEMMA EndsOfTail ==
  ASSUME NEW s \in Seq(Messages), s # <<>>
  PROVE  EndsIn(s) = IF Head(s).type = "end" THEN EndsIn(Tail(s)) + 1 ELSE EndsIn(Tail(s))
<1> DEFINE shift == [i \in Ends(Tail(s)) |-> i + 1]
           later == {i \in Ends(s) : i # 1}
<1>1. /\ Len(s) \in Nat /\ Len(s) > 0 /\ DOMAIN s = 1 .. Len(s)
      /\ Tail(s) \in Seq(Messages) /\ Len(Tail(s)) = Len(s) - 1
      /\ DOMAIN Tail(s) = 1 .. Len(s) - 1
      /\ \A i \in 1 .. Len(s) - 1 : Tail(s)[i] = s[i + 1]
      /\ Head(s) = s[1]
  BY LenProperties, HeadTailProperties, EmptySeq
<1>2. IsFiniteSet(Ends(s)) /\ IsFiniteSet(Ends(Tail(s))) /\ EndsIn(Tail(s)) \in Nat
  BY <1>1, EndsAreCounted
<1>3. shift \in Bijection(Ends(Tail(s)), later)
  <2>1. shift \in [Ends(Tail(s)) -> later]
    BY <1>1 DEF Ends
  <2>2. \A i, j \in Ends(Tail(s)) : shift[i] = shift[j] => i = j
    BY <1>1 DEF Ends
  <2>3. \A j \in later : \E i \in Ends(Tail(s)) : shift[i] = j
    <3> SUFFICES ASSUME NEW j \in later PROVE \E i \in Ends(Tail(s)) : shift[i] = j
      OBVIOUS
    <3>1. j \in 2 .. Len(s) /\ s[j].type = "end"
      BY <1>1 DEF Ends
    <3>2. j - 1 \in 1 .. Len(s) - 1 /\ Tail(s)[j - 1] = s[j]
      BY <1>1, <3>1
    <3>3. j - 1 \in Ends(Tail(s)) /\ shift[j - 1] = j
      BY <1>1, <3>1, <3>2 DEF Ends
    <3> QED
      BY <3>3
  <2> QED
    BY <2>1, <2>2, <2>3 DEF Bijection, Injection, Surjection, IsInjective
<1>4. ExistsBijection(Ends(Tail(s)), later)
  BY <1>3 DEF ExistsBijection
<1>5. IsFiniteSet(later) /\ Cardinality(later) = EndsIn(Tail(s))
  BY <1>2, <1>4, FS_Bijection DEF EndsIn
<1>6. CASE Head(s).type = "end"
  <2>1. Ends(s) = later \cup {1} /\ 1 \notin later
    BY <1>1, <1>6 DEF Ends
  <2>2. Cardinality(later \cup {1}) = Cardinality(later) + 1
    BY <1>5, <2>1, FS_AddElement
  <2> QED
    BY <1>5, <1>6, <2>1, <2>2 DEF EndsIn
<1>7. CASE Head(s).type # "end"
  <2>1. Ends(s) = later
    BY <1>1, <1>7 DEF Ends
  <2> QED
    BY <1>5, <1>7, <2>1 DEF EndsIn
<1> QED
  BY <1>6, <1>7

\* The counts of a sequence of which no element, or an element more, is counted.
Positions(h) == {x \in (DOMAIN h) \X (Nat \ {0}) : x[2] <= h[x[1]]}

Grown(h, d) == [h EXCEPT ![d] = @ + 1]

\* A place that holds one message more adds one position.
LEMMA PositionsGrow ==
  ASSUME NEW D, NEW h \in [D -> Nat], NEW g \in [D -> Nat], NEW d \in D, g = Grown(h, d)
  PROVE  /\ IsFiniteSet(Positions(h)) <=> IsFiniteSet(Positions(g))
         /\ IsFiniteSet(Positions(h)) =>
              Cardinality(Positions(g)) = Cardinality(Positions(h)) + 1
<1> DEFINE x == <<d, h[d] + 1>>
<1>1. Positions(g) = Positions(h) \cup {x} /\ x \notin Positions(h)
  <2>1. /\ DOMAIN h = D /\ DOMAIN g = D /\ x \in D \X (Nat \ {0})
        /\ x[1] = d /\ x[2] = h[d] + 1
    OBVIOUS
  <2>2. ASSUME NEW y \in D \X (Nat \ {0})
        PROVE  y[2] <= g[y[1]] <=> y[2] <= h[y[1]] \/ y = x
    <3>1. y[1] \in D /\ y[2] \in Nat /\ y = <<y[1], y[2]>> /\ h[y[1]] \in Nat
      OBVIOUS
    <3>2. CASE y[1] = d
      <4>1. g[y[1]] = h[d] + 1
        BY <3>2 DEF Grown
      <4>2. y = x <=> y[2] = h[d] + 1
        BY <3>1, <3>2
      <4> QED
        BY <3>1, <3>2, <4>1, <4>2
    <3>3. CASE y[1] # d
      BY <3>1, <3>3 DEF Grown
    <3> QED
      BY <3>2, <3>3
  <2> QED
    BY <2>1, <2>2 DEF Positions
<1>2. IsFiniteSet(Positions(g)) => IsFiniteSet(Positions(h))
  BY <1>1, FS_Subset
<1>3. ASSUME IsFiniteSet(Positions(h))
      PROVE  /\ IsFiniteSet(Positions(h) \cup {x})
             /\ Cardinality(Positions(h) \cup {x}) = Cardinality(Positions(h)) + 1
  BY <1>1, <1>3, FS_AddElement
<1> QED
  BY <1>1, <1>2, <1>3

(***************************************************************************)
(* The ends in a pip                                                       *)
(***************************************************************************)

\* All the ends of a sequence of messages are m.
EndsAre(s, m) == \A i \in DOMAIN s : s[i].type = "end" => s[i] = m

\* The pip of t holds n ends, all of them m and all put by process p.
Carries(t, p, n, m) ==
  /\ \A q \in Procs : q # p => EndsIn(buf[q][t]) = 0
  /\ EndsIn(buf[p][t]) + EndsIn(pipe[t]) = n
  /\ EndsAre(buf[p][t], m) /\ EndsAre(pipe[t], m)

\* A message is put at the end of a sequence, or taken from its head.
LEMMA EndsAreOfAppend ==
  ASSUME NEW s \in Seq(Messages), NEW m, NEW a \in Messages,
         EndsAre(s, m), a.type = "end" => a = m
  PROVE  EndsAre(Append(s, a), m)
<1>1. /\ DOMAIN Append(s, a) = 1 .. Len(s) + 1 /\ Len(s) \in Nat
      /\ \A i \in 1 .. Len(s) : Append(s, a)[i] = s[i]
      /\ Append(s, a)[Len(s) + 1] = a /\ DOMAIN s = 1 .. Len(s)
  BY LenProperties, AppendProperties
<1> QED
  BY <1>1 DEF EndsAre

\* Taking the head leaves the other ends as they are.
LEMMA EndsAreOfTail ==
  ASSUME NEW s \in Seq(Messages), NEW m, s # <<>>, EndsAre(s, m)
  PROVE  EndsAre(Tail(s), m) /\ (Head(s).type = "end" => Head(s) = m)
<1>1. /\ Len(s) \in Nat /\ Len(s) > 0 /\ DOMAIN s = 1 .. Len(s)
      /\ Head(s) = s[1] /\ DOMAIN Tail(s) = 1 .. Len(s) - 1
      /\ \A i \in 1 .. Len(s) - 1 : Tail(s)[i] = s[i + 1]
  BY LenProperties, HeadTailProperties, EmptySeq
<1>2. \A i \in 1 .. Len(s) - 1 : i + 1 \in 1 .. Len(s)
  BY <1>1
<1> QED
  BY <1>1, <1>2 DEF EndsAre

\* A sequence without ends.
LEMMA NoEndsAre ==
  ASSUME NEW s \in Seq(Messages), EndsIn(s) = 0, NEW m
  PROVE  EndsAre(s, m) /\ (s # <<>> => Head(s).type # "end")
<1>1. ~ HasEnd(s)
  BY EndsAreCounted
<1>2. s # <<>> => 1 \in DOMAIN s /\ Head(s) = s[1]
  BY LenProperties, HeadTailProperties, EmptySeq
<1> QED
  BY <1>1, <1>2 DEF HasEnd, EndsAre

\* What a pip holds, counted.
LEMMA PipIsCounted ==
  ASSUME PipTypeOK, NEW t \in Tasks
  PROVE  /\ pipe[t] \in Seq(Messages) /\ EndsIn(pipe[t]) \in Nat
         /\ \A p \in Procs : buf[p][t] \in Seq(Messages) /\ EndsIn(buf[p][t]) \in Nat
<1>1. /\ pipe[t] \in Seq(Messages)
      /\ \A p \in Procs : buf[p][t] \in Seq(Messages)
  BY DEF PipTypeOK
<1> QED
  BY <1>1, EndsAreCounted

\* A pip without ends carries none of any kind from anyone.
LEMMA CarriesNone ==
  ASSUME PipTypeOK, NEW t \in Tasks, NEW p \in Procs, NEW m, Carries(t, p, 0, m)
  PROVE  /\ EndsIn(pipe[t]) = 0 /\ \A q \in Procs : EndsIn(buf[q][t]) = 0
         /\ \A q \in Procs : \A a : Carries(t, q, 0, a)
<1>1. EndsIn(pipe[t]) = 0 /\ EndsIn(buf[p][t]) = 0
  <2>1. PICK b \in Nat, c \in Nat : b = EndsIn(pipe[t]) /\ c = EndsIn(buf[p][t])
    BY PipIsCounted
  <2>2. c + b = 0
    BY <2>1 DEF Carries
  <2> QED
    BY <2>1, <2>2
<1>2. \A q \in Procs : EndsIn(buf[q][t]) = 0
  BY <1>1 DEF Carries
<1>3. ASSUME NEW q \in Procs, NEW a PROVE Carries(t, q, 0, a)
  BY <1>1, <1>2, PipIsCounted, NoEndsAre DEF Carries
<1> QED
  BY <1>1, <1>2, <1>3

\* Nothing is put and nothing taken,
LEMMA CarriesStays ==
  ASSUME NEW t \in Tasks, SameBuffers(t), SamePipe(t), NEW p \in Procs, NEW n, NEW m,
         Carries(t, p, n, m)
  PROVE  Carries(t, p, n, m)'
BY DEF Carries, SameBuffers, SamePipe

\* an item is put,
LEMMA CarriesPutData ==
  ASSUME PipTypeOK, NEW t \in Tasks, NEW q \in Procs, NEW a \in Messages, a.type # "end",
         buf'[q][t] = Append(buf[q][t], a),
         \A r \in Procs : r # q => buf'[r][t] = buf[r][t], SamePipe(t),
         NEW p \in Procs, NEW n, NEW m, Carries(t, p, n, m)
  PROVE  Carries(t, p, n, m)'
<1>1. buf[q][t] \in Seq(Messages)
  BY PipIsCounted
<1>2. EndsIn(buf'[q][t]) = EndsIn(buf[q][t])
  BY <1>1, EndsOfAppend
<1>3. EndsAre(buf[q][t], m) => EndsAre(buf'[q][t], m)
  BY <1>1, EndsAreOfAppend
<1>4. \A r \in Procs : EndsIn(buf'[r][t]) = EndsIn(buf[r][t])
  BY <1>2
<1>5. EndsAre(buf[p][t], m) => EndsAre(buf'[p][t], m)
  BY <1>3
<1>6. pipe'[t] = pipe[t]
  BY DEF SamePipe
<1> QED
  BY <1>4, <1>5, <1>6 DEF Carries

\* an end more is put by the process they come from,
LEMMA CarriesPutEnd ==
  ASSUME PipTypeOK, NEW t \in Tasks, NEW p \in Procs, NEW m \in Messages, m.type = "end",
         buf'[p][t] = Append(buf[p][t], m),
         \A r \in Procs : r # p => buf'[r][t] = buf[r][t], SamePipe(t),
         NEW n \in Nat, Carries(t, p, n, m)
  PROVE  Carries(t, p, n + 1, m)'
<1>1. buf[p][t] \in Seq(Messages)
  BY PipIsCounted
<1>2. EndsIn(buf'[p][t]) = EndsIn(buf[p][t]) + 1
  BY <1>1, EndsOfAppend
<1>3. EndsAre(buf'[p][t], m)
  BY <1>1, EndsAreOfAppend DEF Carries
<1>4. EndsIn(buf'[p][t]) + EndsIn(pipe[t]) = n + 1
  <2>1. PICK b \in Nat, c \in Nat : b = EndsIn(pipe[t]) /\ c = EndsIn(buf[p][t])
    BY PipIsCounted
  <2>2. c + b = n
    BY <2>1 DEF Carries
  <2> QED
    BY <1>2, <2>1, <2>2
<1>5. pipe'[t] = pipe[t]
  BY DEF SamePipe
<1> QED
  BY <1>3, <1>4, <1>5 DEF Carries

\* a feeder writes,
LEMMA CarriesFlushed ==
  ASSUME PipTypeOK, NEW t \in Tasks, NEW q \in Procs, buf[q][t] # <<>>,
         pipe'[t] = Append(pipe[t], Head(buf[q][t])), buf'[q][t] = Tail(buf[q][t]),
         \A r \in Procs : r # q => buf'[r][t] = buf[r][t],
         NEW p \in Procs, NEW n, NEW m, Carries(t, p, n, m)
  PROVE  Carries(t, p, n, m)'
<1> DEFINE a == Head(buf[q][t])
<1>1. buf[q][t] \in Seq(Messages) /\ pipe[t] \in Seq(Messages)
  BY PipIsCounted
<1>2. a \in Messages /\ Tail(buf[q][t]) \in Seq(Messages)
  BY <1>1, HeadTailProperties
<1>3. PICK b \in Nat, c \in Nat, d \in Nat :
         b = EndsIn(pipe[t]) /\ c = EndsIn(buf[q][t]) /\ d = EndsIn(Tail(buf[q][t]))
  BY <1>1, <1>2, EndsAreCounted
<1>4. c = IF a.type = "end" THEN d + 1 ELSE d
  BY <1>1, <1>3, EndsOfTail
<1>5. EndsIn(pipe'[t]) = IF a.type = "end" THEN b + 1 ELSE b
  BY <1>1, <1>2, <1>3, EndsOfAppend
<1>6. CASE q = p
  <2>1. c + b = n /\ EndsAre(buf[p][t], m) /\ EndsAre(pipe[t], m)
    BY <1>3, <1>6 DEF Carries
  <2>2. d + EndsIn(pipe'[t]) = n
    BY <1>4, <1>5, <2>1
  <2>3. EndsAre(buf'[p][t], m) /\ (a.type = "end" => a = m)
    BY <1>1, <1>6, <2>1, EndsAreOfTail
  <2>4. EndsAre(pipe'[t], m)
    BY <1>1, <1>2, <2>1, <2>3, EndsAreOfAppend
  <2> QED
    BY <1>3, <1>6, <2>2, <2>3, <2>4 DEF Carries
<1>7. CASE q # p
  <2>1. c = 0 /\ EndsAre(buf[p][t], m) /\ EndsAre(pipe[t], m)
    BY <1>3, <1>7 DEF Carries
  <2>2. d = 0 /\ EndsIn(pipe'[t]) = b /\ a.type # "end"
    BY <1>4, <1>5, <2>1
  <2>3. EndsAre(pipe'[t], m)
    BY <1>1, <1>2, <2>1, <2>2, EndsAreOfAppend
  <2>4. \A r \in Procs : r # p => EndsIn(buf'[r][t]) = 0
    BY <1>3, <2>2 DEF Carries
  <2> QED
    BY <1>3, <1>7, <2>1, <2>2, <2>3, <2>4 DEF Carries
<1> QED
  BY <1>6, <1>7

\* and a message is taken.
LEMMA CarriesTaken ==
  ASSUME PipTypeOK, NEW t \in Tasks, pipe[t] # <<>>, pipe'[t] = Tail(pipe[t]), SameBuffers(t),
         NEW p \in Procs, NEW n \in Nat, NEW m, Carries(t, p, n, m)
  PROVE  IF Head(pipe[t]).type = "end"
         THEN n > 0 /\ Head(pipe[t]) = m /\ Carries(t, p, n - 1, m)'
         ELSE Carries(t, p, n, m)'
<1>1. pipe[t] \in Seq(Messages)
  BY PipIsCounted
<1>2. Tail(pipe[t]) \in Seq(Messages)
  BY <1>1, HeadTailProperties
<1>3. PICK b \in Nat, c \in Nat, d \in Nat :
         b = EndsIn(pipe[t]) /\ c = EndsIn(buf[p][t]) /\ d = EndsIn(Tail(pipe[t]))
  BY <1>1, <1>2, PipIsCounted, EndsAreCounted
<1>4. b = IF Head(pipe[t]).type = "end" THEN d + 1 ELSE d
  BY <1>1, <1>3, EndsOfTail
<1>5. c + b = n /\ EndsAre(pipe[t], m)
  BY <1>3 DEF Carries
<1>6. EndsAre(pipe'[t], m) /\ (Head(pipe[t]).type = "end" => Head(pipe[t]) = m)
  BY <1>1, <1>5, EndsAreOfTail
<1>7. \A q \in Procs : buf'[q][t] = buf[q][t]
  BY DEF SameBuffers
<1>8. c = EndsIn(buf'[p][t]) /\ d = EndsIn(pipe'[t])
  BY <1>3, <1>7
<1>9. CASE Head(pipe[t]).type = "end"
  <2>1. n > 0 /\ c + d = n - 1
    BY <1>4, <1>5, <1>9
  <2> QED
    BY <1>6, <1>7, <1>8, <1>9, <2>1 DEF Carries
<1>10. CASE Head(pipe[t]).type # "end"
  <2>1. c + d = n
    BY <1>4, <1>5, <1>10
  <2> QED
    BY <1>6, <1>7, <1>8, <1>10, <2>1 DEF Carries
<1> QED
  BY <1>9, <1>10

(***************************************************************************)
(* The end of a stream, from the last sender to the last reader            *)
(***************************************************************************)

\* An upstream worker that has an end still to send to t.
Owing(w, t) ==
  ~ Past(w) \/ (At(w, "end") /\ \E i \in DOMAIN todo[w] : todo[w][i][1] = t)
Owes(t) == \E w \in Upstream(t) : Owing(w, t)

\* The workers of t that a message can still reach; those that were not told the
\* end; the ends that a worker has still to forward; and whether every worker of t
\* has a copy of the pip, hence an is_ended, of its own.
Waits(w) ==
  \/ At(w, "get")
  \/ ~ isEnded[Home(w)][w[1]] /\ pc[w] \in {"off", "task", "send"}
Waiting(t) == {w \in WorkersOf(t) : Waits(w)}
NotEnded(t) == {w \in WorkersOf(t) : ~ isEnded[Home(w)][t]}
ShareOf(f) == IF At(f, "forward") THEN toForward[f] ELSE 0
OwnCopies(t) == \A v, w \in WorkersOf(t) : Home(v) = Home(w) => v = w

\* The stream of t goes through these: no end is sent; one is under way; worker f
\* has received it and shares it with the others, and there are enough for all
\* who wait.
Fresh(t) == ~ Ended(t) /\ \A w \in WorkersOf(t) : ~ At(w, "forward")
NoEnd(t) == Fresh(t) /\ Carries(t, Main, 0, EndCmd)
EndComes(t) == Fresh(t) /\ \E p \in Procs : Carries(t, p, 1, EndCmd)
Enough(f, t, n) ==
  /\ Carries(t, Home(f), n, ForwardedEnd)
  /\ Cardinality(Waiting(t)) <= n + ShareOf(f)
  /\ OwnCopies(t) => Cardinality(NotEnded(t)) = n + ShareOf(f)
Sharing(f, t) ==
  /\ isEnded[Home(f)][t]
  /\ \A v \in WorkersOf(t) : At(v, "forward") => v = f
  /\ \E n \in Nat : Enough(f, t, n)
EndOK(t) ==
  IF Owes(t) THEN NoEnd(t)
  ELSE EndComes(t) \/ ReadersOver(t) \/ \E f \in WorkersOf(t) : Sharing(f, t)

\* The readers of t are as before, or wait no more.
ReadersStay(t) ==
  \A w \in WorkersOf(t) : /\ Waits(w)' => Waits(w)
                          /\ At(w, "forward")' => At(w, "forward")
                          /\ ShareOf(w)' = ShareOf(w)

\* The sets that are counted are finite.
LEMMA ReadersAreFinite ==
  ASSUME NEW t \in Tasks
  PROVE  /\ IsFiniteSet(Waiting(t)) /\ Cardinality(Waiting(t)) \in Nat
         /\ IsFiniteSet(NotEnded(t)) /\ Cardinality(NotEnded(t)) \in Nat
         /\ IsFiniteSet(Waiting(t)') /\ Cardinality(Waiting(t)') \in Nat
BY WorkersOfIsFinite, FS_Subset, FS_CardinalityType DEF Waiting, NotEnded

\* What a worker has to forward is a number, and more than none where it is.
LEMMA ShareIsNumber ==
  ASSUME PodPart, NEW f \in Workers
  PROVE  ShareOf(f) \in Nat /\ (At(f, "forward") => ShareOf(f) > 0)
BY DEF ShareOf, PodPart, PodTypeOK, ForwardOK

\* The pip carries what it did, the readers stay.
EndsStay(t) == \A p \in Procs : \A n \in Nat : \A m \in Messages :
                 Carries(t, p, n, m) => Carries(t, p, n, m)'

\* A step that neither puts nor takes an end of t leaves its stream where it is.
LEMMA QuietKeepsEnd ==
  ASSUME PodPart, NEW t \in Tasks, EndOK(t), OnwardStep, Owes(t)' <=> Owes(t),
         SameEnded(t), ReadersStay(t), EndsStay(t)
  PROVE  EndOK(t)'
<1>1. Fresh(t) => Fresh(t)'
  BY EndedIsKept DEF Fresh, ReadersStay
<1>2. Main \in Procs /\ EndCmd \in Messages /\ ForwardedEnd \in Messages
      /\ WorkersOf(t) \subseteq Workers
  BY MessageTypes DEF Procs, Workers
<1>3. NoEnd(t) => NoEnd(t)'
  BY <1>1, <1>2 DEF NoEnd, EndsStay
<1>4. EndComes(t) => EndComes(t)'
  BY <1>1, <1>2 DEF EndComes, EndsStay
<1>5. ASSUME NEW f \in WorkersOf(t), Sharing(f, t)
      PROVE  Sharing(f, t)'
  <2>1. Home(f) \in Procs /\ f \in Workers
    BY <1>2, WorkerOfItsTask
  <2>2. PICK n \in Nat : Enough(f, t, n)
    BY <1>5 DEF Sharing
  <2>3. Waiting(t)' \subseteq Waiting(t) /\ NotEnded(t)' = NotEnded(t)
    <3>1. \A w \in WorkersOf(t) : Home(w) \in Procs
      BY <1>2, WorkerOfItsTask
    <3> QED
      BY <3>1 DEF ReadersStay, Waiting, NotEnded, SameEnded
  <2>4. PICK c \in Nat, d \in Nat, s \in Nat :
           c = Cardinality(Waiting(t)) /\ d = Cardinality(Waiting(t)') /\ s = ShareOf(f)
    BY <2>1, ReadersAreFinite, ShareIsNumber
  <2>5. d <= c
    BY <2>3, <2>4, ReadersAreFinite, FS_Subset
  <2>6. c <= n + s /\ ShareOf(f)' = s
    BY <2>2, <2>4 DEF Enough, ReadersStay
  <2>7. d <= n + s
    BY <2>5, <2>6
  <2>8. Carries(t, Home(f), n, ForwardedEnd)'
    BY <1>2, <2>1, <2>2 DEF Enough, EndsStay
  <2>9. Enough(f, t, n)'
    BY <2>2, <2>3, <2>4, <2>6, <2>7, <2>8 DEF Enough
  <2> QED
    BY <1>5, <2>1, <2>9 DEF Sharing, SameEnded, ReadersStay
<1>6. ReadersOver(t) => ReadersOver(t)'
  BY OnwardAround
<1> QED
  BY <1>3, <1>4, <1>5, <1>6 DEF EndOK

\* The last sender puts the end.
LEMMA PutEndKeepsEnd ==
  ASSUME PodPart, NEW t \in Tasks, EndOK(t), Owes(t), ~ Owes(t)',
         SameEnded(t), ReadersStay(t), SamePipe(t), NEW p \in Procs,
         buf'[p][t] = Append(buf[p][t], EndCmd),
         \A q \in Procs : q # p => buf'[q][t] = buf[q][t]
  PROVE  EndOK(t)'
<1>1. PipTypeOK /\ Main \in Procs /\ EndCmd \in Messages /\ EndCmd.type = "end"
  BY MessageTypes DEF PodPart, Procs, EndCmd
<1>2. Fresh(t) /\ Carries(t, p, 0, EndCmd)
  BY <1>1, CarriesNone DEF EndOK, NoEnd
<1>3. Fresh(t)'
  BY <1>2, EndedIsKept DEF Fresh, ReadersStay
<1>4. Carries(t, p, 0 + 1, EndCmd)'
  BY <1>1, <1>2, CarriesPutEnd
<1> QED
  BY <1>3, <1>4 DEF EndOK, EndComes

\* A worker forwards an end.
LEMMA ForwardKeepsEnd ==
  ASSUME PodPart, NEW t \in Tasks, EndOK(t), NEW f \in WorkersOf(t), At(f, "forward"),
         Owes(t)' <=> Owes(t), SameEnded(t), SamePipe(t),
         toForward'[f] = toForward[f] - 1,
         pc'[f] = IF toForward[f] = 1 THEN "task" ELSE "forward",
         \A v \in WorkersOf(t) : v # f => pc'[v] = pc[v],
         buf'[Home(f)][t] = Append(buf[Home(f)][t], ForwardedEnd),
         \A q \in Procs : q # Home(f) => buf'[q][t] = buf[q][t]
  PROVE  EndOK(t)'
<1>1. PipTypeOK /\ f \in Workers /\ Home(f) \in Procs /\ f[1] = t
  BY WorkerOfItsTask DEF PodPart, Workers, WorkersOf
<1>2. ForwardedEnd \in Messages /\ ForwardedEnd.type = "end"
  BY MessageTypes DEF ForwardedEnd
<1>3. ~ Owes(t) /\ Sharing(f, t)
  BY DEF EndOK, NoEnd, EndComes, Fresh, ReadersOver, Sharing, At
<1>4. PICK n \in Nat : Enough(f, t, n)
  BY <1>3 DEF Sharing
<1>5. PICK k \in Nat : k = toForward[f] /\ k > 0
  BY <1>1 DEF PodPart, PodTypeOK, ForwardOK
<1>6. ShareOf(f) = k /\ ShareOf(f)' = k - 1
  BY <1>5 DEF ShareOf, At
<1>7. isEnded'[Home(f)][t]
  BY <1>1, <1>3 DEF Sharing, SameEnded
<1>8. Waiting(t)' \subseteq Waiting(t) /\ NotEnded(t)' = NotEnded(t)
  <2>1. \A w \in WorkersOf(t) : Home(w) \in Procs /\ w[1] = t
    BY WorkerOfItsTask DEF Workers, WorkersOf
  <2>2. ~ Waits(f)'
    BY <1>1, <1>7 DEF Waits, At
  <2>3. ASSUME NEW v \in WorkersOf(t), v # f, Waits(v)' PROVE Waits(v)
    BY <2>1, <2>3 DEF Waits, At, SameEnded
  <2> QED
    BY <2>1, <2>2, <2>3 DEF Waiting, NotEnded, SameEnded
<1>9. PICK c \in Nat, d \in Nat :
         c = Cardinality(Waiting(t)) /\ d = Cardinality(Waiting(t)')
  BY ReadersAreFinite
<1>10. d <= c
  BY <1>8, <1>9, ReadersAreFinite, FS_Subset
<1>11. c <= n + k
  BY <1>4, <1>6, <1>9 DEF Enough
<1>12. d <= (n + 1) + (k - 1) /\ n + k = (n + 1) + (k - 1) /\ n + 1 \in Nat
  <2>1. k > 0
    BY <1>5
  <2>2. n + k = (n + 1) + (k - 1) /\ n + 1 \in Nat
    BY <2>1
  <2>3. d <= n + k
    BY <1>10, <1>11
  <2> QED
    BY <2>2, <2>3
<1>13. Carries(t, Home(f), n + 1, ForwardedEnd)'
  BY <1>1, <1>2, <1>4, CarriesPutEnd DEF Enough
<1>14. Enough(f, t, n + 1)'
  BY <1>4, <1>6, <1>8, <1>9, <1>12, <1>13 DEF Enough
<1>15. \A v \in WorkersOf(t) : At(v, "forward")' => v = f
  BY <1>3 DEF Sharing, At
<1> QED
  BY <1>3, <1>7, <1>12, <1>14, <1>15 DEF EndOK, Sharing

\* The last worker of t cleans its pip.
LEMMA CleanKeepsEnd ==
  ASSUME PodPart, NEW t \in Tasks, EndOK(t), OnwardStep, Owes(t)' <=> Owes(t),
         SameEnded(t), ReadersStay(t), SameBuffers(t), ReadersOver(t),
         pipe[t] # <<>>, pipe'[t] = Tail(pipe[t])
  PROVE  EndOK(t)'
<1>1. CASE Owes(t)
  <2>1. PipTypeOK /\ Main \in Procs /\ Fresh(t) /\ Carries(t, Main, 0, EndCmd)
    BY <1>1 DEF PodPart, Procs, EndOK, NoEnd
  <2>2. Fresh(t)'
    BY <2>1, EndedIsKept DEF Fresh, ReadersStay
  <2>3. Carries(t, Main, 0, EndCmd)'
    BY <2>1, CarriesTaken
  <2> QED
    BY <1>1, <2>2, <2>3 DEF EndOK, NoEnd
<1>2. CASE ~ Owes(t)
  BY <1>2, OnwardAround DEF EndOK
<1> QED
  BY <1>1, <1>2

\* A worker receives an end.  It shares the first one it gets with all the other
\* workers; a forwarded one is its own share.
LEMMA TakeEndKeepsEnd ==
  ASSUME PodPart, NEW t \in Tasks, EndOK(t), Owes(t)' <=> Owes(t),
         NEW w \in WorkersOf(t), At(w, "get"), OwnCopies(t) => ~ isEnded[Home(w)][t],
         pipe[t] # <<>>, Head(pipe[t]).type = "end", pipe'[t] = Tail(pipe[t]),
         SameBuffers(t),
         isEnded'[Home(w)][t],
         \A p \in Procs : p # Home(w) => isEnded'[p][t] = isEnded[p][t],
         \A v \in WorkersOf(t) : v # w => pc'[v] = pc[v] /\ toForward'[v] = toForward[v],
         toForward'[w] = Forwards(t, Head(pipe[t])),
         pc'[w] = IF toForward'[w] = 0 THEN "task" ELSE "forward"
  PROVE  EndOK(t)'
<1>1. PipTypeOK /\ Main \in Procs /\ w[1] = t /\ Home(w) \in Procs
  BY WorkerOfItsTask DEF PodPart, Procs, Workers, WorkersOf
<1>2. ASSUME NEW v \in WorkersOf(t)
      PROVE  Home(v) \in Procs /\ v[1] = t /\ v \in Workers
  BY WorkerOfItsTask DEF Workers, WorkersOf
<1>3. ~ ReadersOver(t)
  BY DEF ReadersOver, At
<1>4. ~ Owes(t)
  <2> SUFFICES ASSUME Carries(t, Main, 0, EndCmd) PROVE FALSE
    BY DEF EndOK, NoEnd
  <2>1. \E n \in Nat : n = 0 /\ n > 0
    BY <1>1, CarriesTaken
  <2> QED
    BY <2>1
<1>5. ~ Waits(w)'
  BY <1>1 DEF Waits, At
<1>6. ASSUME NEW v \in WorkersOf(t), v # w, Waits(v)' PROVE Waits(v)
  <2>1. isEnded[Home(v)][t] => isEnded'[Home(v)][t]
    BY <1>2
  <2> QED
    BY <1>2, <1>6, <2>1 DEF Waits, At
<1>7. PICK k \in Nat : k = PodSize(t) /\ k > 0 /\ k = Cardinality(WorkersOf(t))
  BY PodSizeIsPositive, WorkersOfIsFinite
<1>8. CASE EndComes(t)
  <2>1. PICK p \in Procs : Carries(t, p, 1, EndCmd)
    BY <1>8 DEF EndComes
  <2>2. Head(pipe[t]) = EndCmd
    BY <1>1, <2>1, CarriesTaken
  <2>3. Carries(t, Home(w), 0, ForwardedEnd)'
    <3>1. pipe[t] \in Seq(Messages) /\ Tail(pipe[t]) \in Seq(Messages)
      BY <1>1, HeadTailProperties DEF PipTypeOK
    <3>2. PICK b \in Nat, c \in Nat, d \in Nat :
             b = EndsIn(pipe[t]) /\ c = EndsIn(buf[p][t]) /\ d = EndsIn(Tail(pipe[t]))
      BY <1>1, <3>1, PipIsCounted, EndsAreCounted
    <3>3. b = d + 1 /\ c + b = 1
      BY <2>1, <3>1, <3>2, EndsOfTail DEF Carries
    <3>4. d = 0 /\ c = 0
      BY <3>3
    <3>5. \A q \in Procs : buf'[q][t] \in Seq(Messages) /\ EndsIn(buf'[q][t]) = 0
      <4>1. \A q \in Procs : buf'[q][t] = buf[q][t]
        BY DEF SameBuffers
      <4>2. \A q \in Procs : EndsIn(buf[q][t]) = 0
        BY <2>1, <3>2, <3>4 DEF Carries
      <4> QED
        BY <1>1, <4>1, <4>2, PipIsCounted
    <3>6. pipe'[t] \in Seq(Messages) /\ EndsIn(pipe'[t]) = 0
      BY <3>1, <3>2, <3>4
    <3>7. EndsAre(pipe'[t], ForwardedEnd) /\ EndsAre(buf'[Home(w)][t], ForwardedEnd)
      BY <1>1, <3>5, <3>6, NoEndsAre
    <3> QED
      BY <1>1, <3>5, <3>6, <3>7 DEF Carries
  <2>4. ShareOf(w)' = k - 1
    <3>1. toForward'[w] = k - 1
      <4>1. CASE Inline(t)
        BY <1>7, <2>2, <4>1 DEF Forwards, PodSize, EndCmd
      <4>2. CASE ~ Inline(t)
        BY <1>7, <2>2, <4>2 DEF Forwards, PodSize, EndCmd
      <4> QED
        BY <4>1, <4>2
    <3> QED
      BY <1>7, <3>1 DEF ShareOf, At
  <2>5. Waiting(t)' \subseteq WorkersOf(t) \ {w}
    BY <1>5 DEF Waiting
  <2>6. OwnCopies(t) => NotEnded(t)' = WorkersOf(t) \ {w}
    <3>1. ~ isEnded'[Home(w)][t] => FALSE
      OBVIOUS
    <3>2. ASSUME OwnCopies(t), NEW v \in WorkersOf(t), v # w
          PROVE  ~ isEnded'[Home(v)][t]
      BY <1>2, <1>8, <3>2 DEF OwnCopies, EndComes, Fresh, Ended
    <3> QED
      BY <3>1, <3>2 DEF NotEnded
  <2>7. IsFiniteSet(WorkersOf(t) \ {w}) /\ Cardinality(WorkersOf(t) \ {w}) = k - 1
    BY <1>7, WorkersOfIsFinite, FS_RemoveElement
  <2>8. Cardinality(Waiting(t)') <= k - 1
    BY <2>5, <2>7, FS_Subset
  <2>9. k - 1 = 0 + (k - 1)
    BY <1>7
  <2>10. Enough(w, t, 0)'
    BY <2>3, <2>4, <2>6, <2>7, <2>8, <2>9 DEF Enough
  <2>11. \A v \in WorkersOf(t) : At(v, "forward")' => v = w
    BY <1>8 DEF EndComes, Fresh, At
  <2>12. Sharing(w, t)'
    BY <2>10, <2>11 DEF Sharing
  <2> QED
    BY <1>4, <2>12 DEF EndOK
<1>9. ASSUME NEW f \in WorkersOf(t), Sharing(f, t)
      PROVE  Sharing(f, t)'
  <2>1. PICK n \in Nat : Enough(f, t, n)
    BY <1>9 DEF Sharing
  <2>2. n > 0 /\ Head(pipe[t]) = ForwardedEnd /\ Carries(t, Home(f), n - 1, ForwardedEnd)'
    BY <1>1, <1>2, <2>1, CarriesTaken DEF Enough
  <2>3. toForward'[w] = 0 /\ pc'[w] = "task"
    BY <2>2 DEF Forwards, ForwardedEnd
  <2>4. ShareOf(f)' = ShareOf(f)
    BY <2>3 DEF ShareOf, At
  <2>5. Waiting(t)' \subseteq Waiting(t) \ {w} /\ w \in Waiting(t)
    BY <1>5, <1>6 DEF Waiting, Waits
  <2>6. OwnCopies(t) => NotEnded(t)' = NotEnded(t) \ {w} /\ w \in NotEnded(t)
    <3>1. ASSUME OwnCopies(t), NEW v \in WorkersOf(t), v # w
          PROVE  isEnded'[Home(v)][t] = isEnded[Home(v)][t]
      BY <1>2, <3>1 DEF OwnCopies
    <3> QED
      BY <3>1 DEF NotEnded
  <2>7. PICK c \in Nat, d \in Nat, s \in Nat :
           c = Cardinality(Waiting(t)) /\ d = Cardinality(Waiting(t)') /\ s = ShareOf(f)
    BY <1>2, ReadersAreFinite, ShareIsNumber
  <2>8. c <= n + s /\ (OwnCopies(t) => Cardinality(NotEnded(t)) = n + s)
    BY <2>1, <2>7 DEF Enough
  <2>9. d <= c - 1
    <3>1. IsFiniteSet(Waiting(t) \ {w}) /\ Cardinality(Waiting(t) \ {w}) = c - 1
      BY <2>5, <2>7, ReadersAreFinite, FS_RemoveElement
    <3> QED
      BY <2>5, <2>7, <3>1, FS_Subset
  <2>10. OwnCopies(t) => Cardinality(NotEnded(t)') = (n + s) - 1
    BY <2>6, <2>8, ReadersAreFinite, FS_RemoveElement
  <2>11. n - 1 \in Nat /\ d <= (n - 1) + s /\ (n + s) - 1 = (n - 1) + s
    BY <2>2, <2>8, <2>9
  <2>12. Enough(f, t, n - 1)'
    BY <2>2, <2>4, <2>7, <2>10, <2>11 DEF Enough
  <2>13. isEnded'[Home(f)][t]
    BY <1>2, <1>9 DEF Sharing
  <2>14. \A v \in WorkersOf(t) : At(v, "forward")' => v = f
    BY <1>9, <2>3 DEF Sharing, At
  <2> QED
    BY <2>11, <2>12, <2>13, <2>14 DEF Sharing
<1> QED
  BY <1>3, <1>4, <1>8, <1>9 DEF EndOK

(***************************************************************************)
(* What a worker knows while nobody is killed                              *)
(***************************************************************************)

\* Who receives or forwards has an upstream; who is in get was not told the end,
\* where nobody else can have told it; what is to be put goes to different tasks,
\* and who is in send has something to put.
UpOK == \A w \in Workers : pc[w] \in {"get", "forward"} => HasUpstream(w[1])
GetOK ==
  \A w \in Workers : At(w, "get") /\ OwnCopies(w[1]) => ~ isEnded[Home(w)][w[1]]
DistOK ==
  \A w \in Workers : \A i, j \in DOMAIN todo[w] : todo[w][i][1] = todo[w][j][1] => i = j
PutsOK == \A w \in Workers : At(w, "send") => todo[w] # <<>>

\* The lock is held in the critical section only, and the count misses nobody.
HeldOK ==
  \A t \in Tasks : lock[t] # Free =>
    ~ Inline(t) /\ lock[t] \in WorkersOf(t) /\ pc[lock[t]] \in Ending
FullOK == \A t \in Tasks : ~ Inline(t) => doneCount[t] >= Cardinality(PastOf(t))

WorkOK == UpOK /\ GetOK /\ DistOK /\ PutsOK /\ HeldOK /\ FullOK

\* The steps of a worker, but for a SIGINT.
StepOf(w) == WorkerStep(w) \/ Fail(w) \/ StartWorker(w)

\* The steps of a worker keep each of these: who receives has an upstream,
LEMMA StepKeepsUp ==
  ASSUME PodPart, UpOK, NEW w \in Workers, StepOf(w)
  PROVE  UpOK'
<1>1. \A v \in Workers : v # w => pc'[v] = pc[v]
  BY WorkerStepIsOnward DEF StepOf
<1>2. pc'[w] \in {"get", "forward"} => HasUpstream(w[1])
  BY DEF StepOf, WorkerStep, Produce, SendNext, StartGet, ReceiveItem, ReceiveEnd, Forward,
     GetEmpty, Return, WorkerDone, InlineDone, SendEnd, StartClean, Clean, Cleaned, Exit,
     Fail, StartWorker, SendData, GoTo, At, podVars, PodPart, PodTypeOK, UpOK
<1> QED
  BY <1>1, <1>2 DEF UpOK

\* who is in get was not told the end,
LEMMA StepKeepsGet ==
  ASSUME PodPart, GetOK, NEW w \in Workers, StepOf(w)
  PROVE  GetOK'
<1>1. \A v \in Workers : v # w => pc'[v] = pc[v]
  BY WorkerStepIsOnward DEF StepOf
<1>2. \A v \in Workers : v[1] \in Tasks /\ Home(v) \in Procs /\ v \in WorkersOf(v[1])
  BY WorkerOfItsTask
<1>3. isEnded \in [Procs -> [Tasks -> BOOLEAN]] /\ pc \in [Workers -> Locations]
  BY DEF PodPart, PipTypeOK, PodTypeOK
<1> SUFFICES ASSUME NEW v \in Workers, At(v, "get")', OwnCopies(v[1])
             PROVE  ~ isEnded'[Home(v)][v[1]]
  BY DEF GetOK, OwnCopies
<1>4. CASE ReceiveEnd(w)
  <2>1. isEnded' = [isEnded EXCEPT ![Home(w)][w[1]] = TRUE] /\ pc'[w] # "get"
    BY <1>3, <1>4 DEF ReceiveEnd, RecvEnd, GoTo
  <2>2. v # w /\ At(v, "get")
    BY <1>1, <2>1 DEF At
  <2>3. ~ (v[1] = w[1] /\ Home(v) = Home(w))
    BY <1>2, <2>2 DEF OwnCopies
  <2> QED
    BY <1>2, <1>3, <2>1, <2>2, <2>3 DEF GetOK
<1>5. CASE StartGet(w)
  <2>1. isEnded' = isEnded /\ ~ isEnded[Home(w)][w[1]]
    BY <1>5 DEF StartGet, pipVars
  <2> QED
    BY <1>1, <2>1 DEF GetOK, At
<1>6. CASE ~ ReceiveEnd(w) /\ ~ StartGet(w)
  <2>1. isEnded' = isEnded
    BY <1>6 DEF StepOf, WorkerStep, Produce, SendNext, StartGet, ReceiveItem, Forward, GetEmpty,
       Return, WorkerDone, InlineDone, SendEnd, StartClean, Clean, Cleaned, Exit, Fail,
       StartWorker, PutNext, Put, RecvItem, CleanOne, pipVars
  <2>2. pc'[w] # "get"
    BY <1>3, <1>6 DEF StepOf, WorkerStep, Produce, SendNext, ReceiveItem, Forward, GetEmpty,
       Return, WorkerDone, InlineDone, SendEnd, StartClean, Clean, Cleaned, Exit, Fail,
       StartWorker, SendData, GoTo, At, podVars
  <2> QED
    BY <1>1, <2>1, <2>2 DEF GetOK, At
<1> QED
  BY <1>4, <1>5, <1>6

\* a broadcast puts once for every task,
LEMMA StepKeepsDist ==
  ASSUME PodPart, DistOK, NEW w \in Workers, StepOf(w)
  PROVE  DistOK'
<1>1. todo \in [Workers -> Seq(Tasks \X Messages)] /\ w[1] \in Tasks
  BY WorkerOfItsTask DEF PodPart, PodTypeOK
<1>2. ASSUME NEW m, Broadcast(w, m) PROVE DistOK'
  <2> DEFINE next == Nexts[w[1]]
  <2>1. /\ todo'[w] = [i \in DOMAIN next |-> <<next[i], m>>]
        /\ \A v \in Workers : v # w => todo'[v] = todo[v]
    BY <1>1, <1>2 DEF Broadcast
  <2>2. \A i, j \in DOMAIN next : next[i] = next[j] => i = j
    BY <1>1, OneUpstream
  <2>3. DOMAIN todo'[w] = DOMAIN next /\ \A i \in DOMAIN next : todo'[w][i][1] = next[i]
    BY <2>1
  <2>4. \A i, j \in DOMAIN todo'[w] : todo'[w][i][1] = todo'[w][j][1] => i = j
    BY <2>2, <2>3
  <2> QED
    BY <2>1, <2>4 DEF DistOK
<1>3. ASSUME PutNext(w) PROVE DistOK'
  <2>1. /\ todo[w] # <<>> /\ todo[w] \in Seq(Tasks \X Messages)
        /\ todo'[w] = Tail(todo[w])
        /\ \A v \in Workers : v # w => todo'[v] = todo[v]
    BY <1>1, <1>3 DEF PutNext
  <2>2. \A i \in DOMAIN todo'[w] : /\ i \in Nat /\ i + 1 \in DOMAIN todo[w]
                                   /\ todo'[w][i] = todo[w][i + 1]
    BY <2>1, LenProperties, HeadTailProperties, EmptySeq
  <2>3. \A i, j \in DOMAIN todo'[w] : todo'[w][i][1] = todo'[w][j][1] => i + 1 = j + 1
    BY <2>2 DEF DistOK
  <2>4. \A i, j \in DOMAIN todo'[w] : todo'[w][i][1] = todo'[w][j][1] => i = j
    BY <2>2, <2>3
  <2> QED
    BY <2>1, <2>4 DEF DistOK
<1>4. todo' = todo => DistOK'
  BY DEF DistOK
<1> QED
  BY <1>2, <1>3, <1>4 DEF StepOf, WorkerStep, Produce, SendNext, StartGet, ReceiveItem,
     ReceiveEnd, Forward, GetEmpty, Return, WorkerDone, InlineDone, SendEnd, StartClean,
     Clean, Cleaned, Exit, Fail, StartWorker, SendData, podVars

\* who is in send has something to put,
LEMMA StepKeepsPuts ==
  ASSUME PodPart, PutsOK, NEW w \in Workers, StepOf(w)
  PROVE  PutsOK'
<1>1. /\ \A v \in Workers : v # w => pc'[v] = pc[v]
      /\ pc \in [Workers -> Locations] /\ todo \in [Workers -> Seq(Tasks \X Messages)]
      /\ w[1] \in Tasks /\ Nexts \in [Tasks -> Seq(Tasks)]
  BY WorkerStepIsOnward, WorkerOfItsTask, TreeAssumption DEF StepOf, PodPart, PodTypeOK
<1>2. \A v \in Workers : v # w => todo'[v] = todo[v]
  BY <1>1 DEF StepOf, WorkerStep, Produce, SendNext, StartGet, ReceiveItem, ReceiveEnd, Forward,
     GetEmpty, Return, WorkerDone, InlineDone, SendEnd, StartClean, Clean, Cleaned, Exit,
     Fail, StartWorker, SendData, Broadcast, PutNext, podVars
<1>3. ASSUME pc'[w] = "send" PROVE todo'[w] # <<>>
  <2>1. CASE Produce(w) \/ ReceiveItem(w)
    <3>1. PICK m : Broadcast(w, m) /\ pc' = [pc EXCEPT ![w] = IF Nexts[w[1]] = <<>> THEN "task" ELSE "send"]
      BY <2>1 DEF Produce, ReceiveItem, SendData, GoTo
    <3>2. Nexts[w[1]] # <<>>
      BY <1>1, <1>3, <3>1
    <3>3. todo'[w] = [i \in DOMAIN Nexts[w[1]] |-> <<Nexts[w[1]][i], m>>]
      BY <1>1, <3>1 DEF Broadcast
    <3>4. 1 \in DOMAIN Nexts[w[1]]
      BY <1>1, <3>2, LenProperties, EmptySeq
    <3>5. 1 \in DOMAIN todo'[w]
      BY <3>3, <3>4
    <3> QED
      BY <3>5
  <2>2. CASE SendNext(w)
    BY <1>1, <1>3, <2>2 DEF SendNext, PutNext, GoTo
  <2>3. CASE ~ (Produce(w) \/ ReceiveItem(w) \/ SendNext(w))
    BY <1>1, <1>3, <2>3 DEF StepOf, WorkerStep, StartGet, ReceiveEnd, Forward, GetEmpty, Return,
       WorkerDone, InlineDone, SendEnd, StartClean, Clean, Cleaned, Exit, Fail, StartWorker,
       GoTo, At, podVars
  <2> QED
    BY <2>1, <2>2, <2>3
<1> QED
  BY <1>1, <1>2, <1>3 DEF PutsOK, At

\* the lock is held in the critical section only,
LEMMA StepKeepsHeld ==
  ASSUME PodPart, HeldOK, NEW w \in Workers, StepOf(w)
  PROVE  HeldOK'
<1>1. /\ \A v \in Workers : v # w => pc'[v] = pc[v]
      /\ pc \in [Workers -> Locations] /\ lock \in [Tasks -> Workers \cup {Free}]
      /\ w[1] \in Tasks /\ w \in WorkersOf(w[1])
  BY WorkerStepIsOnward, WorkerOfItsTask DEF StepOf, PodPart, PodTypeOK
<1>2. CASE WorkerDone(w)
  <2>1. lock[w[1]] = Free /\ ~ Inline(w[1])
    BY <1>2 DEF WorkerDone
  <2>2. \/ lock' = [lock EXCEPT ![w[1]] = w] /\ pc'[w] = "end"
        \/ lock' = lock
    BY <1>1, <1>2 DEF WorkerDone, GoTo
  <2>3. ASSUME NEW t \in Tasks, lock[t] # Free PROVE lock[t] \in Workers /\ lock[t] # w
    BY <1>1, <1>2, <2>3 DEF HeldOK, Ending, WorkerDone, At
  <2>4. ASSUME NEW t \in Tasks, t # w[1], lock'[t] # Free
        PROVE  ~ Inline(t) /\ lock'[t] \in WorkersOf(t) /\ pc'[lock'[t]] \in Ending
    BY <1>1, <2>2, <2>3, <2>4 DEF HeldOK
  <2> QED
    BY <1>1, <2>1, <2>2, <2>4 DEF HeldOK, Ending
<1>3. CASE Cleaned(w)
  <2>1. lock' = [lock EXCEPT ![w[1]] = Free]
    BY <1>3 DEF Cleaned
  <2>2. ASSUME NEW t \in Tasks, lock'[t] # Free
        PROVE  ~ Inline(t) /\ lock'[t] \in WorkersOf(t) /\ pc'[lock'[t]] \in Ending
    <3>1. t # w[1] /\ lock'[t] = lock[t]
      BY <1>1, <2>1, <2>2
    <3>2. lock[t] \in WorkersOf(t) /\ lock[t] # w /\ lock[t] \in Workers
      BY <1>1, <2>2, <3>1 DEF HeldOK, WorkersOf, Workers
    <3> QED
      BY <1>1, <2>2, <3>1, <3>2 DEF HeldOK
  <2> QED
    BY <2>2 DEF HeldOK
<1>4. CASE ~ WorkerDone(w) /\ ~ Cleaned(w)
  <2>1. lock' = lock
    BY <1>4 DEF StepOf, WorkerStep, Produce, SendNext, StartGet, ReceiveItem, ReceiveEnd,
       Forward, GetEmpty, Return, InlineDone, SendEnd, StartClean, Clean, Exit, Fail,
       StartWorker, podVars, endVars
  <2>2. pc[w] \in Ending /\ ~ Inline(w[1]) => pc'[w] \in Ending
    BY <1>1, <1>4 DEF StepOf, WorkerStep, Produce, SendNext, StartGet, ReceiveItem, ReceiveEnd,
       Forward, GetEmpty, Return, InlineDone, SendEnd, StartClean, Clean, Exit, Fail,
       StartWorker, podVars, GoTo, At, Ending
  <2>3. ASSUME NEW t \in Tasks, lock[t] # Free
        PROVE  ~ Inline(t) /\ lock[t] \in WorkersOf(t) /\ pc'[lock[t]] \in Ending
    <3>1. lock[t] \in Workers /\ lock[t][1] = t
      BY <2>3 DEF HeldOK, WorkersOf, Workers
    <3> QED
      BY <1>1, <2>2, <2>3, <3>1 DEF HeldOK
  <2> QED
    BY <2>1, <2>3 DEF HeldOK
<1> QED
  BY <1>2, <1>3, <1>4

\* and everybody past the count is counted.
LEMMA StepKeepsFull ==
  ASSUME PodPart, FullOK, NEW w \in Workers, StepOf(w)
  PROVE  FullOK'
<1>1. /\ \A v \in Workers : v # w => pc'[v] = pc[v]
      /\ pc \in [Workers -> Locations] /\ doneCount \in [Tasks -> Nat]
      /\ w[1] \in Tasks /\ w \in WorkersOf(w[1])
  BY WorkerStepIsOnward, WorkerOfItsTask DEF StepOf, PodPart, PodTypeOK
<1>2. ASSUME NEW t \in Tasks, t # w[1]
      PROVE  PastOf(t)' = PastOf(t)
  <2>1. \A v \in WorkersOf(t) : v \in Workers /\ v # w
    BY <1>2 DEF WorkersOf, Workers
  <2> QED
    BY <1>1, <2>1 DEF PastOf, Past
<1>3. CASE WorkerDone(w)
  <2>1. doneCount' = [doneCount EXCEPT ![w[1]] = @ + 1] /\ ~ Inline(w[1])
    BY <1>3 DEF WorkerDone
  <2>2. PastOf(w[1])' \subseteq PastOf(w[1]) \cup {w}
    <3>1. \A v \in WorkersOf(w[1]) : v \in Workers
      BY <1>1 DEF Workers
    <3> QED
      BY <1>1, <3>1 DEF PastOf, Past
  <2>3. PICK c \in Nat, d \in Nat, e \in Nat :
           c = Cardinality(PastOf(w[1])) /\ d = Cardinality(PastOf(w[1])')
             /\ e = doneCount[w[1]]
    BY <1>1, PastOfIsFinite
  <2>4. w \notin PastOf(w[1])
    BY <1>3 DEF PastOf, Past, WorkerDone, At
  <2>5. /\ IsFiniteSet(PastOf(w[1]) \cup {w})
        /\ Cardinality(PastOf(w[1]) \cup {w}) = c + 1
    BY <1>1, <2>3, <2>4, PastOfIsFinite, FS_AddElement
  <2>6. d <= c + 1
    BY <2>2, <2>3, <2>5, FS_Subset
  <2>7. e >= c
    BY <1>1, <2>1, <2>3 DEF FullOK
  <2>8. doneCount'[w[1]] >= d
    BY <1>1, <2>1, <2>3, <2>6, <2>7
  <2>9. ASSUME NEW t \in Tasks, ~ Inline(t), t # w[1]
        PROVE  doneCount'[t] >= Cardinality(PastOf(t)')
    BY <1>1, <1>2, <2>1, <2>9 DEF FullOK
  <2> QED
    BY <2>3, <2>8, <2>9 DEF FullOK
<1>4. CASE ~ WorkerDone(w)
  <2>1. \A t \in Tasks : ~ Inline(t) => doneCount'[t] = doneCount[t]
    BY <1>1, <1>4 DEF StepOf, WorkerStep, Produce, SendNext, StartGet, ReceiveItem, ReceiveEnd,
       Forward, GetEmpty, Return, InlineDone, SendEnd, StartClean, Clean, Cleaned, Exit, Fail,
       StartWorker, podVars, endVars
  <2>2. Past(w)' => Past(w) \/ Inline(w[1])
    BY <1>1, <1>4 DEF StepOf, WorkerStep, Produce, SendNext, StartGet, ReceiveItem, ReceiveEnd,
       Forward, GetEmpty, Return, InlineDone, SendEnd, StartClean, Clean, Cleaned, Exit, Fail,
       StartWorker, SendData, podVars, GoTo, At, Past
  <2>3. Past(w) => Past(w)'
    BY WorkerStepIsOnward DEF StepOf, OnwardStep
  <2>4. ~ Inline(w[1]) => PastOf(w[1])' = PastOf(w[1])
    <3>1. \A v \in WorkersOf(w[1]) : v \in Workers
      BY <1>1 DEF Workers
    <3>2. ~ Inline(w[1]) => \A v \in WorkersOf(w[1]) : Past(v)' <=> Past(v)
      BY <1>1, <2>2, <2>3, <3>1 DEF Past
    <3> QED
      BY <3>2 DEF PastOf
  <2> QED
    BY <1>2, <2>1, <2>4 DEF FullOK
<1> QED
  BY <1>3, <1>4

(***************************************************************************)
(* The slots of a bounded queue                                            *)
(***************************************************************************)

\* What is on its way to t: the positions in the buffers and in the pipe.
Wire == <<0, 1>>
Places == Procs \cup {Wire}
Lengths(t) == [p \in Places |-> IF p = Wire THEN Len(pipe[t]) ELSE Len(buf[p][t])]
InFlight(t) == Positions(Lengths(t))

\* Every message on its way holds a slot, and nobody else does.
SlotOK(t) ==
  Bounded(t) =>
    IsFiniteSet(InFlight(t)) /\ slots[t] + Cardinality(InFlight(t)) = Bound[t]
SlotsOK == \A t \in Tasks : SlotOK(t)

\* The wire is one more place beside the buffers of the processes,
LEMMA WireIsNoProcess == Wire \notin Procs
BY WorkerOfItsTask DEF Wire, Procs, Main, Tasks

\* and every place has a length.
LEMMA LengthsType ==
  ASSUME PipTypeOK, NEW t \in Tasks
  PROVE  Lengths(t) \in [Places -> Nat]
<1>1. Len(pipe[t]) \in Nat /\ \A p \in Procs : Len(buf[p][t]) \in Nat
  BY PipIsCounted, LenProperties
<1> QED
  BY <1>1 DEF Lengths, Places

\* An empty pip has nothing on its way.
LEMMA EmptyPip ==
  ASSUME NEW t \in Tasks, pipe[t] = <<>>, \A p \in Procs : buf[p][t] = <<>>
  PROVE  InFlight(t) = {}
<1>1. \A p \in Places : Lengths(t)[p] = 0
  BY WireIsNoProcess DEF Lengths, Places
<1>2. DOMAIN Lengths(t) = Places
  BY DEF Lengths
<1> QED
  BY <1>1, <1>2 DEF InFlight, Positions

\* Nothing is put and nothing taken,
LEMMA SlotStays ==
  ASSUME NEW t \in Tasks, SlotOK(t), SameBuffers(t), SamePipe(t), slots'[t] = slots[t]
  PROVE  SlotOK(t)'
<1>1. Lengths(t)' = Lengths(t)
  BY WireIsNoProcess DEF Lengths, Places, SameBuffers, SamePipe
<1> QED
  BY <1>1 DEF SlotOK, InFlight

\* a message is put,
LEMMA SlotPut ==
  ASSUME PipTypeOK, NEW t \in Tasks, SlotOK(t), NEW p \in Procs, NEW m \in Messages,
         Bounded(t) => slots[t] > 0 /\ slots'[t] = slots[t] - 1,
         buf'[p][t] = Append(buf[p][t], m),
         \A q \in Procs : q # p => buf'[q][t] = buf[q][t], SamePipe(t)
  PROVE  SlotOK(t)'
<1> SUFFICES ASSUME Bounded(t)
             PROVE  /\ IsFiniteSet(InFlight(t)')
                    /\ slots'[t] + Cardinality(InFlight(t)') = Bound[t]
  BY DEF SlotOK, Bounded
<1>1. PICK h \in [Places -> Nat] : h = Lengths(t)
  BY LengthsType
<1>2. buf[p][t] \in Seq(Messages) /\ p # Wire /\ p \in Places
  BY PipIsCounted, WireIsNoProcess DEF Places
<1>3. Len(buf'[p][t]) = Len(buf[p][t]) + 1
  BY <1>2, AppendProperties
<1>4. PICK g \in [Places -> Nat] : g = Lengths(t)' /\ g = Grown(h, p)
  <2>1. Lengths(t)' = Grown(h, p)
    BY <1>1, <1>2, <1>3 DEF Lengths, Places, SamePipe, Grown
  <2>2. Grown(h, p) \in [Places -> Nat]
    BY <1>1, <1>2 DEF Grown
  <2> QED
    BY <2>1, <2>2
<1>5. IsFiniteSet(Positions(h)) /\ slots[t] + Cardinality(Positions(h)) = Bound[t]
  BY <1>1 DEF SlotOK, InFlight
<1>6. /\ IsFiniteSet(Positions(g))
      /\ Cardinality(Positions(g)) = Cardinality(Positions(h)) + 1
  <2>1. p \in Places /\ g = Grown(h, p)
    BY <1>2, <1>4
  <2>2. IsFiniteSet(Positions(h))
    BY <1>5
  <2> QED
    BY <2>1, <2>2, PositionsGrow
<1>7. PICK c \in Nat, n \in Nat : c = Cardinality(Positions(h)) /\ n = slots[t]
  BY <1>5, FS_CardinalityType DEF PipTypeOK
<1>8. (n - 1) + (c + 1) = Bound[t]
  BY <1>5, <1>7
<1> QED
  BY <1>4, <1>6, <1>7, <1>8 DEF InFlight

\* a feeder writes,
LEMMA SlotFlushed ==
  ASSUME PipTypeOK, NEW t \in Tasks, SlotOK(t), NEW p \in Procs, buf[p][t] # <<>>,
         slots'[t] = slots[t],
         pipe'[t] = Append(pipe[t], Head(buf[p][t])), buf'[p][t] = Tail(buf[p][t]),
         \A q \in Procs : q # p => buf'[q][t] = buf[q][t]
  PROVE  SlotOK(t)'
<1> SUFFICES ASSUME Bounded(t)
             PROVE  /\ IsFiniteSet(InFlight(t)')
                    /\ slots[t] + Cardinality(InFlight(t)') = Bound[t]
  BY DEF SlotOK, Bounded
<1>1. PICK h \in [Places -> Nat] : h = Lengths(t)
  BY LengthsType
<1>2. /\ buf[p][t] \in Seq(Messages) /\ pipe[t] \in Seq(Messages) /\ p # Wire
      /\ p \in Places /\ Wire \in Places
  BY PipIsCounted, WireIsNoProcess DEF Places
<1>3. /\ Len(buf[p][t]) \in Nat /\ Len(buf[p][t]) > 0
      /\ Len(buf'[p][t]) = Len(buf[p][t]) - 1
      /\ Len(pipe'[t]) = Len(pipe[t]) + 1
  BY <1>2, HeadTailProperties, AppendProperties, LenProperties, EmptySeq
<1>4. /\ h[p] = Len(buf[p][t]) /\ h[Wire] = Len(pipe[t])
      /\ \A q \in Procs : h[q] = Len(buf[q][t])
  BY <1>1, <1>2, WireIsNoProcess DEF Lengths, Places
<1> DEFINE mid == Grown(h, Wire)
<1>5. PICK g \in [Places -> Nat] : g = Lengths(t)' /\ mid = Grown(g, p)
  <2>1. Lengths(t)' = [q \in Places |-> IF q = Wire THEN h[Wire] + 1
                                        ELSE IF q = p THEN h[p] - 1 ELSE h[q]]
    BY <1>2, <1>3, <1>4 DEF Lengths, Places
  <2>2. h[p] - 1 \in Nat /\ h[Wire] + 1 \in Nat
    BY <1>1, <1>2, <1>3, <1>4
  <2>3. Lengths(t)' \in [Places -> Nat]
    BY <2>1, <2>2
  <2>4. mid = Grown(Lengths(t)', p)
    <3>1. mid = [q \in Places |-> IF q = Wire THEN h[Wire] + 1 ELSE h[q]]
      BY <1>1 DEF Grown
    <3>2. Grown(Lengths(t)', p) = [q \in Places |-> IF q = Wire THEN h[Wire] + 1
                                     ELSE IF q = p THEN (h[p] - 1) + 1 ELSE h[q]]
      BY <1>2, <2>1 DEF Grown
    <3>3. (h[p] - 1) + 1 = h[p]
      BY <1>1, <1>2
    <3> QED
      BY <3>1, <3>2, <3>3
  <2> QED
    BY <2>3, <2>4
<1>6. mid \in [Places -> Nat]
  BY <1>1, <1>2 DEF Grown
<1> HIDE DEF mid
<1>7. IsFiniteSet(Positions(h)) /\ slots[t] + Cardinality(Positions(h)) = Bound[t]
  BY <1>1 DEF SlotOK, InFlight
<1>8. /\ IsFiniteSet(Positions(mid))
      /\ Cardinality(Positions(mid)) = Cardinality(Positions(h)) + 1
  BY <1>2, <1>6, <1>7, PositionsGrow DEF mid
<1>9. /\ IsFiniteSet(Positions(g))
      /\ Cardinality(Positions(mid)) = Cardinality(Positions(g)) + 1
  BY <1>2, <1>5, <1>6, <1>8, PositionsGrow
<1>10. Cardinality(Positions(g)) = Cardinality(Positions(h))
  BY <1>7, <1>8, <1>9, FS_CardinalityType
<1> QED
  BY <1>5, <1>7, <1>9, <1>10 DEF InFlight

\* and a message is taken.
LEMMA SlotTaken ==
  ASSUME PipTypeOK, NEW t \in Tasks, SlotOK(t), pipe[t] # <<>>, pipe'[t] = Tail(pipe[t]),
         SameBuffers(t), Bounded(t) => slots'[t] = slots[t] + 1
  PROVE  SlotOK(t)'
<1> SUFFICES ASSUME Bounded(t)
             PROVE  /\ IsFiniteSet(InFlight(t)')
                    /\ slots'[t] + Cardinality(InFlight(t)') = Bound[t]
  BY DEF SlotOK, Bounded
<1>1. PICK h \in [Places -> Nat] : h = Lengths(t)
  BY LengthsType
<1>2. pipe[t] \in Seq(Messages) /\ Wire \in Places
  BY PipIsCounted DEF Places
<1>3. Len(pipe[t]) \in Nat /\ Len(pipe[t]) > 0 /\ Len(pipe'[t]) = Len(pipe[t]) - 1
  BY <1>2, HeadTailProperties, LenProperties, EmptySeq
<1>4. PICK g \in [Places -> Nat] : g = Lengths(t)' /\ h = Grown(g, Wire)
  <2>1. h[Wire] = Len(pipe[t]) /\ h[Wire] - 1 \in Nat
    BY <1>1, <1>2, <1>3 DEF Lengths
  <2>2. Lengths(t)' = [h EXCEPT ![Wire] = @ - 1]
    BY <1>1, <1>2, <1>3, <2>1 DEF Lengths, Places, SameBuffers
  <2> QED
    BY <1>1, <1>2, <2>1, <2>2 DEF Grown
<1>5. IsFiniteSet(Positions(h)) /\ slots[t] + Cardinality(Positions(h)) = Bound[t]
  BY <1>1 DEF SlotOK, InFlight
<1>6. /\ IsFiniteSet(Positions(g))
      /\ Cardinality(Positions(h)) = Cardinality(Positions(g)) + 1
  BY <1>2, <1>4, <1>5, PositionsGrow
<1>7. PICK c \in Nat, n \in Nat : c = Cardinality(Positions(g)) /\ n = slots[t]
  BY <1>6, FS_CardinalityType DEF PipTypeOK
<1>8. (n + 1) + c = Bound[t]
  <2>1. n + (c + 1) = Bound[t]
    BY <1>5, <1>6, <1>7
  <2>2. n + (c + 1) = (n + 1) + c
    OBVIOUS
  <2> QED
    BY <2>1, <2>2
<1>9. slots'[t] = n + 1 /\ InFlight(t)' = Positions(g)
  BY <1>4, <1>7 DEF InFlight
<1> QED
  BY <1>6, <1>7, <1>8, <1>9

(***************************************************************************)
(* The steps of a worker keep the ends and the slots                       *)
(***************************************************************************)

EndsOK == \A t \in Tasks : HasUpstream(t) => EndOK(t)

\* A step of a worker concerns no readers but those of its task, and these only
\* when it receives or forwards an end.
LEMMA StepReaders ==
  ASSUME PodPart, NEW w \in Workers, StepOf(w), NEW t \in Tasks,
         t # w[1] \/ ~ (ReceiveEnd(w) \/ Forward(w))
  PROVE  ReadersStay(t) /\ SameEnded(t)
<1>1. /\ \A v \in Workers : v # w => pc'[v] = pc[v]
      /\ pc \in [Workers -> Locations]
      /\ isEnded \in [Procs -> [Tasks -> BOOLEAN]]
      /\ \A v \in WorkersOf(t) : v \in Workers /\ v[1] = t /\ Home(v) \in Procs
  BY WorkerStepIsOnward, WorkerOfItsTask
     DEF StepOf, PodPart, PodTypeOK, PipTypeOK, Workers, WorkersOf
<1>2. SameEnded(t)
  <2>1. CASE ReceiveEnd(w)
    <3>1. isEnded' = [isEnded EXCEPT ![Home(w)][w[1]] = TRUE] /\ t # w[1]
      BY <2>1 DEF ReceiveEnd, RecvEnd
    <3> QED
      BY <1>1, <3>1 DEF SameEnded
  <2>2. CASE ~ ReceiveEnd(w)
    BY <2>2 DEF StepOf, WorkerStep, Produce, SendNext, StartGet, ReceiveItem, Forward, GetEmpty,
       Return, WorkerDone, InlineDone, SendEnd, StartClean, Clean, Cleaned, Exit, Fail,
       StartWorker, PutNext, Put, RecvItem, CleanOne, pipVars, SameEnded
  <2> QED
    BY <2>1, <2>2
<1>3. \A v \in Workers : v # w => toForward'[v] = toForward[v]
  BY DEF StepOf, WorkerStep, Produce, SendNext, StartGet, ReceiveItem, ReceiveEnd, Forward,
     GetEmpty, Return, WorkerDone, InlineDone, SendEnd, StartClean, Clean, Cleaned, Exit,
     Fail, StartWorker, podVars, PodPart, PodTypeOK
<1>4. ASSUME NEW v \in WorkersOf(t), v # w
      PROVE  /\ Waits(v)' => Waits(v)
             /\ At(v, "forward")' => At(v, "forward")
             /\ ShareOf(v)' = ShareOf(v)
  <2>1. pc'[v] = pc[v] /\ toForward'[v] = toForward[v]
        /\ isEnded'[Home(v)][v[1]] = isEnded[Home(v)][v[1]]
    BY <1>1, <1>2, <1>3, <1>4 DEF SameEnded
  <2> QED
    BY <2>1 DEF Waits, ShareOf, At
<1>5. ASSUME t = w[1]
      PROVE  /\ Waits(w)' => Waits(w)
             /\ At(w, "forward")' => At(w, "forward")
             /\ ShareOf(w)' = ShareOf(w)
  <2>1. isEnded'[Home(w)][w[1]] = isEnded[Home(w)][w[1]]
    BY <1>2, <1>5, WorkerOfItsTask DEF SameEnded
  <2>2. pc[w] # "forward" /\ pc'[w] # "forward"
    BY <1>1, <1>5 DEF StepOf, WorkerStep, Produce, SendNext, StartGet, ReceiveItem, GetEmpty,
       Return, WorkerDone, InlineDone, SendEnd, StartClean, Clean, Cleaned, Exit, Fail,
       StartWorker, SendData, GoTo, At, podVars
  <2>3. /\ pc'[w] = "get" => pc[w] = "task" /\ ~ isEnded[Home(w)][w[1]]
        /\ pc'[w] \in {"off", "task", "send"} => pc[w] \in {"off", "task", "send", "get"}
    BY <1>1, <1>5 DEF StepOf, WorkerStep, Produce, SendNext, StartGet, ReceiveItem, GetEmpty,
       Return, WorkerDone, InlineDone, SendEnd, StartClean, Clean, Cleaned, Exit, Fail,
       StartWorker, SendData, GoTo, At, podVars
  <2> QED
    BY <2>1, <2>2, <2>3 DEF Waits, ShareOf, At
<1> QED
  BY <1>1, <1>2, <1>4, <1>5 DEF ReadersStay

\* An upstream worker owes its end until it has put it; one that is counted and is
\* not the last leaves it to the others.
LEMMA StepOwes ==
  ASSUME PodPart, AloneInv, TodoOK, DistOK, FullOK, NEW w \in Workers, StepOf(w),
         NEW t \in Tasks
  PROVE  /\ ~ (SendEnd(w) /\ Head(todo[w])[1] = t) => (Owes(t)' <=> Owes(t))
         /\ SendEnd(w) /\ Head(todo[w])[1] = t => Owes(t) /\ ~ Owes(t)'
<1>1. /\ \A v \in Workers : v # w => pc'[v] = pc[v]
      /\ pc \in [Workers -> Locations]
      /\ todo \in [Workers -> Seq(Tasks \X Messages)]
      /\ w[1] \in Tasks /\ w \in WorkersOf(w[1])
  BY WorkerStepIsOnward, WorkerOfItsTask DEF StepOf, PodPart, PodTypeOK
<1>2. \A v \in Workers : v # w => todo'[v] = todo[v]
  BY <1>1 DEF StepOf, WorkerStep, Produce, SendNext, StartGet, ReceiveItem, ReceiveEnd, Forward,
     GetEmpty, Return, WorkerDone, InlineDone, SendEnd, StartClean, Clean, Cleaned, Exit,
     Fail, StartWorker, podVars, SendData, Broadcast, PutNext
<1>3. ASSUME NEW v \in Workers, v # w PROVE Owing(v, t)' <=> Owing(v, t)
  BY <1>1, <1>2, <1>3 DEF Owing, Past, At
<1>4. Upstream(t) \subseteq Workers
  BY DEF Upstream
<1>5. (w \in Upstream(t) => (Owing(w, t)' <=> Owing(w, t))) => (Owes(t)' <=> Owes(t))
  BY <1>3, <1>4 DEF Owes
<1>6. CASE SendEnd(w)
  <2>1. /\ At(w, "end") /\ pc' = pc /\ todo[w] # <<>>
        /\ todo[w] \in Seq(Tasks \X Messages) /\ todo'[w] = Tail(todo[w])
    BY <1>1, <1>6 DEF SendEnd, PutNext
  <2>2. /\ Head(todo[w]) = todo[w][1] /\ 1 \in DOMAIN todo[w]
        /\ \A i \in DOMAIN todo'[w] : /\ i \in Nat /\ i + 1 \in DOMAIN todo[w] /\ i + 1 # 1
                                      /\ todo'[w][i] = todo[w][i + 1]
        /\ \A i \in DOMAIN todo[w] : i # 1 => /\ i - 1 \in DOMAIN todo'[w]
                                              /\ todo'[w][i - 1] = todo[w][i]
    BY <2>1, LenProperties, HeadTailProperties, EmptySeq
  <2>3. CASE todo[w][1][1] = t
    <3>1. w \in Upstream(t)
      BY <2>1, <2>2, <2>3 DEF TodoOK, Upstream, At
    <3>2. Owes(t)
      BY <2>1, <2>2, <2>3, <3>1 DEF Owes, Owing
    <3>3. \A i \in DOMAIN todo'[w] : todo'[w][i][1] # t
      BY <2>2, <2>3 DEF DistOK
    <3>4. ~ Owing(w, t)'
      BY <2>1, <3>3 DEF Owing, Past, At
    <3>5. ASSUME NEW v \in Upstream(t), v # w PROVE ~ Owing(v, t)
      <4>1. v \in Workers /\ v[1] = w[1]
        BY <3>1, <1>4, OneUpstreamTask
      <4>2. pc[v] \in {"exit", "dead"}
        BY <2>1, <3>5, <4>1 DEF AloneInv, LastWorkerAlone, At
      <4> QED
        BY <4>2 DEF Owing, Past, At
    <3>6. ~ Owes(t)'
      BY <1>3, <1>4, <3>4, <3>5 DEF Owes
    <3>7. Head(todo[w])[1] = t
      BY <2>2, <2>3
    <3> QED
      BY <1>6, <3>2, <3>6, <3>7
  <2>4. CASE todo[w][1][1] # t
    <3>1. Owing(w, t)' <=> Owing(w, t)
      <4>1. ASSUME NEW i \in DOMAIN todo'[w], todo'[w][i][1] = t
            PROVE  \E j \in DOMAIN todo[w] : todo[w][j][1] = t
        BY <2>2, <4>1
      <4>2. ASSUME NEW i \in DOMAIN todo[w], todo[w][i][1] = t
            PROVE  \E j \in DOMAIN todo'[w] : todo'[w][j][1] = t
        BY <2>2, <2>4, <4>2
      <4> QED
        BY <2>1, <4>1, <4>2 DEF Owing, Past, At
    <3>2. Head(todo[w])[1] # t
      BY <2>2, <2>4
    <3>3. Owes(t)' <=> Owes(t)
      BY <1>5, <3>1
    <3> QED
      BY <3>2, <3>3
  <2> QED
    BY <2>3, <2>4
<1>7. CASE WorkerDone(w)
  <2>1. /\ ~ Past(w) /\ At(w, "done") /\ ~ Inline(w[1]) /\ ~ SendEnd(w)
    BY <1>7 DEF WorkerDone, Past, At, SendEnd
  <2>2. CASE doneCount[w[1]] + 1 >= WorkerNum[w[1]]
    <3>1. Broadcast(w, EndCmd) /\ pc'[w] = "end"
      BY <1>1, <1>7, <2>2 DEF WorkerDone, GoTo
    <3>2. w \in Upstream(t) => Owing(w, t)'
      <4>1. todo'[w] = [i \in DOMAIN Nexts[w[1]] |-> <<Nexts[w[1]][i], EndCmd>>]
        BY <1>1, <3>1 DEF Broadcast
      <4>2. w \in Upstream(t) => \E i \in DOMAIN Nexts[w[1]] : Nexts[w[1]][i] = t
        BY DEF Upstream, Feeds
      <4>3. w \in Upstream(t) => \E i \in DOMAIN todo'[w] : todo'[w][i][1] = t
        BY <4>1, <4>2
      <4> QED
        BY <3>1, <4>3 DEF Owing, At
    <3> QED
      BY <1>5, <2>1, <3>2 DEF Owing
  <2>3. CASE ~ (doneCount[w[1]] + 1 >= WorkerNum[w[1]])
    <3>1. PICK c \in Nat, d \in Nat, k \in Nat :
             c = Cardinality(PastOf(w[1])) /\ d = doneCount[w[1]] /\ k = WorkerNum[w[1]]
      BY <1>1, PastOfIsFinite, TreeAssumption DEF PodPart, PodTypeOK
    <3>2. c <= d /\ ~ (d + 1 >= k)
      BY <1>1, <2>1, <2>3, <3>1 DEF FullOK
    <3>3. k = Cardinality(WorkersOf(w[1])) /\ IsFiniteSet(WorkersOf(w[1]))
      BY <1>1, <2>1, <3>1, WorkersOfIsFinite DEF PodSize
    <3>4. /\ w \notin PastOf(w[1])
          /\ IsFiniteSet(PastOf(w[1]) \cup {w})
          /\ Cardinality(PastOf(w[1]) \cup {w}) = c + 1
      BY <1>1, <2>1, <3>1, PastOfIsFinite, FS_AddElement DEF PastOf
    <3>5. PastOf(w[1]) \cup {w} # WorkersOf(w[1])
      BY <3>1, <3>2, <3>3, <3>4
    <3>6. PICK v \in WorkersOf(w[1]) : v # w /\ ~ Past(v)
      BY <1>1, <3>5 DEF PastOf
    <3>7. v \in Workers /\ v[1] = w[1] /\ ~ Past(v)'
      BY <1>1, <3>6 DEF Workers, WorkersOf, Past
    <3>8. CASE w \in Upstream(t)
      <4>1. v \in Upstream(t)
        BY <3>7, <3>8 DEF Upstream
      <4> QED
        BY <2>1, <3>6, <3>7, <4>1 DEF Owes, Owing
    <3>9. CASE w \notin Upstream(t)
      BY <1>5, <2>1, <3>9
    <3> QED
      BY <3>8, <3>9
  <2> QED
    BY <2>2, <2>3
<1>8. CASE InlineDone(w)
  <2>1. Broadcast(w, EndCmd) /\ pc'[w] = "end" /\ ~ Past(w) /\ ~ SendEnd(w)
    BY <1>1, <1>8 DEF InlineDone, GoTo, Past, At, SendEnd
  <2>2. w \in Upstream(t) => Owing(w, t)'
    <3>1. todo'[w] = [i \in DOMAIN Nexts[w[1]] |-> <<Nexts[w[1]][i], EndCmd>>]
      BY <1>1, <2>1 DEF Broadcast
    <3>2. w \in Upstream(t) => \E i \in DOMAIN Nexts[w[1]] : Nexts[w[1]][i] = t
      BY DEF Upstream, Feeds
    <3>3. w \in Upstream(t) => \E i \in DOMAIN todo'[w] : todo'[w][i][1] = t
      BY <3>1, <3>2
    <3> QED
      BY <2>1, <3>3 DEF Owing, At
  <2> QED
    BY <1>5, <2>1, <2>2 DEF Owing
<1>9. CASE StartClean(w)
  <2>1. todo[w] = <<>> /\ At(w, "end") /\ ~ SendEnd(w) /\ pc'[w] \in {"clean", "exit"}
    BY <1>1, <1>9 DEF StartClean, SendEnd, PutNext, GoTo
  <2>2. ~ Owing(w, t) /\ ~ Owing(w, t)'
    BY <2>1 DEF Owing, Past, At
  <2> QED
    BY <1>5, <2>1, <2>2
<1>10. CASE Clean(w) \/ Cleaned(w) \/ Exit(w)
  <2>1. pc[w] \in OverPcs /\ pc'[w] \in OverPcs /\ ~ SendEnd(w)
    BY <1>1, <1>10 DEF Clean, Cleaned, Exit, podVars, GoTo, At, OverPcs, SendEnd
  <2>2. ~ Owing(w, t) /\ ~ Owing(w, t)'
    BY <2>1 DEF Owing, Past, At, OverPcs
  <2> QED
    BY <1>5, <2>1, <2>2
<1>11. CASE \/ Produce(w) \/ SendNext(w) \/ StartGet(w) \/ ReceiveItem(w) \/ ReceiveEnd(w)
            \/ Forward(w) \/ GetEmpty(w) \/ Return(w) \/ Fail(w) \/ StartWorker(w)
  <2>1. ~ Past(w) /\ ~ Past(w)' /\ ~ SendEnd(w)
    BY <1>1, <1>11 DEF Produce, SendNext, StartGet, ReceiveItem, ReceiveEnd, Forward, GetEmpty,
       Return, Fail, StartWorker, SendData, GoTo, At, Past, SendEnd
  <2> QED
    BY <1>5, <2>1 DEF Owing
<1> QED
  BY <1>6, <1>7, <1>8, <1>9, <1>10, <1>11 DEF StepOf, WorkerStep

\* A step of a worker that leaves the pips alone.
LEMMA PipStutterKeepsEnds ==
  ASSUME PodPart, AloneInv, TodoOK, WorkOK, EndsOK, SlotsOK, NEW w \in Workers, StepOf(w),
         ~ (ReceiveEnd(w) \/ Forward(w) \/ SendEnd(w)), UNCHANGED pipVars
  PROVE  EndsOK' /\ SlotsOK'
<1>1. \A t \in Tasks : SameBuffers(t) /\ SamePipe(t) /\ slots'[t] = slots[t]
  BY DEF SameBuffers, SamePipe, pipVars
<1>2. SlotsOK'
  BY <1>1, SlotStays DEF SlotsOK
<1>3. ASSUME NEW t \in Tasks, HasUpstream(t) PROVE EndOK(t)'
  <2>1. ReadersStay(t) /\ SameEnded(t) /\ (Owes(t)' <=> Owes(t))
    BY StepReaders, StepOwes DEF WorkOK
  <2>2. EndsStay(t)
    BY <1>1, CarriesStays DEF EndsStay
  <2>3. OnwardStep /\ EndOK(t)
    BY <1>3, WorkerStepIsOnward DEF StepOf, EndsOK
  <2> QED
    BY <2>1, <2>2, <2>3, QuietKeepsEnd
<1> QED
  BY <1>2, <1>3 DEF EndsOK

\* A put takes a slot, a get gives one back.
LEMMA PutSlots ==
  ASSUME PipTypeOK, SlotsOK, NEW p \in Procs, NEW u \in Tasks, NEW m \in Messages, Put(p, u, m)
  PROVE  SlotsOK'
<1>1. /\ Bounded(u) => slots[u] > 0 /\ slots'[u] = slots[u] - 1
      /\ \A t \in Tasks : t # u => slots'[t] = slots[t]
  BY DEF Put, PipTypeOK
<1> SUFFICES ASSUME NEW t \in Tasks PROVE SlotOK(t)'
  BY DEF SlotsOK
<1>2. SlotOK(t)
  BY DEF SlotsOK
<1>3. CASE t = u
  BY <1>1, <1>2, <1>3, PutFrame, SlotPut
<1>4. CASE t # u
  BY <1>1, <1>2, <1>4, PutFrame, SlotStays
<1> QED
  BY <1>3, <1>4

\* A get gives the slot of what it takes back.
LEMMA GetSlots ==
  ASSUME PipTypeOK, SlotsOK, NEW u \in Tasks, Get(u)
  PROVE  SlotsOK'
<1>1. /\ Bounded(u) => slots'[u] = slots[u] + 1
      /\ \A t \in Tasks : t # u => slots'[t] = slots[t]
  BY DEF Get, PipTypeOK
<1> SUFFICES ASSUME NEW t \in Tasks PROVE SlotOK(t)'
  BY DEF SlotsOK
<1>2. SlotOK(t)
  BY DEF SlotsOK
<1>3. CASE t = u
  BY <1>1, <1>2, <1>3, GetFrame, SlotTaken
<1>4. CASE t # u
  BY <1>1, <1>2, <1>4, GetFrame, SlotStays
<1> QED
  BY <1>3, <1>4

\* A step of a worker keeps them, whatever it puts or gets.
LEMMA StepKeepsSlots ==
  ASSUME PodPart, SlotsOK, NEW w \in Workers, StepOf(w)
  PROVE  SlotsOK'
<1>1. PipTypeOK /\ w[1] \in Tasks /\ Home(w) \in Procs
  BY WorkerOfItsTask DEF PodPart
<1>2. CASE SendNext(w) \/ SendEnd(w)
  <2>1. PutNext(w) /\ Head(todo[w]) \in Tasks \X Messages
    BY <1>2, PutNextKeepsTypes DEF SendNext, SendEnd
  <2>2. Head(todo[w])[1] \in Tasks /\ Head(todo[w])[2] \in Messages
    BY <2>1
  <2> QED
    BY <1>1, <2>1, <2>2, PutSlots DEF PutNext
<1>3. CASE Forward(w)
  BY <1>1, <1>3, MessageTypes, PutSlots DEF Forward
<1>4. CASE ReceiveItem(w) \/ ReceiveEnd(w) \/ Clean(w)
  BY <1>1, <1>4, GetSlots DEF ReceiveItem, RecvItem, ReceiveEnd, RecvEnd, Clean, CleanOne
<1>5. CASE UNCHANGED pipVars
  BY <1>5, SlotStays DEF SlotsOK, SameBuffers, SamePipe, pipVars
<1> QED
  BY <1>2, <1>3, <1>4, <1>5 DEF StepOf, WorkerStep, Produce, StartGet, GetEmpty, Return,
     WorkerDone, InlineDone, StartClean, Cleaned, Exit, Fail, StartWorker

\* A feeder keeps them too.
LEMMA FeederKeepsEnds ==
  ASSUME PodPart, EndsOK, SlotsOK, NEW p \in Procs, NEW u \in Tasks, Feeder(p, u)
  PROVE  EndsOK' /\ SlotsOK'
<1>1. /\ PipTypeOK /\ buf[p][u] # <<>> /\ isEnded' = isEnded /\ slots' = slots
      /\ pipe' = [pipe EXCEPT ![u] = Append(@, Head(buf[p][u]))]
      /\ buf' = [buf EXCEPT ![p][u] = Tail(@)]
      /\ UNCHANGED <<pc, todo, toForward>>
  BY DEF Feeder, Flush, podVars, PodPart
<1>2. /\ pipe'[u] = Append(pipe[u], Head(buf[p][u]))
      /\ \A t \in Tasks : t # u => SamePipe(t)
  BY <1>1 DEF SamePipe, PipTypeOK
<1>3. /\ buf'[p][u] = Tail(buf[p][u])
      /\ \A q \in Procs : q # p => buf'[q][u] = buf[q][u]
      /\ \A t \in Tasks : t # u => SameBuffers(t)
  BY <1>1 DEF SameBuffers, PipTypeOK
<1>4. ASSUME NEW t \in Tasks PROVE SlotOK(t)'
  <2>1. SlotOK(t) /\ slots'[t] = slots[t]
    BY <1>1 DEF SlotsOK
  <2>2. CASE t = u
    BY <1>1, <1>2, <1>3, <2>1, <2>2, SlotFlushed
  <2>3. CASE t # u
    BY <1>2, <1>3, <2>1, <2>3, SlotStays
  <2> QED
    BY <2>2, <2>3
<1>5. ASSUME NEW t \in Tasks, HasUpstream(t) PROVE EndOK(t)'
  <2>1. /\ ReadersStay(t) /\ SameEnded(t) /\ OnwardStep /\ EndOK(t)
        /\ Owes(t)' <=> Owes(t)
    BY <1>1, <1>5 DEF ReadersStay, Waits, At, ShareOf, SameEnded, OnwardStep, Past, EndsOK,
       Owes, Owing
  <2>2. CASE t = u
    <3>1. EndsStay(t)
      BY <1>1, <1>2, <1>3, <2>2, CarriesFlushed DEF EndsStay
    <3> QED
      BY <2>1, <3>1, QuietKeepsEnd
  <2>3. CASE t # u
    <3>1. EndsStay(t)
      BY <1>2, <1>3, <2>3, CarriesStays DEF EndsStay
    <3> QED
      BY <2>1, <3>1, QuietKeepsEnd
  <2> QED
    BY <2>2, <2>3
<1> QED
  BY <1>4, <1>5 DEF SlotsOK, EndsOK

\* A step of a worker that concerns no pip but that of u, and leaves the ends of u
\* right, leaves all right.
LEMMA OtherEndsStay ==
  ASSUME PodPart, AloneInv, TodoOK, WorkOK, EndsOK, NEW w \in Workers, StepOf(w),
         NEW u \in Tasks, HasUpstream(u) => EndOK(u)',
         \A t \in Tasks : t # u => /\ SameBuffers(t) /\ SamePipe(t)
                                   /\ ReadersStay(t) /\ SameEnded(t)
                                   /\ Owes(t)' <=> Owes(t)
  PROVE  EndsOK'
<1>1. ASSUME NEW t \in Tasks, HasUpstream(t), t # u PROVE EndOK(t)'
  <2>1. EndsStay(t)
    BY <1>1, CarriesStays DEF EndsStay
  <2>2. OnwardStep /\ EndOK(t)
    BY <1>1, WorkerStepIsOnward DEF StepOf, EndsOK
  <2> QED
    BY <1>1, <2>1, <2>2, QuietKeepsEnd
<1> QED
  BY <1>1 DEF EndsOK

\* An item is put while ends are still owed, or before.
LEMMA SendNextKeepsEnds ==
  ASSUME PodPart, AloneInv, TodoOK, WorkOK, EndsOK, NEW w \in Workers, SendNext(w)
  PROVE  EndsOK'
<1>1. StepOf(w) /\ PipTypeOK /\ Home(w) \in Procs /\ ~ (ReceiveEnd(w) \/ Forward(w) \/ SendEnd(w))
  BY WorkerOfItsTask DEF StepOf, WorkerStep, PodPart, SendNext, ReceiveEnd, Forward, SendEnd, At
<1>2. Head(todo[w]) \in Tasks \X DataMessages /\ PutNext(w)
  BY PutNextKeepsTypes DEF SendNext
<1>3. PICK u \in Tasks, m \in DataMessages : u = Head(todo[w])[1] /\ m = Head(todo[w])[2]
  BY <1>2
<1>4. Put(Home(w), u, m) /\ m \in Messages /\ m.type # "end"
  BY <1>2, <1>3, MessageTypes DEF PutNext, DataMessages
<1>5. \A t \in Tasks : ReadersStay(t) /\ SameEnded(t) /\ (Owes(t)' <=> Owes(t))
  BY <1>1, StepReaders, StepOwes DEF WorkOK
<1>6. /\ buf'[Home(w)][u] = Append(buf[Home(w)][u], m)
      /\ \A q \in Procs : q # Home(w) => buf'[q][u] = buf[q][u]
      /\ \A t \in Tasks : t # u => SameBuffers(t)
      /\ \A t \in Tasks : SamePipe(t)
  BY <1>1, <1>4, PutFrame
<1>7. HasUpstream(u) => EndOK(u)'
  <2>1. EndsStay(u)
    BY <1>1, <1>4, <1>6, CarriesPutData DEF EndsStay
  <2>2. OnwardStep
    BY <1>1, WorkerStepIsOnward DEF StepOf
  <2> QED
    BY <1>5, <2>1, <2>2, QuietKeepsEnd DEF EndsOK
<1> QED
  BY <1>1, <1>5, <1>6, <1>7, OtherEndsStay

\* The last worker of the upstream task puts the end.
LEMMA SendEndKeepsEnds ==
  ASSUME PodPart, AloneInv, TodoOK, WorkOK, EndsOK, NEW w \in Workers, SendEnd(w)
  PROVE  EndsOK'
<1>1. StepOf(w) /\ PipTypeOK /\ Home(w) \in Procs /\ ~ (ReceiveEnd(w) \/ Forward(w))
  BY WorkerOfItsTask DEF StepOf, WorkerStep, PodPart, ReceiveEnd, Forward, SendEnd, At
<1>2. Head(todo[w]) \in Tasks \X Messages /\ PutNext(w) /\ At(w, "end") /\ todo[w] # <<>>
      /\ todo[w] \in Seq(Tasks \X Messages)
  BY PutNextKeepsTypes DEF SendEnd, PutNext, PodPart, PodTypeOK
<1>3. PICK u \in Tasks : u = Head(todo[w])[1]
  BY <1>2
<1>4. Put(Home(w), u, EndCmd)
  <2>1. 1 \in DOMAIN todo[w] /\ Head(todo[w]) = todo[w][1]
    BY <1>2, HeadTailProperties, LenProperties, EmptySeq
  <2>2. Head(todo[w])[2] = EndCmd
    BY <1>2, <2>1 DEF TodoOK, At
  <2> QED
    BY <1>2, <1>3, <2>2 DEF PutNext
<1>5. \A t \in Tasks : ReadersStay(t) /\ SameEnded(t)
  BY <1>1, StepReaders
<1>6. /\ \A t \in Tasks : t # u => (Owes(t)' <=> Owes(t))
      /\ Owes(u) /\ ~ Owes(u)'
  BY <1>1, <1>3, StepOwes DEF WorkOK
<1>7. /\ buf'[Home(w)][u] = Append(buf[Home(w)][u], EndCmd)
      /\ \A q \in Procs : q # Home(w) => buf'[q][u] = buf[q][u]
      /\ \A t \in Tasks : t # u => SameBuffers(t)
      /\ \A t \in Tasks : SamePipe(t)
  BY <1>1, <1>4, PutFrame
<1>8. HasUpstream(u) => EndOK(u)'
  BY <1>1, <1>5, <1>6, <1>7, PutEndKeepsEnd DEF EndsOK
<1> QED
  BY <1>1, <1>5, <1>6, <1>7, <1>8, OtherEndsStay

\* A worker passes an end on to another worker of its task.
LEMMA ForwardKeepsEnds ==
  ASSUME PodPart, AloneInv, TodoOK, WorkOK, EndsOK, NEW w \in Workers, Forward(w)
  PROVE  EndsOK'
<1> DEFINE u == w[1]
<1>1. /\ StepOf(w) /\ PipTypeOK /\ Home(w) \in Procs /\ u \in Tasks /\ w \in WorkersOf(u)
      /\ ~ SendEnd(w) /\ ~ ReceiveEnd(w) /\ At(w, "forward")
  BY WorkerOfItsTask DEF StepOf, WorkerStep, PodPart, ReceiveEnd, Forward, SendEnd, At
<1>2. \A t \in Tasks : Owes(t)' <=> Owes(t)
  BY <1>1, StepOwes DEF WorkOK
<1>3. \A t \in Tasks : t # u => ReadersStay(t) /\ SameEnded(t)
  BY <1>1, StepReaders
<1>4. /\ buf'[Home(w)][u] = Append(buf[Home(w)][u], ForwardedEnd)
      /\ \A q \in Procs : q # Home(w) => buf'[q][u] = buf[q][u]
      /\ \A t \in Tasks : t # u => SameBuffers(t)
      /\ \A t \in Tasks : SamePipe(t) /\ SameEnded(t)
  BY <1>1, PutFrame DEF Forward
<1>5. /\ toForward'[w] = toForward[w] - 1
      /\ pc'[w] = IF toForward[w] = 1 THEN "task" ELSE "forward"
  BY DEF Forward, GoTo, PodPart, PodTypeOK
<1>6. \A v \in WorkersOf(u) : v # w => pc'[v] = pc[v]
  BY <1>1, WorkerStepIsOnward DEF StepOf, Workers
<1>7. HasUpstream(u) => EndOK(u)'
  BY <1>1, <1>2, <1>4, <1>5, <1>6, ForwardKeepsEnd DEF EndsOK
<1> QED
  BY <1>1, <1>2, <1>3, <1>4, <1>7, OtherEndsStay

\* A user function is given an item.
LEMMA ReceiveItemKeepsEnds ==
  ASSUME PodPart, AloneInv, TodoOK, WorkOK, EndsOK, NEW w \in Workers, ReceiveItem(w)
  PROVE  EndsOK'
<1> DEFINE u == w[1]
<1>1. /\ StepOf(w) /\ PipTypeOK /\ u \in Tasks
      /\ ~ SendEnd(w) /\ ~ Forward(w) /\ At(w, "get")
  BY WorkerOfItsTask DEF StepOf, WorkerStep, PodPart, ReceiveItem, Forward, SendEnd, At
<1>2. PICK x \in Items : RecvItem(u, x) /\ SendData(w, x)
  BY DEF ReceiveItem
<1>3. Get(u) /\ Head(pipe[u]).type # "end" /\ ~ ReceiveEnd(w)
  BY <1>2 DEF RecvItem, ReceiveEnd, RecvEnd, Data
<1>4. \A t \in Tasks : ReadersStay(t) /\ SameEnded(t) /\ (Owes(t)' <=> Owes(t))
  BY <1>1, <1>3, StepReaders, StepOwes DEF WorkOK
<1>5. /\ pipe[u] # <<>> /\ pipe'[u] = Tail(pipe[u])
      /\ \A t \in Tasks : t # u => SamePipe(t)
      /\ \A t \in Tasks : SameBuffers(t)
  BY <1>1, <1>3, GetFrame
<1>6. HasUpstream(u) => EndOK(u)'
  <2>1. EndsStay(u)
    BY <1>1, <1>3, <1>5, CarriesTaken DEF EndsStay
  <2>2. OnwardStep
    BY <1>1, WorkerStepIsOnward DEF StepOf
  <2> QED
    BY <1>1, <1>4, <2>1, <2>2, QuietKeepsEnd DEF EndsOK
<1> QED
  BY <1>1, <1>4, <1>5, <1>6, OtherEndsStay

\* A worker is told the end.
LEMMA ReceiveEndKeepsEnds ==
  ASSUME PodPart, AloneInv, TodoOK, WorkOK, EndsOK, NEW w \in Workers, ReceiveEnd(w)
  PROVE  EndsOK'
<1> DEFINE u == w[1]
<1>1. /\ StepOf(w) /\ PipTypeOK /\ Home(w) \in Procs /\ u \in Tasks /\ w \in WorkersOf(u)
      /\ ~ SendEnd(w) /\ ~ Forward(w) /\ At(w, "get")
  BY WorkerOfItsTask DEF StepOf, WorkerStep, PodPart, ReceiveEnd, Forward, SendEnd, At
<1>2. \A t \in Tasks : Owes(t)' <=> Owes(t)
  BY <1>1, StepOwes DEF WorkOK
<1>3. \A t \in Tasks : t # u => ReadersStay(t) /\ SameEnded(t)
  BY <1>1, StepReaders
<1>4. /\ Get(u) /\ Head(pipe[u]).type = "end"
      /\ isEnded' = [isEnded EXCEPT ![Home(w)][u] = TRUE]
  BY DEF ReceiveEnd, RecvEnd
<1>5. /\ pipe[u] # <<>> /\ pipe'[u] = Tail(pipe[u])
      /\ \A t \in Tasks : t # u => SamePipe(t)
      /\ \A t \in Tasks : SameBuffers(t)
  BY <1>1, <1>4, GetFrame
<1>6. /\ isEnded'[Home(w)][u]
      /\ \A p \in Procs : p # Home(w) => isEnded'[p][u] = isEnded[p][u]
  BY <1>1, <1>4 DEF PipTypeOK
<1>7. /\ toForward'[w] = Forwards(u, Head(pipe[u]))
      /\ pc'[w] = IF toForward'[w] = 0 THEN "task" ELSE "forward"
      /\ \A v \in Workers : v # w => toForward'[v] = toForward[v]
  BY DEF ReceiveEnd, GoTo, PodPart, PodTypeOK
<1>8. \A v \in WorkersOf(u) : v # w => pc'[v] = pc[v] /\ toForward'[v] = toForward[v]
  BY <1>1, <1>7, WorkerStepIsOnward DEF StepOf, Workers
<1>9. OwnCopies(u) => ~ isEnded[Home(w)][u]
  BY <1>1 DEF WorkOK, GetOK
<1>10. HasUpstream(u) => EndOK(u)'
  BY <1>1, <1>2, <1>4, <1>5, <1>6, <1>7, <1>8, <1>9, TakeEndKeepsEnd DEF EndsOK
<1> QED
  BY <1>1, <1>2, <1>3, <1>5, <1>10, OtherEndsStay

\* The last worker of a task cleans its pip.
LEMMA CleanKeepsEnds ==
  ASSUME PodPart, AloneInv, TodoOK, WorkOK, EndsOK, NEW w \in Workers, Clean(w)
  PROVE  EndsOK'
<1> DEFINE u == w[1]
<1>1. /\ StepOf(w) /\ PipTypeOK /\ u \in Tasks /\ At(w, "clean") /\ Get(u)
      /\ ~ SendEnd(w) /\ ~ Forward(w) /\ ~ ReceiveEnd(w)
  BY WorkerOfItsTask DEF StepOf, WorkerStep, PodPart, Clean, CleanOne, Forward, SendEnd,
     ReceiveEnd, At
<1>2. \A t \in Tasks : ReadersStay(t) /\ SameEnded(t) /\ (Owes(t)' <=> Owes(t))
  BY <1>1, StepReaders, StepOwes DEF WorkOK
<1>3. /\ pipe[u] # <<>> /\ pipe'[u] = Tail(pipe[u])
      /\ \A t \in Tasks : t # u => SamePipe(t)
      /\ \A t \in Tasks : SameBuffers(t)
  BY <1>1, GetFrame
<1>4. ReadersOver(u)
  <2> SUFFICES ASSUME NEW v \in WorkersOf(u)
               PROVE  pc[v] \in {"clean", "exit", "dead"}
    BY DEF ReadersOver
  <2>1. v \in Workers /\ v[1] = u
    BY <1>1 DEF Workers, WorkersOf
  <2> QED
    BY <1>1, <2>1 DEF AloneInv, LastWorkerAlone, At
<1>5. OnwardStep
  BY <1>1, WorkerStepIsOnward DEF StepOf
<1>6. HasUpstream(u) => EndOK(u)'
  BY <1>1, <1>2, <1>3, <1>4, <1>5, CleanKeepsEnd DEF EndsOK
<1> QED
  BY <1>1, <1>2, <1>3, <1>6, OtherEndsStay

\* What the workers know while nobody is killed, after a step of one of them.
LEMMA StepKeepsWait ==
  ASSUME PodPart, AloneInv, TodoOK, WorkOK, EndsOK, SlotsOK, NEW w \in Workers, StepOf(w)
  PROVE  WorkOK' /\ EndsOK' /\ SlotsOK'
<1>1. WorkOK'
  BY StepKeepsUp, StepKeepsGet, StepKeepsDist, StepKeepsPuts, StepKeepsHeld,
     StepKeepsFull DEF WorkOK
<1>2. SlotsOK'
  BY StepKeepsSlots
<1>3. CASE SendNext(w) \/ SendEnd(w) \/ Forward(w)
  BY <1>1, <1>2, <1>3, SendNextKeepsEnds, SendEndKeepsEnds, ForwardKeepsEnds
<1>4. CASE ReceiveItem(w) \/ ReceiveEnd(w) \/ Clean(w)
  BY <1>1, <1>2, <1>4, ReceiveItemKeepsEnds, ReceiveEndKeepsEnds, CleanKeepsEnds
<1>5. CASE \/ Produce(w) \/ StartGet(w) \/ GetEmpty(w) \/ Return(w)
           \/ WorkerDone(w) \/ InlineDone(w) \/ StartClean(w) \/ Cleaned(w)
           \/ Exit(w) \/ Fail(w) \/ StartWorker(w)
  <2>1. UNCHANGED pipVars
    BY <1>5 DEF Produce, StartGet, GetEmpty, Return, WorkerDone, InlineDone, StartClean,
       Cleaned, Exit, Fail, StartWorker
  <2>2. ~ (ReceiveEnd(w) \/ Forward(w) \/ SendEnd(w))
    BY <1>5 DEF Produce, StartGet, GetEmpty, Return, WorkerDone, InlineDone, StartClean,
       Cleaned, Exit, Fail, StartWorker, ReceiveEnd, Forward, SendEnd, At, PutNext, podVars,
       GoTo, PodPart, PodTypeOK
  <2> QED
    BY <1>1, <2>1, <2>2, PipStutterKeepsEnds
<1> QED
  BY <1>3, <1>4, <1>5 DEF StepOf, WorkerStep

(***************************************************************************)
(* The main process, and the inductive invariant                           *)
(***************************************************************************)

\* The workers that are not started are those the cursor has not reached, and
\* join finds all started, so that all that is to be killed was started.
OffOK ==
  /\ mainPc \in {"hooks", "start"} =>
       \A w \in Workers : At(w, "off") <=> ~ Before(w, cursor)
  /\ mainPc = "inline" =>
       /\ Inline(cursor[1])
       /\ \A w \in Workers : At(w, "off") <=> ~ Before(w, cursor) /\ w # cursor
  /\ mainPc = "join" => \A w \in Workers : ~ At(w, "off")
KillableOK == \A w \in toKill : ~ At(w, "off")

WaitInv ==
  /\ CleanInv /\ OffOK /\ KillableOK
  /\ Unkilled => WorkOK /\ EndsOK /\ SlotsOK

\* What the workers know does not depend on the main process.
LEMMA MainKeepsWork ==
  ASSUME UNCHANGED <<pipVars, podVars>>, WorkOK, EndsOK, SlotsOK
  PROVE  WorkOK' /\ EndsOK' /\ SlotsOK'
<1>1. /\ UNCHANGED <<buf, pipe, slots, isEnded>>
      /\ UNCHANGED <<pc, todo, toForward, doneCount, lock>>
  BY DEF pipVars, podVars, endVars
<1>2. WorkOK'
  BY <1>1 DEF WorkOK, UpOK, GetOK, DistOK, PutsOK, HeldOK, FullOK, PastOf, Past, At, OwnCopies
<1>3. SlotsOK'
  BY <1>1, SlotStays DEF SlotsOK, SameBuffers, SamePipe
<1>4. ASSUME NEW t \in Tasks, EndOK(t) PROVE EndOK(t)'
  <2>1. \A p, n, m : Carries(t, p, n, m)' <=> Carries(t, p, n, m)
    BY <1>1 DEF Carries
  <2>2. (Fresh(t)' <=> Fresh(t)) /\ (Owes(t)' <=> Owes(t)) /\ (ReadersOver(t)' <=> ReadersOver(t))
    BY <1>1 DEF Fresh, Ended, Owes, Owing, ReadersOver, Past, At
  <2>3. \A f : ShareOf(f)' = ShareOf(f)
    BY <1>1 DEF ShareOf, At
  <2>4. Waiting(t)' = Waiting(t) /\ NotEnded(t)' = NotEnded(t)
    BY <1>1 DEF Waiting, Waits, NotEnded, At
  <2>5. \A f : Sharing(f, t) => Sharing(f, t)'
    BY <1>1, <2>1, <2>3, <2>4 DEF Sharing, Enough, At
  <2> QED
    BY <1>4, <2>1, <2>2, <2>5 DEF EndOK, NoEnd, EndComes
<1> QED
  BY <1>2, <1>3, <1>4 DEF EndsOK

\* The worker after a worker, and the pod after a pod.
LEMMA AfterIsNext ==
  ASSUME NEW v \in Workers, NEW w \in Workers
  PROVE  /\ Before(v, w) \/ v = w => Before(v, NextWorker(w)) /\ Before(v, NextPod(w))
         /\ Before(v, NextPod(w)) => v[1] = w[1] \/ Before(v, w)
<1>1. /\ v[1] \in Nat /\ v[2] \in Nat /\ w[1] \in Nat /\ w[2] \in Nat
      /\ v = <<v[1], v[2]>> /\ w = <<w[1], w[2]>>
      /\ v[2] \in 1 .. PodSize(v[1]) /\ PodSize(v[1]) \in Nat
  BY WorkerOfItsTask, PodSizeIsPositive DEF Tasks, WorkersOf
<1>2. Before(v, w) \/ v = w => v[1] < w[1] \/ (v[1] = w[1] /\ v[2] <= w[2])
  BY <1>1 DEF Before
<1>3. v[2] >= 1
  BY <1>1
<1>4. CASE w[2] < PodSize(w[1])
  BY <1>1, <1>2, <1>3, <1>4 DEF NextWorker, NextPod, Before
<1>5. CASE ~ (w[2] < PodSize(w[1]))
  BY <1>1, <1>2, <1>3, <1>5 DEF NextWorker, NextPod, Before
<1> QED
  BY <1>4, <1>5

\* A step of a worker, and a SIGINT, start nobody and take nobody back.
LEMMA StepKeepsOff ==
  ASSUME PodPart, NEW w \in Workers, WorkerStep(w) \/ Fail(w) \/ Interrupt(w)
  PROVE  \A v \in Workers : At(v, "off")' <=> At(v, "off")
<1>1. /\ \A v \in Workers : v # w => pc'[v] = pc[v]
      /\ pc \in [Workers -> Locations]
  BY WorkerStepIsOnward DEF PodPart, PodTypeOK
<1>2. pc[w] # "off" /\ pc'[w] # "off"
  BY <1>1 DEF WorkerStep, Produce, SendNext, StartGet, ReceiveItem, ReceiveEnd, Forward, GetEmpty,
     Return, WorkerDone, InlineDone, SendEnd, StartClean, Clean, Cleaned, Exit, Fail, Interrupt, InRecv,
     SendData, GoTo, At, podVars, Locations
<1> QED
  BY <1>1, <1>2 DEF At

\* The main process keeps what it knows of who is started.
LEMMA MainStepKeepsOff ==
  ASSUME PodPart, MainPart, MainInv, OffOK, KillableOK,
         MainStep \/ InterruptJoin \/ InterruptStart
  PROVE  OffOK' /\ KillableOK'
<1> USE CursorFacts DEF MainGoTo
<1>1. CASE BeforeTask
  BY <1>1 DEF BeforeTask, OffOK, KillableOK, At, podVars
<1>2. CASE StartStopped \/ InterruptStart
  BY <1>2 DEF StartStopped, InterruptStart, OffOK, KillableOK, At, podVars
<1>3. CASE StartPodWorker
  <2>1. /\ cursor \in Workers /\ mainPc = "start" /\ mainPc' = "start"
        /\ pc' = [pc EXCEPT ![cursor] = "task"] /\ pc \in [Workers -> Locations]
        /\ cursor' = NextWorker(cursor) /\ toKill' = toKill
    BY <1>3 DEF StartPodWorker, StartWorker, GoTo, PodPart, PodTypeOK
  <2>2. ASSUME NEW w \in Workers PROVE At(w, "off")' <=> ~ Before(w, cursor')
    <3>1. Before(w, cursor') <=> w = cursor \/ Before(w, cursor)
      BY <2>1, BeforeNext, AfterIsNext
    <3> QED
      BY <2>1, <3>1 DEF OffOK, At
  <2>3. toKill' = {}
    BY <2>1 DEF MainInv
  <2> QED
    BY <2>1, <2>2, <2>3 DEF OffOK, KillableOK
<1>4. CASE StartInline
  <2>1. /\ cursor \in Workers /\ mainPc = "start" /\ mainPc' = "inline"
        /\ pc' = [pc EXCEPT ![cursor] = "task"] /\ pc \in [Workers -> Locations]
        /\ cursor' = cursor /\ toKill' = toKill /\ Inline(cursor[1])
    BY <1>4 DEF StartInline, StartWorker, GoTo, PodPart, PodTypeOK
  <2>2. \A w \in Workers : At(w, "off")' <=> ~ Before(w, cursor) /\ w # cursor
    BY <2>1 DEF OffOK, At
  <2>3. toKill' = {}
    BY <2>1 DEF MainInv
  <2> QED
    BY <2>1, <2>2, <2>3 DEF OffOK, KillableOK
<1>5. CASE EndInline
  <2>1. /\ cursor \in Workers /\ mainPc = "inline" /\ mainPc' \in {"raised", "start"}
        /\ cursor' = NextPod(cursor) /\ pc' = pc /\ toKill' = toKill
    BY <1>5 DEF EndInline, podVars
  <2>2. ASSUME NEW w \in Workers PROVE At(w, "off")' <=> ~ Before(w, cursor')
    <3>1. Before(w, cursor') <=> w[1] = cursor[1] \/ Before(w, cursor)
      <4>1. w[1] = cursor[1] => w = cursor
        BY <2>1, InlineIsAlone DEF OffOK
      <4> QED
        BY <2>1, <4>1, AfterIsNext
    <3>2. w[1] = cursor[1] => w = cursor
      BY <2>1, InlineIsAlone DEF OffOK
    <3> QED
      BY <2>1, <3>1, <3>2 DEF OffOK, At
  <2> QED
    BY <2>1, <2>2 DEF OffOK, KillableOK, At
<1>6. CASE StartDone
  <2>1. /\ mainPc = "start" /\ mainPc' = "join" /\ pc' = pc /\ toKill' = toKill
        /\ cursor[1] \in Nat /\ cursor[1] > NTasks
    BY <1>6 DEF StartDone, PastLast, podVars
  <2>2. ASSUME NEW w \in Workers PROVE ~ At(w, "off")
    <3>1. w[1] \in 1 .. NTasks
      BY WorkerOfItsTask DEF Tasks
    <3>2. Before(w, cursor)
      BY <2>1, <3>1 DEF Before
    <3> QED
      BY <2>1, <3>2 DEF OffOK
  <2> QED
    BY <2>1, <2>2 DEF OffOK, KillableOK, At
<1>7. CASE JoinWorker
  <2>1. /\ cursor \in Workers /\ mainPc = "join" /\ mainPc' = "join" /\ pc' = pc
        /\ toKill' = toKill \/ toKill' = toKill \cup {cursor}
    BY <1>7 DEF JoinWorker, podVars
  <2> QED
    BY <2>1 DEF OffOK, KillableOK, At
<1>8. CASE JoinDone \/ AfterTask \/ NextRound
  BY <1>8 DEF JoinDone, AfterTask, NextRound, OffOK, KillableOK, At, podVars
<1>9. CASE InterruptJoin
  BY <1>9 DEF InterruptJoin, OffOK, KillableOK, At, podVars
<1>10. CASE \E w \in Workers : KillWorker(w)
  <2>1. PICK w \in Workers : KillWorker(w)
    BY <1>10
  <2>2. mainPc = "kill" /\ mainPc' = "kill" /\ toKill' = toKill
    BY <2>1 DEF KillWorker
  <2>3. \A v \in Workers : At(v, "off")' <=> At(v, "off")
    BY <2>1 DEF KillWorker, podVars, At
  <2>4. toKill \subseteq Workers
    BY DEF MainPart, MainTypeOK
  <2> QED
    BY <2>2, <2>3, <2>4 DEF OffOK, KillableOK
<1> QED
  BY <1>1, <1>2, <1>3, <1>4, <1>5, <1>6, <1>7, <1>8, <1>9, <1>10 DEF MainStep

\* Every step keeps the invariant.
LEMMA NextKeepsWait ==
  ASSUME WaitInv, [Next]_vars
  PROVE  WaitInv'
<1>1. CleanInv /\ OffOK /\ KillableOK /\ (Unkilled => WorkOK /\ EndsOK /\ SlotsOK)
  BY DEF WaitInv
<1>2. PodPart /\ MainPart /\ AloneInv /\ TodoOK /\ MainInv /\ toKill \subseteq Workers
  BY <1>1 DEF CleanInv, StreamInv, MainPart, MainTypeOK
<1>3. CleanInv' /\ (Unkilled' => Unkilled)
  BY <1>1, NextKeepsClean, NextStaysKilled
<1>4. ASSUME UNCHANGED <<pipVars, podVars>>
      PROVE  Unkilled' => WorkOK' /\ EndsOK' /\ SlotsOK'
  BY <1>1, <1>3, <1>4, MainKeepsWork
<1>5. ASSUME NEW w \in Workers, StepOf(w)
      PROVE  Unkilled' => WorkOK' /\ EndsOK' /\ SlotsOK'
  BY <1>1, <1>2, <1>3, <1>5, StepKeepsWait
<1>6. ASSUME UNCHANGED mainVars, \A v \in Workers : At(v, "off")' <=> At(v, "off")
      PROVE  OffOK' /\ KillableOK'
  BY <1>1, <1>2, <1>6 DEF OffOK, KillableOK, mainVars
<1>7. CASE \E w \in Workers : (WorkerStep(w) \/ Fail(w)) /\ UNCHANGED mainVars
  BY <1>2, <1>3, <1>5, <1>6, <1>7, StepKeepsOff DEF StepOf, WaitInv
<1>8. CASE \E p \in Procs, t \in Tasks : Feeder(p, t) /\ UNCHANGED mainVars
  <2>1. PICK p \in Procs, t \in Tasks : Feeder(p, t) /\ UNCHANGED mainVars
    BY <1>8
  <2>2. OffOK' /\ KillableOK'
    BY <1>6, <2>1 DEF Feeder, podVars, At
  <2>3. WorkOK => WorkOK'
    BY <2>1 DEF Feeder, Flush, podVars, endVars, WorkOK, UpOK, GetOK, DistOK, PutsOK, HeldOK, FullOK, PastOf,
       Past, At, OwnCopies
  <2> QED
    BY <1>1, <1>2, <1>3, <2>1, <2>2, <2>3, FeederKeepsEnds DEF WaitInv
<1>9. CASE MainStep \/ InterruptJoin \/ InterruptStart
  <2>1. OffOK' /\ KillableOK'
    BY <1>1, <1>2, <1>9, MainStepKeepsOff
  <2>2. CASE StartPodWorker \/ StartInline
    <3>1. cursor \in Workers /\ StartWorker(cursor)
      BY <1>2, <2>2, CursorFacts DEF StartPodWorker, StartInline
    <3> QED
      BY <1>3, <1>5, <2>1, <3>1 DEF StepOf, WaitInv
  <2>3. CASE \E w \in Workers : KillWorker(w)
    BY <1>3, <2>1, <2>3 DEF KillWorker, Unkilled, WaitInv
  <2>4. CASE \/ BeforeTask \/ StartStopped \/ EndInline \/ StartDone
             \/ JoinWorker \/ JoinDone \/ AfterTask \/ NextRound
             \/ InterruptJoin \/ InterruptStart
    BY <1>3, <1>4, <2>1, <2>4 DEF BeforeTask, StartStopped, EndInline, StartDone, JoinWorker,
       JoinDone, AfterTask, NextRound, InterruptJoin, InterruptStart, WaitInv
  <2> QED
    BY <1>9, <2>2, <2>3, <2>4 DEF MainStep
<1>10. CASE UNCHANGED vars
  BY <1>3, <1>4, <1>6, <1>10 DEF vars, podVars, At, WaitInv
<1>11. CASE \E w \in Workers : HandleSignal(w)
  <2>1. PICK w \in Workers : HandleSignal(w)
    BY <1>11
  <2>2. \A v \in Workers : At(v, "off")' <=> At(v, "off")
    <3>1. CASE Interrupt(w)
      BY <1>2, <3>1, StepKeepsOff
    <3>2. CASE UNCHANGED podVars
      BY <3>2 DEF podVars, At
    <3> QED
      BY <2>1, <3>1, <3>2 DEF HandleSignal
  <2>3. OffOK' /\ KillableOK'
    BY <1>1, <1>2, <2>1, <2>2 DEF HandleSignal, OffOK, KillableOK
  <2>4. ~ Unkilled'
    BY <1>1, <2>1 DEF HandleSignal, CleanInv, SignalOK, Unkilled
  <2> QED
    BY <1>3, <2>3, <2>4 DEF WaitInv
<1> QED
  BY <1>7, <1>8, <1>9, <1>10, <1>11 DEF Next, Terminated

(***************************************************************************)
(* Nobody can go on: who is blocked, and why it cannot be                  *)
(***************************************************************************)

Frozen ==
  /\ \A w \in Workers : ~ CanStep(w)
  /\ \A p \in Procs, t \in Tasks : ~ CanFlush(p, t)
Stuck == Frozen /\ BoundsAreServed /\ mainPc \in {"inline", "join"}

\* Worker w waits for room in the queue of t.
Wants(w, t) ==
  /\ ~ HasRoom(t)
  /\ \/ At(w, "forward") /\ t = w[1]
     \/ pc[w] \in {"send", "end"} /\ todo[w] # <<>> /\ t = Head(todo[w])[1]
Wanted(t) == \E w \in Workers : Wants(w, t)

\* Of some tasks, one is the first and one is the last.
LEMMA FirstOfTasks ==
  ASSUME NEW I, I \subseteq Tasks, I # {}
  PROVE  \E x \in I : \A y \in I : x <= y
<1> DEFINE R == OpToRel(<, Nat)
<1>1. IsWellFoundedOn(R, Nat)
  BY NatLessThanWellFounded
<1>2. PICK x \in I : \A y \in I : <<y, x>> \notin R
  <2>1. I \subseteq Nat
    BY DEF Tasks
  <2> HIDE DEF R
  <2> QED
    BY <1>1, <2>1, WFMin
<1>3. ASSUME NEW y \in I PROVE x <= y
  <2>1. x \in Nat /\ y \in Nat
    BY DEF Tasks
  <2>2. ~ (y < x)
    BY <1>2, <2>1 DEF OpToRel
  <2> QED
    BY <2>1, <2>2
<1> QED
  BY <1>2, <1>3

\* The tasks are counted from the last.
LEMMA LastOfTasks ==
  ASSUME NEW I, I \subseteq Tasks, I # {}
  PROVE  \E x \in I : \A y \in I : y <= x
<1> DEFINE J == {t \in Tasks : NTasks + 1 - t \in I}
<1>1. NTasks \in Nat
  BY TreeAssumption
<1>2. \A t \in Tasks : NTasks + 1 - t \in Tasks /\ NTasks + 1 - (NTasks + 1 - t) = t
  BY <1>1 DEF Tasks
<1>3. \A y \in I : NTasks + 1 - y \in J
  BY <1>2
<1>4. J \subseteq Tasks /\ J # {}
  BY <1>3
<1>5. PICK x \in J : \A y \in J : x <= y
  <2> HIDE DEF J
  <2> QED
    BY <1>4, FirstOfTasks
<1>6. NTasks + 1 - x \in I
  BY <1>5
<1>7. ASSUME NEW y \in I PROVE y <= NTasks + 1 - x
  <2>1. x <= NTasks + 1 - y
    BY <1>3, <1>5
  <2>2. x \in Nat /\ y \in Nat
    BY <1>5 DEF Tasks
  <2> QED
    BY <1>1, <2>1, <2>2
<1> QED
  BY <1>6, <1>7

\* Where the workers are that cannot go on.
LEMMA FrozenWorker ==
  ASSUME PodPart, WorkOK, TodoOK, Frozen, NEW w \in Workers
  PROVE  /\ pc[w] \notin {"task", "rest", "clean"}
         /\ At(w, "get") => pipe[w[1]] = <<>>
         /\ pc[w] \in {"send", "end"} =>
              \E t \in Tasks : Wants(w, t) /\ Feeds(w[1], t) /\ t > w[1] /\ Owing(w, t)
         /\ At(w, "forward") => Wants(w, w[1])
         /\ At(w, "done") => \E v \in WorkersOf(w[1]) : At(v, "end")
<1>1. ~ CanStep(w) /\ w[1] \in Tasks /\ todo \in [Workers -> Seq(Tasks \X Messages)]
  BY WorkerOfItsTask DEF Frozen, PodPart, PodTypeOK
<1>2. pc[w] \notin {"task", "rest", "clean"} /\ (At(w, "get") => pipe[w[1]] = <<>>)
  BY <1>1 DEF CanStep
<1>3. At(w, "forward") => Wants(w, w[1])
  BY <1>1 DEF CanStep, Wants
<1>4. ASSUME pc[w] \in {"send", "end"}
      PROVE  \E t \in Tasks : Wants(w, t) /\ Feeds(w[1], t) /\ t > w[1] /\ Owing(w, t)
  <2>1. todo[w] # <<>> /\ ~ HasRoom(Head(todo[w])[1])
    BY <1>1, <1>4 DEF CanStep, WorkOK, PutsOK, At
  <2>2. /\ 1 \in DOMAIN todo[w] /\ Head(todo[w]) = todo[w][1]
        /\ Head(todo[w])[1] \in Tasks
    BY <1>1, <2>1, LenProperties, HeadTailProperties, EmptySeq
  <2>3. Wants(w, Head(todo[w])[1])
    BY <1>4, <2>1 DEF Wants
  <2>4. Feeds(w[1], Head(todo[w])[1])
    BY <1>4, <2>2 DEF TodoOK
  <2>5. Head(todo[w])[1] > w[1]
    BY <1>1, <2>4, OneUpstream DEF Feeds
  <2>6. Owing(w, Head(todo[w])[1])
    BY <1>4, <2>2 DEF Owing, Past, At
  <2> QED
    BY <2>2, <2>3, <2>4, <2>5, <2>6
<1>5. ASSUME At(w, "done") PROVE \E v \in WorkersOf(w[1]) : At(v, "end")
  <2>1. lock[w[1]] # Free
    BY <1>1, <1>5 DEF CanStep
  <2>2. lock[w[1]] \in WorkersOf(w[1]) /\ pc[lock[w[1]]] \in Ending
    BY <1>1, <2>1 DEF WorkOK, HeldOK
  <2>3. lock[w[1]] \in Workers
    BY <1>1, <2>2 DEF Workers
  <2>4. ~ At(lock[w[1]], "clean")
    BY <2>3 DEF Frozen, CanStep, At
  <2> QED
    BY <2>2, <2>4 DEF Ending, At
<1> QED
  BY <1>2, <1>3, <1>4, <1>5

\* A queue without room has something in its pipe.
LEMMA FullPipe ==
  ASSUME PodPart, SlotsOK, Frozen, NEW t \in Tasks, ~ HasRoom(t)
  PROVE  Bounded(t) /\ pipe[t] # <<>>
<1>1. Bounded(t) /\ ~ (slots[t] > 0)
  BY DEF HasRoom
<1>2. slots[t] \in Nat /\ Bound[t] \in Nat /\ Bound[t] > 0 /\ PipeCapacity > 0
  BY <1>1, PipAssumption DEF PodPart, PipTypeOK, Bounded
<1>3. SlotOK(t)
  BY DEF SlotsOK
<1>4. ASSUME pipe[t] = <<>> PROVE FALSE
  <2>1. Len(pipe[t]) < PipeCapacity
    BY <1>2, <1>4, LenProperties
  <2>2. \A p \in Procs : buf[p][t] = <<>>
    BY <2>1 DEF Frozen, CanFlush
  <2>3. InFlight(t) = {}
    BY <1>4, <2>2, EmptyPip
  <2>4. Cardinality(InFlight(t)) = 0
    BY <2>3, FS_EmptySet
  <2> QED
    BY <1>1, <1>2, <1>3, <2>4 DEF SlotOK
<1> QED
  BY <1>1, <1>4

\* Somebody who is started shows that the tasks before his are, and the readers of
\* a bounded queue are started.
LEMMA EarlierAreStarted ==
  ASSUME MainPart, OffOK, mainPc \in {"inline", "join"},
         NEW v \in Workers, NEW w \in Workers, v[1] < w[1], ~ At(w, "off")
  PROVE  ~ At(v, "off")
<1>1. v[1] \in Nat /\ w[1] \in Nat /\ cursor[1] \in Nat
  BY WorkerOfItsTask, CursorFacts DEF Tasks
<1>2. CASE mainPc = "join"
  BY <1>2 DEF OffOK
<1>3. CASE mainPc = "inline"
  <2>1. w[1] <= cursor[1]
    BY <1>1, <1>3 DEF OffOK, Before
  <2>2. Before(v, cursor)
    BY <1>1, <2>1 DEF Before
  <2> QED
    BY <1>3, <2>2 DEF OffOK
<1> QED
  BY <1>2, <1>3

\* Bounded queues belong to tasks before the inline ones.
LEMMA BoundedAreStarted ==
  ASSUME MainPart, OffOK, BoundsAreServed, mainPc \in {"inline", "join"},
         NEW w \in Workers, Bounded(w[1])
  PROVE  ~ At(w, "off")
<1>1. w[1] \in Tasks
  BY WorkerOfItsTask
<1>2. CASE mainPc = "join"
  BY <1>2 DEF OffOK
<1>3. CASE mainPc = "inline"
  <2>1. cursor \in Workers /\ Inline(cursor[1])
    BY <1>3, CursorFacts DEF OffOK
  <2>2. cursor[1] \in Tasks
    BY <2>1, WorkerOfItsTask
  <2>3. w[1] < cursor[1]
    BY <1>1, <2>1, <2>2 DEF BoundsAreServed
  <2> QED
    BY <1>3, <2>3 DEF OffOK, Before
<1> QED
  BY <1>2, <1>3

\* The readers of a bounded queue have copies of their own.
LEMMA BoundedHaveCopies ==
  ASSUME BoundsAreServed, NEW t \in Tasks, Bounded(t)
  PROVE  OwnCopies(t) /\ Patient(t)
<1>1. ~ Inline(t) /\ Patient(t) /\ (t \in ThreadMode => WorkerNum[t] = 1)
  BY DEF BoundsAreServed
<1>2. ASSUME NEW v \in WorkersOf(t), NEW w \in WorkersOf(t), Home(v) = Home(w)
      PROVE  v = w
  <2>1. v[1] = t /\ w[1] = t
    BY DEF WorkersOf
  <2>2. CASE t \in ThreadMode
    <3>1. PodSize(t) = 1
      BY <1>1, <2>2 DEF PodSize
    <3>2. v \in {t} \X (1 .. 1) /\ w \in {t} \X (1 .. 1)
      BY <3>1 DEF WorkersOf
    <3> QED
      BY <3>2
  <2>3. CASE t \notin ThreadMode
    BY <1>1, <1>2, <2>1, <2>3 DEF Home
  <2> QED
    BY <2>2, <2>3
<1> QED
  BY <1>1, <1>2 DEF OwnCopies

\* Nobody waits for room in the queue of t when nobody waits for room in that of a
\* later task: its readers would have to forward ends, or be over, and then the end
\* of its stream was sent, hence nobody sends.
LEMMA NobodyWants ==
  ASSUME WaitInv, Stuck, NEW t \in Tasks, \A u \in Tasks : u > t => ~ Wanted(u)
  PROVE  ~ Wanted(t)
<1> SUFFICES ASSUME Wanted(t) PROVE FALSE
  OBVIOUS
<1>1. /\ PodPart /\ MainPart /\ TodoOK /\ ToldOK /\ OffOK /\ WorkOK /\ EndsOK /\ SlotsOK
      /\ Unkilled /\ Frozen /\ BoundsAreServed /\ mainPc \in {"inline", "join"}
  BY DEF WaitInv, CleanInv, StreamInv, Stuck, Unkilled
<1>2. Bounded(t) /\ pipe[t] # <<>> /\ OwnCopies(t) /\ Patient(t)
  BY <1>1, FullPipe, BoundedHaveCopies DEF Wanted, Wants
<1>3. \A w \in WorkersOf(t) : w \in Workers /\ w[1] = t
  BY DEF Workers, WorkersOf
<1>4. ASSUME NEW w \in WorkersOf(t)
      PROVE  pc[w] \in {"forward", "exit", "dead"}
  <2>1. w \in Workers /\ w[1] = t /\ pc[w] \in Locations
    BY <1>1, <1>3 DEF PodPart, PodTypeOK
  <2>2. ~ At(w, "off")
    BY <1>1, <1>2, <2>1, BoundedAreStarted
  <2>3. \A v \in WorkersOf(t) : pc[v] \notin {"send", "end"}
    BY <1>1, <1>3, FrozenWorker DEF Wanted
  <2>4. pc[w] \notin {"task", "rest", "clean", "get", "done"}
    BY <1>1, <1>2, <2>1, <2>3, FrozenWorker DEF At
  <2> QED
    BY <2>1, <2>2, <2>3, <2>4 DEF Locations, At
<1>5. HasUpstream(t)
  <2>1. PICK w \in Workers : Wants(w, t)
    BY DEF Wanted
  <2>2. CASE At(w, "forward")
    BY <1>1, <2>1, <2>2 DEF Wants, WorkOK, UpOK, At
  <2>3. CASE pc[w] \in {"send", "end"}
    <3>1. PICK u \in Tasks : Wants(w, u) /\ Feeds(w[1], u)
      BY <1>1, <2>3, FrozenWorker
    <3>2. u = t
      BY <2>1, <2>3, <3>1 DEF Wants, At
    <3>3. w[1] \in Tasks
      BY WorkerOfItsTask
    <3> QED
      BY <3>1, <3>2, <3>3 DEF HasUpstream
  <2> QED
    BY <2>1, <2>2, <2>3 DEF Wants
<1>6. \A w \in WorkersOf(t) : pc[w] \in {"exit", "dead"} => isEnded[Home(w)][t]
  BY <1>1, <1>2, <1>3, <1>5 DEF ToldOK, Told
<1>7. EndOK(t) /\ PodSize(t) \in Nat /\ PodSize(t) > 0
  BY <1>1, <1>5, PodSizeIsPositive DEF EndsOK
<1>8. \A w \in WorkersOf(t) : Home(w) \in Procs
  BY <1>3, WorkerOfItsTask
<1>9. CASE \A w \in WorkersOf(t) : ~ At(w, "forward")
  <2>1. <<t, 1>> \in WorkersOf(t)
    BY <1>7 DEF WorkersOf
  <2>2. Ended(t)
    BY <1>4, <1>6, <1>8, <1>9, <2>1 DEF Ended, At
  <2>3. ~ Owes(t)
    BY <1>7, <2>2 DEF EndOK, NoEnd, Fresh
  <2>4. PICK w \in Workers : Wants(w, t)
    BY DEF Wanted
  <2>5. w[1] \in Tasks /\ w \in WorkersOf(w[1]) /\ t \in Tasks
    BY WorkerOfItsTask
  <2>6. pc[w] \in {"send", "end"}
    BY <1>9, <2>4, <2>5 DEF Wants
  <2>7. PICK u \in Tasks : Wants(w, u) /\ Feeds(w[1], u) /\ Owing(w, u)
    BY <1>1, <2>6, FrozenWorker
  <2>8. u = t
    BY <2>4, <2>6, <2>7 DEF Wants, At
  <2> QED
    BY <2>3, <2>7, <2>8 DEF Owes, Upstream
<1>10. CASE \E w \in WorkersOf(t) : At(w, "forward")
  <2>1. PICK f \in WorkersOf(t) : At(f, "forward")
    BY <1>10
  <2>2. PICK g \in WorkersOf(t) : Sharing(g, t)
    BY <1>7, <2>1 DEF EndOK, NoEnd, EndComes, Fresh, ReadersOver, At
  <2>3. g = f /\ isEnded[Home(f)][t]
    BY <2>1, <2>2 DEF Sharing
  <2>4. PICK n \in Nat : Enough(f, t, n)
    BY <2>2, <2>3 DEF Sharing
  <2>5. PICK s \in Nat : s = ShareOf(f) /\ s > 0
    BY <1>1, <1>3, <2>1, ShareIsNumber
  <2>6. Cardinality(NotEnded(t)) = n + s
    BY <1>2, <2>4, <2>5 DEF Enough
  <2>7. NotEnded(t) = {}
    BY <1>4, <1>6, <2>2, <2>3 DEF NotEnded, Sharing, At
  <2>8. Cardinality(NotEnded(t)) = 0
    BY <2>7, FS_EmptySet
  <2> QED
    BY <2>5, <2>6, <2>8
<1> QED
  BY <1>9, <1>10

\* So nobody waits for room, by descent from the last task.
LEMMA NothingWanted ==
  ASSUME WaitInv, Stuck, NEW t \in Tasks
  PROVE  ~ Wanted(t)
<1> DEFINE I == {u \in Tasks : Wanted(u)}
<1> SUFFICES ASSUME I # {} PROVE FALSE
  OBVIOUS
<1>1. PICK x \in I : \A y \in I : y <= x
  <2>1. I \subseteq Tasks
    OBVIOUS
  <2> HIDE DEF I
  <2> QED
    BY <2>1, LastOfTasks
<1>2. ASSUME NEW u \in Tasks, u > x PROVE ~ Wanted(u)
  <2>1. u \in Nat /\ x \in Nat
    BY DEF Tasks
  <2>2. u \in I => u <= x
    BY <1>1
  <2> QED
    BY <1>2, <2>1, <2>2
<1> QED
  BY <1>1, <1>2, NobodyWants

\* Then all that are started wait to receive, or are over.
LEMMA StuckWorker ==
  ASSUME WaitInv, Stuck, NEW w \in Workers
  PROVE  pc[w] \in {"off", "get", "exit", "dead"}
<1>1. PodPart /\ TodoOK /\ WorkOK /\ Frozen /\ pc \in [Workers -> Locations]
  BY DEF WaitInv, CleanInv, StreamInv, Stuck, Unkilled, PodPart, PodTypeOK
<1>2. w[1] \in Tasks /\ \A v \in WorkersOf(w[1]) : v \in Workers
  BY WorkerOfItsTask DEF Workers
<1>3. \A v \in Workers : pc[v] \notin {"send", "end"}
  BY <1>1, NothingWanted, FrozenWorker DEF Wanted
<1>4. pc[w] \notin {"task", "rest", "clean", "forward", "done"}
  BY <1>1, <1>2, <1>3, NothingWanted, FrozenWorker DEF Wanted, At
<1> QED
  BY <1>1, <1>3, <1>4 DEF Locations

\* An empty sequence holds no end.
LEMMA EmptyHasNoEnds == EndsIn(<<>>) = 0 /\ DOMAIN <<>> = {}
<1>1. DOMAIN <<>> = {}
  OBVIOUS
<1>2. Ends(<<>>) = {}
  BY <1>1 DEF Ends
<1> QED
  BY <1>1, <1>2, FS_EmptySet DEF EndsIn

\* Nobody waits to receive in t when nobody does in an earlier task: the upstream
\* workers would be over, and the end of the stream under way or received.
LEMMA NobodyGets ==
  ASSUME WaitInv, Stuck, NEW t \in Tasks, NEW w \in WorkersOf(t),
         \A v \in Workers : v[1] < t => ~ At(v, "get")
  PROVE  ~ At(w, "get")
<1> SUFFICES ASSUME At(w, "get") PROVE FALSE
  OBVIOUS
<1>1. /\ PodPart /\ MainPart /\ TodoOK /\ OffOK /\ WorkOK /\ EndsOK
      /\ Frozen /\ mainPc \in {"inline", "join"}
  BY DEF WaitInv, CleanInv, StreamInv, Stuck, Unkilled
<1>2. w \in Workers /\ w[1] = t /\ \A v \in WorkersOf(t) : v \in Workers
  BY DEF Workers, WorkersOf
<1>3. pipe[t] = <<>> /\ HasUpstream(t) /\ EndOK(t)
  BY <1>1, <1>2, FrozenWorker DEF WorkOK, UpOK, EndsOK, At
<1>4. \A p \in Procs : buf[p][t] = <<>>
  <2>1. Len(pipe[t]) < PipeCapacity
    BY <1>3, PipAssumption, LenProperties
  <2> QED
    BY <1>1, <2>1 DEF Frozen, CanFlush
<1>5. EndsIn(<<>>) = 0
  BY EmptyHasNoEnds
<1>6. ~ Owes(t)
  <2> SUFFICES ASSUME NEW v \in Upstream(t) PROVE ~ Owing(v, t)
    BY DEF Owes
  <2>1. v \in Workers /\ v[1] \in Tasks /\ v[1] < t
    BY WorkerOfItsTask, OneUpstream DEF Upstream, Feeds
  <2>2. ~ At(v, "off")
    BY <1>1, <1>2, <2>1, EarlierAreStarted DEF At
  <2>3. pc[v] \in {"exit", "dead"}
    BY <2>1, <2>2, StuckWorker DEF At
  <2> QED
    BY <2>3 DEF Owing, Past, At
<1>7. ~ EndComes(t)
  BY <1>3, <1>4, <1>5 DEF EndComes, Carries
<1>8. ~ ReadersOver(t)
  BY DEF ReadersOver, At
<1>9. PICK f \in WorkersOf(t) : Sharing(f, t)
  BY <1>3, <1>6, <1>7, <1>8 DEF EndOK
<1>10. PICK n \in Nat : Enough(f, t, n)
  BY <1>9 DEF Sharing
<1>11. n = 0
  <2>1. Home(f) \in Procs
    BY <1>2, WorkerOfItsTask
  <2> QED
    BY <1>3, <1>4, <1>5, <1>10, <2>1 DEF Enough, Carries
<1>12. ShareOf(f) = 0
  BY <1>2, StuckWorker DEF ShareOf, At
<1>13. IsFiniteSet(Waiting(t)) /\ Cardinality(Waiting(t)) \in Nat
  BY ReadersAreFinite
<1>14. w \in Waiting(t)
  BY DEF Waiting, Waits
<1>15. Cardinality(Waiting(t)) = 0
  BY <1>10, <1>11, <1>12, <1>13 DEF Enough
<1> QED
  BY <1>13, <1>14, <1>15, FS_EmptySet

\* So nobody waits to receive, by ascent from the first task.
LEMMA NothingReceived ==
  ASSUME WaitInv, Stuck, NEW w \in Workers
  PROVE  pc[w] \in {"off", "exit", "dead"}
<1> DEFINE I == {u \in Tasks : \E v \in WorkersOf(u) : At(v, "get")}
<1>1. ASSUME I # {} PROVE FALSE
  <2>1. PICK x \in I : \A y \in I : x <= y
    <3>1. I \subseteq Tasks
      OBVIOUS
    <3> HIDE DEF I
    <3> QED
      BY <1>1, <3>1, FirstOfTasks
  <2>2. ASSUME NEW v \in Workers, v[1] < x PROVE ~ At(v, "get")
    <3>1. v[1] \in Tasks /\ v \in WorkersOf(v[1]) /\ v[1] \in Nat /\ x \in Nat
      BY WorkerOfItsTask DEF Tasks
    <3>2. v[1] \in I => x <= v[1]
      BY <2>1
    <3> QED
      BY <2>2, <3>1, <3>2
  <2> QED
    BY <2>1, <2>2, NobodyGets
<1>2. ~ At(w, "get")
  BY <1>1, WorkerOfItsTask
<1> QED
  BY <1>2, StuckWorker DEF At

\* The cursor is not before itself.
LEMMA BeforeItself ==
  ASSUME NEW w \in Workers
  PROVE  ~ Before(w, w)
<1>1. w[1] \in Nat /\ w[2] \in Nat
  BY WorkerOfItsTask, PodSizeIsPositive DEF Tasks
<1> QED
  BY <1>1 DEF Before

\* So all are over, and the main process can go on.
LEMMA StuckMain ==
  ASSUME WaitInv, Stuck
  PROVE  MainCanStep
<1>1. /\ PodPart /\ MainPart /\ OffOK /\ WorkOK /\ Frozen /\ mainPc \in {"inline", "join"}
  BY DEF WaitInv, CleanInv, StreamInv, Stuck, Unkilled
<1>2. CASE mainPc = "join" /\ PastLast
  BY <1>2 DEF MainCanStep
<1>3. CASE ~ (mainPc = "join" /\ PastLast)
  <2>1. cursor \in Workers
    BY <1>1, <1>3, CursorFacts
  <2> DEFINE t == cursor[1]
  <2>2. t \in Tasks /\ \A v \in WorkersOf(t) : v \in Workers
    BY <2>1, WorkerOfItsTask DEF Workers
  <2>3. ~ At(cursor, "off")
    BY <1>1, <2>1, MainIsNoWorker, BeforeItself DEF OffOK
  <2>4. pc[cursor] \in {"exit", "dead"}
    BY <2>1, <2>3, NothingReceived DEF At
  <2>5. CASE At(cursor, "dead")
    BY <1>1, <2>5, <1>3 DEF MainCanStep
  <2>6. CASE At(cursor, "exit")
    <3>1. Home(cursor) = cursor
      BY <1>1, <2>1, <2>6 DEF Frozen, CanStep
    <3>2. ~ Inline(t)
      BY <2>1, <3>1, MainIsNoWorker DEF Home
    <3>3. mainPc = "join"
      BY <1>1, <3>2 DEF OffOK
    <3>4. \A v \in WorkersOf(t) : pc[v] \in {"exit", "dead"}
      BY <2>2, <3>3, <1>1, NothingReceived DEF OffOK, At
    <3>5. lock[t] = Free
      BY <1>1, <2>2, <3>4 DEF WorkOK, HeldOK, Ending
    <3>6. PastOf(t) = WorkersOf(t)
      BY <3>4 DEF PastOf, Past
    <3>7. doneCount[t] >= PodSize(t)
      BY <1>1, <2>2, <3>2, <3>6, WorkersOfIsFinite DEF WorkOK, FullOK
    <3> QED
      BY <3>3, <3>5, <3>7 DEF MainCanStep, IsDone
  <2> QED
    BY <2>4, <2>5, <2>6 DEF At
<1> QED
  BY <1>2, <1>3

\* Somebody can go on.
LEMMA SomebodyCanStep ==
  ASSUME WaitInv
  PROVE  NeverStuck
<1> SUFFICES ASSUME BoundsAreServed, mainPc \notin {"end", "raised"}, Frozen
             PROVE  MainCanStep
  BY DEF NeverStuck, Frozen
<1>1. PodPart /\ MainPart /\ OffOK /\ KillableOK /\ PendingOK /\ mainPc \in MainLocations
  BY DEF WaitInv, CleanInv, StreamInv, MainPart, MainTypeOK
<1>2. CASE mainPc = "start"
  <2>1. CASE PastLast
    BY <1>2, <2>1 DEF MainCanStep
  <2>2. CASE ~ PastLast
    <3>1. cursor \in Workers
      BY <1>1, <2>2, CursorFacts
    <3>2. At(cursor, "off")
      BY <1>1, <1>2, <3>1, BeforeItself DEF OffOK
    <3> QED
      BY <1>2, <3>2 DEF MainCanStep
  <2> QED
    BY <2>1, <2>2
<1>3. CASE mainPc \in {"inline", "join"}
  BY <1>3, StuckMain DEF Stuck
<1>4. CASE mainPc = "kill"
  BY <1>1, <1>4 DEF MainCanStep, PendingOK, KillableOK
<1>5. CASE mainPc \in {"hooks", "after"}
  BY <1>5 DEF MainCanStep
<1> QED
  BY <1>1, <1>2, <1>3, <1>4, <1>5 DEF MainLocations

\* Nobody comes before the first pod.
LEMMA NothingBeforeFirst == \A w \in Workers : ~ Before(w, First)
<1> SUFFICES ASSUME NEW w \in Workers PROVE ~ Before(w, First)
  OBVIOUS
<1>1. /\ w[1] \in 1 .. NTasks /\ w[2] \in 1 .. PodSize(w[1]) /\ PodSize(w[1]) \in Nat
      /\ NTasks \in Nat
  BY WorkerOfItsTask, PodSizeIsPositive, TreeAssumption DEF Tasks
<1> QED
  BY <1>1 DEF Before, First

\* At first nobody is started, and every stream waits for its senders.
LEMMA InitIsWait ==
  ASSUME Init
  PROVE  WaitInv
<1>1. CleanInv
  BY InitIsClean
<1>2. /\ \A w \in Workers : pc[w] = "off" /\ todo[w] = <<>>
      /\ \A t \in Tasks : lock[t] = Free /\ doneCount[t] = 0
      /\ \A t \in Tasks : pipe[t] = <<>> /\ slots[t] = Bound[t]
      /\ \A p \in Procs, t \in Tasks : buf[p][t] = <<>> /\ ~ isEnded[p][t]
      /\ mainPc = "hooks" /\ cursor = First /\ toKill = {}
  BY DEF Init, PipInit, PodInit
<1>3. OffOK /\ KillableOK
  <2>1. \A w \in Workers : ~ Before(w, First)
    BY NothingBeforeFirst
  <2> QED
    BY <1>2, <2>1 DEF OffOK, KillableOK, At
<1>4. WorkOK
  <2>1. \A t \in Tasks : Cardinality(PastOf(t)) = 0
    <3>1. \A t \in Tasks : PastOf(t) = {}
      BY <1>2 DEF PastOf, Past, Workers
    <3> QED
      BY <3>1, FS_EmptySet
  <2>2. \A w \in Workers : DOMAIN todo[w] = {}
    BY <1>2
  <2> QED
    BY <1>2, <2>1, <2>2 DEF WorkOK, UpOK, GetOK, DistOK, PutsOK, HeldOK, FullOK, At
<1>5. SlotsOK
  <2>1. ASSUME NEW t \in Tasks, Bounded(t) PROVE SlotOK(t)
    <3>1. InFlight(t) = {}
      BY <1>2, EmptyPip
    <3>2. IsFiniteSet({}) /\ Cardinality({}) = 0
      BY FS_EmptySet
    <3>3. Bound[t] \in Nat
      BY PipAssumption
    <3> QED
      BY <1>2, <3>1, <3>2, <3>3 DEF SlotOK
  <2> QED
    BY <2>1 DEF SlotsOK, SlotOK
<1>6. ASSUME NEW t \in Tasks, HasUpstream(t) PROVE EndOK(t)
  <2>1. Owes(t)
    <3>1. PICK u \in Tasks : Feeds(u, t)
      BY <1>6 DEF HasUpstream
    <3>2. PodSize(u) \in Nat /\ PodSize(u) > 0
      BY PodSizeIsPositive
    <3>3. PICK k \in 1 .. PodSize(u) : k = 1
      BY <3>2
    <3> DEFINE w == <<u, k>>
    <3>4. w \in Workers /\ w[1] = u
      <4>1. w \in WorkersOf(u)
        BY DEF WorkersOf
      <4> QED
        BY <4>1 DEF Workers
    <3> HIDE DEF w
    <3>5. w \in Upstream(t) /\ Owing(w, t)
      BY <1>2, <3>1, <3>4 DEF Upstream, Owing, Past
    <3> QED
      BY <3>5 DEF Owes
  <2>2. Fresh(t)
    BY <1>2 DEF Fresh, Ended, At, Workers
  <2>3. EndsIn(<<>>) = 0 /\ DOMAIN <<>> = {}
    BY EmptyHasNoEnds
  <2>4. Main \in Procs
    BY DEF Procs
  <2>5. Carries(t, Main, 0, EndCmd)
    BY <1>2, <2>3, <2>4 DEF Carries, EndsAre
  <2> QED
    BY <2>1, <2>2, <2>5 DEF EndOK, NoEnd
<1> QED
  BY <1>1, <1>3, <1>4, <1>5, <1>6 DEF WaitInv, EndsOK

(***************************************************************************)
(* The workers of a tree and its main process never all wait for one       *)
(* another (Queue.put, Queue.get, the lock of worker_done_count, the       *)
(* feeders, worker.join), where bounded queues are read to the end.        *)
(***************************************************************************)
THEOREM TreeIsNeverStuck == Spec => []NeverStuck
<1>1. Init => WaitInv
  BY InitIsWait
<1>2. WaitInv /\ [Next]_vars => WaitInv'
  BY NextKeepsWait
<1>3. WaitInv => NeverStuck
  BY SomebodyCanStep
<1> QED
  BY <1>1, <1>2, <1>3, PTL DEF Spec

-----------------------------------------------------------------------------
(***************************************************************************)
(* What join leaves behind                                                 *)
(***************************************************************************)

\* The code a worker cannot leave for its loop again: the rest of its user function
\* once a SIGINT has ended its recv, and what comes after the user function.
Late == {"rest", "done"} \cup Ending \cup Gone

\* After join, a worker process is to be killed, or gone, or was never started; once a
\* round has looked at it, a SIGINT is on its way to it, or it is late.
Caught(w) == w \in signalled \/ pc[w] \in Late
LeftOK ==
  mainPc \in {"after", "kill", "end"} =>
    \A w \in Workers : Home(w) = w =>
      w \in toKill \/ pc[w] \in Gone \cup {"off"}
RoundOK ==
  /\ round \in {1, 2} /\ (mainPc \notin {"kill", "end"} => round = 2)
  /\ mainPc = "kill" =>
       \A w \in toKill : Home(w) = w /\ (round = 1 \/ w \notin pending) => Caught(w)

EndInv == WaitInv /\ LeftOK /\ RoundOK /\ EndIsNear

\* No step of a worker, nor a SIGINT, takes it back into its loop or into run_task, nor
\* starts it.
LEMMA LateStays ==
  ASSUME PodPart, NEW w \in Workers, WorkerStep(w) \/ Fail(w) \/ Interrupt(w)
  PROVE  /\ \A v \in Workers : pc[v] \in Late => pc'[v] \in Late
         /\ \A v \in Workers : pc[v] \in Gone => pc'[v] \in Gone
         /\ \A v \in Workers : At(v, "off") => At(v, "off")'
<1>1. /\ \A v \in Workers : v # w => pc'[v] = pc[v]
      /\ pc \in [Workers -> Locations]
  BY WorkerStepIsOnward DEF PodPart, PodTypeOK
<1>2. pc[w] \in Late => pc'[w] \in Late
  <2>1. CASE WorkerStep(w) \/ Fail(w)
    BY <1>1, <2>1 DEF WorkerStep, Produce, SendNext, StartGet, ReceiveItem, ReceiveEnd, Forward,
       GetEmpty, Return, WorkerDone, InlineDone, SendEnd, StartClean, Clean, Cleaned, Exit, Fail,
       SendData, GoTo, At, podVars, Late, Ending, Gone
  <2>2. CASE Interrupt(w)
    BY <2>2, InterruptGoes DEF Late, Ending, Gone
  <2> QED
    BY <2>1, <2>2
<1>3. FinalStep /\ \A v \in Workers : At(v, "off")' <=> At(v, "off")
  BY WorkerStepIsFinal, StepKeepsOff
<1> QED
  BY <1>1, <1>2, <1>3 DEF FinalStep

\* The workers go on by themselves, and SIGINTs reach them: nothing of this is lost.
LEMMA WorkersKeepEnd ==
  ASSUME LeftOK, RoundOK, EndIsNear, toKill \subseteq Workers,
         UNCHANGED <<mainPc, cursor, toKill, pending, round>>,
         \A v \in Workers : Caught(v) => Caught(v)',
         \A v \in Workers : pc[v] \in Gone => pc'[v] \in Gone,
         \A v \in Workers : At(v, "off") => At(v, "off")'
  PROVE  LeftOK' /\ RoundOK' /\ EndIsNear'
<1>1. LeftOK'
  BY DEF LeftOK, At
<1>2. RoundOK'
  BY DEF RoundOK
<1>3. EndIsNear'
  <2> SUFFICES ASSUME mainPc = "end", NEW w \in Workers, Home(w) = w
               PROVE  Caught(w)' \/ At(w, "off")'
    BY DEF EndIsNear, Caught, Late, Ending, Gone, At
  <2>1. Caught(w) \/ At(w, "off")
    BY DEF EndIsNear, Caught, Late, Ending, Gone, At
  <2> QED
    BY <2>1
<1> QED
  BY <1>1, <1>2, <1>3

\* A SIGINT that reaches its worker makes it late.
LEMMA SignalKeepsEnd ==
  ASSUME PodPart, LeftOK, RoundOK, EndIsNear, toKill \subseteq Workers,
         NEW w \in Workers, HandleSignal(w)
  PROVE  LeftOK' /\ RoundOK' /\ EndIsNear'
<1>1. /\ UNCHANGED <<mainPc, cursor, toKill, pending, round>>
      /\ signalled' = signalled \ {w}
  BY DEF HandleSignal
<1>2. CASE Interrupt(w)
  <2>1. pc'[w] \in Late
    BY <1>2, InterruptGoes DEF Late, Ending, Gone
  <2>2. \A v \in Workers : Caught(v) => Caught(v)'
    BY <1>1, <1>2, <2>1, LateStays DEF Caught
  <2> QED
    BY <1>1, <1>2, <2>2, LateStays, WorkersKeepEnd
<1>3. CASE At(w, "dead") /\ UNCHANGED podVars
  <2>1. pc' = pc /\ pc[w] \in Late
    BY <1>3 DEF podVars, At, Late, Gone
  <2> QED
    BY <1>1, <2>1, WorkersKeepEnd DEF Caught, At
<1> QED
  BY <1>2, <1>3 DEF HandleSignal

\* The main process comes to the kill loop with everybody accounted for, and leaves
\* it when the round is over.
LEMMA MainKeepsEnd ==
  ASSUME WaitInv, LeftOK, RoundOK, EndIsNear, MainStep \/ InterruptJoin \/ InterruptStart
  PROVE  LeftOK' /\ RoundOK' /\ EndIsNear'
<1> USE DEF MainGoTo
<1>1. /\ PodPart /\ MainPart /\ MainInv /\ OffOK /\ KillableOK /\ PendingOK
      /\ toKill \subseteq Workers /\ pc \in [Workers -> Locations]
  BY DEF WaitInv, CleanInv, StreamInv, MainPart, MainTypeOK, PodPart, PodTypeOK
<1>2. CASE BeforeTask
  <2>1. \A w \in Workers : ~ Before(w, First)
    BY NothingBeforeFirst
  <2>2. \A w \in Workers : pc'[w] = "off"
    BY <1>1, <1>2, <2>1 DEF BeforeTask, OffOK, MainInv, At, podVars
  <2> QED
    BY <1>2, <2>2 DEF BeforeTask, LeftOK, RoundOK, EndIsNear
<1>3. CASE \/ StartStopped \/ StartPodWorker \/ StartInline \/ EndInline \/ StartDone
           \/ JoinWorker \/ InterruptStart
  BY <1>3 DEF StartStopped, StartPodWorker, StartInline, EndInline, StartDone, JoinWorker,
     InterruptStart, LeftOK, RoundOK, EndIsNear
<1>4. CASE JoinDone
  <2>1. \A w \in Workers : Before(w, cursor)
    <3>1. cursor[1] \in Nat /\ cursor[1] > NTasks /\ NTasks \in Nat
      BY <1>1, <1>4, CursorFacts DEF JoinDone, PastLast
    <3> QED
      BY <3>1, WorkerOfItsTask DEF Before, Tasks
  <2>2. \A w \in Workers : pc'[w] \in Gone
    BY <1>1, <1>4, <2>1 DEF JoinDone, MainInv, JoinOK, podVars
  <2> QED
    BY <1>4, <2>2 DEF JoinDone, LeftOK, RoundOK, EndIsNear
<1>5. CASE AfterTask
  BY <1>5 DEF AfterTask, LeftOK, RoundOK, EndIsNear, podVars
<1>6. CASE InterruptJoin
  <2>1. \A w \in Workers : Home(w) = w => ~ Inline(w[1])
    BY MainIsNoWorker DEF Home
  <2>2. mainPc' = "kill" /\ round' = round /\ pending' = toKill' /\ pc' = pc /\ round = 2
    BY <1>6 DEF InterruptJoin, podVars, RoundOK
  <2>3. LeftOK'
    BY <1>6, <2>1, <2>2 DEF InterruptJoin, LeftOK, At
  <2> QED
    BY <2>2, <2>3 DEF RoundOK, EndIsNear
<1>7. CASE \E w \in Workers : KillWorker(w)
  <2>1. PICK w \in Workers : KillWorker(w)
    BY <1>7
  <2>2. /\ mainPc = "kill" /\ mainPc' = "kill" /\ w \in pending /\ pending' = pending \ {w}
        /\ toKill' = toKill /\ round' = round /\ round \in {1, 2} /\ w \in toKill /\ pc' = pc
    BY <1>1, <2>1 DEF KillWorker, PendingOK, RoundOK, podVars
  <2>3. LeftOK'
    BY <2>2 DEF LeftOK
  <2>4. \A v \in Workers : Caught(v) => Caught(v)'
    BY <2>1, <2>2 DEF KillWorker, Caught
  <2>5. Home(w) = w => Caught(w)'
    <3>1. ~ At(w, "off")
      BY <1>1, <2>2 DEF KillableOK
    <3> QED
      BY <2>1, <2>2, <3>1 DEF KillWorker, Stopped, At, Caught, Late, Gone
  <2>6. RoundOK'
    BY <1>1, <2>2, <2>4, <2>5 DEF RoundOK
  <2> QED
    BY <2>2, <2>3, <2>6 DEF EndIsNear
<1>8. CASE NextRound
  <2>1. mainPc = "kill" /\ pending = {} /\ pc' = pc /\ toKill' = toKill /\ signalled' = signalled
    BY <1>8 DEF NextRound, podVars
  <2>2. LeftOK'
    BY <1>8, <2>1 DEF NextRound, LeftOK
  <2>3. \A w \in toKill : Home(w) = w => Caught(w)'
    BY <2>1 DEF RoundOK, Caught
  <2>4. CASE mainPc' = "kill" /\ round' = 1
    BY <2>1, <2>2, <2>3, <2>4 DEF RoundOK, EndIsNear
  <2>5. CASE mainPc' = "end" /\ round' = round
    <3>1. EndIsNear'
      BY <2>1, <2>3 DEF LeftOK, EndIsNear, Caught, Late, Ending, Gone
    <3> QED
      BY <2>2, <2>5, <3>1 DEF RoundOK
  <2> QED
    BY <1>8, <2>1, <2>4, <2>5 DEF NextRound
<1> QED
  BY <1>2, <1>3, <1>4, <1>5, <1>6, <1>7, <1>8 DEF MainStep

(***************************************************************************)
(* When join has returned, every worker process that was started is out of *)
(* its loop for good, or a SIGINT is on its way to it: whatever the round  *)
(* in which it was met, and wherever the SIGINT then meets it.             *)
(***************************************************************************)
THEOREM JoinEndsAll == Spec => []EndIsNear
<1>1. Init => EndInv
  BY InitIsWait DEF Init, EndInv, LeftOK, RoundOK, EndIsNear
<1>2. EndInv /\ [Next]_vars => EndInv'
  <2> SUFFICES ASSUME EndInv, [Next]_vars PROVE EndInv'
    OBVIOUS
  <2>1. WaitInv /\ LeftOK /\ RoundOK /\ EndIsNear /\ WaitInv'
    BY NextKeepsWait DEF EndInv
  <2>2. PodPart /\ toKill \subseteq Workers
    BY <2>1 DEF WaitInv, CleanInv, StreamInv, MainPart, MainTypeOK
  <2>3. CASE \E w \in Workers : (WorkerStep(w) \/ Fail(w)) /\ UNCHANGED mainVars
    BY <2>1, <2>2, <2>3, LateStays, WorkersKeepEnd DEF EndInv, Caught, mainVars
  <2>4. CASE \E p \in Procs, t \in Tasks : Feeder(p, t) /\ UNCHANGED mainVars
    BY <2>1, <2>2, <2>4, WorkersKeepEnd DEF Feeder, podVars, mainVars, Caught, At, EndInv
  <2>5. CASE MainStep \/ InterruptJoin \/ InterruptStart
    BY <2>1, <2>5, MainKeepsEnd DEF EndInv
  <2>6. CASE UNCHANGED vars
    BY <2>1, <2>2, <2>6, WorkersKeepEnd DEF vars, podVars, mainVars, Caught, At, EndInv
  <2>7. CASE \E w \in Workers : HandleSignal(w)
    BY <2>1, <2>2, <2>7, SignalKeepsEnd DEF EndInv
  <2> QED
    BY <2>3, <2>4, <2>5, <2>6, <2>7 DEF Next, Terminated
<1>3. EndInv => EndIsNear
  BY DEF EndInv
<1> QED
  BY <1>1, <1>2, <1>3, PTL DEF Spec
=============================================================================
