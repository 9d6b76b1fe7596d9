-------------------------- MODULE AutoManageProofs --------------------------
(***************************************************************************)
(* The task service for every number of ids, runs, pool processes and      *)
(* cleaners: when close() has returned nothing is executed any more; a     *)
(* task that is not over is listed under the run that executes it and is   *)
(* not executed twice at once, unless a late deletion has taken its live   *)
(* entry; and what a client sees of a task is a TaskLifecycle.             *)
(***************************************************************************)
EXTENDS AutoManage, TLAPS

(***************************************************************************)
(* The inductive invariants                                                *)
(***************************************************************************)

\* The runs that were registered.
RunsOK ==
  \A r \in Runs :
    /\ runPc[r] = "none" <=> r > created
    /\ runPc[r] # "none" => runId[r] \in Ids
    /\ runPc[r] \in {"register", "callback"} => copy[r] \in Infos

\* A job that is waiting is in one place of one queue.
JobsOK ==
  \A i \in 1 .. Len(jobs) : jobs[i] # Break =>
    /\ runPc[jobs[i]] = "queued"
    /\ \A j \in 1 .. Len(jobs) : jobs[j] = jobs[i] => j = i

PoolOK ==
  \A i \in 1 .. Len(pool) :
    /\ runPc[pool[i]] = "pooled"
    /\ \A j \in 1 .. Len(pool) : pool[j] = pool[i] => j = i

ClosingOK ==
  /\ dispatcher = "exited" => \A r \in Runs : runPc[r] \notin InPool
  /\ closer = "closed" => dispatcher = "exited"

PoolInv == TypeOK /\ RunsOK /\ JobsOK /\ PoolOK /\ ClosingOK

\* A run that is not over, of a task that no late deletion has taken.
Live(r) == runPc[r] \notin {"none", "over", "lost"} /\ runId[r] \notin robbed

ListedOK ==
  \A r \in Runs : Live(r) => Listed(runId[r]) /\ taskDict[runId[r]].run = r

\* What an entry says is where its run is.
EntryOK(id, info) ==
  /\ runPc[info.run] # "none" /\ runId[info.run] = id
  /\ info.done_flag # 0 <=> runPc[info.run] = "over"
  /\ info.process \in {0, info.run}
  /\ info.process # 0 =>
       runPc[info.run] \notin {"created", "queued", "pooled", "begin", "register"}
  /\ runPc[info.run] \in {"report", "running"} => info.process # 0

EntriesOK == \A id \in Ids \ robbed : Listed(id) => EntryOK(id, taskDict[id])

\* The entry has not changed since a handler took its copy.
CopyOK ==
  \A r \in Runs : runPc[r] \in {"register", "callback"} /\ runId[r] \notin robbed =>
    copy[r] = taskDict[runId[r]]

OutcomeOK ==
  \A r \in Runs : runPc[r] \in {"finishing", "result", "callback"} => outcome[r] # 0

\* The run that a cleaner has found done stays over, but its entry may be gone and
\* the task registered again.
CleanOK ==
  \A c \in Cleaners : \A id \in Ids \ robbed, r \in Runs :
    <<id, r>> \in cleaning[c] => runPc[r] = "over" /\ runId[r] = id

TaskInv == ListedOK /\ EntriesOK /\ CopyOK /\ OutcomeOK /\ CleanOK

(***************************************************************************)
(* The queues and the pool, whatever the cleaners do                       *)
(***************************************************************************)

\* What is taken from a queue is its first element, and the others stay.
LEMMA QueueHead ==
  ASSUME NEW S, NEW q \in Seq(S), q # <<>>
  PROVE  /\ Len(q) \in Nat \ {0} /\ Head(q) = q[1] /\ Head(q) \in S
         /\ Tail(q) \in Seq(S) /\ Len(Tail(q)) = Len(q) - 1
         /\ \A i \in 1 .. Len(Tail(q)) : Tail(q)[i] = q[i + 1] /\ i + 1 \in 1 .. Len(q)
OBVIOUS

\* A step of a run that is in no queue keeps the order of the service.
LEMMA RunMoves ==
  ASSUME PoolInv, NEW r \in Runs, NEW l \in Locations, GoTo(r, l),
         runPc[r] \notin {"none", "queued", "pooled"}, l # "none",
         runPc[r] \notin InPool => l \notin InPool,
         l \in {"register", "callback"} => copy'[r] \in Infos,
         \A q \in Runs \ {r} : copy'[q] = copy[q],
         UNCHANGED <<created, runId, jobs, pool, dispatcher, closer>>
  PROVE  RunsOK' /\ JobsOK' /\ PoolOK' /\ ClosingOK'
<1>1. TypeOK /\ RunsOK /\ JobsOK /\ PoolOK /\ ClosingOK
  BY DEF PoolInv
<1>2. runPc'[r] = l /\ \A q \in Runs \ {r} : runPc'[q] = runPc[q]
  BY <1>1 DEF TypeOK, GoTo
<1>3. RunsOK'
  BY <1>1, <1>2 DEF RunsOK
<1>4. JobsOK'
  <2>1. \A i \in 1 .. Len(jobs) : jobs[i] # Break => jobs[i] \in Runs
    BY <1>1 DEF TypeOK
  <2> QED
    BY <1>1, <1>2, <2>1 DEF JobsOK
<1>5. PoolOK'
  <2>1. \A i \in 1 .. Len(pool) : pool[i] \in Runs
    BY <1>1 DEF TypeOK
  <2> QED
    BY <1>1, <1>2, <2>1 DEF PoolOK
<1>6. ClosingOK'
  BY <1>1, <1>2 DEF ClosingOK
<1> QED
  BY <1>3, <1>4, <1>5, <1>6

\* A step that moves no run keeps it as well.
LEMMA NoRunMoves ==
  ASSUME PoolInv, UNCHANGED <<created, runVars, jobs, pool>>,
         dispatcher' = "exited" => \A r \in Runs : runPc[r] \notin InPool,
         closer' = "closed" => dispatcher' = "exited"
  PROVE  RunsOK' /\ JobsOK' /\ PoolOK' /\ ClosingOK'
BY DEF PoolInv, RunsOK, JobsOK, PoolOK, ClosingOK, runVars

\* The requests of clients and what they lead to.
LEMMA ClientSteps ==
  ASSUME PoolInv,
         \/ \E id \in Ids : CreateTask(id) \/ EndTask(id)
         \/ \E who \in {"client", "close"}, r \in Runs : Kill(who, r)
         \/ \E c \in Cleaners : CleanSnapshot(c) \/ CleanDelete(c)
  PROVE  PoolInv'
<1>1. TypeOK /\ RunsOK /\ JobsOK /\ PoolOK /\ ClosingOK /\ MaxRuns \in Nat
  BY AutoManageAssumption DEF PoolInv
<1>2. ASSUME NEW id \in Ids, CreateTask(id)
      PROVE  PoolInv'
  <2> DEFINE r == created + 1
  <2>1. r \in Runs /\ runPc[r] = "none" /\ created' = r /\ created \in Nat
    BY <1>1, <1>2 DEF CreateTask, TypeOK, RunsOK, Runs
  <2>2. runPc' = [runPc EXCEPT ![r] = "created"] /\ runId' = [runId EXCEPT ![r] = id]
    BY <1>2 DEF CreateTask, GoTo
  <2>3. taskDict' \in [Ids -> Infos \union {None}]
    BY <1>1, <1>2, <2>1 DEF CreateTask, TypeOK, Infos
  <2>4. TypeOK'
    <3>1. runPc' \in [Runs -> Locations] /\ runId' \in [Runs -> Ids \union {None}]
      BY <1>1, <2>2 DEF TypeOK, Locations
    <3>2. created' \in 0 .. MaxRuns
      BY <1>1, <2>1 DEF Runs
    <3> QED
      BY <1>1, <1>2, <2>3, <3>1, <3>2 DEF CreateTask, TypeOK, cleanVars, closeVars
  <2>5. /\ runPc'[r] = "created" /\ runId'[r] = id
        /\ \A q \in Runs \ {r} : runPc'[q] = runPc[q] /\ runId'[q] = runId[q]
    BY <1>1, <2>1, <2>2 DEF TypeOK
  <2>6. RunsOK'
    BY <1>1, <1>2, <2>1, <2>5 DEF RunsOK, CreateTask, Runs
  <2>7. JobsOK' /\ PoolOK' /\ ClosingOK'
    <3>1. /\ \A i \in 1 .. Len(jobs) : jobs[i] # Break => jobs[i] \in Runs \ {r}
          /\ \A i \in 1 .. Len(pool) : pool[i] \in Runs \ {r}
      <4>1. \A i \in 1 .. Len(jobs) : jobs[i] \in Runs \union {Break}
        BY <1>1 DEF TypeOK
      <4>2. \A i \in 1 .. Len(pool) : pool[i] \in Runs
        BY <1>1 DEF TypeOK
      <4> QED
        BY <1>1, <2>1, <4>1, <4>2 DEF JobsOK, PoolOK
    <3>2. UNCHANGED <<jobs, pool, dispatcher, closer>>
      BY <1>2 DEF CreateTask, closeVars
    <3>3. JobsOK' /\ PoolOK'
      BY <1>1, <2>5, <3>1, <3>2 DEF JobsOK, PoolOK
    <3>4. ClosingOK'
      BY <1>1, <2>5, <3>2 DEF ClosingOK, InPool
    <3> QED
      BY <3>3, <3>4
  <2> QED
    BY <2>4, <2>6, <2>7 DEF PoolInv
<1>3. ASSUME NEW id \in Ids, EndTask(id)
      PROVE  PoolInv'
  <2>1. taskDict[id] \in Infos
    BY <1>1, <1>3 DEF EndTask, Listed, TypeOK
  <2>2. killing' \subseteq {"client", "close"} \X Runs
    BY <1>1, <1>3, <2>1 DEF EndTask, EndsAt, TypeOK, Infos
  <2>3. TypeOK'
    BY <1>1, <1>3, <2>2 DEF EndTask, TypeOK, runVars, cleanVars, closeVars
  <2> QED
    BY <1>1, <1>3, <2>3, NoRunMoves DEF EndTask, ClosingOK, closeVars, PoolInv
<1>4. ASSUME NEW who \in {"client", "close"}, NEW r \in Runs, Kill(who, r)
      PROVE  PoolInv'
  <2>1. /\ killing' \subseteq {"client", "close"} \X Runs
        /\ UNCHANGED <<taskDict, created, runId, copy, infoLock, jobs, pool, dispatcher, cleaning,
                       robbed, endFlag, toEnd>>
    BY <1>1, <1>4 DEF Kill, cleanVars, TypeOK
  <2>2. ASSUME NEW l \in {"finishing", "lost"}, runPc[r] \in Alive, GoTo(r, l), UNCHANGED closer,
               outcome' \in [Runs -> {0, Done, Interrupted}]
        PROVE  PoolInv'
    <3>1. l \in Locations /\ runPc[r] \in InPool /\ l \notin {"none", "register", "callback"}
      BY <2>2 DEF Locations, Alive, InPool
    <3>2. RunsOK' /\ JobsOK' /\ PoolOK' /\ ClosingOK'
      BY <2>1, <2>2, <3>1, RunMoves DEF Alive
    <3>3. TypeOK'
      BY <1>1, <2>1, <2>2, <3>1 DEF TypeOK, GoTo
    <3> QED
      BY <3>2, <3>3 DEF PoolInv
  <2>3. CASE KillRun(r) /\ UNCHANGED closer
    <3>1. outcome' \in [Runs -> {0, Done, Interrupted}]
      BY <1>1, <2>3 DEF KillRun, TypeOK
    <3> QED
      BY <2>2, <2>3, <3>1 DEF KillRun, Alive
  <2>4. CASE /\ runPc[r] \notin Alive
             /\ closer' \in {closer} \cup (IF who = "close" THEN {"failed"} ELSE {})
             /\ UNCHANGED <<runPc, outcome>>
    <3>1. closer' \in {closer, "failed"}
      BY <2>4
    <3>2. TypeOK'
      BY <1>1, <2>1, <2>4, <3>1 DEF TypeOK
    <3> QED
      BY <1>1, <2>1, <2>4, <3>1, <3>2, NoRunMoves DEF ClosingOK, PoolInv, runVars
  <2> QED
    BY <1>4, <2>3, <2>4 DEF Kill
<1>5. ASSUME NEW c \in Cleaners, CleanSnapshot(c) \/ CleanDelete(c)
      PROVE  PoolInv'
  <2>1. UNCHANGED <<created, runVars, jobs, pool, dispatcher, killing, closeVars>>
    BY <1>5 DEF CleanSnapshot, SnapshotOf, CleanDelete
  <2>2. taskDict' \in [Ids -> Infos \union {None}] /\ robbed' \subseteq Ids
    BY <1>1, <1>5 DEF CleanSnapshot, SnapshotOf, CleanDelete, Late, TypeOK
  <2>3. cleaning' \in [Cleaners -> SUBSET (Ids \X Runs)]
    <3>1. CASE CleanDelete(c)
      BY <1>1, <3>1 DEF CleanDelete, TypeOK
    <3>2. CASE CleanSnapshot(c)
      <4>1. PICK S \in SUBSET {id \in Ids : Listed(id) /\ taskDict[id].done_flag # 0} :
              cleaning' = [cleaning EXCEPT ![c] = {<<id, taskDict[id].run>> : id \in S}]
        BY <3>2 DEF CleanSnapshot, SnapshotOf
      <4>2. \A id \in S : id \in Ids /\ taskDict[id].run \in Runs
        BY <1>1 DEF Listed, TypeOK, Infos
      <4> QED
        BY <1>1, <4>1, <4>2 DEF TypeOK
    <3> QED
      BY <1>5, <3>1, <3>2
  <2>4. TypeOK'
    BY <1>1, <2>1, <2>2, <2>3 DEF TypeOK, runVars, closeVars
  <2> QED
    BY <1>1, <2>1, <2>4, NoRunMoves DEF ClosingOK, PoolInv, closeVars
<1> QED
  BY <1>2, <1>3, <1>4, <1>5

\* A job goes from one queue to the other and to a process of the pool.
LEMMA QueueSteps ==
  ASSUME PoolInv, Dispatch \/ TakeJob \/ \E r \in Runs : PutJob(r)
  PROVE  PoolInv'
<1>1. TypeOK /\ RunsOK /\ JobsOK /\ PoolOK /\ ClosingOK
  BY DEF PoolInv
<1>2. /\ \A i \in 1 .. Len(jobs) : jobs[i] \in Runs \union {Break}
      /\ \A i \in 1 .. Len(pool) : pool[i] \in Runs
      /\ Break \notin Runs
  <2>1. Break \notin Runs
    BY DEF Break, Runs
  <2> QED
    BY <1>1, <2>1 DEF TypeOK
<1>3. ASSUME NEW r \in Runs, PutJob(r)
      PROVE  PoolInv'
  <2>1. /\ runPc[r] = "created" /\ jobs' = Append(jobs, r) /\ runPc' = [runPc EXCEPT ![r] = "queued"]
        /\ UNCHANGED <<taskDict, created, runId, outcome, copy, infoLock, pool, dispatcher, killing,
                       cleanVars, closeVars>>
    BY <1>3 DEF PutJob, GoTo
  <2>2. runPc'[r] = "queued" /\ \A q \in Runs \ {r} : runPc'[q] = runPc[q]
    BY <1>1, <2>1 DEF TypeOK
  <2>3. /\ Len(jobs') = Len(jobs) + 1 /\ Len(jobs) \in Nat /\ jobs'[Len(jobs) + 1] = r
        /\ \A i \in 1 .. Len(jobs) : jobs'[i] = jobs[i]
        /\ jobs' \in Seq(Runs \union {Break})
    BY <1>1, <2>1 DEF TypeOK
  <2>4. TypeOK'
    <3>1. runPc' \in [Runs -> Locations]
      BY <1>1, <2>1 DEF TypeOK, Locations
    <3> QED
      BY <1>1, <2>1, <2>3, <3>1 DEF TypeOK, cleanVars, closeVars
  <2>5. RunsOK'
    BY <1>1, <2>1, <2>2 DEF RunsOK
  <2>6. JobsOK'
    <3>1. \A i \in 1 .. Len(jobs) : jobs[i] # r
      BY <1>1, <1>2, <2>1 DEF JobsOK
    <3>2. ASSUME NEW i \in 1 .. Len(jobs'), jobs'[i] # Break
          PROVE  /\ runPc'[jobs'[i]] = "queued"
                 /\ \A j \in 1 .. Len(jobs') : jobs'[j] = jobs'[i] => j = i
      <4>1. CASE i = Len(jobs) + 1
        BY <2>2, <2>3, <3>1, <4>1
      <4>2. CASE i \in 1 .. Len(jobs)
        <5>1. jobs[i] # Break /\ jobs'[i] = jobs[i]
          BY <2>3, <3>2, <4>2
        <5>2. runPc[jobs[i]] = "queued" /\ \A j \in 1 .. Len(jobs) : jobs[j] = jobs[i] => j = i
          BY <1>1, <4>2, <5>1 DEF JobsOK
        <5>3. jobs[i] \in Runs \ {r}
          BY <1>2, <3>1, <4>2, <5>1
        <5> QED
          BY <2>2, <2>3, <3>1, <4>2, <5>1, <5>2, <5>3
      <4> QED
        BY <2>3, <4>1, <4>2
    <3> QED
      BY <3>2 DEF JobsOK
  <2>7. PoolOK'
    BY <1>1, <1>2, <2>1, <2>2 DEF PoolOK
  <2>8. ClosingOK'
    BY <1>1, <2>1, <2>2 DEF ClosingOK, InPool, closeVars
  <2> QED
    BY <2>4, <2>5, <2>6, <2>7, <2>8 DEF PoolInv
<1>4. CASE Dispatch
  <2> DEFINE r == Head(jobs)
  <2>1. /\ dispatcher = "get" /\ jobs # <<>> /\ r # Break /\ dispatcher' = "loop"
        /\ jobs' = Tail(jobs) /\ pool' = Append(pool, r) /\ runPc' = [runPc EXCEPT ![r] = "pooled"]
        /\ UNCHANGED <<taskDict, created, runId, outcome, copy, infoLock, killing, cleanVars, closeVars>>
    BY <1>4 DEF Dispatch, GoTo
  <2>2. /\ Len(jobs) \in Nat \ {0} /\ r = jobs[1] /\ jobs' \in Seq(Runs \union {Break})
        /\ Len(jobs') = Len(jobs) - 1
        /\ \A i \in 1 .. Len(jobs') : jobs'[i] = jobs[i + 1] /\ i + 1 \in 1 .. Len(jobs)
    BY <1>1, <2>1, QueueHead DEF TypeOK
  <2>3. r \in Runs /\ runPc[r] = "queued"
    BY <1>1, <1>2, <2>1, <2>2 DEF JobsOK
  <2>4. runPc'[r] = "pooled" /\ \A q \in Runs \ {r} : runPc'[q] = runPc[q]
    BY <1>1, <2>1, <2>3 DEF TypeOK
  <2>5. /\ Len(pool') = Len(pool) + 1 /\ Len(pool) \in Nat /\ pool'[Len(pool) + 1] = r
        /\ \A i \in 1 .. Len(pool) : pool'[i] = pool[i]
        /\ pool' \in Seq(Runs)
    BY <1>1, <2>1, <2>3 DEF TypeOK
  <2>6. TypeOK'
    <3>1. runPc' \in [Runs -> Locations]
      BY <1>1, <2>1 DEF TypeOK, Locations
    <3> QED
      BY <1>1, <2>1, <2>2, <2>5, <3>1 DEF TypeOK, cleanVars, closeVars
  <2>7. RunsOK'
    BY <1>1, <2>1, <2>3, <2>4 DEF RunsOK
  <2>8. JobsOK'
    <3>1. ASSUME NEW i \in 1 .. Len(jobs'), jobs'[i] # Break
          PROVE  /\ runPc'[jobs'[i]] = "queued"
                 /\ \A j \in 1 .. Len(jobs') : jobs'[j] = jobs'[i] => j = i
      <4>1. i \in Nat /\ i + 1 \in 1 .. Len(jobs) /\ i + 1 # 1 /\ jobs'[i] = jobs[i + 1]
        BY <2>2
      <4>2. runPc[jobs[i + 1]] = "queued" /\ \A j \in 1 .. Len(jobs) : jobs[j] = jobs[i + 1] => j = i + 1
        BY <1>1, <3>1, <4>1 DEF JobsOK
      <4>3. jobs[i + 1] # r
        BY <2>2, <4>1, <4>2
      <4>4. jobs'[i] \in Runs \ {r}
        BY <1>2, <3>1, <4>1, <4>3
      <4>5. runPc'[jobs'[i]] = "queued"
        BY <2>4, <4>1, <4>2, <4>4
      <4>6. ASSUME NEW j \in 1 .. Len(jobs'), jobs'[j] = jobs'[i]
            PROVE  j = i
        <5>1. j \in Nat /\ j + 1 \in 1 .. Len(jobs) /\ jobs'[j] = jobs[j + 1]
          BY <2>2
        <5>2. j + 1 = i + 1
          BY <4>1, <4>2, <4>6, <5>1
        <5> QED
          BY <4>1, <5>1, <5>2
      <4> QED
        BY <4>5, <4>6
    <3> QED
      BY <3>1 DEF JobsOK
  <2>9. PoolOK'
    <3>1. \A i \in 1 .. Len(pool) : pool[i] # r
      BY <1>1, <2>3 DEF PoolOK
    <3>2. ASSUME NEW i \in 1 .. Len(pool')
          PROVE  /\ runPc'[pool'[i]] = "pooled"
                 /\ \A j \in 1 .. Len(pool') : pool'[j] = pool'[i] => j = i
      <4>1. CASE i = Len(pool) + 1
        BY <2>4, <2>5, <3>1, <4>1
      <4>2. CASE i \in 1 .. Len(pool)
        <5>1. runPc[pool[i]] = "pooled" /\ \A j \in 1 .. Len(pool) : pool[j] = pool[i] => j = i
          BY <1>1, <4>2 DEF PoolOK
        <5>2. pool[i] \in Runs \ {r} /\ pool'[i] = pool[i]
          BY <1>2, <2>5, <3>1, <4>2
        <5> QED
          BY <2>4, <2>5, <4>2, <5>1, <5>2
      <4> QED
        BY <2>5, <4>1, <4>2
    <3> QED
      BY <3>2 DEF PoolOK
  <2>10. ClosingOK'
    BY <1>1, <2>1 DEF ClosingOK, closeVars
  <2> QED
    BY <2>6, <2>7, <2>8, <2>9, <2>10 DEF PoolInv
<1>5. CASE TakeJob
  <2> DEFINE r == Head(pool)
  <2>1. /\ pool # <<>> /\ pool' = Tail(pool) /\ runPc' = [runPc EXCEPT ![r] = "begin"]
        /\ UNCHANGED <<taskDict, created, runId, outcome, copy, infoLock, jobs, dispatcher, killing,
                       cleanVars, closeVars>>
    BY <1>5 DEF TakeJob, GoTo
  <2>2. /\ Len(pool) \in Nat \ {0} /\ r = pool[1] /\ pool' \in Seq(Runs)
        /\ Len(pool') = Len(pool) - 1
        /\ \A i \in 1 .. Len(pool') : pool'[i] = pool[i + 1] /\ i + 1 \in 1 .. Len(pool)
    BY <1>1, <2>1, QueueHead DEF TypeOK
  <2>3. r \in Runs /\ runPc[r] = "pooled"
    BY <1>1, <1>2, <2>2 DEF PoolOK
  <2>4. runPc'[r] = "begin" /\ \A q \in Runs \ {r} : runPc'[q] = runPc[q]
    BY <1>1, <2>1, <2>3 DEF TypeOK
  <2>5. TypeOK'
    <3>1. runPc' \in [Runs -> Locations]
      BY <1>1, <2>1 DEF TypeOK, Locations
    <3> QED
      BY <1>1, <2>1, <2>2, <3>1 DEF TypeOK, cleanVars, closeVars
  <2>6. RunsOK'
    BY <1>1, <2>1, <2>3, <2>4 DEF RunsOK
  <2>7. JobsOK'
    BY <1>1, <1>2, <2>1, <2>3, <2>4 DEF JobsOK
  <2>8. PoolOK'
    <3>1. ASSUME NEW i \in 1 .. Len(pool')
          PROVE  /\ runPc'[pool'[i]] = "pooled"
                 /\ \A j \in 1 .. Len(pool') : pool'[j] = pool'[i] => j = i
      <4>1. i \in Nat /\ i + 1 \in 1 .. Len(pool) /\ i + 1 # 1 /\ pool'[i] = pool[i + 1]
        BY <2>2
      <4>2. runPc[pool[i + 1]] = "pooled" /\ \A j \in 1 .. Len(pool) : pool[j] = pool[i + 1] => j = i + 1
        BY <1>1, <4>1 DEF PoolOK
      <4>3. pool[i + 1] # r
        BY <2>2, <4>1, <4>2
      <4>4. pool'[i] \in Runs \ {r}
        BY <1>2, <4>1, <4>3
      <4>5. runPc'[pool'[i]] = "pooled"
        BY <2>4, <4>1, <4>2, <4>4
      <4>6. ASSUME NEW j \in 1 .. Len(pool'), pool'[j] = pool'[i]
            PROVE  j = i
        <5>1. j \in Nat /\ pool[j + 1] = pool[i + 1] /\ j + 1 \in 1 .. Len(pool)
          BY <2>2, <4>1, <4>6
        <5> QED
          BY <4>1, <4>2, <5>1
      <4> QED
        BY <4>5, <4>6
    <3> QED
      BY <3>1 DEF PoolOK
  <2>9. ClosingOK'
    BY <1>1, <2>1, <2>3, <2>4 DEF ClosingOK, InPool, closeVars
  <2> QED
    BY <2>5, <2>6, <2>7, <2>8, <2>9 DEF PoolInv
<1> QED
  BY <1>3, <1>4, <1>5

\* A pool process or the result thread does the next step of a run.
LEMMA RunSteps ==
  ASSUME PoolInv, NEW r \in Runs, RunStep(r), ~ PutJob(r)
  PROVE  PoolInv'
<1>1. TypeOK /\ RunsOK
  BY DEF PoolInv
<1>2. runPc[r] # "none" => runId[r] \in Ids /\ taskDict[runId[r]] \in Infos \union {None}
  BY <1>1 DEF TypeOK, RunsOK
<1>3. UNCHANGED <<created, runId, jobs, pool, dispatcher, killing, cleanVars, closeVars>>
  BY DEF RunStep, SkipRun, BeforeRun, Register, StartRun, EndRun, SendResult, CallbackRead,
         CallbackWrite
<1>4. ASSUME NEW l \in Locations, GoTo(r, l), runPc[r] \notin {"none", "queued", "pooled"},
             l # "none", runPc[r] \notin InPool => l \notin InPool,
             l \in {"register", "callback"} => copy'[r] \in Infos,
             copy' \in [Runs -> Infos \union {None}], \A q \in Runs \ {r} : copy'[q] = copy[q],
             taskDict' \in [Ids -> Infos \union {None}],
             outcome' \in [Runs -> {0, Done, Interrupted}], infoLock' \in Runs \union {0}
      PROVE  PoolInv'
  <2>1. runPc' \in [Runs -> Locations]
    BY <1>1, <1>4 DEF GoTo, TypeOK
  <2>2. TypeOK'
    BY <1>1, <1>3, <1>4, <2>1 DEF TypeOK, cleanVars, closeVars
  <2>3. RunsOK' /\ JobsOK' /\ PoolOK' /\ ClosingOK'
    BY <1>3, <1>4, RunMoves DEF closeVars
  <2> QED
    BY <2>2, <2>3 DEF PoolInv
<1>5. /\ copy \in [Runs -> Infos \union {None}] /\ taskDict \in [Ids -> Infos \union {None}]
      /\ outcome \in [Runs -> {0, Done, Interrupted}] /\ infoLock \in Runs \union {0}
  BY <1>1 DEF TypeOK
<1>6. CASE SkipRun(r) \/ StartRun(r) \/ EndRun(r) \/ SendResult(r)
  <2>1. PICK l \in {"finishing", "running", "result"} : GoTo(r, l)
    BY <1>6 DEF SkipRun, StartRun, EndRun, SendResult
  <2>2. /\ runPc[r] \in {"begin", "report", "running", "finishing"}
        /\ UNCHANGED <<taskDict, copy, infoLock>>
        /\ outcome' \in [Runs -> {0, Done, Interrupted}]
    BY <1>5, <1>6 DEF SkipRun, StartRun, EndRun, SendResult
  <2> QED
    BY <1>4, <1>5, <2>1, <2>2 DEF Locations, InPool
<1>7. CASE BeforeRun(r)
  <2> DEFINE info == taskDict[runId[r]]
             registers == info # None /\ info.process = 0
             l == IF registers THEN "register" ELSE "report"
  <2>1. /\ runPc[r] = "begin" /\ copy' = [copy EXCEPT ![r] = IF registers THEN info ELSE None]
        /\ infoLock' = (IF registers THEN r ELSE 0) /\ GoTo(r, l)
        /\ UNCHANGED <<taskDict, outcome>>
    BY <1>7 DEF BeforeRun
  <2>2. registers => info \in Infos
    BY <1>2, <2>1
  <2>3. /\ copy' \in [Runs -> Infos \union {None}] /\ \A q \in Runs \ {r} : copy'[q] = copy[q]
        /\ l = "register" => copy'[r] \in Infos
    BY <1>5, <2>1, <2>2
  <2>4. l \in {"register", "report"} /\ infoLock' \in Runs \union {0}
    BY <2>1
  <2> HIDE DEF l
  <2> QED
    BY <1>4, <1>5, <2>1, <2>3, <2>4 DEF Locations, InPool
<1>8. CASE Register(r) \/ CallbackWrite(r)
  <2>1. PICK info \in Infos : Store(r, info)
    <3>1. copy[r] \in Infos /\ (CallbackWrite(r) => outcome[r] \in {0, Done, Interrupted})
      BY <1>1, <1>5, <1>8 DEF Register, CallbackWrite, RunsOK
    <3>2. [copy[r] EXCEPT !.process = r] \in Infos
      BY <3>1 DEF Infos
    <3>3. CallbackWrite(r) => [copy[r] EXCEPT !.done_flag = outcome[r]] \in Infos
      BY <3>1 DEF Infos
    <3> QED
      BY <1>8, <3>2, <3>3 DEF Register, CallbackWrite
  <2>2. /\ runPc[r] \in {"register", "callback"} /\ copy' = [copy EXCEPT ![r] = None]
        /\ infoLock' \in Runs \union {0}
        /\ outcome' \in [Runs -> {0, Done, Interrupted}]
        /\ GoTo(r, "report") \/ GoTo(r, "over")
        /\ runPc[r] = "callback" => GoTo(r, "over")
    BY <1>5, <1>8 DEF Register, CallbackWrite
  <2>3. PICK l \in {"report", "over"} : GoTo(r, l)
    BY <2>2
  <2>4. /\ taskDict' \in [Ids -> Infos \union {None}] /\ copy' \in [Runs -> Infos \union {None}]
        /\ \A q \in Runs \ {r} : copy'[q] = copy[q]
    BY <1>5, <2>1, <2>2 DEF Store
  <2> QED
    BY <1>4, <1>5, <2>2, <2>3, <2>4 DEF Locations, InPool
<1>9. CASE CallbackRead(r)
  <2> DEFINE info == taskDict[runId[r]]
             l == IF info = None THEN "over" ELSE "callback"
  <2>1. /\ runPc[r] = "result" /\ copy' = [copy EXCEPT ![r] = info] /\ GoTo(r, l)
        /\ UNCHANGED <<taskDict, outcome, infoLock>>
    BY <1>9 DEF CallbackRead
  <2>2. /\ copy' \in [Runs -> Infos \union {None}] /\ \A q \in Runs \ {r} : copy'[q] = copy[q]
        /\ l = "callback" => copy'[r] \in Infos
    BY <1>2, <1>5, <2>1
  <2>3. l \in {"over", "callback"}
    OBVIOUS
  <2> HIDE DEF l
  <2> QED
    BY <1>4, <1>5, <2>1, <2>2, <2>3 DEF Locations, InPool
<1> QED
  BY <1>6, <1>7, <1>8, <1>9 DEF RunStep

\* The dispatcher waits or ends; close() goes on.
LEMMA ClosingSteps ==
  ASSUME PoolInv,
         \/ AwaitJob \/ DispatchEnd \/ DispatcherExit
         \/ Close \/ CloseRound \/ Closed \/ \E id \in Ids : CloseEnd(id)
  PROVE  PoolInv'
<1>1. TypeOK /\ RunsOK /\ JobsOK /\ PoolOK /\ ClosingOK
  BY DEF PoolInv
<1>2. CASE \/ AwaitJob \/ DispatcherExit \/ (DispatchEnd /\ UNCHANGED jobs)
            \/ CloseRound \/ Closed \/ \E id \in Ids : CloseEnd(id)
  <2>1. UNCHANGED <<taskDict, created, runVars, jobs, pool, cleanVars, endFlag>>
    BY <1>2 DEF AwaitJob, DispatcherExit, CloseEnd, CloseRound, Closed, DispatchEnd, closeVars
  <2>2. killing' \subseteq {"client", "close"} \X Runs /\ toEnd' \subseteq Ids
    <3>1. ASSUME NEW id \in Ids, CloseEnd(id)
          PROVE  killing' \subseteq {"client", "close"} \X Runs /\ toEnd' \subseteq Ids
      <4>1. Listed(id) => EndsAt(taskDict[id]) \subseteq Runs
        BY <1>1 DEF Listed, TypeOK, EndsAt, Infos
      <4> QED
        BY <1>1, <3>1, <4>1 DEF CloseEnd, TypeOK
    <3> QED
      BY <1>1, <1>2, <3>1 DEF AwaitJob, DispatcherExit, CloseRound, Closed, DispatchEnd, TypeOK,
                              cleanVars, closeVars
  <2>3. /\ dispatcher' \in {"loop", "get", "joining", "exited"}
        /\ closer' \in {"open", "round1", "round2", "join", "closed", "failed"}
    BY <1>1, <1>2 DEF AwaitJob, DispatcherExit, CloseEnd, CloseRound, Closed, DispatchEnd,
                      TypeOK, closeVars
  <2>4. TypeOK'
    BY <1>1, <2>1, <2>2, <2>3 DEF TypeOK, runVars, cleanVars
  <2>5. /\ dispatcher' = "exited" => \A r \in Runs : runPc[r] \notin InPool
        /\ closer' = "closed" => dispatcher' = "exited"
    BY <1>1, <1>2 DEF ClosingOK, AwaitJob, DispatcherExit, CloseEnd, CloseRound, Closed,
                      DispatchEnd, closeVars
  <2> QED
    BY <2>1, <2>4, <2>5, NoRunMoves DEF PoolInv
<1>3. CASE DispatchEnd /\ jobs # <<>> /\ jobs' = Tail(jobs)
  <2>1. /\ dispatcher' = "joining" /\ dispatcher # "exited"
        /\ UNCHANGED <<taskDict, created, runVars, pool, killing, cleanVars, closeVars>>
    BY <1>3 DEF DispatchEnd
  <2>2. /\ Len(jobs) \in Nat \ {0} /\ jobs' \in Seq(Runs \union {Break})
        /\ Len(jobs') = Len(jobs) - 1
        /\ \A i \in 1 .. Len(jobs') : jobs'[i] = jobs[i + 1] /\ i + 1 \in 1 .. Len(jobs)
    BY <1>1, <1>3, QueueHead DEF TypeOK
  <2>3. TypeOK'
    BY <1>1, <2>1, <2>2 DEF TypeOK, runVars, cleanVars, closeVars
  <2>4. JobsOK'
    <3>1. ASSUME NEW i \in 1 .. Len(jobs'), jobs'[i] # Break
          PROVE  /\ runPc'[jobs'[i]] = "queued"
                 /\ \A j \in 1 .. Len(jobs') : jobs'[j] = jobs'[i] => j = i
      <4>1. i \in Nat /\ i + 1 \in 1 .. Len(jobs) /\ jobs'[i] = jobs[i + 1]
        BY <2>2
      <4>2. runPc[jobs[i + 1]] = "queued" /\ \A j \in 1 .. Len(jobs) : jobs[j] = jobs[i + 1] => j = i + 1
        BY <1>1, <3>1, <4>1 DEF JobsOK
      <4>3. runPc' = runPc /\ jobs'[i] = jobs[i + 1]
        BY <2>1, <4>1 DEF runVars
      <4>4. ASSUME NEW j \in 1 .. Len(jobs'), jobs'[j] = jobs'[i]
            PROVE  j = i
        <5>1. j \in Nat /\ j + 1 \in 1 .. Len(jobs) /\ jobs[j + 1] = jobs[i + 1]
          BY <2>2, <4>3, <4>4
        <5> QED
          BY <4>1, <4>2, <5>1
      <4> QED
        BY <4>2, <4>3, <4>4
    <3> QED
      BY <3>1 DEF JobsOK
  <2>5. RunsOK' /\ PoolOK' /\ ClosingOK'
    BY <1>1, <2>1 DEF RunsOK, PoolOK, ClosingOK, runVars, closeVars
  <2> QED
    BY <2>3, <2>4, <2>5 DEF PoolInv
<1>4. CASE Close
  <2>1. /\ closer' = "round1" /\ endFlag' = TRUE /\ jobs' = Append(jobs, Break) /\ toEnd' \subseteq Ids
        /\ UNCHANGED <<taskDict, created, runVars, pool, dispatcher, killing, cleanVars>>
    BY <1>4 DEF Close
  <2>2. /\ Len(jobs') = Len(jobs) + 1 /\ Len(jobs) \in Nat /\ jobs'[Len(jobs) + 1] = Break
        /\ \A i \in 1 .. Len(jobs) : jobs'[i] = jobs[i]
        /\ jobs' \in Seq(Runs \union {Break})
    BY <1>1, <2>1 DEF TypeOK
  <2>3. TypeOK'
    BY <1>1, <2>1, <2>2 DEF TypeOK, runVars, cleanVars
  <2>4. JobsOK'
    <3>1. ASSUME NEW i \in 1 .. Len(jobs'), jobs'[i] # Break
          PROVE  /\ runPc'[jobs'[i]] = "queued"
                 /\ \A j \in 1 .. Len(jobs') : jobs'[j] = jobs'[i] => j = i
      <4>1. i \in 1 .. Len(jobs)
        BY <2>2, <3>1
      <4>2. runPc[jobs[i]] = "queued" /\ \A j \in 1 .. Len(jobs) : jobs[j] = jobs[i] => j = i
        BY <1>1, <2>2, <3>1, <4>1 DEF JobsOK
      <4> QED
        BY <2>1, <2>2, <3>1, <4>1, <4>2 DEF runVars
    <3> QED
      BY <3>1 DEF JobsOK
  <2>5. RunsOK' /\ PoolOK' /\ ClosingOK'
    BY <1>1, <2>1 DEF RunsOK, PoolOK, ClosingOK, runVars
  <2> QED
    BY <2>3, <2>4, <2>5 DEF PoolInv
<1> QED
  BY <1>2, <1>3, <1>4 DEF DispatchEnd

\* PoolInv is inductive.
LEMMA PoolStep ==
  ASSUME PoolInv, [Next]_vars
  PROVE  PoolInv'
<1>1. CASE Quiet \/ UNCHANGED vars
  BY <1>1 DEF Quiet, vars, runVars, cleanVars, closeVars, PoolInv, TypeOK, RunsOK, JobsOK, PoolOK, ClosingOK
<1>2. ASSUME NEW r \in Runs, RunStep(r)
      PROVE  PoolInv'
  BY <1>2, RunSteps, QueueSteps
<1> QED
  BY <1>1, <1>2, ClientSteps, QueueSteps, ClosingSteps DEF Next, DispatcherStep, CloserStep

(***************************************************************************)
(* The task dict, of the tasks that are not robbed                         *)
(***************************************************************************)

Waiting == {"created", "queued", "pooled", "begin", "register"}

\* The entry of a live run.
LEMMA LiveEntry ==
  ASSUME PoolInv, TaskInv, NEW r \in Runs, Live(r)
  PROVE  /\ runId[r] \in Ids /\ taskDict[runId[r]] \in Infos /\ taskDict[runId[r]] # None
         /\ taskDict[runId[r]].run = r /\ EntryOK(runId[r], taskDict[runId[r]])
         /\ taskDict[runId[r]].done_flag = 0
<1>1. TypeOK /\ RunsOK /\ ListedOK /\ EntriesOK
  BY DEF PoolInv, TaskInv
<1>2. runId[r] \in Ids /\ Listed(runId[r]) /\ taskDict[runId[r]].run = r
  BY <1>1 DEF RunsOK, ListedOK, Live
<1>3. EntryOK(runId[r], taskDict[runId[r]])
  BY <1>1, <1>2 DEF EntriesOK, Live
<1> QED
  BY <1>1, <1>2, <1>3 DEF TypeOK, Listed, EntryOK, Live

\* An entry of another task is of another run.
LEMMA OtherEntries ==
  ASSUME PoolInv, TaskInv, NEW id \in Ids \ robbed, Listed(id)
  PROVE  /\ taskDict[id] \in Infos /\ taskDict[id].run \in Runs /\ EntryOK(id, taskDict[id])
         /\ \A r \in Runs : runId[r] # id => taskDict[id].run # r
BY DEF PoolInv, TaskInv, TypeOK, EntriesOK, EntryOK, Listed, Infos

\* A run of a robbed task goes on: it touches no other task.
LEMMA RobbedRunMoves ==
  ASSUME PoolInv, TaskInv, NEW r \in Runs, runPc[r] # "none", runPc[r] # "over", runId[r] \in robbed,
         NEW l \in Locations, GoTo(r, l), UNCHANGED <<runId, cleanVars>>,
         \A id \in Ids \ {runId[r]} : taskDict'[id] = taskDict[id],
         l \in {"finishing", "result", "callback"} => outcome'[r] # 0,
         \A q \in Runs \ {r} : copy'[q] = copy[q] /\ outcome'[q] = outcome[q]
  PROVE  TaskInv'
<1>1. TypeOK /\ RunsOK /\ ListedOK /\ EntriesOK /\ CopyOK /\ OutcomeOK /\ CleanOK
  BY DEF PoolInv, TaskInv
<1>2. /\ runPc'[r] = l /\ \A q \in Runs \ {r} : runPc'[q] = runPc[q]
      /\ UNCHANGED <<cleaning, robbed>>
  BY <1>1 DEF GoTo, TypeOK, cleanVars
<1>3. \A q \in Runs : /\ Live(q)' => q # r /\ Live(q)
                      /\ Live(q) => runId[q] \in Ids \ {runId[r]}
  BY <1>1, <1>2 DEF Live, RunsOK
<1>4. ListedOK'
  BY <1>1, <1>2, <1>3 DEF ListedOK, Listed
<1>5. EntriesOK'
  <2> SUFFICES ASSUME NEW id \in Ids \ robbed, Listed(id)'
               PROVE  EntryOK(id, taskDict[id])'
    BY <1>2 DEF EntriesOK
  <2>1. id # runId[r] /\ taskDict'[id] = taskDict[id] /\ Listed(id)
    BY DEF Listed
  <2>2. EntryOK(id, taskDict[id]) /\ taskDict[id].run \in Runs \ {r}
    BY <2>1, OtherEntries
  <2> QED
    BY <1>2, <2>1, <2>2 DEF EntryOK
<1>6. CopyOK'
  <2> SUFFICES ASSUME NEW q \in Runs, runPc'[q] \in {"register", "callback"}, runId[q] \notin robbed
               PROVE  copy'[q] = taskDict'[runId[q]]
    BY <1>2 DEF CopyOK
  <2>1. q # r /\ runPc'[q] = runPc[q] /\ Live(q)
    BY <1>2 DEF Live
  <2> QED
    BY <1>1, <1>3, <2>1 DEF CopyOK
<1>7. OutcomeOK' /\ CleanOK'
  BY <1>1, <1>2 DEF OutcomeOK, CleanOK
<1> QED
  BY <1>4, <1>5, <1>6, <1>7 DEF TaskInv

\* A run goes on and the task dict stays as it is.
LEMMA RunGoesOn ==
  ASSUME PoolInv, TaskInv, NEW r \in Runs, NEW l \in Locations, Live(r), GoTo(r, l),
         l \notin {"none", "over"}, UNCHANGED <<taskDict, runId, cleanVars>>,
         taskDict[runId[r]].process # 0 => l \notin Waiting,
         l \in {"report", "running"} => taskDict[runId[r]].process # 0,
         l \in {"register", "callback"} => copy'[r] = taskDict[runId[r]],
         l \in {"finishing", "result", "callback"} => outcome'[r] # 0,
         \A q \in Runs \ {r} : copy'[q] = copy[q] /\ outcome'[q] = outcome[q]
  PROVE  TaskInv'
<1>1. TypeOK /\ ListedOK /\ EntriesOK /\ CopyOK /\ OutcomeOK /\ CleanOK
  BY DEF PoolInv, TaskInv
<1>2. /\ runPc'[r] = l /\ \A q \in Runs \ {r} : runPc'[q] = runPc[q]
      /\ UNCHANGED <<cleaning, robbed>>
  BY <1>1 DEF GoTo, TypeOK, cleanVars
<1>3. ListedOK'
  BY <1>1, <1>2 DEF ListedOK, Live, Listed
<1>4. EntriesOK'
  <2> SUFFICES ASSUME NEW id \in Ids \ robbed, Listed(id)
               PROVE  EntryOK(id, taskDict[id])'
    BY <1>2 DEF EntriesOK, Listed
  <2>1. /\ taskDict[id] \in Infos /\ taskDict[id].run \in Runs /\ EntryOK(id, taskDict[id])
        /\ (runId[r] # id => taskDict[id].run # r)
    BY OtherEntries
  <2>2. CASE taskDict[id].run = r
    <3>1. taskDict[id].done_flag = 0 /\ id = runId[r]
      BY <2>1, <2>2, LiveEntry
    <3> QED
      BY <1>2, <2>1, <2>2, <3>1 DEF EntryOK, Waiting
  <2>3. CASE taskDict[id].run # r
    BY <1>2, <2>1, <2>3 DEF EntryOK
  <2> QED
    BY <2>2, <2>3
<1>5. CopyOK' /\ OutcomeOK'
  BY <1>1, <1>2 DEF CopyOK, OutcomeOK
<1>6. CleanOK'
  BY <1>1, <1>2 DEF CleanOK, Live
<1> QED
  BY <1>3, <1>4, <1>5, <1>6 DEF TaskInv

\* The steps of a run but those that store.
LEMMA RunStepsKeepDict ==
  ASSUME PoolInv, TaskInv, NEW r \in Runs,
         \/ PutJob(r) \/ SkipRun(r) \/ BeforeRun(r) \/ StartRun(r) \/ EndRun(r) \/ SendResult(r)
         \/ CallbackRead(r)
  PROVE  TaskInv'
<1>1. TypeOK /\ OutcomeOK
  BY DEF PoolInv, TaskInv
<1>2. runPc[r] \notin {"none", "over", "lost"} /\ UNCHANGED <<taskDict, runId, cleanVars>>
  BY DEF PutJob, SkipRun, BeforeRun, StartRun, EndRun, SendResult, CallbackRead
<1>3. PICK l \in Locations \ {"none"} :
        /\ GoTo(r, l)
        /\ l \in {"finishing", "result", "callback"} => outcome'[r] # 0
        /\ \A q \in Runs \ {r} : copy'[q] = copy[q] /\ outcome'[q] = outcome[q]
  <2>1. CASE PutJob(r) \/ StartRun(r)
    BY <2>1 DEF PutJob, StartRun, Locations
  <2>2. CASE SkipRun(r) \/ EndRun(r)
    <3>1. outcome'[r] # 0 /\ \A q \in Runs \ {r} : outcome'[q] = outcome[q]
      BY <1>1, <2>2 DEF SkipRun, EndRun, TypeOK, Done, Interrupted
    <3> QED
      BY <2>2, <3>1 DEF SkipRun, EndRun, Locations
  <2>3. CASE BeforeRun(r)
    <3>1. PICK l \in {"register", "report"} : GoTo(r, l)
      BY <2>3 DEF BeforeRun
    <3>2. \A q \in Runs \ {r} : copy'[q] = copy[q] /\ outcome'[q] = outcome[q]
      BY <1>1, <2>3 DEF BeforeRun, TypeOK
    <3> QED
      BY <3>1, <3>2 DEF Locations
  <2>4. CASE SendResult(r)
    BY <1>1, <2>4 DEF SendResult, OutcomeOK, Locations
  <2>5. CASE CallbackRead(r)
    <3>1. PICK l \in {"over", "callback"} : GoTo(r, l)
      BY <2>5 DEF CallbackRead
    <3>2. \A q \in Runs \ {r} : copy'[q] = copy[q] /\ outcome'[q] = outcome[q]
      BY <1>1, <2>5 DEF CallbackRead, TypeOK
    <3>3. outcome'[r] # 0
      BY <1>1, <2>5 DEF CallbackRead, OutcomeOK
    <3> QED
      BY <3>1, <3>2, <3>3 DEF Locations
  <2> QED
    BY <2>1, <2>2, <2>3, <2>4, <2>5
<1>4. CASE runId[r] \in robbed
  BY <1>2, <1>3, <1>4, RobbedRunMoves
<1>5. CASE runId[r] \notin robbed
  <2>1. Live(r)
    BY <1>2, <1>5 DEF Live
  <2>2. /\ taskDict[runId[r]] \in Infos /\ taskDict[runId[r]] # None
        /\ EntryOK(runId[r], taskDict[runId[r]])
    BY <2>1, LiveEntry
  <2>3. /\ taskDict[runId[r]].process # 0 => runPc[r] \notin Waiting
        /\ runPc[r] \in {"report", "running"} => taskDict[runId[r]].process # 0
    BY <2>1, <2>2, LiveEntry DEF EntryOK, Waiting
  <2>4. CASE PutJob(r)
    BY <1>2, <2>1, <2>3, <2>4, RunGoesOn DEF PutJob, Waiting, Locations
  <2>5. CASE SkipRun(r) \/ EndRun(r)
    <3>1. GoTo(r, "finishing") /\ UNCHANGED copy
      BY <2>5 DEF SkipRun, EndRun
    <3>2. outcome'[r] # 0 /\ \A q \in Runs \ {r} : outcome'[q] = outcome[q]
      BY <1>1, <2>5 DEF SkipRun, EndRun, TypeOK, Done, Interrupted
    <3> QED
      BY <1>2, <2>1, <3>1, <3>2, RunGoesOn DEF Waiting, Locations
  <2>6. CASE BeforeRun(r)
    <3>1. runPc[r] = "begin" /\ taskDict[runId[r]].process = 0
      BY <2>3, <2>6 DEF BeforeRun, Waiting
    <3>2. GoTo(r, "register") /\ copy' = [copy EXCEPT ![r] = taskDict[runId[r]]] /\ UNCHANGED outcome
      BY <2>2, <2>6, <3>1 DEF BeforeRun
    <3>3. copy'[r] = taskDict[runId[r]] /\ \A q \in Runs \ {r} : copy'[q] = copy[q]
      BY <1>1, <3>2 DEF TypeOK
    <3> QED
      BY <1>2, <2>1, <3>1, <3>2, <3>3, RunGoesOn DEF Locations
  <2>7. CASE StartRun(r)
    BY <1>2, <2>1, <2>3, <2>7, RunGoesOn DEF StartRun, Waiting, Locations
  <2>8. CASE SendResult(r)
    <3>1. outcome[r] # 0
      BY <1>1, <2>8 DEF SendResult, OutcomeOK
    <3> QED
      BY <1>2, <2>1, <2>8, <3>1, RunGoesOn DEF SendResult, Waiting, Locations
  <2>9. CASE CallbackRead(r)
    <3>1. GoTo(r, "callback") /\ copy' = [copy EXCEPT ![r] = taskDict[runId[r]]] /\ UNCHANGED outcome
      BY <2>2, <2>9 DEF CallbackRead
    <3>2. copy'[r] = taskDict[runId[r]] /\ \A q \in Runs \ {r} : copy'[q] = copy[q]
      BY <1>1, <3>1 DEF TypeOK
    <3>3. outcome[r] # 0
      BY <1>1, <2>9 DEF CallbackRead, OutcomeOK
    <3> QED
      BY <1>2, <2>1, <3>1, <3>2, <3>3, RunGoesOn DEF Waiting, Locations
  <2> QED
    BY <2>4, <2>5, <2>6, <2>7, <2>8, <2>9
<1> QED
  BY <1>4, <1>5

\* A run of a robbed task stores an entry of that task.
LEMMA RobbedRunStores ==
  ASSUME PoolInv, TaskInv, NEW r \in Runs, Register(r) \/ CallbackWrite(r), runId[r] \in robbed
  PROVE  TaskInv' /\ \A id \in Ids \ robbed : taskDict'[id] = taskDict[id]
<1>1. TypeOK /\ OutcomeOK
  BY DEF PoolInv, TaskInv
<1>2. PICK l \in {"report", "over"} : GoTo(r, l)
  BY DEF Register, CallbackWrite
<1>3. /\ \A q \in Runs \ {r} : copy'[q] = copy[q] /\ outcome'[q] = outcome[q]
      /\ \A id \in Ids \ {runId[r]} : taskDict'[id] = taskDict[id]
  BY <1>1 DEF Register, CallbackWrite, Store, TypeOK
<1>4. runPc[r] \notin {"none", "over"} /\ UNCHANGED <<runId, cleanVars>>
  BY DEF Register, CallbackWrite
<1>5. TaskInv'
  BY <1>2, <1>3, <1>4, RobbedRunMoves DEF Locations
<1> QED
  BY <1>3, <1>5

\* A run stores its entry: that of no other task, and what it read is still there.
LEMMA RunStores ==
  ASSUME PoolInv, TaskInv, NEW r \in Runs, Register(r) \/ CallbackWrite(r), runId[r] \notin robbed
  PROVE  /\ TaskInv'
         /\ runId[r] \in Ids /\ Listed(runId[r]) /\ taskDict[runId[r]].done_flag = 0
         /\ Register(r) => /\ taskDict[runId[r]].process = 0
                           /\ taskDict' = [taskDict EXCEPT ![runId[r]].process = r]
         /\ CallbackWrite(r) => taskDict' = [taskDict EXCEPT ![runId[r]].done_flag = outcome[r]]
<1> DEFINE id == runId[r]
           info == taskDict[id]
<1>1. TypeOK /\ ListedOK /\ EntriesOK /\ CopyOK /\ OutcomeOK /\ CleanOK
  BY DEF PoolInv, TaskInv
<1>2. Live(r) /\ runPc[r] \in {"register", "callback"}
  BY DEF Live, Register, CallbackWrite
<1>3. /\ id \in Ids /\ info \in Infos /\ info # None /\ info.run = r /\ EntryOK(id, info)
      /\ info.done_flag = 0
  BY <1>2, LiveEntry
<1>4. copy[r] = info
  BY <1>1, <1>2 DEF CopyOK
<1>5. /\ UNCHANGED <<runId, cleaning, robbed>>
      /\ copy' = [copy EXCEPT ![r] = None]
      /\ Register(r) => UNCHANGED outcome
      /\ \A q \in Runs \ {r} : outcome'[q] = outcome[q]
  BY <1>1 DEF Register, CallbackWrite, cleanVars, TypeOK
<1>6. PICK new : /\ new \in Infos /\ new.run = r /\ taskDict' = [taskDict EXCEPT ![id] = new]
                 /\ Register(r) => /\ new = [info EXCEPT !.process = r] /\ new.process = r
                                   /\ new.done_flag = 0
                 /\ CallbackWrite(r) => /\ new = [info EXCEPT !.done_flag = outcome[r]]
                                        /\ new.done_flag = outcome[r] /\ new.process = info.process
  <2>1. CASE Register(r)
    <3> DEFINE new == [info EXCEPT !.process = r]
    <3>1. new \in Infos /\ new.run = r /\ new.process = r /\ new.done_flag = 0
      BY <1>3 DEF Infos
    <3>2. taskDict' = [taskDict EXCEPT ![id] = new]
      BY <1>4, <2>1 DEF Register, Store
    <3>3. ~ CallbackWrite(r)
      BY <2>1 DEF Register, CallbackWrite
    <3> QED
      BY <3>1, <3>2, <3>3
  <2>2. CASE CallbackWrite(r)
    <3> DEFINE new == [info EXCEPT !.done_flag = outcome[r]]
    <3>1. outcome[r] \in {0, Done, Interrupted}
      BY <1>1 DEF TypeOK
    <3>2. new \in Infos /\ new.run = r /\ new.process = info.process /\ new.done_flag = outcome[r]
      BY <1>3, <3>1 DEF Infos
    <3>3. taskDict' = [taskDict EXCEPT ![id] = new]
      BY <1>4, <2>2 DEF CallbackWrite, Store
    <3>4. ~ Register(r)
      BY <2>2 DEF Register, CallbackWrite
    <3> QED
      BY <3>2, <3>3, <3>4
  <2> QED
    BY <2>1, <2>2
<1>7. PICK l \in {"report", "over"} : /\ runPc' = [runPc EXCEPT ![r] = l]
                                      /\ Register(r) => l = "report" /\ runPc[r] = "register"
                                      /\ CallbackWrite(r) => l = "over" /\ runPc[r] = "callback"
  BY DEF Register, CallbackWrite, GoTo
<1>8. /\ taskDict'[id] = new /\ \A i \in Ids \ {id} : taskDict'[i] = taskDict[i]
      /\ runPc'[r] = l /\ \A q \in Runs \ {r} : runPc'[q] = runPc[q]
      /\ \A q \in Runs \ {r} : copy'[q] = copy[q]
  BY <1>1, <1>3, <1>5, <1>6, <1>7 DEF TypeOK
<1>9. new # None
  BY <1>6, AutoManageAssumption
<1>10. \A q \in Runs \ {r} : Live(q) => runId[q] # id
  BY <1>1, <1>3 DEF ListedOK
<1>11. ListedOK'
  <2> SUFFICES ASSUME NEW q \in Runs, Live(q)'
               PROVE  Listed(runId[q])' /\ taskDict'[runId[q]].run = q
    BY <1>5 DEF ListedOK
  <2>1. CASE q = r
    BY <1>5, <1>6, <1>8, <1>9, <2>1 DEF Listed
  <2>2. CASE q # r
    <3>1. Live(q) /\ runId[q] # id
      BY <1>5, <1>8, <1>10, <2>2 DEF Live
    <3>2. runId[q] \in Ids /\ taskDict[runId[q]] # None /\ taskDict[runId[q]].run = q
      BY <3>1, LiveEntry
    <3> QED
      BY <1>5, <1>8, <3>1, <3>2 DEF Listed
  <2> QED
    BY <2>1, <2>2
<1>12. EntriesOK'
  <2> SUFFICES ASSUME NEW i \in Ids \ robbed, Listed(i)'
               PROVE  EntryOK(i, taskDict[i])'
    BY <1>5 DEF EntriesOK
  <2>1. CASE i = id
    <3>1. CASE Register(r)
      <4>1. l = "report" /\ new.process = r /\ new.done_flag = 0 /\ new.run = r
        BY <1>6, <1>7, <3>1
      <4>2. taskDict'[i] = new /\ runPc'[new.run] = "report" /\ runId'[new.run] = i /\ r # 0
        BY <1>5, <1>8, <2>1, <4>1 DEF Runs
      <4> HIDE DEF id, info
      <4> QED
        BY <4>1, <4>2 DEF EntryOK
    <3>2. CASE CallbackWrite(r)
      <4>1. outcome[r] # 0
        BY <1>1, <1>7, <3>2 DEF OutcomeOK
      <4>2. l = "over"
        BY <1>7, <3>2
      <4> QED
        BY <1>3, <1>5, <1>6, <1>8, <2>1, <3>2, <4>1, <4>2 DEF EntryOK
    <3> QED
      BY <3>1, <3>2
  <2>2. CASE i # id
    <3>1. Listed(i) /\ taskDict'[i] = taskDict[i]
      BY <1>8, <2>2 DEF Listed
    <3>2. EntryOK(i, taskDict[i]) /\ taskDict[i].run \in Runs \ {r}
      BY <2>2, <3>1, OtherEntries
    <3> QED
      BY <1>5, <1>8, <3>1, <3>2 DEF EntryOK
  <2> QED
    BY <2>1, <2>2
<1>13. CopyOK'
  <2>1. ASSUME NEW q \in Runs, runPc'[q] \in {"register", "callback"}, runId[q] \notin robbed
        PROVE  copy'[q] = taskDict'[runId[q]]
    <3>1. q # r
      BY <1>8, <2>1
    <3>2. Live(q) /\ runPc'[q] = runPc[q] /\ copy'[q] = copy[q]
      BY <1>8, <2>1, <3>1 DEF Live
    <3>3. runId[q] \in Ids \ {id}
      BY <1>10, <3>1, <3>2, LiveEntry
    <3> QED
      BY <1>1, <1>8, <2>1, <3>2, <3>3 DEF CopyOK
  <2> QED
    BY <1>5, <2>1 DEF CopyOK
<1>14. OutcomeOK'
  BY <1>1, <1>5, <1>8 DEF OutcomeOK
<1>15. CleanOK'
  BY <1>1, <1>2, <1>5, <1>8 DEF CleanOK
<1>16. Register(r) => info.process = 0
  BY <1>3, <1>7 DEF EntryOK
<1> QED
  BY <1>3, <1>6, <1>11, <1>12, <1>13, <1>14, <1>15, <1>16 DEF TaskInv, Listed

\* A new task gets an entry of its own.
LEMMA TaskIsCreated ==
  ASSUME PoolInv, TaskInv, NEW id \in Ids, CreateTask(id)
  PROVE  TaskInv'
<1> DEFINE r == created + 1
           new == [run |-> r, process |-> 0, done_flag |-> 0]
<1>1. TypeOK /\ RunsOK /\ ListedOK /\ EntriesOK /\ CopyOK /\ OutcomeOK /\ CleanOK
  BY DEF PoolInv, TaskInv
<1>2. r \in Runs /\ runPc[r] = "none"
  BY <1>1, AutoManageAssumption DEF CreateTask, TypeOK, RunsOK, Runs
<1>3. /\ ~ Listed(id) /\ UNCHANGED <<outcome, copy, cleaning, robbed>>
      /\ taskDict' = [taskDict EXCEPT ![id] = new] /\ runId' = [runId EXCEPT ![r] = id]
      /\ runPc' = [runPc EXCEPT ![r] = "created"]
  BY DEF CreateTask, GoTo, cleanVars
<1>4. /\ taskDict'[id] = new /\ \A i \in Ids \ {id} : taskDict'[i] = taskDict[i]
      /\ runPc'[r] = "created" /\ \A q \in Runs \ {r} : runPc'[q] = runPc[q]
      /\ runId'[r] = id /\ \A q \in Runs \ {r} : runId'[q] = runId[q]
  BY <1>1, <1>2, <1>3 DEF TypeOK
<1>5. new # None
  <2>1. new \in Infos
    BY <1>2 DEF Infos
  <2> QED
    BY <2>1, AutoManageAssumption
<1>6. \A q \in Runs : Live(q) => q # r /\ runId[q] \in Ids \ {id}
  BY <1>2, <1>3, LiveEntry DEF Live, Listed
<1>7. ListedOK'
  <2> SUFFICES ASSUME NEW q \in Runs, Live(q)'
               PROVE  Listed(runId[q])' /\ taskDict'[runId'[q]].run = q
    BY DEF ListedOK
  <2>1. CASE q = r
    BY <1>4, <1>5, <2>1 DEF Listed
  <2>2. CASE q # r
    BY <1>1, <1>3, <1>4, <1>6, <2>2 DEF ListedOK, Live, Listed
  <2> QED
    BY <2>1, <2>2
<1>8. EntriesOK'
  <2> SUFFICES ASSUME NEW i \in Ids \ robbed, Listed(i)'
               PROVE  EntryOK(i, taskDict[i])'
    BY <1>3 DEF EntriesOK
  <2>1. CASE i = id
    BY <1>2, <1>4, <2>1 DEF EntryOK
  <2>2. CASE i # id
    <3>1. Listed(i) /\ taskDict'[i] = taskDict[i]
      BY <1>4, <2>2 DEF Listed
    <3>2. EntryOK(i, taskDict[i]) /\ taskDict[i].run \in Runs \ {r}
      BY <1>2, <3>1, OtherEntries DEF EntryOK
    <3> QED
      BY <1>4, <3>1, <3>2 DEF EntryOK
  <2> QED
    BY <2>1, <2>2
<1>9. CopyOK'
  BY <1>1, <1>3, <1>4, <1>6 DEF CopyOK, Live
<1>10. OutcomeOK'
  BY <1>1, <1>3, <1>4 DEF OutcomeOK
<1>11. CleanOK'
  BY <1>1, <1>2, <1>3, <1>4 DEF CleanOK
<1> QED
  BY <1>7, <1>8, <1>9, <1>10, <1>11 DEF TaskInv

\* A cleaner deletes what is done, or what it robs.
LEMMA WhatIsCleaned ==
  ASSUME PoolInv, TaskInv, NEW c \in Cleaners, CleanDelete(c), NEW id \in Found(c) \ robbed'
  PROVE  id \in Ids /\ (Listed(id) => taskDict[id].done_flag # 0)
<1>1. TypeOK /\ EntriesOK /\ CleanOK
  BY DEF PoolInv, TaskInv
<1>2. PICK r \in Runs : id \in Ids /\ <<id, r>> \in cleaning[c]
  BY DEF Found
<1>3. id \notin robbed /\ id \notin Late(c)
  BY DEF CleanDelete
<1>4. runPc[r] = "over"
  BY <1>1, <1>2, <1>3 DEF CleanOK
<1>5. ASSUME Listed(id)
      PROVE  taskDict[id].done_flag # 0
  <2>1. CASE taskDict[id].run = r
    BY <1>1, <1>2, <1>3, <1>4, <1>5, <2>1 DEF EntriesOK, EntryOK
  <2>2. CASE taskDict[id].run # r
    BY <1>2, <1>3, <1>5, <2>2 DEF Late
  <2> QED
    BY <2>1, <2>2
<1> QED
  BY <1>2, <1>5

LEMMA TasksAreCleaned ==
  ASSUME PoolInv, TaskInv, NEW c \in Cleaners, CleanDelete(c)
  PROVE  TaskInv'
<1>1. TypeOK /\ ListedOK /\ EntriesOK /\ CopyOK /\ OutcomeOK /\ CleanOK
  BY DEF PoolInv, TaskInv
<1>2. /\ taskDict' = [id \in Ids |-> IF id \in Found(c) THEN None ELSE taskDict[id]]
      /\ cleaning' = [cleaning EXCEPT ![c] = {}] /\ UNCHANGED <<runPc, runId, outcome, copy>>
      /\ robbed \subseteq robbed'
  BY DEF CleanDelete, runVars
<1>3. ASSUME NEW q \in Runs, runPc[q] \notin {"none", "over", "lost"}, runId[q] \notin robbed'
      PROVE  /\ Live(q) /\ runId[q] \in Ids
             /\ taskDict'[runId[q]] = taskDict[runId[q]]
  <2>1. Live(q)
    BY <1>2, <1>3 DEF Live
  <2>2. runId[q] \in Ids /\ Listed(runId[q]) /\ taskDict[runId[q]].done_flag = 0
    BY <2>1, LiveEntry DEF Listed
  <2>3. runId[q] \notin Found(c)
    BY <1>3, <2>2, WhatIsCleaned
  <2> QED
    BY <1>2, <2>1, <2>2, <2>3
<1>4. ListedOK'
  BY <1>1, <1>2, <1>3 DEF ListedOK, Live, Listed
<1>5. EntriesOK'
  BY <1>1, <1>2 DEF EntriesOK, EntryOK, Listed
<1>6. CopyOK' /\ OutcomeOK'
  BY <1>1, <1>2, <1>3 DEF CopyOK, OutcomeOK, Live
<1>7. CleanOK'
  BY <1>1, <1>2 DEF CleanOK, TypeOK
<1> QED
  BY <1>4, <1>5, <1>6, <1>7 DEF TaskInv

\* A SIGINT ends a run, or takes its result.
LEMMA RunIsKilled ==
  ASSUME PoolInv, TaskInv, NEW who \in {"client", "close"}, NEW r \in Runs, Kill(who, r)
  PROVE  TaskInv'
<1>1. TypeOK
  BY DEF PoolInv
<1>2. UNCHANGED <<taskDict, runId, copy, cleanVars>>
  BY DEF Kill
<1>3. CASE UNCHANGED <<runPc, outcome>>
  BY <1>2, <1>3 DEF TaskInv, ListedOK, Live, Listed, EntriesOK, EntryOK, CopyOK, OutcomeOK, CleanOK,
                    cleanVars
<1>4. CASE KillRun(r)
  <2>1. PICK l \in {"finishing", "lost"} :
          /\ GoTo(r, l) /\ runPc[r] \in Alive
          /\ l = "finishing" => outcome'[r] # 0
          /\ \A q \in Runs \ {r} : outcome'[q] = outcome[q]
    <3>1. CASE runPc[r] \in {"report", "running"}
      <4>1. /\ GoTo(r, "finishing")
            /\ outcome' = [outcome EXCEPT ![r] = Interrupted] \/ outcome' = [outcome EXCEPT ![r] = Done]
        BY <1>4, <3>1 DEF KillRun
      <4>2. outcome'[r] # 0 /\ \A q \in Runs \ {r} : outcome'[q] = outcome[q]
        BY <1>1, <4>1 DEF TypeOK, Done, Interrupted
      <4> QED
        BY <3>1, <4>1, <4>2 DEF Alive
    <3>2. CASE runPc[r] = "finishing"
      <4>1. GoTo(r, "lost") /\ outcome' = [outcome EXCEPT ![r] = 0]
        BY <1>4, <3>2 DEF KillRun
      <4> QED
        BY <1>1, <3>2, <4>1 DEF Alive, TypeOK
    <3> QED
      BY <1>4, <3>1, <3>2 DEF KillRun
  <2>2. CASE runId[r] \in robbed
    BY <1>2, <2>1, <2>2, RobbedRunMoves DEF Alive, Locations
  <2>3. CASE runId[r] \notin robbed
    <3>1. Live(r)
      BY <2>1, <2>3 DEF Live, Alive
    <3> QED
      BY <1>2, <2>1, <3>1, RunGoesOn DEF Waiting, Locations
  <2> QED
    BY <2>2, <2>3
<1> QED
  BY <1>3, <1>4 DEF Kill

\* A step that touches neither the runs nor the task dict.
LEMMA DictStays ==
  ASSUME TaskInv, UNCHANGED <<taskDict, runVars, cleanVars>>
  PROVE  TaskInv'
BY DEF TaskInv, ListedOK, Live, Listed, EntriesOK, EntryOK, CopyOK, OutcomeOK, CleanOK, runVars,
       cleanVars

\* A job goes on.
LEMMA JobsGoOn ==
  ASSUME PoolInv, TaskInv, Dispatch \/ TakeJob
  PROVE  TaskInv'
<1>1. TypeOK /\ JobsOK /\ PoolOK
  BY DEF PoolInv
<1>2. PICK r \in Runs, l \in {"pooled", "begin"} :
        /\ GoTo(r, l) /\ runPc[r] \in {"queued", "pooled"}
        /\ UNCHANGED <<taskDict, runId, outcome, copy, cleanVars>>
  <2>1. CASE Dispatch
    <3>1. Head(jobs) = jobs[1] /\ 1 \in 1 .. Len(jobs) /\ jobs[1] \in Runs
      BY <1>1, <2>1, QueueHead DEF Dispatch, TypeOK
    <3>2. runPc[Head(jobs)] = "queued"
      BY <1>1, <2>1, <3>1 DEF JobsOK, Dispatch
    <3> QED
      BY <2>1, <3>1, <3>2 DEF Dispatch
  <2>2. CASE TakeJob
    <3>1. Head(pool) = pool[1] /\ 1 \in 1 .. Len(pool) /\ pool[1] \in Runs
      BY <1>1, <2>2, QueueHead DEF TakeJob, TypeOK
    <3>2. runPc[Head(pool)] = "pooled"
      BY <1>1, <3>1 DEF PoolOK
    <3> QED
      BY <2>2, <3>1, <3>2 DEF TakeJob
  <2> QED
    BY <2>1, <2>2
<1>3. CASE runId[r] \in robbed
  BY <1>2, <1>3, RobbedRunMoves DEF Locations
<1>4. CASE runId[r] \notin robbed
  <2>1. Live(r)
    BY <1>2, <1>4 DEF Live
  <2>2. taskDict[runId[r]].process = 0
    BY <1>2, <2>1, LiveEntry DEF EntryOK
  <2> QED
    BY <1>2, <2>1, <2>2, RunGoesOn DEF Locations
<1> QED
  BY <1>3, <1>4

\* TaskInv is inductive relative to PoolInv.
LEMMA TaskStep ==
  ASSUME PoolInv, TaskInv, [Next]_vars
  PROVE  TaskInv'
<1>1. CASE Quiet \/ UNCHANGED vars
  BY <1>1, DictStays DEF Quiet, vars
<1>2. ASSUME NEW id \in Ids, CreateTask(id) \/ EndTask(id)
      PROVE  TaskInv'
  BY <1>2, TaskIsCreated, DictStays DEF EndTask
<1>3. ASSUME NEW c \in Cleaners, CleanSnapshot(c)
      PROVE  TaskInv'
  <2>1. UNCHANGED <<taskDict, runPc, runId, outcome, copy, robbed>>
    BY <1>3 DEF CleanSnapshot, SnapshotOf, runVars
  <2>2. CleanOK'
    <3>1. PICK S \in SUBSET {id \in Ids : Listed(id) /\ taskDict[id].done_flag # 0} :
            cleaning' = [cleaning EXCEPT ![c] = {<<id, taskDict[id].run>> : id \in S}]
      BY <1>3 DEF CleanSnapshot, SnapshotOf
    <3>2. \A id \in S \ robbed : runPc[taskDict[id].run] = "over" /\ runId[taskDict[id].run] = id
      BY DEF TaskInv, EntriesOK, EntryOK
    <3> QED
      BY <2>1, <3>1, <3>2 DEF PoolInv, TypeOK, TaskInv, CleanOK
  <2> QED
    BY <2>1, <2>2 DEF TaskInv, ListedOK, Live, Listed, EntriesOK, EntryOK, CopyOK, OutcomeOK
<1>4. ASSUME NEW r \in Runs, RunStep(r)
      PROVE  TaskInv'
  BY <1>4, RunStepsKeepDict, RunStores, RobbedRunStores DEF RunStep
<1>5. CASE \/ AwaitJob \/ DispatchEnd \/ DispatcherExit
           \/ Close \/ CloseRound \/ Closed \/ \E id \in Ids : CloseEnd(id)
  BY <1>5, DictStays DEF AwaitJob, DispatchEnd, DispatcherExit, Close, CloseEnd, CloseRound, Closed
<1> QED
  BY <1>1, <1>2, <1>3, <1>4, <1>5, TasksAreCleaned, RunIsKilled, JobsGoOn
     DEF Next, DispatcherStep, CloserStep

(***************************************************************************)
(* The life of a task, as a client sees it                                 *)
(***************************************************************************)

\* The phase of a task by its entry.
LEMMA PhaseOf ==
  ASSUME NEW id
  PROVE  /\ id \in robbed => Phase(id) = "robbed"
         /\ id \notin robbed =>
              /\ ~ Listed(id) => Phase(id) = "absent"
              /\ Listed(id) /\ taskDict[id].done_flag # 0 => Phase(id) = "done"
              /\ Listed(id) /\ taskDict[id].done_flag = 0 =>
                   /\ taskDict[id].process # 0 => Phase(id) = "running"
                   /\ taskDict[id].process = 0 => Phase(id) = "queued"
BY DEF Phase

\* Initially no task is there, and every step is one of TaskLifecycle or changes nothing
\* that a client sees.
LEMMA LifeInitial ==
  Init => Life!LifeInit
<1>1. ASSUME Init, NEW id \in Ids
      PROVE  Phase(id) = "absent"
  BY <1>1, PhaseOf DEF Init, Listed
<1> QED
  BY <1>1 DEF Life!LifeInit

LEMMA LifeStep ==
  ASSUME PoolInv, TaskInv, [Next]_vars
  PROVE  [Life!LifeNext]_([id \in Ids |-> Phase(id)])
<1> DEFINE phase == [id \in Ids |-> Phase(id)]
<1>1. TypeOK /\ RunsOK /\ OutcomeOK
  BY DEF PoolInv, TaskInv
<1>2. ASSUME UNCHANGED robbed, \A id \in Ids \ robbed : taskDict'[id] = taskDict[id]
      PROVE  phase' = phase
  <2>1. ASSUME NEW id \in Ids
        PROVE  Phase(id)' = Phase(id)
    BY <1>2, <2>1 DEF Phase, Listed
  <2> QED
    BY <2>1
<1>3. ASSUME NEW id \in Ids, CreateTask(id)
      PROVE  Life!LifeNext \/ phase' = phase
  <2> UNCHANGED robbed
    BY <1>3 DEF CreateTask, cleanVars
  <2>2. taskDict' = [taskDict EXCEPT ![id] = [run |-> created + 1, process |-> 0, done_flag |-> 0]]
    BY <1>3 DEF CreateTask
  <2>7. CASE id \in robbed
    BY <1>1, <1>2, <2>2, <2>7 DEF TypeOK
  <2> SUFFICES ASSUME id \notin robbed
               PROVE  Life!LifeNext
    BY <2>7
  <2>1. Phase(id) = "absent"
    BY <1>3, PhaseOf DEF CreateTask
  <2>3. taskDict'[id] = [run |-> created + 1, process |-> 0, done_flag |-> 0] /\ taskDict'[id] # None
    <3>1. created + 1 \in Runs
      BY <1>1, <1>3, AutoManageAssumption DEF CreateTask, TypeOK, Runs
    <3>2. [run |-> created + 1, process |-> 0, done_flag |-> 0] \in Infos
      BY <3>1 DEF Infos
    <3> QED
      BY <1>1, <2>2, <3>2, AutoManageAssumption DEF TypeOK
  <2>4. Phase(id)' = "queued"
    BY <2>3 DEF Phase, Listed
  <2>5. \A i \in Ids \ {id} : Phase(i)' = Phase(i)
    BY <1>1, <2>2 DEF Phase, Listed, TypeOK
  <2>6. Life!Step(id, "absent", "queued")
    BY <2>1, <2>4, <2>5 DEF Life!Step
  <2> QED
    BY <2>6 DEF Life!LifeNext
<1>4. ASSUME NEW r \in Runs, Register(r) \/ CallbackWrite(r)
      PROVE  Life!LifeNext \/ phase' = phase
  <2> UNCHANGED robbed
    BY <1>4 DEF Register, CallbackWrite, cleanVars
  <2>9. CASE runId[r] \in robbed
    BY <1>2, <1>4, <2>9, RobbedRunStores
  <2> SUFFICES ASSUME runId[r] \notin robbed
               PROVE  Life!LifeNext
    BY <2>9
  <2>1. PICK id \in Ids \ robbed :
           /\ Listed(id) /\ taskDict[id] \in Infos /\ taskDict[id].done_flag = 0
           /\ Register(r) => /\ taskDict[id].process = 0
                             /\ taskDict' = [taskDict EXCEPT ![id].process = r]
           /\ CallbackWrite(r) => taskDict' = [taskDict EXCEPT ![id].done_flag = outcome[r]]
    BY <1>1, <1>4, RunStores DEF TypeOK, Listed
  <2>2. Phase(id) \in {"queued", "running"} /\ (Register(r) => Phase(id) = "queued")
    BY <2>1, PhaseOf
  <2>3. PICK new \in Infos : /\ taskDict' = [taskDict EXCEPT ![id] = new]
                             /\ Register(r) => new.process # 0 /\ new.done_flag = 0
                             /\ CallbackWrite(r) => new.done_flag # 0
    <3>1. CASE Register(r)
      <4> DEFINE new == [taskDict[id] EXCEPT !.process = r]
      <4>1. new \in Infos /\ new.process # 0 /\ new.done_flag = 0
        BY <2>1 DEF Infos, Runs
      <4>2. taskDict' = [taskDict EXCEPT ![id] = new] /\ ~ CallbackWrite(r)
        BY <2>1, <3>1 DEF Register, CallbackWrite
      <4> QED
        BY <4>1, <4>2
    <3>2. CASE CallbackWrite(r)
      <4> DEFINE new == [taskDict[id] EXCEPT !.done_flag = outcome[r]]
      <4>1. outcome[r] \in {0, Done, Interrupted} /\ outcome[r] # 0
        BY <1>1, <3>2 DEF TypeOK, OutcomeOK, CallbackWrite
      <4>2. new \in Infos /\ new.done_flag # 0
        BY <2>1, <4>1 DEF Infos
      <4>3. taskDict' = [taskDict EXCEPT ![id] = new] /\ ~ Register(r)
        BY <2>1, <3>2 DEF Register, CallbackWrite
      <4> QED
        BY <4>2, <4>3
    <3> QED
      BY <1>4, <3>1, <3>2
  <2>4. taskDict'[id] = new /\ new # None /\ \A i \in Ids \ {id} : taskDict'[i] = taskDict[i]
    BY <1>1, <2>1, <2>3, AutoManageAssumption DEF TypeOK
  <2>5. /\ Register(r) => Phase(id)' = "running"
        /\ CallbackWrite(r) => Phase(id)' = "done"
    BY <2>3, <2>4 DEF Phase, Listed
  <2>6. \A i \in Ids \ {id} : Phase(i)' = Phase(i)
    BY <2>4 DEF Phase, Listed
  <2>7. CASE Register(r)
    <3>1. Life!Step(id, "queued", "running")
      BY <2>2, <2>5, <2>6, <2>7 DEF Life!Step
    <3> QED
      BY <3>1 DEF Life!LifeNext
  <2>8. CASE CallbackWrite(r)
    <3>1. Life!Step(id, "queued", "done") \/ Life!Step(id, "running", "done")
      BY <2>2, <2>5, <2>6, <2>8 DEF Life!Step
    <3> QED
      BY <3>1 DEF Life!LifeNext
  <2> QED
    BY <1>4, <2>7, <2>8
<1>5. ASSUME NEW c \in Cleaners, CleanDelete(c)
      PROVE  Life!LifeNext
  <2>1. /\ taskDict' = [id \in Ids |-> IF id \in Found(c) THEN None ELSE taskDict[id]]
        /\ robbed' = robbed \union Late(c)
    BY <1>5 DEF CleanDelete
  <2> DEFINE removed == {id \in Ids \ robbed' : id \in Found(c) /\ Listed(id)}
             taken == Late(c) \ robbed
  <2>2. removed \in SUBSET {id \in Ids : phase[id] = "done"}
    <3>1. ASSUME NEW id \in removed
          PROVE  Phase(id) = "done"
      BY <1>5, <2>1, <3>1, WhatIsCleaned, PhaseOf
    <3> QED
      BY <3>1
  <2>3. taken \in SUBSET {id \in Ids : phase[id] \in {"queued", "running"}}
    <3>1. ASSUME NEW id \in taken
          PROVE  id \in Ids /\ Phase(id) \in {"queued", "running"}
      BY <3>1, PhaseOf DEF Late
    <3> QED
      BY <3>1
  <2>4. ASSUME NEW id \in Ids
        PROVE  Phase(id)' = CASE id \in removed -> "absent"
                              [] id \in taken -> "robbed"
                              [] OTHER -> Phase(id)
    <3>1. CASE id \in robbed'
      <4>1. Phase(id)' = "robbed" /\ id \notin removed
        BY <3>1 DEF Phase
      <4>2. id \in robbed \ taken => Phase(id) = "robbed"
        BY PhaseOf
      <4> QED
        BY <2>1, <3>1, <4>1, <4>2
    <3>2. CASE id \notin robbed'
      <4>1. id \notin taken /\ id \notin robbed
        BY <2>1, <3>2
      <4>2. CASE id \in Found(c)
        <5>1. Phase(id)' = "absent"
          BY <2>1, <3>2, <4>2 DEF Phase, Listed
        <5>2. id \notin removed => Phase(id) = "absent"
          BY <3>2, <4>1, <4>2, PhaseOf
        <5> QED
          BY <4>1, <5>1, <5>2
      <4>3. CASE id \notin Found(c)
        <5>1. taskDict'[id] = taskDict[id]
          BY <2>1, <4>3
        <5>2. Phase(id)' = Phase(id)
          BY <3>2, <4>1, <5>1 DEF Phase, Listed
        <5> QED
          BY <4>1, <4>3, <5>2
      <4> QED
        BY <4>2, <4>3
    <3> QED
      BY <3>1, <3>2
  <2>5. phase' = [id \in Ids |-> CASE id \in removed -> "absent"
                                [] id \in taken -> "robbed"
                                [] OTHER -> phase[id]]
    <3>1. phase' = [id \in Ids |-> Phase(id)'] /\ \A id \in Ids : phase[id] = Phase(id)
      OBVIOUS
    <3> HIDE DEF phase, removed, taken
    <3> QED
      BY <2>4, <3>1
  <2>6. Life!Clean
    BY <2>2, <2>3, <2>5 DEF Life!Clean
  <2> QED
    BY <2>6 DEF Life!LifeNext
<1>6. ASSUME NEW r \in Runs, RunStep(r), ~ Register(r), ~ CallbackWrite(r)
      PROVE  UNCHANGED <<taskDict, robbed>>
  BY <1>6 DEF RunStep, PutJob, SkipRun, BeforeRun, StartRun, EndRun, SendResult, CallbackRead, cleanVars
<1>7. ASSUME DispatcherStep \/ TakeJob \/ Close \/ CloserStep \/ Quiet \/ UNCHANGED vars
      PROVE  UNCHANGED <<taskDict, robbed>>
  BY <1>7 DEF DispatcherStep, AwaitJob, Dispatch, DispatchEnd, DispatcherExit, TakeJob, Close, CloserStep,
              CloseEnd, Kill, CloseRound, Closed, Quiet, vars, cleanVars
<1>8. ASSUME \/ \E id \in Ids : EndTask(id)
             \/ \E who \in {"client", "close"}, r \in Runs : Kill(who, r)
             \/ \E c \in Cleaners : CleanSnapshot(c)
      PROVE  UNCHANGED <<taskDict, robbed>>
  BY <1>8 DEF EndTask, Kill, CleanSnapshot, SnapshotOf, cleanVars
<1>9. Life!LifeNext \/ phase' = phase
  BY <1>2, <1>3, <1>4, <1>5, <1>6, <1>7, <1>8 DEF Next
<1> QED
  BY <1>9

(***************************************************************************)
(* The theorems                                                            *)
(***************************************************************************)

\* PoolInv is inductive.
THEOREM PoolInvariance == Spec => []PoolInv
<1>1. Init => PoolInv
  <2> SUFFICES ASSUME Init
               PROVE  PoolInv
    OBVIOUS
  <2>1. TypeOK
    <3>1. endFlag \in BOOLEAN
      BY DEF Init
    <3>2. 0 \in 0 .. MaxRuns
      BY AutoManageAssumption
    <3>3. /\ jobs \in Seq(Runs \union {Break}) /\ pool \in Seq(Runs)
          /\ killing \subseteq {"client", "close"} \X Runs
      BY DEF Init
    <3> QED
      BY <3>1, <3>2, <3>3 DEF Init, TypeOK, Locations
  <2>2. RunsOK /\ JobsOK /\ PoolOK /\ ClosingOK
    BY AutoManageAssumption DEF Init, RunsOK, JobsOK, PoolOK, ClosingOK, Runs
  <2> QED
    BY <2>1, <2>2 DEF PoolInv
<1> QED
  BY <1>1, PoolStep, PTL DEF Spec

\* When close() has returned no task is executed and every result is recorded
\* (AutoManage.close, _backend_job).
THEOREM ClosedIsOver == Spec => []ClosedMeansOver
<1>1. PoolInv => ClosedMeansOver
  BY DEF PoolInv, ClosingOK, ClosedMeansOver
<1> QED
  BY <1>1, PoolInvariance, PTL

\* TaskInv is inductive as well.
THEOREM TaskInvariance == Spec => []TaskInv
<1>1. Init => TaskInv
  BY AutoManageAssumption DEF Init, TaskInv, ListedOK, Live, Listed, EntriesOK, CopyOK, OutcomeOK, CleanOK
<1>2. PoolInv /\ TaskInv /\ [Next]_vars => TaskInv'
  BY TaskStep
<1> QED
  BY <1>1, <1>2, PoolInvariance, PTL DEF Spec

\* A task that is not over is listed, under the process that executes it, unless a
\* cleaner that had found an earlier run of it took its entry
\* (create_task, __before_run, _create_task_cb, clean_task_dict).
THEOREM LiveIsListed == Spec => []LiveTaskIsListed
<1>1. ASSUME PoolInv, TaskInv
      PROVE  LiveTaskIsListed
  <2>1. ASSUME NEW r \in Runs, runPc[r] \notin {"none", "over", "lost"}, runId[r] \notin robbed
        PROVE  Listed(runId[r]) /\ taskDict[runId[r]].run = r
    BY <1>1, <2>1 DEF TaskInv, ListedOK, Live
  <2>2. ASSUME NEW r \in Runs, runPc[r] = "running", runId[r] \notin robbed
        PROVE  taskDict[runId[r]].process = r
    <3>1. Live(r)
      BY <2>2 DEF Live
    <3> QED
      BY <1>1, <2>2, <3>1, LiveEntry DEF EntryOK
  <2> QED
    BY <1>1, <2>1, <2>2 DEF LiveTaskIsListed, PoolInv
<1>2. PoolInv /\ TaskInv => LiveTaskIsListed
  BY <1>1
<1> QED
  BY <1>2, PoolInvariance, TaskInvariance, PTL

\* No task is executed by two processes of the pool at once, unless a late deletion
\* took its live entry.
THEOREM OneRunAtATime == Spec => []NoConcurrentRuns
<1>1. TaskInv => NoConcurrentRuns
  <2> SUFFICES ASSUME TaskInv, NEW q \in Runs, NEW r \in Runs, Executing(q), Executing(r),
                      runId[q] = runId[r], runId[q] \notin robbed
               PROVE  q = r
    BY DEF NoConcurrentRuns
  <2>1. Live(q) /\ Live(r)
    BY DEF Executing, Live
  <2> QED
    BY <2>1 DEF TaskInv, ListedOK
<1> QED
  BY <1>1, TaskInvariance, PTL

\* What a client sees of a task goes through queued, running and done, and only a
\* finished task disappears, or one that a late deletion takes.
THEOREM LifecycleIsImplemented == Spec => ImplementsLifecycle
<1>1. PoolInv /\ TaskInv /\ [Next]_vars => [Life!LifeNext]_([id \in Ids |-> Phase(id)])
  BY LifeStep
<1> QED
  BY <1>1, LifeInitial, PoolInvariance, TaskInvariance, PTL
     DEF Spec, ImplementsLifecycle, Life!LifeSpec
=============================================================================
