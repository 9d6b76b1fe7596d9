----------------------------- MODULE AutoManage -----------------------------
(***************************************************************************)
(* The task service, smart/aaas/auto_manage.py: REST threads register      *)
(* tasks, ask for their end and clean the list of finished ones; one       *)
(* dispatcher process passes jobs to a pool whose processes run one job    *)
(* each; a thread of the dispatcher records results; close() ends it all.  *)
(*                                                                         *)
(* The task dict of a namespace lives in a manager process.  Every access  *)
(* to it is one call: a handler that reads an entry, changes its copy and  *)
(* stores it does so in two steps, and only some handlers hold a lock.     *)
(*                                                                         *)
(* A run is one job of _create_task: the r-th registration of any task.    *)
(***************************************************************************)
EXTENDS Naturals, Sequences, FiniteSets

CONSTANTS
  Ids,        \* task ids of one namespace
  Cleaners,   \* threads that call clean_task_dict (REST requests, the cron)
  PoolSize,   \* AUTO_WORKER_NUM
  MaxRuns,    \* bound: how many tasks are registered in all
  None        \* no entry in the task dict

Runs == 1 .. MaxRuns

VARIABLES
  taskDict,    \* taskDict[id]: its task_info, or None
  created,     \* how many runs were registered
  runId,       \* runId[r]: the task that run r runs
  runPc,       \* runPc[r]: where run r is
  outcome,     \* outcome[r]: the done_flag call_auto_run answers with, until it is used
  copy,        \* copy[r]: the local task_info of __before_run, _create_task_cb
  infoLock,    \* the run that holds the lock 'task_info', 0 for none
  jobs,        \* the queue of jobs
  pool,        \* the task queue of the pool
  dispatcher,  \* where the dispatcher process is
  killing,     \* <<who, r>>: who has read the pid of run r and will kill it
  cleaning,    \* cleaning[c]: the ids cleaner c will delete, with the run it found done
  robbed,      \* history: the ids of which a late deletion took a live entry
  endFlag,     \* store.value('end_flag')
  closer,      \* where close() is
  toEnd        \* the ids a round of close() has still to end

runVars == <<runId, runPc, outcome, copy, infoLock>>
closeVars == <<endFlag, closer, toEnd>>
cleanVars == <<cleaning, robbed>>
vars == <<taskDict, created, runVars, jobs, pool, dispatcher, killing,
          cleanVars, closeVars>>

\* AutoTaskDoneFlag; 0 for a task_info without done_flag.  Nothing sets `end_flag'.
Done == 1
Interrupted == 3

\* ('break', None), which close() puts.
Break == 0

Locations ==
  {"none",
   "created",    \* in the task dict, the job not yet put
   "queued",     \* in jobs
   "pooled",     \* in the task queue of the pool
   "begin",      \* a pool process has it, before the end_flag test
   "register",   \* in __before_run, lock held, task_info read
   "report",     \* after __before_run's lock: delay and report_state
   "running",    \* in auto_run
   "finishing",  \* call_auto_run returns, the pool process sends the result
   "result",     \* the result is on its way to the dispatcher
   "callback",   \* in _create_task_cb, task_info read
   "over",
   "lost"}       \* its process died without a result

\* run stands for create_time, process for process.pid: a pool process runs one
\* job (maxtasksperchild is 1), so its pid is named after the run.
Infos == [run : Runs, process : Runs \cup {0}, done_flag : {0, Done, Interrupted}]

ASSUME AutoManageAssumption ==
  /\ PoolSize \in Nat \ {0}
  /\ MaxRuns \in Nat
  /\ None \notin Infos

TypeOK ==
  /\ taskDict \in [Ids -> Infos \cup {None}]
  /\ created \in 0 .. MaxRuns
  /\ runId \in [Runs -> Ids \cup {None}]
  /\ runPc \in [Runs -> Locations]
  /\ outcome \in [Runs -> {0, Done, Interrupted}]
  /\ copy \in [Runs -> Infos \cup {None}]
  /\ infoLock \in Runs \cup {0}
  /\ jobs \in Seq(Runs \cup {Break})
  /\ pool \in Seq(Runs)
  /\ dispatcher \in {"loop", "get", "joining", "exited"}
  /\ killing \subseteq {"client", "close"} \X Runs
  /\ cleaning \in [Cleaners -> SUBSET (Ids \X Runs)]
  /\ robbed \subseteq Ids
  /\ endFlag \in BOOLEAN
  /\ closer \in {"open", "round1", "round2", "join", "closed", "failed"}
  /\ toEnd \subseteq Ids

Init ==
  /\ taskDict = [id \in Ids |-> None]
  /\ created = 0
  /\ runId = [r \in Runs |-> None]
  /\ runPc = [r \in Runs |-> "none"]
  /\ outcome = [r \in Runs |-> 0]
  /\ copy = [r \in Runs |-> None]
  /\ infoLock = 0
  /\ jobs = <<>>
  /\ pool = <<>>
  /\ dispatcher = "loop"
  /\ killing = {}
  /\ cleaning = [c \in Cleaners |-> {}]
  /\ robbed = {}
  /\ endFlag = FALSE
  /\ closer = "open"
  /\ toEnd = {}

Listed(id) == taskDict[id] # None
GoTo(r, l) == runPc' = [runPc EXCEPT ![r] = l]
Store(r, info) == taskDict' = [taskDict EXCEPT ![runId[r]] = info]

(***************************************************************************)
(* REST threads                                                            *)
(***************************************************************************)

\* Mutants of CreateTask: a listed task is replaced; a done one is.
RegisterRun(id, r) ==
  /\ created < MaxRuns
  /\ created' = r
  /\ taskDict' = [taskDict EXCEPT ![id] =
       [run |-> r, process |-> 0, done_flag |-> 0]]
  /\ runId' = [runId EXCEPT ![r] = id]
  /\ GoTo(r, "created")
  /\ UNCHANGED <<outcome, copy, infoLock, jobs, pool, dispatcher, killing,
                 cleanVars, closeVars>>

CreateTaskAgain(id) == RegisterRun(id, created + 1)
CreateTaskOverDone(id) ==
  (Listed(id) => taskDict[id].done_flag # 0) /\ RegisterRun(id, created + 1)

\* create_task, up to the end of its critical section; a task that is listed
\* already is returned as it is.
CreateTask(id) ==
  LET r == created + 1
  IN /\ created < MaxRuns
     /\ ~ Listed(id)
     /\ created' = r
     /\ taskDict' = [taskDict EXCEPT ![id] =
          [run |-> r, process |-> 0, done_flag |-> 0]]
     /\ runId' = [runId EXCEPT ![r] = id]
     /\ GoTo(r, "created")
     /\ UNCHANGED <<outcome, copy, infoLock, jobs, pool, dispatcher, killing, cleanVars, closeVars>>

\* Its last step, outside the lock.
PutJob(r) ==
  /\ runPc[r] = "created"
  /\ jobs' = Append(jobs, r)
  /\ GoTo(r, "queued")
  /\ UNCHANGED <<taskDict, created, runId, outcome, copy, infoLock, pool,
                 dispatcher, killing, cleanVars, closeVars>>

\* end_task reads the task_info.  When the task is done nothing is to do; when
\* it has a process, its pid is to be killed; when it has none, the call of
\* self.auto_manage.flag_end_if_no_start raises, AutoManage having no such
\* attribute: end_flag is not set, nor anything else.
EndsAt(info) == {info.process} \ {0}
Raises(info) == info.process = 0

EndTask(id) ==
  /\ Listed(id)
  /\ taskDict[id].done_flag = 0
  /\ killing' = killing \cup {<<"client", r>> : r \in EndsAt(taskDict[id])}
  /\ UNCHANGED <<taskDict, created, runVars, jobs, pool, dispatcher, cleanVars,
                 closeVars>>

\* os.kill(pid, SIGINT), to a process that may have ended since its pid was
\* read.  In __before_run or report_state, KeyboardInterrupt makes the outcome
\* `interrupt'; auto_run swallows it and returns; later nothing catches it and
\* the process dies before its result is sent.  When the process is gone, and
\* waited for, os.kill raises, which ends close().
Alive == {"report", "running", "finishing"}

KillRun(r) ==
  \/ /\ runPc[r] = "report"
     /\ outcome' = [outcome EXCEPT ![r] = Interrupted]
     /\ GoTo(r, "finishing")
  \/ /\ runPc[r] = "running"
     /\ outcome' = [outcome EXCEPT ![r] = Done]
     /\ GoTo(r, "finishing")
  \/ /\ runPc[r] = "finishing"
     /\ outcome' = [outcome EXCEPT ![r] = 0]
     /\ GoTo(r, "lost")

Kill(who, r) ==
  /\ <<who, r>> \in killing
  /\ killing' = killing \ {<<who, r>>}
  /\ \/ KillRun(r) /\ UNCHANGED closer
     \/ /\ runPc[r] \notin Alive
        /\ closer' \in {closer} \cup (IF who = "close" THEN {"failed"} ELSE {})
        /\ UNCHANGED <<runPc, outcome>>
  /\ UNCHANGED <<taskDict, created, runId, copy, infoLock, jobs, pool,
                 dispatcher, cleanVars, endFlag, toEnd>>

\* clean_task_dict looks for tasks that are done, some of which are past their
\* time to live, without a lock ...
SnapshotOf(c, found) ==
  /\ cleaning[c] = {}
  /\ \E S \in SUBSET found :
       /\ S # {}
       /\ cleaning' = [cleaning EXCEPT ![c] = {<<id, taskDict[id].run>> : id \in S}]
  /\ UNCHANGED <<taskDict, created, runVars, jobs, pool, dispatcher, killing, robbed, closeVars>>

\* Mutant of CleanSnapshot: done_flag is not looked at.
CleanSnapshotAll(c) == SnapshotOf(c, {id \in Ids : Listed(id)})

CleanSnapshot(c) ==
  SnapshotOf(c, {id \in Ids : Listed(id) /\ taskDict[id].done_flag # 0})

Found(c) == {id \in Ids : \E r \in Runs : <<id, r>> \in cleaning[c]}

\* The tasks that are live again since c found them done: another cleaner has
\* deleted their entry, and create_task has registered a new run.
Late(c) ==
  {id \in Ids : /\ Listed(id)
               /\ taskDict[id].done_flag = 0
               /\ \E r \in Runs \ {taskDict[id].run} : <<id, r>> \in cleaning[c]}

\* ... and deletes what it found, in the critical section of create_task, without
\* looking again; an id that is gone is skipped.
CleanDelete(c) ==
  /\ cleaning[c] # {}
  /\ taskDict' = [id \in Ids |-> IF id \in Found(c) THEN None ELSE taskDict[id]]
  /\ robbed' = robbed \cup Late(c)
  /\ cleaning' = [cleaning EXCEPT ![c] = {}]
  /\ UNCHANGED <<created, runVars, jobs, pool, dispatcher, killing, closeVars>>

(***************************************************************************)
(* The dispatcher process and its pool                                     *)
(***************************************************************************)

\* _backend_job tests end_flag and calls jobs.get(timeout=3), which may time out.
AwaitJob ==
  /\ \/ dispatcher = "loop" /\ ~ endFlag /\ dispatcher' = "get"
     \/ dispatcher = "get" /\ jobs = <<>> /\ dispatcher' = "loop"
  /\ UNCHANGED <<taskDict, created, runVars, jobs, pool, killing, cleanVars,
                 closeVars>>

\* It gets a job, and _create_task hands it to the pool.
Dispatch ==
  /\ dispatcher = "get"
  /\ jobs # <<>>
  /\ Head(jobs) # Break
  /\ dispatcher' = "loop"
  /\ jobs' = Tail(jobs)
  /\ pool' = Append(pool, Head(jobs))
  /\ GoTo(Head(jobs), "pooled")
  /\ UNCHANGED <<taskDict, created, runId, outcome, copy, infoLock, killing,
                 cleanVars, closeVars>>

\* end_flag is seen, or `break' is taken: the pool is closed and joined.
DispatchEnd ==
  /\ \/ dispatcher = "loop" /\ endFlag /\ UNCHANGED jobs
     \/ /\ dispatcher = "get"
        /\ jobs # <<>>
        /\ Head(jobs) = Break
        /\ jobs' = Tail(jobs)
  /\ dispatcher' = "joining"
  /\ UNCHANGED <<taskDict, created, runVars, pool, killing, cleanVars,
                 closeVars>>

InPool == {"pooled", "begin", "register", "report", "running", "finishing",
           "result", "callback", "lost"}

\* Mutant of DispatcherExit: terminate for join.
DispatcherQuits ==
  /\ dispatcher = "joining"
  /\ dispatcher' = "exited"
  /\ UNCHANGED <<taskDict, created, runVars, jobs, pool, killing, cleanVars,
                 closeVars>>

\* mp_pool.join returns when the pool's cache is empty: every job has a result.
DispatcherExit ==
  /\ dispatcher = "joining"
  /\ \A r \in Runs : runPc[r] \notin InPool
  /\ dispatcher' = "exited"
  /\ UNCHANGED <<taskDict, created, runVars, jobs, pool, killing, cleanVars, closeVars>>

\* The runs that occupy a process of the pool.
Busy == {r \in Runs : runPc[r] \in
           {"begin", "register", "report", "running", "finishing"}}

\* A process of the pool takes the next job.
TakeJob ==
  /\ pool # <<>>
  /\ Cardinality(Busy) < PoolSize
  /\ pool' = Tail(pool)
  /\ GoTo(Head(pool), "begin")
  /\ UNCHANGED <<taskDict, created, runId, outcome, copy, infoLock, jobs,
                 dispatcher, killing, cleanVars, closeVars>>

(***************************************************************************)
(* call_auto_run, in a process of the pool                                 *)
(***************************************************************************)

\* The service is closing: the task is not run and not registered.
SkipRun(r) ==
  /\ runPc[r] = "begin"
  /\ endFlag
  /\ outcome' = [outcome EXCEPT ![r] = Interrupted]
  /\ GoTo(r, "finishing")
  /\ UNCHANGED <<taskDict, created, runId, copy, infoLock, jobs, pool,
                 dispatcher, killing, cleanVars, closeVars>>

\* __before_run reads the task_info under its lock.  If it is gone, or has a
\* process already ("duplicate call_auto_run"), __before_run returns, but what
\* it returns does not keep the task from being run.
BeforeRun(r) ==
  LET info == taskDict[runId[r]]
      registers == info # None /\ info.process = 0
  IN /\ runPc[r] = "begin"
     /\ ~ endFlag
     /\ infoLock = 0
     /\ copy' = [copy EXCEPT ![r] = IF registers THEN info ELSE None]
     /\ infoLock' = IF registers THEN r ELSE 0
     /\ GoTo(r, IF registers THEN "register" ELSE "report")
     /\ UNCHANGED <<taskDict, created, runId, outcome, jobs, pool, dispatcher,
                    killing, cleanVars, closeVars>>

\* Mutant of Register: the lock is not released.
RegisterLocked(r) ==
  /\ runPc[r] = "register"
  /\ Store(r, [copy[r] EXCEPT !.process = r])
  /\ copy' = [copy EXCEPT ![r] = None]
  /\ GoTo(r, "report")
  /\ UNCHANGED <<created, runId, outcome, infoLock, jobs, pool, dispatcher,
                 killing, cleanVars, closeVars>>

\* It stores its copy with the pid.
Register(r) ==
  /\ runPc[r] = "register"
  /\ Store(r, [copy[r] EXCEPT !.process = r])
  /\ copy' = [copy EXCEPT ![r] = None]
  /\ infoLock' = 0
  /\ GoTo(r, "report")
  /\ UNCHANGED <<created, runId, outcome, jobs, pool, dispatcher, killing, cleanVars, closeVars>>

\* The delay is over and report_state has reported 'start'.
StartRun(r) ==
  /\ runPc[r] = "report"
  /\ GoTo(r, "running")
  /\ UNCHANGED <<taskDict, created, runId, outcome, copy, infoLock, jobs, pool,
                 dispatcher, killing, cleanVars, closeVars>>

\* report_state raises, or auto_run ends in whatever way: done_flag is not set
\* in the answer, and the callback will take its default, done.
EndRun(r) ==
  /\ runPc[r] \in {"report", "running"}
  /\ outcome' = [outcome EXCEPT ![r] = Done]
  /\ GoTo(r, "finishing")
  /\ UNCHANGED <<taskDict, created, runId, copy, infoLock, jobs, pool,
                 dispatcher, killing, cleanVars, closeVars>>

\* The process of the pool sends the result and ends.
SendResult(r) ==
  /\ runPc[r] = "finishing"
  /\ GoTo(r, "result")
  /\ UNCHANGED <<taskDict, created, runId, outcome, copy, infoLock, jobs, pool,
                 dispatcher, killing, cleanVars, closeVars>>

\* _create_task_cb, in the one result thread of the pool: it reads ...
CallbackRead(r) ==
  LET info == taskDict[runId[r]]
  IN /\ runPc[r] = "result"
     /\ \A q \in Runs : runPc[q] # "callback"
     /\ copy' = [copy EXCEPT ![r] = info]
     /\ GoTo(r, IF info = None THEN "over" ELSE "callback")
     /\ UNCHANGED <<taskDict, created, runId, outcome, infoLock, jobs, pool,
                    dispatcher, killing, cleanVars, closeVars>>

\* ... and stores its copy with done_flag; no lock is held.
CallbackWrite(r) ==
  /\ runPc[r] = "callback"
  /\ Store(r, [copy[r] EXCEPT !.done_flag = outcome[r]])
  /\ copy' = [copy EXCEPT ![r] = None]
  /\ outcome' = [outcome EXCEPT ![r] = 0]
  /\ GoTo(r, "over")
  /\ UNCHANGED <<created, runId, infoLock, jobs, pool, dispatcher, killing, cleanVars, closeVars>>

(***************************************************************************)
(* close                                                                   *)
(***************************************************************************)

Close ==
  /\ closer = "open"
  /\ endFlag' = TRUE
  /\ jobs' = Append(jobs, Break)
  /\ closer' = "round1"
  /\ toEnd' = {id \in Ids : Listed(id)}
  /\ UNCHANGED <<taskDict, created, runVars, pool, dispatcher, killing,
                 cleanVars>>

\* end_all_ns_task ends the listed tasks one by one, as end_task does: it raises
\* when a task is queued.
CloseEnd(id) ==
  /\ closer \in {"round1", "round2"}
  /\ id \in toEnd
  /\ \A r \in Runs : <<"close", r>> \notin killing
  /\ toEnd' = toEnd \ {id}
  /\ IF Listed(id) /\ taskDict[id].done_flag = 0
     THEN /\ killing' = killing \cup {<<"close", r>> : r \in EndsAt(taskDict[id])}
          /\ closer' = IF Raises(taskDict[id]) THEN "failed" ELSE closer
     ELSE UNCHANGED <<killing, closer>>
  /\ UNCHANGED <<taskDict, created, runVars, jobs, pool, dispatcher, cleanVars,
                 endFlag>>

\* Mutant of CloseRound: rounds until no task is listed.
CloseRoundsUntilNone ==
  /\ toEnd = {}
  /\ closer \in {"round1", "round2"}
  /\ \A r \in Runs : <<"close", r>> \notin killing
  /\ toEnd' = {id \in Ids : Listed(id)}
  /\ closer' = IF toEnd' = {} THEN "join" ELSE "round2"
  /\ UNCHANGED <<taskDict, created, runVars, jobs, pool, dispatcher, killing,
                 cleanVars, endFlag>>

\* end_all_ns_task is called twice; then close joins the dispatcher.
CloseRound ==
  /\ toEnd = {}
  /\ \A r \in Runs : <<"close", r>> \notin killing
  /\ \/ /\ closer = "round1"
        /\ closer' = "round2"
        /\ toEnd' = {id \in Ids : Listed(id)}
     \/ /\ closer = "round2"
        /\ closer' = "join"
        /\ UNCHANGED toEnd
  /\ UNCHANGED <<taskDict, created, runVars, jobs, pool, dispatcher, killing,
                 cleanVars, endFlag>>

\* main_process.join() returns.
Closed ==
  /\ closer = "join"
  /\ dispatcher = "exited"
  /\ closer' = "closed"
  /\ UNCHANGED <<taskDict, created, runVars, jobs, pool, dispatcher, killing,
                 cleanVars, endFlag, toEnd>>

(***************************************************************************)
(* The service                                                             *)
(***************************************************************************)

\* What goes on in the service by itself once run r is registered.
RunStep(r) ==
  \/ PutJob(r)
  \/ SkipRun(r)
  \/ BeforeRun(r)
  \/ Register(r)
  \/ StartRun(r)
  \/ EndRun(r)
  \/ SendResult(r)
  \/ CallbackRead(r)
  \/ CallbackWrite(r)

DispatcherStep == AwaitJob \/ Dispatch \/ DispatchEnd \/ DispatcherExit

CloserStep ==
  \/ \E id \in Ids : CloseEnd(id)
  \/ \E r \in Runs : Kill("close", r)
  \/ CloseRound
  \/ Closed

\* Nothing is left to do unless a client asks for something.
Quiet ==
  /\ \A r \in Runs :
       \/ runPc[r] \in {"none", "over", "lost"}
       \/ runPc[r] = "queued" /\ dispatcher \in {"joining", "exited"}
  /\ UNCHANGED vars

Next ==
  \/ \E id \in Ids : CreateTask(id) \/ EndTask(id)
  \/ \E r \in Runs : Kill("client", r)
  \/ \E c \in Cleaners : CleanSnapshot(c) \/ CleanDelete(c)
  \/ \E r \in Runs : RunStep(r)
  \/ DispatcherStep
  \/ TakeJob
  \/ Close
  \/ CloserStep
  \/ Quiet

\* The processes of the service and the thread that calls close() keep running,
\* and so do the tasks: auto_run returns or raises.  No client has to call
\* anything, and no request or cleaning has to come to its end.
Fairness ==
  /\ \A r \in Runs : WF_vars(RunStep(r))
  /\ WF_vars(DispatcherStep)
  /\ WF_vars(TakeJob)
  /\ WF_vars(CloserStep)

Spec == Init /\ [][Next]_vars
FairSpec == Spec /\ Fairness

(***************************************************************************)
(* Properties                                                              *)
(***************************************************************************)

\* What task_info says of a task, as long as no late deletion has taken its entry.
Phase(id) ==
  CASE id \in robbed -> "robbed"
    [] id \notin robbed /\ ~ Listed(id) -> "absent"
    [] id \notin robbed /\ Listed(id) /\ taskDict[id].done_flag # 0 -> "done"
    [] id \notin robbed /\ Listed(id) /\ taskDict[id].done_flag = 0 ->
         IF taskDict[id].process # 0 THEN "running" ELSE "queued"

Life == INSTANCE TaskLifecycle WITH phase <- [id \in Ids |-> Phase(id)]

\* What a client sees of a task in task_info goes through queued, running and
\* done in this order, and only a finished task disappears: no callback and no
\* second create_task undoes what another thread stored, and a cleaning only when
\* it is late.
ImplementsLifecycle == Life!LifeSpec

Executing(r) == runPc[r] \in {"report", "running", "finishing"}

\* One task id is never executed by two processes of the pool at once: the
\* check of create_task and "duplicate call_auto_run" are there for that, and
\* they fail only for a task that a late deletion took from the list while it
\* was live, when it had been registered again (AutoManage.clean_task_dict).
NoConcurrentRuns ==
  \A q, r \in Runs :
    Executing(q) /\ Executing(r) /\ runId[q] = runId[r] /\ runId[q] \notin robbed => q = r

\* A task that is not over can be found by task_info and ended by end_task: it
\* is listed, under the pid of the process that executes it.  Only a deletion by
\* a cleaner that had found an earlier run of the task takes a live entry away.
\* (The types are part of it.)
LiveTaskIsListed ==
  /\ TypeOK
  /\ \A r \in Runs :
       /\ runPc[r] \notin {"none", "over", "lost"} /\ runId[r] \notin robbed =>
            Listed(runId[r]) /\ taskDict[runId[r]].run = r
       /\ runPc[r] = "running" /\ runId[r] \notin robbed => taskDict[runId[r]].process = r

\* A registered task is not forgotten: it is done, or removed from the list,
\* some day, however many wait for a process of the pool, unless the service
\* is closed or a SIGINT takes the result of the run.
EveryTaskFinishes ==
  \A id \in Ids :
    Listed(id) ~>
      \/ ~ Listed(id)
      \/ taskDict[id].done_flag # 0
      \/ runPc[taskDict[id].run] = "lost"
      \/ endFlag

\* close() returns, by itself or because end_task raised, unless the result of
\* a run is lost: no accepted job keeps the pool from being joined.
CloseReturns ==
  closer = "round1" ~>
    \/ closer \in {"closed", "failed"}
    \/ \E r \in Runs : runPc[r] = "lost"

\* When close() has returned no task is executed any more and every result was
\* recorded before the store is shut down.
ClosedMeansOver ==
  closer = "closed" => \A r \in Runs : runPc[r] \notin InPool
=============================================================================
