# smartlibs: a verification project

smartlibs (`src/`, Python) runs trees of data-processing tasks in processes and threads, and offers
a REST service that runs such trees on request. This directory holds TLA+ models of the parts of it
whose correctness depends on the order in which processes, threads, messages and failures meet, and of the
algorithms those parts rest on; TLC runs that check them on small instances; and proofs, checked by TLAPS,
of the safety properties for instances of any size.

## 1. The system

| Component | Source | State | Operations | What makes it correct |
|---|---|---|---|---|
| Task tree | `smart/auto/tree.py`, `smart/auto/parser/` | `TreeTask.next_tasks`, the DAG of an auto.yml | parse, `AutoRunner.run`, `TreeMultiTask`, `TreeLambdaTask` | tasks start in dependency order, each has one upstream at most |
| Pips | `smart/auto/pip/` | a `multiprocessing.Queue` per task with an upstream, `QueuePip.is_ended` per process | `send`, `recv`, `clean` | every item sent is received once; an `end` command ends the receiver and comes after all items |
| Workers | `smart/auto/exec/task_pod.py` (`run_task`, `_on_worker_done`, `_on_queue_end`) | `worker_done_count` (shared, with a lock), `worker_state.error_count` | run and restart the user function, count the ended, send `end_cmd`, forward ends, clean the pip | one end command downstream, by the last worker; one end ends all workers of a task |
| Pods and the main process | `smart/auto/exec/tree_pod.py`, `task_pod.py` (`start`, `join`), `smart/auto/worker/` | pods, `_to_kill_workers`, the stop flags | hooks, start, inline run, join, forceStop | the tree ends; nothing is killed that still works; no process is left |
| Task service | `smart/aaas/auto_manage.py`, `smart/aaas/base.py` | the task dict of a namespace (in a manager process), `end_flag`, `jobs`, a process pool | `create_task`, `end_task`, `clean_task_dict`, `call_auto_run`, `_create_task_cb`, `close` | a task id runs once at a time, is findable while it lives, finishes; `close` leaves nothing running |
| Timed tasks | `smart/rest/app/crond.py` | `Crond.status`, `end_flag`, one coroutine per task | `run`, `start_loop`, `sleep`, `close` | ends on close |
| Service process | `smart/aaas/run.py`, `Runner.py`, `smart/rest/app/application.py` | status, server, listener thread, AutoManage | boot, remote shut down, serve, close, SIGINT | what begins to close ends, nothing is left |
| REST dispatch | `smart/rest/app/dispatch.py`, `smart/rest/http/` | service instances per thread, `instance.request` | accept, route, hooks, action, answer, `after_complete` | a thread works on its own request, which is answered once |
| Context store | `smart/utils/store/`, `smart/auto/ctx/` | a shared dict of nested keys with a lock per name | `state`, `get`, `set`, `set_fn`, `get_or_set_fn`, `delete` | one state per name; no increment lost; one default |
| State files | `auto_tasks/tools/t_statefile.py` | a JSON file, the shared list of items begun | `read`, `start`, `end` | an execution that resumes misses no item |
| Redis queue tasks | `auto_tasks/redis/` | a Redis list and its expiry | `send_all`, `recv_all`, `send_exit_cmd`, back-pressure, forwarding of ends | end after all items; every receiver ends; bounded; senders return |
| Kafka queue tasks | `smart/utils/kafka/`, `auto_tasks/kafka/` | outbox, subscriptions, positions, offsets | `send_all`, `recv_all`, `commit`, `subscribe`, `unsubscribe` | what returned is delivered; at least once; an end per job |
| Task log | `smart/aaas/service/auto.py`, `smart/aaas/client.py`, `smart/utils/file/cat.py`, `smart/aaas/utils/task_info.py` | read offset, deadline, file position | long poll, follow, `more_all`, `tail_all` | no byte skipped or repeated; the client stops, having read all |
| Task graph sorting | `smart/utils/dag.py` | - | `dag_sort`, `dag_find_cycle`, `DagItemsTool` | respects every dependency, finds every cycle |
| Yml parser | `smart/auto/parser/auto_yml.py`, `smart/utils/dict.py`, `template.py` | the config being parsed | flow, sibling, import, extend, if, template | the meaning does not depend on the order of parsing |
| Names and routes | `smart/auto/parser/tools.py`, `task.py`, `smart/auto/loader/`, `smart/rest/app/route_manage.py` | task map, alias map, route map | find a task, resolve a path, load tasks, find a handler | a name finds what it stands for |
| Calls of a task | `smart/auto/parser/tools.py`, `smart/auto/exec/fn_chain.py`, `smart/utils/loader.py`, `func.py` | the last result of each function | read an expression, import a class, run the chain | a function gets the latest results of the blocks before its own |
| Batches, items, metrics | `smart/utils/batch/`, `item.py`, `ratio.py`, `serialize.py`, `smart/evals/core/` | a batch, open groups, counts | batch, group, merge, join, measure, split, encode | no item is lost or made up |
| App commands, database and HTTP tasks, starter, other built-in tasks | `smart/app/`, `starter/`, `auto_tasks/` | mostly configuration | I/O | not modelled |

How they interact: the **main process** of a tree creates the pips and the pods, starts the workers
(or runs tasks without `worker_num` itself, one after the other), joins them and finally kills who is
left. A **worker** receives from the pip of its task and broadcasts to the pips of its
downstream tasks. Between workers there are pips, the locked count `worker_done_count` and the context store.
In the **service**, REST threads and the thread of the timed tasks share the task dict with a dispatcher process and
pool processes; every access is one call to the manager process, and only some handlers hold a lock
around their read-modify-write. A pool process runs one whole tree and writes its log to a file that REST
threads read. User functions of a tree may use the **queue tasks**, which connect trees of
different machines through Redis or Kafka, and state files, which carry a position from one execution to the next.

What is hard: a `multiprocessing.Queue` has a buffer and a *feeder thread* per sending process, so
order holds per process only, and a process whose feeder cannot write does not exit; a bounded queue blocks its sender, who
may be the one to end the receiver; threads of one process share `is_ended`; functions raise and are
restarted; SIGINT arrives at any line; dict entries are copied, changed and stored back; `close` races with registration;
every call of Redis is a step other clients can come before; Kafka acknowledges, commits and delivers later than it is asked;
a log is read while it is written, and its writer disappears from the task dict.

## 2. Modules

| Module | Models | Composes |
|---|---|---|
| `TaskTree` | the shape of the tree, workers and the process each lives in | |
| `QueuePip` | pips with feeder buffers, OS pipe, semaphore, `is_ended` | extends `TaskTree` |
| `TaskPod` | a worker from its start to its death, a SIGINT that meets it | extends `QueuePip` |
| `TreePod` | the main process: hooks, start, inline runs, join, kill; `Init`, `Next`, fairness, properties | extends `TaskPod` |
| `DataStream` | what `send_data`/`recv_data` promise, abstractly | |
| `PipStream` | the refinement of `DataStream` by the pip into one task | `TreePod`, `DataStream` |
| `TreePodProofs` | the theorems about `TreePod` and `PipStream` | `PipStream`, `TLAPS` |
| `AutoManage` | the task service | |
| `TaskLifecycle` | what a client sees of a task: queued, running, done, removed, or robbed by a late deletion | instantiated by `AutoManage` |
| `Crond` | the timed tasks | |
| `Dispatch` | requests in the threads of the server | |
| `Service` | the service process from boot to exit | extends `Crond`, `Dispatch` |
| `ContextStore` | shared states, call by call of the manager | |
| `StateFile` | executions that resume from a state file | |
| `RedisQueue` | senders and receivers of Redis lists | |
| `KafkaQueue` | producers, a consumer and its group's offsets | |
| `TaskLog` | the writer of a log, the request that reads it, the client | |
| `Dag`, `AutoYml`, `TaskNames`, `TaskCalls`, `Batches` | pure algorithms, as operators | `AutoYml` extends `Dag`, `TaskCalls` extends `TaskNames` |
| `AutoManageProofs`, `ServiceProofs`, `ContextStoreProofs`, `StateFileProofs`, `RedisQueueProofs`, `KafkaQueueProofs`, `TaskLogProofs` | the theorems about the module they are named after (`ServiceProofs`: with `Dispatch`) | that module, `TLAPS` |
| `MCTreePod`, `MCService`, `MCContextStore`, `MCRedisQueue`, `MCKafkaQueue`, `MCTaskLog` | the instances for TLC | the module they are named after |
| `MCAlgorithms` | the inputs of the algorithms and their reference definitions | `AutoYml`, `TaskNames`, `TaskCalls`, `Batches` |

### The core: `TaskTree`, `QueuePip`, `TaskPod`, `TreePod`

*Pips.* `buf[p][t]` is what process `p` has put and its feeder has not written, `pipe[t]` what the OS
pipe holds (at most `PipeCapacity` messages), `slots[t]` the semaphore of a bounded queue
(`max_queue_size` of the task, plus the one place `pip_fn` adds for the end command). `Put` is `Queue.put`: it takes a slot, fills the buffer and
returns. `Flush` is the feeder. `Get` gives the slot back. A thread or an inline task uses the main
process's buffer and its copy of `is_ended`; a process has its own (`Home`).

*Workers.* `pc[w]` follows `run_task`. A user function without upstream sends up to `MaxItems` items; any other
passes on each item it receives. `StartGet` tests `is_ended` and `ReceiveItem`/`ReceiveEnd`
follow in a later step, so another thread may set the flag in between. `ReceiveEnd` then forwards `worker_num - 1` marked copies, one put at a
time (`Forward`). `Fail` is the exception and the decision of `_err_cb`. `WorkerDone` is the critical
section's entry in `_on_worker_done`; the lock stays held while the last worker sends `end_cmd`
(`SendEnd`) and cleans (`Clean`, `Cleaned`). `Exit` of a process waits for its buffers to be written.
The inline task's path (`InlineDone`, `StartClean`) has no lock, and skips cleaning and counting when the function raised.

*Main.* `cursor` is the worker being started or joined. `JoinWorker` is the 5-second poll: on to the
next when this one is dead, or when its pod is done, in which case it is one to kill. `KillWorker` and
`NextRound` are the two rounds of the `finally` in `TreePod.join`; `forceStop` only sends a SIGINT (`signalled`, in which two that
come close together are one), and the process handles it later (`HandleSignal`), maybe after `join` has returned. `Interrupt` says where a
`KeyboardInterrupt` takes a worker from each location. Inside `recv` (`InRecv`) the generator catches it and ends, the item it
may have taken is lost, and the user function goes on behind its loop (`rest`), where a second SIGINT may meet it. Elsewhere the
worker leaves its user function, and the `finally` of `run_task` still counts it; a SIGINT there takes it out of `run_task`, and
releases a lock it holds. `BeforeTask` takes what hooks may flag.

*Abstracted:* item values (an item is its sender and number; a forwarded item keeps its identity), timing,
logging, `worker_state` values other than the error count, contexts and databases of the user functions.

### The service: `AutoManage`

A *run* is one accepted registration; `runPc[r]` is where it is between `create_task` and
`_create_task_cb`. A pool process runs one job (`maxtasksperchild=1`), so a pid is named after its run, and
a task dict entry is `[run, process, done_flag]`. Handlers that read, change and store an entry are
two actions with the local copy in `copy[r]` (`BeforeRun`/`Register`, `CallbackRead`/`CallbackWrite`);
`clean_task_dict` is `CleanSnapshot` (no lock) and `CleanDelete`; REST threads (`service/auto.py:97`) and the timed cleaner call it, so there
are several `Cleaners`. `cleaning[c]` keeps with each id the run that `c` found done, and `robbed` the ids of which a
late deletion has taken a live entry (`Late`): when the slower of two cleaners deletes, the id may have been deleted by the other and registered again. `create_task`'s critical section, and the
deletion, are single actions because the same lock excludes each other and each stores once.
`end_task` is `EndTask` (reads the pid) and `Kill` (sends SIGINT later); `KillRun` is what the signal
does at each place. `close` is `Close`, `CloseEnd`/`CloseRound` (two rounds of `end_all_ns_task`)
and `Closed`.

### The service process: `Crond`, `Dispatch`, `Service`

*Crond*: one action per step of a coroutine between awaits; `left[t]` is the local `interval` of `sleep`,
which never reaches 0 (section 5). *Dispatch*: `tpc[t]` is where a server thread is between `Accept` and `Complete`;
`cache[t]` is its service instance in the `threading.local`, `request[n]` the `self.request` of an instance. Hooks,
actions and result handlers may refuse, answer, or raise (`HandleError`); a response that cannot be written is
`ClientGone`. *Service*: `main` follows `run_aaas` and `daemon`; `Interrupt` says where a SIGINT takes it from each
place; `ShutDown` and `Listen` are the remote shut down. `AutoManage.close` is one step here, because it is the
subject of `AutoManage`. `cut` records a SIGINT outside the `try` of `daemon` or a second one, after which the code
leaves things open (section 5).

### The store and state files: `ContextStore`, `StateFile`

Every call to the manager is one action: `_find_op` is `Has`, `MakeDict`, `HasMade`, `Fetch` (the *copy* of the
dict under the first key) and `Write`. `set_fn` and `get_or_set_fn` hold the lock of the state from `AcquireLock` to
`Finish`; `set`, `delete` and `get` do not. `Lookup` to `Create` are the double-checked creation of a
state. `increments` and `answers` are history; `answers` has what every caller of `get_or_set_fn` was given, read-only callers too. In `StateFile`, `ListItem`/`SendItem` are `start`, `EndReceive` to
`StepDone` the loop of `end`, `SaveOpen`/`SaveWrite` the two halves of `_save_statefile`. Items reach `end` in any
order. `Killed` stops the execution anywhere; `NextRun` reads what the file holds.

### The queues between machines: `RedisQueue`, `KafkaQueue`

*Redis* (external: lists, expiry, blocking pop). Every call of a client is an action: `Start` (delete or persist),
`NextItem`, `WaitNoFull` (one read of the length), `PushItem`, `ExpireItem`, `ExpireEnd`, `PushEnd`; `Receive` pops from
the first list that is not empty, `Forward` and `ForwardExpire` give a command back. `Kill` takes a receiver at any point,
`Expired` a key with a ttl. *Kafka* (external: the broker's logs, the library's outbox, position and subscription).
`NextItem`, `Flush`, `EndCommand`, `LastFlush` are `send_all`; the end command takes the `producer_kwargs` that the last
item left. `Ask`, `Poll`, `Process`, `CommitOne`, `Commit`, `Unsubscribe` and `Timeout` are a user who calls `recv_all` and
`commit` in a loop. `Deliver` lets the broker take or refuse a message, `CommitArrives` a commit request, at any later time.
`Restart` is a process that died or raised and starts from the committed offsets.

### The log of a task: `TaskLog`

The task writes bytes, newlines anywhere (`nl`), closes, ends, and its record is cleaned. `Get` to `Expire` follow one
request of `task_log`: its look at the record, the wait for the start stage (with the sign it has), the reading of lines,
the seek to the tail, the rounds of following. `Begin` to `Over` follow `AaasLogCat` (`more_all`, `tail_all`) in the client: offset,
headers, end. `i` counts lines as the server does, `prev` is the half line the follower keeps. `late` says that the server's
deadline has passed, which happens at any time. `Drop` is a connection that breaks off with an exception. `Cut` is a response the server's side ends
early: a log is sent without a length and without chunks (`rest/http/request.py:121-122`), so the client takes it for a
complete one, and yields the half line it ends in. `cut` says that the response read last was such a one.

### The algorithms: `Dag`, `AutoYml`, `TaskNames`, `TaskCalls`, `Batches`

Operators, one per function, over abstract names: a task, key or path part is a member of a small set, a config
is a heap of dicts because configs share parts of one another, `Err` stands for what raises. `MCAlgorithms` picks
one input per behaviour and compares the result with a definition that does not use the algorithm. In `TaskCalls` a
task expression is a sequence of tokens, a template a sequence of texts and variables, and `RunChain` one stage of a task's
life (hook, first run, restart) over the results the stages before it left in the `FnItem`s.

A **type invariant** is in each component the first conjunct of a main state invariant (named in the comment of that
invariant); in `TreePod` it is `TypeOK`, the first conjunct of `TreeInv`.

## 3. Runs

| Run | Instance | Checks |
|---|---|---|
| `TreePodChain` | 1→2→3, the middle task with two worker processes, `max_queue_size` 1 (queues of two places), pipe of 1 message, 2 items, one restart allowed and one error in the middle task | `NeverStuck`, `LastWorkerAlone`, `TreeInv` (the inductive invariant of the proofs), `ImplementsDataStream` for the pip into 2, `CleansOnlyEnds`, `TreeEnds`. Puts and ends can block, both workers race for the count, and one end must pass through both. `NeverStuck` says of each waiting state who can go on, where `TreeEnds` says that all of them do. |
| `TreePodFail` | 1→2, two receivers, unbounded queue, pipe of 1, receivers that use a timeout, may leave early or raise | `KillIsHarmless`, `EndMeansAllReceived`, `WorkersStop`: a sender's feeder is stuck behind a full pipe nobody reads, and join must kill exactly it. |
| `TreePodFork` | inline task 1 → threads of 2 and process 3; hooks may flag 3 or the tree; 1 may raise | `TreeEnds`: threads share `is_ended` and one feeder; all early ends of `start`. |
| `TreePodInterrupt` | 1→2, two receivers, SIGINT to the main process at any time | `JoinMakesSureOfExit`: two rounds of SIGINT that arrive at any location of a worker, in a `recv` that swallows it or after `join` has returned. The pipe has room for every message, see section 5. |
| `AutoManage` | two ids, two registrations, a pool of two, two cleaners; `end_task` and `close` at any time | `NoConcurrentRuns`, `LiveTaskIsListed`, `ClosedMeansOver`, `EveryTaskFinishes`, `CloseReturns`, `ImplementsLifecycle`. Both registrations may be of one id, whose former run is being ended, recorded or cleaned, or of two ids of which one waits for the dispatcher while `close` happens. Two registrations and two cleaners are the late deletion; a task that is then executed twice at once takes a third registration, about which the proofs speak. |
| `Service` | a timed task of 4 seconds (two turns of the loop of `sleep`), two request threads, two requests of which one has no body, one SIGINT, remote shut down allowed or not | `ServesOwnRequests`, `AnsweredOnce`, `ServiceEnds`. Two requests are enough to meet in two threads and to follow each other in one. |
| `ContextStore` | three processes, one with a read-only handle; three first keys (counters, defaults, a mixed one) of two second keys; three operations | `OneStatePerName`, `CountersExact`, `OneDefault`. Three operations are two that race and one that comes between their steps. The second keys are symmetric. |
| `StateFile` | five items, a save after every second, three executions | `SafeToResume`, `CompleteRunHandlesAll`. Five items overtake each other across two saves; the third execution resumes from what a resumed one left. |
| `RedisQueue` | two senders and two receivers in three scenarios: one bounded list; a receiver of two lists with an exit; two daemons. Two equal lengths make a client timeout, one receiver may be killed, one key may expire | `QueueBounded`, `EndMeansTaken`, `EveryReceiverEnds`, `SenderReturns`. Checks and pushes of two senders interleave around the bound; one end must pass through both receivers. |
| `KafkaQueue` | a topic of two partitions; a job of two items for one partition with one flush and an end, and a job of an undecodable item by key; a consumer with manual commit that skips bad items, or a daemon with automatic commit that does not wait; one refused message, one crash, one commit in flight | `ReturnedMeansDelivered`, `CommittedIsProcessed`, `EndMeansProcessed`, `EverythingProcessed`. Two partitions and two jobs give every order of items, end, crash and late commit. |
| `TaskLog` | up to three bytes, lines and responses of one to three, all four kinds of calls on both servers, one response that breaks off or ends early | `ReadsExactly`, `StoppedMeansAllRead`, `ClientStops`. Three bytes are a whole line and a half one, or two lines of which the second comes late. |
| `Algorithms` | each input is one initial choice: 13 possible dependencies of four tasks in all combinations; written trees of three tasks; four configs that extend each other; imports of four files; tasks and keys of up to three parts; routes of up to three; expressions of up to two joined blocks; templates of one variable; chains of four functions over a hook, a run that may raise and a restart; batches, groups, tables, labels, ratios and codec of a few items | `SortKeepsOrder`, `ConfigsResolve`, `NamesResolve`, `ItemsKept`. |

No cfg replaces a definition or constrains states. `CHECK_DEADLOCK FALSE` is in the runs of systems that really stop: the
operations of `ContextStore`, the executions of `StateFile`, the jobs of `RedisQueue`, a client of `TaskLog`, a closed `Service`, and
`Algorithms`, which has one step. Elsewhere the actions `Terminated`, `Quiet` and `Closed` stutter exactly where the
program has nothing left to do, or the user of a queue goes on asking (`KafkaQueue`), and a stop anywhere else is an error.

Each property has a mutant: a definition placed before the original one (`FlushNewest`, `WorkerDoneEarly`,
`PushEndFirst`, ...) that changes it the way a plausible bug would and under which the run fails. They are used by nothing else.

What the main properties exclude, and why:

- `NeverStuck` is about every tree without bounded queues, and about those where bounded queues are read to the end by
  processes, a single thread, or both, all started before any inline task (`BoundsAreServed`). The code does block otherwise (section 5).
- `EveryReceiverEnds` (Redis) excuses a command that died with its receiver or its key, and one taken by a
  receiver of another kind (`CommandLost`, `Swallowed`): the code recovers from neither.
- `CountersExact` is about first keys only `set_fn` writes to, as the code's own counters; one `set` that runs beside it
  may undo an increment.
- `OneDefault` is about first keys only `get_or_set_fn` writes to, and begins with the first answer to a caller that may write. A read-only caller
  that comes before gets a default of its own, which `update_state_op` does not store (`store.py:97-99`, `200-233`): such answers may differ from each other and from the later ones.
- `NoConcurrentRuns`, `LiveTaskIsListed` and `ImplementsLifecycle` except the tasks in `robbed` (section 5).
- `CloseReturns` counts a `close` that ends because `end_task` raised, and excepts a lost result; so does `EveryTaskFinishes`.
- `EndMeansProcessed` (Kafka) is about jobs whose messages share a partition. Kafka orders nothing across partitions.
- `ReadsExactly` excuses a client whose position went wrong (`gap`): the follower's own `seek_tail` skipped bytes, or a response read
  backwards ended inside a line. `StoppedMeansAllRead` excuses that too, and a client that returns on the very response that had ended early (`cut`).
  Forwards, and on any later response, an early end costs nothing.
- `ServiceEnds` excuses `cut`; `AnsweredOnce` a request that failed after its first answer, which also gets the error.

## 4. Fairness

*Tree*: weak fairness for what a worker does by itself, for every feeder and for the main process. The
system schedules them all, and delivers a signal that was sent (`HandleSignal`); user functions are assumed to return and `join(5)` does. Nothing is assumed
of `Fail`, of hooks, or of Ctrl-C. *Task service*: the same for runs,
the dispatcher, the pool and `close` with the kills it sends; no client has to call anything, and no kill or cleaning of a client has to come to its end. *Service process*: every thread and every
coroutine runs; nobody has to send a request or a SIGINT. *Task log*: the task, the server and the client's
loop run and a poll's deadline passes; nothing has to break off. For all of these weak fairness is enough: no step is disabled again and again by
others for ever (for the lock `worker_done_count` because the holder always leaves it).
*Redis*: weak fairness for senders, strong for receivers, because a list may be emptied by the other receiver before each
attempt. Redis serves blocked clients in the order they came. *Kafka*: weak fairness for jobs, deliveries, commits and the user's loop, strong
for polling each partition, because a poll may time out each time before the fetch is answered.

## 5. What the code does not do

Met while modelling. The models have this behaviour unless it says "outside"; PROJECT.json quotes the lines that
promise otherwise under `findings`.

Trees:

- Two upstream worker *processes*: the end command of the last one overtakes items in the other's buffer; the receiver
  ends without them, and cleaning throws them away (`task_pod.py:91`). The runs that check `EndMeansAllReceived` have one sending process.
- With `max_queue_size` and a receiver whose function raises for good: after the one cleaning nobody reads, the sender
  blocks in `put`, and join waits for ever (`task_pod.py:94`).
- With `max_queue_size` and more than `max_queue_size + 2` threads: when one of them receives the end, the others may leave
  without a get, because they share `is_ended`; the copies it forwards fill the queue and nobody reads (`task_pod.py:100`).
- An inline task that sends into a bounded queue whose reader is not started yet blocks for ever (`task_pod.py:201`).
- `stop_task` on one task (`tree.py:113`) makes `TaskPod.start` raise `UnboundLocalError`
  (`task_pod.py:192` reads `worker_num` before its assignment): the tree fails, with the pods started so far
  neither joined nor killed (`StartStopped`, `mainPc = "raised"`). So does an inline task that raises
  (`EndInline`) and SIGINT during start (`InterruptStart`).
- `TreeLambdaTask` receives with `block=False` (`tree.py:164`). Inline it may find the pipe empty
  because the feeder has not written yet; it ends and its data is cleaned away. `CleansOnlyEnds` is therefore
  about functions that block in their gets (`ReadsToTheEnd`).
- SIGINT with a pipe too small for the buffered data: a worker interrupted twice is in its exit, its feeder blocked;
  a third round would be needed (`tree_pod.py:86`). `JoinMakesSureOfExit` is checked with a pipe
  that holds every message.

Task service:

- Two concurrent cleanings: the slower deletes a task registered again under the same id (`auto_manage.py:353`). The live task can then be neither found
  nor ended, and is executed twice at once when it is registered a third time. Its id is `robbed` from then on.
- `end_task` of a running task: `auto_run` swallows the interrupt and the task is flagged done (1), not interrupted (3).
- `end_task` of a queued task raises `AttributeError`: `self.auto_manage` does not exist
  (`auto_manage.py:429`), although `base.py:12-13` and `aaas_api.md:80` describe a flag for that
  case. `close` ends the same way when a task is queued (`closer = "failed"`).
- SIGINT that reaches a pool process while it sends its result loses the result; the pool is then never
  joined. `CloseReturns` excludes this case by name.

Service process:

- `TimingTask.sleep` never takes the last seconds off `interval` (`crond.py:62`): a timed task never runs again
  (never at all without `run_immediate`).
- The remote shut down calls `httpd.shutdown`, which no server has (`application.py:78`): the listener dies and the service goes on.
- SIGINT while `ServiceRunner()` is made leaves its AutoManage open; SIGINT between `enable_remote_shuttable` and `daemon`
  leaves a listener that never ends (both are `cut`).
- When a response cannot be written, `after_complete` is skipped; a handler that raises after it began to answer is answered
  twice (outside `AnsweredOnce`). The aio application replaces `_handler` of a request (`aio/application.py`), outside.

Store and state files:

- A read-only caller of `get_or_set_fn` is given a default that is never stored. `set` and `delete` take no lock, and write back a copy that may be old. In thread mode no operation has a lock (outside).
- `wait` of a single key never waits (`store.py:58`): `end` of the state file fails when it comes before `start`. `safe_recv_data`
  (`task_util.py:26`) records an item after it has taken it, so a worker killed in between loses one (outside).
- A process killed while it writes the state file leaves one that cannot be read (`Torn`): the next execution does not start.

Redis and Kafka:

- An end command received by a task of several lists cannot be forwarded: the client refuses a list as the key (`RedisQueue.py:152`).
- The expiry is set before the end command is pushed, so it is lost on an empty list; such an end never goes away, and the
  next `send_all` makes it permanent. A second sender's `empty_old` deletes the first one's end. A daemon swallows an `end` that
  others wait for. A full list whose length stays the same because pops and pushes balance looks like a dead reader. Only the queue of `key` is checked for its length, not those of the items.
- `subscribe` replaces the subscription by the new topics (`KafkaQueue.py:487`); the run has one topic.
- `send_all` of no items fails at the end command (`KafkaQueue.py:351`; the jobs of the run are not empty). Polls with `timeout=0` are never recorded for `commit`.

Task log:

- `wait_stage` returns at once (`task_info.py:55`); the request reads the record before it waits (`auto.py:149`) and may miss the log file.
- A follow without tail lines skips what was written since the last read (`cat.py:297`).
- A response that the server's side ends early looks complete. If it is headed AAAS-TASK-END and nothing of it has arrived, `more_all` and
  `tail_all` return with the log unread (`client.py:351`, `377`); backwards, half a line moves the offset into the line, and bytes are skipped and read twice (`client.py:292`).
- `fix_seek` compares where it means to assign (`cat.py:170`). A "not ready" answer of the http server has no body, and breaks
  off. The client of a skipped task polls for ever. A task registered again truncates its log (outside).

Algorithms:

- A falsy value does not override (`dict.py:51`), and with `no_copy` it may raise (`dict.py:43-45`). A config that extends its own
  ancestor recurses for ever; `__plain__` is lost when the config is first extended by another (both outside).
- `sort_tree_node` iterates the `prev` name letter by letter (`dag.py:175`): a tree may be sorted, or refused, by
  dependencies nobody wrote; `prev` keeps only the last of several.
- A relative path with too many dots makes `parse_syntax_extend` raise `TypeError`; `resolve_dotted_path` of dots alone keeps a
  dot at the end. A second loaded task of the same name and class is refused (`auto_yml.py:244`). `a.b` is always the method `b` of a task `a` if there is one.
- `url_path_match` retries `**` on the whole path and may index past its end (`url_path.py:22`, `34`).
- `${x}` of a one-letter key without a namespace is left in a template as it is (`template.py:10`).
- `BatchItemRecv` with default arguments, and `join_items` of a missing column, raise what they do not mean to (`BatchItemRecv.py:26`,
  `evals/core/item.py:200`); `QueuePipItemRecv` whose pip stops without its end asks for ever. A wrong positive of
  the label matcher counts as FP only. `ratio_split` may give a negative share.

## 6. Proofs

Eight modules prove, for every value of the constants, every safety property that the runs of the concurrent components
check, and the two refinements. `tlapm` checks every leaf. What remains to TLC is listed at the end.

| Module | Theorem | States for every instance |
|---|---|---|
| `TreePodProofs` | `TypeCorrectness`, `TreeInvariance` | `[]TypeOK`, `[]TreeInv` |
| | `LastWorkerIsAlone` | `[]LastWorkerAlone`: whoever sends `end_cmd` or cleans is the last worker of its task |
| | `KillsAreHarmless` | `[]KillIsHarmless`: without SIGINT, `forceStop` meets only workers whose function is over |
| | `StreamInvariance` | `[]StreamInv`, on which the next three rest |
| | `EndsTellTheTruth` | `[]EndMeansAllReceived`, where one feeder sends |
| | `StreamIsImplemented` | `ImplementsDataStream`, under `OneFeeder(Pip)` |
| | `CleaningLosesNothing` | `CleansOnlyEnds`, where functions read to the end |
| | `TreeIsNeverStuck` | `[]NeverStuck`: workers, feeders and the main process never all wait for one another |
| | `JoinEndsAll` | `[]EndIsNear`: after join every worker process is out of its receive loop for good, or a SIGINT is on its way to it (stated by no run: it is the safety half of `JoinMakesSureOfExit`) |
| `AutoManageProofs` | `PoolInvariance`, `ClosedIsOver` | `[]PoolInv`, `[]ClosedMeansOver` |
| | `TaskInvariance`, `LiveIsListed`, `OneRunAtATime` | `[]TaskInv`, `[]LiveTaskIsListed`, `[]NoConcurrentRuns`, for any number of cleaners |
| | `LifecycleIsImplemented` | `ImplementsLifecycle`, for any number of cleaners |
| `ServiceProofs` | `OwnRequests`, `OneAnswer` | `[]ServesOwnRequests`, `[]AnsweredOnce` |
| `ContextStoreProofs` | `OneState`, `CountersAreExact`, `DefaultsAgree` | `[]OneStatePerName`, `[]CountersExact`, `[]OneDefault` |
| `StateFileProofs` | `FileIsSafe`, `CompletionIsComplete` | `[]SafeToResume`, `[]CompleteRunHandlesAll` |
| `RedisQueueProofs` | `RedisTypeCorrectness` | `[]TypeOK` |
| | `EndsBehindItems`, `ListsAreBounded` | `[]EndMeansTaken`, `[]QueueBounded` |
| `KafkaQueueProofs` | `CommitsAreProcessed`, `ReturnsAreDelivered`, `EndsComeLast` | `[]CommittedIsProcessed`, `[]ReturnedMeansDelivered`, `[]EndMeansProcessed` |
| `TaskLogProofs` | `LogInvariance` | `[]LogInv` |
| | `BytesAreReadOnce`, `StopsAtTheEnd` | `[]ReadsExactly`, `[]StoppedMeansAllRead` |

*Assumptions.* Those the modules name: `TreeAssumption` and `OneUpstream` (a task has one upstream at most, and tasks are
sorted), and one `...Assumption` per component, which gives the constants their types and makes threads, processes and senders
finite. TLC evaluates them in every run. One theorem has a premise besides, and the code does break without
it (section 5): `OneFeeder` (two upstream processes; `task_pod.py:91`). `EndMeansAllReceived` has it in its own formula, as
`CleansOnlyEnds` has `ReadsToTheEnd`: no timeout and no early return, a restart policy that outlasts the errors, no SIGINT.
`NeverStuck` has `BoundsAreServed`, which holds of every tree whose queues are unbounded, the default.

### The inductive invariants

None of the properties is inductive. Each proof has an invariant that is: `TreeInv` is in `TreePod`, and the run
`TreePodChain` checks it; the others stand before their proofs.

*Tree, types and the count.* `SendNext` records the item of the message at the head of `todo` (it must be data, `SendOK`),
`Forward` subtracts one (`ForwardOK`), and the main process starts the worker under its cursor (`CursorOK`): with the
types these are `PodPart` and `MainPart`. `LastWorkerAlone` rests on `CountOK` (`worker_done_count` counts no more than the
workers past the count, so when it reaches `worker_num` all others are past it) and `LockOK` (who sends `end_cmd` or
cleans holds the lock, so those others are gone). Most steps are `CalmStep`s, done once in
`CalmStepKeepsAlone`; `WorkerDone`, `Cleaned` and `Interrupt` have proofs of their own.

*Tree, main process* (`MainInv`). What main knows at each of its locations: which inline tasks are over while it starts the rest;
that the workers before the cursor of join were dead, or in a pod that was done; hence nobody is left in a user function when it
kills, unless a SIGINT took it there. A pod that is done has nobody left because its count is full and its lock free
(`DoneMeansGone`).

*Tree, streams* (`StreamInv`). For each pip with one feeder: items come from that feeder only (`PlaceOK`); where there is an
end every upstream worker has been counted (`ClosedOK`); no item follows an end in a buffer, in the pipe or from one
to the other (`OrderOK`); what was sent is received or on its way (`KeptOK`), with two exceptions: the last
worker of the readers has thrown it away, or its sender was killed, and then no end will ever tell that the stream is over
(`Barren`). `CleansOnlyEnds` adds `ToldOK`: who reads to the end is done only when its flag is set. `ToldOK` needs
`MainInv`, with `SignalOK` and `RestOK`, since a SIGINT of `forceStop` would otherwise take a worker there: until Ctrl-C is pressed only workers that are past the count are sent
one, and nobody is in `rest`.

*Tree, waiting* (`WaitInv`). Who can wait: a worker in a put (for a slot), in a get, at its lock, or in its exit for
its feeder; a feeder for the pipe; the main process for a worker. `WaitInv` has `CleanInv`, and until a
SIGINT comes: who is started (`OffOK`); what a worker knows where it is, and that a lock is held in the critical section only
(`WorkOK`); that each message on its way holds one slot and nobody else does (`SlotsOK`); and what is known of the end of each
stream (`EndsOK`). While an upstream worker still owes its count or its `end_cmd`, there is no end anywhere. Then there is one `EndCmd`, in one
place, nobody was told, and all read. Once it is taken, the receiver's forwards still to be put, together with the copies on their way, are as many
as the workers that may still wait (`Sharing`), until all readers are over. That two workers both may forward is excluded by the mark the
copies carry. `SlotsOK` counts positions of messages in buffers and pipe, `InFlight`, so that one put or get changes it by one element.

The argument takes a state in which nobody can step. Of the queues in which somebody waits for room, take that of the last task (`NobodyWants`): its
pipe holds a message, so none of its readers is in a get, and none waits to send to a later task. If one of them forwards an end, all the others
know of it already, and it has copies left for nobody: against `Sharing`. So all are over, hence were told the end, hence nobody owes them anything: against who
waits. With that every feeder is done and every started worker is in a get or over (`StuckWorker`). Of the tasks in which
somebody waits in a get, take the first (`NobodyGets`): its upstream is over, so its end was sent, and is neither on its way nor
shared out: against `EndsOK`. So all are over, and what main waits for has happened (`StuckMain`).
After a SIGINT of join nothing has to be shown, since the kill loop waits for nobody.

*Tree, after join* (`EndInv`). Every started worker process is dead or to be killed when the kill loop begins (`LeftOK`), and is sent a SIGINT by the first round
(`RoundOK`). One that is sent a SIGINT is caught (`Caught`): the signal is on its way, or it is late, which is to be in `rest` or past it, for a SIGINT takes it there from
anywhere (`InterruptGoes`) and no step of its own takes it back. More cannot be said: `recv` swallows one signal, two may become one, and both may arrive after
`join` has returned, so a worker may still be in the rest of its user function then. Past that it is a process in its exit, which `NeverStuck` says
nothing of: with a small pipe it may stay there (section 5).

*Task service*. `PoolInv`: a job that waits is in one place of one queue, in the phase that belongs there; the dispatcher exits
with nothing in the pool, and `close` returns only then. `TaskInv`: the entry of a task names its last run and agrees with that run's phase
(`EntryOK`); a handler's copy is still what the dict holds (`CopyOK`), which is what makes read-change-store harmless although only some handlers lock; the run that a cleaner has found done stays over (`CleanOK`), though its entry may be gone by then and the task registered again. So what a cleaner deletes
is done, absent, or an entry of a later run: if that one is live, the id becomes `robbed`, and what its runs still store touches no other task.

*Service*. Service instances are made once per thread and differ (`InstancesOK`), a request is with one thread (`RequestsOK`), and
how often it was answered follows from where its thread is (`ProgressOK`).

*Context store*. At most one state is made under the lock (`NameOK`). Who is between `Has` and `Write` holds the lock of the
state (`OperationOK`), and what it is about to store is what the dict holds now, changed by its function (`FetchedOK`). What a caller that may write was answered is stored already or about to be, so later callers, read-only ones
too, find it (`SettledOn`). Only the
first keys that `set` and `delete` leave alone have that; the mixed key of the run does not.

*State file*. Everything is ended, in flow or still to come (`NoneLost`); the list and `doing_set` share out what is under way
(`ListedOK`, with the item `end` is just taking off); start lists in the order of ids, so that `last` has nothing before it that nobody listed (`OrderOK`, `SaveOK`).
`todo` is a set, taken in the order of ids (`IsFirst`), which is the order in which `extract` yields.

*Redis*. `EndInv`: an `end` in a list lies behind every item of its sender (`OrderInv`), whose other calls are over
(`QueueInv`); so once it is popped, none of those items is left, and as that sender is done none will come
(`GoneInv`), in whatever hands the command is and however often it is put back. `BoundInv`: the items of a list are
those some sender found there at its last check, at most its bound, and those pushed by anybody since. `Used(s)` is the number
of pushes of `s` since its check, counted by `sent % step`; the pairs `<<s, n>>` with `n <= Used(s)` are what all
senders pushed, and one push adds exactly one of them. A check sets one count back to 0, and makes its own bound the witness.
`RemoveFirst` in `Ends` is `list.remove`: a key named twice is listened to once more.

*Kafka*. `OffsetInv`: every item below an offset that is committed, or on its way to the broker, was processed (`Handled`);
below the receiver's position, or an offset it has yet to commit, the item in the user's hands may be missing (`Taken`).
`CountInv`: while nothing was refused, the messages of a job in the logs and in its outbox are as many as it has sent, and
where `send_all` skips a flush the outbox is empty. `OrderInv`: all messages of a job with one partition go where the last item
went, the end command is the last of them in the outbox and in the log, and a receiver that ended at it had processed the rest.

*Task log* (`LogInv`). The bytes read (`out`), those on the wire and those the server has still to read follow one another in the file:
`from`, `seek`, and `Upto` (where the half line that is kept back begins), unless the client's position went wrong (`gap`). A response that ends early leaves a part of what was on the wire, of which the first bytes still follow
what was read; backwards only if it ends where a line does. Backwards the same holds line by line, the last line
first. A response that says that the task is over was opened after the last byte was written, so that an empty one means that all is read, unless
it had ended early (`cut`).
`TailStart` is defined by a count of newlines, because a recursive definition could not be reasoned about; it names the same byte.

### Only model-checked

- Liveness (of `TreeEnds` and `JoinMakesSureOfExit`, `TreeIsNeverStuck` and `JoinEndsAll` prove the safety half): `TreeEnds`, `WorkersStop`, `JoinMakesSureOfExit`, `EveryTaskFinishes`, `CloseReturns`, `ServiceEnds`,
  `EveryReceiverEnds`, `SenderReturns`, `EverythingProcessed`, `ClientStops`. The prover has no support for
  `ENABLED` and fairness.
- `SortKeepsOrder`, `ConfigsResolve`, `NamesResolve`, `ItemsKept`: what recursive algorithms compute. Each needs induction over
  the data, with an operator as parameter of the induction theorem, which no installed prover can instantiate.

## 7. Not modelled

- Tree: `restart: always` (it differs from a large N only in never ending), `send_end_cmd` and
  `clean_pip_in` set to False, a KeyboardInterrupt during the kill loop, in hooks or in an inline task, a
  worker process killed from outside, a SIGINT before the `try` of `run_task`, `TreeMultiTask`'s configuration, app commands in pips. The seconds of `join(5)` (`task_pod.py:244`) and `sleep(1)` (`tree_pod.py:79`, `90`) say nothing about the order of steps. An item that `recv` took and an
  interrupt made it lose counts as received.
- Task service: SIGINT to the dispatcher, a pid given to another process, tasks whose
  processes ignore SIGINT, namespaces (they share nothing but the pool; one is modelled), report hooks, delays.
- Service: Crond in a process of its own (it differs in having a copy of `end_flag`), web sockets, the aio server, conversion of parameters, file
  bodies, the gpu requests.
- Store: stores of threads, values and lists as such, the thread-local of `WorkerState`.
- Redis: `send_one`, `recv_one`, long polling as more than a wait; Kafka: several consumers of a group and their rebalancing, creation of topics.
- Log: text mode of the file reader, `_more_byte`.
- Parser: bind arguments, hooks, the syntax of yml, `find_quote_str` (nothing calls it). Loader: the files of modules, casting of arguments, `once_fn`. Evaluation: filters and views.
- Pure I/O and configuration: app commands, project loading, database and HTTP tasks, starter, the file and device tasks of the library.

## 8. Plan

Proofs: every safety property of the concurrent components is proved, and that a tree is never stuck. What would still be worth stating: that `ClosedMeansOver` holds
together with the end of the dispatcher's process, the second half of `KillIsHarmless` for threads, and for the task service and
the service process what `NeverStuck` is for the tree: that a state without an enabled step has nobody waiting.

Models: the store of threads, `WorkerState` and `safe_recv_data`; the aio server; two consumers of a Kafka group.
