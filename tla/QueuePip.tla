------------------------------ MODULE QueuePip ------------------------------
(***************************************************************************)
(* The pips of a task tree: smart/auto/pip/QueuePip.py, one per task that  *)
(* has an upstream task, each over a multiprocessing.Queue created by      *)
(* TreeTaskExecutor.pip_fn.                                                *)
(*                                                                         *)
(* A multiprocessing.Queue is a pipe shared by all processes plus one      *)
(* buffer per SENDING process: put() takes a slot of the queue's           *)
(* semaphore, appends to the buffer of its own process and returns; a      *)
(* feeder thread of that process moves the items to the pipe.  Items of    *)
(* one process stay in order; items of two processes do not.               *)
(***************************************************************************)
EXTENDS TaskTree

CONSTANTS
  Bound,        \* Bound[t]: maxsize of the queue into t, 0 when unbounded
  PipeCapacity  \* the messages an OS pipe holds before a writer blocks

ASSUME PipAssumption ==
  /\ Bound \in [Tasks -> Nat]
  /\ PipeCapacity \in Nat \ {0}

VARIABLES
  buf,      \* buf[p][t]: what process p has put and its feeder not yet written
  pipe,     \* pipe[t]: what the OS pipe of t's queue holds
  slots,    \* slots[t]: the value of the queue's semaphore (bounded queues)
  isEnded   \* isEnded[p][t]: QueuePip.is_ended of p's copy of t's pip

pipVars == <<buf, pipe, slots, isEnded>>

Data(x) == [type |-> "data", item |-> x]

\* Command(CommandType.end); args.no_forward is set on forwarded copies.
EndCmd == [type |-> "end", no_forward |-> FALSE]
ForwardedEnd == [type |-> "end", no_forward |-> TRUE]

Messages ==
  [type : {"data"}, item : Items] \cup [type : {"end"}, no_forward : BOOLEAN]

PipTypeOK ==
  /\ buf \in [Procs -> [Tasks -> Seq(Messages)]]
  /\ pipe \in [Tasks -> Seq(Messages)]
  /\ slots \in [Tasks -> Nat]
  /\ isEnded \in [Procs -> [Tasks -> BOOLEAN]]

PipInit ==
  /\ buf = [p \in Procs |-> [t \in Tasks |-> <<>>]]
  /\ pipe = [t \in Tasks |-> <<>>]
  /\ slots = Bound
  /\ isEnded = [p \in Procs |-> [t \in Tasks |-> FALSE]]

Bounded(t) == Bound[t] > 0

\* Mutant of Put: put_nowait, whose Full is ignored.
PutIfFree(p, t, m) ==
  /\ LET full == Bounded(t) /\ slots[t] = 0
     IN /\ slots' = IF Bounded(t) /\ ~ full THEN [slots EXCEPT ![t] = @ - 1] ELSE slots
        /\ buf' = IF full THEN buf ELSE [buf EXCEPT ![p][t] = Append(@, m)]
  /\ UNCHANGED <<pipe, isEnded>>

\* QueuePip.send: Queue.put(block=True), which blocks while no slot is free.
Put(p, t, m) ==
  /\ Bounded(t) => slots[t] > 0
  /\ slots' = IF Bounded(t) THEN [slots EXCEPT ![t] = @ - 1] ELSE slots
  /\ buf' = [buf EXCEPT ![p][t] = Append(@, m)]
  /\ UNCHANGED <<pipe, isEnded>>

\* Mutant of Flush: the buffer is a stack.
FlushNewest(p, t) ==
  /\ buf[p][t] # <<>>
  /\ Len(pipe[t]) < PipeCapacity
  /\ pipe' = [pipe EXCEPT ![t] = Append(@, buf[p][t][Len(buf[p][t])])]
  /\ buf' = [buf EXCEPT ![p][t] = SubSeq(@, 1, Len(@) - 1)]
  /\ UNCHANGED <<slots, isEnded>>

\* The feeder thread of process p writes one message to the pipe of t.
Flush(p, t) ==
  /\ buf[p][t] # <<>>
  /\ Len(pipe[t]) < PipeCapacity
  /\ pipe' = [pipe EXCEPT ![t] = Append(@, Head(buf[p][t]))]
  /\ buf' = [buf EXCEPT ![p][t] = Tail(@)]
  /\ UNCHANGED <<slots, isEnded>>

\* Mutant of Get: the slot is not given back.
GetKeepingSlot(t) ==
  /\ pipe[t] # <<>>
  /\ pipe' = [pipe EXCEPT ![t] = Tail(@)]
  /\ UNCHANGED <<slots, buf>>

\* Queue.get: the head of the pipe is taken and a slot is given back.
Get(t) ==
  /\ pipe[t] # <<>>
  /\ pipe' = [pipe EXCEPT ![t] = Tail(@)]
  /\ slots' = IF Bounded(t) THEN [slots EXCEPT ![t] = @ + 1] ELSE slots
  /\ UNCHANGED buf

\* QueuePip.recv, data branch: the item is yielded to the user function.  The
\* loop tests is_ended before it calls get(), so a thread already inside get()
\* takes a message even when another thread has set the flag meanwhile.
RecvItem(t, x) ==
  /\ pipe[t] # <<>>
  /\ Head(pipe[t]) = Data(x)
  /\ Get(t)
  /\ UNCHANGED isEnded

\* QueuePip.recv, CommandType.end branch: is_ended is set before on_end.
RecvEnd(p, t) ==
  /\ pipe[t] # <<>>
  /\ Head(pipe[t]).type = "end"
  /\ Get(t)
  /\ isEnded' = [isEnded EXCEPT ![p][t] = TRUE]

\* One round of QueuePip.clean: whatever is in the pipe is thrown away.
CleanOne(t) == Get(t) /\ UNCHANGED isEnded

\* A process that dies takes what its feeder had not written with it.
DropBuffers(p) ==
  /\ buf' = [buf EXCEPT ![p] = [t \in Tasks |-> <<>>]]
  /\ UNCHANGED <<pipe, slots, isEnded>>

Flushed(p) == \A t \in Tasks : buf[p][t] = <<>>
=============================================================================
