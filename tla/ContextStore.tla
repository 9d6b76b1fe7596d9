---------------------------- MODULE ContextStore ----------------------------
(***************************************************************************)
(* smart/utils/store: worker processes share named states through a        *)
(* manager process (mp_store.py).  A state is a manager dict with a lock.  *)
(* ContextState (store.py) reads a nested value by fetching a COPY of the  *)
(* dict under its first key, changes the copy and stores it back; every    *)
(* call of the manager is a step, and only some operations hold the lock.  *)
(* Paths have one key, or a first and a second one.                        *)
(***************************************************************************)
EXTENDS Integers, FiniteSets, Sequences

CONSTANTS
    Procs,       \* worker processes that use the state of one name
    Keys, Subs,  \* first and second keys of a path
    OpsOn,       \* OpsOn[k]: the operations the workers apply under key k
    Readonly,    \* processes that called set_readonly on their handle
    MaxOps       \* operations altogether

Increment == "set_fn"        \* with a function that adds one, as _task_counter does
GetOrSetFn == "get_or_set_fn"
Ops == {Increment, GetOrSetFn, "set", "delete", "get", "delete_key"}

States == 1 .. Cardinality(Procs)   \* at most one state for each process
Absent == 0
NoDict == <<>>
EmptyDict == [s \in Subs |-> Absent]

ASSUME StoreAssumption == /\ IsFiniteSet(Procs) /\ Procs \subseteq Nat \ {0}
                          /\ OpsOn \in [Keys -> SUBSET Ops]
                          /\ Readonly \subseteq Procs /\ MaxOps \in Nat

VARIABLES
    entry,       \* the store's entry for the name: a state, or Absent
    states,      \* states created so far, 1..states
    storeLock,   \* holder of MpContextStore.__store_lock
    handle,      \* handle[p]: the state p got from store.state(name)
    dict,        \* dict[o][k]: the dict under key k of state o, or NoDict
    lock,        \* lock[o]: holder of the lock of state o
    pc, op,      \* pc[p], op[p]: where p stands in its operation
    copy,        \* copy[p]: the dict p fetched
    count,       \* operations begun
    increments,  \* history: increments[k][s]: set_fn whose value is stored
    answers      \* history: answers[k][s]: what get_or_set_fn returned, and to whom

nameVars == <<entry, states, storeLock, handle>>
history == <<increments, answers>>
vars == <<nameVars, dict, lock, pc, op, copy, count, history>>

NoOp == [kind |-> "none", k |-> Absent, s |-> Absent]
Free == 0

Init ==
    /\ entry = Absent /\ states = 0 /\ storeLock = Free
    /\ handle = [p \in Procs |-> Absent]
    /\ dict = [o \in States |-> [k \in Keys |-> NoDict]]
    /\ lock = [o \in States |-> Free]
    /\ pc = [p \in Procs |-> "lookup"] /\ op = [p \in Procs |-> NoOp]
    /\ copy = [p \in Procs |-> EmptyDict]
    /\ count = 0
    /\ increments = [k \in Keys |-> [s \in Subs |-> 0]]
    /\ answers = [k \in Keys |-> [s \in Subs |-> <<>>]]

Goto(p, l) == pc' = [pc EXCEPT ![p] = l]

-----------------------------------------------------------------------------
(* MpContextStore.state(name): a double-checked creation. *)

Found(p) == handle' = [handle EXCEPT ![p] = entry] /\ Goto(p, "ready")

Lookup(p) ==
    /\ pc[p] = "lookup"
    /\ IF entry # Absent THEN Found(p) ELSE Goto(p, "store_lock") /\ UNCHANGED handle
    /\ UNCHANGED <<entry, states, storeLock, dict, lock, op, copy, count, history>>

AcquireStore(p) ==
    /\ pc[p] = "store_lock" /\ storeLock = Free
    /\ storeLock' = p /\ Goto(p, "lookup_again")
    /\ UNCHANGED <<entry, states, handle, dict, lock, op, copy, count, history>>

\* A fault: the entry is not looked up again under the lock.
CreateUnchecked(p) ==
    /\ pc[p] = "lookup_again" /\ Goto(p, "create")
    /\ UNCHANGED <<nameVars, dict, lock, op, copy, count, history>>

LookupAgain(p) ==
    /\ pc[p] = "lookup_again"
    /\ IF entry # Absent
       THEN Found(p) /\ storeLock' = Free
       ELSE Goto(p, "create") /\ UNCHANGED <<handle, storeLock>>
    /\ UNCHANGED <<entry, states, dict, lock, op, copy, count, history>>

\* A new manager dict and lock become the entry; the lock is released.
Create(p) ==
    /\ pc[p] = "create"
    /\ states' = states + 1 /\ entry' = states + 1
    /\ handle' = [handle EXCEPT ![p] = states + 1]
    /\ storeLock' = Free /\ Goto(p, "ready")
    /\ UNCHANGED <<dict, lock, op, copy, count, history>>

-----------------------------------------------------------------------------
(* The operations of ContextState. *)

D(p) == dict[handle[p]][op[p].k]
Store(p, d) == dict' = [dict EXCEPT ![handle[p]][op[p].k] = d]
Holds(p) == lock[handle[p]] = p

\* Two faults: only one of the two operations takes the lock.
LockedDefaultsOnly(kind) == kind = GetOrSetFn
LockedIncrementsOnly(kind) == kind = Increment
\* set_fn, get_or_set and get_or_set_fn take the lock, the others do not.
Locked(kind) == kind \in {Increment, GetOrSetFn}
\* What _find_op does when the first key is missing: make a dict, or miss.
MakesDict(kind) == kind \in {Increment, GetOrSetFn, "set"}

Begin(p, kind, k, s) ==
    /\ pc[p] = "ready" /\ count < MaxOps /\ count' = count + 1
    /\ op' = [op EXCEPT ![p] = [kind |-> kind, k |-> k, s |-> s]]
    /\ Goto(p, IF Locked(kind) THEN "lock" ELSE IF kind = "delete_key" THEN "has_key" ELSE "has")
    /\ UNCHANGED <<nameVars, dict, lock, copy, history>>

AcquireLock(p) ==
    /\ pc[p] = "lock" /\ lock[handle[p]] = Free
    /\ lock' = [lock EXCEPT ![handle[p]] = p] /\ Goto(p, "has")
    /\ UNCHANGED <<nameVars, dict, op, copy, count, history>>

\* "sub_key not in obj"
Has(p) ==
    /\ pc[p] = "has"
    /\ Goto(p, IF D(p) # NoDict THEN "fetch"
               ELSE IF MakesDict(op[p].kind) THEN "make" ELSE "finish")
    /\ UNCHANGED <<nameVars, dict, lock, op, copy, count, history>>

\* on_no_sub: obj[sub_key] = {}
MakeDict(p) ==
    /\ pc[p] = "make" /\ Store(p, EmptyDict) /\ Goto(p, "has_made")
    /\ UNCHANGED <<nameVars, lock, op, copy, count, history>>

\* "sub_key in obj" again
HasMade(p) ==
    /\ pc[p] = "has_made"
    /\ Goto(p, IF D(p) # NoDict THEN "fetch" ELSE "finish")
    /\ UNCHANGED <<nameVars, dict, lock, op, copy, count, history>>

\* on_found works on the copy; what it returns decides whether to store it.
OnFound(kind, p, old) == CASE kind = Increment -> old + 1
                           [] kind = GetOrSetFn -> IF old = Absent THEN p ELSE old
                           [] kind = "set" -> p
                           [] kind = "delete" -> Absent
                           [] kind = "get" -> old
Updates(kind, old) == kind \in {Increment, "set", "delete"} \/ (kind = GetOrSetFn /\ old = Absent)

\* "sub_obj = obj[sub_key]": a copy, or KeyError when the key has gone.
Fetch(p) ==
    LET old == D(p)[op[p].s]
        new == OnFound(op[p].kind, p, old)
    IN
    /\ pc[p] = "fetch"
    /\ IF D(p) = NoDict
       THEN Goto(p, "finish") /\ UNCHANGED <<copy, answers>>
       ELSE /\ copy' = [copy EXCEPT ![p] = [D(p) EXCEPT ![op[p].s] = new]]
            /\ Goto(p, IF Updates(op[p].kind, old) THEN "write" ELSE "finish")
            /\ answers' = IF op[p].kind = GetOrSetFn
                          THEN [answers EXCEPT ![op[p].k][op[p].s] =
                                    Append(@, [by |-> p, value |-> new])]
                          ELSE answers
    /\ UNCHANGED <<nameVars, dict, lock, op, count, increments>>

\* update_state_op: obj[sub_key] = sub_obj, unless the handle is read only.
Write(p) ==
    /\ pc[p] = "write" /\ Goto(p, "finish")
    /\ IF p \in Readonly THEN UNCHANGED <<dict, increments>>
       ELSE /\ Store(p, copy[p])
            /\ increments' = IF op[p].kind = Increment
                             THEN [increments EXCEPT ![op[p].k][op[p].s] = @ + 1]
                             ELSE increments
    /\ UNCHANGED <<nameVars, lock, op, copy, count, answers>>

\* finally: the lock is released, also when an exception leaves the operation.
Finish(p) ==
    /\ pc[p] = "finish" /\ Goto(p, "ready")
    /\ lock' = IF Holds(p) THEN [lock EXCEPT ![handle[p]] = Free] ELSE lock
    /\ op' = [op EXCEPT ![p] = NoOp] /\ copy' = [copy EXCEPT ![p] = EmptyDict]
    /\ UNCHANGED <<nameVars, dict, count, history>>

\* delete(k): "key in obj and obj.__delitem__(key)", two calls.
HasKey(p) ==
    /\ pc[p] = "has_key" /\ Goto(p, IF D(p) = NoDict THEN "finish" ELSE "delete_key")
    /\ UNCHANGED <<nameVars, dict, lock, op, copy, count, history>>

DeleteKey(p) ==
    /\ pc[p] = "delete_key" /\ Store(p, NoDict) /\ Goto(p, "finish")
    /\ UNCHANGED <<nameVars, lock, op, copy, count, history>>

-----------------------------------------------------------------------------
StateOf(p) == Lookup(p) \/ AcquireStore(p) \/ LookupAgain(p) \/ Create(p)
Operation(p) == \/ AcquireLock(p) \/ Has(p) \/ MakeDict(p) \/ HasMade(p) \/ Fetch(p)
                \/ Write(p) \/ Finish(p) \/ HasKey(p) \/ DeleteKey(p)
Next == \E p \in Procs : \/ StateOf(p) \/ Operation(p)
                         \/ \E k \in Keys, s \in Subs : \E kind \in OpsOn[k] : Begin(p, kind, k, s)

Spec == Init /\ [][Next]_vars
-----------------------------------------------------------------------------
(* Properties. *)

Asking == {"lookup", "store_lock", "lookup_again", "create"}
Locations == Asking \union {"ready", "lock", "has", "make", "has_made", "fetch", "write",
                            "finish", "has_key", "delete_key"}
Answers == Seq([by : Procs, value : Nat \ {Absent}])

TypeOK ==
    /\ states \in 0..Cardinality(Procs) /\ entry \in 0..states /\ count \in 0..MaxOps
    /\ storeLock \in Procs \union {Free} /\ lock \in [States -> Procs \union {Free}]
    /\ handle \in [Procs -> 0..states] /\ pc \in [Procs -> Locations]
    /\ op \in [Procs -> [kind : Ops \union {"none"}, k : Keys \union {Absent},
                         s : Subs \union {Absent}]]
    /\ dict \in [States -> [Keys -> [Subs -> Nat] \union {NoDict}]]
    /\ copy \in [Procs -> [Subs -> Nat]]
    /\ increments \in [Keys -> [Subs -> Nat]]
    /\ answers \in [Keys -> [Subs -> Answers]]
    /\ \A p \in Procs : pc[p] \notin Asking => handle[p] # Absent
    /\ \A o \in States, p \in Procs : lock[o] = p => handle[p] = o /\ Locked(op[p].kind)

\* All processes that asked for a name hold the same state, hence the same lock
\* (MpContextStore.__store_get, mp_store.py:48-64).  (The types are part of it.)
OneStatePerName ==
    TypeOK /\ \A p, q \in Procs : handle[p] # Absent /\ handle[q] # Absent => handle[p] = handle[q]

\* Under a first key that is only used through set_fn, each counter is what its
\* increments add up to: no copy of the dict stored back takes an increment of
\* the same or another second key away (TaskPod._task_counter, store.py:235-267).
CountersExact ==
    \A k \in Keys : OpsOn[k] \subseteq {Increment, "get"} =>
        \A s \in Subs : increments[k][s] =
            IF entry = Absent \/ dict[entry][k] = NoDict THEN 0 ELSE dict[entry][k][s]

\* Where nothing else writes, get_or_set_fn gives one default away: after the
\* answer to a caller that may write, every answer is that value, a read-only
\* caller's too.  (Before it a read-only caller gets a default of its own, which
\* update_state_op does not store: such answers may differ, store.py:97-99, 200-233.)
OneDefault ==
    \A k \in Keys, s \in Subs : OpsOn[k] \subseteq {GetOrSetFn, "get"} =>
        LET given == answers[k][s] IN
        \A i \in 1 .. Len(given), j \in 1 .. Len(given) :
            i < j /\ given[i].by \notin Readonly => given[j].value = given[i].value
=============================================================================
