------------------------- MODULE ContextStoreProofs --------------------------
(***************************************************************************)
(* One state for each name, no lost increment and one default, for every   *)
(* set of processes, keys and operations of ContextStore.                  *)
(***************************************************************************)
EXTENDS ContextStore, FiniteSetTheorems, TLAPS

(***************************************************************************)
(* The inductive invariant                                                 *)
(***************************************************************************)

\* state(name): the store's lock guards the creation, so that at most one
\* state is made, and whoever is past state(name) holds it.
NameOK ==
    /\ states \in {0, 1} /\ entry = states
    /\ \A p \in Procs :
        /\ pc[p] \in {"lookup_again", "create"} => storeLock = p
        /\ pc[p] = "create" => entry = Absent
        /\ pc[p] \in Asking => handle[p] = Absent
        /\ pc[p] \notin Asking => entry = 1 /\ handle[p] = 1
    /\ entry = Absent => \A o \in States, k \in Keys : dict[o][k] = NoDict

InOperation == {"lock", "has", "make", "has_made", "fetch", "write", "finish",
                "has_key", "delete_key"}
Critical == {"has", "make", "has_made", "fetch", "write"}

\* The operation p is in is one of those applied under its key, at a line
\* of its own, and inside its try block it holds the lock of its state.
OperationOK ==
    \A p \in Procs :
        /\ pc[p] \notin InOperation => op[p] = NoOp
        /\ pc[p] \in InOperation => /\ op[p].k \in Keys /\ op[p].s \in Subs
                                    /\ op[p].kind \in OpsOn[op[p].k]
        /\ pc[p] = "lock" => Locked(op[p].kind)
        /\ pc[p] \in Critical => op[p].kind # "delete_key"
        /\ pc[p] \in {"make", "has_made"} => MakesDict(op[p].kind)
        /\ pc[p] = "write" => op[p].kind # "get"
        /\ pc[p] \in {"has_key", "delete_key"} => op[p].kind = "delete_key"
        /\ pc[p] \in Critical /\ Locked(op[p].kind) => lock[1] = p

\* Under k nothing is changed without the lock.
Guarded(k) == OpsOn[k] \subseteq {Increment, GetOrSetFn, "get"}

\* What a holder of the lock saw of such a key is still true when it writes.
FetchedBy(p) ==
    pc[p] \in {"make", "write"} /\ Guarded(op[p].k) =>
        LET d == dict[1][op[p].k]  s == op[p].s IN
        /\ pc[p] = "make" => d = NoDict
        /\ pc[p] = "write" => /\ d # NoDict
                              /\ copy[p] = [d EXCEPT ![s] = OnFound(op[p].kind, p, d[s])]
                              /\ Updates(op[p].kind, d[s])
FetchedOK == \A p \in Procs : FetchedBy(p)

\* The value under a first and a second key.
Stored(k, s) == IF entry = Absent \/ dict[1][k] = NoDict THEN Absent ELSE dict[1][k][s]

\* Only read-only callers were answered something else than v, and only before
\* any caller that may write was answered.
SettledOn(v, given) ==
    \A i \in 1 .. Len(given) : given[i].value = v \/ \A j \in 1 .. i : given[j].by \in Readonly

\* What get_or_set_fn answered a caller that may write is stored, or is what
\* the holder of the lock is about to store.
DefaultOK ==
    \A k \in Keys : OpsOn[k] \subseteq {GetOrSetFn, "get"} =>
        \A s \in Subs :
            \/ SettledOn(Stored(k, s), answers[k][s])
            \/ \E p \in Procs \ Readonly : /\ pc[p] = "write" /\ op[p].k = k /\ op[p].s = s
                                           /\ SettledOn(p, answers[k][s])

IInv == TypeOK /\ NameOK /\ OperationOK /\ FetchedOK /\ CountersExact /\ DefaultOK

(***************************************************************************)
(* The types                                                               *)
(***************************************************************************)

\* With a process there is room for a state.
LEMMA OneIsAState ==
  ASSUME NEW p \in Procs
  PROVE  1 \in States /\ Cardinality(Procs) \in Nat \ {0} /\ p \in Nat /\ p # 0
<1>1. Cardinality(Procs) \in Nat
  BY FS_CardinalityType, StoreAssumption
<1>2. Cardinality(Procs) # 0
  BY FS_EmptySet, StoreAssumption
<1> QED
  BY <1>1, <1>2, StoreAssumption DEF States

\* A dict is no missing dict.
LEMMA DictIsADict ==
  ASSUME NEW d \in [Subs -> Nat], NEW s \in Subs
  PROVE  d # NoDict
BY DEF NoDict

\* Whoever is in an operation has its state, its key and its kind.
LEMMA InOperationFacts ==
  ASSUME TypeOK, NameOK, OperationOK, NEW p \in Procs, pc[p] \in InOperation
  PROVE  /\ entry = 1 /\ handle[p] = 1 /\ 1 \in States
         /\ op[p].k \in Keys /\ op[p].s \in Subs
         /\ op[p].kind \in OpsOn[op[p].k] /\ op[p].kind \in Ops
         /\ D(p) = dict[1][op[p].k]
         /\ D(p) \in [Subs -> Nat] \union {NoDict}
<1>1. pc[p] \notin Asking
  BY DEF InOperation, Asking
<1>2. entry = 1 /\ handle[p] = 1 /\ 1 \in States
  BY <1>1, OneIsAState DEF NameOK
<1>3. op[p].k \in Keys /\ op[p].s \in Subs /\ op[p].kind \in OpsOn[op[p].k]
  BY DEF OperationOK
<1>4. op[p].kind \in Ops
  BY <1>3, StoreAssumption
<1> QED
  BY <1>2, <1>3, <1>4 DEF D, TypeOK

\* What on_found returns is a value.
LEMMA OnFoundType ==
  ASSUME NEW kind \in Ops \ {"delete_key"}, NEW p \in Procs, NEW old \in Nat
  PROVE  OnFound(kind, p, old) \in Nat
<1>1. p \in Nat
  BY OneIsAState
<1>2. CASE kind = Increment
  BY <1>2 DEF OnFound, Increment, GetOrSetFn
<1>3. CASE kind = GetOrSetFn
  BY <1>1, <1>3 DEF OnFound, Increment, GetOrSetFn
<1>4. CASE kind = "set"
  BY <1>1, <1>4 DEF OnFound, Increment, GetOrSetFn
<1>5. CASE kind = "delete"
  BY <1>5 DEF OnFound, Increment, GetOrSetFn, Absent
<1>6. CASE kind = "get"
  BY <1>6 DEF OnFound, Increment, GetOrSetFn
<1> QED
  BY <1>2, <1>3, <1>4, <1>5, <1>6 DEF Ops

\* A dict stored under the key of p's operation is a dict of p's state.
LEMMA StoreType ==
  ASSUME TypeOK, NameOK, OperationOK, NEW p \in Procs, pc[p] \in InOperation,
         NEW d \in [Subs -> Nat] \union {NoDict}, Store(p, d)
  PROVE  /\ dict' \in [States -> [Keys -> [Subs -> Nat] \union {NoDict}]]
         /\ dict' = [dict EXCEPT ![1][op[p].k] = d]
BY InOperationFacts DEF Store, TypeOK

\* state(name) keeps the types.
LEMMA StateOfTypes ==
  ASSUME TypeOK, NameOK, OperationOK, NEW p \in Procs, StateOf(p)
  PROVE  TypeOK'
<1>1. Cardinality(Procs) \in Nat \ {0}
  BY OneIsAState
<1>2. \A o \in States : lock[o] # p
  <2>1. pc[p] \notin InOperation
    BY DEF StateOf, Lookup, AcquireStore, LookupAgain, Create, InOperation
  <2>2. op[p] = NoOp
    BY <2>1 DEF OperationOK
  <2>3. ~ Locked(op[p].kind)
    BY <2>2 DEF NoOp, Locked, Increment, GetOrSetFn
  <2> QED
    BY <2>3 DEF TypeOK
<1>3. CASE Lookup(p)
  <2>1. /\ handle' \in [Procs -> 0 .. states'] /\ pc' \in [Procs -> Locations]
        /\ \A q \in Procs : pc'[q] \notin Asking => handle'[q] # Absent
    <3>1. CASE entry # Absent
      <4>1. /\ handle' = [handle EXCEPT ![p] = entry] /\ pc' = [pc EXCEPT ![p] = "ready"]
            /\ UNCHANGED states
        BY <1>3, <3>1 DEF Lookup, Found, Goto
      <4> QED
        BY <3>1, <4>1 DEF TypeOK, Asking, Locations, Absent
    <3>2. CASE entry = Absent
      <4>1. /\ handle' = handle /\ pc' = [pc EXCEPT ![p] = "store_lock"]
            /\ UNCHANGED states
        <5>1. pc' = [pc EXCEPT ![p] = "store_lock"]
          BY <1>3, <3>2 DEF Lookup, Goto
        <5>2. handle' = handle /\ UNCHANGED states
          BY <1>3, <3>2 DEF Lookup
        <5> QED
          BY <5>1, <5>2
      <4>2. pc' \in [Procs -> Locations]
        BY <4>1 DEF TypeOK, Locations, Asking
      <4>3. handle' \in [Procs -> 0 .. states']
        BY <4>1 DEF TypeOK
      <4>4. ASSUME NEW q \in Procs, pc'[q] \notin Asking PROVE handle'[q] # Absent
        <5>1. q # p
          BY <4>1, <4>4 DEF TypeOK, Asking
        <5> QED
          BY <4>1, <4>4, <5>1 DEF TypeOK
      <4> QED
        BY <4>1, <4>2, <4>3, <4>4 DEF TypeOK
    <3> QED
      BY <3>1, <3>2
  <2>2. \A o \in States, q \in Procs : lock'[o] = q => handle'[q] = o /\ Locked(op'[q].kind)
    BY <1>2, <1>3 DEF Lookup, Found, TypeOK
  <2> QED
    BY <1>3, <2>1, <2>2 DEF Lookup, TypeOK, history
<1>4. CASE AcquireStore(p)
  BY <1>1, <1>2, <1>4 DEF AcquireStore, Goto, TypeOK, Asking, Locations, Absent, history
<1>5. CASE LookupAgain(p)
  <2>1. /\ handle' \in [Procs -> 0 .. states'] /\ pc' \in [Procs -> Locations]
        /\ \A q \in Procs : pc'[q] \notin Asking => handle'[q] # Absent
        /\ storeLock' \in Procs \union {Free}
    <3>1. CASE entry # Absent
      <4>1. /\ handle' = [handle EXCEPT ![p] = entry] /\ pc' = [pc EXCEPT ![p] = "ready"]
            /\ UNCHANGED states /\ storeLock' = Free
        BY <1>5, <3>1 DEF LookupAgain, Found, Goto
      <4> QED
        BY <3>1, <4>1 DEF TypeOK, Asking, Locations, Absent, Free
    <3>2. CASE entry = Absent
      <4>1. /\ handle' = handle /\ pc' = [pc EXCEPT ![p] = "create"]
            /\ UNCHANGED states /\ storeLock' = storeLock
        <5>1. pc' = [pc EXCEPT ![p] = "create"]
          BY <1>5, <3>2 DEF LookupAgain, Goto
        <5>2. handle' = handle /\ UNCHANGED states /\ storeLock' = storeLock
          BY <1>5, <3>2 DEF LookupAgain
        <5> QED
          BY <5>1, <5>2
      <4>2. pc' \in [Procs -> Locations]
        BY <4>1 DEF TypeOK, Locations, Asking
      <4>3. handle' \in [Procs -> 0 .. states']
        BY <4>1 DEF TypeOK
      <4>4. ASSUME NEW q \in Procs, pc'[q] \notin Asking PROVE handle'[q] # Absent
        <5>1. q # p
          BY <4>1, <4>4 DEF TypeOK, Asking
        <5> QED
          BY <4>1, <4>4, <5>1 DEF TypeOK
      <4> QED
        BY <4>1, <4>2, <4>3, <4>4 DEF TypeOK
    <3> QED
      BY <3>1, <3>2
  <2>2. \A o \in States, q \in Procs : lock'[o] = q => handle'[q] = o /\ Locked(op'[q].kind)
    BY <1>2, <1>5 DEF LookupAgain, Found, TypeOK
  <2> QED
    BY <1>5, <2>1, <2>2 DEF LookupAgain, TypeOK, history
<1>6. CASE Create(p)
  <2>1. states = 0 /\ states' = 1 /\ entry' = 1
    BY <1>6 DEF Create, NameOK, Absent
  <2>2. handle' = [handle EXCEPT ![p] = 1]
    BY <1>6, <2>1 DEF Create
  <2>3. /\ handle' \in [Procs -> 0 .. 1] /\ pc' \in [Procs -> Locations]
        /\ \A q \in Procs : pc'[q] \notin Asking => handle'[q] # Absent
    BY <1>6, <2>1, <2>2 DEF Create, Goto, TypeOK, NameOK, Asking, Locations, Absent
  <2>4. \A o \in States, q \in Procs : lock'[o] = q => handle'[q] = o /\ Locked(op'[q].kind)
    BY <1>2, <1>6, <2>2 DEF Create, TypeOK
  <2>5. states' \in 0 .. Cardinality(Procs) /\ entry' \in 0 .. states'
    BY <1>1, <2>1
  <2> QED
    BY <1>6, <2>1, <2>3, <2>4, <2>5 DEF Create, TypeOK, Free, history
<1> QED
  BY <1>3, <1>4, <1>5, <1>6 DEF StateOf
\* So does the beginning of an operation,
LEMMA BeginTypes ==
  ASSUME TypeOK, NameOK, OperationOK, NEW p \in Procs, NEW k \in Keys, NEW s \in Subs,
         NEW kind \in OpsOn[k], Begin(p, kind, k, s)
  PROVE  TypeOK'
<1>1. pc[p] = "ready" /\ count < MaxOps /\ count' = count + 1 /\ MaxOps \in Nat
  BY StoreAssumption DEF Begin
<1>2. op[p] = NoOp
  BY <1>1 DEF OperationOK, InOperation
<1>3. ~ Locked(op[p].kind)
  BY <1>2 DEF NoOp, Locked, Increment, GetOrSetFn
<1>4. \A o \in States : lock[o] # p
  BY <1>3 DEF TypeOK
<1>5. [kind |-> kind, k |-> k, s |-> s]
        \in [kind : Ops \union {"none"}, k : Keys \union {Absent}, s : Subs \union {Absent}]
  BY StoreAssumption
<1>6. op' \in [Procs -> [kind : Ops \union {"none"}, k : Keys \union {Absent},
                         s : Subs \union {Absent}]]
  BY <1>5 DEF Begin, TypeOK
<1>7. /\ pc' \in [Procs -> Locations]
      /\ \A q \in Procs : pc'[q] \notin Asking => handle[q] # Absent
  BY <1>1 DEF Begin, Goto, TypeOK, Asking, Locations
<1>8. \A o \in States, q \in Procs : lock[o] = q => handle[q] = o /\ Locked(op'[q].kind)
  BY <1>4 DEF Begin, TypeOK
<1> QED
  BY <1>1, <1>6, <1>7, <1>8 DEF Begin, TypeOK, nameVars, history

\* and every step of one.
LEMMA OperationTypes ==
  ASSUME TypeOK, NameOK, OperationOK, NEW p \in Procs, Operation(p)
  PROVE  TypeOK'
<1>1. pc[p] \in InOperation
  BY DEF Operation, AcquireLock, Has, MakeDict, HasMade, Fetch, Write, Finish, HasKey, DeleteKey,
         InOperation
<1>2. /\ handle[p] = 1 /\ 1 \in States /\ op[p].k \in Keys /\ op[p].s \in Subs
      /\ op[p].kind \in Ops /\ D(p) = dict[1][op[p].k]
      /\ D(p) \in [Subs -> Nat] \union {NoDict}
  BY <1>1, InOperationFacts
<1>3. ASSUME NEW l \in Locations, Goto(p, l), UNCHANGED handle
      PROVE  /\ pc' \in [Procs -> Locations]
             /\ \A q \in Procs : pc'[q] \notin Asking => handle'[q] # Absent
  BY <1>1, <1>3 DEF Goto, TypeOK, Asking, InOperation
<1>4. EmptyDict \in [Subs -> Nat]
  BY DEF EmptyDict, Absent
<1>5. CASE AcquireLock(p)
  <2>1. lock' \in [States -> Procs \union {Free}]
    BY <1>5 DEF AcquireLock, TypeOK
  <2>2. Locked(op[p].kind)
    BY <1>5 DEF AcquireLock, OperationOK
  <2>3. \A o \in States, q \in Procs : lock'[o] = q => handle[q] = o /\ Locked(op[q].kind)
    BY <1>2, <1>5, <2>2 DEF AcquireLock, TypeOK
  <2>4. "has" \in Locations
    BY DEF Locations
  <2> QED
    BY <1>3, <1>5, <2>1, <2>3, <2>4 DEF AcquireLock, TypeOK, nameVars, history
<1>6. CASE Has(p)
  <2>1. {"fetch", "make", "finish"} \subseteq Locations
    BY DEF Locations
  <2> QED
    BY <1>3, <1>6, <2>1 DEF Has, TypeOK, nameVars, history
<1>7. CASE MakeDict(p)
  <2>1. dict' \in [States -> [Keys -> [Subs -> Nat] \union {NoDict}]]
    BY <1>1, <1>4, <1>7, StoreType DEF MakeDict
  <2>2. "has_made" \in Locations
    BY DEF Locations
  <2> QED
    BY <1>3, <1>7, <2>1, <2>2 DEF MakeDict, TypeOK, nameVars, history
<1>8. CASE HasMade(p)
  <2>1. {"fetch", "finish"} \subseteq Locations
    BY DEF Locations
  <2> QED
    BY <1>3, <1>8, <2>1 DEF HasMade, TypeOK, nameVars, history
<1>9. CASE Fetch(p)
  <2>1. {"write", "finish"} \subseteq Locations
    BY DEF Locations
  <2>2. CASE D(p) = NoDict
    BY <1>3, <1>9, <2>1, <2>2 DEF Fetch, TypeOK, nameVars, history
  <2>3. CASE D(p) # NoDict
    <3> DEFINE new == OnFound(op[p].kind, p, D(p)[op[p].s])
    <3>1. op[p].kind # "delete_key"
      BY <1>9 DEF Fetch, OperationOK, Critical
    <3>2. new \in Nat
      BY <1>2, <2>3, <3>1, OnFoundType
    <3>3. copy' = [copy EXCEPT ![p] = [D(p) EXCEPT ![op[p].s] = new]]
      BY <1>9, <2>3 DEF Fetch
    <3>4. copy' \in [Procs -> [Subs -> Nat]]
      BY <1>2, <2>3, <3>2, <3>3 DEF TypeOK
    <3> DEFINE more == Append(answers[op[p].k][op[p].s], [by |-> p, value |-> new])
    <3>5. answers' = IF op[p].kind = GetOrSetFn
                     THEN [answers EXCEPT ![op[p].k][op[p].s] = more]
                     ELSE answers
      BY <1>9, <2>3 DEF Fetch
    <3>8. ASSUME op[p].kind = GetOrSetFn
          PROVE  more \in Answers
      <4>1. answers[op[p].k][op[p].s] \in Answers
        BY <1>2 DEF TypeOK
      <4>2. new # Absent
        BY <3>8, OneIsAState DEF OnFound, Increment, GetOrSetFn, Absent
      <4> HIDE DEF new
      <4> QED
        BY <3>2, <4>1, <4>2 DEF Answers
    <3> HIDE DEF more
    <3>6. answers' \in [Keys -> [Subs -> Answers]]
      BY <1>2, <3>5, <3>8 DEF TypeOK
    <3>7. \E l \in Locations : Goto(p, l)
      BY <1>9, <2>1, <2>3 DEF Fetch
    <3> QED
      BY <1>3, <1>9, <3>4, <3>6, <3>7 DEF Fetch, TypeOK, nameVars
  <2> QED
    BY <2>2, <2>3
<1>10. CASE Write(p)
  <2>1. "finish" \in Locations
    BY DEF Locations
  <2>2. copy[p] \in [Subs -> Nat]
    BY DEF TypeOK
  <2>3. dict' \in [States -> [Keys -> [Subs -> Nat] \union {NoDict}]]
    BY <1>1, <1>10, <2>2, StoreType DEF Write, TypeOK
  <2>4. increments' \in [Keys -> [Subs -> Nat]]
    <3>1. CASE UNCHANGED increments
      BY <3>1 DEF TypeOK
    <3>2. CASE increments' = [increments EXCEPT ![op[p].k][op[p].s] = @ + 1]
      BY <1>2, <3>2 DEF TypeOK
    <3> QED
      BY <1>10, <3>1, <3>2 DEF Write
  <2> QED
    BY <1>3, <1>10, <2>1, <2>3, <2>4 DEF Write, TypeOK, nameVars
<1>11. CASE Finish(p)
  <2>1. "ready" \in Locations
    BY DEF Locations
  <2>2. lock' \in [States -> Procs \union {Free}] /\ \A o \in States : lock'[o] # p
    <3>1. \A o \in States : lock[o] = p => o = 1
      BY <1>2 DEF TypeOK
    <3>2. p # Free
      BY OneIsAState DEF Free
    <3> QED
      BY <1>2, <1>11, <3>1, <3>2 DEF Finish, Holds, TypeOK
  <2>3. \A o \in States : lock'[o] = lock[o] \/ lock'[o] = Free
    BY <1>2, <1>11 DEF Finish, Holds, TypeOK
  <2>4. NoOp \in [kind : Ops \union {"none"}, k : Keys \union {Absent}, s : Subs \union {Absent}]
    BY DEF NoOp
  <2>5. op' \in [Procs -> [kind : Ops \union {"none"}, k : Keys \union {Absent},
                           s : Subs \union {Absent}]]
    BY <1>11, <2>4 DEF Finish, TypeOK
  <2>6. copy' \in [Procs -> [Subs -> Nat]]
    BY <1>4, <1>11 DEF Finish, TypeOK
  <2>7. ASSUME NEW o \in States, NEW q \in Procs, lock'[o] = q
        PROVE  handle[q] = o /\ Locked(op'[q].kind)
    <3>1. q # p /\ lock[o] = q
      BY <2>2, <2>3, <2>7, OneIsAState DEF Free
    <3> QED
      BY <1>11, <3>1 DEF Finish, TypeOK
  <2> QED
    BY <1>3, <1>11, <2>1, <2>2, <2>5, <2>6, <2>7 DEF Finish, TypeOK, nameVars, history
<1>12. CASE HasKey(p)
  <2>1. {"delete_key", "finish"} \subseteq Locations
    BY DEF Locations
  <2> QED
    BY <1>3, <1>12, <2>1 DEF HasKey, TypeOK, nameVars, history
<1>13. CASE DeleteKey(p)
  <2>1. dict' \in [States -> [Keys -> [Subs -> Nat] \union {NoDict}]]
    BY <1>1, <1>13, StoreType DEF DeleteKey
  <2>2. "finish" \in Locations
    BY DEF Locations
  <2> QED
    BY <1>3, <1>13, <2>1, <2>2 DEF DeleteKey, TypeOK, nameVars, history
<1> QED
  BY <1>5, <1>6, <1>7, <1>8, <1>9, <1>10, <1>11, <1>12, <1>13 DEF Operation

\* The types, from the invariants they rest on.
LEMMA TypeStep ==
  ASSUME TypeOK, NameOK, OperationOK, [Next]_vars
  PROVE  TypeOK'
<1>1. CASE UNCHANGED vars
  BY <1>1 DEF vars, nameVars, history, TypeOK
<1>2. CASE Next
  BY <1>2, StateOfTypes, BeginTypes, OperationTypes DEF Next
<1> QED
  BY <1>1, <1>2
(***************************************************************************)
(* One state for each name                                                 *)
(***************************************************************************)

\* An operation leaves the name alone and its process past state(name); only
\* a process in an operation touches a dict.
LEMMA OperationMoves ==
  ASSUME NEW p \in Procs, Operation(p)
  PROVE  /\ UNCHANGED nameVars
         /\ pc[p] \in InOperation
         /\ \E l \in InOperation \union {"ready"} : Goto(p, l)
<1>1. CASE AcquireLock(p)
  BY <1>1 DEF AcquireLock, InOperation
<1>2. CASE Has(p)
  BY <1>2 DEF Has, InOperation
<1>3. CASE MakeDict(p)
  BY <1>3 DEF MakeDict, InOperation
<1>4. CASE HasMade(p)
  BY <1>4 DEF HasMade, InOperation
<1>5. CASE Fetch(p)
  BY <1>5 DEF Fetch, InOperation
<1>6. CASE Write(p)
  BY <1>6 DEF Write, InOperation
<1>7. CASE Finish(p)
  BY <1>7 DEF Finish, InOperation
<1>8. CASE HasKey(p)
  BY <1>8 DEF HasKey, InOperation
<1>9. CASE DeleteKey(p)
  BY <1>9 DEF DeleteKey, InOperation
<1> QED
  BY <1>1, <1>2, <1>3, <1>4, <1>5, <1>6, <1>7, <1>8, <1>9 DEF Operation

\* NameOK is kept by every step: whoever creates holds the store's lock and
\* has looked again.
LEMMA NameStep ==
  ASSUME TypeOK, NameOK, OperationOK, [Next]_vars
  PROVE  NameOK'
<1>1. CASE UNCHANGED vars
  BY <1>1 DEF vars, nameVars, NameOK
<1>2. ASSUME NEW p \in Procs, Lookup(p)
      PROVE  NameOK'
  <2>1. CASE entry # Absent
    BY <1>2, <2>1 DEF Lookup, Found, Goto, TypeOK, NameOK, Asking, Absent
  <2>2. CASE entry = Absent
    BY <1>2, <2>2 DEF Lookup, Goto, TypeOK, NameOK, Asking, Absent
  <2> QED
    BY <2>1, <2>2
<1>3. ASSUME NEW p \in Procs, AcquireStore(p)
      PROVE  NameOK'
  <2>1. \A q \in Procs : q # Free
    BY OneIsAState DEF Free
  <2> QED
    BY <1>3, <2>1 DEF AcquireStore, Goto, TypeOK, NameOK, Asking, Absent, Free
<1>4. ASSUME NEW p \in Procs, LookupAgain(p)
      PROVE  NameOK'
  <2>1. CASE entry # Absent
    BY <1>4, <2>1 DEF LookupAgain, Found, Goto, TypeOK, NameOK, Asking, Absent
  <2>2. CASE entry = Absent
    BY <1>4, <2>2 DEF LookupAgain, Goto, TypeOK, NameOK, Asking, Absent
  <2> QED
    BY <2>1, <2>2
<1>5. ASSUME NEW p \in Procs, Create(p)
      PROVE  NameOK'
  <2>1. /\ states = 0 /\ states' = 1 /\ entry' = 1 /\ pc' = [pc EXCEPT ![p] = "ready"]
        /\ handle' = [handle EXCEPT ![p] = 1] /\ pc[p] = "create" /\ storeLock = p
    <3>1. pc[p] = "create"
      BY <1>5 DEF Create
    <3>2. storeLock = p /\ entry = 0 /\ states = 0
      BY <3>1 DEF NameOK, Absent
    <3> QED
      BY <1>5, <3>1, <3>2 DEF Create, Goto
  <2>2. \A q \in Procs : pc[q] \in Asking
    BY <2>1 DEF NameOK
  <2> QED
    BY <2>1, <2>2 DEF TypeOK, NameOK, Asking, Absent
<1>6. ASSUME NEW p \in Procs, Operation(p)
      PROVE  NameOK'
  <2>1. UNCHANGED nameVars /\ pc[p] \notin Asking /\ entry # Absent
    BY <1>6, OperationMoves DEF NameOK, InOperation, Asking, Absent
  <2>2. PICK l \in InOperation \union {"ready"} : pc' = [pc EXCEPT ![p] = l]
    BY <1>6, OperationMoves DEF Goto
  <2>3. l \notin Asking
    BY DEF InOperation, Asking
  <2> QED
    BY <2>1, <2>2, <2>3 DEF TypeOK, NameOK, Asking, nameVars
<1>7. ASSUME NEW p \in Procs, NEW k \in Keys, NEW s \in Subs, NEW kind \in OpsOn[k],
             Begin(p, kind, k, s)
      PROVE  NameOK'
  <2>1. PICK l \in InOperation : pc' = [pc EXCEPT ![p] = l]
    BY <1>7 DEF Begin, Goto, InOperation
  <2>2. l \notin Asking /\ pc[p] \notin Asking /\ UNCHANGED <<nameVars, dict>>
    BY <1>7 DEF Begin, InOperation, Asking
  <2> QED
    BY <2>1, <2>2 DEF TypeOK, NameOK, Asking, nameVars
<1> QED
  BY <1>1, <1>2, <1>3, <1>4, <1>5, <1>6, <1>7 DEF Next, StateOf

\* OperationOK is kept: a process is at a line of its operation, inside the
\* try block with the lock.
LEMMA OperationStep ==
  ASSUME TypeOK, NameOK, OperationOK, [Next]_vars
  PROVE  OperationOK'
<1>1. CASE UNCHANGED vars
  BY <1>1 DEF vars, nameVars, OperationOK
<1>2. ASSUME NEW p \in Procs, StateOf(p)
      PROVE  OperationOK'
  <2>1. UNCHANGED <<op, lock>> /\ pc[p] \notin InOperation
    BY <1>2 DEF StateOf, Lookup, AcquireStore, LookupAgain, Create, InOperation
  <2>2. PICK l \in Asking \union {"ready"} : pc' = [pc EXCEPT ![p] = l]
    BY <1>2 DEF StateOf, Lookup, AcquireStore, LookupAgain, Create, Found, Goto, Asking
  <2>3. l \notin InOperation
    BY DEF InOperation, Asking
  <2> QED
    BY <2>1, <2>2, <2>3 DEF TypeOK, OperationOK, InOperation, Critical
<1>3. ASSUME NEW p \in Procs, NEW k \in Keys, NEW s \in Subs, NEW kind \in OpsOn[k],
             Begin(p, kind, k, s)
      PROVE  OperationOK'
  <2>1. /\ op' = [op EXCEPT ![p] = [kind |-> kind, k |-> k, s |-> s]]
        /\ UNCHANGED lock /\ pc[p] = "ready"
        /\ pc' = [pc EXCEPT ![p] = IF Locked(kind) THEN "lock"
                                   ELSE IF kind = "delete_key" THEN "has_key" ELSE "has"]
    BY <1>3 DEF Begin, Goto
  <2>2. \A q \in Procs \ {p} : pc'[q] = pc[q] /\ op'[q] = op[q]
    BY <2>1 DEF TypeOK
  <2>3. /\ op'[p].kind = kind /\ op'[p].k = k /\ op'[p].s = s
        /\ pc'[p] = IF Locked(kind) THEN "lock"
                    ELSE IF kind = "delete_key" THEN "has_key" ELSE "has"
    BY <2>1 DEF TypeOK
  <2> QED
    BY <2>1, <2>2, <2>3 DEF OperationOK, InOperation, Critical
<1>4. ASSUME NEW p \in Procs, Operation(p)
      PROVE  OperationOK'
  <2>1. pc[p] \in InOperation
    BY <1>4, OperationMoves
  <2>2. /\ handle[p] = 1 /\ 1 \in States /\ op[p].k \in Keys /\ op[p].s \in Subs
        /\ op[p].kind \in Ops
    BY <2>1, InOperationFacts
  <2>3. CASE AcquireLock(p)
    <3>1. /\ lock' = [lock EXCEPT ![1] = p] /\ lock[1] = Free
          /\ pc' = [pc EXCEPT ![p] = "has"] /\ UNCHANGED op /\ pc[p] = "lock"
      BY <2>2, <2>3 DEF AcquireLock, Goto
    <3>2. \A q \in Procs : q # Free
      BY OneIsAState DEF Free
    <3>3. Locked(op[p].kind) /\ op[p].kind # "delete_key"
      BY <3>1 DEF OperationOK, Locked, Increment, GetOrSetFn
    <3> QED
      BY <2>2, <3>1, <3>2, <3>3 DEF TypeOK, OperationOK, InOperation, Critical
  <2>4. CASE Has(p) \/ MakeDict(p) \/ HasMade(p) \/ Fetch(p) \/ Write(p)
    <3>1. UNCHANGED <<op, lock>> /\ pc[p] \in Critical
      BY <2>4 DEF Has, MakeDict, HasMade, Fetch, Write, Critical
    <3>2. PICK l \in Critical \union {"finish"} :
              /\ pc' = [pc EXCEPT ![p] = l]
              /\ l \in {"make", "has_made"} => MakesDict(op[p].kind)
              /\ l = "write" => op[p].kind # "get"
      <4>1. CASE Has(p)
        <5>1. CASE D(p) # NoDict
          BY <4>1, <5>1 DEF Has, Goto, Critical
        <5>2. CASE D(p) = NoDict /\ MakesDict(op[p].kind)
          BY <4>1, <5>2 DEF Has, Goto, Critical
        <5>3. CASE D(p) = NoDict /\ ~ MakesDict(op[p].kind)
          BY <4>1, <5>3 DEF Has, Goto, Critical
        <5> QED
          BY <5>1, <5>2, <5>3
      <4>2. CASE MakeDict(p)
        BY <4>2 DEF MakeDict, Goto, Critical, OperationOK
      <4>3. CASE HasMade(p)
        <5>1. CASE D(p) # NoDict
          BY <4>3, <5>1 DEF HasMade, Goto, Critical
        <5>2. CASE D(p) = NoDict
          BY <4>3, <5>2 DEF HasMade, Goto, Critical
        <5> QED
          BY <5>1, <5>2
      <4>4. CASE Fetch(p)
        BY <4>4 DEF Fetch, Goto, Critical, Updates, Increment, GetOrSetFn
      <4>5. CASE Write(p)
        BY <4>5 DEF Write, Goto, Critical
      <4> QED
        BY <2>4, <4>1, <4>2, <4>3, <4>4, <4>5
    <3> QED
      BY <2>1, <3>1, <3>2 DEF TypeOK, OperationOK, InOperation, Critical
  <2>5. CASE Finish(p)
    <3>1. /\ op' = [op EXCEPT ![p] = NoOp] /\ pc' = [pc EXCEPT ![p] = "ready"]
          /\ lock' = IF lock[1] = p THEN [lock EXCEPT ![1] = Free] ELSE lock
      BY <2>2, <2>5 DEF Finish, Goto, Holds
    <3>2. \A q \in Procs \ {p} : lock[1] = q => lock'[1] = q
      BY <2>2, <3>1 DEF TypeOK
    <3>3. \A q \in Procs \ {p} : pc'[q] = pc[q] /\ op'[q] = op[q]
      BY <3>1 DEF TypeOK
    <3>4. pc'[p] = "ready" /\ op'[p] = NoOp
      BY <3>1 DEF TypeOK
    <3> QED
      BY <3>2, <3>3, <3>4 DEF OperationOK, InOperation, Critical
  <2>6. CASE HasKey(p) \/ DeleteKey(p)
    <3>1. UNCHANGED <<op, lock>> /\ pc[p] \in {"has_key", "delete_key"}
      BY <2>6 DEF HasKey, DeleteKey
    <3>2. PICK l \in {"delete_key", "finish"} : pc' = [pc EXCEPT ![p] = l]
      BY <2>6 DEF HasKey, DeleteKey, Goto
    <3> QED
      BY <2>1, <3>1, <3>2 DEF TypeOK, OperationOK, InOperation, Critical
  <2> QED
    BY <1>4, <2>3, <2>4, <2>5, <2>6 DEF Operation
<1> QED
  BY <1>1, <1>2, <1>3, <1>4 DEF Next
(***************************************************************************)
(* The lock protects the dict of a guarded key                             *)
(***************************************************************************)

\* Under a guarded key, whoever makes or stores a dict holds the lock, and
\* nobody deletes one.
LEMMA GuardedChanges ==
  ASSUME TypeOK, NameOK, OperationOK, NEW p \in Procs, Operation(p), dict' # dict
  PROVE  /\ 1 \in States /\ op[p].k \in Keys
         /\ \/ MakeDict(p) /\ dict' = [dict EXCEPT ![1][op[p].k] = EmptyDict]
            \/ Write(p) /\ dict' = [dict EXCEPT ![1][op[p].k] = copy[p]] /\ p \notin Readonly
            \/ DeleteKey(p) /\ dict' = [dict EXCEPT ![1][op[p].k] = NoDict]
         /\ Guarded(op[p].k) => lock[1] = p /\ ~ DeleteKey(p)
<1>1. MakeDict(p) \/ Write(p) \/ DeleteKey(p)
  BY DEF Operation, AcquireLock, Has, HasMade, Fetch, Finish, HasKey
<1>2. pc[p] \in InOperation
  BY OperationMoves
<1>3. /\ handle[p] = 1 /\ 1 \in States /\ op[p].k \in Keys
      /\ op[p].kind \in OpsOn[op[p].k]
  BY <1>2, InOperationFacts
<1>4. ASSUME Guarded(op[p].k)
      PROVE  lock[1] = p /\ ~ DeleteKey(p)
  <2>1. op[p].kind \in {Increment, GetOrSetFn, "get"}
    BY <1>3, <1>4 DEF Guarded
  <2>2. ~ DeleteKey(p)
    BY <2>1 DEF DeleteKey, OperationOK, Increment, GetOrSetFn
  <2>3. CASE MakeDict(p)
    <3>1. pc[p] = "make"
      BY <2>3 DEF MakeDict
    <3>2. MakesDict(op[p].kind) /\ pc[p] \in Critical
      BY <3>1 DEF OperationOK, Critical
    <3>3. Locked(op[p].kind)
      BY <2>1, <3>2 DEF MakesDict, Locked, Increment, GetOrSetFn
    <3> QED
      BY <2>2, <3>2, <3>3 DEF OperationOK
  <2>4. CASE Write(p)
    <3>1. pc[p] = "write"
      BY <2>4 DEF Write
    <3>2. op[p].kind # "get" /\ pc[p] \in Critical
      BY <3>1 DEF OperationOK, Critical
    <3>3. Locked(op[p].kind)
      BY <2>1, <3>2 DEF Locked
    <3> QED
      BY <2>2, <3>2, <3>3 DEF OperationOK
  <2> QED
    BY <1>1, <2>2, <2>3, <2>4
<1>5. MakeDict(p) => dict' = [dict EXCEPT ![1][op[p].k] = EmptyDict]
  BY <1>3 DEF MakeDict, Store
<1>6. Write(p) => dict' = [dict EXCEPT ![1][op[p].k] = copy[p]] /\ p \notin Readonly
  BY <1>3 DEF Write, Store
<1>7. DeleteKey(p) => dict' = [dict EXCEPT ![1][op[p].k] = NoDict]
  BY <1>3 DEF DeleteKey, Store
<1> QED
  BY <1>1, <1>3, <1>4, <1>5, <1>6, <1>7

\* So a step of another process leaves the dict of a guarded key as the holder
\* of the lock, at its line, left it.
LEMMA HolderIsAlone ==
  ASSUME TypeOK, NameOK, OperationOK, NEW p \in Procs, NEW q \in Procs, p # q, Operation(q),
         lock[1] = p, NEW k \in Keys, Guarded(k)
  PROVE  dict'[1][k] = dict[1][k]
<1>1. CASE dict' = dict
  BY <1>1
<1>2. CASE dict' # dict
  <2>1. /\ 1 \in States /\ op[q].k \in Keys /\ op[q].k # k
        /\ \E d : dict' = [dict EXCEPT ![1][op[q].k] = d]
    BY <1>2, GuardedChanges
  <2> QED
    BY <2>1 DEF TypeOK
<1> QED
  BY <1>1, <1>2

\* In a guarded key's operation, "make" and "write" are lines of a holder.
LEMMA ChangerHolds ==
  ASSUME OperationOK, NEW p \in Procs, pc[p] \in {"make", "write"}, Guarded(op[p].k)
  PROVE  lock[1] = p /\ Locked(op[p].kind)
<1>1. pc[p] \in InOperation /\ pc[p] \in Critical
  BY DEF InOperation, Critical
<1>2. op[p].kind \in {Increment, GetOrSetFn, "get"}
  BY <1>1 DEF OperationOK, Guarded
<1>3. op[p].kind # "get"
  BY DEF OperationOK, MakesDict, Increment, GetOrSetFn
<1>4. Locked(op[p].kind)
  BY <1>2, <1>3 DEF Locked
<1> QED
  BY <1>1, <1>4 DEF OperationOK

\* A process's step leaves the place, operation and copy of the others alone.
LEMMA OthersStay ==
  ASSUME TypeOK, NEW p \in Procs, NEW q \in Procs, p # q,
         \/ StateOf(p)
         \/ Operation(p)
         \/ \E k \in Keys, s \in Subs : \E kind \in OpsOn[k] : Begin(p, kind, k, s)
  PROVE  pc'[q] = pc[q] /\ op'[q] = op[q] /\ copy'[q] = copy[q]
<1>1. CASE StateOf(p)
  BY <1>1 DEF StateOf, Lookup, AcquireStore, LookupAgain, Create, Found, Goto, TypeOK
<1>2. CASE Operation(p)
  BY <1>2 DEF Operation, AcquireLock, Has, MakeDict, HasMade, Fetch, Write, Finish, HasKey,
              DeleteKey, Goto, TypeOK
<1>3. CASE \E k \in Keys, s \in Subs : \E kind \in OpsOn[k] : Begin(p, kind, k, s)
  BY <1>3 DEF Begin, Goto, TypeOK
<1> QED
  BY <1>1, <1>2, <1>3

\* What the holder saw under a guarded key stays true until it has written.
LEMMA FetchedStep ==
  ASSUME TypeOK, NameOK, OperationOK, FetchedOK, [Next]_vars
  PROVE  FetchedOK'
<1>1. ASSUME NEW q \in Procs, pc'[q] = pc[q], op'[q] = op[q], copy'[q] = copy[q],
             pc[q] \in {"make", "write"} /\ Guarded(op[q].k) =>
               dict'[1][op[q].k] = dict[1][op[q].k]
      PROVE  FetchedBy(q)'
  BY <1>1 DEF FetchedOK, FetchedBy
<1>2. CASE UNCHANGED vars
  BY <1>1, <1>2 DEF vars, nameVars, FetchedOK
<1>3. ASSUME NEW p \in Procs, NEW q \in Procs, StateOf(p)
      PROVE  FetchedBy(q)'
  <2>1. UNCHANGED dict
    BY <1>3 DEF StateOf, Lookup, AcquireStore, LookupAgain, Create
  <2>2. pc'[p] \notin {"make", "write"}
    BY <1>3 DEF StateOf, Lookup, AcquireStore, LookupAgain, Create, Found, Goto, TypeOK
  <2> QED
    BY <1>1, <1>3, <2>1, <2>2, OthersStay DEF FetchedBy
<1>4. ASSUME NEW p \in Procs, NEW q \in Procs, NEW k \in Keys, NEW s \in Subs,
             NEW kind \in OpsOn[k], Begin(p, kind, k, s)
      PROVE  FetchedBy(q)'
  <2>1. UNCHANGED dict
    BY <1>4 DEF Begin
  <2>2. pc'[p] \notin {"make", "write"}
    BY <1>4 DEF Begin, Goto, TypeOK
  <2> QED
    BY <1>1, <1>4, <2>1, <2>2, OthersStay DEF FetchedBy
<1>5. ASSUME NEW p \in Procs, NEW q \in Procs, p # q, Operation(p)
      PROVE  FetchedBy(q)'
  <2>1. ASSUME pc[q] \in {"make", "write"}, Guarded(op[q].k)
        PROVE  dict'[1][op[q].k] = dict[1][op[q].k]
    <3>1. lock[1] = q
      BY <2>1, ChangerHolds
    <3>2. op[q].k \in Keys
      BY <2>1 DEF OperationOK, InOperation
    <3> QED
      BY <1>5, <2>1, <3>1, <3>2, HolderIsAlone
  <2> QED
    BY <1>1, <1>5, <2>1, OthersStay
<1>6. ASSUME NEW p \in Procs, Operation(p)
      PROVE  FetchedBy(p)'
  <2>1. pc[p] \in InOperation
    BY <1>6, OperationMoves
  <2>2. /\ op[p].k \in Keys /\ op[p].s \in Subs /\ D(p) = dict[1][op[p].k]
        /\ D(p) \in [Subs -> Nat] \union {NoDict}
    BY <2>1, InOperationFacts
  <2>3. CASE Has(p)
    <3>1. UNCHANGED <<dict, op>>
      BY <2>3 DEF Has
    <3>2. pc'[p] = "make" => D(p) = NoDict
      BY <2>3 DEF Has, Goto, TypeOK
    <3>3. pc'[p] # "write"
      BY <2>3 DEF Has, Goto, TypeOK
    <3> QED
      BY <2>2, <3>1, <3>2, <3>3 DEF FetchedBy
  <2>4. CASE Fetch(p)
    <3>1. UNCHANGED <<dict, op>> /\ pc'[p] # "make"
      BY <2>4 DEF Fetch, Goto, TypeOK
    <3>2. ASSUME pc'[p] = "write"
          PROVE  /\ D(p) # NoDict
                 /\ copy'[p] = [D(p) EXCEPT ![op[p].s] = OnFound(op[p].kind, p, D(p)[op[p].s])]
                 /\ Updates(op[p].kind, D(p)[op[p].s])
      <4>1. ~ Goto(p, "finish")
        BY <3>2 DEF Goto, TypeOK
      <4>2. D(p) # NoDict
        BY <2>4, <4>1 DEF Fetch
      <4>3. copy' = [copy EXCEPT ![p] = [D(p) EXCEPT ![op[p].s] =
                                           OnFound(op[p].kind, p, D(p)[op[p].s])]]
        BY <2>4, <4>2 DEF Fetch
      <4>4. Updates(op[p].kind, D(p)[op[p].s])
        BY <2>4, <4>1, <4>2 DEF Fetch
      <4> QED
        BY <4>2, <4>3, <4>4 DEF TypeOK
    <3> QED
      BY <2>2, <3>1, <3>2 DEF FetchedBy
  <2>5. CASE AcquireLock(p) \/ MakeDict(p) \/ HasMade(p) \/ Write(p) \/ Finish(p) \/ HasKey(p)
             \/ DeleteKey(p)
    <3>1. pc'[p] \notin {"make", "write"}
      BY <2>5 DEF AcquireLock, MakeDict, HasMade, Write, Finish, HasKey, DeleteKey, Goto, TypeOK
    <3> QED
      BY <3>1 DEF FetchedBy
  <2> QED
    BY <1>6, <2>3, <2>4, <2>5 DEF Operation
<1> QED
  BY <1>2, <1>3, <1>4, <1>5, <1>6 DEF Next, FetchedOK

(***************************************************************************)
(* What is stored under a guarded key                                      *)
(***************************************************************************)

\* The type of a stored value.
LEMMA StoredType ==
  ASSUME TypeOK, NameOK, NEW k \in Keys, NEW s \in Subs
  PROVE  Stored(k, s) \in Nat
<1>1. CASE entry = 1
  <2>1. 1 \in States
    BY <1>1, FS_CardinalityType, StoreAssumption DEF TypeOK, States
  <2> QED
    BY <2>1 DEF Stored, TypeOK, Absent
<1>2. CASE entry = 0
  BY <1>2 DEF Stored, Absent
<1> QED
  BY <1>1, <1>2 DEF NameOK

\* A guarded key's value changes only when the holder of the lock stores what
\* on_found made of it; creating the state or the dict stores nothing.
LEMMA StoredChanges ==
  ASSUME TypeOK, NameOK, OperationOK, FetchedOK, NEW p \in Procs, Operation(p),
         NEW k \in Keys, NEW s \in Subs, Guarded(k)
  PROVE  IF Write(p) /\ p \notin Readonly /\ op[p].k = k /\ op[p].s = s
         THEN /\ Stored(k, s)' = OnFound(op[p].kind, p, Stored(k, s))
              /\ Updates(op[p].kind, Stored(k, s))
         ELSE Stored(k, s)' = Stored(k, s)
<1>1. pc[p] \in InOperation /\ entry' = entry
  BY OperationMoves DEF nameVars
<1>2. /\ entry = 1 /\ 1 \in States /\ op[p].k \in Keys /\ op[p].s \in Subs
      /\ D(p) = dict[1][op[p].k] /\ op[p].kind \in OpsOn[op[p].k]
      /\ D(p) \in [Subs -> Nat] \union {NoDict}
  BY <1>1, InOperationFacts
<1>3. CASE Write(p) /\ p \notin Readonly /\ op[p].k = k
  <2>1. dict' = [dict EXCEPT ![1][k] = copy[p]] /\ pc[p] = "write"
    BY <1>2, <1>3, InOperationFacts, <1>1 DEF Write, Store
  <2>2. /\ D(p) # NoDict
        /\ copy[p] = [D(p) EXCEPT ![op[p].s] = OnFound(op[p].kind, p, D(p)[op[p].s])]
        /\ Updates(op[p].kind, D(p)[op[p].s])
    BY <1>2, <1>3, <2>1 DEF FetchedOK, FetchedBy
  <2>3. dict'[1][k] = copy[p] /\ copy[p] \in [Subs -> Nat]
    BY <1>2, <2>1 DEF TypeOK
  <2>4. copy[p] # NoDict
    BY <2>3, DictIsADict
  <2>5. Stored(k, s) = D(p)[s] /\ Stored(k, s)' = copy[p][s]
    <3>1. dict[1][k] = D(p) /\ entry # Absent /\ entry' = 1 /\ entry' # Absent
      BY <1>1, <1>2, <1>3 DEF Absent
    <3>2. Stored(k, s) = D(p)[s]
      BY <1>2, <2>2, <3>1 DEF Stored
    <3>3. Stored(k, s)' = copy[p][s]
      BY <2>3, <2>4, <3>1 DEF Stored
    <3> QED
      BY <3>2, <3>3
  <2>6. CASE op[p].s = s
    <3>1. copy[p][s] = OnFound(op[p].kind, p, D(p)[s])
      BY <2>2, <2>3, <2>6
    <3> QED
      BY <1>3, <2>2, <2>5, <2>6, <3>1
  <2>7. CASE op[p].s # s
    <3>1. D(p) \in [Subs -> Nat]
      BY <1>2, <2>2
    <3>2. copy[p][s] = D(p)[s]
      BY <2>2, <2>7, <3>1
    <3> QED
      BY <2>5, <2>7, <3>2
  <2> QED
    BY <2>6, <2>7
<1>4. CASE ~ (Write(p) /\ p \notin Readonly /\ op[p].k = k)
  <2>1. CASE dict'[1][k] = dict[1][k]
    BY <1>1, <1>4, <2>1 DEF Stored
  <2>2. CASE dict'[1][k] # dict[1][k]
    <3>1. /\ \/ MakeDict(p) /\ dict' = [dict EXCEPT ![1][op[p].k] = EmptyDict]
             \/ Write(p) /\ dict' = [dict EXCEPT ![1][op[p].k] = copy[p]] /\ p \notin Readonly
             \/ DeleteKey(p) /\ dict' = [dict EXCEPT ![1][op[p].k] = NoDict]
          /\ Guarded(op[p].k) => ~ DeleteKey(p)
      BY <2>2, GuardedChanges
    <3>2. op[p].k = k
      BY <1>2, <2>2, <3>1 DEF TypeOK
    <3>3. MakeDict(p) /\ dict' = [dict EXCEPT ![1][k] = EmptyDict]
      BY <1>4, <3>1, <3>2
    <3>4. D(p) = NoDict
      BY <1>2, <3>2, <3>3 DEF MakeDict, FetchedOK, FetchedBy
    <3>5. Stored(k, s) = Absent
      BY <1>2, <3>2, <3>4 DEF Stored
    <3>6. dict'[1][k] = EmptyDict
      BY <1>2, <3>3 DEF TypeOK
    <3>7. Stored(k, s)' = Absent
      BY <3>6 DEF Stored, EmptyDict
    <3> QED
      BY <1>4, <3>5, <3>7
  <2> QED
    BY <2>1, <2>2
<1> QED
  BY <1>3, <1>4

\* Asking for the state stores nothing either.
LEMMA StoredStays ==
  ASSUME TypeOK, NameOK, NEW p \in Procs, StateOf(p), NEW k \in Keys, NEW s \in Subs
  PROVE  Stored(k, s)' = Stored(k, s)
<1>1. UNCHANGED dict
  BY DEF StateOf, Lookup, AcquireStore, LookupAgain, Create
<1>2. CASE Create(p)
  <2>1. entry = Absent /\ 1 \in States
    BY <1>2, OneIsAState DEF Create, NameOK
  <2>2. dict[1][k] = NoDict
    BY <2>1 DEF NameOK
  <2> QED
    BY <1>1, <2>1, <2>2 DEF Stored
<1>3. CASE ~ Create(p)
  <2>1. UNCHANGED entry
    BY <1>3 DEF StateOf, Lookup, AcquireStore, LookupAgain
  <2> QED
    BY <1>1, <2>1 DEF Stored
<1> QED
  BY <1>2, <1>3

(***************************************************************************)
(* Counters and defaults                                                   *)
(***************************************************************************)

\* A counter's key is guarded, and so is a default's.
LEMMA CounterIsGuarded ==
  ASSUME NEW k \in Keys, OpsOn[k] \subseteq {Increment, "get"} \/ OpsOn[k] \subseteq {GetOrSetFn, "get"}
  PROVE  Guarded(k)
BY DEF Guarded

\* CountersExact, in terms of what is stored.
LEMMA CountersAreStored ==
  ASSUME NameOK
  PROVE  CountersExact <=>
           \A k \in Keys : OpsOn[k] \subseteq {Increment, "get"} =>
             \A s \in Subs : increments[k][s] = Stored(k, s)
<1>1. CASE entry = 1
  BY <1>1 DEF CountersExact, Stored, Absent
<1>2. CASE entry = 0
  BY <1>2 DEF CountersExact, Stored, Absent
<1> QED
  BY <1>1, <1>2 DEF NameOK

\* No step takes an increment away.
LEMMA CountersStep ==
  ASSUME TypeOK, NameOK, OperationOK, FetchedOK, CountersExact, [Next]_vars
  PROVE  CountersExact'
<1>1. NameOK'
  BY NameStep
<1>2. SUFFICES ASSUME NEW k \in Keys, OpsOn[k] \subseteq {Increment, "get"}, NEW s \in Subs
               PROVE  increments'[k][s] = Stored(k, s)'
  <2>1. CASE entry' = 1
    BY <2>1 DEF CountersExact, Stored, Absent
  <2>2. CASE entry' = 0
    BY <2>2 DEF CountersExact, Stored, Absent
  <2> QED
    BY <1>1, <2>1, <2>2 DEF NameOK
<1>3. increments[k][s] = Stored(k, s)
  BY <1>2, CountersAreStored
<1>4. CASE UNCHANGED vars
  BY <1>3, <1>4 DEF vars, nameVars, history, Stored
<1>5. ASSUME NEW p \in Procs, StateOf(p)
      PROVE  increments'[k][s] = Stored(k, s)'
  <2>1. UNCHANGED increments
    BY <1>5 DEF StateOf, Lookup, AcquireStore, LookupAgain, Create, history
  <2> QED
    BY <1>3, <1>5, <2>1, StoredStays
<1>6. ASSUME NEW p \in Procs, NEW j \in Keys, NEW i \in Subs, NEW kind \in OpsOn[j],
             Begin(p, kind, j, i)
      PROVE  increments'[k][s] = Stored(k, s)'
  BY <1>3, <1>6 DEF Begin, nameVars, history, Stored
<1>7. ASSUME NEW p \in Procs, Operation(p)
      PROVE  increments'[k][s] = Stored(k, s)'
  <2>1. /\ op[p].k \in Keys /\ op[p].s \in Subs /\ op[p].kind \in OpsOn[op[p].k]
    BY <1>7, OperationMoves, InOperationFacts
  <2>2. CASE Write(p) /\ p \notin Readonly /\ op[p].k = k /\ op[p].s = s
    <3>1. op[p].kind = Increment
      BY <1>2, <2>1, <2>2 DEF Write, OperationOK
    <3>2. increments' = [increments EXCEPT ![k][s] = @ + 1]
      BY <2>2, <3>1 DEF Write
    <3>3. increments'[k][s] = increments[k][s] + 1
      BY <3>2 DEF TypeOK
    <3>4. Stored(k, s)' = OnFound(Increment, p, Stored(k, s))
      BY <1>2, <1>7, <2>2, <3>1, StoredChanges, CounterIsGuarded
    <3> QED
      BY <1>3, <3>3, <3>4 DEF OnFound, Increment, GetOrSetFn
  <2>3. CASE ~ (Write(p) /\ p \notin Readonly /\ op[p].k = k /\ op[p].s = s)
    <3>1. Stored(k, s)' = Stored(k, s)
      BY <1>2, <1>7, <2>3, StoredChanges, CounterIsGuarded
    <3>2. CASE UNCHANGED increments
      BY <1>3, <3>1, <3>2
    <3>3. CASE increments' # increments
      <4>1. Write(p) /\ p \notin Readonly
        BY <1>7, <3>3 DEF Operation, AcquireLock, Has, MakeDict, HasMade, Fetch, Write, Finish,
                          HasKey, DeleteKey, history
      <4>2. increments' = [increments EXCEPT ![op[p].k][op[p].s] = @ + 1]
        BY <3>3, <4>1 DEF Write
      <4> QED
        BY <1>3, <2>1, <2>3, <3>1, <4>1, <4>2 DEF TypeOK
    <3> QED
      BY <3>2, <3>3
  <2> QED
    BY <2>2, <2>3
<1> QED
  BY <1>4, <1>5, <1>6, <1>7 DEF Next

\* No answer is Absent: when they are settled on it, only read-only callers were
\* answered.
LEMMA AllReadonly ==
  ASSUME TypeOK, NEW k \in Keys, NEW s \in Subs, SettledOn(Absent, answers[k][s])
  PROVE  \A i \in 1 .. Len(answers[k][s]) : answers[k][s][i].by \in Readonly
<1> DEFINE given == answers[k][s]
<1>1. given \in Answers
  BY DEF TypeOK
<1>2. given \in Seq([by : Procs, value : Nat \ {Absent}])
  BY <1>1 DEF Answers
<1> SUFFICES ASSUME NEW i \in 1 .. Len(given)
             PROVE  given[i].by \in Readonly
  OBVIOUS
<1> HIDE DEF given
<1> DEFINE Answer == [by : Procs, value : Nat \ {Absent}]
<1>5. i \in 1 .. i /\ given[i] \in Answer
  <2> HIDE DEF Answer
  <2>1. given \in Seq(Answer)
    BY <1>2 DEF Answer
  <2> QED
    BY <2>1
<1>3. given[i].value # Absent
  BY <1>5
<1>4. given[i].value = Absent \/ \A j \in 1 .. i : given[j].by \in Readonly
  BY DEF SettledOn, given
<1> QED
  BY <1>3, <1>4, <1>5

\* One more answer of the value they are settled on, or one more to a read-only
\* caller when only such were answered, leaves them settled.
LEMMA AnswerAdded ==
  ASSUME TypeOK, NEW k \in Keys, NEW s \in Subs, NEW p, NEW v, NEW new,
         \/ SettledOn(v, answers[k][s]) /\ new = v
         \/ /\ \A i \in 1 .. Len(answers[k][s]) : answers[k][s][i].by \in Readonly
            /\ p \in Readonly \/ new = v
  PROVE  SettledOn(v, Append(answers[k][s], [by |-> p, value |-> new]))
<1> DEFINE given == answers[k][s]
           last == [by |-> p, value |-> new]
<1>1. given \in Answers
  BY DEF TypeOK
<1>2. given \in Seq([by : Procs, value : Nat \ {Absent}])
  BY <1>1 DEF Answers
<1>3. /\ Len(given) \in Nat /\ Len(Append(given, last)) = Len(given) + 1
      /\ \A i \in 1 .. Len(given) : Append(given, last)[i] = given[i]
      /\ Append(given, last)[Len(given) + 1] = last
  BY <1>2
<1> HIDE DEF given
<1>4. ASSUME NEW i \in 1 .. Len(given)
      PROVE  given[i].value = v \/ \A j \in 1 .. i : given[j].by \in Readonly
  BY <1>3 DEF SettledOn, given
<1>5. last.value = v \/ \A j \in 1 .. Len(given) + 1 : Append(given, last)[j].by \in Readonly
  BY <1>3 DEF given
<1> QED
  BY <1>3, <1>4, <1>5 DEF SettledOn, given

\* What get_or_set_fn answers is, or is about to be, the one stored value: the
\* holder of the lock that found none is alone until it has stored its own.
LEMMA DefaultStep ==
  ASSUME TypeOK, NameOK, OperationOK, FetchedOK, DefaultOK, [Next]_vars
  PROVE  DefaultOK'
<1>1. SUFFICES ASSUME NEW k \in Keys, OpsOn[k] \subseteq {GetOrSetFn, "get"}, NEW s \in Subs
               PROVE  \/ SettledOn(Stored(k, s)', answers'[k][s])
                      \/ \E p \in Procs \ Readonly :
                           /\ pc'[p] = "write" /\ op'[p].k = k /\ op'[p].s = s
                           /\ SettledOn(p, answers'[k][s])
  BY DEF DefaultOK
<1> DEFINE Storing(q) == /\ q \in Procs \ Readonly /\ pc[q] = "write" /\ op[q].k = k /\ op[q].s = s
                         /\ SettledOn(q, answers[k][s])
<1>2. SettledOn(Stored(k, s), answers[k][s]) \/ \E q : Storing(q)
  BY <1>1 DEF DefaultOK
<1>3. ASSUME NEW p \in Procs, UNCHANGED answers, Stored(k, s)' = Stored(k, s),
             \A q \in Procs : Storing(q) => pc'[q] = pc[q] /\ op'[q] = op[q]
      PROVE  \/ SettledOn(Stored(k, s)', answers'[k][s])
             \/ \E q \in Procs \ Readonly :
                  /\ pc'[q] = "write" /\ op'[q].k = k /\ op'[q].s = s
                  /\ SettledOn(q, answers'[k][s])
  BY <1>2, <1>3
<1>4. CASE UNCHANGED vars
  BY <1>2, <1>4 DEF vars, nameVars, history, Stored
<1>5. ASSUME NEW p \in Procs, StateOf(p)
      PROVE  \/ SettledOn(Stored(k, s)', answers'[k][s])
             \/ \E q \in Procs \ Readonly :
                  /\ pc'[q] = "write" /\ op'[q].k = k /\ op'[q].s = s
                  /\ SettledOn(q, answers'[k][s])
  <2>1. UNCHANGED answers /\ pc[p] # "write"
    BY <1>5 DEF StateOf, Lookup, AcquireStore, LookupAgain, Create, history
  <2>2. Stored(k, s)' = Stored(k, s)
    BY <1>5, StoredStays
  <2> QED
    BY <1>3, <1>5, <2>1, <2>2, OthersStay
<1>6. ASSUME NEW p \in Procs, NEW j \in Keys, NEW i \in Subs, NEW kind \in OpsOn[j],
             Begin(p, kind, j, i)
      PROVE  \/ SettledOn(Stored(k, s)', answers'[k][s])
             \/ \E q \in Procs \ Readonly :
                  /\ pc'[q] = "write" /\ op'[q].k = k /\ op'[q].s = s
                  /\ SettledOn(q, answers'[k][s])
  <2>1. UNCHANGED answers /\ pc[p] # "write" /\ UNCHANGED <<entry, dict>>
    BY <1>6 DEF Begin, nameVars, history
  <2>2. Stored(k, s)' = Stored(k, s)
    BY <2>1 DEF Stored
  <2> QED
    BY <1>3, <1>6, <2>1, <2>2, OthersStay
<1>7. ASSUME NEW p \in Procs, Operation(p)
      PROVE  \/ SettledOn(Stored(k, s)', answers'[k][s])
             \/ \E q \in Procs \ Readonly :
                  /\ pc'[q] = "write" /\ op'[q].k = k /\ op'[q].s = s
                  /\ SettledOn(q, answers'[k][s])
  <2>1. /\ op[p].k \in Keys /\ op[p].s \in Subs /\ op[p].kind \in OpsOn[op[p].k]
        /\ D(p) = dict[1][op[p].k] /\ entry = 1 /\ p \in Nat /\ p # 0
    BY <1>7, OperationMoves, InOperationFacts, OneIsAState
  <2>2. \A q : Storing(q) => lock[1] = q
    <3>1. Guarded(k)
      BY <1>1, CounterIsGuarded
    <3> QED
      BY <3>1, ChangerHolds
  <2>3. CASE Write(p) /\ p \notin Readonly /\ op[p].k = k /\ op[p].s = s
    <3>1. op[p].kind = GetOrSetFn
      BY <1>1, <2>1, <2>3 DEF Write, OperationOK
    <3>2. Stored(k, s)' = OnFound(GetOrSetFn, p, Stored(k, s)) /\ Updates(GetOrSetFn, Stored(k, s))
      BY <1>1, <1>7, <2>3, <3>1, StoredChanges, CounterIsGuarded
    <3>3. Stored(k, s) = Absent /\ Stored(k, s)' = p
      BY <3>2 DEF OnFound, Updates, Increment, GetOrSetFn
    <3>4. UNCHANGED answers
      BY <2>3 DEF Write
    <3>5. SettledOn(p, answers[k][s])
      <4>1. Guarded(op[p].k) /\ pc[p] = "write"
        BY <1>1, <2>3, CounterIsGuarded DEF Write
      <4>2. lock[1] = p
        BY <4>1, ChangerHolds
      <4>3. SettledOn(p, answers[k][s]) \/ SettledOn(Absent, answers[k][s])
        BY <1>2, <2>2, <3>3, <4>2
      <4> QED
        BY <1>1, <4>3, AllReadonly DEF SettledOn
    <3> QED
      BY <2>1, <3>3, <3>4, <3>5 DEF Absent
  <2>4. CASE ~ (Write(p) /\ p \notin Readonly /\ op[p].k = k /\ op[p].s = s)
    <3>1. Stored(k, s)' = Stored(k, s)
      BY <1>1, <1>7, <2>4, StoredChanges, CounterIsGuarded
    <3>2. ~ Storing(p) \/ ~ Write(p)
      BY <2>4
    <3>3. ASSUME answers' = answers
          PROVE  \A q \in Procs : Storing(q) => pc'[q] = pc[q] /\ op'[q] = op[q]
      <4>1. Storing(p) => Write(p)
        BY <1>7 DEF Operation, AcquireLock, Has, MakeDict, HasMade, Fetch, Finish, HasKey, DeleteKey
      <4> QED
        BY <1>7, <3>2, <4>1, OthersStay
    <3>4. CASE answers' = answers
      BY <1>3, <3>1, <3>3, <3>4
    <3>5. CASE answers' # answers
      <4> DEFINE new == OnFound(op[p].kind, p, D(p)[op[p].s])
      <4>1. /\ Fetch(p) /\ D(p) # NoDict /\ op[p].kind = GetOrSetFn
            /\ answers' = [answers EXCEPT ![op[p].k][op[p].s] = Append(@, [by |-> p, value |-> new])]
        BY <1>7, <3>5 DEF Operation, AcquireLock, Has, MakeDict, HasMade, Fetch, Write, Finish,
                          HasKey, DeleteKey, history
      <4>2. CASE op[p].k # k \/ op[p].s # s
        <5>1. answers'[k][s] = answers[k][s]
          BY <2>1, <4>1, <4>2 DEF TypeOK
        <5>2. \A q \in Procs : Storing(q) => pc'[q] = pc[q] /\ op'[q] = op[q]
          BY <1>7, <4>2, OthersStay
        <5> QED
          BY <1>2, <3>1, <5>1, <5>2
      <4>3. CASE op[p].k = k /\ op[p].s = s
        <5>1. lock[1] = p /\ pc[p] = "fetch"
          BY <4>1 DEF Fetch, OperationOK, Critical, Locked
        <5>2. \A q : ~ Storing(q)
          BY <2>2, <5>1
        <5>3. Stored(k, s) = D(p)[s]
          BY <2>1, <4>1, <4>3 DEF Stored, Absent
        <5>4. answers'[k][s] = Append(answers[k][s], [by |-> p, value |-> new])
          BY <2>1, <4>1, <4>3 DEF TypeOK
        <5>7. SettledOn(Stored(k, s), answers[k][s])
          BY <1>2, <5>2
        <5>5. CASE Stored(k, s) = Absent
          <6>1. new = p
            BY <4>1, <4>3, <5>3, <5>5 DEF OnFound, Increment, GetOrSetFn
          <6>2. Updates(op[p].kind, D(p)[op[p].s])
            BY <4>1, <4>3, <5>3, <5>5 DEF Updates
          <6>3. pc'[p] = "write" /\ op'[p] = op[p]
            BY <4>1, <6>2 DEF Fetch, Goto, TypeOK
          <6>4. \A i \in 1 .. Len(answers[k][s]) : answers[k][s][i].by \in Readonly
            BY <1>1, <5>5, <5>7, AllReadonly
          <6>5. CASE p \in Readonly
            BY <1>1, <3>1, <5>4, <6>4, <6>5, AnswerAdded
          <6>6. CASE p \notin Readonly
            <7>1. SettledOn(p, answers'[k][s])
              BY <1>1, <5>4, <6>1, <6>4, AnswerAdded
            <7> QED
              BY <4>3, <6>3, <6>6, <7>1
          <6> QED
            BY <6>5, <6>6
        <5>6. CASE Stored(k, s) # Absent
          <6>1. new = Stored(k, s)
            BY <4>1, <4>3, <5>3, <5>6 DEF OnFound, Increment, GetOrSetFn
          <6> QED
            BY <1>1, <3>1, <5>4, <5>7, <6>1, AnswerAdded
        <5> QED
          BY <5>5, <5>6
      <4> QED
        BY <4>2, <4>3
    <3> QED
      BY <3>4, <3>5
  <2> QED
    BY <2>3, <2>4
<1> QED
  BY <1>4, <1>5, <1>6, <1>7 DEF Next

(***************************************************************************)
(* The theorems                                                            *)
(***************************************************************************)

\* IInv is inductive.
THEOREM StoreInvariance == Spec => []IInv
<1>1. Init => IInv
  <2> SUFFICES ASSUME Init
               PROVE  IInv
    OBVIOUS
  <2>1. /\ Cardinality(Procs) \in Nat /\ MaxOps \in Nat
        /\ \A p \in Procs : p # Free
    BY FS_CardinalityType, StoreAssumption DEF Free
  <2>2. EmptyDict \in [Subs -> Nat]
    BY DEF EmptyDict, Absent
  <2>3. NoOp \in [kind : Ops \union {"none"}, k : Keys \union {Absent}, s : Subs \union {Absent}]
    BY DEF NoOp
  <2> <<>> \in Answers
    BY DEF Answers
  <2>4. TypeOK
    BY <2>1, <2>2, <2>3 DEF Init, TypeOK, Asking, Locations, Absent, Free
  <2>5. NameOK /\ OperationOK /\ FetchedOK
    BY DEF Init, NameOK, OperationOK, FetchedOK, FetchedBy, Asking, InOperation, Critical, Absent
  <2>6. CountersExact /\ DefaultOK
    BY DEF Init, CountersExact, DefaultOK, SettledOn
  <2> QED
    BY <2>4, <2>5, <2>6 DEF IInv
<1>2. IInv /\ [Next]_vars => IInv'
  BY TypeStep, NameStep, OperationStep, FetchedStep, CountersStep, DefaultStep DEF IInv
<1> QED
  BY <1>1, <1>2, PTL DEF Spec

\* However many processes ask for a name at once, all hold the same state,
\* hence the same lock (MpContextStore.__store_get, mp_store.py:48-64).
THEOREM OneState == Spec => []OneStatePerName
<1>1. IInv => OneStatePerName
  BY DEF IInv, NameOK, OneStatePerName, Asking, Absent
<1> QED
  BY <1>1, StoreInvariance, PTL

\* No copy of a dict of counters that is stored back takes an increment away,
\* of the same or of another second key (ContextState.set_fn).
THEOREM CountersAreExact == Spec => []CountersExact
<1>1. IInv => CountersExact
  BY DEF IInv
<1> QED
  BY <1>1, StoreInvariance, PTL

\* After the answer to a caller that may write, get_or_set_fn answers everybody
\* the same value, read-only callers too (ContextState.get_or_set_fn).
THEOREM DefaultsAgree == Spec => []OneDefault
<1>1. IInv => OneDefault
  <2> SUFFICES ASSUME IInv, NEW k \in Keys, NEW s \in Subs, OpsOn[k] \subseteq {GetOrSetFn, "get"},
                      NEW i \in 1 .. Len(answers[k][s]), NEW j \in 1 .. Len(answers[k][s]),
                      i < j, answers[k][s][i].by \notin Readonly
               PROVE  answers[k][s][j].value = answers[k][s][i].value
    BY DEF OneDefault
  <2>1. PICK v : SettledOn(v, answers[k][s])
    BY DEF IInv, DefaultOK
  <2>2. i \in 1 .. i /\ i \in 1 .. j
    OBVIOUS
  <2> QED
    BY <2>1, <2>2 DEF SettledOn
<1> QED
  BY <1>1, StoreInvariance, PTL
=============================================================================
