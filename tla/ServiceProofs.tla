---------------------------- MODULE ServiceProofs ----------------------------
(***************************************************************************)
(* A thread of the service sees its own request, and a request is answered *)
(* once, for every number of threads and requests and whatever the main    *)
(* thread, the timed tasks and the listener of Service are doing.          *)
(***************************************************************************)
EXTENDS Service, FiniteSetTheorems, TLAPS

(***************************************************************************)
(* The inductive invariant                                                 *)
(***************************************************************************)

\* The threads that have made a service instance, one each, of their own.
Makers == {t \in Threads : cache[t] # 0}
InstancesOK ==
    /\ made = Cardinality(Makers)
    /\ \A t \in Makers : cache[t] <= made
    /\ \A t, u \in Makers : t # u => cache[t] # cache[u]
    /\ \A t \in Threads : tpc[t] \notin {"idle", "route", "bind"} => t \in Makers

\* A request is with one thread.
RequestsOK ==
    /\ \A t \in Threads : tpc[t] = "idle" <=> req[t] = 0
    /\ \A t, u \in Threads : t # u /\ req[t] # 0 => req[t] # req[u]

\* What has become of the request r that a thread at l has.
Progress(l, r) ==
    /\ completed[r] = 0
    /\ l # "complete" => r \notin raised /\ answers[r] <= 1
    /\ l \in {"route", "bind", "before"} => answers[r] = 0
    /\ l = "complete" => /\ r \notin raised => answers[r] <= 1
                         /\ r \notin raised \union NoBody => answers[r] = 1

ProgressOK == \A t \in Threads : req[t] # 0 => Progress(tpc[t], req[t])

DispatchInv ==
    DispatchTypeOK /\ InstancesOK /\ RequestIsOwn /\ RequestsOK /\ ProgressOK /\ AnsweredOnce

IInv == ServiceTypeOK /\ DispatchInv

(***************************************************************************)
(* Service instances                                                       *)
(***************************************************************************)

\* The makers are finitely many, and when a thread is not one of them there is
\* an instance left for it.
LEMMA MakersAreFinite ==
  /\ Cardinality(Threads) \in Nat
  /\ Cardinality(Makers) \in 0 .. Cardinality(Threads)
  /\ \A t \in Threads \ Makers :
        /\ Cardinality(Makers \union {t}) = Cardinality(Makers) + 1
        /\ Cardinality(Makers) + 1 <= Cardinality(Threads)
<1>1. IsFiniteSet(Threads) /\ Makers \subseteq Threads
  BY DispatchAssumption DEF Makers
<1>2. IsFiniteSet(Makers) /\ Cardinality(Makers) <= Cardinality(Threads)
  BY <1>1, FS_Subset
<1>3. Cardinality(Threads) \in Nat /\ Cardinality(Makers) \in Nat
  BY <1>1, <1>2, FS_CardinalityType
<1>4. ASSUME NEW t \in Threads \ Makers
      PROVE  /\ Cardinality(Makers \union {t}) = Cardinality(Makers) + 1
             /\ Cardinality(Makers) + 1 <= Cardinality(Threads)
  <2>1. Cardinality(Makers \union {t}) = Cardinality(Makers) + 1
    BY <1>2, FS_AddElement
  <2>2. Makers \union {t} \subseteq Threads
    BY <1>1
  <2>3. Cardinality(Makers \union {t}) <= Cardinality(Threads)
    BY <1>1, <2>2, FS_Subset
  <2> QED
    BY <2>1, <2>3
<1> QED
  BY <1>2, <1>3, <1>4

\* What get_service_instance gives to a thread: its own instance, or a new one
\* that no other thread has.
LEMMA BindInstance ==
  ASSUME DispatchInv, NEW t \in Threads, Bind(t)
  PROVE  LET n == IF cache[t] = 0 THEN made + 1 ELSE cache[t] IN
         /\ n \in Instances /\ n \in Nat \ {0}
         /\ cache' = [cache EXCEPT ![t] = n] /\ request' = [request EXCEPT ![n] = req[t]]
         /\ made' \in 0 .. Cardinality(Threads)
         /\ \A u \in Threads \ {t} : cache[u] # n
         /\ InstancesOK'
<1> DEFINE n == IF cache[t] = 0 THEN made + 1 ELSE cache[t]
<1>1. DispatchTypeOK /\ InstancesOK
  BY DEF DispatchInv
<1>2. /\ cache' = [cache EXCEPT ![t] = n] /\ request' = [request EXCEPT ![n] = req[t]]
      /\ made' = IF cache[t] = 0 THEN n ELSE made
      /\ tpc' = [tpc EXCEPT ![t] = "before"]
  BY DEF Bind, ThreadGoto
<1>3. /\ Cardinality(Threads) \in Nat /\ made = Cardinality(Makers)
      /\ made \in 0 .. Cardinality(Threads) /\ \A u \in Threads : cache[u] \in Nat
  BY <1>1, MakersAreFinite DEF InstancesOK, DispatchTypeOK, Instances
<1>4. Makers' = Makers \union {t} /\ cache'[t] = n /\ \A u \in Threads \ {t} : cache'[u] = cache[u]
  <2>1. cache'[t] = n /\ \A u \in Threads \ {t} : cache'[u] = cache[u]
    BY <1>1, <1>2 DEF DispatchTypeOK
  <2>2. n # 0
    BY <1>3
  <2> QED
    BY <2>1, <2>2 DEF Makers
<1>5. CASE cache[t] = 0
  <2>1. t \notin Makers /\ n = made + 1 /\ made' = made + 1
    BY <1>2, <1>5 DEF Makers
  <2>2. made' = Cardinality(Makers') /\ made' <= Cardinality(Threads)
    BY <1>3, <1>4, <2>1, MakersAreFinite
  <2>3. \A u \in Makers : cache[u] < n
    BY <1>1, <1>3, <2>1 DEF InstancesOK, Makers
  <2>4. \A u \in Threads \ {t} : cache[u] # n
    <3>1. ASSUME NEW u \in Threads \ {t}
          PROVE  cache[u] < made + 1
      <4>1. CASE u \in Makers
        BY <2>1, <2>3, <4>1
      <4>2. CASE u \notin Makers
        BY <1>3, <4>2 DEF Makers
      <4> QED
        BY <4>1, <4>2
    <3> QED
      BY <1>3, <2>1, <3>1
  <2>5. InstancesOK'
    <3>1. \A u \in Makers' : cache'[u] <= made'
      <4>1. ASSUME NEW u \in Makers, u # t
            PROVE  cache'[u] <= made + 1
        BY <1>3, <1>4, <2>1, <2>3, <4>1 DEF Makers
      <4> QED
        BY <1>3, <1>4, <2>1, <4>1
    <3>2. \A u, v \in Makers' : u # v => cache'[u] # cache'[v]
      BY <1>1, <1>4, <2>4 DEF InstancesOK, Makers
    <3>3. \A u \in Threads : tpc'[u] \notin {"idle", "route", "bind"} => u \in Makers'
      BY <1>1, <1>2, <1>4 DEF InstancesOK, DispatchTypeOK
    <3> QED
      BY <2>2, <3>1, <3>2, <3>3 DEF InstancesOK
  <2> QED
    BY <1>2, <1>3, <2>1, <2>2, <2>4, <2>5 DEF Instances
<1>6. CASE cache[t] # 0
  <2>1. t \in Makers /\ n = cache[t] /\ made' = made /\ cache' = cache /\ Makers' = Makers
    BY <1>1, <1>2, <1>4, <1>6 DEF Makers, DispatchTypeOK
  <2>2. n \in Instances /\ n \in Nat \ {0}
    BY <1>1, <1>6 DEF DispatchTypeOK, Instances
  <2>3. \A u \in Threads \ {t} : cache[u] # n
    BY <1>1, <1>6, <2>1 DEF InstancesOK, Makers
  <2>4. InstancesOK'
    BY <1>1, <1>2, <2>1 DEF InstancesOK, DispatchTypeOK
  <2> QED
    BY <1>2, <1>3, <2>1, <2>2, <2>3, <2>4
<1> QED
  BY <1>5, <1>6

(***************************************************************************)
(* The steps of a thread                                                   *)
(***************************************************************************)

Early == {"idle", "route", "bind"}

\* What is due to a request that no thread has.
Settled(r) ==
    /\ completed[r] <= 1
    /\ r \notin raised => answers[r] <= 1
    /\ completed[r] = 1 /\ r \notin raised \union NoBody => answers[r] = 1

\* A thread at work has a request of the set of them, and, bound, an instance
\* with this request in self.request.
LEMMA AtWork ==
  ASSUME DispatchInv, NEW t \in Threads, tpc[t] # "idle"
  PROVE  /\ req[t] \in Requests /\ Progress(tpc[t], req[t])
         /\ answers[req[t]] \in Nat /\ completed[req[t]] = 0
         /\ tpc[t] \notin Early => Seen(t) = req[t]
<1>1. DispatchTypeOK /\ RequestsOK /\ ProgressOK /\ RequestIsOwn /\ InstancesOK
  BY DEF DispatchInv
<1>2. req[t] # 0 /\ req[t] \in Requests
  BY <1>1 DEF RequestsOK, DispatchTypeOK
<1>3. Progress(tpc[t], req[t])
  BY <1>1, <1>2 DEF ProgressOK
<1>4. tpc[t] \notin Early => InstanceOf(t) # 0
  BY <1>1 DEF InstancesOK, Makers, InstanceOf, Early
<1> QED
  BY <1>1, <1>2, <1>3, <1>4 DEF RequestIsOwn, DispatchTypeOK, Progress

\* A thread goes on with its request.
LEMMA GoesOn ==
  ASSUME DispatchInv, NEW t \in Threads, NEW l, tpc[t] # "idle", l # "idle",
         ThreadGoto(t, l), UNCHANGED <<req, cache, made, request>>,
         l \notin Early => tpc[t] \notin Early,
         \A q \in Requests \ {req[t]} : /\ answers'[q] = answers[q] /\ completed'[q] = completed[q]
                                        /\ q \in raised' <=> q \in raised,
         Progress(l, req[t])'
  PROVE  InstancesOK' /\ RequestIsOwn' /\ RequestsOK' /\ ProgressOK' /\ AnsweredOnce'
<1>1. /\ DispatchTypeOK /\ InstancesOK /\ RequestIsOwn /\ RequestsOK /\ ProgressOK /\ AnsweredOnce
  BY DEF DispatchInv
<1>2. tpc'[t] = l /\ \A u \in Threads \ {t} : tpc'[u] = tpc[u]
  BY <1>1 DEF DispatchTypeOK, ThreadGoto
<1>3. Makers' = Makers
  BY DEF Makers
<1>4. InstancesOK'
  <2>1. \A u \in Threads : tpc'[u] \notin Early => u \in Makers
    BY <1>1, <1>2 DEF InstancesOK, Early
  <2> QED
    BY <1>1, <1>3, <2>1 DEF InstancesOK, Early
<1>5. RequestIsOwn'
  <2>1. \A u \in Threads : InstanceOf(u)' # 0 => InstanceOf(u) = InstanceOf(u)'
    BY <1>2 DEF InstanceOf, Early
  <2> QED
    BY <1>1, <2>1 DEF RequestIsOwn, Seen
<1>6. RequestsOK'
  BY <1>1, <1>2 DEF RequestsOK
<1>7. ProgressOK'
  <2> SUFFICES ASSUME NEW u \in Threads, req[u] # 0
               PROVE  Progress(tpc[u], req[u])'
    BY DEF ProgressOK
  <2>1. CASE u = t
    BY <1>2, <2>1 DEF Progress
  <2>2. CASE u # t
    <3>1. Progress(tpc[u], req[u]) /\ tpc'[u] = tpc[u]
      BY <1>1, <1>2, <2>2 DEF ProgressOK
    <3>2. req[u] \in Requests \ {req[t]}
      BY <1>1, <2>2 DEF RequestsOK, DispatchTypeOK
    <3> QED
      BY <3>1, <3>2 DEF Progress
  <2> QED
    BY <2>1, <2>2
<1>8. AnsweredOnce'
  <2>1. ASSUME NEW q \in Requests \ {req[t]}
        PROVE  Settled(q)'
    BY <1>1, <2>1 DEF AnsweredOnce, Settled
  <2>2. Settled(req[t])'
    BY DEF Progress, Settled
  <2> QED
    BY <2>1, <2>2 DEF AnsweredOnce, Settled
<1> QED
  BY <1>4, <1>5, <1>6, <1>7, <1>8

\* A thread is done with its request.
LEMMA GetsOver ==
  ASSUME DispatchInv, NEW t \in Threads, NEW done, done = req[t], tpc[t] # "idle", Over(t),
         UNCHANGED <<cache, made, request>>,
         \A q \in Requests \ {done} : /\ answers'[q] = answers[q] /\ completed'[q] = completed[q]
                                      /\ q \in raised' <=> q \in raised,
         Settled(done)'
  PROVE  InstancesOK' /\ RequestIsOwn' /\ RequestsOK' /\ ProgressOK' /\ AnsweredOnce'
<1>1. /\ DispatchTypeOK /\ InstancesOK /\ RequestIsOwn /\ RequestsOK /\ ProgressOK /\ AnsweredOnce
  BY DEF DispatchInv
<1>2. /\ tpc'[t] = "idle" /\ req'[t] = 0
      /\ \A u \in Threads \ {t} : tpc'[u] = tpc[u] /\ req'[u] = req[u]
  BY <1>1 DEF DispatchTypeOK, Over, ThreadGoto
<1>3. Makers' = Makers
  BY DEF Makers
<1>4. InstancesOK'
  <2>1. \A u \in Threads : tpc'[u] \notin Early => u \in Makers
    BY <1>1, <1>2 DEF InstancesOK, Early
  <2> QED
    BY <1>1, <1>3, <2>1 DEF InstancesOK, Early
<1>5. RequestIsOwn'
  <2>1. InstanceOf(t)' = 0
    BY <1>2 DEF InstanceOf
  <2>2. \A u \in Threads \ {t} : InstanceOf(u)' = InstanceOf(u) /\ req'[u] = req[u]
    BY <1>2 DEF InstanceOf
  <2> QED
    BY <1>1, <2>1, <2>2 DEF RequestIsOwn, Seen
<1>6. RequestsOK'
  BY <1>1, <1>2 DEF RequestsOK
<1>7. ProgressOK'
  <2> SUFFICES ASSUME NEW u \in Threads, req'[u] # 0
               PROVE  Progress(tpc[u], req[u])'
    BY DEF ProgressOK
  <2>1. u # t /\ tpc'[u] = tpc[u] /\ req'[u] = req[u]
    BY <1>2
  <2>2. Progress(tpc[u], req[u]) /\ req[u] \in Requests \ {done}
    BY <1>1, <2>1 DEF ProgressOK, RequestsOK, DispatchTypeOK
  <2> QED
    BY <2>1, <2>2 DEF Progress
<1>8. AnsweredOnce'
  <2>1. ASSUME NEW q \in Requests \ {done}
        PROVE  Settled(q)'
    BY <1>1, <2>1 DEF AnsweredOnce, Settled
  <2>2. Settled(done)'
    OBVIOUS
  <2> QED
    BY <2>1, <2>2 DEF AnsweredOnce, Settled
<1> QED
  BY <1>4, <1>5, <1>6, <1>7, <1>8

\* The dispatcher keeps its types,
LEMMA ThreadStepTypes ==
  ASSUME DispatchInv, NEW t \in Threads, ThreadStep(t)
  PROVE  DispatchTypeOK'
<1>1. DispatchTypeOK /\ tpc[t] # "idle"
  BY DEF DispatchInv, ThreadStep, Route, Bind, Before, Action, After, Respond, HandleError,
         ClientGone, Complete
<1>2. /\ req[t] \in Requests /\ answers[req[t]] \in Nat /\ completed[req[t]] = 0
      /\ tpc[t] \notin Early => Seen(t) = req[t]
  BY <1>1, AtWork
<1>3. Answer(req[t]) => answers' \in [Requests -> Nat]
  BY <1>1, <1>2 DEF Answer, DispatchTypeOK
<1>4. Over(t) => /\ req' \in [Threads -> Requests \union {0}]
                 /\ tpc' = [tpc EXCEPT ![t] = "idle"]
  BY <1>1 DEF Over, ThreadGoto, DispatchTypeOK
<1>5. CASE Route(t)
  BY <1>1, <1>3, <1>4, <1>5 DEF Route, ThreadGoto, DispatchTypeOK
<1>6. CASE Bind(t)
  <2>1. cache' \in [Threads -> Instances \union {0}] /\ made' \in 0 .. Cardinality(Threads)
        /\ request' \in [Instances -> Requests \union {0}]
    BY <1>1, <1>2, <1>6, BindInstance DEF DispatchTypeOK
  <2> QED
    BY <1>1, <1>6, <2>1 DEF Bind, ThreadGoto, DispatchTypeOK
<1>7. CASE Before(t)
  BY <1>1, <1>7 DEF Before, ThreadGoto, DispatchTypeOK
<1>8. CASE Action(t)
  <2>1. Seen(t) = req[t]
    BY <1>2, <1>8 DEF Action, Early
  <2> QED
    BY <1>1, <1>3, <1>8, <2>1 DEF Action, ThreadGoto, DispatchTypeOK
<1>9. CASE After(t)
  BY <1>1, <1>9 DEF After, ThreadGoto, DispatchTypeOK
<1>10. CASE Respond(t)
  BY <1>1, <1>3, <1>10 DEF Respond, ThreadGoto, DispatchTypeOK
<1>11. CASE HandleError(t)
  BY <1>1, <1>2, <1>3, <1>11 DEF HandleError, ThreadGoto, DispatchTypeOK
<1>12. CASE ClientGone(t)
  BY <1>1, <1>2, <1>4, <1>12 DEF ClientGone, DispatchTypeOK
<1>13. CASE Complete(t)
  <2>1. Seen(t) = req[t]
    BY <1>2, <1>13 DEF Complete, Early
  <2>2. completed' \in [Requests -> Nat]
    BY <1>1, <1>2, <1>13, <2>1 DEF Complete, DispatchTypeOK
  <2> QED
    BY <1>1, <1>4, <1>13, <2>2 DEF Complete, DispatchTypeOK
<1> QED
  BY <1>5, <1>6, <1>7, <1>8, <1>9, <1>10, <1>11, <1>12, <1>13 DEF ThreadStep

\* and every step of a thread the rest.
LEMMA ThreadStepInv ==
  ASSUME DispatchInv, NEW t \in Threads, NEW r, r = req[t], ThreadStep(t)
  PROVE  DispatchInv'
<1> DEFINE Rest == InstancesOK /\ RequestIsOwn /\ RequestsOK /\ ProgressOK /\ AnsweredOnce
<1>1. DispatchTypeOK /\ tpc[t] # "idle" /\ DispatchTypeOK'
  BY ThreadStepTypes DEF DispatchInv, ThreadStep, Route, Bind, Before, Action, After, Respond,
                         HandleError, ClientGone, Complete
<1>2. /\ r \in Requests /\ Progress(tpc[t], r) /\ answers[r] \in Nat /\ completed[r] = 0
      /\ tpc[t] \notin Early => Seen(t) = r
  BY <1>1, AtWork
<1>3. ASSUME Answer(r)
      PROVE  /\ answers'[r] = answers[r] + 1
             /\ \A q \in Requests \ {r} : answers'[q] = answers[q]
  BY <1>1, <1>2, <1>3 DEF Answer, DispatchTypeOK
<1>4. CASE Route(t)
  <2>1. answers[r] = 0 /\ r \notin raised
    BY <1>2, <1>4 DEF Route, Progress
  <2>2. CASE ThreadGoto(t, "bind") /\ UNCHANGED <<req, answers>>
    <3>1. Progress("bind", req[t])'
      BY <1>2, <1>4, <2>1, <2>2 DEF Route, Progress
    <3>2. Rest'
      BY <1>1, <1>4, <2>2, <3>1, GoesOn DEF Route, Early
    <3> QED
      BY <1>1, <3>2 DEF DispatchInv
  <2>3. CASE Over(t) /\ Answer(r)
    <3>1. Settled(r)'
      BY <1>2, <1>3, <1>4, <2>1, <2>3 DEF Route, Settled
    <3>2. Rest'
      BY <1>1, <1>3, <1>4, <2>3, <3>1, GetsOver DEF Route
    <3> QED
      BY <1>1, <3>2 DEF DispatchInv
  <2> QED
    BY <1>4, <2>2, <2>3 DEF Route
<1>5. CASE Bind(t)
  <2> DEFINE n == IF cache[t] = 0 THEN made + 1 ELSE cache[t]
  <2>1. /\ n \in Instances /\ n # 0 /\ InstancesOK'
        /\ cache' = [cache EXCEPT ![t] = n] /\ request' = [request EXCEPT ![n] = r]
        /\ \A u \in Threads \ {t} : cache[u] # n
    BY <1>5, BindInstance
  <2>2. /\ tpc'[t] = "before" /\ \A u \in Threads \ {t} : tpc'[u] = tpc[u]
        /\ UNCHANGED <<req, answers, raised, completed>> /\ tpc[t] = "bind"
    BY <1>1, <1>5 DEF Bind, ThreadGoto, DispatchTypeOK
  <2>3. RequestIsOwn'
    <3>1. InstanceOf(t)' = n /\ request'[n] = r
      BY <1>1, <2>1, <2>2 DEF InstanceOf, DispatchTypeOK
    <3>2. ASSUME NEW u \in Threads \ {t}, InstanceOf(u)' # 0
          PROVE  Seen(u)' = req'[u]
      <4>1. InstanceOf(u)' = InstanceOf(u)
        BY <1>1, <2>1, <2>2 DEF InstanceOf, DispatchTypeOK
      <4>2. InstanceOf(u) # n /\ InstanceOf(u) \in Instances
        BY <1>1, <2>1, <3>2, <4>1 DEF InstanceOf, DispatchTypeOK
      <4>3. Seen(u) = req[u]
        BY <3>2, <4>1 DEF DispatchInv, RequestIsOwn
      <4> QED
        BY <1>1, <2>1, <2>2, <4>1, <4>2, <4>3 DEF Seen, DispatchTypeOK
    <3> QED
      BY <2>2, <3>1, <3>2 DEF RequestIsOwn, Seen
  <2>4. RequestsOK' /\ AnsweredOnce'
    BY <2>2 DEF DispatchInv, RequestsOK, AnsweredOnce
  <2>5. ProgressOK'
    BY <1>2, <2>2 DEF DispatchInv, ProgressOK, Progress
  <2> QED
    BY <1>1, <2>1, <2>3, <2>4, <2>5 DEF DispatchInv
<1>6. CASE Before(t)
  <2>1. PICK l \in {"action", "after", "error"} : ThreadGoto(t, l)
    BY <1>6 DEF Before
  <2>2. Progress(l, req[t])'
    BY <1>2, <1>6, <2>1 DEF Before, Progress
  <2>3. Rest'
    BY <1>1, <1>6, <2>1, <2>2, GoesOn DEF Before, Early
  <2> QED
    BY <1>1, <2>3 DEF DispatchInv
<1>7. CASE Action(t)
  <2>1. /\ Seen(t) = r /\ tpc[t] = "action" /\ r \notin raised /\ answers[r] <= 1
    BY <1>2, <1>7 DEF Action, Early, Progress
  <2>2. CASE answers[r] = 0 /\ Answer(Seen(t)) /\ UNCHANGED tpc
    <3>1. ThreadGoto(t, "action")
      BY <1>1, <2>1, <2>2 DEF ThreadGoto, DispatchTypeOK
    <3>2. answers'[r] = 1
      BY <1>3, <2>1, <2>2
    <3>3. Progress("action", req[t])'
      BY <1>2, <1>7, <2>1, <3>2 DEF Action, Progress
    <3>4. Rest'
      BY <1>1, <1>3, <1>7, <2>1, <2>2, <3>1, <3>3, GoesOn DEF Action, Early
    <3> QED
      BY <1>1, <3>4 DEF DispatchInv
  <2>3. ASSUME NEW l \in {"after", "error"}, ThreadGoto(t, l), UNCHANGED answers
        PROVE  DispatchInv'
    <3>1. Progress(l, req[t])'
      BY <1>2, <1>7, <2>1, <2>3 DEF Action, Progress
    <3>2. Rest'
      BY <1>1, <1>7, <2>1, <2>3, <3>1, GoesOn DEF Action, Early
    <3> QED
      BY <1>1, <3>2 DEF DispatchInv
  <2> QED
    BY <1>7, <2>1, <2>2, <2>3 DEF Action
<1>8. CASE After(t)
  <2>1. PICK l \in {"respond", "error"} : ThreadGoto(t, l)
    BY <1>8 DEF After
  <2>2. Progress(l, req[t])'
    BY <1>2, <1>8, <2>1 DEF After, Progress
  <2>3. Rest'
    BY <1>1, <1>8, <2>1, <2>2, GoesOn DEF After, Early
  <2> QED
    BY <1>1, <2>3 DEF DispatchInv
<1>9. CASE Respond(t)
  <2>1. /\ tpc[t] = "respond" /\ ThreadGoto(t, "complete") /\ r \notin raised /\ answers[r] <= 1
        /\ UNCHANGED <<req, cache, made, request, raised, completed>>
    BY <1>2, <1>9 DEF Respond, Progress
  <2>2. /\ answers'[r] <= 1 /\ (r \notin NoBody => answers'[r] = 1)
        /\ \A q \in Requests \ {r} : answers'[q] = answers[q]
    <3>1. CASE r \in NoBody \/ answers[r] > 0
      BY <1>2, <1>9, <2>1, <3>1 DEF Respond
    <3>2. CASE r \notin NoBody /\ answers[r] = 0
      <4>1. Answer(r)
        BY <1>9, <3>2 DEF Respond
      <4> QED
        BY <1>3, <3>2, <4>1
    <3> QED
      BY <1>2, <3>1, <3>2
  <2>3. completed'[r] = 0 /\ req'[t] = r /\ r \notin raised'
    BY <1>2, <2>1
  <2>4. Progress("complete", req[t])'
    BY <2>2, <2>3 DEF Progress
  <2>5. Rest'
    BY <1>1, <2>1, <2>2, <2>4, GoesOn DEF Early
  <2> QED
    BY <1>1, <2>5 DEF DispatchInv
<1>10. CASE HandleError(t)
  <2>1. /\ tpc[t] = "error" /\ ThreadGoto(t, "complete") /\ Answer(r)
        /\ raised' = (IF answers[r] > 0 THEN raised \union {r} ELSE raised)
        /\ UNCHANGED <<req, cache, made, request, completed>>
    BY <1>10 DEF HandleError
  <2>2. r \notin raised' => answers'[r] = 1
    BY <1>2, <1>3, <2>1
  <2>3. completed'[r] = 0 /\ req'[t] = r
    BY <1>2, <2>1
  <2>4. Progress("complete", req[t])'
    BY <2>2, <2>3 DEF Progress
  <2>5. Rest'
    BY <1>1, <1>3, <2>1, <2>4, GoesOn DEF Early
  <2> QED
    BY <1>1, <2>5 DEF DispatchInv
<1>11. CASE ClientGone(t)
  <2>1. /\ Over(t) /\ raised' = raised \union {r}
        /\ UNCHANGED <<cache, made, request, answers, completed>>
    BY <1>11 DEF ClientGone
  <2>2. Settled(r)'
    BY <1>2, <2>1 DEF Settled
  <2>3. Rest'
    BY <1>1, <2>1, <2>2, GetsOver
  <2> QED
    BY <1>1, <2>3 DEF DispatchInv
<1>12. CASE Complete(t)
  <2>1. /\ tpc[t] = "complete" /\ Over(t) /\ completed' = [completed EXCEPT ![r] = @ + 1]
        /\ UNCHANGED <<cache, made, request, answers, raised>>
    BY <1>2, <1>12 DEF Complete, Early
  <2>2. completed'[r] = 1 /\ \A q \in Requests \ {r} : completed'[q] = completed[q]
    BY <1>1, <1>2, <2>1 DEF DispatchTypeOK
  <2>3. Settled(r)'
    BY <1>2, <2>1, <2>2 DEF Settled, Progress
  <2>4. Rest'
    BY <1>1, <2>1, <2>2, <2>3, GetsOver
  <2> QED
    BY <1>1, <2>4 DEF DispatchInv
<1> QED
  BY <1>4, <1>5, <1>6, <1>7, <1>8, <1>9, <1>10, <1>11, <1>12 DEF ThreadStep

\* A thread takes a request that no thread has had.
LEMMA AcceptInv ==
  ASSUME DispatchInv, NEW t \in Threads, Accept(t)
  PROVE  DispatchInv'
<1>1. /\ DispatchTypeOK /\ InstancesOK /\ RequestIsOwn /\ RequestsOK /\ ProgressOK /\ AnsweredOnce
  BY DEF DispatchInv
<1>2. PICK r \in Requests : ~ Taken(r) /\ req' = [req EXCEPT ![t] = r]
  BY DEF Accept
<1>3. /\ tpc[t] = "idle" /\ tpc' = [tpc EXCEPT ![t] = "route"]
      /\ UNCHANGED <<cache, made, request, answers, raised, completed>>
  BY DEF Accept, ThreadGoto
<1>4. /\ answers[r] = 0 /\ completed[r] = 0 /\ r \notin raised
      /\ \A u \in Threads : req[u] # r
  BY <1>1, <1>2 DEF Taken, DispatchTypeOK
<1>5. DispatchTypeOK'
  BY <1>1, <1>2, <1>3 DEF DispatchTypeOK
<1>6. /\ tpc'[t] = "route" /\ req'[t] = r /\ r # 0
      /\ \A u \in Threads \ {t} : tpc'[u] = tpc[u] /\ req'[u] = req[u]
  BY <1>1, <1>2, <1>3, DispatchAssumption DEF DispatchTypeOK
<1>7. InstancesOK'
  BY <1>1, <1>3, <1>6 DEF InstancesOK, Makers
<1>8. RequestIsOwn'
  <2>1. InstanceOf(t)' = 0 /\ \A u \in Threads \ {t} : InstanceOf(u)' = InstanceOf(u)
    BY <1>3, <1>6 DEF InstanceOf
  <2> QED
    BY <1>1, <1>3, <1>6, <2>1 DEF RequestIsOwn, Seen
<1>9. RequestsOK'
  BY <1>1, <1>4, <1>6 DEF RequestsOK
<1>10. ProgressOK'
  BY <1>1, <1>3, <1>4, <1>6 DEF ProgressOK, Progress
<1>11. AnsweredOnce'
  BY <1>1, <1>3 DEF AnsweredOnce
<1> QED
  BY <1>5, <1>7, <1>8, <1>9, <1>10, <1>11 DEF DispatchInv

(***************************************************************************)
(* The process                                                             *)
(***************************************************************************)

\* The timed tasks keep their types.
LEMMA CrondTypes ==
  ASSUME CrondTypeOK, CrondStep \/ Daemon \/ CrondClose \/ UNCHANGED crondVars
  PROVE  CrondTypeOK'
<1> USE CrondAssumption DEF CrondTypeOK, Locations
<1>1. CASE UNCHANGED crondVars \/ Daemon \/ CrondClose \/ Exit
  BY <1>1 DEF crondVars, Daemon, CrondClose, Exit
<1>2. CASE Run
  BY <1>2 DEF Run
<1>3. ASSUME NEW t \in TimingTasks, StartLoop(t)
      PROVE  CrondTypeOK'
  <2>1. Interval[t] \in Nat \ {0}
    OBVIOUS
  <2> QED
    BY <1>3, <2>1 DEF StartLoop, Sleep
<1>4. ASSUME NEW t \in TimingTasks, SleepOn(t)
      PROVE  CrondTypeOK'
  <2>1. left[t] \in Nat /\ left[t] > 0
    BY <1>4 DEF SleepOn
  <2>2. (IF left[t] > 3 THEN left[t] - 3 ELSE left[t]) \in Nat \ {0}
    BY <2>1
  <2> QED
    BY <1>4, <2>2 DEF SleepOn
<1>5. ASSUME NEW t \in TimingTasks, Wake(t) \/ SleepEnds(t) \/ Loop(t)
      PROVE  CrondTypeOK'
  BY <1>5 DEF Wake, SleepEnds, Loop
<1>6. ASSUME NEW t \in TimingTasks, Exec(t)
      PROVE  CrondTypeOK'
  <2>1. PICK s \in 1 .. Interval[t] : Sleep(t, s)
    BY <1>6 DEF Exec
  <2>2. s \in Nat \ {0}
    OBVIOUS
  <2> QED
    BY <1>6, <2>1, <2>2 DEF Exec, Sleep
<1> QED
  BY <1>1, <1>2, <1>3, <1>4, <1>5, <1>6 DEF CrondStep, TaskStep

\* Every step of the process keeps the types and the invariant of the dispatcher.
LEMMA ServiceStep ==
  ASSUME IInv, [Next]_vars
  PROVE  IInv'
<1>1. ServiceTypeOK /\ CrondTypeOK /\ DispatchTypeOK /\ DispatchInv
  BY DEF IInv, ServiceTypeOK
<1>2. ASSUME UNCHANGED dispatchVars
      PROVE  DispatchInv'
  BY <1>1, <1>2 DEF dispatchVars, DispatchInv, DispatchTypeOK, InstancesOK, Makers, RequestIsOwn,
                    Seen, InstanceOf, RequestsOK, ProgressOK, Progress, AnsweredOnce
<1>3. ASSUME DispatchInv', UNCHANGED <<serviceVars, crondVars>>
      PROVE  IInv'
  BY <1>1, <1>3, CrondTypes DEF IInv, ServiceTypeOK, DispatchInv, serviceVars, mainVars
<1>4. ASSUME UNCHANGED dispatchVars, CrondTypeOK',
             shuttable' \in BOOLEAN /\ sig' \in BOOLEAN /\ cut' \in BOOLEAN,
             main' \in {"boot", "shuttable", "start", "bind", "serve", "httpd", "close",
                        "auto_manage", "over"},
             app' \in {"none", "start", "close"} /\ httpd' \in {"none", "open", "closed"},
             listener' \in {"none", "listen", "raised", "over"},
             autoManage' \in {"none", "open", "closed"} /\ interrupts' \in 0 .. MaxInterrupts
      PROVE  IInv'
  BY <1>2, <1>4 DEF IInv, ServiceTypeOK, DispatchInv
<1>5. CASE MainStep
  <2>1. CrondTypeOK' /\ UNCHANGED <<dispatchVars, shuttable, sig, interrupts, cut>>
    BY <1>1, <1>5, CrondTypes DEF MainStep, Boot, EnableRemoteShuttable, Start, BindServer,
                                  CloseHttpd, Close, CloseAutoManage
  <2>2. main' \in {"boot", "shuttable", "start", "bind", "serve", "httpd", "close",
                   "auto_manage", "over"}
    BY <1>5 DEF MainStep, Boot, EnableRemoteShuttable, Start, BindServer, CloseHttpd, Close,
                CloseAutoManage
  <2>3. /\ app' \in {"none", "start", "close"} /\ httpd' \in {"none", "open", "closed"}
        /\ listener' \in {"none", "listen", "raised", "over"}
        /\ autoManage' \in {"none", "open", "closed"}
    BY <1>1, <1>5 DEF MainStep, Boot, EnableRemoteShuttable, Start, BindServer, CloseHttpd, Close,
                      CloseAutoManage, ServiceTypeOK
  <2> QED
    BY <1>1, <1>4, <2>1, <2>2, <2>3 DEF ServiceTypeOK
<1>6. CASE Interrupt
  <2>1. interrupts' \in 0 .. MaxInterrupts /\ cut' \in BOOLEAN
    BY <1>1, <1>6, ServiceAssumption DEF Interrupt, ServiceTypeOK
  <2>2. main' \in {"over", "close", "httpd", "auto_manage"}
    BY <1>6 DEF Interrupt
  <2>3. UNCHANGED <<shuttable, app, httpd, listener, sig, autoManage, crondVars, dispatchVars>>
    BY <1>6 DEF Interrupt
  <2>4. CrondTypeOK'
    BY <1>1, <2>3, CrondTypes
  <2> QED
    BY <1>1, <1>4, <2>1, <2>2, <2>3, <2>4 DEF ServiceTypeOK
<1>7. CASE Listen
  <2>1. CrondTypeOK'
    BY <1>1, <1>7, CrondTypes DEF Listen
  <2> QED
    BY <1>1, <1>4, <1>7, <2>1 DEF Listen, ServiceTypeOK, mainVars
<1>8. CASE CrondRuns
  <2>1. CrondTypeOK' /\ UNCHANGED <<serviceVars, dispatchVars>>
    BY <1>1, <1>8, CrondTypes DEF CrondRuns
  <2> QED
    BY <1>1, <1>4, <2>1 DEF ServiceTypeOK, serviceVars, mainVars
<1>9. ASSUME NEW t \in Threads, Request(t) \/ Handle(t)
      PROVE  IInv'
  BY <1>1, <1>3, <1>9, AcceptInv, ThreadStepInv DEF Request, Handle
<1>10. ASSUME NEW t \in Threads, ShutDown(t)
       PROVE  IInv'
  <2>1. DispatchInv'
    BY <1>1, <1>10, ThreadStepInv DEF ShutDown, ThreadStep
  <2>2. UNCHANGED <<shuttable, mainVars, listener, crondVars>> /\ sig' \in BOOLEAN
    BY <1>1, <1>10 DEF ShutDown, ServiceTypeOK
  <2>3. CrondTypeOK'
    BY <1>1, <2>2, CrondTypes
  <2> QED
    BY <1>1, <2>1, <2>2, <2>3 DEF IInv, ServiceTypeOK, DispatchInv, mainVars
<1>11. CASE UNCHANGED vars
  BY <1>1, <1>2, <1>3, <1>11 DEF vars
<1> QED
  BY <1>5, <1>6, <1>7, <1>8, <1>9, <1>10, <1>11 DEF Next

(***************************************************************************)
(* The theorems                                                            *)
(***************************************************************************)

\* IInv is inductive.
THEOREM ServiceInvariance == Spec => []IInv
<1>1. Init => IInv
  <2> SUFFICES ASSUME Init
               PROVE  IInv
    OBVIOUS
  <2>1. CrondTypeOK
    BY DEF Init, CrondInit, CrondTypeOK, Locations
  <2>2. /\ Cardinality(Threads) \in Nat /\ Cardinality(Makers) = 0
    <3>1. Makers = {}
      BY DEF Init, DispatchInit, Makers
    <3> QED
      BY <3>1, MakersAreFinite, FS_EmptySet
  <2>3. DispatchTypeOK
    BY <2>2 DEF Init, DispatchInit, DispatchTypeOK
  <2>4. InstancesOK
    BY <2>2 DEF Init, DispatchInit, InstancesOK, Makers
  <2>5. RequestIsOwn /\ RequestsOK /\ ProgressOK /\ AnsweredOnce
    BY DEF Init, DispatchInit, RequestIsOwn, InstanceOf, RequestsOK, ProgressOK, AnsweredOnce
  <2>6. ServiceTypeOK
    <3>1. interrupts \in 0 .. MaxInterrupts
      BY ServiceAssumption DEF Init
    <3>2. shuttable \in BOOLEAN /\ sig \in BOOLEAN /\ cut \in BOOLEAN
      BY DEF Init
    <3> QED
      BY <2>1, <2>3, <3>1, <3>2 DEF Init, ServiceTypeOK
  <2> QED
    BY <2>3, <2>4, <2>5, <2>6 DEF IInv, DispatchInv
<1>2. IInv /\ [Next]_vars => IInv'
  BY ServiceStep
<1> QED
  BY <1>1, <1>2, PTL DEF Spec

\* The service code of a thread has this thread's request in self.request,
\* whatever the other threads are doing (rest/app/dispatch.py).
THEOREM OwnRequests == Spec => []ServesOwnRequests
<1>1. IInv => ServesOwnRequests
  BY DEF IInv, DispatchInv, ServesOwnRequests
<1> QED
  BY <1>1, ServiceInvariance, PTL

\* A request is answered once and completed at most once (dispatch.py, handler.py).
THEOREM OneAnswer == Spec => []AnsweredOnce
<1>1. IInv => AnsweredOnce
  BY DEF IInv, DispatchInv
<1> QED
  BY <1>1, ServiceInvariance, PTL
=============================================================================
