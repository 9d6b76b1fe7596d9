------------------------------ MODULE Dispatch ------------------------------
(***************************************************************************)
(* Requests to the service: rest/app/dispatch.py with rest/app/handler.py, *)
(* rest/http/handler.py and rest/http/request.py.  Every server thread     *)
(* takes one request after the other (under wsgi; a thread of the http     *)
(* server takes one), and has its own instances of the service classes in  *)
(* a threading.local; an instance holds the request in self.request.       *)
(***************************************************************************)
EXTENDS Naturals, FiniteSets

CONSTANTS
    Threads,
    Requests,    \* positive numbers, in the order of their arrival
    NoBody       \* the requests whose handler has the rst_handler no_body

ASSUME DispatchAssumption ==
    /\ IsFiniteSet(Threads) /\ IsFiniteSet(Requests)
    /\ Requests \subseteq Nat \ {0} /\ NoBody \subseteq Requests

VARIABLES
    tpc,        \* tpc[t]: where thread t is in dispatch
    req,        \* req[t]: the request it has, 0 for none
    cache,      \* cache[t]: its service instance, 0 for none
    made,       \* instances made so far
    request,    \* request[n]: self.request of instance n
    answers,    \* answers[r]: responses written for r
    raised,     \* history: the requests that failed once a response was out
    completed   \* completed[r]: runs of the after_complete hooks

dispatchVars == <<tpc, req, cache, made, request, answers, raised, completed>>

Instances == 1 .. Cardinality(Threads)

DispatchInit ==
    /\ tpc = [t \in Threads |-> "idle"] /\ req = [t \in Threads |-> 0]
    /\ cache = [t \in Threads |-> 0] /\ made = 0
    /\ request = [n \in Instances |-> 0]
    /\ answers = [r \in Requests |-> 0] /\ raised = {}
    /\ completed = [r \in Requests |-> 0]

ThreadGoto(t, l) == tpc' = [tpc EXCEPT ![t] = l]
InstanceOf(t) == IF tpc[t] \in {"idle", "route", "bind"} THEN 0 ELSE cache[t]
Seen(t) == request[InstanceOf(t)]    \* self.request, as the code of the service sees it
Answer(r) == answers' = [answers EXCEPT ![r] = @ + 1]
Over(t) == ThreadGoto(t, "idle") /\ req' = [req EXCEPT ![t] = 0]

Taken(r) == answers[r] + completed[r] > 0 \/ r \in raised \/ \E t \in Threads : req[t] = r

\* A connection is accepted; the requests come in order.
Accept(t) ==
    /\ tpc[t] = "idle" /\ ThreadGoto(t, "route")
    /\ \E r \in Requests :
          /\ ~ Taken(r) /\ \A q \in Requests : q < r => Taken(q)
          /\ req' = [req EXCEPT ![t] = r]
    /\ UNCHANGED <<cache, made, request, answers, raised, completed>>

\* No handler: send_error, and after_complete finds no service instance.
Route(t) ==
    /\ tpc[t] = "route"
    /\ \/ ThreadGoto(t, "bind") /\ UNCHANGED <<req, answers>>
       \/ Over(t) /\ Answer(req[t])
    /\ UNCHANGED <<cache, made, request, raised, completed>>

\* A fault: the instances are cached in the dispatcher, for all threads.
BindShared(t) ==
    LET n == IF made = 0 THEN 1 ELSE made IN
    /\ tpc[t] = "bind" /\ ThreadGoto(t, "before")
    /\ cache' = [cache EXCEPT ![t] = n] /\ made' = n
    /\ request' = [request EXCEPT ![n] = req[t]]
    /\ UNCHANGED <<req, answers, raised, completed>>

\* get_service_instance, and self.request.
Bind(t) ==
    LET n == IF cache[t] = 0 THEN made + 1 ELSE cache[t] IN
    /\ tpc[t] = "bind" /\ ThreadGoto(t, "before")
    /\ cache' = [cache EXCEPT ![t] = n]
    /\ made' = IF cache[t] = 0 THEN n ELSE made
    /\ request' = [request EXCEPT ![n] = req[t]]
    /\ UNCHANGED <<req, answers, raised, completed>>

\* A before_action hook may refuse the request; the after_action hooks run all the same.
Before(t) ==
    /\ tpc[t] = "before"
    /\ \E l \in {"action", "after", "error"} : ThreadGoto(t, l)
    /\ UNCHANGED <<req, cache, made, request, answers, raised, completed>>

\* The function of the service answers self.request itself, returns, or raises.
Action(t) ==
    /\ tpc[t] = "action"
    /\ \/ answers[req[t]] = 0 /\ Answer(Seen(t)) /\ UNCHANGED tpc
       \/ ThreadGoto(t, "after") /\ UNCHANGED answers
       \/ ThreadGoto(t, "error") /\ UNCHANGED answers
    /\ UNCHANGED <<req, cache, made, request, raised, completed>>

After(t) ==
    /\ tpc[t] = "after" /\ \E l \in {"respond", "error"} : ThreadGoto(t, l)
    /\ UNCHANGED <<req, cache, made, request, answers, raised, completed>>

\* A fault: rest_handler does not look whether the request is answered.
RespondAgain(t) ==
    /\ tpc[t] = "respond" /\ ThreadGoto(t, "complete")
    /\ IF req[t] \in NoBody THEN UNCHANGED answers ELSE Answer(req[t])
    /\ UNCHANGED <<req, cache, made, request, raised, completed>>

\* rst_handler: rest_handler answers what is not answered, no_body nothing.
Respond(t) ==
    /\ tpc[t] = "respond" /\ ThreadGoto(t, "complete")
    /\ IF req[t] \in NoBody \/ answers[req[t]] > 0 THEN UNCHANGED answers ELSE Answer(req[t])
    /\ UNCHANGED <<req, cache, made, request, raised, completed>>

\* handle_error answers, also when the function had begun to.
HandleError(t) ==
    /\ tpc[t] = "error" /\ ThreadGoto(t, "complete") /\ Answer(req[t])
    /\ raised' = IF answers[req[t]] > 0 THEN raised \union {req[t]} ELSE raised
    /\ UNCHANGED <<req, cache, made, request, completed>>

\* The response cannot be written: dispatch raises, and after_complete is not called.
ClientGone(t) ==
    /\ tpc[t] \in {"error", "respond"} /\ Over(t)
    /\ raised' = raised \union {req[t]}
    /\ UNCHANGED <<cache, made, request, answers, completed>>

\* after_complete; what its hooks raise is only logged.
Complete(t) ==
    /\ tpc[t] = "complete" /\ Over(t)
    /\ completed' = [completed EXCEPT ![Seen(t)] = @ + 1]
    /\ UNCHANGED <<cache, made, request, answers, raised>>

ThreadStep(t) ==
    \/ Route(t) \/ Bind(t) \/ Before(t) \/ Action(t) \/ After(t)
    \/ Respond(t) \/ HandleError(t) \/ ClientGone(t) \/ Complete(t)

DispatchTypeOK ==
    /\ tpc \in [Threads -> {"idle", "route", "bind", "before", "action", "after", "error",
                            "respond", "complete"}]
    /\ req \in [Threads -> Requests \union {0}]
    /\ cache \in [Threads -> Instances \union {0}] /\ made \in 0 .. Cardinality(Threads)
    /\ request \in [Instances -> Requests \union {0}]
    /\ answers \in [Requests -> Nat] /\ raised \subseteq Requests
    /\ completed \in [Requests -> Nat]

\* The service code of a thread - hooks, function, response, after_complete - has the
\* request of this thread in self.request, whatever the other threads are doing.
RequestIsOwn ==
    \A t \in Threads : InstanceOf(t) # 0 => Seen(t) = req[t]

\* A request is answered once and completed at most once.  Exempt are a handler without
\* body, which may not answer at all, and a request that failed after its first answer
\* (it gets the error as well).
AnsweredOnce ==
    \A r \in Requests :
        /\ completed[r] <= 1
        /\ r \notin raised => answers[r] <= 1
        /\ completed[r] = 1 /\ r \notin raised \union NoBody => answers[r] = 1
=============================================================================
