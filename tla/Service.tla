------------------------------ MODULE Service ------------------------------
(***************************************************************************)
(* The process of smart_aaas: aaas/run.py and aaas/Runner.py on top of     *)
(* rest/app/application.py.  The main thread starts the AutoManage, the    *)
(* thread of the timed tasks (Crond), the thread that listens for a remote *)
(* shut down, and serves; request threads dispatch (Dispatch); SIGINT ends *)
(* it.  The process is over when the main thread and every thread that is  *)
(* no daemon are.  AutoManage.close is here one step: see AutoManage.      *)
(***************************************************************************)
EXTENDS Crond, Dispatch

CONSTANTS MaxInterrupts   \* SIGINTs to the main process

ASSUME ServiceAssumption == MaxInterrupts \in Nat

VARIABLES
    shuttable,    \* the option of run_aaas
    main,         \* where the main thread is in run_aaas
    app, httpd,   \* RestServiceApplication._status; its server
    listener,     \* the thread _listen_shut_sig
    sig,          \* 'shut_down_app' is in __sig_shut__
    autoManage,   \* the AutoManage with its dispatcher and pool
    interrupts,
    cut           \* history: SIGINT outside the try of daemon(), or while closing

mainVars == <<main, app, httpd, autoManage, interrupts, cut>>
serviceVars == <<shuttable, mainVars, listener, sig>>
vars == <<serviceVars, crondVars, dispatchVars>>

Init ==
    /\ CrondInit /\ DispatchInit
    /\ shuttable \in BOOLEAN /\ main = "boot"
    /\ app = "none" /\ httpd = "none" /\ listener = "none" /\ sig = FALSE
    /\ autoManage = "none" /\ interrupts = 0 /\ cut = FALSE

-----------------------------------------------------------------------------
(* The main thread. *)

\* ServiceRunner(): its AutoManage is started first.
Boot ==
    /\ main = "boot" /\ main' = "shuttable" /\ autoManage' = "open"
    /\ UNCHANGED <<shuttable, app, httpd, listener, sig, interrupts, cut, crondVars, dispatchVars>>

EnableRemoteShuttable ==
    /\ main = "shuttable" /\ main' = "start"
    /\ listener' = IF shuttable THEN "listen" ELSE listener
    /\ UNCHANGED <<shuttable, app, httpd, sig, autoManage, interrupts, cut, crondVars, dispatchVars>>

\* start(), which daemon calls in its try: the timed tasks first, then the server.
Start ==
    /\ main = "start" /\ main' = "bind" /\ app' = "start" /\ Daemon
    /\ UNCHANGED <<shuttable, httpd, listener, sig, autoManage, interrupts, cut, dispatchVars>>

\* The port may be taken: start raises, and daemon has no server to close.
BindServer ==
    /\ main = "bind"
    /\ \/ main' = "serve" /\ httpd' = "open"
       \/ main' = "close" /\ UNCHANGED httpd
    /\ UNCHANGED <<shuttable, app, listener, sig, autoManage, interrupts, cut, crondVars, dispatchVars>>

CloseHttpd ==
    /\ main = "httpd" /\ main' = "close"
    /\ httpd' = IF httpd = "open" THEN "closed" ELSE httpd
    /\ UNCHANGED <<shuttable, app, listener, sig, autoManage, interrupts, cut, crondVars, dispatchVars>>

\* A fault: the status is not set, and the listener goes on.
CloseQuietly ==
    /\ main = "close" /\ main' = "auto_manage"
    /\ IF app = "close" \/ status = "inited" THEN UNCHANGED crondVars ELSE CrondClose
    /\ UNCHANGED <<shuttable, app, httpd, listener, sig, autoManage, interrupts, cut, dispatchVars>>

\* close(close_once=True); end_crond does nothing before start has made the Crond.
Close ==
    /\ main = "close" /\ main' = "auto_manage" /\ app' = "close"
    /\ IF app = "close" \/ status = "inited" THEN UNCHANGED crondVars ELSE CrondClose
    /\ UNCHANGED <<shuttable, httpd, listener, sig, autoManage, interrupts, cut, dispatchVars>>

CloseAutoManage ==
    /\ main = "auto_manage" /\ main' = "over" /\ autoManage' = "closed"
    /\ UNCHANGED <<shuttable, app, httpd, listener, sig, interrupts, cut, crondVars, dispatchVars>>

\* SIGINT: daemon() closes what it has begun; the finally of run_aaas closes the
\* AutoManage, when there is a runner.  A second one breaks the closing off.
Interrupt ==
    /\ main # "over" /\ interrupts < MaxInterrupts /\ interrupts' = interrupts + 1
    /\ main' = CASE main \in {"boot", "auto_manage"} -> "over"
                 [] main \in {"start", "bind"} -> "close"
                 [] main = "serve" -> "httpd"
                 [] OTHER -> "auto_manage"
    /\ cut' = (cut \/ main \notin {"start", "bind", "serve"})
    /\ UNCHANGED <<shuttable, app, httpd, listener, sig, autoManage, crondVars, dispatchVars>>

MainStep ==
    Boot \/ EnableRemoteShuttable \/ Start \/ BindServer \/ CloseHttpd \/ Close \/ CloseAutoManage

-----------------------------------------------------------------------------
(* The other threads. *)

\* A request is taken while the main thread serves.
Request(t) ==
    /\ main = "serve" /\ Accept(t)
    /\ UNCHANGED <<serviceVars, crondVars>>

\* Any service but shut_down.
Handle(t) == ThreadStep(t) /\ UNCHANGED <<serviceVars, crondVars>>

\* AdminService.shut_down: without the option it raises.
ShutDown(t) ==
    /\ Action(t) /\ tpc'[t] = (IF shuttable THEN "after" ELSE "error")
    /\ sig' = shuttable
    /\ UNCHANGED <<shuttable, mainVars, listener, crondVars>>

\* _listen_shut_sig, every second.  shutdown() calls httpd.shutdown, which no server
\* has: the thread is over without having closed anything.
Listen ==
    /\ listener = "listen"
    /\ \/ sig /\ listener' = "raised" /\ sig' = FALSE
       \/ ~ sig /\ app = "close" /\ listener' = "over" /\ UNCHANGED sig
    /\ UNCHANGED <<shuttable, mainVars, crondVars, dispatchVars>>

CrondRuns == CrondStep /\ UNCHANGED <<serviceVars, dispatchVars>>

\* The service stands: nobody has to stop it.
Next ==
    \/ MainStep \/ Interrupt \/ Listen \/ CrondRuns
    \/ \E t \in Threads : Request(t) \/ Handle(t) \/ ShutDown(t)

Spec == Init /\ [][Next]_vars

\* Every thread runs; nobody has to send a request or a SIGINT.
FairSpec ==
    /\ Spec /\ WF_vars(MainStep) /\ WF_vars(Listen)
    /\ WF_vars(Run /\ UNCHANGED <<serviceVars, dispatchVars>>)
    /\ \A t \in TimingTasks : WF_vars(TaskStep(t) /\ UNCHANGED <<serviceVars, dispatchVars>>)
    /\ WF_vars(Exit /\ UNCHANGED <<serviceVars, dispatchVars>>)
    /\ \A t \in Threads : WF_vars(Handle(t))

-----------------------------------------------------------------------------

ServiceTypeOK ==
    /\ CrondTypeOK /\ DispatchTypeOK
    /\ shuttable \in BOOLEAN /\ sig \in BOOLEAN /\ cut \in BOOLEAN
    /\ main \in {"boot", "shuttable", "start", "bind", "serve", "httpd", "close",
                  "auto_manage", "over"}
    /\ app \in {"none", "start", "close"} /\ httpd \in {"none", "open", "closed"}
    /\ listener \in {"none", "listen", "raised", "over"}
    /\ autoManage \in {"none", "open", "closed"} /\ interrupts \in 0 .. MaxInterrupts

\* RequestIsOwn in the service, with requests to shut it down.  (The types are part of it.)
ServesOwnRequests == ServiceTypeOK /\ RequestIsOwn

\* The process can end: the threads Python waits for are over, the AutoManage is closed.
Ended ==
    /\ main = "over" /\ status \in {"inited", "exit"}
    /\ listener # "listen" /\ autoManage = "closed"

\* A service that begins to close, after a SIGINT or an error of start, comes to its
\* end, whatever the timed tasks, the listener and the requests are at.
ServiceEnds == main \in {"httpd", "close"} ~> Ended \/ cut
=============================================================================
