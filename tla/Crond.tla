-------------------------------- MODULE Crond --------------------------------
(***************************************************************************)
(* The timed tasks of a service: smart/rest/app/crond.py, run in a thread  *)
(* (Crond.daemon with run_in_thread), its asyncio loop with one coroutine  *)
(* per timed task, and close(), called by another thread.                  *)
(***************************************************************************)
EXTENDS Naturals, FiniteSets

CONSTANTS
  TimingTasks,   \* the functions decorated with cron.timing
  Interval,      \* Interval[t], in seconds
  RunImmediate   \* the tasks with run_immediate

ASSUME CrondAssumption ==
  /\ IsFiniteSet(TimingTasks)
  /\ Interval \in [TimingTasks -> Nat \ {0}]
  /\ RunImmediate \subseteq TimingTasks

VARIABLES
  status,   \* Crond.status
  endFlag,  \* Crond.end_flag
  at,       \* at[t]: where the coroutine start_loop of t is
  left      \* left[t]: the local `interval' of TimingTask.sleep

crondVars == <<status, endFlag, at, left>>

Locations ==
  {"none",
   "start",  \* created
   "sleep",  \* in sleep, about to test end_flag
   "await",  \* in asyncio.sleep
   "loop",   \* at the head of the loop of start_loop
   "exec",   \* in task_func
   "over"}

CrondTypeOK ==
  /\ status \in {"inited", "start", "running", "exit"}
  /\ endFlag \in BOOLEAN
  /\ at \in [TimingTasks -> Locations]
  /\ left \in [TimingTasks -> Nat]
  /\ \A t \in TimingTasks : at[t] \in {"sleep", "await"} => left[t] > 0

CrondInit ==
  /\ status = "inited"
  /\ endFlag = FALSE
  /\ at = [t \in TimingTasks |-> "none"]
  /\ left = [t \in TimingTasks |-> 0]

\* sleep(s) is called; it returns at once when end_flag is set.
Sleep(t, s) ==
  /\ at' = [at EXCEPT ![t] = IF endFlag THEN "loop" ELSE "sleep"]
  /\ left' = [left EXCEPT ![t] = s]

\* daemon starts the thread, and with it run.
Daemon ==
  /\ status = "inited"
  /\ status' = "start"
  /\ UNCHANGED <<endFlag, at, left>>

\* run has taken the tasks from timing_tasks, until get timed out.
Run ==
  /\ status = "start"
  /\ IF TimingTasks = {} \/ endFlag
     THEN status' = "exit" /\ UNCHANGED at
     ELSE status' = "running" /\ at' = [t \in TimingTasks |-> "start"]
  /\ UNCHANGED <<endFlag, left>>

\* The first step of start_loop.
StartLoop(t) ==
  /\ at[t] = "start"
  /\ IF t \in RunImmediate
     THEN at' = [at EXCEPT ![t] = "loop"] /\ UNCHANGED left
     ELSE Sleep(t, Interval[t])
  /\ UNCHANGED <<status, endFlag>>

\* One turn of the loop of sleep.  The seconds of the last turn are slept, but
\* not taken off `interval', which therefore never gets to 0: there is no action
\* for the end of `while interval'.
SleepOn(t) ==
  /\ at[t] = "sleep"
  /\ ~ endFlag
  /\ left' = [left EXCEPT ![t] = IF @ > 3 THEN @ - 3 ELSE @]
  /\ at' = [at EXCEPT ![t] = "await"]
  /\ UNCHANGED <<status, endFlag>>

\* asyncio.sleep returns.
Wake(t) ==
  /\ at[t] = "await"
  /\ at' = [at EXCEPT ![t] = "sleep"]
  /\ UNCHANGED <<status, endFlag, left>>

\* The loop of sleep finds end_flag set and raises, which ends start_loop.
SleepEnds(t) ==
  /\ at[t] = "sleep"
  /\ endFlag
  /\ at' = [at EXCEPT ![t] = "over"]
  /\ UNCHANGED <<status, endFlag, left>>

\* The head of the loop of start_loop.
Loop(t) ==
  /\ at[t] = "loop"
  /\ at' = [at EXCEPT ![t] = IF endFlag THEN "over" ELSE "exec"]
  /\ UNCHANGED <<status, endFlag, left>>

\* task_func has run, whatever it raised, for some seconds; the rest of the
\* interval is slept, and MIN_INTERVAL (less than a second, 1 here) at least.
Exec(t) ==
  /\ at[t] = "exec"
  /\ \E s \in 1 .. Interval[t] : Sleep(t, s)
  /\ UNCHANGED <<status, endFlag>>

\* run_until_complete returns: every coroutine is over.
Exit ==
  /\ status = "running"
  /\ \A t \in TimingTasks : at[t] = "over"
  /\ status' = "exit"
  /\ UNCHANGED <<endFlag, at, left>>

\* Crond.close, called by the thread that shuts the service down.
CrondClose == endFlag' = TRUE /\ UNCHANGED <<status, at, left>>

TaskStep(t) ==
  StartLoop(t) \/ SleepOn(t) \/ Wake(t) \/ SleepEnds(t) \/ Loop(t) \/ Exec(t)

CrondStep == Run \/ (\E t \in TimingTasks : TaskStep(t)) \/ Exit
=============================================================================
