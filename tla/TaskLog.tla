------------------------------ MODULE TaskLog ------------------------------
(***************************************************************************)
(* The log of a task of the service, read by a client while the task       *)
(* writes it: AaasLogCat of aaas/client.py polls task_log of               *)
(* aaas/service/auto.py, which reads the file with utils/file/cat.py and   *)
(* asks the task dict (aaas/utils/task_info.py) whether the task started   *)
(* and ended.  A byte of the file is its position, 1..size; nl are the     *)
(* positions of the newlines.                                              *)
(***************************************************************************)
EXTENDS Integers, Sequences, FiniteSets, FiniteSetsExt, SequencesExt

CONSTANTS
    MaxSize,   \* bytes the task may write
    Calls,     \* what the client calls, on which server
    MaxDrops   \* responses that may break off

ASSUME TaskLogAssumption ==
    /\ MaxSize \in Nat /\ MaxDrops \in Nat
    /\ Calls \subseteq [mode : {"more_all", "tail_all", "more_back"}, follow : BOOLEAN,
                        pool_line : Nat \ {0}, line : Nat, wsgi : BOOLEAN]

VARIABLES
    size, nl, task,      \* the log file; where the task stands
    call, tail,          \* the client's call; its next request is tail(), not more()
    seek, from,          \* AaasLogCat.tell(); history: where reading began
    got, taskIsEnd, notReady, cli,  \* got: more yielded bytes (total_byte); its headers
    out, gap,            \* history: bytes read; the client stands where it has not read to
    drops, cut,          \* history: broken responses; the one read last ended early
    req, started, isEnd, i, pos, prev, late,  \* the request: see Get to Poll
    wire                 \* bytes sent and not read by the client

taskVars == <<size, nl, task>>
callVars == <<call, tail, seek, from, got, taskIsEnd, notReady, cli>>
historyVars == <<out, gap, drops, cut>>
requestVars == <<req, started, isEnd, i, pos, prev, late>>
vars == <<taskVars, callVars, historyVars, requestVars, wire>>

Bytes(a, b) == [k \in 1 .. b - a |-> a + k]

Init ==
    /\ size = 0 /\ nl \in SUBSET (1 .. MaxSize) /\ task = "queued"
    /\ call \in Calls /\ tail = (call.mode = "tail_all")
    /\ seek = 0 /\ from = 0
    /\ got = FALSE /\ taskIsEnd = FALSE /\ notReady = FALSE /\ cli = "begin"
    /\ out = <<>> /\ gap = FALSE /\ drops = 0 /\ cut = FALSE
    /\ req = "none" /\ started = FALSE /\ isEnd = FALSE
    /\ i = 0 /\ pos = 0 /\ prev = 0 /\ late = FALSE
    /\ wire = <<>>

-----------------------------------------------------------------------------
(* The task: it is queued, runs and writes, closes its log in call_auto_run, *)
(* and only then the callback notes the stage "end".  A task whose end was   *)
(* asked for before it started has no stage "start".                         *)

Begun == task \in {"running", "closed", "ended"}

TaskStep ==
    /\ \/ task = "queued" /\ task' \in {"running", "skipped"} /\ UNCHANGED size
       \/ task = "running" /\ size' \in size + 1 .. MaxSize /\ UNCHANGED task
       \/ task = "running" /\ task' = "closed" /\ UNCHANGED size
       \/ task = "closed" /\ task' = "ended" /\ UNCHANGED size
    /\ UNCHANGED <<nl, callVars, historyVars, requestVars, wire>>

CleanTask ==
    /\ task \in {"ended", "skipped"} /\ task' = "cleaned"
    /\ UNCHANGED <<size, nl, callVars, historyVars, requestVars, wire>>

-----------------------------------------------------------------------------
(* cat.py: the end of the line that begins after p (or of the file), the     *)
(* start of the line that ends at p, of the last n lines.                    *)

LineEnd(p) == LET n == {k \in nl : p < k /\ k <= size} IN IF n = {} THEN size ELSE Min(n)
LineStart(p) == Max({0} \union {k \in nl : k < p})
TailStart(n) ==
    IF n = 0 THEN size
    ELSE Max({0} \union {k \in nl : k < size /\ Cardinality({l \in nl : k <= l /\ l < size}) = n})

-----------------------------------------------------------------------------
(* The service: one request of task_log. *)

Back == call.mode = "more_back"

\* task_info is read before the stage is waited for.
Get ==
    /\ req = "get"
    /\ IF task = "cleaned"
       THEN req' = "done" /\ cli' = "failed" /\ UNCHANGED started
       ELSE req' = "wait" /\ started' = Begun /\ UNCHANGED cli
    /\ UNCHANGED <<taskVars, call, tail, seek, from, got, taskIsEnd, notReady, historyVars,
                   isEnd, i, pos, prev, late, wire>>

\* wait_stage: before its deadline it does not wait, see the README.  The header NOT-READY
\* reaches the client under wsgi; the http server sends nothing, for task_log has no body
\* here, and requests raises: __call_api tries again, or gives up.
WaitStage ==
    /\ req = "wait"
    /\ \/ Begun /\ req' = "check" /\ UNCHANGED <<notReady, taskIsEnd, cli>>
       \/ ~ Begun /\ call.wsgi /\ req' = "done"
          /\ notReady' = TRUE /\ taskIsEnd' = FALSE /\ UNCHANGED cli
       \/ ~ Begun /\ ~ call.wsgi /\ UNCHANGED <<notReady, taskIsEnd>>
          /\ \/ req' = "get" /\ UNCHANGED cli
             \/ req' = "done" /\ cli' = "failed"
    /\ UNCHANGED <<taskVars, call, tail, seek, from, got, historyVars,
                   started, isEnd, i, pos, prev, late, wire>>

\* Whether the task is over is asked before the file is read.
CheckEnd ==
    /\ req = "check" /\ req' = "open"
    /\ isEnd' = (task = "ended")
    /\ UNCHANGED <<taskVars, callVars, historyVars, started, i, pos, prev, late, wire>>

\* The file is opened and positioned and the headers go out; the client, which has been
\* waiting for them, takes them over before the lines.  The file's path is in the
\* task_info read by Get, when the task had started by then.
Open ==
    LET at == IF tail THEN TailStart(call.line) ELSE seek IN
    /\ req = "open"
    /\ IF started
       THEN /\ req' = "read" /\ pos' = at /\ i' = 0 /\ late' = FALSE
            /\ prev' = IF tail THEN size ELSE -1
            /\ taskIsEnd' = isEnd /\ notReady' = FALSE
            /\ seek' = IF tail THEN at ELSE seek
            /\ from' = IF tail THEN at ELSE from
            /\ UNCHANGED cli
       ELSE /\ req' = "done" /\ cli' = "failed"
            /\ UNCHANGED <<seek, from, taskIsEnd, notReady, i, pos, prev, late>>
    /\ UNCHANGED <<taskVars, call, tail, got, historyVars, started, isEnd, wire>>

Follows == call.follow /\ ~ Back /\ ~ isEnd /\ i < call.pool_line

\* The lines of cat.more, and of cat.tail, which are listed up to the size at Open
\* (prev) whatever their number.
ReadLine ==
    LET to == IF Back THEN LineStart(pos)
              ELSE IF tail THEN Min({prev, LineEnd(pos)}) ELSE LineEnd(pos) IN
    /\ req = "read" /\ to # pos /\ (tail \/ i < call.pool_line)
    /\ wire' = wire \o (IF Back THEN Bytes(to, pos) ELSE Bytes(pos, to))
    /\ pos' = to /\ i' = i + 1
    /\ UNCHANGED <<taskVars, callVars, historyVars, req, started, isEnd, prev, late>>

\* No more lines: the response is over, or the follower begins - at the end of the file,
\* which need not be where reading stopped.
ReadOver ==
    /\ req = "read"
    /\ \/ ~ tail /\ i >= call.pool_line
       \/ pos = IF Back THEN 0 ELSE IF tail THEN prev ELSE size
    /\ IF Follows THEN req' \in {"seek", "done"} ELSE req' = "done"
    /\ UNCHANGED <<taskVars, callVars, historyVars, started, isEnd, i, pos, prev, late, wire>>

SeekTail ==
    /\ req = "seek" /\ req' = "follow"
    /\ gap' = (gap \/ pos # size)
    /\ pos' = size /\ prev' = size
    /\ UNCHANGED <<taskVars, callVars, out, drops, cut, started, isEnd, i, late, wire>>

\* A fault: only what the round itself has read goes out.
FollowLineOnly ==
    /\ req = "follow" /\ LineEnd(pos) \in nl /\ LineEnd(pos) > pos
    /\ wire' = wire \o Bytes(pos, LineEnd(pos))
    /\ pos' = LineEnd(pos) /\ prev' = LineEnd(pos) /\ i' = i + 1
    /\ req' = IF i + 1 >= call.pool_line THEN "done" ELSE "follow"
    /\ UNCHANGED <<taskVars, callVars, historyVars, started, isEnd, late>>

\* A whole line goes out, together with the part of it kept from former rounds.
FollowLine ==
    /\ req = "follow" /\ LineEnd(pos) \in nl /\ LineEnd(pos) > pos
    /\ wire' = wire \o Bytes(prev, LineEnd(pos))
    /\ pos' = LineEnd(pos) /\ prev' = LineEnd(pos) /\ i' = i + 1
    /\ req' = IF i + 1 >= call.pool_line THEN "done" ELSE "follow"
    /\ UNCHANGED <<taskVars, callVars, historyVars, started, isEnd, late>>

\* What follows the last newline is kept for the next round, and dropped with the request.
FollowPart ==
    /\ req = "follow" /\ ~ (LineEnd(pos) \in nl /\ LineEnd(pos) > pos)
    /\ pos' = size /\ req' = "poll"
    /\ UNCHANGED <<taskVars, callVars, historyVars, started, isEnd, i, prev, late, wire>>

\* At the end of the file: follow_expire_at, follow_is_end_fn, or another round.
Poll ==
    /\ req = "poll"
    /\ req' = IF late \/ task = "ended" THEN "done" ELSE "follow"
    /\ UNCHANGED <<taskVars, callVars, historyVars, started, isEnd, i, pos, prev, late, wire>>

Expire ==
    /\ req \in {"follow", "poll"} /\ ~ late /\ late' = TRUE
    /\ UNCHANGED <<taskVars, callVars, historyVars, req, started, isEnd, i, pos, prev, wire>>

Serve == \/ Get \/ WaitStage \/ CheckEnd \/ Open \/ ReadLine \/ ReadOver
         \/ SeekTail \/ FollowLine \/ FollowPart \/ Poll

-----------------------------------------------------------------------------
(* The client: more_all, tail_all and their single requests. *)

\* AaasLogCat.seek comes first, when the caller wants to begin elsewhere.
Begin ==
    /\ cli = "begin" /\ cli' = "call"
    /\ \/ tail /\ UNCHANGED <<seek, from>>
       \/ ~ tail /\ \E p \in 0 .. size : seek' = p /\ from' = p
    /\ UNCHANGED <<taskVars, call, tail, got, taskIsEnd, notReady, historyVars, requestVars, wire>>

\* A fault: total_byte is not reset for the next request.
CallKeepingTotal ==
    /\ cli = "call" /\ cli' = "read" /\ req' = "get" /\ cut' = FALSE
    /\ UNCHANGED <<taskVars, call, tail, seek, from, got, taskIsEnd, notReady, out, gap, drops,
                   started, isEnd, i, pos, prev, late, wire>>

Call ==
    /\ cli = "call" /\ cli' = "read" /\ req' = "get" /\ got' = FALSE /\ cut' = FALSE
    /\ UNCHANGED <<taskVars, call, tail, seek, from, taskIsEnd, notReady, out, gap, drops,
                   started, isEnd, i, pos, prev, late, wire>>

\* _parse_log_stream: bytes up to a newline, or what is left at the end of the response.
Line == LET n == {k \in 1 .. Len(wire) : wire[k] \in nl} IN
        IF n = {} THEN Len(wire) ELSE Min(n)

Take ==
    /\ cli = "read" /\ wire # <<>> /\ (req = "done" \/ wire[Line] \in nl)
    /\ out' = out \o SubSeq(wire, 1, Line)
    /\ wire' = SubSeq(wire, Line + 1, Len(wire))
    /\ seek' = IF Back THEN seek - Line ELSE seek + Line
    /\ got' = TRUE
    /\ UNCHANGED <<taskVars, call, tail, from, taskIsEnd, notReady, cli, gap, drops, cut,
                   requestVars>>

\* A fault: whether the task is over is asked when the response has been read.
OverAsks ==
    /\ cli = "read" /\ req = "done" /\ wire = <<>> /\ req' = "none"
    /\ cli' = IF ~ got /\ task = "ended" THEN "stopped" ELSE "call"
    /\ tail' = (tail /\ notReady)
    /\ UNCHANGED <<taskVars, call, seek, from, got, taskIsEnd, notReady, historyVars,
                   started, isEnd, i, pos, prev, late, wire>>

Over ==
    /\ cli = "read" /\ req = "done" /\ wire = <<>> /\ req' = "none"
    /\ cli' = IF ~ got /\ taskIsEnd THEN "stopped" ELSE "call"
    /\ tail' = (tail /\ notReady)
    /\ UNCHANGED <<taskVars, call, seek, from, got, taskIsEnd, notReady, historyVars,
                   started, isEnd, i, pos, prev, late, wire>>

\* The connection breaks off: __call_api tries again as long as it has no headers, or the
\* exception leaves more_all or tail_all, and the caller goes on with more_all from where
\* the client stands.
Drop ==
    /\ cli = "read" /\ drops < MaxDrops /\ drops' = drops + 1 /\ wire' = <<>>
    /\ \/ cli' = "call" /\ req' = "none" /\ tail' = FALSE
       \/ req \in {"get", "wait", "check", "open"} /\ req' = "get" /\ UNCHANGED <<cli, tail>>
    /\ UNCHANGED <<taskVars, call, seek, from, got, taskIsEnd, notReady, out, gap, cut,
                   started, isEnd, i, pos, prev, late>>

\* The server's side of a response ends early, and the client cannot tell: response_content
\* sends neither a length nor chunks, so that this is the end of any response.  n bytes
\* arrive.  Backwards half a line moves the client past bytes that it has not read.
Cut ==
    /\ req \in {"read", "seek", "follow", "poll"} /\ drops < MaxDrops /\ drops' = drops + 1
    /\ req' = "done" /\ cut' = TRUE
    /\ \E n \in 0 .. Len(wire) :
        /\ wire' = SubSeq(wire, 1, n)
        /\ gap' = (gap \/ (Back /\ n \in 1 .. Len(wire) - 1 /\ wire[n] \notin nl))
    /\ UNCHANGED <<taskVars, callVars, out, started, isEnd, i, pos, prev, late>>

Read == Begin \/ Call \/ Take \/ Over

\* Everything may have come to its end; a client of a task that never starts polls on.
Next == TaskStep \/ CleanTask \/ Serve \/ Expire \/ Read \/ Drop \/ Cut

Spec == Init /\ [][Next]_vars

\* The task ends, the server answers, time passes and the client reads on.
FairSpec == Spec /\ WF_vars(TaskStep) /\ WF_vars(Serve) /\ WF_vars(Expire) /\ WF_vars(Read)

-----------------------------------------------------------------------------
(* Properties. *)

\* Every variable stays in its type.
TypeOK ==
    /\ size \in 0 .. MaxSize /\ nl \subseteq 1 .. MaxSize
    /\ task \in {"queued", "running", "closed", "ended", "skipped", "cleaned"}
    /\ call \in Calls /\ tail \in BOOLEAN
    /\ seek \in 0 .. size /\ from \in 0 .. MaxSize
    /\ got \in BOOLEAN /\ taskIsEnd \in BOOLEAN /\ notReady \in BOOLEAN
    /\ cli \in {"begin", "call", "read", "stopped", "failed"}
    /\ out \in Seq(1 .. MaxSize) /\ gap \in BOOLEAN /\ drops \in 0 .. MaxDrops /\ cut \in BOOLEAN
    /\ req \in {"none", "get", "wait", "check", "open", "read", "seek", "follow", "poll", "done"}
    /\ started \in BOOLEAN /\ isEnd \in BOOLEAN /\ i \in Nat
    /\ pos \in 0 .. size /\ prev \in -1 .. size /\ late \in BOOLEAN
    /\ wire \in Seq(1 .. MaxSize)

\* Whatever the polls, the rounds of following, the half lines and the broken responses,
\* the client has read the bytes from where it began to where it stands, each once and
\* in order (backwards: line by line), unless its position went wrong: the follower skips
\* bytes (SeekTail, auto.py), or a response read backwards ended inside a line (Cut,
\* client.py:292-296).  (The types are part of it.)
ReadsExactly ==
    /\ TypeOK
    /\ ~ gap => IF Back
                THEN IsInjective(out) /\ ToSet(out) = seek + 1 .. from
                ELSE out = Bytes(from, seek)

\* When more_all or tail_all returns, the task is over and its log has been read to the
\* end (backwards: to its beginning) - unless the position went wrong, or the very response
\* it returned on, empty and headed AAAS-TASK-END, had ended early (client.py:351, 377).
StoppedMeansAllRead ==
    cli = "stopped" /\ ~ gap /\ ~ cut =>
        /\ task \in {"ended", "cleaned"}
        /\ seek = IF Back THEN 0 ELSE size

\* A client of a task that starts comes to an end, with or without its task in the dict.
ClientStops == task = "running" ~> cli \in {"stopped", "failed"}
=============================================================================
