----------------------------- MODULE MCTaskLog -----------------------------
(***************************************************************************)
(* The calls of a client for TLC.                                          *)
(***************************************************************************)
EXTENDS TaskLog

CallOf(mode, follow, pool_line, line, wsgi) ==
    [mode |-> mode, follow |-> follow, pool_line |-> pool_line, line |-> line, wsgi |-> wsgi]

\* Responses of one line and of several, with a follower and without, on both servers.
MCCalls ==
    {CallOf("more_all", FALSE, n, 0, FALSE) : n \in {1, 3}}
        \union {CallOf("more_all", TRUE, n, 0, TRUE) : n \in {1, 3}}
        \union {CallOf("tail_all", TRUE, 2, 0, TRUE), CallOf("tail_all", TRUE, 3, 2, FALSE)}
        \union {CallOf("more_back", FALSE, 2, 0, TRUE)}
=============================================================================
