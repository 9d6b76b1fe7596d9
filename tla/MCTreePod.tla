----------------------------- MODULE MCTreePod ------------------------------
(***************************************************************************)
(* Trees of two or three tasks for TLC.                                    *)
(***************************************************************************)
EXTENDS PipStream

\* 1 -> 2, and 1 -> 2 -> 3, and 1 -> {2, 3}.
Pair == <<<<2>>, <<>>>>
Chain == <<<<2>>, <<3>>, <<>>>>
Fork == <<<<2, 3>>, <<>>, <<>>>>

OneTwo == <<1, 2>>
OneTwoOne == <<1, 2, 1>>
InlineTwoOne == <<0, 2, 1>>

Zero2 == <<0, 0>>
Zero3 == <<0, 0, 0>>
Two3 == <<0, 2, 2>>
Second2 == <<0, 1>>
First3 == <<1, 0, 0>>
Second3 == <<0, 1, 0>>
=============================================================================
