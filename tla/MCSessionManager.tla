-------------------------- MODULE MCSessionManager --------------------------
(***************************************************************************)
(* The pipeline and its readers for TLC.                                    *)
(***************************************************************************)
EXTENDS SessionManager

CONSTANTS j1, j2, w1, c1, s1, q1   \* model values

(* A second job that is never posted: whoever follows it takes no part, and   *)
(* a client and a waiter, which do not meet, are explored one at a time.     *)
OneReader ==
    /\ phase[j2] = "new"
    /\ {follows[c] : c \in Clients} # {awaits[w] : w \in Waiters}
    /\ \A c \in Cancellers : target[c] = j1
=============================================================================
