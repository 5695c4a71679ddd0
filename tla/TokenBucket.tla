------------------------------ MODULE TokenBucket ------------------------------
(***************************************************************************)
(* What the limiter of the middleware promises: each user has one bucket of*)
(* Burst tokens, full at first; a request that is let through takes one of *)
(* its user's, every tick of the clock returns one to each, and a restart  *)
(* of the process fills them.  Nothing else changes a bucket.              *)
(*                                                                         *)
(* Source: the comment of PerUserLimiter, internal/middleware/ratelimit.go *)
(***************************************************************************)
EXTENDS Naturals

CONSTANTS Users, Burst

VARIABLES
    level,      \* the tokens of each user
    admitted    \* the requests let through since the process started

Init ==
    /\ level = [u \in Users |-> Burst]
    /\ admitted = [u \in Users |-> 0]

Admit(u) ==
    /\ level[u] > 0
    /\ level' = [level EXCEPT ![u] = @ - 1]
    /\ admitted' = [admitted EXCEPT ![u] = @ + 1]

Refill ==
    /\ level' = [u \in Users |-> IF level[u] < Burst THEN level[u] + 1 ELSE Burst]
    /\ UNCHANGED admitted

Restart ==
    /\ level' = [u \in Users |-> Burst]
    /\ admitted' = [u \in Users |-> 0]

Next == (\E u \in Users : Admit(u)) \/ Refill \/ Restart

Spec == Init /\ [][Next]_<<level, admitted>>
===============================================================================
