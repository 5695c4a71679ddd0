----------------------------- MODULE MCRateLimiter -----------------------------
(***************************************************************************)
(* A small instance of RateLimiter: two users, two requests inside the     *)
(* middleware at once, and a Ttl that ends within MaxTime.                 *)
(***************************************************************************)
EXTENDS RateLimiter, TLC

Symmetry == Permutations(Goroutines) \cup Permutations(Users)
===============================================================================
