----------------------------- MODULE MCAuthService -----------------------------
(***************************************************************************)
(* A small instance of AuthService: an address in two spellings, one that  *)
(* the collation takes for the same, and another address.                  *)
(***************************************************************************)
EXTENDS AuthService, TLC

CONSTANTS r1, r2, r3, r4, ann, spaced, accented, bob

Symmetry == Permutations(Requests)

MCNormal   == (ann :> ann) @@ (spaced :> ann) @@ (accented :> accented) @@ (bob :> bob)
MCCollated == (ann :> ann) @@ (spaced :> spaced) @@ (accented :> ann) @@ (bob :> bob)

MCOf(op, email, password) == [op |-> op, email |-> email, password |-> password]

MCInputs ==
    { MCOf("register", ann, "p"), MCOf("register", spaced, "q"),
      MCOf("register", accented, "p"), MCOf("register", bob, Bad),
      MCOf("login", ann, "q"), MCOf("login", spaced, "p"), MCOf("login", bob, "p"),
      MCOf("login", accented, "q") }
===============================================================================
