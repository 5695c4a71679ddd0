----------------------------- MODULE MCTeamService -----------------------------
(***************************************************************************)
(* A small instance of TeamService: one team at most per create request,   *)
(* and invitations that overlap each other and the creation.               *)
(***************************************************************************)
EXTENDS TeamService, TLC

CONSTANTS r1, r2, r3, r4, ann, bob, eve

Symmetry == Permutations(Requests)

MCInvite(who, team, user, role) ==
    [op |-> "invite", actor |-> who, team |-> team, user |-> user, role |-> role]

MCInputs ==
    { [op |-> "create", actor |-> ann, named |-> TRUE],
      [op |-> "create", actor |-> bob, named |-> FALSE],
      MCInvite(ann, 1, bob, "admin"), MCInvite(ann, 1, bob, "member"),
      MCInvite(bob, 1, eve, "owner"), MCInvite(ann, 1, NoUser, "member"),
      MCInvite(ann, 1, eve, BadRole), MCInvite(ann, 0, eve, "member"),
      [op |-> "list", actor |-> bob], [op |-> "members", actor |-> bob, team |-> 1] }
===============================================================================
