------------------------------ MODULE MCPlatform ------------------------------
(***************************************************************************)
(* Platform for TLC: a creation and an invitation, two of a creation, an   *)
(* update and a deletion of a task, and a comment, all at once.            *)
(***************************************************************************)
EXTENDS Platform

CONSTANTS ann, bob, A       \* two users and a text

MCTeamInputs == {
    [op |-> "create", actor |-> ann, named |-> TRUE],
    [op |-> "invite", actor |-> ann, team |-> 1, user |-> bob, role |-> "member"]}

MCTaskInputs == {
    [op |-> "create", actor |-> bob, team |-> 1,
     body |-> [title |-> A, status |-> "todo"]],
    [op |-> "update", actor |-> ann, task |-> 1, body |-> [status |-> "done"]],
    [op |-> "delete", actor |-> bob, task |-> 1]}

MCCommentInputs == {[op |-> "create", actor |-> bob, task |-> 1, body |-> 1]}

(* What each service is proved to keep in Platform, on this instance.      *)
Assumed          == PlatformAssumption
TeamInvariant    == Team!IInv /\ Team!PeopledAreOwned
TaskInvariant    == Task!IInv /\ Task!Promises /\ Task!WrittenByMembers
CommentInvariant == Comment!IInv
===============================================================================
