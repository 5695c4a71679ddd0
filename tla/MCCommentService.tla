--------------------------- MODULE MCCommentService ---------------------------
(***************************************************************************)
(* A small instance of CommentService: comments that overlap each other,   *)
(* lists, and the creation and deletion of their tasks.                    *)
(***************************************************************************)
EXTENDS CommentService, TLC

CONSTANTS r1, r2, r3, ann, bob, red, blue

Symmetry == Permutations(Requests)

MCTasks   == <<[team |-> red, deleted |-> FALSE]>>
MCMembers == {<<ann, red>>, <<bob, blue>>}

MCCreate(who, t, body) == [op |-> "create", actor |-> who, task |-> t, body |-> body]
MCList(who, t) == [op |-> "list", actor |-> who, task |-> t]

(* Requests of every kind, the ones that are refused included.             *)
MCAnswerInputs ==
    { MCCreate(ann, 1, 1), MCCreate(bob, 1, commentBodyMaxLen), MCCreate(ann, 2, 1),
      MCCreate(ann, 1, commentBodyMaxLen + 1), MCCreate(ann, 1, 0),
      MCCreate(ann, 0, 1), MCCreate(ann, 1, NotJSON),
      MCList(bob, 1) }

(* Comments on one task that overlap each other and its lists.             *)
MCOrderInputs == { MCCreate(ann, 1, 1), MCCreate(bob, 1, 2), MCList(ann, 1) }

MCInputs == MCAnswerInputs \cup MCOrderInputs

(* Bound: a behaviour has two requests of the first set, or three of the   *)
(* second while nobody adds a task or a member of the other team.          *)
OneScenario ==
    \/ /\ \A r \in Requests : req[r] \in MCAnswerInputs \cup {NoReq}
       /\ \E r \in Requests : req[r] = NoReq
    \/ /\ \A r \in Requests : req[r] \in MCOrderInputs \cup {NoReq}
       /\ tasks \in {MCTasks, [MCTasks EXCEPT ![1].deleted = TRUE]}
       /\ members \subseteq MCMembers \cup {<<bob, red>>}
===============================================================================
