---------------------------- MODULE MCTaskService ----------------------------
(***************************************************************************)
(* Small instances of TaskService and StatsQueries: two teams, two users,  *)
(* two rows, and in each run the requests that make its question a case.   *)
(***************************************************************************)
EXTENDS StatsQueries, TLC

CONSTANTS r1, r2, r3, ann, bob, red, blue, A, B

Symmetry == Permutations(Requests)

MCUserId == (ann :> 1) @@ (bob :> 2)

MCMembers   == {<<ann, red>>, <<bob, red>>, <<ann, blue>>}
MCEverybody == Users \X Teams

MCRow(team, status, who) ==
    [team |-> team, by |-> ann, deleted |-> FALSE,
     val |-> [title |-> A, description |-> Null, status |-> status,
              assignee_id |-> who]]

MCTasks    == <<MCRow(red, "todo", Null), MCRow(red, "done", ann)>>
MCTwoTeams == <<MCRow(red, "todo", Null), MCRow(blue, "done", bob)>>

MCCreate(who, team, body) ==
    [op |-> "create", actor |-> who, team |-> team, body |-> body]
MCUpdate(who, t, body) ==
    [op |-> "update", actor |-> who, task |-> t, body |-> body]
MCOn(op, who, t) == [op |-> op, actor |-> who, task |-> t]
MCList(who, team, status, assignee, page, limit) ==
    [op |-> "list", actor |-> who,
     filter |-> [team |-> team, status |-> status, assignee |-> assignee,
                 page |-> page, limit |-> limit]]

(* Writes of one task that overlap, and reads of its history.              *)
MCHistoryInputs ==
    { MCUpdate(ann, 2, [title |-> B]),
      MCUpdate(bob, 2, [title |-> A, status |-> "todo"]),
      MCUpdate(bob, 2, [assignee_id |-> Zero]),
      MCUpdate(ann, 2, [title |-> Invalid]),
      MCOn("delete", bob, 2), MCOn("history", ann, 2) }

(* Writes, and lists that share keys with them.                            *)
MCCacheInputs ==
    { MCCreate(bob, red, [title |-> B, status |-> "todo"]),
      MCUpdate(ann, 1, [status |-> "done"]),
      MCOn("delete", ann, 1),
      MCList(ann, red, "any", Null, 1, 2), MCList(bob, red, "any", ann, 1, 1),
      MCList(bob, red, "any", Null, 2, 1), MCList(bob, red, "done", Null, 1, 2) }

MCTaskInputs == MCHistoryInputs \cup MCCacheInputs

(* Bound: the requests of a behaviour are all of the one or all of the     *)
(* other set, whose writes and reads are on the same tasks.                *)
OneScenario ==
    \/ \A r \in Requests : req[r] \in MCHistoryInputs \cup {Null}
    \/ \A r \in Requests : req[r] \in MCCacheInputs \cup {Null}

(* Requests of every kind, the ones that are refused included, among them  *)
(* updates that overlap, and a list of the task they change.               *)
MCServeInputs ==
    { MCCreate(ann, red, [title |-> A, status |-> "todo"]),
      MCCreate(bob, red, [title |-> A, status |-> "done"]),
      MCCreate(bob, blue, [title |-> A, status |-> "todo"]),
      MCCreate(ann, red, [title |-> A, status |-> "todo", assignee_id |-> Zero]),
      MCCreate(ann, red, [title |-> A, description |-> B]),
      MCUpdate(bob, 1, [status |-> "done", assignee_id |-> bob]),
      MCUpdate(ann, 1, [status |-> "todo", title |-> B]),
      MCUpdate(ann, 1, [title |-> A]),
      MCUpdate(ann, 1, [assignee_id |-> NoUser]),
      MCUpdate(ann, 1, [assignee_id |-> Null]),
      MCUpdate(ann, 1, [title |-> B, assignee_id |-> Null]),
      MCOn("get", bob, 2), MCOn("get", bob, 1), MCOn("get", bob, 3),
      MCOn("delete", ann, 0),
      MCOn("delete", ann, 1), MCOn("history", bob, 1), MCOn("history", bob, 2),
      MCList(ann, red, "todo", Null, 1, 2),
      MCList(ann, Zero, "any", Null, 1, 1), MCList(ann, blue, "any", Null, 1, 1),
      MCList(bob, blue, "any", Null, 1, 1) }
===============================================================================
