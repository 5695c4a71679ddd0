----------------------------- MODULE StatsQueries -----------------------------
(***************************************************************************)
(* The three queries of the statistics, each one SELECT, over the tables   *)
(* that the task service and the team service write.  Bound: whatever      *)
(* happens, happens within the time the queries look back (a week, or      *)
(* since_days), so no row is too old to count.                             *)
(*                                                                         *)
(* Sources: internal/repository/stats_repo.go, internal/service/           *)
(* stats_service.go, internal/handler/stats.go                             *)
(***************************************************************************)
EXTENDS TaskService

CONSTANT UserId     \* ids are numbers, which decide the rank of equal counts

ASSUME StatsAssumption ==
    /\ UserId \in [Users -> Nat]
    /\ \A u, v \in Users : UserId[u] = UserId[v] => u = v

-------------------------------------------------------------------------------
(* TeamStatsLastWeek: the members of a team, and the history entries that  *)
(* tell of a task of the team becoming done, deleted tasks included.       *)
MemberCount(team) == Cardinality({m \in members : m[2] = team})

MutDoneEntries(team) ==                 \* mutant: every change of the status counts
    UNION {{<<t, i>> : i \in {j \in DOMAIN history[t] :
                                history[t][j].field = "status"}}
             : t \in {u \in DOMAIN tasks : tasks[u].team = team}}
DoneEntries(team) ==
    UNION {{<<t, i>> : i \in {j \in DOMAIN history[t] :
                                /\ history[t][j].field = "status"
                                /\ history[t][j].new = "done"}}
             : t \in {u \in DOMAIN tasks : tasks[u].team = team}}

DoneLast7Days(team) == Cardinality(DoneEntries(team))

(* TopCreatorsByTeam: the creators of live tasks, ranked by ROW_NUMBER.    *)
TasksBy(team, user) ==
    {t \in DOMAIN tasks : Live(tasks[t]) /\ tasks[t].team = team /\ tasks[t].by = user}

TaskCount(team, user) == Cardinality(TasksBy(team, user))

Creators(team) == {u \in Users : TasksBy(team, u) # {}}

MutAhead(team, u, v) == TaskCount(team, u) > TaskCount(team, v)  \* mutant: ties share a rank
Ahead(team, u, v) ==
    \/ TaskCount(team, u) > TaskCount(team, v)
    \/ TaskCount(team, u) = TaskCount(team, v) /\ UserId[u] < UserId[v]

Rank(team, user) == 1 + Cardinality({u \in Creators(team) : Ahead(team, u, user)})

TopCreators(team, limit) == {u \in Creators(team) : Rank(team, u) <= limit}

(* The number of entries asked for passes a default and a bound of each    *)
(* layer on its way from the query string.                                 *)
HandlerLimit(query) == IF query > 0 THEN query ELSE 3
ServiceLimit(limit) == IF limit <= 0 \/ limit > 100 THEN 10 ELSE limit
RepoLimit(limit) == IF limit <= 0 THEN 3 ELSE limit

LimitOf(query) == RepoLimit(ServiceLimit(HandlerLimit(query)))

(* OrphanTasks: live tasks whose assignee is not a member of their team.   *)
MutAssigneeJoins(row) ==                \* mutant: EXISTS instead of NOT EXISTS
    <<row.val["assignee_id"], row.team>> \notin members
AssigneeJoins(row) == <<row.val["assignee_id"], row.team>> \in members

OrphanTasks ==
    {t \in DOMAIN tasks : /\ Live(tasks[t]) /\ tasks[t].val["assignee_id"] # Null
                          /\ ~AssigneeJoins(tasks[t])}

-------------------------------------------------------------------------------
(* What the numbers mean.                                                  *)

DoneNow(team) == {t \in DOMAIN tasks : tasks[t].team = team
                                        /\ tasks[t].val["status"] = "done"}

(* An update that makes a task of the team done is counted, once, in the   *)
(* step in which the task becomes so, however it overlaps with others, and *)
(* nothing is counted but a task that becomes done; unless a stale read    *)
(* spoiled the history of the team.                                        *)
DoneIsCounted ==
    [][\A team \in Teams : (\A t \in raced' : tasks'[t].team # team) =>
          LET done == (DoneNow(team)' \ DoneNow(team)) IN
          /\ done \cap DOMAIN tasks # {} =>
                DoneLast7Days(team)' = DoneLast7Days(team) + 1
          /\ DoneLast7Days(team)' > DoneLast7Days(team) => done # {}]_vars

(* The top creators are as many as the limit allows, each with a rank of   *)
(* its own, and nobody left out has more tasks than somebody listed.       *)
TopCreatorsAreTop ==
    \A team \in Teams, query \in {0, 1, 2, 101} :
        LET limit == LimitOf(query)
            top   == TopCreators(team, limit)
        IN  /\ Cardinality(top) = IF Cardinality(Creators(team)) < limit
                                  THEN Cardinality(Creators(team)) ELSE limit
            /\ \A u, v \in top : Rank(team, u) = Rank(team, v) => u = v
            /\ \A u \in top, v \in Creators(team) \ top :
                  TaskCount(team, v) <= TaskCount(team, u)

(* A task becomes an orphan only by a write of its assignee: no member ever*)
(* leaves, and no deleted task comes back.                                 *)
OrphansAreAssigned ==
    [][\A t \in DOMAIN tasks : t \in OrphanTasks' \ OrphanTasks =>
          tasks'[t].val["assignee_id"] # tasks[t].val["assignee_id"]]_vars
===============================================================================
