-------------------------------- MODULE Platform --------------------------------
(***************************************************************************)
(* The API as one process: the team, the task and the comment service over *)
(* the same tables team_members and tasks, starting from an empty database.*)
(* A step is a step of one service, which sees the rows the others have    *)
(* committed, or the end of the process, which ends the requests of all    *)
(* three.  What TaskService and CommentService leave to their environment  *)
(* (Join, CreateTask, DeleteTask) is here done by the service that does it.*)
(*                                                                         *)
(* Sources: cmd/app/main.go, which builds the services over one database,  *)
(* and migrations/0001_init.up.sql, where the tables refer to each other   *)
(***************************************************************************)
EXTENDS Naturals, Sequences

CONSTANTS
    Users,                      \* ids of the rows of table users
    Texts, Null, Zero, NoUser, Invalid, InvalidatedPages, BadRole, NotJSON,
    TeamRequests, TeamInputs,   \* those of each service
    TaskRequests, TaskInputs,
    CommentRequests, CommentInputs,
    MaxTasks                    \* bound: rows of table tasks

VARIABLES
    teams, memberRows,          \* tables teams and team_members
    teamPc, teamReq, made, teamOut, teamApplied,
    tasks, history, created,    \* tables tasks and task_history
    cache, taskPc, taskReq, loc, taskOut, taskApplied, raced, overtaken, leaked,
    comments, lastId,           \* table task_comments
    commentPc, commentReq, id, commentOut, base

Teams == Nat \ {0}

(* What the task and the comment service see of the others' tables.        *)
members  == {<<memberRows[i].user, memberRows[i].team>> : i \in DOMAIN memberRows}
Seen(rows) == [t \in DOMAIN rows |->
                  [team |-> rows[t].team, deleted |-> rows[t].deleted]]
taskRows == Seen(tasks)

Team == INSTANCE TeamServiceProofs WITH
    members <- memberRows, Requests <- TeamRequests, Inputs <- TeamInputs,
    pc <- teamPc, req <- teamReq, out <- teamOut, applied <- teamApplied

Task == INSTANCE TaskServiceProofs WITH
    Requests <- TaskRequests, Inputs <- TaskInputs,
    InitialMembers <- {}, InitialTasks <- <<>>,
    pc <- taskPc, req <- taskReq, out <- taskOut, applied <- taskApplied

Comment == INSTANCE CommentServiceProofs WITH
    tasks <- taskRows, Requests <- CommentRequests, Inputs <- CommentInputs,
    InitialMembers <- {}, InitialTasks <- <<>>,
    pc <- commentPc, req <- commentReq, out <- commentOut

teamOwn    == <<teams, memberRows, teamPc, teamReq, made, teamOut, teamApplied>>
taskOwn    == <<tasks, history, created, cache, taskPc, taskReq, loc, taskOut,
                taskApplied, raced, overtaken, leaked>>
commentOwn == <<comments, lastId, commentPc, commentReq, id, commentOut, base>>
vars       == <<teamOwn, taskOwn, commentOwn>>

Init == Team!Init /\ Task!Init /\ Comment!Init

TeamStep ==
    /\ UNCHANGED <<taskOwn, commentOwn>>
    /\ \E r \in TeamRequests : Team!Accept(r) \/ Team!Serve(r) \/ Team!DBError(r)

TaskStep ==
    /\ UNCHANGED <<teamOwn, commentOwn>>
    /\ \/ \E r \in TaskRequests : Task!Accept(r) \/ Task!Serve(r) \/ Task!DBError(r)
       \/ \E k \in DOMAIN cache : Task!Expire(k)
    /\ Len(tasks') <= MaxTasks

CommentStep ==
    /\ UNCHANGED <<teamOwn, taskOwn>>
    /\ \E r \in CommentRequests :
          Comment!Accept(r) \/ Comment!Serve(r) \/ Comment!DBError(r)

(* The process dies, and with it the requests of every service.            *)
Crash ==
    /\ Team!Crash \/ (Team!InFlight = {} /\ UNCHANGED teamOwn)
    /\ Task!Crash \/ (Task!InFlight = {} /\ UNCHANGED taskOwn)
    /\ Comment!Crash \/ (Comment!InFlight = {} /\ UNCHANGED commentOwn)

Next == TeamStep \/ TaskStep \/ CommentStep \/ Crash

Spec == Init /\ [][Next]_vars

-------------------------------------------------------------------------------
(* The assumptions of the three services on their constants.               *)
PlatformAssumption ==
    /\ Team!TeamAssumption /\ Comment!CommentAssumption
    /\ Task!DataAssumption /\ Task!ServiceAssumption
    /\ MaxTasks \in Nat

(* Every row refers to rows that exist, and so does every row that is about*)
(* to be inserted: no request is ever refused by fk_tm_team, fk_tasks_team *)
(* or fk_tc_task, though no service checks them in the statement or in the *)
(* transaction that inserts.                                               *)
ReferencesExist ==
    /\ \A i \in DOMAIN memberRows : memberRows[i].team \in DOMAIN teams
    /\ \A r \in TeamRequests :
          teamPc[r] = "add" => Team!NewMember(r).team \in DOMAIN teams
    /\ \A t \in DOMAIN tasks : tasks[t].team \in DOMAIN teams
    /\ \A r \in TaskRequests :
          taskPc[r] = "insert" => taskReq[r].team \in DOMAIN teams
    /\ \A n \in DOMAIN comments : comments[n].task \in DOMAIN tasks
    /\ \A r \in CommentRequests :
          commentPc[r] = "commit" => commentReq[r].task \in DOMAIN tasks

(* A task is in a team that its creator owns, the creator of the team that *)
(* is, and who wrote the task, an entry of its history or a comment on it  *)
(* is a member of that team.  So a team whose owner was lost between the   *)
(* two inserts of its creation never holds any work.                       *)
WorkIsOwned ==
    \A t \in DOMAIN tasks : LET team == tasks[t].team IN
        /\ Team!CreatorOwns(team)
        /\ <<tasks[t].by, team>> \in members
        /\ \A i \in 1..Len(history[t]) : <<history[t][i].by, team>> \in members
        /\ \A n \in DOMAIN comments :
              comments[n].task = t => <<comments[n].by, team>> \in members
===============================================================================
