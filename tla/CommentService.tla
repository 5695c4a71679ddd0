---------------------------- MODULE CommentService ----------------------------
(***************************************************************************)
(* The comment service: create a comment on a task, list the comments of a *)
(* task.  A step is one call to MySQL with the Go code up to the next one; *)
(* the INSERT takes three.  InnoDB gives out the id when the statement     *)
(* starts, makes the row visible when it commits (it may wait in between   *)
(* for the lock of the task's row, which its foreign key needs), and the   *)
(* answer comes back or is lost.  So rows can appear out of the order of   *)
(* their ids, by which List sorts them.                                    *)
(*                                                                         *)
(* Sources: internal/handler/comment.go, internal/service/comment_service  *)
(* .go, internal/repository/comment_repo.go                                *)
(***************************************************************************)
EXTENDS Naturals, Sequences

CONSTANTS
    Users,          \* ids of the rows of table users
    Teams,          \* ids of the rows of table teams
    NotJSON,        \* a request body that does not parse
    Requests,       \* one element for each request that may arrive
    Inputs,         \* the requests clients send, a subset of Input
    InitialTasks,   \* tables tasks and team_members when the system starts
    InitialMembers,
    MaxTasks        \* bound: tasks the environment adds up to

commentBodyMaxLen == 4000

(* Of a body only the bytes left by TrimSpace are counted.                 *)
Task == [team : Teams, deleted : BOOLEAN]
Input ==
    [op : {"create"}, actor : Users, task : Nat, body : Nat \cup {NotJSON}]
      \cup [op : {"list"}, actor : Users, task : Nat]

ASSUME CommentAssumption ==
    /\ Inputs \subseteq Input
    /\ InitialTasks \in Seq(Task)
    /\ InitialMembers \subseteq Users \X Teams
    /\ NotJSON \notin Nat

VARIABLES
    tasks,      \* rows of table tasks; the id is the position
    members,    \* table team_members: the pairs of a user and a team
    comments,   \* rows of table task_comments that are visible, by id
    lastId,     \* the AUTO_INCREMENT counter
    pc,         \* the call a request is about to make
    req,        \* what the client asked
    id,         \* the id an INSERT was given
    out,        \* the answer
    base        \* auxiliary: what there was when a request was accepted

tables == <<tasks, members, comments, lastId>>
vars   == <<tables, pc, req, id, out, base>>

Steps    == {"idle", "find", "member", "insert", "commit", "reply", "rows", "done"}
NoReq    == [op |-> "none"]
NoBase   == [tasks |-> 0, members |-> {}, comments |-> {}]
NoAnswer == [code |-> 0, body |-> {}]
Lost     == [code |-> 1, body |-> {}]     \* the process died: no answer

InFlight == {r \in Requests : pc[r] \notin {"idle", "done"}}

Init ==
    /\ tasks = InitialTasks /\ members = InitialMembers
    /\ comments = <<>> /\ lastId = 0
    /\ pc   = [r \in Requests |-> "idle"]
    /\ req  = [r \in Requests |-> NoReq]
    /\ id   = [r \in Requests |-> 0]
    /\ out  = [r \in Requests |-> NoAnswer]
    /\ base = [r \in Requests |-> NoBase]

-------------------------------------------------------------------------------
Goto(r, step) == pc' = [pc EXCEPT ![r] = step]

Answer(r, code, body) ==
    /\ Goto(r, "done")
    /\ out' = [out EXCEPT ![r] = [code |-> code, body |-> body]]

(* The ids that clients have been given.                                   *)
Acknowledged == {id[r] : r \in {q \in Requests : pc[q] = "done" /\ out[q].code = 201}}

MutTooLong(n) == FALSE                  \* mutant: the length is not checked
TooLong(n) == n > commentBodyMaxLen

Malformed(i) == \/ i.task = 0
                \/ i.op = "create" /\ i.body = NotJSON
                \/ i.op = "create" /\ i.body # NotJSON /\ (i.body = 0 \/ TooLong(i.body))

Accept(r) ==
    /\ pc[r] = "idle"
    /\ \E i \in Inputs :
        /\ req' = [req EXCEPT ![r] = i]
        /\ \/ Malformed(i) /\ Answer(r, 400, {})
           \/ ~Malformed(i) /\ Goto(r, "find") /\ UNCHANGED out
    /\ base' = [base EXCEPT ![r] = [tasks |-> Len(tasks), members |-> members,
                                    comments |-> Acknowledged]]
    /\ UNCHANGED <<tables, id>>

(* FindByID does not look at deleted_at.                                   *)
MutFoundLive(t) ==                      \* mutant: a deleted task is not found
    \E u \in DOMAIN tasks : u = t /\ ~tasks[u].deleted
Found(t) == t \in DOMAIN tasks

Find(r) ==
    /\ pc[r] = "find"
    /\ \/ ~Found(req[r].task) /\ Answer(r, 404, {})
       \/ Found(req[r].task) /\ Goto(r, "member") /\ UNCHANGED out
    /\ UNCHANGED <<tables, req, id, base>>

MutIsMemberToList(r) ==                 \* mutant: only List checks
    req[r].op = "list" => <<req[r].actor, tasks[req[r].task].team>> \in members
IsMember(r) == <<req[r].actor, tasks[req[r].task].team>> \in members

Member(r) ==
    /\ pc[r] = "member"
    /\ \/ ~IsMember(r) /\ Answer(r, 403, {})
       \/ /\ IsMember(r)
          /\ Goto(r, IF req[r].op = "create" THEN "insert" ELSE "rows")
          /\ UNCHANGED out
    /\ UNCHANGED <<tables, req, id, base>>

MutInsertReuse(r) ==                    \* mutant: the id of a failed INSERT is reused
    /\ pc[r] = "insert"
    /\ \E n \in 1..(lastId + 1) :
        /\ n \notin DOMAIN comments \cup {id[q] : q \in InFlight}
        /\ lastId' = IF n > lastId THEN n ELSE lastId
        /\ id' = [id EXCEPT ![r] = n]
    /\ Goto(r, "commit")
    /\ UNCHANGED <<tasks, members, comments, req, out, base>>

(* The statement starts: it takes the next id, used or not.                *)
Insert(r) ==
    /\ pc[r] = "insert"
    /\ lastId' = lastId + 1
    /\ id' = [id EXCEPT ![r] = lastId + 1]
    /\ Goto(r, "commit")
    /\ UNCHANGED <<tasks, members, comments, req, out, base>>

Commit(r) ==
    /\ pc[r] = "commit"
    /\ comments' = [n \in DOMAIN comments \cup {id[r]} |->
                      IF n = id[r] THEN [task |-> req[r].task, by |-> req[r].actor,
                                         body |-> req[r].body]
                      ELSE comments[n]]
    /\ Goto(r, "reply")
    /\ UNCHANGED <<tasks, members, lastId, req, id, out, base>>

(* A 500 when the connection broke after the commit.                       *)
Reply(r) ==
    /\ pc[r] = "reply"
    /\ Answer(r, 201, {}) \/ Answer(r, 500, {})
    /\ UNCHANGED <<tables, req, id, base>>

MutRowsOfLast(t) ==                     \* mutant: one row only is read
    {n \in DOMAIN comments : /\ comments[n].task = t
                             /\ \A m \in DOMAIN comments : comments[m].task = t => m <= n}
RowsOf(t) == {n \in DOMAIN comments : comments[n].task = t}

(* The answer: the ids of the rows, which are sorted by them.              *)
ListByTask(r) ==
    /\ pc[r] = "rows"
    /\ Answer(r, 200, RowsOf(req[r].task))
    /\ UNCHANGED <<tables, req, id, base>>

(* A call to MySQL fails without effect.                                   *)
DBError(r) ==
    /\ r \in InFlight /\ pc[r] # "reply"
    /\ Answer(r, 500, {})
    /\ UNCHANGED <<tables, req, id, base>>

(* The process dies; the tables and the counter stay.                      *)
Crash ==
    /\ InFlight # {}
    /\ pc'  = [r \in Requests |-> IF r \in InFlight THEN "done" ELSE pc[r]]
    /\ out' = [r \in Requests |-> IF r \in InFlight THEN Lost ELSE out[r]]
    /\ UNCHANGED <<tables, req, id, base>>

-------------------------------------------------------------------------------
(* The team and the task service, which share the tables.  Neither removes *)
(* a row or changes a task's team.                                         *)
Join ==
    /\ \E m \in (Users \X Teams) \ members : members' = members \cup {m}
    /\ UNCHANGED <<tasks, comments, lastId, pc, req, id, out, base>>

CreateTask ==
    /\ Len(tasks) < MaxTasks
    /\ \E team \in Teams : tasks' = Append(tasks, [team |-> team, deleted |-> FALSE])
    /\ UNCHANGED <<members, comments, lastId, pc, req, id, out, base>>

DeleteTask ==
    /\ \E t \in DOMAIN tasks :
        ~tasks[t].deleted /\ tasks' = [tasks EXCEPT ![t].deleted = TRUE]
    /\ UNCHANGED <<members, comments, lastId, pc, req, id, out, base>>

Finished ==
    /\ \A r \in Requests : pc[r] = "done"
    /\ UNCHANGED vars

Serve(r) ==
    \/ Find(r) \/ Member(r) \/ Insert(r) \/ Commit(r) \/ Reply(r) \/ ListByTask(r)

Next ==
    \/ \E r \in Requests : Accept(r) \/ Serve(r) \/ DBError(r)
    \/ Crash
    \/ Join \/ CreateTask \/ DeleteTask
    \/ Finished

Spec == Init /\ [][Next]_vars

-------------------------------------------------------------------------------
Comment == [task : Nat \ {0}, by : Users, body : 1..commentBodyMaxLen]

(* Every variable has its type, and a comment is on a task that exists.    *)
TypeOK ==
    /\ tasks \in Seq(Task)
    /\ members \subseteq Users \X Teams
    /\ lastId \in Nat
    /\ DOMAIN comments \subseteq 1..lastId
    /\ comments \in [DOMAIN comments -> Comment]
    /\ \A n \in DOMAIN comments : comments[n].task \in DOMAIN tasks
    /\ pc \in [Requests -> Steps]
    /\ req \in [Requests -> Inputs \cup {NoReq}]
    /\ id \in [Requests -> 0..lastId]
    /\ DOMAIN out = Requests /\ \A r \in Requests : out[r].code \in Nat
    /\ DOMAIN base = Requests

(* Nobody but a member of the task's team has a comment on it or is shown  *)
(* its comments, deleted tasks included.                                   *)
CommentsOfMembers ==
    LET may(user, t) == <<user, tasks[t].team>> \in members IN
    /\ \A n \in DOMAIN comments : may(comments[n].by, comments[n].task)
    /\ \A r \in Requests :
          pc[r] = "done" /\ out[r].code = 200 => may(req[r].actor, req[r].task)

(* An answer tells what is in the tables: a 201 that the comment is there, *)
(* a 4xx that the request left nothing; a 404 is for a task that did not   *)
(* exist when the request came, never for a deleted one, and a 403 for a   *)
(* caller who was no member then.                                          *)
CommentAnswersAreTruthful ==
    \A r \in Requests : pc[r] = "done" =>
        /\ out[r].code = 201 =>
              /\ id[r] \in DOMAIN comments
              /\ comments[id[r]] = [task |-> req[r].task, by |-> req[r].actor,
                                    body |-> req[r].body]
        /\ out[r].code \in {400, 403, 404} => id[r] = 0
        /\ out[r].code = 404 => req[r].task > base[r].tasks
        /\ out[r].code = 403 =>
              <<req[r].actor, tasks[req[r].task].team>> \notin base[r].members

(* A list shows every comment of the task that had been acknowledged before*)
(* the list was asked for, and no comment of another task.                 *)
ListShowsAcknowledged ==
    \A r \in Requests : pc[r] = "done" /\ out[r].code = 200 =>
        /\ \A n \in base[r].comments : comments[n].task = req[r].task => n \in out[r].body
        /\ out[r].body \subseteq RowsOf(req[r].task)

(* A comment comes after every comment acknowledged before it was sent:    *)
(* ORDER BY id shows the comments of a conversation in their order.        *)
LaterCommentsComeLater ==
    \A r \in Requests : pc[r] = "done" /\ out[r].code = 201 =>
        \A n \in base[r].comments : n < id[r]
===============================================================================
