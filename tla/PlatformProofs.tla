---------------------------- MODULE PlatformProofs ----------------------------
(***************************************************************************)
(* Theorems about Platform: each service, with the others as they are in   *)
(* the place of its environment, does what its own module allows, so that  *)
(* what is proved of it alone holds of the whole; and what only the three  *)
(* together ensure.                                                        *)
(***************************************************************************)
EXTENDS Platform, SequenceTheorems, TLAPS

(* What a service has for itself is left alone by the others, and what it  *)
(* shares changes only with what the service that owns it has.             *)
LEMMA Frames ==
  /\ UNCHANGED teamOwn => UNCHANGED Team!vars /\ members' = members
  /\ UNCHANGED taskOwn => taskRows' = taskRows
  /\ UNCHANGED taskOwn /\ members' = members => UNCHANGED Task!vars
  /\ UNCHANGED commentOwn /\ taskRows' = taskRows /\ members' = members
       => UNCHANGED Comment!vars
<1>1. UNCHANGED teamOwn => UNCHANGED Team!vars /\ members' = members
  BY DEF teamOwn, Team!vars, members
<1>2. UNCHANGED taskOwn => taskRows' = taskRows
  BY DEF taskOwn, taskRows
<1>3. UNCHANGED taskOwn /\ members' = members => UNCHANGED Task!vars
  BY DEF taskOwn, Task!vars, Task!tables, Task!audit
<1>4. UNCHANGED commentOwn /\ taskRows' = taskRows /\ members' = members
        => UNCHANGED Comment!vars
  BY DEF commentOwn, Comment!vars, Comment!tables
<1> QED
  BY <1>1, <1>2, <1>3, <1>4

(* A crash is one of each service that has requests, and leaves the tables.*)
LEMMA CrashFrames ==
  ASSUME Crash
  PROVE  /\ [Team!Next]_(Team!vars) /\ [Task!Next]_(Task!vars)
         /\ [Comment!Next]_(Comment!vars)
<1>1. members' = members
  BY Frames DEF Crash, Team!Crash, members
<1>2. taskRows' = taskRows
  BY Frames DEF Crash, Task!Crash, Task!tables, taskRows
<1> QED
  BY <1>1, <1>2, Frames DEF Crash, Team!Next, Task!Next, Comment!Next

(* The others do nothing to the variables of the team service.             *)
THEOREM PlatformRunsTeams == Spec => Team!Spec
<1>1. Init => Team!Init
  BY DEF Init
<1>2. [Next]_vars => [Team!Next]_(Team!vars)
  BY Frames, CrashFrames DEF Next, vars, TeamStep, TaskStep, CommentStep, Team!Next
<1> QED
  BY <1>1, <1>2, PTL DEF Spec, Team!Spec

-------------------------------------------------------------------------------
(* The task service.                                                       *)

(* A step of the team service is, for the others, a Join or nothing.       *)
LEMMA MembersJoin ==
  ASSUME PlatformAssumption, Team!IInv, [Team!Next]_(Team!vars)
  PROVE  \/ members' = members
         \/ \E m \in (Users \X Teams) \ members : members' = members \cup {m}
<1>1. CASE memberRows' = memberRows
  BY <1>1 DEF members
<1>2. CASE memberRows' # memberRows
  <2>1. PICK m \in Team!MemberRow :
           /\ memberRows' = Append(memberRows, m)
           /\ Team!RowsOf(m.user, m.team) = {}
    BY <1>2, Team!MembersStep DEF PlatformAssumption
  <2>2. memberRows \in Seq(Team!MemberRow)
    BY DEF Team!IInv, Team!TypeOK
  <2>3. m.user \in Users /\ m.team \in Teams
    BY DEF Team!MemberRow, Teams
  <2>4. <<m.user, m.team>> \notin members
    BY <2>1 DEF members, Team!RowsOf
  <2>5. members' = members \cup {<<m.user, m.team>>}
    BY <2>1, <2>2 DEF members
  <2> QED
    BY <2>3, <2>4, <2>5
<1> QED
  BY <1>1, <1>2

(* What the platform does is a step of the task service, or nothing to it. *)
LEMMA TaskSteps ==
  ASSUME PlatformAssumption, Team!IInv, [Next]_vars
  PROVE  [Task!Next]_(Task!vars)
<1>1. CASE TaskStep
  BY <1>1 DEF TaskStep, Task!Next
<1>2. CASE TeamStep
  <2>1. UNCHANGED taskOwn /\ [Team!Next]_(Team!vars)
    BY <1>2 DEF TeamStep, Team!Next
  <2>2. CASE members' = members
    BY <2>1, <2>2, Frames
  <2>3. CASE \E m \in (Users \X Teams) \ members : members' = members \cup {m}
    <3>1. Task!Join
      BY <2>1, <2>3 DEF taskOwn, Task!Join, Task!audit
    <3> QED
      BY <3>1 DEF Task!Next
  <2> QED
    BY <2>1, <2>2, <2>3, MembersJoin
<1>3. CASE CommentStep \/ UNCHANGED vars
  BY <1>3, Frames DEF CommentStep, vars
<1> QED
  BY <1>1, <1>2, <1>3, CrashFrames DEF Next

(* The task service does in the platform what it does on its own.          *)
THEOREM PlatformRunsTasks ==
  ASSUME PlatformAssumption PROVE Spec => Task!Spec
<1>1. Init => Task!Init
  BY DEF Init
<1>2. Team!IInv /\ [Next]_vars => [Task!Next]_(Task!vars)
  BY TaskSteps
<1>3. Team!Spec => []Team!IInv
  BY Team!Invariance DEF PlatformAssumption
<1> QED
  BY <1>1, <1>2, <1>3, PlatformRunsTeams, PTL DEF Spec, Task!Spec

-------------------------------------------------------------------------------
(* The comment service.                                                    *)

(* The rows as the comment service sees them, one for each task.           *)
LEMMA SeenType ==
  ASSUME NEW rows \in Seq(Task!Row)
  PROVE  /\ Seen(rows) \in Seq(Comment!Task) /\ Len(Seen(rows)) = Len(rows)
         /\ DOMAIN Seen(rows) = DOMAIN rows /\ DOMAIN rows = 1..Len(rows)
         /\ \A t \in DOMAIN rows :
               Seen(rows)[t] = [team |-> rows[t].team, deleted |-> rows[t].deleted]
<1>1. DOMAIN rows = 1..Len(rows) /\ Len(rows) \in Nat
  OBVIOUS
<1>2. \A t \in DOMAIN rows : rows[t].team \in Teams /\ rows[t].deleted \in BOOLEAN
  <2>1. \A t \in DOMAIN rows : rows[t] \in Task!Row
    OBVIOUS
  <2> QED
    BY <2>1 DEF Task!Row
<1>3. Seen(rows) \in [1..Len(rows) -> Comment!Task]
  BY <1>1, <1>2 DEF Seen, Comment!Task
<1> QED
  BY <1>1, <1>3 DEF Seen

(* A row that is inserted is so for who sees that much.                    *)
LEMMA SeenInsert ==
  ASSUME NEW rows \in Seq(Task!Row), NEW row \in Task!Row
  PROVE  Seen(Append(rows, row))
           = Append(Seen(rows), [team |-> row.team, deleted |-> row.deleted])
<1> DEFINE seen == [team |-> row.team, deleted |-> row.deleted]
           all  == Append(rows, row)
<1>1. seen \in Comment!Task
  BY DEF Comment!Task, Task!Row
<1>2. /\ all \in Seq(Task!Row) /\ Len(all) = Len(rows) + 1 /\ all[Len(rows) + 1] = row
      /\ \A t \in 1..Len(rows) : all[t] = rows[t]
  OBVIOUS
<1>3. Seen(all) \in Seq(Comment!Task) /\ Len(Seen(all)) = Len(rows) + 1
  BY <1>2, SeenType
<1>4. /\ Append(Seen(rows), seen) \in Seq(Comment!Task)
      /\ Len(Append(Seen(rows), seen)) = Len(rows) + 1
      /\ Append(Seen(rows), seen)[Len(rows) + 1] = seen
      /\ \A t \in 1..Len(rows) : Append(Seen(rows), seen)[t] = Seen(rows)[t]
  BY <1>1, SeenType
<1>5. \A t \in 1..(Len(rows) + 1) : Seen(all)[t] = Append(Seen(rows), seen)[t]
  BY <1>2, <1>4 DEF Seen
<1>6. \A v, w \in Seq(Comment!Task) :
        (Len(v) = Len(w) /\ \A t \in 1..Len(v) : v[t] = w[t]) => v = w
  BY SeqEqual
<1>7. Seen(all) = Append(Seen(rows), seen)
  <2> HIDE DEF all, seen
  <2> QED
    BY <1>3, <1>4, <1>5, <1>6
<1> QED
  BY <1>7

(* A row that is marked as deleted is so for who sees that much.           *)
LEMMA SeenDelete ==
  ASSUME NEW rows \in Seq(Task!Row), NEW t \in DOMAIN rows
  PROVE  Seen([rows EXCEPT ![t].deleted = TRUE])
           = [Seen(rows) EXCEPT ![t].deleted = TRUE]
<1>1. rows[t] \in Task!Row
  OBVIOUS
<1> QED
  BY <1>1 DEF Seen, Task!Row

(* A step of the ledger is, for the comment service, a CreateTask, a       *)
(* DeleteTask or nothing: it sees neither the fields nor the history.      *)
LEMMA RowsSteps ==
  ASSUME Task!LedgerTypeOK, [Task!LedgerNext]_(Task!ledger)
  PROVE  \/ taskRows' = taskRows
         \/ /\ Len(tasks') = Len(taskRows) + 1
            /\ \E team \in Teams :
                  taskRows' = Append(taskRows, [team |-> team, deleted |-> FALSE])
         \/ \E t \in DOMAIN taskRows :
               /\ ~taskRows[t].deleted
               /\ taskRows' = [taskRows EXCEPT ![t].deleted = TRUE]
<1>1. tasks \in Seq(Task!Row) /\ taskRows = Seen(tasks) /\ taskRows' = Seen(tasks')
  BY DEF Task!LedgerTypeOK, taskRows, Seen
<1>2. CASE UNCHANGED Task!ledger
  BY <1>2 DEF Task!ledger, taskRows
<1>3. ASSUME NEW row, Task!LedgerInsert(row)
      PROVE  /\ Len(tasks') = Len(taskRows) + 1 /\ row.team \in Teams
             /\ taskRows' = Append(taskRows, [team |-> row.team, deleted |-> FALSE])
  <2>1. row \in Task!Row /\ ~row.deleted /\ tasks' = Append(tasks, row)
    BY <1>3 DEF Task!LedgerInsert
  <2>2. row.team \in Teams /\ row.deleted = FALSE
    BY <2>1 DEF Task!Row
  <2> QED
    <3>1. Seen(tasks') = Append(Seen(tasks), [team |-> row.team, deleted |-> row.deleted])
      BY <1>1, <2>1, SeenInsert
    <3>2. Len(tasks') = Len(tasks) + 1 /\ Len(Seen(tasks)) = Len(tasks)
      BY <1>1, <2>1, SeenType
    <3> QED
      BY <1>1, <2>2, <3>1, <3>2
<1>4. ASSUME NEW t \in DOMAIN tasks, Task!LedgerChange(t) PROVE taskRows' = taskRows
  <2>1. /\ ~tasks[t].deleted /\ ~tasks'[t].deleted
        /\ tasks'[t].team = tasks[t].team
        /\ tasks[t] \in Task!Row /\ tasks'[t] \in Task!Row
        /\ tasks' = [tasks EXCEPT ![t] = tasks'[t]]
    BY <1>1, <1>4 DEF Task!LedgerChange
  <2>2. tasks'[t].deleted = tasks[t].deleted
    BY <2>1 DEF Task!Row
  <2> QED
    BY <2>1, <2>2 DEF taskRows, Seen
<1>5. ASSUME NEW t \in DOMAIN tasks, Task!LedgerDelete(t)
      PROVE  /\ t \in DOMAIN taskRows /\ ~taskRows[t].deleted
             /\ taskRows' = [taskRows EXCEPT ![t].deleted = TRUE]
  <2>1. ~tasks[t].deleted /\ tasks' = [tasks EXCEPT ![t].deleted = TRUE]
    BY <1>5 DEF Task!LedgerDelete
  <2>2. /\ DOMAIN Seen(tasks) = DOMAIN tasks
        /\ Seen(tasks)[t].deleted = tasks[t].deleted
    BY DEF Seen
  <2>3. Seen(tasks') = [Seen(tasks) EXCEPT ![t].deleted = TRUE]
    BY <1>1, <2>1, SeenDelete
  <2> QED
    BY <1>1, <2>1, <2>2, <2>3
<1> QED
  BY <1>2, <1>3, <1>4, <1>5 DEF Task!LedgerNext

(* What the platform does is a step of the comment service, or nothing.    *)
LEMMA CommentSteps ==
  ASSUME PlatformAssumption, Team!IInv, Task!IInv, [Next]_vars
  PROVE  [Comment!Next]_(Comment!vars)
<1>1. CASE CommentStep
  BY <1>1 DEF CommentStep, Comment!Next
<1>2. CASE TeamStep
  <2>1. UNCHANGED commentOwn /\ taskRows' = taskRows /\ [Team!Next]_(Team!vars)
    BY <1>2, Frames DEF TeamStep, Team!Next
  <2>2. CASE members' = members
    BY <2>1, <2>2, Frames
  <2>3. CASE \E m \in (Users \X Teams) \ members : members' = members \cup {m}
    <3>1. Comment!Join
      BY <2>1, <2>3 DEF commentOwn, Comment!Join
    <3> QED
      BY <3>1 DEF Comment!Next
  <2> QED
    BY <2>1, <2>2, <2>3, MembersJoin
<1>3. CASE TaskStep
  <2>1. UNCHANGED commentOwn /\ members' = members /\ Len(tasks') <= MaxTasks
    BY <1>3, Frames DEF TaskStep
  <2>2. Task!LedgerTypeOK /\ [Task!LedgerNext]_(Task!ledger)
    BY TaskSteps, Task!NextIInv, Task!TypeSplit DEF Task!IInv, PlatformAssumption
  <2>3. CASE taskRows' = taskRows
    BY <2>1, <2>3, Frames
  <2>4. CASE /\ Len(tasks') = Len(taskRows) + 1
             /\ \E team \in Teams :
                  taskRows' = Append(taskRows, [team |-> team, deleted |-> FALSE])
    <3>1. Len(taskRows) \in Nat /\ MaxTasks \in Nat
      BY <2>2, SeenType DEF Task!LedgerTypeOK, taskRows, PlatformAssumption
    <3>2. Len(taskRows) < MaxTasks
      BY <2>1, <2>4, <3>1
    <3>3. Comment!CreateTask
      BY <2>1, <2>4, <3>2 DEF commentOwn, Comment!CreateTask
    <3> QED
      BY <3>3 DEF Comment!Next
  <2>5. CASE \E t \in DOMAIN taskRows :
               /\ ~taskRows[t].deleted
               /\ taskRows' = [taskRows EXCEPT ![t].deleted = TRUE]
    <3>1. Comment!DeleteTask
      BY <2>1, <2>5 DEF commentOwn, Comment!DeleteTask
    <3> QED
      BY <3>1 DEF Comment!Next
  <2> QED
    BY <2>2, <2>3, <2>4, <2>5, RowsSteps
<1>4. CASE UNCHANGED vars
  BY <1>4, Frames DEF vars
<1> QED
  BY <1>1, <1>2, <1>3, <1>4, CrashFrames DEF Next

(* The comment service does in the platform what it does on its own.       *)
THEOREM PlatformRunsComments ==
  ASSUME PlatformAssumption PROVE Spec => Comment!Spec
<1>1. Init => Comment!Init
  BY DEF Init
<1>2. Team!IInv /\ Task!IInv /\ [Next]_vars => [Comment!Next]_(Comment!vars)
  BY CommentSteps
<1>3. Team!Spec => []Team!IInv
  BY Team!Invariance DEF PlatformAssumption
<1>4. Task!Spec => []Task!IInv
  BY Task!Invariance DEF PlatformAssumption
<1> QED
  BY <1>1, <1>2, <1>3, <1>4, PlatformRunsTeams, PlatformRunsTasks, PTL
     DEF Spec, Comment!Spec

-------------------------------------------------------------------------------
(* What is proved of each service alone, of the three together.            *)
THEOREM PromisesHoldTogether ==
  ASSUME PlatformAssumption
  PROVE  Spec => /\ [](Team!ChainOfInvites /\ Team!TeamAnswersAreTruthful)
                 /\ [](Task!AnswersAreTruthful /\ Task!MembersOnly)
                 /\ [](Task!HistoryExplainsRow /\ Task!StaleOnlyIfLeaked)
                 /\ Task!DeletedIsFinal
                 /\ [](Comment!CommentAnswersAreTruthful /\ Comment!CommentsOfMembers)
                 /\ [](Comment!ListShowsAcknowledged)
<1>1. Team!Spec => [](Team!ChainOfInvites /\ Team!TeamAnswersAreTruthful)
  BY Team!InvitesAreChained, Team!TeamAnswersHold, PTL DEF PlatformAssumption
<1>2. Task!Spec => [](Task!AnswersAreTruthful /\ Task!MembersOnly)
  BY Task!AnswersHold, Task!OnlyMembers, PTL DEF PlatformAssumption
<1>3. Task!Spec => [](Task!HistoryExplainsRow /\ Task!StaleOnlyIfLeaked)
  BY Task!ServiceHistoryExplains, Task!StalenessExplained, PTL DEF PlatformAssumption
<1>4. Task!Spec => Task!DeletedIsFinal
  BY Task!ServiceDeletedIsFinal DEF PlatformAssumption
<1>5. Comment!Spec =>
        [](Comment!CommentAnswersAreTruthful /\ Comment!CommentsOfMembers)
  BY Comment!CommentAnswersHold, Comment!OnlyMembersComment, PTL
     DEF PlatformAssumption
<1>6. Comment!Spec => []Comment!ListShowsAcknowledged
  BY Comment!ListsAreComplete DEF PlatformAssumption
<1> QED
  BY <1>1, <1>2, <1>3, <1>4, <1>5, <1>6, PlatformRunsTeams, PlatformRunsTasks,
     PlatformRunsComments, PTL

-------------------------------------------------------------------------------
(* What only the three together ensure.                                    *)

(* The invariants of the services, which the others' steps keep as well.   *)
Together ==
    /\ Team!IInv /\ Team!PeopledAreOwned
    /\ Task!IInv /\ Task!Promises /\ Task!WrittenByMembers
    /\ Comment!IInv

(* Each service keeps its own, since the platform runs it.                 *)
LEMMA TogetherHolds ==
  ASSUME PlatformAssumption PROVE Spec => []Together
<1>1. Team!Spec => []Team!IInv /\ []Team!PeopledAreOwned
  BY Team!Invariance, Team!MembersHaveAnOwner DEF PlatformAssumption
<1>2. Task!Spec => []Task!IInv /\ []Task!Promises /\ []Task!WrittenByMembers
  BY Task!Invariance, Task!PromisesHold, Task!AuthorsAreMembers DEF PlatformAssumption
<1>3. Comment!Spec => []Comment!IInv
  BY Comment!Invariance DEF PlatformAssumption
<1>4. Together <=> /\ Team!IInv /\ Team!PeopledAreOwned
                   /\ Task!IInv /\ Task!Promises /\ Task!WrittenByMembers
                   /\ Comment!IInv
  BY DEF Together
<1> QED
  BY <1>1, <1>2, <1>3, <1>4, PlatformRunsTeams, PlatformRunsTasks,
     PlatformRunsComments, PTL

(* A member is one of a team that exists, and that its creator owns.       *)
LEMMA MembersTeam ==
  ASSUME Together, NEW user, NEW team, <<user, team>> \in members
  PROVE  team \in DOMAIN teams /\ Team!CreatorOwns(team)
<1>1. PICK i \in DOMAIN memberRows : memberRows[i].team = team
  BY DEF members
<1>2. team \in DOMAIN teams
  BY <1>1 DEF Together, Team!IInv, Team!TypeOK
<1>3. Team!CreatorOwns(team)
  BY <1>1 DEF Together, Team!PeopledAreOwned
<1> QED
  BY <1>2, <1>3

(* Authors are members, and a team with a member has its owner.            *)
LEMMA OwnedTogether == PlatformAssumption /\ Together => WorkIsOwned
<1> SUFFICES ASSUME PlatformAssumption, Together, NEW t \in DOMAIN tasks
             PROVE  LET team == tasks[t].team IN
                    /\ Team!CreatorOwns(team)
                    /\ <<tasks[t].by, team>> \in members
                    /\ \A i \in 1..Len(history[t]) :
                          <<history[t][i].by, team>> \in members
                    /\ \A n \in DOMAIN comments :
                          comments[n].task = t => <<comments[n].by, team>> \in members
  BY DEF WorkIsOwned
<1>1. tasks \in Seq(Task!Row)
  BY Task!TypeSplit DEF Together, Task!IInv, Task!LedgerTypeOK, PlatformAssumption
<1>2. t > Len(<<>>)
  BY <1>1
<1>3. /\ <<tasks[t].by, tasks[t].team>> \in members
      /\ \A i \in 1..Len(history[t]) : <<history[t][i].by, tasks[t].team>> \in members
  BY <1>2 DEF Together, Task!WrittenByMembers
<1>4. ASSUME NEW n \in DOMAIN comments, comments[n].task = t
      PROVE  <<comments[n].by, tasks[t].team>> \in members
  <2>1. Comment!May(comments[n].by, t)
    BY <1>4 DEF Together, Comment!IInv
  <2>2. taskRows[t].team = tasks[t].team
    BY DEF taskRows, Seen
  <2> QED
    BY <2>1, <2>2 DEF Comment!May
<1> QED
  BY <1>3, <1>4, MembersTeam

(* A row, or one about to be inserted, has an author who is a member of a  *)
(* team, and that team exists; a comment has a task by its own service.    *)
LEMMA ReferencesTogether == PlatformAssumption /\ Together => ReferencesExist
<1> SUFFICES ASSUME PlatformAssumption, Together PROVE ReferencesExist
  OBVIOUS
<1>1. \A i \in DOMAIN memberRows : memberRows[i].team \in DOMAIN teams
  BY DEF Together, Team!IInv, Team!TypeOK
<1>2. \A r \in TeamRequests :
        teamPc[r] = "add" => Team!NewMember(r).team \in DOMAIN teams
  BY Team!NewMemberType DEF Together, PlatformAssumption
<1>3. \A t \in DOMAIN tasks : tasks[t].team \in DOMAIN teams
  BY OwnedTogether, MembersTeam DEF WorkIsOwned
<1>4. ASSUME NEW r \in TaskRequests, taskPc[r] = "insert"
      PROVE  taskReq[r].team \in DOMAIN teams
  <2>1. Task!May(r)
    BY <1>4 DEF Together, Task!Promises, Task!Kept, Task!Checked
  <2>2. taskReq[r].op = "create"
    BY <1>4 DEF Together, Task!IInv, Task!Local, Task!Reached
  <2>3. <<taskReq[r].actor, taskReq[r].team>> \in members
    BY <2>1, <2>2 DEF Task!May, Task!Target
  <2> QED
    BY <2>3, MembersTeam
<1>5. DOMAIN taskRows = DOMAIN tasks
  BY DEF taskRows, Seen
<1>6. /\ \A n \in DOMAIN comments : comments[n].task \in DOMAIN tasks
      /\ \A r \in CommentRequests :
            commentPc[r] = "commit" => commentReq[r].task \in DOMAIN tasks
  BY <1>5 DEF Together, Comment!IInv, Comment!TypeOK, Comment!Local
<1> QED
  BY <1>1, <1>2, <1>3, <1>4, <1>6 DEF ReferencesExist

(* No foreign key between the tables of the three services ever fails.     *)
THEOREM NoReferenceDangles ==
  ASSUME PlatformAssumption PROVE Spec => []ReferencesExist
<1>1. Together => ReferencesExist
  BY ReferencesTogether
<1> QED
  BY <1>1, TogetherHolds, PTL

(* No task, history or comment is in a team without its owner, or by an    *)
(* outsider.                                                               *)
THEOREM AllWorkIsOwned ==
  ASSUME PlatformAssumption PROVE Spec => []WorkIsOwned
<1>1. Together => WorkIsOwned
  BY OwnedTogether
<1> QED
  BY <1>1, TogetherHolds, PTL
===============================================================================
