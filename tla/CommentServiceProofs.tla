------------------------- MODULE CommentServiceProofs -------------------------
(***************************************************************************)
(* Theorems about CommentService, for every set of users, teams, requests  *)
(* and inputs.                                                             *)
(*                                                                         *)
(* The inductive invariant says of each request what it has established at *)
(* its step (Local) and, when it is over, what its answer tells (Told); it *)
(* holds because tasks keep their teams and members and comments stay      *)
(* (Grows), so that what was read some steps ago is still so.              *)
(***************************************************************************)
EXTENDS CommentService, TLAPS

May(user, t) == <<user, tasks[t].team>> \in members

MyComment(r) == [task |-> req[r].task, by |-> req[r].actor, body |-> req[r].body]

ToldCreated(r) == id[r] \in DOMAIN comments /\ comments[id[r]] = MyComment(r)

ToldForbidden(r) ==
    /\ req[r].task \in DOMAIN tasks
    /\ <<req[r].actor, tasks[req[r].task].team>> \notin base[r].members

ToldList(r) ==
    /\ req[r].task \in DOMAIN tasks /\ May(req[r].actor, req[r].task)
    /\ \A n \in base[r].comments :
          comments[n].task = req[r].task => n \in out[r].body
    /\ out[r].body \subseteq RowsOf(req[r].task)

Told(r) ==
    /\ out[r].code = 201 => ToldCreated(r)
    /\ out[r].code \in {400, 403, 404} => id[r] = 0
    /\ out[r].code = 404 => req[r].task > base[r].tasks
    /\ out[r].code = 403 => ToldForbidden(r)
    /\ out[r].code = 200 => ToldList(r)

(* What a request knew when it was accepted is still so.                   *)
Based(r) ==
    /\ base[r].tasks \in Nat /\ base[r].tasks <= Len(tasks)
    /\ base[r].members \subseteq members
    /\ base[r].comments \subseteq DOMAIN comments
    /\ id[r] # 0 => \A n \in base[r].comments : n < id[r]

Local(r) ==
    /\ pc[r] = "idle" => id[r] = 0
    /\ pc[r] # "idle" => req[r] \in Inputs /\ Based(r)
    /\ pc[r] \notin {"idle", "done"} =>
          req[r].task # 0 /\ (req[r].op = "create" => req[r].body \in 1..commentBodyMaxLen)
    /\ pc[r] \in {"find", "member", "insert", "rows"} => id[r] = 0
    /\ pc[r] \in {"member", "insert", "commit", "reply", "rows"} =>
          req[r].task \in DOMAIN tasks
    /\ pc[r] \in {"insert", "commit", "reply", "rows"} => May(req[r].actor, req[r].task)
    /\ pc[r] \in {"insert", "commit", "reply"} => req[r].op = "create"
    /\ pc[r] = "commit" => id[r] # 0 /\ id[r] \notin DOMAIN comments
    /\ pc[r] = "reply" => ToldCreated(r)
    /\ pc[r] = "done" => Told(r)

(* AUTO_INCREMENT gives no id twice, taken back by a rollback or not.      *)
IdsAreDistinct ==
    \A r, q \in Requests : r # q /\ id[r] # 0 => id[r] # id[q]

IInv ==
    /\ TypeOK
    /\ \A n \in DOMAIN comments : May(comments[n].by, comments[n].task)
    /\ IdsAreDistinct
    /\ \A r \in Requests : Local(r)

(* Tasks keep their ids and teams, and members and comments stay.          *)
Grows ==
    /\ Len(tasks) <= Len(tasks')
    /\ \A t \in DOMAIN tasks : t \in DOMAIN tasks' /\ tasks'[t].team = tasks[t].team
    /\ members \subseteq members'
    /\ \A n \in DOMAIN comments : n \in DOMAIN comments' /\ comments'[n] = comments[n]
    /\ lastId <= lastId'

Same(q) == /\ pc'[q] = pc[q] /\ req'[q] = req[q] /\ id'[q] = id[q]
           /\ out'[q] = out[q] /\ base'[q] = base[q]

(* A step of r leaves the others' variables alone.                         *)
Others(r) == \A q \in Requests \ {r} : Same(q)

-------------------------------------------------------------------------------
LEMMA InputFields ==
  ASSUME NEW i \in Inputs
  PROVE  /\ i.op \in {"create", "list"} /\ i.actor \in Users /\ i.task \in Nat
         /\ i.op = "create" => i.body \in Nat \cup {NotJSON}
  BY CommentAssumption DEF Input

(* What was known of a request stays known when the tables grow.           *)
LEMMA LocalFrame ==
  ASSUME TypeOK, TypeOK', Grows, NEW q \in Requests, Local(q), Same(q),
         pc[q] = "commit" => id[q] \notin DOMAIN comments'
  PROVE  Local(q)'
<1>1. /\ pc'[q] = pc[q] /\ req'[q] = req[q] /\ id'[q] = id[q]
      /\ out'[q] = out[q] /\ base'[q] = base[q]
  BY DEF Same
<1>2. req[q].task \in DOMAIN tasks =>
        /\ req[q].task \in DOMAIN tasks'
        /\ tasks'[req[q].task].team = tasks[req[q].task].team
  BY DEF Grows
<1>3. req[q].task \in DOMAIN tasks /\ May(req[q].actor, req[q].task) =>
        May(req[q].actor, req[q].task)'
  BY <1>1, <1>2 DEF May, Grows
<1>4. Based(q) => Based(q)'
  <2>1. Len(tasks) \in Nat /\ Len(tasks') \in Nat
    BY DEF TypeOK
  <2> QED
    BY <1>1, <2>1 DEF Based, Grows
<1>5. ToldCreated(q) => ToldCreated(q)'
  BY <1>1 DEF ToldCreated, MyComment, Grows
<1>6. ToldForbidden(q) => ToldForbidden(q)'
  BY <1>1, <1>2 DEF ToldForbidden
<1>7. Based(q) /\ ToldList(q) => ToldList(q)'
  <2>1. \A n \in RowsOf(req[q].task) : n \in RowsOf(req[q].task)'
    BY <1>1 DEF RowsOf, Grows
  <2>2. \A n \in base[q].comments : Based(q) => comments'[n] = comments[n]
    BY DEF Based, Grows
  <2> QED
    BY <1>1, <1>2, <1>3, <2>1, <2>2 DEF ToldList
<1>8. Based(q) /\ Told(q) => Told(q)'
  BY <1>1, <1>5, <1>6, <1>7 DEF Told
<1> QED
  BY <1>1, <1>2, <1>3, <1>4, <1>5, <1>8 DEF Local

(* The comments that clients have been given the ids of are there.         *)
LEMMA AcknowledgedAreThere ==
  ASSUME IInv
  PROVE  Acknowledged \subseteq DOMAIN comments
  BY DEF IInv, Local, Told, ToldCreated, Acknowledged

LEMMA GotoFacts ==
  ASSUME TypeOK, NEW r \in Requests, NEW step \in Steps, Goto(r, step)
  PROVE  /\ pc' \in [Requests -> Steps] /\ pc'[r] = step
         /\ \A q \in Requests \ {r} : pc'[q] = pc[q]
  BY DEF TypeOK, Goto

LEMMA AnswerFacts ==
  ASSUME TypeOK, NEW r \in Requests, NEW code \in Nat, NEW body,
         Answer(r, code, body)
  PROVE  /\ pc' \in [Requests -> Steps] /\ pc'[r] = "done"
         /\ out'[r].code = code /\ out'[r].body = body
         /\ DOMAIN out' = Requests /\ \A q \in Requests : out'[q].code \in Nat
         /\ \A q \in Requests \ {r} : pc'[q] = pc[q] /\ out'[q] = out[q]
<1>1. out' = [out EXCEPT ![r] = [code |-> code, body |-> body]] /\ Goto(r, "done")
  BY DEF Answer
<1>2. /\ pc' \in [Requests -> Steps] /\ pc'[r] = "done"
      /\ \A q \in Requests \ {r} : pc'[q] = pc[q]
  BY <1>1, GotoFacts DEF Steps
<1> QED
  BY <1>1, <1>2 DEF TypeOK

(* A step that leaves the tables, the ids and what was known alone.        *)
LEMMA QuietStep ==
  ASSUME IInv, NEW r \in Requests, UNCHANGED <<tables, req, id, base>>,
         pc' \in [Requests -> Steps], DOMAIN out' = Requests,
         \A q \in Requests : out'[q].code \in Nat,
         \A q \in Requests \ {r} : pc'[q] = pc[q] /\ out'[q] = out[q],
         Local(r)'
  PROVE  IInv'
<1>1. TypeOK'
  BY DEF IInv, TypeOK, tables
<1>2. Grows
  BY DEF Grows, tables, IInv, TypeOK
<1>3. \A q \in Requests \ {r} : Local(q)'
  BY <1>1, <1>2, LocalFrame DEF IInv, Same, Local, tables
<1>4. IdsAreDistinct' /\ \A n \in DOMAIN comments' : May(comments[n].by, comments[n].task)'
  BY DEF IInv, IdsAreDistinct, May, tables
<1> QED
  BY <1>1, <1>3, <1>4 DEF IInv

(* An answer, when it is true.                                             *)
LEMMA QuietAnswer ==
  ASSUME IInv, NEW r \in Requests, NEW code \in Nat, NEW body,
         Answer(r, code, body), UNCHANGED <<tables, req, id, base>>,
         pc[r] # "idle", Told(r)'
  PROVE  IInv'
<1>1. Based(r)' /\ req'[r] \in Inputs
  BY DEF Based, IInv, Local, tables
<1>2. Local(r)'
  BY <1>1, AnswerFacts DEF IInv, Local
<1> QED
  BY <1>2, AnswerFacts, QuietStep DEF IInv

LEMMA QuietGoto ==
  ASSUME IInv, NEW r \in Requests, NEW step \in Steps, Goto(r, step),
         UNCHANGED <<tables, req, id, out, base>>, Local(r)'
  PROVE  IInv'
  BY GotoFacts, QuietStep DEF IInv, TypeOK

-------------------------------------------------------------------------------
LEMMA InitIInv == Init => IInv
<1> SUFFICES ASSUME Init PROVE IInv
  OBVIOUS
<1>1. TypeOK
  BY CommentAssumption DEF Init, TypeOK, Steps, NoAnswer
<1>2. IdsAreDistinct /\ \A n \in DOMAIN comments : May(comments[n].by, comments[n].task)
  BY DEF Init, IdsAreDistinct
<1>3. \A r \in Requests : Local(r)
  BY DEF Init, Local
<1> QED
  BY <1>1, <1>2, <1>3 DEF IInv

LEMMA AcceptStep ==
  ASSUME IInv, NEW r \in Requests, Accept(r)
  PROVE  IInv'
<1>1. pc[r] = "idle" /\ UNCHANGED <<tables, id>>
  BY DEF Accept
<1>2. PICK i \in Inputs : /\ req' = [req EXCEPT ![r] = i]
                          /\ \/ Malformed(i) /\ Answer(r, 400, {})
                             \/ ~Malformed(i) /\ Goto(r, "find") /\ UNCHANGED out
  BY DEF Accept
<1>3. base' = [base EXCEPT ![r] = [tasks |-> Len(tasks), members |-> members,
                                   comments |-> Acknowledged]]
  BY DEF Accept
<1>4. /\ req' \in [Requests -> Inputs \cup {NoReq}] /\ req'[r] = i
      /\ DOMAIN base' = Requests
      /\ base'[r] = [tasks |-> Len(tasks), members |-> members,
                     comments |-> Acknowledged]
      /\ \A q \in Requests \ {r} : req'[q] = req[q] /\ base'[q] = base[q]
  BY <1>2, <1>3 DEF IInv, TypeOK
<1>5. id[r] = 0
  BY <1>1 DEF IInv, Local
<1>6. Based(r)'
  BY <1>1, <1>4, <1>5, AcknowledgedAreThere DEF Based, tables, IInv, TypeOK
<1>7. /\ pc' \in [Requests -> Steps] /\ DOMAIN out' = Requests
      /\ \A q \in Requests : out'[q].code \in Nat
      /\ \A q \in Requests \ {r} : pc'[q] = pc[q] /\ out'[q] = out[q]
      /\ Local(r)'
  <2>1. CASE Malformed(i) /\ Answer(r, 400, {})
    <3>1. pc'[r] = "done" /\ out'[r].code = 400
      BY <2>1, AnswerFacts DEF IInv
    <3>2. Told(r)'
      BY <1>1, <1>5, <3>1 DEF Told
    <3>3. Local(r)'
      BY <1>4, <1>6, <3>1, <3>2 DEF Local
    <3> QED
      BY <2>1, <3>3, AnswerFacts DEF IInv
  <2>2. CASE ~Malformed(i) /\ Goto(r, "find") /\ UNCHANGED out
    <3>1. pc'[r] = "find"
      BY <2>2, GotoFacts DEF IInv, Steps
    <3>2. i.task # 0 /\ (i.op = "create" => i.body \in 1..commentBodyMaxLen)
      <4>1. i.op = "create" => i.body \in Nat /\ i.body # 0 /\ ~TooLong(i.body)
        BY <2>2, InputFields DEF Malformed
      <4>2. \A n \in Nat : n # 0 /\ ~TooLong(n) => n \in 1..commentBodyMaxLen
        BY DEF TooLong, commentBodyMaxLen
      <4> QED
        BY <2>2, <4>1, <4>2 DEF Malformed
    <3>3. Local(r)'
      BY <1>1, <1>4, <1>5, <1>6, <3>1, <3>2 DEF Local
    <3> QED
      BY <2>2, <3>3, GotoFacts DEF IInv, TypeOK, Steps
  <2> QED
    BY <1>2, <2>1, <2>2
<1>8. TypeOK'
  BY <1>1, <1>4, <1>7 DEF IInv, TypeOK, tables
<1>9. Grows
  BY <1>1 DEF Grows, tables, IInv, TypeOK
<1>10. \A q \in Requests \ {r} : Local(q)'
  BY <1>1, <1>4, <1>7, <1>8, <1>9, LocalFrame DEF IInv, Same, Local, tables
<1>11. IdsAreDistinct' /\ \A n \in DOMAIN comments' : May(comments[n].by, comments[n].task)'
  BY <1>1 DEF IInv, IdsAreDistinct, May, tables
<1> QED
  BY <1>7, <1>8, <1>10, <1>11 DEF IInv

(* The steps that only read, and failures.                                 *)
LEMMA ReadStep ==
  ASSUME IInv, NEW r \in Requests,
         Find(r) \/ Member(r) \/ Reply(r) \/ ListByTask(r) \/ DBError(r)
  PROVE  IInv'
<1>1. UNCHANGED <<tables, req, id, base>>
  BY DEF Find, Member, Reply, ListByTask, DBError
<1>2. /\ tasks' = tasks /\ members' = members /\ comments' = comments
      /\ req' = req /\ id' = id /\ base' = base
  BY <1>1 DEF tables
<1>3. Local(r)
  BY DEF IInv
<1>4. Based(r)' <=> Based(r)
  BY <1>2 DEF Based
<1>5. req[r] \in Inputs /\ Based(r) /\ req[r].task \in Nat \ {0} /\ pc[r] # "idle"
  <2>1. pc[r] \notin {"idle", "done"}
    BY DEF Find, Member, Reply, ListByTask, DBError, InFlight
  <2> QED
    BY <1>3, <2>1, InputFields DEF Local
<1>6. CASE Find(r)
  <2>1. pc[r] = "find" /\ id[r] = 0
    BY <1>3, <1>6 DEF Find, Local
  <2>2. CASE ~Found(req[r].task) /\ Answer(r, 404, {})
    <3>1. req[r].task > base[r].tasks
      BY <1>5, <2>2 DEF Found, Based, IInv, TypeOK
    <3>2. out'[r].code = 404
      BY <2>2, AnswerFacts DEF IInv
    <3>3. Told(r)'
      BY <1>2, <2>1, <3>1, <3>2 DEF Told
    <3> QED
      BY <1>1, <1>5, <2>2, <3>3, QuietAnswer
  <2>3. CASE Found(req[r].task) /\ Goto(r, "member") /\ UNCHANGED out
    <3>1. pc'[r] = "member"
      BY <2>3, GotoFacts DEF IInv, Steps
    <3>2. Local(r)'
      BY <1>2, <1>3, <1>4, <2>1, <2>3, <3>1 DEF Local, Found
    <3> QED
      BY <1>1, <2>3, <3>2, QuietGoto DEF Steps
  <2> QED
    BY <1>6, <2>2, <2>3 DEF Find
<1>7. CASE Member(r)
  <2>1. pc[r] = "member" /\ id[r] = 0 /\ req[r].task \in DOMAIN tasks
    BY <1>3, <1>7 DEF Member, Local
  <2>2. CASE ~IsMember(r) /\ Answer(r, 403, {})
    <3>1. ToldForbidden(r)'
      BY <1>2, <1>5, <2>1, <2>2 DEF ToldForbidden, IsMember, Based
    <3>2. out'[r].code = 403
      BY <2>2, AnswerFacts DEF IInv
    <3>3. Told(r)'
      BY <1>2, <2>1, <3>1, <3>2 DEF Told
    <3> QED
      BY <1>1, <1>5, <2>2, <3>3, QuietAnswer
  <2>3. CASE /\ IsMember(r) /\ UNCHANGED out
             /\ Goto(r, IF req[r].op = "create" THEN "insert" ELSE "rows")
    <3>1. May(req[r].actor, req[r].task)'
      BY <1>2, <2>3 DEF May, IsMember
    <3>2. CASE req[r].op = "create"
      <4>1. pc'[r] = "insert"
        BY <2>3, <3>2, GotoFacts DEF IInv, Steps
      <4>2. Local(r)'
        BY <1>2, <1>3, <1>4, <2>1, <3>1, <3>2, <4>1 DEF Local
      <4> QED
        BY <1>1, <2>3, <3>2, <4>2, QuietGoto DEF Steps
    <3>3. CASE req[r].op # "create"
      <4>1. pc'[r] = "rows"
        BY <2>3, <3>3, GotoFacts DEF IInv, Steps
      <4>2. Local(r)'
        BY <1>2, <1>3, <1>4, <2>1, <3>1, <4>1 DEF Local
      <4> QED
        BY <1>1, <2>3, <3>3, <4>2, QuietGoto DEF Steps
    <3> QED
      BY <3>2, <3>3
  <2> QED
    BY <1>7, <2>2, <2>3 DEF Member
<1>8. CASE Reply(r)
  <2>1. ToldCreated(r)
    BY <1>3, <1>8 DEF Reply, Local
  <2>2. ToldCreated(r)'
    BY <1>2, <2>1 DEF ToldCreated, MyComment
  <2>3. CASE Answer(r, 201, {})
    <3>1. out'[r].code = 201
      BY <2>3, AnswerFacts DEF IInv
    <3>2. Told(r)'
      BY <2>2, <3>1 DEF Told
    <3> QED
      BY <1>1, <1>5, <2>3, <3>2, QuietAnswer
  <2>4. CASE Answer(r, 500, {})
    <3>1. out'[r].code = 500
      BY <2>4, AnswerFacts DEF IInv
    <3>2. Told(r)'
      BY <3>1 DEF Told
    <3> QED
      BY <1>1, <1>5, <2>4, <3>2, QuietAnswer
  <2> QED
    BY <1>8, <2>3, <2>4 DEF Reply
<1>9. CASE ListByTask(r)
  <2>1. Answer(r, 200, RowsOf(req[r].task))
    BY <1>9 DEF ListByTask
  <2>2. out'[r].code = 200 /\ out'[r].body = RowsOf(req[r].task)
    BY <2>1, AnswerFacts DEF IInv
  <2>3. req[r].task \in DOMAIN tasks /\ May(req[r].actor, req[r].task)
    BY <1>3, <1>9 DEF ListByTask, Local
  <2>4. May(req[r].actor, req[r].task)' /\ RowsOf(req[r].task)' = RowsOf(req[r].task)
    BY <1>2, <2>3 DEF May, RowsOf
  <2>5. \A n \in base[r].comments :
          comments[n].task = req[r].task => n \in RowsOf(req[r].task)
    BY <1>5 DEF Based, RowsOf
  <2>6. ToldList(r)'
    BY <1>2, <2>2, <2>3, <2>4, <2>5 DEF ToldList
  <2>7. Told(r)'
    BY <2>2, <2>6 DEF Told
  <2> QED
    BY <1>1, <1>5, <2>1, <2>7, QuietAnswer
<1>10. CASE DBError(r)
  <2>1. Answer(r, 500, {})
    BY <1>10 DEF DBError
  <2>2. out'[r].code = 500
    BY <2>1, AnswerFacts DEF IInv
  <2>3. Told(r)'
    BY <2>2 DEF Told
  <2> QED
    BY <1>1, <1>5, <2>1, <2>3, QuietAnswer
<1> QED
  BY <1>6, <1>7, <1>8, <1>9, <1>10

LEMMA InsertStep ==
  ASSUME IInv, NEW r \in Requests, Insert(r)
  PROVE  IInv'
<1>1. /\ pc[r] = "insert" /\ tasks' = tasks /\ members' = members
      /\ comments' = comments /\ req' = req /\ out' = out /\ base' = base
      /\ lastId' = lastId + 1 /\ id' = [id EXCEPT ![r] = lastId + 1]
      /\ Goto(r, "commit")
  BY DEF Insert
<1>2. lastId \in Nat /\ DOMAIN comments \subseteq 1..lastId
      /\ \A q \in Requests : id[q] \in 0..lastId
  BY DEF IInv, TypeOK
<1>3. id'[r] = lastId + 1 /\ \A q \in Requests \ {r} : id'[q] = id[q]
  BY <1>1 DEF IInv, TypeOK
<1>4. pc'[r] = "commit" /\ \A q \in Requests \ {r} : pc'[q] = pc[q]
  BY <1>1, GotoFacts DEF IInv, Steps
<1>5. TypeOK'
  <2>1. pc' \in [Requests -> Steps]
    BY <1>1, GotoFacts DEF IInv, Steps
  <2>2. id' \in [Requests -> 0..lastId'] /\ DOMAIN comments' \subseteq 1..lastId'
    BY <1>1, <1>2 DEF IInv, TypeOK
  <2> QED
    BY <1>1, <2>1, <2>2 DEF IInv, TypeOK
<1>6. Grows
  BY <1>1, <1>2 DEF Grows, IInv, TypeOK
<1>7. \A q \in Requests \ {r} : Local(q)'
  BY <1>1, <1>3, <1>4, <1>5, <1>6, LocalFrame DEF IInv, Same, Local
<1>8. Local(r)'
  <2>1. Local(r)
    BY DEF IInv
  <2>2. Based(r)'
    BY <1>1, <1>2, <1>3, <2>1 DEF Local, Based
  <2>3. May(req[r].actor, req[r].task)' <=> May(req[r].actor, req[r].task)
    BY <1>1 DEF May
  <2> QED
    BY <1>1, <1>2, <1>3, <1>4, <2>1, <2>2, <2>3 DEF Local
<1>9. IdsAreDistinct'
  BY <1>2, <1>3 DEF IInv, IdsAreDistinct
<1>10. \A n \in DOMAIN comments' : May(comments[n].by, comments[n].task)'
  BY <1>1 DEF IInv, May
<1> QED
  BY <1>5, <1>7, <1>8, <1>9, <1>10 DEF IInv

LEMMA CommitStep ==
  ASSUME IInv, NEW r \in Requests, Commit(r)
  PROVE  IInv'
<1>1. /\ pc[r] = "commit" /\ tasks' = tasks /\ members' = members
      /\ lastId' = lastId /\ req' = req /\ id' = id /\ out' = out /\ base' = base
      /\ Goto(r, "reply")
      /\ comments' = [n \in DOMAIN comments \cup {id[r]} |->
                        IF n = id[r] THEN MyComment(r) ELSE comments[n]]
  BY DEF Commit, MyComment
<1>2. Local(r)
  BY DEF IInv
<1>3. /\ id[r] # 0 /\ id[r] \notin DOMAIN comments /\ req[r].op = "create"
      /\ req[r].task \in DOMAIN tasks /\ May(req[r].actor, req[r].task)
      /\ req[r].body \in 1..commentBodyMaxLen /\ req[r] \in Inputs
  BY <1>1, <1>2 DEF Local
<1>4. DOMAIN comments' = DOMAIN comments \cup {id[r]} /\ comments'[id[r]] = MyComment(r)
      /\ \A n \in DOMAIN comments : comments'[n] = comments[n]
  BY <1>1, <1>3
<1>5. pc'[r] = "reply" /\ \A q \in Requests \ {r} : pc'[q] = pc[q]
  BY <1>1, GotoFacts DEF IInv, Steps
<1>6. MyComment(r) \in Comment
  <2>1. req[r].actor \in Users /\ req[r].task \in Nat \ {0}
    BY <1>3, InputFields DEF IInv, TypeOK
  <2> QED
    BY <1>3, <2>1 DEF MyComment, Comment
<1>7. TypeOK'
  <2>1. pc' \in [Requests -> Steps]
    BY <1>1, GotoFacts DEF IInv, Steps
  <2>2. id[r] \in 1..lastId
    BY <1>3 DEF IInv, TypeOK
  <2>3. comments' \in [DOMAIN comments' -> Comment]
    BY <1>1, <1>6 DEF IInv, TypeOK
  <2>4. \A n \in DOMAIN comments' : comments'[n].task \in DOMAIN tasks
    BY <1>3, <1>4 DEF IInv, TypeOK, MyComment
  <2> QED
    BY <1>1, <1>4, <2>1, <2>2, <2>3, <2>4 DEF IInv, TypeOK
<1>8. Grows
  BY <1>1, <1>4 DEF Grows, IInv, TypeOK
<1>9. \A q \in Requests \ {r} : pc[q] = "commit" => id[q] \notin DOMAIN comments'
  BY <1>3, <1>4 DEF IInv, Local, IdsAreDistinct
<1>10. \A q \in Requests \ {r} : Local(q)'
  BY <1>1, <1>5, <1>7, <1>8, <1>9, LocalFrame DEF IInv, Same
<1>11. Local(r)'
  <2>1. Based(r)'
    BY <1>1, <1>2, <1>4 DEF Local, Based
  <2>2. May(req[r].actor, req[r].task)'
    BY <1>1, <1>3 DEF May
  <2>3. ToldCreated(r)'
    BY <1>1, <1>4 DEF ToldCreated, MyComment
  <2> QED
    BY <1>1, <1>2, <1>3, <1>5, <2>1, <2>2, <2>3 DEF Local
<1>12. IdsAreDistinct'
  BY <1>1 DEF IInv, IdsAreDistinct
<1>13. \A n \in DOMAIN comments' : May(comments[n].by, comments[n].task)'
  BY <1>1, <1>3, <1>4 DEF IInv, May, MyComment
<1> QED
  BY <1>7, <1>10, <1>11, <1>12, <1>13 DEF IInv

(* The team and the task service.                                          *)
LEMMA EnvironmentStep ==
  ASSUME IInv, Join \/ CreateTask \/ DeleteTask
  PROVE  IInv'
<1>1. UNCHANGED <<comments, lastId, pc, req, id, out, base>>
  BY DEF Join, CreateTask, DeleteTask
<1>2. /\ tasks' \in Seq(Task) /\ members' \subseteq Users \X Teams
      /\ Len(tasks) <= Len(tasks') /\ members \subseteq members'
      /\ \A t \in DOMAIN tasks : t \in DOMAIN tasks' /\ tasks'[t].team = tasks[t].team
  <2>1. tasks \in Seq(Task) /\ members \subseteq Users \X Teams
    BY DEF IInv, TypeOK
  <2>2. CASE Join
    BY <2>1, <2>2 DEF Join
  <2>3. CASE CreateTask
    <3>1. PICK team \in Teams : tasks' = Append(tasks, [team |-> team, deleted |-> FALSE])
      BY <2>3 DEF CreateTask
    <3>2. [team |-> team, deleted |-> FALSE] \in Task
      BY DEF Task
    <3>3. members' = members
      BY <2>3 DEF CreateTask
    <3> HIDE DEF Task
    <3> QED
      BY <2>1, <3>1, <3>2, <3>3
  <2>4. CASE DeleteTask
    <3>1. PICK t \in DOMAIN tasks : tasks' = [tasks EXCEPT ![t].deleted = TRUE]
      BY <2>4 DEF DeleteTask
    <3>2. [tasks[t] EXCEPT !.deleted = TRUE] \in Task
      <4>1. tasks[t] \in Task
        BY <2>1
      <4> QED
        BY <4>1 DEF Task
    <3>3. tasks' = [tasks EXCEPT ![t] = [tasks[t] EXCEPT !.deleted = TRUE]]
      BY <3>1
    <3>4. [tasks[t] EXCEPT !.deleted = TRUE].team = tasks[t].team
      BY <2>1 DEF Task
    <3>5. members' = members
      BY <2>4 DEF DeleteTask
    <3> QED
      BY <2>1, <3>2, <3>3, <3>4, <3>5
  <2> QED
    BY <2>2, <2>3, <2>4
<1>3. Grows
  BY <1>1, <1>2 DEF Grows, IInv, TypeOK
<1>4. TypeOK'
  BY <1>1, <1>2 DEF IInv, TypeOK
<1>5. \A q \in Requests : Local(q)'
  BY <1>1, <1>3, <1>4, LocalFrame DEF IInv, Same, Local
<1>6. IdsAreDistinct'
  BY <1>1 DEF IInv, IdsAreDistinct
<1>7. \A n \in DOMAIN comments' : May(comments[n].by, comments[n].task)'
  BY <1>1, <1>3 DEF IInv, TypeOK, May, Grows
<1> QED
  BY <1>4, <1>5, <1>6, <1>7 DEF IInv

LEMMA CrashStep ==
  ASSUME IInv, Crash
  PROVE  IInv'
<1>1. UNCHANGED <<tables, req, id, base>>
  BY DEF Crash
<1>2. /\ pc' \in [Requests -> Steps] /\ DOMAIN out' = Requests
      /\ \A q \in Requests : out'[q].code \in Nat
  BY DEF Crash, IInv, TypeOK, Steps, Lost
<1>3. TypeOK'
  BY <1>1, <1>2 DEF IInv, TypeOK, tables
<1>4. Grows
  BY <1>1 DEF Grows, tables, IInv, TypeOK
<1>5. ASSUME NEW q \in Requests PROVE Local(q)'
  <2>1. Local(q)
    BY DEF IInv
  <2>2. CASE q \in InFlight
    <3>1. pc'[q] = "done" /\ out'[q].code = 1 /\ pc[q] # "idle"
      BY <2>2 DEF Crash, Lost, InFlight
    <3>2. Told(q)'
      BY <3>1 DEF Told
    <3>3. Based(q)' /\ req'[q] \in Inputs
      BY <1>1, <2>1, <3>1 DEF Local, Based, tables
    <3> QED
      BY <3>1, <3>2, <3>3 DEF Local
  <2>3. CASE q \notin InFlight
    <3>1. pc'[q] = pc[q] /\ out'[q] = out[q]
      BY <2>3 DEF Crash
    <3> QED
      BY <1>1, <1>3, <1>4, <2>1, <3>1, LocalFrame DEF IInv, Same, Local, tables
  <2> QED
    BY <2>2, <2>3
<1>6. IdsAreDistinct' /\ \A n \in DOMAIN comments' : May(comments[n].by, comments[n].task)'
  BY <1>1 DEF IInv, IdsAreDistinct, May, tables
<1> QED
  BY <1>3, <1>5, <1>6 DEF IInv

(* The invariant is inductive.                                             *)
LEMMA NextIInv == IInv /\ [Next]_vars => IInv'
<1> SUFFICES ASSUME IInv, [Next]_vars PROVE IInv'
  OBVIOUS
<1>1. CASE UNCHANGED vars
  <2>1. UNCHANGED <<tables, pc, req, id, out, base>>
    BY <1>1 DEF vars
  <2>2. TypeOK' /\ Grows
    BY <2>1 DEF IInv, TypeOK, Grows, tables
  <2>3. \A q \in Requests : Local(q)'
    BY <2>1, <2>2, LocalFrame DEF IInv, Same, Local, tables
  <2> QED
    BY <2>1, <2>2, <2>3 DEF IInv, IdsAreDistinct, May, tables
<1>2. CASE \E r \in Requests : Accept(r) \/ Serve(r) \/ DBError(r)
  BY <1>2, AcceptStep, ReadStep, InsertStep, CommitStep DEF Serve
<1>3. CASE Crash \/ Join \/ CreateTask \/ DeleteTask
  BY <1>3, CrashStep, EnvironmentStep
<1> QED
  BY <1>1, <1>2, <1>3 DEF Next, Finished

LEMMA Invariance == Spec => []IInv
  BY InitIInv, NextIInv, PTL DEF Spec

-------------------------------------------------------------------------------
(* The variables have their types in every reachable state.                *)
THEOREM TypeCorrect == Spec => []TypeOK
<1>1. IInv => TypeOK
  BY DEF IInv
<1> QED
  BY <1>1, Invariance, PTL

(* Only members of a task's team comment on it or are shown its comments.  *)
THEOREM OnlyMembersComment == Spec => []CommentsOfMembers
<1>1. IInv => CommentsOfMembers
  BY DEF IInv, CommentsOfMembers, May, Local, Told, ToldList
<1> QED
  BY <1>1, Invariance, PTL

(* Whatever a client was told of a comment is so.                          *)
THEOREM CommentAnswersHold == Spec => []CommentAnswersAreTruthful
<1>1. IInv => CommentAnswersAreTruthful
  BY DEF IInv, CommentAnswersAreTruthful, Local, Told, ToldCreated, ToldForbidden,
         MyComment
<1> QED
  BY <1>1, Invariance, PTL

(* A comment that was acknowledged is in every list asked for after it.    *)
THEOREM ListsAreComplete == Spec => []ListShowsAcknowledged
<1>1. IInv => ListShowsAcknowledged
  BY DEF IInv, ListShowsAcknowledged, Local, Told, ToldList
<1> QED
  BY <1>1, Invariance, PTL

(* The order of ids extends the order in which comments were written.      *)
THEOREM CommentsInOrder == Spec => []LaterCommentsComeLater
<1>1. IInv => LaterCommentsComeLater
  <2> SUFFICES ASSUME IInv, NEW r \in Requests, pc[r] = "done", out[r].code = 201,
                      NEW n \in base[r].comments
               PROVE  n < id[r]
    BY DEF LaterCommentsComeLater
  <2>1. Local(r) /\ 0 \notin DOMAIN comments
    BY DEF IInv, TypeOK
  <2>2. id[r] # 0
    BY <2>1 DEF Local, Told, ToldCreated
  <2> QED
    BY <2>1, <2>2 DEF Local, Based
<1> QED
  BY <1>1, Invariance, PTL
===============================================================================
