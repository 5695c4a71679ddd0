--------------------------- MODULE TeamServiceProofs ---------------------------
(***************************************************************************)
(* Theorems about TeamService, for every set of users, requests and inputs.*)
(*                                                                         *)
(* The inductive invariant adds to TypeOK and ChainOfInvites what a request*)
(* has established at each of its steps (Local): above all that a request  *)
(* past its membership check still has an inviter in the table, which holds*)
(* because no row is ever changed or removed.                              *)
(***************************************************************************)
EXTENDS TeamService, TLAPS

(* The caller of an invitation is in the team with the role for it.        *)
HasInviter(r) ==
    \E i \in DOMAIN members : /\ members[i].user = req[r].actor
                              /\ members[i].team = req[r].team
                              /\ members[i].role \in {"owner", "admin"}

Local(r) ==
    /\ pc[r] # "idle" => req[r] \in Inputs
    /\ pc[r] \in {"team", "actor", "user", "insert", "add"} =>
          req[r].op \in {"create", "invite", "members"}
    /\ pc[r] = "team" => req[r].op = "invite"
    /\ pc[r] = "actor" => req[r].op \in {"invite", "members"}
    /\ pc[r] \in {"user", "add"} => req[r].op \in {"create", "invite"}
    /\ pc[r] = "insert" => req[r].op = "create"
    /\ pc[r] \in {"actor", "user", "add"} /\ req[r].op = "invite" =>
          req[r].team \in DOMAIN teams
    /\ pc[r] \in {"user", "add"} /\ req[r].op = "invite" => HasInviter(r)
    /\ pc[r] = "add" /\ req[r].op = "invite" =>
          req[r].user \in Users /\ req[r].role \in Roles
    /\ pc[r] = "add" /\ req[r].op = "create" =>
          made[r] \in DOMAIN teams /\ teams[made[r]] = req[r].actor

IInv == TypeOK /\ ChainOfInvites /\ \A r \in Requests : Local(r)

(* The teams and members of one state are kept by the next.                *)
Kept == /\ DOMAIN teams \subseteq DOMAIN teams'
        /\ \A t \in DOMAIN teams : teams'[t] = teams[t]
        /\ DOMAIN members \subseteq DOMAIN members'
        /\ \A i \in DOMAIN members : members'[i] = members[i]

(* The fields of an input of each kind.                                    *)
LEMMA InputFields ==
  ASSUME NEW i \in Inputs
  PROVE  /\ i.actor \in Users /\ i.op \in {"create", "invite", "list", "members"}
         /\ i.op = "invite" => /\ i.team \in Nat /\ i.user \in Users \cup {NoUser}
                               /\ i.role \in Roles \cup {BadRole}
  BY TeamAssumption DEF Input

(* Moving on to another step keeps the types of the variables it sets.     *)
LEMMA GotoType ==
  ASSUME TypeOK, NEW r \in Requests, NEW step \in Steps, Goto(r, step)
  PROVE  /\ pc' \in [Requests -> Steps] /\ pc'[r] = step
         /\ \A q \in Requests \ {r} : pc'[q] = pc[q]
  BY DEF TypeOK, Goto

(* So does an answer.                                                      *)
LEMMA AnswerType ==
  ASSUME TypeOK, NEW r \in Requests, NEW code \in Nat, NEW body,
         Answer(r, code, body)
  PROVE  /\ pc' \in [Requests -> Steps] /\ pc'[r] = "done"
         /\ \A q \in Requests \ {r} : pc'[q] = pc[q]
         /\ DOMAIN out' = Requests /\ \A q \in Requests : out'[q].code \in Nat
<1>1. out' = [out EXCEPT ![r] = [code |-> code, body |-> body]]
  BY DEF Answer
<1>2. DOMAIN out' = Requests /\ \A q \in Requests : out'[q].code \in Nat
  BY <1>1 DEF TypeOK
<1> QED
  BY <1>2, GotoType DEF Answer, Steps

(* Whatever a request has established, a step that keeps the tables and    *)
(* the request's own variables keeps.                                      *)
LEMMA LocalFrame ==
  ASSUME NEW q, Local(q), Kept, pc'[q] = pc[q], req'[q] = req[q], made'[q] = made[q]
  PROVE  Local(q)'
<1>1. HasInviter(q) => HasInviter(q)'
  BY DEF HasInviter, Kept
<1> QED
  BY <1>1 DEF Local, Kept

(* Nothing needs to be known of a request that is over.                    *)
LEMMA LocalDone ==
  ASSUME NEW r, pc'[r] = "done", req'[r] \in Inputs
  PROVE  Local(r)'
  BY DEF Local

(* A step of r that leaves the tables alone, when it keeps the types and   *)
(* what is known of r.                                                     *)
LEMMA QuietStep ==
  ASSUME IInv, NEW r \in Requests, Local(r)',
         UNCHANGED <<teams, members, made, applied>>,
         pc' \in [Requests -> Steps], req' \in [Requests -> Inputs \cup {NoReq}],
         DOMAIN out' = Requests, \A q \in Requests : out'[q].code \in Nat,
         \A q \in Requests \ {r} : pc'[q] = pc[q] /\ req'[q] = req[q]
  PROVE  IInv'
<1>1. TypeOK' /\ ChainOfInvites'
  BY DEF IInv, TypeOK, ChainOfInvites
<1>2. Kept
  BY DEF Kept
<1>3. \A q \in Requests \ {r} : Local(q)'
  BY <1>2, LocalFrame DEF IInv
<1> QED
  BY <1>1, <1>3 DEF IInv

(* An answer is such a step.                                               *)
LEMMA QuietAnswer ==
  ASSUME IInv, NEW r \in Requests, NEW code \in Nat, NEW body,
         Answer(r, code, body), req[r] \in Inputs,
         UNCHANGED <<teams, members, req, made, applied>>
  PROVE  IInv'
<1>1. Local(r)'
  BY AnswerType, LocalDone DEF IInv
<1> QED
  BY <1>1, AnswerType, QuietStep DEF IInv, TypeOK

(* So does a step of r to another of its steps.                            *)
LEMMA QuietGoto ==
  ASSUME IInv, NEW r \in Requests, NEW step \in Steps, Goto(r, step),
         UNCHANGED <<teams, members, req, made, out, applied>>, Local(r)'
  PROVE  IInv'
  BY GotoType, QuietStep, ZenonT(40) DEF IInv, TypeOK

-------------------------------------------------------------------------------
(* The actions.                                                            *)

(* Accept: an input that passes validation is well formed from here on.    *)
LEMMA AcceptStep ==
  ASSUME IInv, NEW r \in Requests, Accept(r) PROVE IInv'
<1>1. PICK i \in Inputs :
        /\ req' = [req EXCEPT ![r] = i]
        /\ \/ Answer(r, 400, {})
           \/ Goto(r, First[i.op]) /\ UNCHANGED out
  BY DEF Accept
<1>2. /\ UNCHANGED <<teams, members, made, applied>>
      /\ req' \in [Requests -> Inputs \cup {NoReq}] /\ req'[r] = i
      /\ \A q \in Requests \ {r} : req'[q] = req[q]
  BY <1>1 DEF Accept, IInv, TypeOK
<1>3. CASE Answer(r, 400, {})
  BY <1>2, <1>3, AnswerType, LocalDone, QuietStep DEF IInv
<1>4. CASE Goto(r, First[i.op]) /\ UNCHANGED out
  <2> DEFINE step == First[i.op]
  <2>1. /\ step \in Steps /\ step \in {"user", "team", "list", "members", "actor"}
        /\ step = "user" => i.op = "create"
        /\ step = "team" => i.op = "invite"
        /\ step = "actor" => i.op = "members"
    BY InputFields DEF First, Steps
  <2> HIDE DEF step
  <2>2. /\ pc' \in [Requests -> Steps] /\ pc'[r] = step
        /\ \A q \in Requests \ {r} : pc'[q] = pc[q]
    BY <1>4, <2>1, GotoType DEF IInv, step
  <2>3. Local(r)'
    BY <1>2, <2>1, <2>2 DEF Local
  <2> QED
    BY <1>2, <1>4, <2>2, <2>3, QuietStep DEF IInv, TypeOK
<1> QED
  BY <1>1, <1>3, <1>4

(* FindTeam: the team of an invitation exists from here on.                *)
LEMMA FindTeamStep ==
  ASSUME IInv, NEW r \in Requests, FindTeam(r) PROVE IInv'
<1>1. pc[r] = "team" /\ UNCHANGED <<teams, members, req, made, applied>>
  BY DEF FindTeam
<1>2. req[r] \in Inputs /\ req[r].op = "invite"
  BY <1>1 DEF IInv, Local
<1>3. CASE Answer(r, 404, {})
  BY <1>1, <1>2, <1>3, QuietAnswer
<1>4. CASE req[r].team \in DOMAIN teams /\ Goto(r, "actor") /\ UNCHANGED out
  <2>1. pc'[r] = "actor"
    BY <1>4, GotoType DEF IInv, Steps
  <2>2. Local(r)'
    BY <1>1, <1>2, <1>4, <2>1 DEF Local
  <2> QED
    BY <1>1, <1>4, <2>2, QuietGoto DEF Steps
<1> QED
  BY <1>3, <1>4 DEF FindTeam

(* GetActor: whoever goes on to invite is an owner or an admin.            *)
LEMMA GetActorStep ==
  ASSUME IInv, NEW r \in Requests, GetActor(r) PROVE IInv'
<1>1. pc[r] = "actor" /\ UNCHANGED <<teams, members, req, made, applied>>
  BY DEF GetActor
<1>2. /\ req[r] \in Inputs /\ req[r].op \in {"invite", "members"}
      /\ req[r].op = "invite" => req[r].team \in DOMAIN teams
  BY <1>1 DEF IInv, Local
<1>3. CASE Answer(r, 403, {})
  BY <1>1, <1>2, <1>3, QuietAnswer
<1> DEFINE step == IF req[r].op = "invite" THEN "user" ELSE "members"
<1>4. CASE MayProceed(r) /\ Goto(r, step) /\ UNCHANGED out
  <2>1. step \in Steps
    BY DEF Steps
  <2>2. pc'[r] = step
    BY <1>4, <2>1, GotoType DEF IInv
  <2>3. req[r].op = "invite" => HasInviter(r)
    BY <1>4 DEF MayProceed, RowsOf, CanInvite, HasInviter
  <2>4. (req[r].op = "invite" => HasInviter(r))'
    BY <1>1, <2>3 DEF HasInviter
  <2>5. Local(r)'
    BY <1>1, <1>2, <2>2, <2>4 DEF Local
  <2> QED
    BY <1>1, <1>4, <2>1, <2>5, QuietGoto
<1> QED
  BY <1>3, <1>4 DEF GetActor

(* FindUser: whoever is added exists, with a valid role.                   *)
LEMMA FindUserStep ==
  ASSUME IInv, NEW r \in Requests, FindUser(r) PROVE IInv'
<1>1. pc[r] = "user" /\ UNCHANGED <<teams, members, req, made, applied>>
  BY DEF FindUser
<1>2. /\ req[r] \in Inputs /\ req[r].op \in {"create", "invite"}
      /\ req[r].op = "invite" => req[r].team \in DOMAIN teams /\ HasInviter(r)
  BY <1>1 DEF IInv, Local
<1>3. CASE Answer(r, 404, {}) \/ Answer(r, 400, {})
  BY <1>1, <1>2, <1>3, QuietAnswer
<1> DEFINE step == IF req[r].op = "create" THEN "insert" ELSE "add"
<1>4. CASE /\ req[r].op = "invite" => req[r].user \in Users /\ req[r].role \in Roles
           /\ Goto(r, step) /\ UNCHANGED out
  <2>1. step \in Steps
    BY DEF Steps
  <2>2. pc'[r] = step
    BY <1>4, <2>1, GotoType DEF IInv
  <2>3. (req[r].op = "invite" => HasInviter(r))'
    BY <1>1, <1>2 DEF HasInviter
  <2>4. Local(r)'
    BY <1>1, <1>2, <1>4, <2>2, <2>3 DEF Local
  <2> QED
    BY <1>1, <1>4, <2>1, <2>4, QuietGoto
<1> QED
  BY <1>2, <1>3, <1>4 DEF FindUser, UserExists

(* InsertTeam: a team of the caller, without members.                      *)
LEMMA InsertTeamStep ==
  ASSUME IInv, NEW r \in Requests, InsertTeam(r) PROVE IInv'
<1>1. /\ pc[r] = "insert" /\ teams' = Append(teams, req[r].actor)
      /\ applied' = applied \cup {r}
      /\ UNCHANGED <<members, req>>
      /\ \/ /\ made' = [made EXCEPT ![r] = Len(teams')]
            /\ Goto(r, "add")
            /\ UNCHANGED out
         \/ Answer(r, 500, {}) /\ UNCHANGED made
  BY DEF InsertTeam
<1>2. req[r] \in Inputs /\ req[r].op = "create" /\ req[r].actor \in Users
  BY <1>1, InputFields DEF IInv, Local
<1>3. /\ teams' \in Seq(Users) /\ DOMAIN teams \subseteq DOMAIN teams'
      /\ \A t \in DOMAIN teams : teams'[t] = teams[t]
      /\ Len(teams') \in DOMAIN teams' /\ teams'[Len(teams')] = req[r].actor
      /\ Len(teams') \in Nat
  BY <1>1, <1>2 DEF IInv, TypeOK
<1>4. Kept
  BY <1>1, <1>3 DEF Kept
<1>5. /\ pc' \in [Requests -> Steps]
      /\ \A q \in Requests \ {r} : pc'[q] = pc[q] /\ made'[q] = made[q]
      /\ DOMAIN out' = Requests /\ \A q \in Requests : out'[q].code \in Nat
      /\ made' \in [Requests -> Nat]
      /\ pc'[r] = "done" \/ (pc'[r] = "add" /\ made'[r] = Len(teams'))
  <2>1. CASE Answer(r, 500, {}) /\ UNCHANGED made
    BY <2>1, AnswerType DEF IInv, TypeOK
  <2>2. CASE /\ made' = [made EXCEPT ![r] = Len(teams')]
             /\ Goto(r, "add")
             /\ UNCHANGED out
    <3>1. /\ made' \in [Requests -> Nat] /\ made'[r] = Len(teams')
          /\ \A q \in Requests \ {r} : made'[q] = made[q]
      BY <1>3, <2>2 DEF IInv, TypeOK
    <3>2. /\ pc' \in [Requests -> Steps] /\ pc'[r] = "add"
          /\ \A q \in Requests \ {r} : pc'[q] = pc[q]
      BY <2>2, GotoType DEF IInv, Steps
    <3> QED
      BY <2>2, <3>1, <3>2 DEF IInv, TypeOK
  <2> QED
    BY <1>1, <2>1, <2>2
<1>6. TypeOK'
  BY <1>1, <1>3, <1>5 DEF IInv, TypeOK
<1>7. ChainOfInvites'
  <2>1. \A i \in DOMAIN members : teams'[members[i].team] = teams[members[i].team]
    BY <1>3 DEF IInv, TypeOK
  <2> QED
    BY <1>1, <2>1, ZenonT(40) DEF IInv, ChainOfInvites
<1>8. Local(r)'
  BY <1>1, <1>2, <1>3, <1>5 DEF Local
<1>9. \A q \in Requests \ {r} : Local(q)'
  BY <1>1, <1>4, <1>5, LocalFrame DEF IInv
<1> QED
  BY <1>6, <1>7, <1>8, <1>9 DEF IInv

(* The row that a request past its checks inserts.                         *)
LEMMA NewMemberType ==
  ASSUME IInv, NEW r \in Requests, pc[r] = "add"
  PROVE  LET m == NewMember(r) IN
         /\ m \in MemberRow /\ m.team \in DOMAIN teams
         /\ \/ m.user = teams[m.team] /\ m.by = m.user /\ m.role = "owner"
            \/ \E j \in DOMAIN members : /\ members[j].team = m.team
                                         /\ members[j].user = m.by
                                         /\ members[j].role \in {"owner", "admin"}
<1>1. /\ req[r] \in Inputs /\ req[r].op \in {"create", "invite"}
      /\ req[r].actor \in Users /\ Local(r)
  BY InputFields DEF IInv, Local
<1>2. DOMAIN teams \subseteq Nat \ {0}
  BY DEF IInv, TypeOK
<1>3. CASE req[r].op = "create"
  <2>1. made[r] \in DOMAIN teams /\ teams[made[r]] = req[r].actor
    BY <1>1, <1>3 DEF Local
  <2> QED
    BY <1>1, <1>2, <1>3, <2>1 DEF NewMember, MemberRow, Roles
<1>4. CASE req[r].op = "invite"
  <2>1. /\ req[r].team \in DOMAIN teams /\ HasInviter(r)
        /\ req[r].user \in Users /\ req[r].role \in Roles
    BY <1>1, <1>4 DEF Local
  <2> QED
    BY <1>1, <1>2, <1>4, <2>1 DEF NewMember, MemberRow, HasInviter
<1> QED
  BY <1>1, <1>3, <1>4

(* AddMember: the new row has a key of its own and an inviter before it.   *)
LEMMA AddMemberStep ==
  ASSUME IInv, NEW r \in Requests, AddMember(r) PROVE IInv'
<1> DEFINE m == NewMember(r)
<1>1. pc[r] = "add" /\ UNCHANGED <<teams, req, made>>
  BY DEF AddMember
<1>2. req[r] \in Inputs
  BY <1>1 DEF IInv, Local
<1>3. CASE Answer(r, DuplicateCode, {}) /\ UNCHANGED <<members, applied>>
  BY <1>1, <1>2, <1>3, QuietAnswer DEF DuplicateCode
<1>4. CASE /\ RowsOf(m.user, m.team) = {}
           /\ members' = Append(members, m)
           /\ applied' = applied \cup {r}
           /\ Answer(r, 201, {}) \/ Answer(r, 500, {})
  <2>1. /\ m \in MemberRow /\ m.team \in DOMAIN teams
        /\ \/ m.user = teams[m.team] /\ m.by = m.user /\ m.role = "owner"
           \/ \E j \in DOMAIN members : /\ members[j].team = m.team
                                        /\ members[j].user = m.by
                                        /\ members[j].role \in {"owner", "admin"}
    BY <1>1, NewMemberType
  <2>2. \A i \in DOMAIN members : ~(members[i].user = m.user /\ members[i].team = m.team)
    BY <1>4 DEF RowsOf
  <2> HIDE DEF m
  <2> DEFINE n == Len(members)
  <2>3. /\ members' \in Seq(MemberRow) /\ n \in Nat /\ DOMAIN members = 1..n
        /\ DOMAIN members' = 1..(n + 1) /\ members'[n + 1] = m
        /\ \A i \in 1..n : members'[i] = members[i]
    BY <1>4, <2>1 DEF IInv, TypeOK
  <2> HIDE DEF n
  <2>4. /\ pc' \in [Requests -> Steps] /\ pc'[r] = "done"
        /\ \A q \in Requests \ {r} : pc'[q] = pc[q]
        /\ DOMAIN out' = Requests /\ \A q \in Requests : out'[q].code \in Nat
    BY <1>4, AnswerType DEF IInv
  <2>5. Kept
    BY <1>1, <2>3 DEF Kept
  <2>6. \A i \in 1..(n + 1) : i \in 1..n \/ i = n + 1
    BY <2>3
  <2>7. TypeOK'
    <3>1. \A i \in DOMAIN members' : members'[i].team \in DOMAIN teams
      BY <2>1, <2>3, <2>6 DEF IInv, TypeOK
    <3>2. \A i, j \in DOMAIN members' :
            (members'[i].user = members'[j].user /\ members'[i].team = members'[j].team)
              => i = j
      BY <2>2, <2>3, <2>6 DEF IInv, TypeOK
    <3> QED
      BY <1>1, <1>4, <2>3, <2>4, <3>1, <3>2 DEF IInv, TypeOK
  <2>8. ChainOfInvites'
    <3>1. ASSUME NEW i \in 1..n
          PROVE  \/ /\ members'[i].user = teams'[members'[i].team]
                    /\ members'[i].by = members'[i].user /\ members'[i].role = "owner"
                 \/ \E j \in 1..(i - 1) : /\ members'[j].team = members'[i].team
                                          /\ members'[j].user = members'[i].by
                                          /\ members'[j].role \in {"owner", "admin"}
      <4>1. \A j \in 1..(i - 1) : j \in 1..n
        BY <2>3
      <4> QED
        BY <1>1, <2>3, <4>1 DEF IInv, ChainOfInvites
    <3>2. \/ m.user = teams'[m.team] /\ m.by = m.user /\ m.role = "owner"
          \/ \E j \in 1..n : /\ members'[j].team = m.team
                             /\ members'[j].user = m.by
                             /\ members'[j].role \in {"owner", "admin"}
      BY <1>1, <2>1, <2>3
    <3>3. (n + 1) - 1 = n
      BY <2>3
    <3> QED
      BY <2>3, <2>6, <3>1, <3>2, <3>3 DEF ChainOfInvites
  <2>9. Local(r)'
    BY <1>1, <1>2, <2>4, LocalDone
  <2>10. \A q \in Requests \ {r} : Local(q)'
    BY <1>1, <2>4, <2>5, LocalFrame DEF IInv
  <2> QED
    BY <2>7, <2>8, <2>9, <2>10 DEF IInv
<1> QED
  BY <1>3, <1>4 DEF AddMember

(* ListTeams and ListMembers: answers and nothing else.                    *)
LEMMA ReadSteps ==
  ASSUME IInv, NEW r \in Requests, ListTeams(r) \/ ListMembers(r) PROVE IInv'
<1>1. req[r] \in Inputs
  BY DEF IInv, Local, ListTeams, ListMembers
<1> QED
  BY <1>1, QuietAnswer DEF ListTeams, ListMembers

(* DBError: an answer and nothing else.                                    *)
LEMMA DBErrorStep ==
  ASSUME IInv, NEW r \in Requests, DBError(r) PROVE IInv'
<1>1. req[r] \in Inputs
  BY DEF IInv, Local, DBError, InFlight
<1> QED
  BY <1>1, QuietAnswer DEF DBError

(* Crash: every request is over, the tables stay as they are.              *)
LEMMA CrashStep ==
  ASSUME IInv, Crash PROVE IInv'
<1>1. /\ pc'  = [r \in Requests |-> IF r \in InFlight THEN "done" ELSE pc[r]]
      /\ out' = [r \in Requests |-> IF r \in InFlight THEN Lost ELSE out[r]]
      /\ UNCHANGED <<teams, members, req, made, applied>>
  BY DEF Crash
<1>2. /\ pc' \in [Requests -> Steps]
      /\ \A r \in Requests : pc'[r] = pc[r] \/ (pc'[r] = "done" /\ pc[r] # "idle")
      /\ DOMAIN out' = Requests /\ \A r \in Requests : out'[r].code \in Nat
  BY <1>1 DEF IInv, TypeOK, Steps, Lost, InFlight
<1>3. TypeOK' /\ ChainOfInvites'
  BY <1>1, <1>2 DEF IInv, TypeOK, ChainOfInvites
<1>4. Kept
  BY <1>1 DEF Kept
<1>5. ASSUME NEW r \in Requests PROVE Local(r)'
  <2>1. CASE pc'[r] = pc[r]
    BY <1>1, <1>4, <2>1, LocalFrame DEF IInv
  <2>2. CASE pc'[r] = "done" /\ pc[r] # "idle"
    <3>1. req'[r] \in Inputs
      BY <1>1, <2>2 DEF IInv, Local
    <3> QED
      BY <2>2, <3>1, LocalDone
  <2> QED
    BY <1>2, <2>1, <2>2
<1> QED
  BY <1>3, <1>5 DEF IInv

(* The invariant holds before the first request.                           *)
LEMMA InitIInv == Init => IInv
<1> SUFFICES ASSUME Init PROVE IInv
  OBVIOUS
<1>1. TypeOK
  BY DEF Init, TypeOK, Steps, NoAnswer
<1>2. ChainOfInvites
  BY DEF Init, ChainOfInvites
<1>3. \A r \in Requests : Local(r)
  BY DEF Init, Local
<1> QED
  BY <1>1, <1>2, <1>3 DEF IInv

(* The invariant is inductive.                                             *)
LEMMA NextIInv == IInv /\ [Next]_vars => IInv'
<1> SUFFICES ASSUME IInv, [Next]_vars PROVE IInv'
  OBVIOUS
<1>1. ASSUME UNCHANGED vars PROVE IInv'
  <2>1. TypeOK' /\ ChainOfInvites' /\ Kept
    BY <1>1 DEF IInv, vars, TypeOK, ChainOfInvites, Kept
  <2>2. \A r \in Requests : Local(r)'
    BY <1>1, <2>1, LocalFrame DEF IInv, vars
  <2> QED
    BY <2>1, <2>2 DEF IInv
<1>2. ASSUME NEW r \in Requests, Serve(r) PROVE IInv'
  BY <1>2, FindTeamStep, GetActorStep, FindUserStep, InsertTeamStep,
     AddMemberStep, ReadSteps DEF Serve
<1> QED
  BY <1>1, <1>2, AcceptStep, DBErrorStep, CrashStep DEF Next, Finished

(* It holds in every reachable state.                                      *)
LEMMA Invariance == Spec => []IInv
<1> QED
  BY InitIInv, NextIInv, PTL DEF Spec

(* Every variable keeps its type, and member rows their keys.              *)
THEOREM TeamTypes == Spec => []TypeOK
<1>1. IInv => TypeOK
  BY DEF IInv
<1> QED
  BY <1>1, Invariance, PTL

(* Every member was invited by an owner or an admin, up to the creator.    *)
THEOREM InvitesAreChained == Spec => []ChainOfInvites
<1>1. IInv => ChainOfInvites
  BY DEF IInv
<1> QED
  BY <1>1, Invariance, PTL

(* A step adds a member only to a team that has one, or for its creation.  *)
LEMMA NextAbandoned ==
  ASSUME IInv, [Next]_vars, NEW t \in DOMAIN teams,
         \A u \in Users : RowsOf(u, t) = {}, ~BeingCreated(t)
  PROVE  \A u \in Users : RowsOf(u, t)' = {}
<1>1. CASE members' = members
  BY <1>1 DEF RowsOf
<1>2. ASSUME NEW r \in Requests, AddMember(r), members' # members
      PROVE  \A u \in Users : RowsOf(u, t)' = {}
  <2> DEFINE m == NewMember(r)
  <2>1. pc[r] = "add" /\ members' = Append(members, m)
    BY <1>2 DEF AddMember
  <2>2. /\ req[r].op \in {"create", "invite"} /\ req[r].actor \in Users
        /\ req[r].op = "invite" => HasInviter(r)
    BY <2>1, InputFields DEF IInv, Local
  <2>3. m.team # t
    <3>1. CASE req[r].op = "create"
      BY <2>1, <3>1 DEF BeingCreated, NewMember
    <3>2. CASE req[r].op = "invite"
      BY <2>2, <3>2 DEF HasInviter, RowsOf, NewMember
    <3> QED
      BY <2>2, <3>1, <3>2
  <2> HIDE DEF m
  <2>4. \A i \in DOMAIN members' :
           \/ members'[i] = m
           \/ i \in DOMAIN members /\ members'[i] = members[i]
    <3>1. m \in MemberRow /\ members \in Seq(MemberRow)
      BY <2>1, NewMemberType DEF IInv, TypeOK, m
    <3> QED
      BY <2>1, <3>1
  <2> QED
    BY <2>3, <2>4 DEF RowsOf
<1>3. members' = members \/ \E r \in Requests : AddMember(r)
  BY DEF Next, vars, Finished, Crash, DBError, Accept, Serve, FindTeam, GetActor,
         FindUser, InsertTeam, ListTeams, ListMembers
<1> QED
  BY <1>1, <1>2, <1>3

(* A team whose owner was not inserted stays without members for ever.     *)
THEOREM AbandonedTeamsStayEmpty == Spec => AbandonedStaysEmpty
<1>1. IInv /\ [Next]_vars =>
        [\A t \in DOMAIN teams :
            ((\A u \in Users : RowsOf(u, t) = {}) /\ ~BeingCreated(t))
              => \A u \in Users : RowsOf(u, t)' = {}]_vars
  BY NextAbandoned
<1> QED
  BY <1>1, Invariance, PTL DEF Spec, AbandonedStaysEmpty

(* A team with a member has its creator for owner: CreatorIsOwner fails for*)
(* abandoned teams only, and those nobody can use.                         *)
CreatorOwns(t) == \E i \in RowsOf(teams[t], t) : members[i].role = "owner"

PeopledAreOwned == \A i \in DOMAIN members : CreatorOwns(members[i].team)

(* The only step that changes the table appends the row of its request.    *)
LEMMA MembersStep ==
  ASSUME IInv, [Next]_vars, members' # members
  PROVE  \E r \in Requests :
            /\ AddMember(r) /\ pc[r] = "add" /\ teams' = teams
            /\ members' = Append(members, NewMember(r))
            /\ NewMember(r) \in MemberRow
            /\ RowsOf(NewMember(r).user, NewMember(r).team) = {}
<1>1. PICK r \in Requests : AddMember(r)
  BY DEF Next, vars, Finished, Crash, DBError, Accept, Serve, FindTeam, GetActor,
         FindUser, InsertTeam, ListTeams, ListMembers
<1>2. pc[r] = "add" /\ teams' = teams
  BY <1>1 DEF AddMember
<1>3. /\ members' = Append(members, NewMember(r))
      /\ RowsOf(NewMember(r).user, NewMember(r).team) = {}
  BY <1>1, Zenon DEF AddMember
<1> QED
  BY <1>1, <1>2, <1>3, NewMemberType

(* No step changes the creator of a team.                                  *)
LEMMA TeamsStay ==
  ASSUME IInv, [Next]_vars
  PROVE  \A t \in DOMAIN teams : t \in DOMAIN teams' /\ teams'[t] = teams[t]
<1>1. CASE \E r \in Requests : InsertTeam(r)
  BY <1>1 DEF InsertTeam, IInv, TypeOK
<1>2. CASE teams' = teams
  BY <1>2
<1> QED
  BY <1>1, <1>2 DEF Next, vars, Finished, Crash, DBError, Accept, Serve, FindTeam,
     GetActor, FindUser, AddMember, ListTeams, ListMembers

(* A creation appends the owner himself; an invitation comes from a member *)
(* of the team, which therefore had its owner before.                      *)
LEMMA OwnedStep ==
  ASSUME IInv, PeopledAreOwned, [Next]_vars
  PROVE  PeopledAreOwned'
<1>1. CASE members' = members
  <2>1. /\ \A i \in DOMAIN members : members[i].team \in DOMAIN teams
        /\ \A t \in DOMAIN teams : teams'[t] = teams[t]
    BY TeamsStay DEF IInv, TypeOK
  <2> QED
    BY <1>1, <2>1 DEF PeopledAreOwned, CreatorOwns, RowsOf
<1>2. CASE members' # members
  <2>1. PICK m \in MemberRow :
            /\ teams' = teams /\ members' = Append(members, m)
            /\ \/ m.user = teams[m.team] /\ m.role = "owner"
               \/ \E j \in DOMAIN members : members[j].team = m.team
    BY <1>2, MembersStep, NewMemberType
  <2> DEFINE last == Len(members) + 1
  <2>2. /\ last \in DOMAIN members' /\ members'[last] = m
        /\ \A i \in DOMAIN members : i \in DOMAIN members' /\ members'[i] = members[i]
        /\ \A i \in DOMAIN members' : i = last \/ i \in DOMAIN members
    BY <2>1 DEF IInv, TypeOK
  <2>3. ASSUME NEW t, CreatorOwns(t) PROVE CreatorOwns(t)'
    BY <2>1, <2>2, <2>3 DEF CreatorOwns, RowsOf
  <2>4. CreatorOwns(m.team)'
    <3>1. CASE m.user = teams[m.team] /\ m.role = "owner"
      BY <2>1, <2>2, <3>1 DEF CreatorOwns, RowsOf
    <3>2. CASE \E j \in DOMAIN members : members[j].team = m.team
      BY <2>3, <3>2 DEF PeopledAreOwned
    <3> QED
      BY <2>1, <3>1, <3>2
  <2> QED
    BY <2>2, <2>3, <2>4 DEF PeopledAreOwned
<1> QED
  BY <1>1, <1>2

(* Wherever there is a member there is the owner who created the team.     *)
THEOREM MembersHaveAnOwner == Spec => []PeopledAreOwned
<1>1. Init => PeopledAreOwned
  BY DEF Init, PeopledAreOwned
<1>2. IInv /\ PeopledAreOwned /\ [Next]_vars => PeopledAreOwned'
  BY OwnedStep
<1> QED
  BY <1>1, <1>2, Invariance, PTL DEF Spec

-------------------------------------------------------------------------------
(* What the answers promise.  The second invariant says which requests have*)
(* inserted something, and that the team a create request has made is still*)
(* empty and its own when its owner is added.                              *)

(* The row that the request inserts or finds.                              *)
Hit(r) == RowsOf(NewMember(r).user, NewMember(r).team)

Told(r) ==
    /\ out[r].code \in {400, 403, 404, 409} => r \notin applied
    /\ out[r].code = 201 =>
          r \in applied /\ \E i \in Hit(r) : members[i].role = NewMember(r).role
    /\ out[r].code = 409 => Hit(r) # {}
    /\ out[r].code = 200 /\ req[r].op = "members" =>
          RowsOf(req[r].actor, req[r].team) # {}

Creating(r) == pc[r] = "add" /\ req[r].op = "create"

Own(r) == /\ \A i \in DOMAIN members : members[i].team # made[r]
          /\ \A q \in Requests \ {r} : Creating(q) => made[q] # made[r]

Promise(r) ==
    /\ pc[r] # "done" /\ ~Creating(r) => r \notin applied
    /\ Creating(r) => Own(r)
    /\ pc[r] = "list" => req[r].op = "list"
    /\ pc[r] = "members" => RowsOf(req[r].actor, req[r].team) # {}
    /\ pc[r] = "done" => Told(r)

(* No step removes or changes a team or a member, and a step of a request  *)
(* leaves the other requests alone.                                        *)
LEMMA StepFrame ==
  ASSUME IInv, NEW r \in Requests, Accept(r) \/ Serve(r) \/ DBError(r)
  PROVE  /\ Kept
         /\ \A q \in Requests \ {r} :
               /\ pc'[q] = pc[q] /\ req'[q] = req[q] /\ made'[q] = made[q]
               /\ out'[q] = out[q] /\ (q \in applied' <=> q \in applied)
<1> USE DEF IInv
<1>1. \A step : Goto(r, step) => \A q \in Requests \ {r} : pc'[q] = pc[q]
  BY DEF Goto, TypeOK
<1>2. \A code, body : Answer(r, code, body) =>
        \A q \in Requests \ {r} : pc'[q] = pc[q] /\ out'[q] = out[q]
  BY <1>1 DEF Answer, TypeOK
<1>3. CASE Accept(r) \/ DBError(r)
  BY <1>1, <1>2, <1>3 DEF Accept, DBError, Kept, TypeOK
<1>4. CASE FindTeam(r) \/ GetActor(r) \/ FindUser(r) \/ ListTeams(r) \/ ListMembers(r)
  BY <1>1, <1>2, <1>4 DEF FindTeam, GetActor, FindUser, ListTeams, ListMembers, Kept
<1>5. CASE InsertTeam(r)
  <2>1. req[r].actor \in Users
    BY <1>5, InputFields DEF InsertTeam, Local
  <2>2. Kept
    BY <1>5, <2>1 DEF InsertTeam, Kept, TypeOK
  <2> QED
    BY <1>1, <1>2, <1>5, <2>2 DEF InsertTeam, TypeOK
<1>6. CASE AddMember(r)
  <2>1. NewMember(r) \in MemberRow
    BY <1>6, NewMemberType DEF AddMember
  <2>2. /\ teams' = teams
        /\ members' = members \/ members' = Append(members, NewMember(r))
    BY <1>6 DEF AddMember
  <2>3. members \in Seq(MemberRow)
    BY DEF TypeOK
  <2>4. Kept
    BY <2>1, <2>2, <2>3 DEF Kept
  <2> QED
    BY <1>1, <1>2, <1>6, <2>4 DEF AddMember, TypeOK
<1> QED
  BY <1>3, <1>4, <1>5, <1>6 DEF Serve

(* What an answer promised stays true.                                     *)
LEMMA ToldFrame ==
  ASSUME NEW q, Told(q), Kept, req'[q] = req[q], made'[q] = made[q],
         out'[q] = out[q], q \in applied' <=> q \in applied
  PROVE  Told(q)'
<1>1. NewMember(q)' = NewMember(q)
  BY DEF NewMember
<1>2. \A i \in Hit(q) : i \in Hit(q)' /\ members'[i] = members[i]
  BY <1>1 DEF Hit, RowsOf, Kept
<1>3. \A i \in RowsOf(req[q].actor, req[q].team) :
        i \in RowsOf(req[q].actor, req[q].team)'
  BY DEF RowsOf, Kept
<1> QED
  BY <1>1, <1>2, <1>3 DEF Told

(* The team of a create request stays its own as long as the others add    *)
(* members to other teams and make other ones.                             *)
LEMMA PromiseFrame ==
  ASSUME NEW r \in Requests, NEW q \in Requests \ {r}, Promise(q), Kept,
         \A p \in Requests \ {r} :
            /\ pc'[p] = pc[p] /\ req'[p] = req[p] /\ made'[p] = made[p]
            /\ out'[p] = out[p] /\ (p \in applied' <=> p \in applied),
         Creating(q) => /\ \A i \in DOMAIN members' :
                              \/ i \in DOMAIN members
                              \/ members'[i].team # made[q]
                        /\ Creating(r)' => made'[r] # made[q]
  PROVE  Promise(q)'
<1>1. Told(q) => Told(q)'
  BY ToldFrame
<1>2. RowsOf(req[q].actor, req[q].team) \subseteq RowsOf(req[q].actor, req[q].team)'
  BY DEF RowsOf, Kept
<1>3. \A p \in Requests \ {r} : Creating(p)' <=> Creating(p)
  BY DEF Creating
<1>4. Creating(q) /\ Own(q) => Own(q)'
  BY <1>3 DEF Own, Kept
<1> QED
  BY <1>1, <1>2, <1>3, <1>4 DEF Promise

(* When a request changes no table and does not come to hold a new team,   *)
(* the others' promises stand.                                             *)
LEMMA OthersPromise ==
  ASSUME IInv, NEW r \in Requests, \A q \in Requests : Promise(q),
         Accept(r) \/ Serve(r) \/ DBError(r), members' = members, ~Creating(r)',
         Promise(r)'
  PROVE  \A q \in Requests : Promise(q)'
<1>1. \A q \in Requests \ {r} : Promise(q)'
  BY StepFrame, PromiseFrame
<1> QED
  BY <1>1

(* A request that answers without an insert: nothing of it is in the       *)
(* tables when the answer is a 4xx.                                        *)
LEMMA PromiseAnswer ==
  ASSUME IInv, NEW r \in Requests, Promise(r), NEW code \in Nat, NEW body,
         Answer(r, code, body),
         UNCHANGED <<members, req, made, applied>>,
         code # 201, code \in {400, 403, 404, 409} => ~Creating(r) /\ pc[r] # "done",
         code = 409 => Hit(r) # {},
         code = 200 /\ req[r].op = "members" => RowsOf(req[r].actor, req[r].team) # {}
  PROVE  Promise(r)' /\ ~Creating(r)'
<1>1. pc'[r] = "done"
  BY AnswerType DEF IInv
<1>2. out'[r].code = code
  BY DEF Answer, IInv, TypeOK
<1>3. Hit(r)' = Hit(r)
  BY DEF Hit, NewMember, RowsOf
<1>4. RowsOf(req[r].actor, req[r].team)' = RowsOf(req[r].actor, req[r].team)
  BY DEF RowsOf
<1>5. code \in {400, 403, 404, 409} => r \notin applied
  BY DEF Promise
<1>6. Told(r)'
  BY <1>2, <1>3, <1>4, <1>5 DEF Told
<1> QED
  BY <1>1, <1>6 DEF Promise, Creating

(* A request that moves on without an insert.                              *)
LEMMA PromiseGoto ==
  ASSUME IInv, NEW r \in Requests, Promise(r), NEW step \in Steps, Goto(r, step),
         ~Creating(r), pc[r] # "done", step # "done", r \in applied' <=> r \in applied,
         step = "add" => req'[r].op # "create",
         step = "list" => req'[r].op = "list",
         step = "members" => RowsOf(req[r].actor, req[r].team)' # {}
  PROVE  Promise(r)' /\ ~Creating(r)'
<1>1. pc'[r] = step
  BY GotoType DEF IInv
<1> QED
  BY <1>1 DEF Promise, Creating

LEMMA AcceptPromise ==
  ASSUME IInv, \A q \in Requests : Promise(q), NEW r \in Requests, Accept(r)
  PROVE  \A q \in Requests : Promise(q)'
<1>1. /\ pc[r] = "idle" /\ ~Creating(r)
      /\ UNCHANGED <<teams, members, made, applied>>
  BY DEF Accept, Creating
<1>2. PICK i \in Inputs : /\ req' = [req EXCEPT ![r] = i]
                          /\ \/ Malformed(i) /\ Answer(r, 400, {})
                             \/ /\ ~Malformed(i)
                                /\ Goto(r, First[i.op]) /\ UNCHANGED out
  BY DEF Accept
<1>3. req'[r] = i
  BY <1>2 DEF IInv, TypeOK
<1>4. r \notin applied
  BY <1>1 DEF Promise
<1>5. CASE Answer(r, 400, {})
  <2>1. pc'[r] = "done"
    BY <1>5, AnswerType DEF IInv
  <2>2. out'[r].code = 400
    BY <1>5 DEF Answer, IInv, TypeOK
  <2>3. Promise(r)' /\ ~Creating(r)'
    BY <1>1, <1>4, <2>1, <2>2 DEF Promise, Told, Creating
  <2> QED
    BY <1>1, <2>3, OthersPromise
<1>6. CASE Goto(r, First[i.op])
  <2>1. i.op \in {"create", "invite", "list", "members"}
    BY InputFields
  <2>2. /\ First[i.op] \in {"user", "team", "list", "actor"}
        /\ First[i.op] = "list" => i.op = "list"
    BY <2>1 DEF First
  <2>3. pc'[r] = First[i.op]
    BY <1>6, <2>2, GotoType DEF IInv, Steps
  <2>4. Promise(r)' /\ ~Creating(r)'
    BY <1>1, <1>3, <1>4, <2>2, <2>3 DEF Promise, Creating
  <2> QED
    BY <1>1, <2>4, OthersPromise
<1> QED
  BY <1>2, <1>5, <1>6

(* The calls that only read.                                               *)
LEMMA ReadPromise ==
  ASSUME IInv, \A q \in Requests : Promise(q), NEW r \in Requests,
         FindTeam(r) \/ GetActor(r) \/ FindUser(r) \/ ListTeams(r)
            \/ ListMembers(r) \/ DBError(r)
  PROVE  \A q \in Requests : Promise(q)'
<1>1. UNCHANGED <<teams, members, req, made, applied>>
  BY DEF FindTeam, GetActor, FindUser, ListTeams, ListMembers, DBError
<1>2. Promise(r) /\ Local(r)
  BY DEF IInv
<1>3. Promise(r)' /\ ~Creating(r)'
  <2>1. CASE FindTeam(r)
    BY <1>1, <1>2, <2>1, PromiseAnswer, PromiseGoto
       DEF FindTeam, Creating, Local, Steps
  <2>2. CASE GetActor(r)
    <3>1. RowsOf(req[r].actor, req[r].team)' = RowsOf(req[r].actor, req[r].team)
      BY <1>1 DEF RowsOf
    <3>2. MayProceed(r) => RowsOf(req[r].actor, req[r].team) # {}
      BY DEF MayProceed
    <3>3. pc[r] = "actor"
      BY <2>2 DEF GetActor
    <3> QED
      BY <1>1, <1>2, <2>2, <3>1, <3>2, <3>3, PromiseAnswer, PromiseGoto
         DEF GetActor, Creating, Local, Steps
  <2>3. CASE FindUser(r)
    <3>1. pc[r] = "user"
      BY <2>3 DEF FindUser
    <3> QED
      BY <1>1, <1>2, <2>3, <3>1, PromiseAnswer, PromiseGoto
         DEF FindUser, Creating, Local, Steps
  <2>4. CASE ListTeams(r)
    BY <1>1, <1>2, <2>4, PromiseAnswer DEF ListTeams, Promise
  <2>5. CASE ListMembers(r)
    BY <1>1, <1>2, <2>5, PromiseAnswer DEF ListMembers, Promise
  <2>6. CASE DBError(r)
    BY <1>1, <1>2, <2>6, PromiseAnswer DEF DBError
  <2> QED
    BY <2>1, <2>2, <2>3, <2>4, <2>5, <2>6
<1> QED
  BY <1>1, <1>3, OthersPromise DEF Serve

LEMMA InsertPromise ==
  ASSUME IInv, \A q \in Requests : Promise(q), NEW r \in Requests, InsertTeam(r)
  PROVE  \A q \in Requests : Promise(q)'
<1>1. /\ pc[r] = "insert" /\ req' = req /\ members' = members
      /\ teams' = Append(teams, req[r].actor) /\ applied' = applied \cup {r}
  BY DEF InsertTeam
<1>2. req[r].actor \in Users
  BY <1>1, InputFields DEF IInv, Local
<1>3. Len(teams') = Len(teams) + 1 /\ DOMAIN teams = 1..Len(teams) /\ Len(teams) \in Nat
  BY <1>1, <1>2 DEF IInv, TypeOK
<1>4. \A q \in Requests \ {r} : Creating(q) => made[q] # Len(teams')
  BY <1>3 DEF IInv, Local, Creating
<1>5. \A q \in Requests \ {r} : Creating(q)' <=> Creating(q) /\ made'[q] = made[q]
  BY StepFrame DEF Serve, Creating
<1>6. Promise(r)' /\ (Creating(r)' => made'[r] = Len(teams'))
  <2>1. CASE made' = [made EXCEPT ![r] = Len(teams')] /\ Goto(r, "add")
    <3>1. made'[r] = Len(teams') /\ pc'[r] = "add"
      BY <2>1, GotoType DEF IInv, TypeOK, Steps
    <3>2. \A i \in DOMAIN members' : members'[i].team # Len(teams')
      BY <1>1, <1>3 DEF IInv, TypeOK
    <3>3. Own(r)'
      BY <1>4, <1>5, <3>1, <3>2, StepFrame DEF Own, Serve, Creating
    <3>4. req'[r].op = "create"
      BY <1>1 DEF IInv, Local
    <3> QED
      BY <3>1, <3>3, <3>4 DEF Promise, Creating
  <2>2. CASE Answer(r, 500, {})
    <3>1. pc'[r] = "done"
      BY <2>2, AnswerType DEF IInv
    <3>2. out'[r].code = 500
      BY <2>2 DEF Answer, IInv, TypeOK
    <3> QED
      BY <3>1, <3>2 DEF Promise, Told, Creating
  <2> QED
    BY <2>1, <2>2 DEF InsertTeam
<1>7. \A q \in Requests \ {r} : Promise(q)'
  BY <1>1, <1>4, <1>6, StepFrame, PromiseFrame DEF Serve
<1> QED
  BY <1>6, <1>7

LEMMA AddPromise ==
  ASSUME IInv, \A q \in Requests : Promise(q), NEW r \in Requests, AddMember(r)
  PROVE  \A q \in Requests : Promise(q)'
<1> DEFINE m == NewMember(r)
<1>1. /\ pc[r] = "add" /\ UNCHANGED <<teams, req, made>> /\ Local(r) /\ Promise(r)
      /\ req[r].op \in {"create", "invite"}
  BY DEF AddMember, IInv, Local
<1>2. m \in MemberRow /\ members \in Seq(MemberRow)
  BY <1>1, NewMemberType DEF IInv, TypeOK
<1>3. CASE Hit(r) # {} /\ Answer(r, DuplicateCode, {}) /\ UNCHANGED <<members, applied>>
  <2>1. ~Creating(r)
    BY <1>3 DEF Promise, Own, Hit, RowsOf, NewMember, Creating
  <2>2. Promise(r)' /\ ~Creating(r)'
    BY <1>1, <1>3, <2>1, PromiseAnswer DEF DuplicateCode
  <2> QED
    BY <1>3, <2>2, OthersPromise DEF Serve
<1>4. CASE /\ members' = Append(members, m) /\ applied' = applied \cup {r}
           /\ Answer(r, 201, {}) \/ Answer(r, 500, {})
  <2>0. pc'[r] = "done"
    BY <1>4, AnswerType DEF IInv
  <2>1. out'[r].code \in {201, 500}
    BY <1>4 DEF Answer, IInv, TypeOK
  <2>2. NewMember(r)' = m
    BY <1>1 DEF NewMember
  <2> HIDE DEF m
  <2>3. members'[Len(members) + 1] = m /\ Len(members) + 1 \in DOMAIN members'
    BY <1>2, <1>4
  <2>4. Len(members) + 1 \in Hit(r)'
    BY <2>2, <2>3 DEF Hit, RowsOf
  <2>5. r \in applied'
    BY <1>4
  <2>6. Told(r)'
    BY <2>1, <2>2, <2>3, <2>4, <2>5 DEF Told
  <2>7. Promise(r)' /\ ~Creating(r)'
    BY <2>0, <2>6 DEF Promise, Creating
  <2>8. \A i \in DOMAIN members' : i \in DOMAIN members \/ members'[i] = m
    BY <1>2, <1>4
  <2>9. ASSUME NEW q \in Requests \ {r}, Creating(q)
        PROVE  m.team # made[q]
    <3>1. Own(q)
      BY <2>9 DEF Promise
    <3>2. CASE req[r].op = "create"
      BY <1>1, <3>1, <3>2 DEF Own, Creating, m, NewMember
    <3>3. CASE req[r].op = "invite"
      BY <1>1, <3>1, <3>3 DEF Own, Local, HasInviter, m, NewMember
    <3> QED
      BY <1>1, <3>2, <3>3
  <2>10. \A q \in Requests \ {r} : Promise(q)'
    BY <2>7, <2>8, <2>9, StepFrame, PromiseFrame DEF Serve
  <2> QED
    BY <2>7, <2>10
<1> QED
  BY <1>3, <1>4 DEF AddMember, Hit

(* Every step keeps every promise.                                         *)
LEMMA NextPromise ==
  ASSUME IInv, \A q \in Requests : Promise(q), [Next]_vars
  PROVE  \A q \in Requests : Promise(q)'
<1>1. CASE UNCHANGED vars
  BY <1>1 DEF vars, Promise, Told, Creating, Own, Hit, NewMember, RowsOf
<1>2. CASE Crash
  <2>1. UNCHANGED <<teams, members, req, made, applied>>
    BY <1>2 DEF Crash
  <2> SUFFICES ASSUME NEW q \in Requests PROVE Promise(q)'
    OBVIOUS
  <2>2. \A p \in Requests : Creating(p)' => Creating(p)
    BY <1>2, <2>1 DEF Crash, Creating, InFlight
  <2>3. CASE q \in InFlight
    <3>1. pc'[q] = "done" /\ out'[q] = Lost
      BY <1>2, <2>3 DEF Crash
    <3> QED
      BY <3>1 DEF Promise, Told, Creating, Lost
  <2>4. CASE q \notin InFlight
    <3>1. pc'[q] = pc[q] /\ out'[q] = out[q] /\ ~Creating(q) /\ pc[q] \in {"idle", "done"}
      BY <1>2, <2>4 DEF Crash, InFlight, Creating
    <3>2. Told(q) => Told(q)'
      BY <2>1, <3>1 DEF Told, Hit, NewMember, RowsOf
    <3>3. Promise(q)
      OBVIOUS
    <3> QED
      BY <2>1, <2>2, <3>1, <3>2, <3>3 DEF Promise
  <2> QED
    BY <2>3, <2>4
<1>3. CASE \E r \in Requests : Accept(r) \/ Serve(r) \/ DBError(r)
  BY <1>3, AcceptPromise, ReadPromise, InsertPromise, AddPromise DEF Serve
<1> QED
  BY <1>1, <1>2, <1>3 DEF Next, Finished

(* Whatever the clients were told of teams and members is so: an answer of *)
(* 201 names a row that is there, and a 4xx inserted nothing.              *)
THEOREM TeamAnswersHold == Spec => []TeamAnswersAreTruthful
<1>1. Init => \A r \in Requests : Promise(r)
  BY DEF Init, Promise, Creating
<1>2. IInv /\ (\A r \in Requests : Promise(r)) /\ [Next]_vars
        => \A r \in Requests : Promise(r)'
  BY NextPromise
<1>3. (\A r \in Requests : Promise(r)) => TeamAnswersAreTruthful
  BY DEF Promise, Told, Hit, TeamAnswersAreTruthful
<1> DEFINE Promises == \A r \in Requests : Promise(r)
<1>4. Init => Promises
  BY <1>1
<1>5. IInv /\ Promises /\ [Next]_vars => Promises'
  BY <1>2
<1>6. Promises => TeamAnswersAreTruthful
  BY <1>3
<1> HIDE DEF Promises
<1> QED
  BY <1>4, <1>5, <1>6, Invariance, PTL DEF Spec
===============================================================================
