------------------------------ MODULE TeamService ------------------------------
(***************************************************************************)
(* The team service: a user creates a team and becomes its owner, owners   *)
(* and admins invite users, members list their teams and the members of a  *)
(* team.  A step is one call to MySQL with the Go code up to the next one. *)
(* Create inserts the team and its owner in two statements that no         *)
(* transaction holds together.                                             *)
(*                                                                         *)
(* Sources: internal/handler/team.go, internal/service/team_service.go,    *)
(* internal/repository/{team,user}_repo.go, internal/entity/role.go        *)
(***************************************************************************)
EXTENDS Naturals, Sequences

CONSTANTS
    Users,      \* ids of the rows of table users; none is ever removed
    NoUser,     \* an id that no row of users has
    BadRole,    \* a role that does not exist
    Requests,   \* one element for each request that may arrive
    Inputs      \* the requests clients send, a subset of Input

Roles == {"owner", "admin", "member"}

Input ==
    [op : {"create"}, actor : Users, named : BOOLEAN]
      \cup [op : {"invite"}, actor : Users, team : Nat,
            user : Users \cup {NoUser}, role : Roles \cup {BadRole}]
      \cup [op : {"list"}, actor : Users]
      \cup [op : {"members"}, actor : Users, team : Nat]

ASSUME TeamAssumption ==
    /\ Inputs \subseteq Input
    /\ NoUser \notin Users /\ BadRole \notin Roles

VARIABLES
    teams,      \* created_by of the rows of table teams; the id is the position
    members,    \* rows of table team_members in the order of their insertion
    pc,         \* the call a request is about to make
    req,        \* what the client asked
    made,       \* the id of the team that a create request inserted
    out,        \* the answer
    applied     \* auxiliary: requests one of whose inserts took effect

vars == <<teams, members, pc, req, made, out, applied>>

Steps    == {"idle", "team", "actor", "user", "insert", "add", "list", "members",
             "done"}
NoReq    == [op |-> "none"]
NoAnswer == [code |-> 0, body |-> {}]
Lost     == [code |-> 1, body |-> {}]     \* the process died: no answer

InFlight == {r \in Requests : pc[r] \notin {"idle", "done"}}

Init ==
    /\ teams = <<>> /\ members = <<>>
    /\ pc   = [r \in Requests |-> "idle"]
    /\ req  = [r \in Requests |-> NoReq]
    /\ made = [r \in Requests |-> 0]
    /\ out  = [r \in Requests |-> NoAnswer]
    /\ applied = {}

-------------------------------------------------------------------------------
Goto(r, step) == pc' = [pc EXCEPT ![r] = step]

Answer(r, code, body) ==
    /\ Goto(r, "done")
    /\ out' = [out EXCEPT ![r] = [code |-> code, body |-> body]]

(* The primary key of team_members.                                        *)
RowsOf(user, team) ==
    {i \in DOMAIN members : members[i].user = user /\ members[i].team = team}

MutCanInviteAny(role) == role \in Roles \* mutant: any member may invite
CanInvite(role) == role \in {"owner", "admin"}

Malformed(i) == \/ i.op = "create" /\ ~i.named
                \/ i.op \in {"invite", "members"} /\ i.team = 0

First == [create |-> "user", invite |-> "team", list |-> "list", members |-> "actor"]

Accept(r) ==
    /\ pc[r] = "idle"
    /\ \E i \in Inputs :
        /\ req' = [req EXCEPT ![r] = i]
        /\ \/ Malformed(i) /\ Answer(r, 400, {})
           \/ ~Malformed(i) /\ Goto(r, First[i.op]) /\ UNCHANGED out
    /\ UNCHANGED <<teams, members, made, applied>>

FindTeam(r) ==
    /\ pc[r] = "team"
    /\ \/ req[r].team \notin DOMAIN teams /\ Answer(r, 404, {})
       \/ req[r].team \in DOMAIN teams /\ Goto(r, "actor") /\ UNCHANGED out
    /\ UNCHANGED <<teams, members, req, made, applied>>

(* The caller is a member; to invite, one with the role for it.            *)
MutMayProceedCreator(r) ==              \* mutant: created_by is enough
    \/ RowsOf(req[r].actor, req[r].team) # {}
    \/ \E t \in DOMAIN teams : t = req[r].team /\ teams[t] = req[r].actor
MayProceed(r) ==
    \E i \in RowsOf(req[r].actor, req[r].team) :
        req[r].op = "invite" => CanInvite(members[i].role)

GetActor(r) ==
    /\ pc[r] = "actor"
    /\ \/ ~MayProceed(r) /\ Answer(r, 403, {})
       \/ /\ MayProceed(r)
          /\ Goto(r, IF req[r].op = "invite" THEN "user" ELSE "members")
          /\ UNCHANGED out
    /\ UNCHANGED <<teams, members, req, made, applied>>

(* The creator or the invited user; an invitation then validates its role. *)
MutUserExistsAlways(u) == TRUE          \* mutant: the user is not looked up
UserExists(u) == u \in Users

FindUser(r) ==
    /\ pc[r] = "user"
    /\ LET u == IF req[r].op = "create" THEN req[r].actor ELSE req[r].user
           roleOK == req[r].op = "invite" => req[r].role \in Roles
       IN  \/ ~UserExists(u) /\ Answer(r, 404, {})
           \/ UserExists(u) /\ ~roleOK /\ Answer(r, 400, {})
           \/ /\ UserExists(u) /\ roleOK
              /\ Goto(r, IF req[r].op = "create" THEN "insert" ELSE "add")
              /\ UNCHANGED out
    /\ UNCHANGED <<teams, members, req, made, applied>>

(* Either insert may take effect although its answer is lost: a 500.       *)
InsertTeam(r) ==
    /\ pc[r] = "insert"
    /\ teams' = Append(teams, req[r].actor)
    /\ applied' = applied \cup {r}
    /\ \/ /\ made' = [made EXCEPT ![r] = Len(teams')]
          /\ Goto(r, "add")
          /\ UNCHANGED out
       \/ Answer(r, 500, {}) /\ UNCHANGED made
    /\ UNCHANGED <<members, req>>

(* The row a create or an invite request inserts; by is auxiliary.         *)
NewMember(r) ==
    IF req[r].op = "create"
    THEN [user |-> req[r].actor, team |-> made[r], role |-> "owner",
          by |-> req[r].actor]
    ELSE [user |-> req[r].user, team |-> req[r].team, role |-> req[r].role,
          by |-> req[r].actor]

MutDuplicateCode == 201                 \* mutant: a repeated invitation is a success
DuplicateCode == 409

AddMember(r) ==
    /\ pc[r] = "add"
    /\ LET m == NewMember(r) IN
        \/ /\ RowsOf(m.user, m.team) # {}
           /\ Answer(r, DuplicateCode, {})
           /\ UNCHANGED <<members, applied>>
        \/ /\ RowsOf(m.user, m.team) = {}
           /\ members' = Append(members, m)
           /\ applied' = applied \cup {r}
           /\ Answer(r, 201, {}) \/ Answer(r, 500, {})
    /\ UNCHANGED <<teams, req, made>>

(* The inner join of teams and team_members.                               *)
ListTeams(r) ==
    /\ pc[r] = "list"
    /\ Answer(r, 200, {members[i] : i \in {j \in DOMAIN members :
                                             members[j].user = req[r].actor}})
    /\ UNCHANGED <<teams, members, req, made, applied>>

ListMembers(r) ==
    /\ pc[r] = "members"
    /\ Answer(r, 200, {members[i] : i \in {j \in DOMAIN members :
                                             members[j].team = req[r].team}})
    /\ UNCHANGED <<teams, members, req, made, applied>>

-------------------------------------------------------------------------------
(* A call to MySQL fails without effect.                                   *)
DBError(r) ==
    /\ r \in InFlight
    /\ Answer(r, 500, {})
    /\ UNCHANGED <<teams, members, req, made, applied>>

(* The process dies; the tables stay.                                      *)
Crash ==
    /\ InFlight # {}
    /\ pc'  = [r \in Requests |-> IF r \in InFlight THEN "done" ELSE pc[r]]
    /\ out' = [r \in Requests |-> IF r \in InFlight THEN Lost ELSE out[r]]
    /\ UNCHANGED <<teams, members, req, made, applied>>

Finished ==
    /\ \A r \in Requests : pc[r] = "done"
    /\ UNCHANGED vars

Serve(r) ==
    \/ FindTeam(r) \/ GetActor(r) \/ FindUser(r) \/ InsertTeam(r)
    \/ AddMember(r) \/ ListTeams(r) \/ ListMembers(r)

Next ==
    \/ \E r \in Requests : Accept(r) \/ Serve(r) \/ DBError(r)
    \/ Crash
    \/ Finished

Spec == Init /\ [][Next]_vars

-------------------------------------------------------------------------------
MemberRow == [user : Users, team : Nat \ {0}, role : Roles, by : Users]

(* Every variable has its type; a member row names a user and a team that  *)
(* exist, and no other row names the same two.                             *)
TypeOK ==
    /\ teams \in Seq(Users)
    /\ members \in Seq(MemberRow)
    /\ \A i \in DOMAIN members : members[i].team \in DOMAIN teams
    /\ \A i, j \in DOMAIN members :
          (members[i].user = members[j].user /\ members[i].team = members[j].team)
              => i = j
    /\ pc \in [Requests -> Steps]
    /\ req \in [Requests -> Inputs \cup {NoReq}]
    /\ made \in [Requests -> Nat]
    /\ DOMAIN out = Requests /\ \A r \in Requests : out[r].code \in Nat
    /\ applied \subseteq Requests

(* The creating request has the team but not yet its owner.                *)
BeingCreated(t) ==
    \E r \in Requests : pc[r] = "add" /\ req[r].op = "create" /\ made[r] = t

(* Every member of a team was invited by somebody who was an owner or an   *)
(* admin of it already, up to the creator, who made himself its owner.     *)
ChainOfInvites ==
    \A i \in DOMAIN members : LET m == members[i] IN
        \/ m.user = teams[m.team] /\ m.by = m.user /\ m.role = "owner"
        \/ \E j \in 1..(i - 1) : /\ members[j].team = m.team
                                 /\ members[j].user = m.by
                                 /\ members[j].role \in {"owner", "admin"}

(* A team whose owner was not inserted with it never gets a member: nobody *)
(* may invite to it, its creator included.                                 *)
AbandonedStaysEmpty ==
    [][\A t \in DOMAIN teams :
        ((\A u \in Users : RowsOf(u, t) = {}) /\ ~BeingCreated(t))
            => \A u \in Users : RowsOf(u, t)' = {}]_vars

(* An answer tells what happened: a 201 that the member is there with the  *)
(* role asked for, a 409 that the member was there before, any 4xx that    *)
(* nothing was inserted; and only members are shown the members of a team. *)
TeamAnswersAreTruthful ==
    \A r \in Requests : pc[r] = "done" =>
        LET m == NewMember(r) IN
        /\ out[r].code \in {400, 403, 404, 409} => r \notin applied
        /\ out[r].code = 201 =>
              /\ r \in applied
              /\ \E i \in RowsOf(m.user, m.team) : members[i].role = m.role
        /\ out[r].code = 409 => RowsOf(m.user, m.team) # {}
        /\ out[r].code = 200 /\ req[r].op = "members" =>
              RowsOf(req[r].actor, req[r].team) # {}

(* The creator of a team becomes its owner, as the test of Create has it:  *)
(* once the request that created it is over, he is.                        *)
CreatorIsOwner ==
    \A t \in DOMAIN teams : BeingCreated(t) \/
        \E i \in RowsOf(teams[t], t) : members[i].role = "owner"
===============================================================================
