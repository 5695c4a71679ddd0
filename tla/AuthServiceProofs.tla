--------------------------- MODULE AuthServiceProofs ---------------------------
(***************************************************************************)
(* Theorems about AuthService, for every set of addresses and secrets, any *)
(* number of requests and any bound on the clock.                          *)
(*                                                                         *)
(* The inductive invariant adds to TypeOK that rows are normalised and     *)
(* differ in what the unique key compares (Accounts), that every token     *)
(* agrees with the row of its user (Genuine), and what a request has       *)
(* established at each of its steps (Local).                               *)
(***************************************************************************)
EXTENDS AuthService, TLAPS

Accounts ==
    /\ \A u \in DOMAIN users : Normal[users[u].email] = users[u].email
    /\ \A u, v \in DOMAIN users :
          Collated[users[u].email] = Collated[users[v].email] => u = v

Genuine ==
    \A t \in tokens : /\ users[t.user].password = t.password
                      /\ users[t.user].email = t.email

Local(r) ==
    /\ pc[r] \in {"find", "create", "issue"} =>
          /\ req[r] \in Sent /\ req[r].email \in Spellings
          /\ req[r].password \in Passwords
    /\ req[r] \in Sent => req[r].since <= Len(users)
    /\ pc[r] = "issue" =>
          /\ id[r] \in AccountsOf(req[r].email)
          /\ users[id[r]].password = req[r].password
    /\ pc[r] = "parse" => req[r] \in Use /\ req[r].token \in tokens \cup {NoToken}
    /\ SpeaksForOwner(r) /\ Truthful(r)

IInv == TypeOK /\ Accounts /\ Genuine /\ \A r \in Requests : Local(r)

(* The rows and tokens of one state are kept by the next.                  *)
Kept == /\ Len(users) <= Len(users') /\ DOMAIN users \subseteq DOMAIN users'
        /\ \A u \in DOMAIN users : users'[u] = users[u]
        /\ \A u \in DOMAIN users' \ DOMAIN users : u > Len(users)
        /\ tokens \subseteq tokens'

(* A step that changes neither keeps them.                                 *)
LEMMA KeptUnchanged == ASSUME TypeOK, UNCHANGED <<users, tokens>> PROVE Kept
  BY DEF Kept, TypeOK

(* A normalised address is a spelling.                                     *)
LEMMA NormalType ==
  ASSUME NEW s \in Spellings PROVE Normal[s] \in Spellings /\ Normal[Normal[s]] = Normal[s]
  BY AuthAssumption

(* What a request is, told by its op.                                      *)
LEMMA RequestKind ==
  ASSUME TypeOK, NEW r \in Requests
  PROVE  /\ req[r] \in Sent <=> req[r].op \in {"register", "login"}
         /\ req[r] \in Use <=> req[r].op = "use"
<1>1. req[r] \in Sent \cup Use \cup {NoReq}
  BY DEF TypeOK
<1>2. /\ req[r] \in Sent => req[r].op \in {"register", "login"}
      /\ req[r] \in Use => req[r].op = "use"
      /\ req[r] = NoReq => req[r].op = "none"
  BY DEF Sent, Use, NoReq
<1> QED
  BY <1>1, <1>2

(* Moving on to another step keeps the types of the variables it sets.     *)
LEMMA GotoType ==
  ASSUME TypeOK, NEW r \in Requests, NEW step \in Steps, Goto(r, step)
  PROVE  /\ pc' \in [Requests -> Steps]
         /\ pc'[r] = step
         /\ \A q \in Requests \ {r} : pc'[q] = pc[q]
  BY DEF TypeOK, Goto

(* So does an answer.                                                      *)
LEMMA AnswerType ==
  ASSUME TypeOK, NEW r \in Requests, NEW code \in Nat, NEW user \in Nat,
         Answer(r, code, user)
  PROVE  /\ pc' \in [Requests -> Steps]
         /\ pc'[r] = "done"
         /\ \A q \in Requests \ {r} : pc'[q] = pc[q] /\ out'[q] = out[q]
         /\ out' \in [Requests -> Reply]
         /\ out'[r] = [code |-> code, user |-> user, at |-> now]
<1>1. Goto(r, "done") /\ out' = [out EXCEPT ![r] = [code |-> code, user |-> user, at |-> now]]
  BY DEF Answer
<1>2. [code |-> code, user |-> user, at |-> now] \in Reply
  BY DEF Reply, TypeOK
<1>3. out \in [Requests -> Reply]
  BY DEF TypeOK
<1> QED
  BY <1>1, <1>2, <1>3, GotoType DEF Steps

(* An answer that names no user.                                           *)
LEMMA RefusalType ==
  ASSUME TypeOK, NEW r \in Requests, NEW code \in Nat, Answer(r, code, 0)
  PROVE  /\ pc' \in [Requests -> Steps] /\ pc'[r] = "done"
         /\ \A q \in Requests \ {r} : pc'[q] = pc[q] /\ out'[q] = out[q]
         /\ out' \in [Requests -> Reply] /\ out'[r].code = code
<1>1. 0 \in Nat
  OBVIOUS
<1>2. out'[r] = [code |-> code, user |-> 0, at |-> now]
  BY <1>1, AnswerType
<1> QED
  BY <1>1, <1>2, AnswerType

(* Whatever a request has established, a step that keeps the rows, the     *)
(* tokens and the request's own variables keeps.                           *)
LEMMA LocalFrame ==
  ASSUME IInv, NEW q \in Requests, Kept, users' \in Seq(User),
         pc'[q] = pc[q], req'[q] = req[q], id'[q] = id[q], out'[q] = out[q]
  PROVE  Local(q)'
<1>1. /\ Local(q) /\ users \in Seq(User)
      /\ \A t \in tokens : t.user \in DOMAIN users
  BY DEF IInv, TypeOK
<1>2. \A e : AccountsOf(e) \subseteq AccountsOf(e)'
  BY DEF AccountsOf, Kept
<1>3. \A e : \A u \in AccountsOf(e)' : u \in AccountsOf(e) \/ u > Len(users)
  BY DEF AccountsOf, Kept
<1>4. \A e : \A u \in AccountsOf(e) : users'[u] = users[u]
  BY DEF AccountsOf, Kept
<1>5. req[q] \in Sent => req'[q].since <= Len(users')
  <2>1. Len(users) \in Nat /\ Len(users') \in Nat
    BY <1>1
  <2> QED
    BY <1>1, <2>1 DEF Local, Kept, Sent
<1>6. SpeaksForOwner(q)'
  BY <1>1 DEF Local, SpeaksForOwner, Kept
<1>7. Truthful(q)'
  <2> SUFFICES ASSUME pc[q] = "done", req[q].op \in {"register", "login"}
               PROVE  Truthful(q)'
    BY DEF Truthful
  <2>1. req[q] \in Sent
    BY RequestKind DEF IInv
  <2>2. req[q].since <= Len(users) /\ req[q].since \in Nat /\ Len(users) \in Nat
    BY <1>1, <2>1 DEF Local, Sent
  <2>3. out[q].code = 401 => \A u \in AccountsOf(req[q].email)' :
           u > req[q].since \/ users'[u].password # req[q].password
    <3> SUFFICES ASSUME out[q].code = 401, NEW u \in AccountsOf(req[q].email)'
                 PROVE  u > req[q].since \/ users'[u].password # req[q].password
      OBVIOUS
    <3>1. CASE u \in AccountsOf(req[q].email)
      BY <1>1, <1>4, <3>1 DEF Local, Truthful
    <3>2. CASE u > Len(users)
      <4>1. u \in Nat
        BY DEF AccountsOf
      <4> QED
        BY <2>2, <3>2, <4>1
    <3> QED
      BY <1>3, <3>1, <3>2
  <2> QED
    BY <1>1, <1>2, <1>4, <2>3 DEF Local, Truthful
<1> QED
  BY <1>1, <1>2, <1>4, <1>5, <1>6, <1>7 DEF Local, Kept

(* A step of r that leaves the rows and tokens alone, when it keeps the    *)
(* types and what is known of r.                                           *)
LEMMA QuietStep ==
  ASSUME IInv, NEW r \in Requests, TypeOK', Local(r)', UNCHANGED <<users, tokens>>,
         \A q \in Requests \ {r} : pc'[q] = pc[q] /\ req'[q] = req[q]
                                   /\ id'[q] = id[q] /\ out'[q] = out[q]
  PROVE  IInv'
<1>1. Kept /\ users' \in Seq(User)
  BY KeptUnchanged DEF IInv, TypeOK
<1>2. \A q \in Requests \ {r} : Local(q)'
  BY <1>1, LocalFrame
<1>3. Accounts' /\ Genuine'
  BY DEF IInv, Accounts, Genuine
<1> QED
  BY <1>2, <1>3 DEF IInv

-------------------------------------------------------------------------------
(* Accept keeps the invariant: nothing is known of a new request yet.      *)
LEMMA AcceptStep ==
  ASSUME IInv, NEW r \in Requests, Accept(r) PROVE IInv'
<1>1. pc[r] = "idle" /\ UNCHANGED <<users, tokens, secret, now, id>>
  BY DEF Accept
<1>2. TypeOK
  BY DEF IInv
<1>3. ASSUME NEW i \in Inputs,
             req' = [req EXCEPT ![r] = [op |-> i.op, email |-> i.email,
                                        password |-> i.password,
                                        since |-> Len(users)]],
             \/ Malformed(i) /\ Answer(r, 400, 0)
             \/ ~Malformed(i) /\ Goto(r, "find") /\ UNCHANGED out
      PROVE  IInv'
  <2> DEFINE sent == [op |-> i.op, email |-> i.email, password |-> i.password,
                      since |-> Len(users)]
  <2>1. sent \in Sent /\ sent.since = Len(users) /\ Len(users) \in Nat
        /\ sent.email = i.email /\ sent.password = i.password
        /\ i.email \in Spellings \cup {Bad} /\ i.password \in Passwords \cup {Bad}
    BY <1>2, AuthAssumption DEF TypeOK, Sent, Input
  <2> HIDE DEF sent
  <2>2. /\ req' \in [Requests -> Sent \cup Use \cup {NoReq}] /\ req'[r] = sent
        /\ \A q \in Requests \ {r} : req'[q] = req[q]
    BY <1>2, <1>3, <2>1 DEF TypeOK, sent
  <2>3. CASE Malformed(i) /\ Answer(r, 400, 0)
    <3>1. /\ pc' \in [Requests -> Steps]
          /\ pc'[r] = "done" /\ out'[r].code = 400 /\ out' \in [Requests -> Reply]
          /\ \A q \in Requests \ {r} : pc'[q] = pc[q] /\ out'[q] = out[q]
      <4>1. 400 \in Nat
        OBVIOUS
      <4> QED
        BY <1>2, <2>3, <4>1, RefusalType
    <3>2. TypeOK'
      BY <1>1, <1>2, <2>2, <3>1 DEF TypeOK
    <3>3. Local(r)'
      BY <1>1, <2>1, <2>2, <3>1 DEF Local, SpeaksForOwner, Truthful
    <3> QED
      BY <1>1, <2>2, <3>1, <3>2, <3>3, QuietStep
  <2>4. CASE ~Malformed(i) /\ Goto(r, "find") /\ UNCHANGED out
    <3>1. /\ pc' \in [Requests -> Steps]
          /\ pc'[r] = "find" /\ \A q \in Requests \ {r} : pc'[q] = pc[q]
      BY <1>2, <2>4, GotoType DEF Steps
    <3>2. TypeOK'
      BY <1>1, <1>2, <2>2, <2>4, <3>1 DEF TypeOK
    <3>3. i.email \in Spellings /\ i.password \in Passwords
      BY <2>1, <2>4 DEF Malformed
    <3>4. Local(r)'
      BY <1>1, <2>1, <2>2, <3>1, <3>3 DEF Local, SpeaksForOwner, Truthful
    <3> QED
      BY <1>1, <2>2, <2>4, <3>1, <3>2, <3>4, QuietStep
  <2> QED
    BY <1>3, <2>3, <2>4
<1>4. ASSUME NEW t \in tokens \cup {NoToken},
             req' = [req EXCEPT ![r] = [op |-> "use", token |-> t]],
             Goto(r, "parse"), UNCHANGED out
      PROVE  IInv'
  <2>1. [op |-> "use", token |-> t] \in Use
    BY <1>2 DEF TypeOK, Use
  <2>2. /\ req' \in [Requests -> Sent \cup Use \cup {NoReq}]
        /\ req'[r] \in Use /\ req'[r].token = t /\ req'[r].op = "use"
        /\ \A q \in Requests \ {r} : req'[q] = req[q]
    BY <1>2, <1>4, <2>1 DEF TypeOK
  <2>3. /\ pc' \in [Requests -> Steps]
        /\ pc'[r] = "parse" /\ \A q \in Requests \ {r} : pc'[q] = pc[q]
    BY <1>2, <1>4, GotoType DEF Steps
  <2>4. TypeOK'
    BY <1>1, <1>2, <1>4, <2>2, <2>3 DEF TypeOK
  <2>5. req'[r] \notin Sent
    BY <2>2 DEF Sent
  <2>6. Local(r)'
    BY <1>1, <1>4, <2>2, <2>3, <2>5 DEF Local, SpeaksForOwner, Truthful
  <2> QED
    BY <1>1, <1>4, <2>2, <2>3, <2>4, <2>6, QuietStep
<1> QED
  BY <1>3, <1>4 DEF Accept

(* An answer of r to a registration or a login, when it is a truthful one. *)
LEMMA AnswerStep ==
  ASSUME IInv, NEW r \in Requests, NEW code \in Nat, Answer(r, code, 0),
         req[r] \in Sent, Truthful(r)', UNCHANGED <<users, tokens, secret, now, req, id>>
  PROVE  IInv'
<1>1. TypeOK /\ Local(r)
  BY DEF IInv
<1>2. /\ pc' \in [Requests -> Steps]
      /\ pc'[r] = "done" /\ out'[r].code = code /\ out' \in [Requests -> Reply]
      /\ \A q \in Requests \ {r} : pc'[q] = pc[q] /\ out'[q] = out[q]
  BY <1>1, RefusalType
<1>3. TypeOK'
  BY <1>1, <1>2 DEF TypeOK
<1>4. SpeaksForOwner(r)'
  BY <1>1, <1>2, RequestKind DEF SpeaksForOwner
<1>5. Local(r)'
  BY <1>1, <1>2, <1>4 DEF Local
<1> QED
  BY <1>2, <1>3, <1>5, QuietStep

(* A 409 is truthful when the address has an account.                      *)
LEMMA ConflictStep ==
  ASSUME IInv, NEW r \in Requests, Answer(r, 409, 0), req[r] \in Sent,
         AccountsOf(req[r].email) # {},
         UNCHANGED <<users, tokens, secret, now, req, id>>
  PROVE  IInv'
<1>1. 409 \in Nat /\ 409 \notin {200, 201, 401}
  OBVIOUS
<1>2. out'[r].code = 409
  BY <1>1, RefusalType DEF IInv
<1>3. Truthful(r)'
  BY <1>1, <1>2 DEF Truthful, AccountsOf
<1> QED
  BY <1>1, <1>3, AnswerStep

(* The ids the unique key finds are the accounts of the address.           *)
LEMMA IdsAreAccounts ==
  ASSUME NEW i
  PROVE  IdsOf(EmailOf(i)) = AccountsOf(i.email)
  BY DEF IdsOf, EmailOf, AccountsOf

(* Find keeps it: the row a login found has the password sent.             *)
LEMMA FindStep ==
  ASSUME IInv, NEW r \in Requests, Find(r) PROVE IInv'
<1>1. pc[r] = "find" /\ UNCHANGED <<users, tokens, secret, now, req>>
  BY DEF Find
<1>2. TypeOK /\ Local(r)
  BY DEF IInv
<1>3. /\ req[r] \in Sent /\ req[r].email \in Spellings
      /\ req[r].password \in Passwords /\ req[r].since <= Len(users)
  BY <1>1, <1>2 DEF Local
<1> DEFINE mine == AccountsOf(req[r].email)
<1>4. CASE Answer(r, 409, 0) /\ mine # {} /\ UNCHANGED id
  BY <1>1, <1>3, <1>4, ConflictStep
<1>5. CASE /\ Answer(r, 401, 0) /\ UNCHANGED id
           /\ \A u \in mine : ~Verify(u, req[r].password)
  <2>1. 401 \in Nat /\ 401 \notin {200, 201, 409}
    OBVIOUS
  <2>2. out'[r].code = 401
    BY <1>2, <1>5, <2>1, RefusalType
  <2>3. Truthful(r)'
    BY <1>1, <1>5, <2>1, <2>2 DEF Truthful, AccountsOf, Verify
  <2> QED
    BY <1>1, <1>3, <1>5, <2>1, <2>3, AnswerStep
<1>6. CASE Goto(r, "create") /\ UNCHANGED <<id, out>>
  <2>1. /\ pc' \in [Requests -> Steps]
        /\ pc'[r] = "create" /\ \A q \in Requests \ {r} : pc'[q] = pc[q]
    BY <1>2, <1>6, GotoType DEF Steps
  <2>2. TypeOK'
    BY <1>1, <1>2, <1>6, <2>1 DEF TypeOK
  <2>3. Local(r)'
    BY <1>1, <1>3, <2>1 DEF Local, SpeaksForOwner, Truthful
  <2> QED
    BY <1>1, <1>6, <2>1, <2>2, <2>3, QuietStep
<1>7. ASSUME NEW u \in mine, Verify(u, req[r].password), id' = [id EXCEPT ![r] = u],
             Goto(r, "issue"), UNCHANGED out
      PROVE  IInv'
  <2>1. /\ pc' \in [Requests -> Steps]
        /\ pc'[r] = "issue" /\ \A q \in Requests \ {r} : pc'[q] = pc[q]
    BY <1>2, <1>7, GotoType DEF Steps
  <2>2. /\ id' \in [Requests -> Nat] /\ id'[r] = u
        /\ \A q \in Requests \ {r} : id'[q] = id[q]
    BY <1>2, <1>7 DEF TypeOK, AccountsOf
  <2>3. TypeOK'
    BY <1>1, <1>2, <1>7, <2>1, <2>2 DEF TypeOK
  <2>4. u \in AccountsOf(req[r].email)'
    BY <1>1 DEF AccountsOf
  <2>5. Local(r)'
    BY <1>1, <1>3, <1>7, <2>1, <2>2, <2>4 DEF Local, SpeaksForOwner, Truthful, Verify
  <2> QED
    BY <1>1, <1>7, <2>1, <2>2, <2>3, <2>5, QuietStep
<1> QED
  BY <1>4, <1>5, <1>6, <1>7, IdsAreAccounts DEF Find

(* Create keeps it: the new row has the address and password of r, and no  *)
(* row before it has an address the unique key takes for the same.         *)
LEMMA CreateStep ==
  ASSUME IInv, NEW r \in Requests, Create(r) PROVE IInv'
<1>1. pc[r] = "create" /\ UNCHANGED <<tokens, secret, now, req>>
  BY DEF Create
<1>2. TypeOK /\ Local(r)
  BY DEF IInv
<1>3. /\ req[r] \in Sent /\ req[r].email \in Spellings
      /\ req[r].password \in Passwords /\ req[r].since <= Len(users)
  BY <1>1, <1>2 DEF Local
<1> DEFINE email == EmailOf(req[r])
           row   == [email |-> email, password |-> req[r].password]
<1>4. CASE Answer(r, 409, 0) /\ IdsOf(email) # {} /\ UNCHANGED <<users, id>>
  BY <1>1, <1>3, <1>4, ConflictStep, IdsAreAccounts
<1>5. CASE /\ IdsOf(email) = {} /\ users' = Append(users, row)
           /\ \/ /\ id' = [id EXCEPT ![r] = Len(users')]
                 /\ Goto(r, "issue")
                 /\ UNCHANGED out
              \/ Answer(r, 500, 0) /\ UNCHANGED id
  <2> DEFINE n == Len(users) + 1
  <2>1. row \in User /\ row.email = email /\ Normal[email] = email
        /\ email = Normal[req[r].email] /\ row.password = req[r].password
    BY <1>3, NormalType DEF User, EmailOf
  <2> HIDE DEF row, email
  <2>2. /\ users' \in Seq(User) /\ DOMAIN users' = 1..n /\ users'[n] = row
        /\ Len(users) \in Nat /\ DOMAIN users = 1..Len(users) /\ Len(users') = n
        /\ \A u \in DOMAIN users : users'[u] = users[u]
    BY <1>2, <1>5, <2>1 DEF TypeOK
  <2>3. Kept
    BY <1>1, <2>2 DEF Kept
  <2>4. n \in AccountsOf(req[r].email)' /\ n \in Nat
    BY <1>1, <2>1, <2>2 DEF AccountsOf
  <2>5. Accounts'
    <3>1. \A u \in DOMAIN users : Collated[users[u].email] # Collated[email]
      BY <1>5 DEF IdsOf
    <3>2. /\ \A u \in DOMAIN users : Normal[users[u].email] = users[u].email
          /\ \A u, v \in DOMAIN users :
                Collated[users[u].email] = Collated[users[v].email] => u = v
      BY DEF IInv, Accounts
    <3>3. \A u \in DOMAIN users' : u \in DOMAIN users \/ u = n
      BY <2>2
    <3> HIDE DEF n
    <3> QED
      BY <2>1, <2>2, <3>1, <3>2, <3>3 DEF Accounts
  <2>6. Genuine'
    BY <1>1, <1>2, <2>2 DEF IInv, Genuine, TypeOK
  <2>7. \A t \in tokens' : t.user \in DOMAIN users'
    BY <1>1, <1>2, <2>3 DEF Kept, TypeOK
  <2>8. CASE id' = [id EXCEPT ![r] = Len(users')] /\ Goto(r, "issue") /\ UNCHANGED out
    <3>1. /\ pc' \in [Requests -> Steps] /\ pc'[r] = "issue"
          /\ \A q \in Requests \ {r} : pc'[q] = pc[q]
      BY <1>2, <2>8, GotoType DEF Steps
    <3>2. /\ id' \in [Requests -> Nat] /\ id'[r] = n
          /\ \A q \in Requests \ {r} : id'[q] = id[q]
      BY <1>2, <2>2, <2>4, <2>8 DEF TypeOK
    <3>3. TypeOK'
      BY <1>1, <1>2, <2>2, <2>7, <2>8, <3>1, <3>2 DEF TypeOK
    <3>4. Local(r)'
      <4>1. req'[r].since <= Len(users')
        BY <1>1, <1>3, <2>2 DEF Sent
      <4> HIDE DEF n
      <4> QED
        BY <1>1, <1>3, <2>1, <2>2, <2>4, <3>1, <3>2, <4>1
           DEF Local, SpeaksForOwner, Truthful
    <3>5. \A q \in Requests \ {r} : Local(q)'
      BY <1>1, <2>2, <2>3, <2>8, <3>1, <3>2, LocalFrame
    <3> QED
      BY <2>5, <2>6, <3>3, <3>4, <3>5 DEF IInv
  <2>9. CASE Answer(r, 500, 0) /\ UNCHANGED id
    <3>1. 500 \in Nat /\ 500 \notin {200, 201, 401, 409}
      OBVIOUS
    <3>2. /\ pc' \in [Requests -> Steps] /\ pc'[r] = "done"
          /\ \A q \in Requests \ {r} : pc'[q] = pc[q] /\ out'[q] = out[q]
          /\ out' \in [Requests -> Reply] /\ out'[r].code = 500
      BY <1>2, <2>9, <3>1, RefusalType
    <3>3. TypeOK'
      BY <1>1, <1>2, <2>2, <2>7, <2>9, <3>2 DEF TypeOK
    <3>4. Local(r)'
      <4>1. req'[r].since <= Len(users')
        BY <1>1, <1>3, <2>2 DEF Sent
      <4>2. SpeaksForOwner(r)' /\ Truthful(r)'
        BY <3>1, <3>2 DEF SpeaksForOwner, Truthful
      <4> QED
        BY <3>2, <4>1, <4>2 DEF Local
    <3>5. \A q \in Requests \ {r} : Local(q)'
      BY <1>1, <2>2, <2>3, <2>9, <3>2, LocalFrame
    <3> QED
      BY <2>5, <2>6, <3>3, <3>4, <3>5 DEF IInv
  <2> QED
    BY <1>5, <2>8, <2>9
<1> QED
  BY <1>4, <1>5 DEF Create

(* Issue keeps it: the token agrees with the row that r registered or found.*)
LEMMA IssueStep ==
  ASSUME IInv, NEW r \in Requests, Issue(r) PROVE IInv'
<1> DEFINE tok == [user |-> id[r], email |-> users[id[r]].email, secret |-> secret,
                   issued |-> now, password |-> req[r].password]
<1>1. /\ pc[r] = "issue" /\ tokens' = tokens \cup {tok}
      /\ Answer(r, Success(r), id[r])
      /\ UNCHANGED <<users, secret, now, req, id>>
  BY DEF Issue
<1>2. TypeOK /\ Local(r)
  BY DEF IInv
<1>3. /\ req[r] \in Sent /\ req[r].password \in Passwords
      /\ req[r].since <= Len(users) /\ id[r] \in AccountsOf(req[r].email)
      /\ users[id[r]].password = req[r].password
  BY <1>1, <1>2 DEF Local
<1>4. id[r] \in DOMAIN users /\ users[id[r]] \in User /\ id[r] \in Nat \ {0}
  BY <1>2, <1>3 DEF TypeOK, AccountsOf
<1>5. /\ tok \in Token /\ tok.user = id[r] /\ tok.password = req[r].password
      /\ tok.email = users[id[r]].email
  BY <1>2, <1>3, <1>4 DEF TypeOK, Token, User
<1> HIDE DEF tok
<1>6. Success(r) \in Nat /\ Success(r) \in {200, 201}
  BY DEF Success
<1>7. /\ pc' \in [Requests -> Steps] /\ pc'[r] = "done"
      /\ \A q \in Requests \ {r} : pc'[q] = pc[q] /\ out'[q] = out[q]
      /\ out' \in [Requests -> Reply]
      /\ out'[r].code \in {200, 201} /\ out'[r].user = id[r]
  <2>1. out'[r] = [code |-> Success(r), user |-> id[r], at |-> now]
    BY <1>1, <1>2, <1>4, <1>6, AnswerType
  <2> QED
    BY <1>1, <1>2, <1>4, <1>6, <2>1, AnswerType
<1>8. TypeOK'
  BY <1>1, <1>2, <1>4, <1>5, <1>7 DEF TypeOK
<1>9. Accounts' /\ Genuine'
  BY <1>1, <1>3, <1>5 DEF IInv, Accounts, Genuine
<1>10. Kept
  BY <1>1, <1>2 DEF Kept, TypeOK
<1>11. Local(r)'
  <2>1. SpeaksForOwner(r)'
    BY <1>1, <1>2, <1>3, RequestKind DEF SpeaksForOwner
  <2>2. Truthful(r)'
    BY <1>1, <1>3, <1>7 DEF Truthful, AccountsOf
  <2> QED
    BY <1>1, <1>3, <1>7, <2>1, <2>2 DEF Local
<1>12. \A q \in Requests \ {r} : Local(q)'
  BY <1>1, <1>2, <1>7, <1>10, LocalFrame DEF TypeOK
<1> QED
  BY <1>8, <1>9, <1>11, <1>12 DEF IInv

(* Parse keeps it: a token it accepts is one that was given out.           *)
LEMMA ParseStep ==
  ASSUME IInv, NEW r \in Requests, Parse(r) PROVE IInv'
<1> DEFINE t == req[r].token
           code == IF Valid(t) THEN 200 ELSE 401
           user == IF Valid(t) THEN t.user ELSE 0
<1>1. /\ pc[r] = "parse" /\ Answer(r, code, user)
      /\ UNCHANGED <<users, tokens, secret, now, req, id>>
  BY DEF Parse
<1>2. TypeOK /\ Local(r)
  BY DEF IInv
<1>3. req[r] \in Use /\ t \in tokens \cup {NoToken}
  BY <1>1, <1>2 DEF Local
<1>4. Valid(t) => /\ t \in tokens /\ t \in Token /\ t.user \in Nat
                  /\ users[t.user].password = t.password
                  /\ users[t.user].email = t.email
                  /\ now < t.issued + Ttl + Leeway
  BY <1>2, <1>3 DEF Valid, IInv, Genuine, TypeOK, Token
<1>5. code \in Nat /\ user \in Nat /\ (code = 200 => Valid(t) /\ user = t.user)
  <2>1. t.user \in Nat \/ ~Valid(t)
    BY <1>4
  <2> HIDE DEF t
  <2> QED
    BY <2>1
<1> HIDE DEF code, user
<1>6. /\ pc' \in [Requests -> Steps] /\ pc'[r] = "done"
      /\ \A q \in Requests \ {r} : pc'[q] = pc[q] /\ out'[q] = out[q]
      /\ out' \in [Requests -> Reply]
      /\ out'[r].code = code /\ out'[r].user = user /\ out'[r].at = now
  <2>1. out'[r] = [code |-> code, user |-> user, at |-> now]
    BY <1>1, <1>2, <1>5, AnswerType
  <2> QED
    BY <1>1, <1>2, <1>5, <2>1, AnswerType
<1>7. TypeOK'
  BY <1>1, <1>2, <1>6 DEF TypeOK
<1>8. SpeaksForOwner(r)'
  BY <1>1, <1>4, <1>5, <1>6 DEF SpeaksForOwner
<1>9. Truthful(r)' /\ req'[r] \notin Sent
  BY <1>1, <1>2, <1>3, RequestKind DEF Truthful
<1>10. Local(r)'
  BY <1>6, <1>8, <1>9 DEF Local
<1> QED
  BY <1>1, <1>6, <1>7, <1>10, QuietStep

(* A failed call keeps it: a 500 promises nothing.                         *)
LEMMA DBErrorStep ==
  ASSUME IInv, NEW r \in Requests, DBError(r) PROVE IInv'
<1>1. /\ pc[r] \in {"find", "create"} /\ Answer(r, 500, 0)
      /\ UNCHANGED <<users, tokens, secret, now, req, id>>
  BY DEF DBError
<1>2. req[r] \in Sent
  BY <1>1 DEF IInv, Local
<1>3. 500 \in Nat /\ 500 \notin {200, 201, 401, 409}
  OBVIOUS
<1>4. out'[r].code = 500
  BY <1>1, <1>3, RefusalType DEF IInv
<1>5. Truthful(r)'
  BY <1>3, <1>4 DEF Truthful
<1> QED
  BY <1>1, <1>2, <1>3, <1>5, AnswerStep

(* Restart keeps it: rows and tokens outlive the process, and a request    *)
(* that died with it has no answer.                                        *)
LEMMA RestartStep ==
  ASSUME IInv, Restart PROVE IInv'
<1>1. /\ pc'  = [r \in Requests |-> IF r \in InFlight THEN "done" ELSE pc[r]]
      /\ out' = [r \in Requests |-> IF r \in InFlight THEN Lost ELSE out[r]]
      /\ secret' \in Secrets /\ UNCHANGED <<users, tokens, now, req, id>>
  BY DEF Restart
<1>2. TypeOK
  BY DEF IInv
<1>3. Lost \in Reply /\ Lost.code = 1
  BY AuthAssumption DEF Lost, Reply
<1>4. TypeOK'
  <2>1. pc' \in [Requests -> Steps]
    BY <1>1, <1>2 DEF TypeOK, Steps
  <2>2. out' \in [Requests -> Reply]
    BY <1>1, <1>2, <1>3 DEF TypeOK
  <2>3. \A t \in tokens : t.user \in DOMAIN users
    BY <1>2 DEF TypeOK
  <2> QED
    BY <1>1, <1>2, <2>1, <2>2, <2>3 DEF TypeOK
<1>5. Accounts' /\ Genuine' /\ Kept
  BY <1>1, <1>2, KeptUnchanged DEF IInv, Accounts, Genuine
<1>6. ASSUME NEW q \in Requests PROVE Local(q)'
  <2>1. CASE q \in InFlight
    <3>1. pc'[q] = "done" /\ out'[q].code = 1
      BY <1>1, <1>3, <2>1
    <3>2. SpeaksForOwner(q)' /\ Truthful(q)'
      BY <3>1 DEF SpeaksForOwner, Truthful
    <3>3. req[q] \in Sent => req[q].since <= Len(users)
      BY DEF IInv, Local
    <3> QED
      BY <1>1, <3>1, <3>2, <3>3 DEF Local
  <2>2. CASE q \notin InFlight
    BY <1>1, <1>2, <1>5, <2>2, LocalFrame DEF TypeOK
  <2> QED
    BY <2>1, <2>2
<1> QED
  BY <1>4, <1>5, <1>6 DEF IInv

-------------------------------------------------------------------------------
(* The initial states satisfy the inductive invariant.                     *)
LEMMA InitInvariant == Init => IInv
<1> SUFFICES ASSUME Init PROVE IInv
  OBVIOUS
<1>1. TypeOK
  <2>1. NoAnswer \in Reply /\ now \in 0..MaxTime /\ users \in Seq(User)
    BY AuthAssumption DEF Init, Reply, NoAnswer
  <2> QED
    BY <2>1 DEF Init, TypeOK, Steps
<1>2. Accounts /\ Genuine
  BY DEF Init, Accounts, Genuine
<1>3. ASSUME NEW r \in Requests PROVE Local(r)
  <2>1. pc[r] = "idle" /\ req[r] = NoReq
    BY DEF Init
  <2>2. req[r] \notin Sent
    BY <2>1 DEF Sent, NoReq
  <2> QED
    BY <2>1, <2>2 DEF Local, SpeaksForOwner, Truthful
<1> QED
  BY <1>1, <1>2, <1>3 DEF IInv

(* Every step keeps it.                                                    *)
LEMMA NextInvariant == IInv /\ [Next]_vars => IInv'
<1> SUFFICES ASSUME IInv, [Next]_vars PROVE IInv'
  OBVIOUS
<1>1. ASSUME NEW r \in Requests, Accept(r) PROVE IInv'
  BY <1>1, AcceptStep
<1>2. ASSUME NEW r \in Requests, Find(r) PROVE IInv'
  BY <1>2, FindStep
<1>3. ASSUME NEW r \in Requests, Create(r) PROVE IInv'
  BY <1>3, CreateStep
<1>4. ASSUME NEW r \in Requests, Issue(r) PROVE IInv'
  BY <1>4, IssueStep
<1>5. ASSUME NEW r \in Requests, Parse(r) PROVE IInv'
  BY <1>5, ParseStep
<1>6. ASSUME NEW r \in Requests, DBError(r) PROVE IInv'
  BY <1>6, DBErrorStep
<1>7. CASE Restart
  BY <1>7, RestartStep
<1>8. ASSUME UNCHANGED <<users, tokens, secret, pc, req, id, out>>, now' \in 0..MaxTime
      PROVE  IInv'
  <2>1. TypeOK' /\ Accounts' /\ Genuine'
    BY <1>8 DEF IInv, TypeOK, Accounts, Genuine
  <2>2. \A q \in Requests : Local(q)'
    BY <1>8, KeptUnchanged, LocalFrame DEF IInv, TypeOK
  <2> QED
    BY <2>1, <2>2 DEF IInv
<1>9. CASE Tick
  <2>1. now' \in 0..MaxTime
    BY <1>9, AuthAssumption DEF Tick, IInv, TypeOK
  <2> QED
    BY <1>8, <1>9, <2>1 DEF Tick
<1>10. CASE UNCHANGED vars
  BY <1>8, <1>10 DEF vars, IInv, TypeOK
<1> QED
  BY <1>1, <1>2, <1>3, <1>4, <1>5, <1>6, <1>7, <1>9, <1>10 DEF Next, Serve

(* So it holds in every reachable state.                                   *)
THEOREM Invariance == Spec => []IInv
  BY InitInvariant, NextInvariant, PTL DEF Spec

(* The variables keep their types, and tokens name users who exist.        *)
THEOREM AuthTypes == Spec => []TypeOK
<1>1. IInv => TypeOK
  BY DEF IInv
<1> QED
  BY <1>1, Invariance, PTL

(* An address has one account, however registrations of it overlap.        *)
THEOREM OneAccountForAll == Spec => []OneAccountPerAddress
<1>1. IInv => OneAccountPerAddress
  BY DEF IInv, Accounts, OneAccountPerAddress
<1> QED
  BY <1>1, Invariance, PTL

(* A request is let through only for the user whose password got the token.*)
THEOREM TokensSpeakForOwners == Spec => []TokenSpeaksForOwner
<1>1. IInv => TokenSpeaksForOwner
  BY DEF IInv, Local, TokenSpeaksForOwner
<1> QED
  BY <1>1, Invariance, PTL

(* The answers to registrations and logins say what happened.              *)
THEOREM AuthAnswersHold == Spec => []AuthAnswersAreTruthful
<1>1. IInv => AuthAnswersAreTruthful
  BY DEF IInv, Local, AuthAnswersAreTruthful
<1> QED
  BY <1>1, Invariance, PTL
===============================================================================
