------------------------------ MODULE AuthService ------------------------------
(***************************************************************************)
(* Accounts and tokens: a client registers, logs in, and sends the token   *)
(* it was given with its later requests.  A step is one call to MySQL with *)
(* the Go code up to the next one.  The process may be restarted, with     *)
(* another secret; rows and tokens outlive it.                             *)
(*                                                                         *)
(* Sources: internal/service/auth.go, internal/auth/jwt.go,                *)
(* internal/middleware/auth.go, internal/repository/user_repo.go           *)
(***************************************************************************)
EXTENDS Naturals, Sequences

CONSTANTS
    Spellings,  \* addresses as clients write them
    Normal,     \* a spelling, trimmed and in lower case
    Collated,   \* what the collation of column email compares of a spelling
    Passwords,  \* passwords, each the 72 bytes at most that bcrypt reads
    Bad,        \* an empty field, or another that Validate rejects
    Secrets,    \* the values JWT_SECRET may have at a start
    Ttl,        \* JWT_TTL
    Leeway,     \* the thirty seconds of Parse
    MaxTime,    \* bound on the clock
    Requests,   \* one element for each request that may arrive
    Inputs      \* the registrations and logins clients send, a subset of Input

Input == [op : {"register", "login"}, email : Spellings \cup {Bad},
          password : Passwords \cup {Bad}]

ASSUME AuthAssumption ==
    /\ Normal \in [Spellings -> Spellings] /\ DOMAIN Collated = Spellings
    /\ \A s \in Spellings : Normal[Normal[s]] = Normal[s]
    /\ Bad \notin Spellings \cup Passwords
    /\ Ttl \in Nat \ {0} /\ Leeway \in Nat /\ MaxTime \in Nat
    /\ Inputs \subseteq Input

VARIABLES
    users,      \* rows of table users; the id is the position
    tokens,     \* the tokens that were given out
    secret,     \* the secret of the running process
    now,        \* the time
    pc,         \* the call a request is about to make
    req,        \* what the client asked; since is auxiliary, the users by then
    id,         \* the user a registration or a login is about
    out         \* the answer; at is auxiliary, the time of it

vars == <<users, tokens, secret, now, pc, req, id, out>>

User  == [email : Spellings, password : Passwords]
Token == [user : Nat \ {0}, email : Spellings, secret : Secrets, issued : 0..MaxTime,
          password : Passwords]     \* password is auxiliary: what was presented

Steps    == {"idle", "find", "create", "issue", "parse", "done"}
NoToken  == [user |-> 0]            \* a header without a token that was given out
NoReq    == [op |-> "none"]
NoAnswer == [code |-> 0, user |-> 0, at |-> 0]
Lost     == [code |-> 1, user |-> 0, at |-> 0]      \* the process died: no answer

InFlight == {r \in Requests : pc[r] \notin {"idle", "done"}}

Init ==
    /\ users = <<>> /\ tokens = {}
    /\ secret \in Secrets /\ now = 0
    /\ pc  = [r \in Requests |-> "idle"]
    /\ req = [r \in Requests |-> NoReq]
    /\ id  = [r \in Requests |-> 0]
    /\ out = [r \in Requests |-> NoAnswer]

-------------------------------------------------------------------------------
Goto(r, step) == pc' = [pc EXCEPT ![r] = step]

Answer(r, code, user) ==
    /\ Goto(r, "done")
    /\ out' = [out EXCEPT ![r] = [code |-> code, user |-> user, at |-> now]]

MutEmailOfRaw(i) == i.email             \* mutant: the address is not normalised
MutEmailOfRegister(i) ==                \* mutant: a login does not normalise it
    IF i.op = "login" THEN i.email ELSE Normal[i.email]
EmailOf(i) == Normal[i.email]

(* The ids the unique key of column email has for an address: one at most. *)
IdsOf(email) == {u \in DOMAIN users : Collated[users[u].email] = Collated[email]}

MutMalformedEmail(i) == i.email = Bad   \* mutant: only the address is validated
Malformed(i) == Bad \in {i.email, i.password}

Accept(r) ==
    /\ pc[r] = "idle"
    /\ \/ \E i \in Inputs :
            /\ req' = [req EXCEPT ![r] = [op |-> i.op, email |-> i.email,
                                          password |-> i.password,
                                          since |-> Len(users)]]
            /\ \/ Malformed(i) /\ Answer(r, 400, 0)
               \/ ~Malformed(i) /\ Goto(r, "find") /\ UNCHANGED out
       \/ \E t \in tokens \cup {NoToken} :
            /\ req' = [req EXCEPT ![r] = [op |-> "use", token |-> t]]
            /\ Goto(r, "parse")
            /\ UNCHANGED out
    /\ UNCHANGED <<users, tokens, secret, now, id>>

(* FindByEmail, and for a login the comparison with the stored hash.       *)
Verify(u, password) == users[u].password = password

Find(r) ==
    /\ pc[r] = "find"
    /\ LET ids == IdsOf(EmailOf(req[r])) IN
        \/ /\ req[r].op = "register" /\ ids # {}
           /\ Answer(r, 409, 0)
           /\ UNCHANGED id
        \/ /\ req[r].op = "register" /\ ids = {}
           /\ Goto(r, "create")
           /\ UNCHANGED <<id, out>>
        \/ /\ req[r].op = "login"
           /\ \A u \in ids : ~Verify(u, req[r].password)
           /\ Answer(r, 401, 0)
           /\ UNCHANGED id
        \/ /\ req[r].op = "login"
           /\ \E u \in ids : Verify(u, req[r].password) /\ id' = [id EXCEPT ![r] = u]
           /\ Goto(r, "issue")
           /\ UNCHANGED out
    /\ UNCHANGED <<users, tokens, secret, now, req>>

MutCreateReturnsFound(r) ==             \* mutant: a duplicate counts as the caller's row
    /\ pc[r] = "create"
    /\ users' = IF IdsOf(EmailOf(req[r])) # {} THEN users
                ELSE Append(users, [email |-> EmailOf(req[r]),
                                    password |-> req[r].password])
    /\ \E u \in DOMAIN users' :
          /\ Collated[users'[u].email] = Collated[EmailOf(req[r])]
          /\ id' = [id EXCEPT ![r] = u]
    /\ Goto(r, "issue")
    /\ UNCHANGED <<tokens, secret, now, req, out>>

(* The INSERT, which may take effect although its answer is lost: a 500.   *)
Create(r) ==
    /\ pc[r] = "create"
    /\ \/ /\ IdsOf(EmailOf(req[r])) # {}
          /\ Answer(r, 409, 0)
          /\ UNCHANGED <<users, id>>
       \/ /\ IdsOf(EmailOf(req[r])) = {}
          /\ users' = Append(users, [email |-> EmailOf(req[r]),
                                     password |-> req[r].password])
          /\ \/ /\ id' = [id EXCEPT ![r] = Len(users')]
                /\ Goto(r, "issue")
                /\ UNCHANGED out
             \/ Answer(r, 500, 0) /\ UNCHANGED id
    /\ UNCHANGED <<tokens, secret, now, req>>

Success(r) == IF req[r].op = "register" THEN 201 ELSE 200

Issue(r) ==
    /\ pc[r] = "issue"
    /\ tokens' = tokens \cup
          {[user |-> id[r], email |-> users[id[r]].email, secret |-> secret,
            issued |-> now, password |-> req[r].password]}
    /\ Answer(r, Success(r), id[r])
    /\ UNCHANGED <<users, secret, now, req, id>>

(* TokenManager.Parse.                                                     *)
Valid(t) == /\ t # NoToken
            /\ t.secret = secret
            /\ now < t.issued + Ttl + Leeway

(* RequireAuth: a 401, or the handler runs for the user of the token.      *)
Parse(r) ==
    /\ pc[r] = "parse"
    /\ LET t == req[r].token IN
        IF Valid(t) THEN Answer(r, 200, t.user) ELSE Answer(r, 401, 0)
    /\ UNCHANGED <<users, tokens, secret, now, req, id>>

-------------------------------------------------------------------------------
(* A call to MySQL fails without effect.                                   *)
DBError(r) ==
    /\ pc[r] \in {"find", "create"}
    /\ Answer(r, 500, 0)
    /\ UNCHANGED <<users, tokens, secret, now, req, id>>

(* The process ends and starts again, with the secret of its environment.  *)
Restart ==
    /\ pc'  = [r \in Requests |-> IF r \in InFlight THEN "done" ELSE pc[r]]
    /\ out' = [r \in Requests |-> IF r \in InFlight THEN Lost ELSE out[r]]
    /\ secret' \in Secrets
    /\ UNCHANGED <<users, tokens, now, req, id>>

Tick ==
    /\ now < MaxTime
    /\ now' = now + 1
    /\ UNCHANGED <<users, tokens, secret, pc, req, id, out>>

Serve(r) == Find(r) \/ Create(r) \/ Issue(r) \/ Parse(r)

Next ==
    \/ \E r \in Requests : Accept(r) \/ Serve(r) \/ DBError(r)
    \/ Restart
    \/ Tick

Spec == Init /\ [][Next]_vars

-------------------------------------------------------------------------------
Reply == [code : Nat, user : Nat, at : 0..MaxTime]
Sent == [op : {"register", "login"}, email : Spellings \cup {Bad},
         password : Passwords \cup {Bad}, since : Nat]
Use  == [op : {"use"}, token : Token \cup {NoToken}]

(* Every variable has its type, and a token names a user who exists.       *)
TypeOK ==
    /\ users \in Seq(User)
    /\ tokens \subseteq Token
    /\ \A t \in tokens : t.user \in DOMAIN users
    /\ secret \in Secrets /\ now \in 0..MaxTime
    /\ pc \in [Requests -> Steps]
    /\ req \in [Requests -> Sent \cup Use \cup {NoReq}]
    /\ id \in [Requests -> Nat]
    /\ out \in [Requests -> Reply]

(* However they are spelled and whichever registrations overlap, there is  *)
(* one account for an address: FindByEmail can find no other user's row.   *)
OneAccountPerAddress ==
    \A u, v \in DOMAIN users :
        Collated[Normal[users[u].email]] = Collated[Normal[users[v].email]] => u = v

(* The request got through with a live token of a user whose password was  *)
(* presented for it.                                                       *)
SpeaksForOwner(r) ==
    (pc[r] = "done" /\ req[r].op = "use" /\ out[r].code = 200) =>
        LET t == req[r].token IN
        /\ t \in tokens /\ out[r].user = t.user
        /\ users[t.user].password = t.password
        /\ users[t.user].email = t.email
        /\ out[r].at < t.issued + Ttl + Leeway

(* RequireAuth lets a request through for a user only with a token that was*)
(* given, not longer ago than a token lives, to a client who presented the *)
(* password of that user: also when two registrations of the address raced,*)
(* when an answer was lost, and after restarts with other secrets.         *)
TokenSpeaksForOwner == \A r \in Requests : SpeaksForOwner(r)

AccountsOf(email) ==
    {u \in DOMAIN users : Collated[users[u].email] = Collated[Normal[email]]}

(* What the answer to r says of the accounts is so.                        *)
Truthful(r) ==
    (pc[r] = "done" /\ req[r].op \in {"register", "login"}) =>
        /\ out[r].code \in {200, 201} =>
              /\ out[r].user \in AccountsOf(req[r].email)
              /\ users[out[r].user].password = req[r].password
        /\ out[r].code = 409 => AccountsOf(req[r].email) # {}
        /\ out[r].code = 401 => \A u \in AccountsOf(req[r].email) :
              u > req[r].since \/ users[u].password # req[r].password

(* A 201 or a 200 is for the account of the address and the password sent, *)
(* a 409 because the address has an account.  A login that gets a 401 came *)
(* before the account or had another password: who has registered can log  *)
(* in, in any spelling of the address, even if the answer to his           *)
(* registration never arrived.                                             *)
AuthAnswersAreTruthful == \A r \in Requests : Truthful(r)
===============================================================================
