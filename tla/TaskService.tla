----------------------------- MODULE TaskService -----------------------------
(***************************************************************************)
(* The task service: create, get, list, update, delete and history.  A     *)
(* request is served by a goroutine of its own; a step of the model is one *)
(* call to MySQL or Redis together with the Go code up to the next call.   *)
(*                                                                         *)
(* An UPDATE holds the row lock until its transaction ends, so the open    *)
(* transactions are the requests whose pc is "entries" and their writes    *)
(* stay in loc until the commit.  Reads outside a transaction see the      *)
(* committed rows.                                                         *)
(*                                                                         *)
(* Sources: internal/handler/task.go, internal/service/task_service.go,    *)
(* task_cache.go and transactor.go, internal/repository/{task,history}_repo*)
(***************************************************************************)
EXTENDS TaskLedger

CONSTANTS
    Requests,       \* one element for each request that may arrive
    Inputs,         \* the requests clients send, a subset of Input
    InitialMembers, \* table team_members when the system starts
    InitialTasks    \* table tasks then

Input ==
    [op : {"create"}, actor : Users, team : Teams \cup {Zero}, body : Body]
      \cup [op : {"update"}, actor : Users, task : Nat, body : Body]
      \cup [op : {"get", "delete", "history"}, actor : Users, task : Nat]
      \cup [op : {"list"}, actor : Users, filter : Filter]

ASSUME ServiceAssumption ==
    /\ Inputs \subseteq Input
    /\ InitialMembers \subseteq Users \X Teams
    /\ InitialTasks \in Seq(Row)

(* The variables tasks, history, created and raced are those of TaskLedger.*)
VARIABLES
    members,    \* table team_members: the pairs of a user and a team
    cache,      \* Redis: the list pages, by key
    pc,         \* the call a request is about to make
    req,        \* what the client asked
    loc,        \* the local variables of a request
    out,        \* the answer
    applied,    \* auxiliary: requests whose write took effect
    overtaken,  \* auxiliary: list requests whose reads straddle a write
    leaked      \* auxiliary: keys that missed an invalidation

tables == <<tasks, history, created, members>>
audit  == <<applied, raced, overtaken, leaked>>
vars   == <<tables, cache, pc, req, loc, out, audit>>

Steps   == {"idle", "find", "member", "insert", "update", "entries", "delete",
            "invalidate", "history", "lookup", "rows", "count", "store", "done"}
Page    == [for : Filter, items : SUBSET [id : Nat, row : Row], total : Nat]
NoWork  == [seen |-> Null, row |-> Null, todo |-> {}, entries |-> <<>>,
            keys |-> {}, page |-> Null]
NoAnswer == [code |-> 0, body |-> Null]
Lost     == [code |-> 1, body |-> Null]    \* the process died: no answer

InFlight == {r \in Requests : pc[r] \notin {"idle", "done"}}

Init ==
    /\ tasks = InitialTasks /\ created = InitialTasks
    /\ history = [t \in DOMAIN InitialTasks |-> <<>>]
    /\ members = InitialMembers
    /\ cache = <<>>
    /\ pc  = [r \in Requests |-> "idle"]
    /\ req = [r \in Requests |-> Null]
    /\ loc = [r \in Requests |-> NoWork]
    /\ out = [r \in Requests |-> NoAnswer]
    /\ applied = {} /\ raced = {} /\ overtaken = {} /\ leaked = {}

-------------------------------------------------------------------------------
Goto(r, step) == pc' = [pc EXCEPT ![r] = step]

Answer(r, code, body) ==
    /\ Goto(r, "done")
    /\ out' = [out EXCEPT ![r] = [code |-> code, body |-> body]]
    /\ loc' = [loc EXCEPT ![r] = NoWork]

(* The team whose members may make the request.                            *)
TeamOf(r) == CASE req[r].op = "create" -> req[r].team
               [] req[r].op = "list"   -> req[r].filter.team
               [] OTHER                -> loc[r].seen.team

MutIsMemberNotForHistory(r) ==          \* mutant: History does not check
    req[r].op = "history" \/ <<req[r].actor, TeamOf(r)>> \in members
IsMember(r) == <<req[r].actor, TeamOf(r)>> \in members

(* Validation, in the handler or first thing in the service.               *)
Malformed(i) == \/ i.op = "create" /\ ~CreateOK(i.team, i.body)
                \/ i.op = "update" /\ ~PatchOK(i.body)
                \/ i.op = "list"   /\ i.filter.team = Zero
                \/ i.op \notin {"create", "list"} /\ i.task = 0

Accept(r) ==
    /\ pc[r] = "idle"
    /\ \E i \in Inputs :
        /\ req' = [req EXCEPT ![r] = i]
        /\ \/ Malformed(i) /\ Answer(r, 400, Null)
           \/ /\ ~Malformed(i)
              /\ Goto(r, IF i.op \in {"create", "list"} THEN "member" ELSE "find")
              /\ UNCHANGED <<loc, out>>
    /\ UNCHANGED <<tables, cache, audit>>

(* FindByID does not look at deleted_at: a deleted task is found.          *)
Find(r) ==
    /\ pc[r] = "find"
    /\ \/ /\ req[r].task \notin DOMAIN tasks
          /\ Answer(r, 404, Null)
       \/ /\ req[r].task \in DOMAIN tasks
          /\ loc' = [loc EXCEPT ![r].seen = tasks[req[r].task]]
          /\ Goto(r, "member")
          /\ UNCHANGED out
    /\ UNCHANGED <<tables, cache, req, audit>>

AfterMember == [create |-> "insert", update |-> "update", delete |-> "delete",
                history |-> "history", list |-> "lookup"]

Member(r) ==
    /\ pc[r] = "member"
    /\ \/ ~IsMember(r) /\ Answer(r, 403, Null)
       \/ /\ IsMember(r)
          /\ \/ req[r].op = "get" /\ Answer(r, 200, [task |-> loc[r].seen])
             \/ /\ req[r].op # "get"
                /\ Goto(r, AfterMember[req[r].op])
                /\ UNCHANGED <<loc, out>>
    /\ UNCHANGED <<tables, cache, req, audit>>

-------------------------------------------------------------------------------
(* What follows a write of a row that took effect: the invalidation, or a  *)
(* 500 when the connection broke after the server had committed.           *)
Written(r, row) ==
    /\ applied' = applied \cup {r}
    /\ overtaken' = overtaken \cup
          {q \in Requests : pc[q] \in {"count", "store"} /\ TeamOf(q) = row.team}
    /\ \/ /\ Goto(r, "invalidate")
          /\ loc' = [loc EXCEPT ![r] =
                 [NoWork EXCEPT !.row = row, !.keys = InvalidateKeys(row.team)]]
          /\ UNCHANGED <<out, leaked>>
       \/ /\ Answer(r, 500, Null)
          /\ leaked' = leaked \cup InvalidateKeys(row.team)

Insert(r) ==
    /\ pc[r] = "insert"
    /\ LET row == NewRow(req[r].team, req[r].actor, req[r].body) IN
        \/ /\ ~ForeignKeyOK(row.val)
           /\ Answer(r, 500, Null)
           /\ UNCHANGED <<tables, audit>>
        \/ /\ ForeignKeyOK(row.val)
           /\ tasks'   = Append(tasks, row)
           /\ created' = Append(created, row)
           /\ history' = Append(history, <<>>)
           /\ Written(r, row)
           /\ UNCHANGED <<members, raced>>
    /\ UNCHANGED <<cache, req>>

(* No other request's transaction holds the lock of the row: WithinTx ends *)
(* it with a COMMIT, or with a ROLLBACK on any error.                      *)
MutRowFreeNoRollback(r) ==              \* mutant: a failed transaction stays open
    \A q \in Requests \ {r} :
        pc[q] = "entries" \/ (out[q].code = 500 /\ req[q].op = "update") =>
            req[q].task # req[r].task
RowFree(r) ==
    \A q \in Requests \ {r} : pc[q] = "entries" => req[q].task # req[r].task

MutUpdateTxFromSeen(r) ==               \* mutant: it writes the whole row read before
    /\ pc[r] = "update" /\ RowFree(r) /\ Live(tasks[req[r].task])
    /\ LET patch == BuildPatch(req[r].body)
           new   == Patched(loc[r].seen, patch)
       IN  loc' = [loc EXCEPT ![r].row  = new,
                              ![r].todo = Recorded(loc[r].seen, new, patch)]
    /\ Goto(r, "entries")
    /\ UNCHANGED <<tables, cache, req, out, audit>>

(* The rows an UPDATE reports as changed: none if its WHERE finds no live  *)
(* row, and perhaps none if the row it finds is as it should be already,   *)
(* updated_at (in seconds) included.                                       *)
Affected(row, new) == CASE ~Live(row) -> {0}
                        [] new # row  -> {1}
                        [] OTHER      -> {0, 1}

MutGone(row, n) == n = 0                \* mutant: the row is not read again
Gone(row, n) == n = 0 /\ row.deleted

(* BEGIN, the UPDATE and the SELECT of the row it leaves.  The entries to  *)
(* insert are computed from the row read before the transaction and that   *)
(* one.                                                                    *)
UpdateTx(r) ==
    /\ pc[r] = "update"
    /\ RowFree(r)
    /\ LET row   == tasks[req[r].task]
           patch == BuildPatch(req[r].body)
           new   == IF Live(row) THEN Patched(row, patch) ELSE row
       IN  \/ /\ Live(row) /\ ~ForeignKeyOK(new.val)
              /\ Answer(r, 500, Null)
           \/ /\ ~Live(row) \/ ForeignKeyOK(new.val)
              /\ \E n \in Affected(row, new) :
                    \/ Gone(row, n) /\ Answer(r, 404, Null)
                    \/ /\ ~Gone(row, n)
                       /\ loc' = [loc EXCEPT
                             ![r].row  = new,
                             ![r].todo = Recorded(loc[r].seen, new, patch)]
                       /\ Goto(r, "entries")
                       /\ UNCHANGED out
    /\ UNCHANGED <<tables, cache, req, audit>>

MutInsertHistoryNoTx(r) ==              \* mutant: the entries bypass the transaction
    /\ pc[r] = "entries"
    /\ \E f \in loc[r].todo :
        /\ loc' = [loc EXCEPT ![r].todo = @ \ {f}]
        /\ history' = [history EXCEPT ![req[r].task] = Append(@,
                 [field |-> f, by |-> req[r].actor,
                  old |-> loc[r].seen.val[f], new |-> loc[r].row.val[f]])]
    /\ UNCHANGED <<tasks, created, members, cache, pc, req, out, audit>>

InsertHistory(r) ==
    /\ pc[r] = "entries"
    /\ \E f \in loc[r].todo :
        /\ \A g \in loc[r].todo : FieldRank[f] <= FieldRank[g]
        /\ loc' = [loc EXCEPT
              ![r].todo    = @ \ {f},
              ![r].entries = Append(@,
                 [field |-> f, by |-> req[r].actor,
                  old |-> loc[r].seen.val[f], new |-> loc[r].row.val[f]])]
    /\ UNCHANGED <<tables, cache, pc, req, out, audit>>

Commit(r) ==
    /\ pc[r] = "entries" /\ loc[r].todo = {}
    /\ LET t == req[r].task IN
        /\ tasks'   = [tasks EXCEPT ![t] = loc[r].row]
        /\ history' = [history EXCEPT ![t] = @ \o loc[r].entries]
        /\ raced'   = IF loc[r].seen = tasks[t] THEN raced ELSE raced \cup {t}
        /\ Written(r, loc[r].row)
    /\ UNCHANGED <<cache, req, created, members>>

SoftDelete(r) ==
    /\ pc[r] = "delete"
    /\ RowFree(r)
    /\ LET t == req[r].task IN
        \/ /\ ~Live(tasks[t])
           /\ Answer(r, 404, Null)
           /\ UNCHANGED <<tables, audit>>
        \/ /\ Live(tasks[t])
           /\ tasks' = [tasks EXCEPT ![t].deleted = TRUE]
           /\ Written(r, tasks[t])
           /\ UNCHANGED <<history, created, members, raced>>
    /\ UNCHANGED <<cache, req>>

ReadHistory(r) ==
    /\ pc[r] = "history"
    /\ Answer(r, 200, [history |-> history[req[r].task]])
    /\ UNCHANGED <<tables, cache, req, audit>>

-------------------------------------------------------------------------------
Without(k) == [l \in DOMAIN cache \ {k} |-> cache[l]]

Success(r) == CASE req[r].op = "create" -> 201
                [] req[r].op = "update" -> 200
                [] req[r].op = "delete" -> 204

Result(r) == IF req[r].op = "delete" THEN Null ELSE [task |-> loc[r].row]

(* One DEL; the keys are taken in the order of the two loops, and the last *)
(* one is followed by the answer.                                          *)
InvalidateKey(r) ==
    /\ pc[r] = "invalidate"
    /\ \E k \in loc[r].keys :
        /\ \A l \in loc[r].keys : KeyBefore(k, l)
        /\ cache'  = Without(k)
        /\ leaked' = leaked \ {k}
        /\ \/ loc[r].keys = {k} /\ Answer(r, Success(r), Result(r))
           \/ /\ loc[r].keys # {k}
              /\ loc' = [loc EXCEPT ![r].keys = @ \ {k}]
              /\ UNCHANGED <<pc, out>>
    /\ UNCHANGED <<tables, req, applied, raced, overtaken>>

(* A failed DEL ends the invalidation and the error is dropped.            *)
InvalidateFails(r) ==
    /\ pc[r] = "invalidate"
    /\ leaked' = leaked \cup loc[r].keys
    /\ Answer(r, Success(r), Result(r))
    /\ UNCHANGED <<tables, cache, req, applied, raced, overtaken>>

CacheGet(r) ==
    /\ pc[r] = "lookup"
    /\ LET k == KeyOf(req[r].filter) IN
        \/ k \in DOMAIN cache /\ Answer(r, 200, [page |-> cache[k]])
        \/ Goto(r, "rows") /\ UNCHANGED <<loc, out>>     \* a miss or an error
    /\ UNCHANGED <<tables, cache, req, audit>>

SelectRows(r) ==
    /\ pc[r] = "rows"
    /\ loc' = [loc EXCEPT ![r].page =
                  [for |-> req[r].filter, total |-> 0,
                   items |-> ListRows(tasks, req[r].filter)]]
    /\ Goto(r, "count")
    /\ UNCHANGED <<tables, cache, req, out, audit>>

SelectCount(r) ==
    /\ pc[r] = "count"
    /\ loc' = [loc EXCEPT ![r].page.total = CountRows(tasks, req[r].filter)]
    /\ Goto(r, "store")
    /\ UNCHANGED <<tables, cache, req, out, audit>>

Store(r) ==
    /\ pc[r] = "store"
    /\ LET k == KeyOf(req[r].filter) IN
        \/ /\ cache' = [l \in DOMAIN cache \cup {k} |->
                          IF l = k THEN loc[r].page ELSE cache[l]]
           /\ leaked' = IF r \in overtaken THEN leaked \cup {k} ELSE leaked \ {k}
        \/ UNCHANGED <<cache, leaked>>                   \* SET failed
    /\ Answer(r, 200, [page |-> loc[r].page])
    /\ UNCHANGED <<tables, req, applied, raced, overtaken>>

-------------------------------------------------------------------------------
MutDBErrorIgnored(r) ==                 \* mutant: the error of Commit is dropped
    /\ pc[r] = "entries"
    /\ Answer(r, 200, Null)
    /\ UNCHANGED <<tables, cache, req, audit>>

(* A call to MySQL fails without effect; an open transaction rolls back.   *)
DBError(r) ==
    /\ pc[r] \in {"find", "member", "insert", "update", "entries", "delete",
                  "history", "rows", "count"}
    /\ Answer(r, 500, Null)
    /\ UNCHANGED <<tables, cache, req, audit>>

(* The process dies: open transactions roll back, tables and Redis stay.   *)
Crash ==
    /\ InFlight # {}
    /\ pc'  = [r \in Requests |-> IF r \in InFlight THEN "done" ELSE pc[r]]
    /\ out' = [r \in Requests |-> IF r \in InFlight THEN Lost ELSE out[r]]
    /\ loc' = [r \in Requests |-> NoWork]
    /\ leaked' = leaked \cup UNION {loc[r].keys : r \in Requests}
    /\ UNCHANGED <<tables, cache, req, applied, raced, overtaken>>

(* The TTL of a page ends, or Redis drops it.                              *)
Expire(k) ==
    /\ k \in DOMAIN cache
    /\ cache'  = Without(k)
    /\ leaked' = leaked \ {k}
    /\ UNCHANGED <<tables, pc, req, loc, out, applied, raced, overtaken>>

(* The team service, which shares the table, adds a member.  Nothing in the*)
(* program removes one or changes a team.                                  *)
Join ==
    /\ \E m \in (Users \X Teams) \ members : members' = members \cup {m}
    /\ UNCHANGED <<tasks, history, created, cache, pc, req, loc, out, audit>>

Finished ==
    /\ \A r \in Requests : pc[r] = "done"
    /\ UNCHANGED vars

(* The calls of a request that is being served, failures of MySQL aside.   *)
Serve(r) ==
    \/ Find(r) \/ Member(r) \/ Insert(r)
    \/ UpdateTx(r) \/ InsertHistory(r) \/ Commit(r) \/ SoftDelete(r)
    \/ InvalidateKey(r) \/ InvalidateFails(r) \/ ReadHistory(r)
    \/ CacheGet(r) \/ SelectRows(r) \/ SelectCount(r) \/ Store(r)

Next ==
    \/ \E r \in Requests : Accept(r) \/ Serve(r) \/ DBError(r)
    \/ \E k \in DOMAIN cache : Expire(k)
    \/ Crash
    \/ Join
    \/ Finished

Spec == Init /\ [][Next]_vars

-------------------------------------------------------------------------------
(* Types.  Ids found by Find stay valid: rows are never removed.           *)

Work == [seen : Row \cup {Null}, row : Row \cup {Null}, todo : SUBSET Fields,
         entries : Seq(Entry), keys : SUBSET Key, page : Page \cup {Null}]

(* Every variable has its type, and the tables agree on the ids in use.    *)
TypeOK ==
    /\ LedgerTypeOK
    /\ members \subseteq Users \X Teams
    /\ DOMAIN cache \subseteq Key /\ \A k \in DOMAIN cache : cache[k] \in Page
    /\ pc \in [Requests -> Steps]
    /\ req \in [Requests -> Inputs \cup {Null}]
    /\ loc \in [Requests -> Work]
    /\ DOMAIN out = Requests /\ \A r \in Requests : out[r].code \in Nat
    /\ applied \subseteq Requests /\ overtaken \subseteq Requests
    /\ leaked \subseteq Key

-------------------------------------------------------------------------------
(* The rows and their history.                                             *)

(* The service implements the ledger: whatever the interleaving of its     *)
(* calls, failures and crashes, a reader of the two tables sees inserts,   *)
(* changes together with their history, and deletions, each at once.       *)
ImplementsLedger == LedgerSpec

(* HistoryExplainsRow of TaskLedger without the excuse of a stale read,    *)
(* as the description of the columns old_value and new_value in            *)
(* migrations/0001_init.up.sql has it.                                     *)
HistoryAlwaysExplainsRow ==
    \A t \in DOMAIN tasks, f \in Fields : Explained(t, f)

(* A row lock has one holder, and what its transaction will commit is the  *)
(* current row with the patch applied and nothing else.                    *)
TransactionIsCurrent ==
    \A r \in Requests : pc[r] = "entries" =>
        LET t == req[r].task IN
        /\ ~tasks[t].deleted
        /\ loc[r].row = Patched(tasks[t], BuildPatch(req[r].body))
        /\ \A q \in Requests \ {r} : pc[q] = "entries" => req[q].task # t

Writes == {"create", "update", "delete"}

(* An answer tells whether the write took effect: a success says it did,   *)
(* a 4xx that it did not, and only writes have effects; a task that was    *)
(* there from the start is called not found only once it is deleted.  A    *)
(* 500, or no answer, tells nothing.                                       *)
AnswersAreTruthful ==
    \A r \in Requests : pc[r] = "done" =>
        /\ out[r].code \in {400, 403, 404} => r \notin applied
        /\ out[r].code \in {200, 201, 204} =>
              (r \in applied <=> req[r].op \in Writes)
        /\ out[r].code = 404 /\ req[r].task \in DOMAIN InitialTasks =>
              tasks[req[r].task].deleted

(* Nobody but a member of its team reads a task or its history, sees it in *)
(* a list, or changes it.                                                  *)
MembersOnly ==
    \A r \in Requests :
        LET may(team) == <<req[r].actor, team>> \in members IN
        /\ r \in applied => may(IF req[r].op = "create" THEN req[r].team
                                ELSE tasks[req[r].task].team)
        /\ pc[r] = "done" /\ out[r].code = 200 =>
              CASE req[r].op = "list" ->
                     \A item \in out[r].body.page.items : may(item.row.team)
                [] OTHER -> may(tasks[req[r].task].team)

-------------------------------------------------------------------------------
(* The cache.                                                              *)

Fresh(k) == /\ cache[k].items = ListRows(tasks, cache[k].for)
            /\ cache[k].total = CountRows(tasks, cache[k].for)

(* A cached page that no longer is what the database would answer is about *)
(* to be deleted, or its deletion was lost: the invalidation failed or     *)
(* never began, the page was stored after a write that its reads straddle, *)
(* or the page is beyond the pages invalidated.                            *)
StaleOnlyIfLeaked ==
    \A k \in DOMAIN cache :
        \/ Fresh(k)
        \/ k \in leaked
        \/ \E r \in Requests : k \in loc[r].keys
        \/ k.page > InvalidatedPages

(* A list answer holds live tasks of the team and of the status asked for, *)
(* from the page asked for, whether it comes from the cache or not.        *)
ListAnswersTheKey ==
    \A r \in Requests :
        pc[r] = "done" /\ req[r].op = "list" /\ out[r].code = 200 =>
            LET f == req[r].filter  page == out[r].body.page IN
            /\ KeyOf(page.for) = KeyOf(f)
            /\ \A item \in page.items :
                  /\ item.row.team = f.team /\ ~item.row.deleted
                  /\ f.status \in {"any", item.row.val["status"]}

(* A list answer also respects the assignee and the limit asked for, the   *)
(* other parameters of GET /api/v1/tasks.                                  *)
ListHonoursFilter ==
    \A r \in Requests :
        pc[r] = "done" /\ req[r].op = "list" /\ out[r].code = 200 =>
            LET f == req[r].filter  items == out[r].body.page.items IN
            /\ Cardinality(items) <= f.limit
            /\ \A item \in items :
                  f.assignee \in {Null, item.row.val["assignee_id"]}

-------------------------------------------------------------------------------
(* Progress.  The goroutine of an accepted request keeps running; no client*)
(* has to send a request, and no call has to fail.                         *)
FairSpec == Spec /\ \A r \in Requests : WF_vars(Serve(r))

(* A request that was accepted is answered, or dies with the process: no   *)
(* request waits forever for a row lock.                                   *)
EveryRequestEnds ==
    \A r \in Requests : (pc[r] # "idle") ~> (pc[r] = "done")
===============================================================================
