------------------------------- MODULE TaskData -------------------------------
(***************************************************************************)
(* The data of the task service: rows of the tables tasks and task_history,*)
(* the JSON bodies of the write requests, the patch built from a body, the *)
(* list query and the key under which its result is cached.                *)
(*                                                                         *)
(* Sources: internal/entity/task*.go, internal/dto/{task,filter}.go,       *)
(* internal/repository/task_repo.go, internal/service/task_{service,cache}.*)
(***************************************************************************)
EXTENDS Naturals, Sequences, FiniteSets

CONSTANTS
    Users,             \* ids of the rows of table users
    Teams,             \* ids of the rows of table teams
    Texts,             \* titles and descriptions that pass validation
    Null,              \* SQL NULL, and a JSON null
    Zero,              \* the id 0, which no row has
    NoUser,            \* an assignee id that no row of users has
    Invalid,           \* an empty or too long title, an unknown status
    InvalidatedPages   \* pages 1..InvalidatedPages are invalidated (100)

ASSUME DataAssumption ==
    /\ InvalidatedPages \in Nat \ {0}
    /\ Null \notin Texts \cup Users
    /\ {Zero, NoUser, Invalid} \cap (Texts \cup Users \cup Teams \cup {Null}) = {}

-------------------------------------------------------------------------------
(* Rows.  The columns a request can set are kept in val.                   *)

Statuses == {"todo", "in_progress", "done"}
Fields   == {"title", "description", "status", "assignee_id"}
Values   == Texts \cup Statuses \cup Users \cup {Null}
Row      == [team : Teams, by : Users, deleted : BOOLEAN, val : [Fields -> Values]]
Entry    == [field : Fields, by : Users, old : Values, new : Values]

(* The order in which buildHistoryEntries looks at the fields.             *)
FieldRank == [title |-> 1, description |-> 2, status |-> 3, assignee_id |-> 4]

(* What WHERE deleted_at IS NULL selects.                                  *)
MutLiveAny(row) == TRUE                 \* mutant: the condition is missing
Live(row) == ~row.deleted

(* The assignee column references users: fk_tasks_assignee.                *)
ForeignKeyOK(val) == val["assignee_id"] \in Users \cup {Null}

-------------------------------------------------------------------------------
(* Request bodies.  A key missing from the JSON object and a key that is   *)
(* null both leave the Go pointer nil.                                     *)

Body ==
    {body \in UNION {[F -> Values \cup {Zero, NoUser, Invalid}] : F \in SUBSET Fields} :
        \A f \in DOMAIN body : body[f] \in {Zero, NoUser} => f = "assignee_id"}

Given(body) == {f \in DOMAIN body : body[f] # Null}

CreateOK(team, body) ==
    /\ team # Zero
    /\ {"title", "status"} \subseteq Given(body)
    /\ \A f \in Given(body) : body[f] # Invalid

NewRow(team, by, body) ==
    [team |-> team, by |-> by, deleted |-> FALSE,
     val |-> [f \in Fields |-> IF f \in Given(body) THEN body[f] ELSE Null]]

(* HasAnyUpdate of the handler and buildPatchRich of the service.          *)
MutPatchUnchecked(body) == Given(body) # {}    \* mutant: nothing is validated
PatchOK(body) ==
    /\ Given(body) # {}
    /\ \A f \in Given(body) : body[f] # Invalid

(* The assignee id 0 asks for the assignee to be cleared.                  *)
BuildPatch(body) ==
    [f \in Given(body) |-> IF body[f] = Zero THEN Null ELSE body[f]]

Patched(row, patch) ==
    [row EXCEPT !.val =
        [f \in Fields |-> IF f \in DOMAIN patch THEN patch[f] ELSE row.val[f]]]

(* The fields buildHistoryEntries writes an entry for: a patched assignee  *)
(* always gets one, the other fields only when old and new value differ.   *)
MutRecordedIfSet(old, new, patch) ==    \* mutant: no entry for a cleared value
    {f \in DOMAIN patch : new.val[f] # Null /\ old.val[f] # new.val[f]}
Recorded(old, new, patch) ==
    {f \in DOMAIN patch : f = "assignee_id" \/ old.val[f] # new.val[f]}

-------------------------------------------------------------------------------
(* The list query and the cache key.  The key has no assignee and no limit.*)

Filter == [team : Teams \cup {Zero}, status : Statuses \cup {"any"},
           assignee : Users \cup {Null}, page : Nat \ {0}, limit : Nat \ {0}]
Key    == [team : Teams, status : Statuses \cup {"any"}, page : Nat \ {0}]

MutKeyNoStatus(f) == [team |-> f.team, status |-> "any", page |-> f.page]
KeyOf(f) == [team |-> f.team, status |-> f.status, page |-> f.page]

Matches(row, f) ==
    /\ row.team = f.team
    /\ f.status = "any" \/ row.val["status"] = f.status
    /\ f.assignee = Null \/ row.val["assignee_id"] = f.assignee
    /\ Live(row)

Matching(rows, f) == {t \in DOMAIN rows : Matches(rows[t], f)}

(* ORDER BY id LIMIT limit OFFSET (page - 1) * limit: the rows of the page *)
(* with their ids, which give their order.                                 *)
ListRows(rows, f) ==
    LET all    == Matching(rows, f)
        pos(t) == Cardinality({u \in all : u < t})
        ids    == {t \in all : /\ pos(t) >= (f.page - 1) * f.limit
                               /\ pos(t) < f.page * f.limit}
    IN  {[id |-> t, row |-> rows[t]] : t \in ids}

CountRows(rows, f) == Cardinality(Matching(rows, f))

(* The keys taskListCache.Invalidate deletes, and the order it does so in. *)
MutInvalidateNotAny(team) ==            \* mutant: the unfiltered list is forgotten
    [team : {team}, status : Statuses, page : 1..InvalidatedPages]
InvalidateKeys(team) ==
    [team : {team}, status : Statuses \cup {"any"}, page : 1..InvalidatedPages]

StatusRank == [any |-> 1, todo |-> 2, in_progress |-> 3, done |-> 4]
KeyBefore(k, l) == \/ StatusRank[k.status] < StatusRank[l.status]
                   \/ k.status = l.status /\ k.page <= l.page
===============================================================================
