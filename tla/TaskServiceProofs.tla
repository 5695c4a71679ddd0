-------------------------- MODULE TaskServiceProofs --------------------------
(***************************************************************************)
(* Theorems about TaskLedger and about TaskService, for every set of users,*)
(* teams, requests and inputs.                                             *)
(*                                                                         *)
(* The ledger: its types, that the history explains the row of every task  *)
(* whose updates were not raced, and that a deleted row is final.  The     *)
(* inductive invariant is LedgerTypeOK /\ HistoryExplainsRow.              *)
(*                                                                         *)
(* The service: type correctness, that the transactions are current, that  *)
(* it implements the ledger, and what it inherits from it.  The inductive  *)
(* invariant adds to TypeOK and TransactionIsCurrent what is known of a    *)
(* request at each of its steps (Local).                                   *)
(***************************************************************************)
EXTENDS TaskService, SequenceTheorems, FiniteSetTheorems, TLAPS

-------------------------------------------------------------------------------
(* The ledger.                                                              *)

(* The tables stay well typed and in step with one another.                *)
LEMMA LedgerInitial == LedgerInit => LedgerTypeOK /\ HistoryExplainsRow
<1> SUFFICES ASSUME LedgerInit PROVE LedgerTypeOK /\ HistoryExplainsRow
  OBVIOUS
<1>1. tasks \in Seq(Row) /\ created \in Seq(Row) /\ raced = {}
  BY DEF LedgerInit
<1>2. history \in Seq(Seq(Entry)) /\ Len(history) = Len(tasks)
  <2>1. DOMAIN tasks = 1..Len(tasks) /\ Len(tasks) \in Nat
    BY <1>1
  <2>2. <<>> \in Seq(Entry)
    OBVIOUS
  <2>3. history = [t \in 1..Len(tasks) |-> <<>>]
    BY <2>1 DEF LedgerInit
  <2> QED
    BY <2>1, <2>2, <2>3
<1>3. LedgerTypeOK
  BY <1>1, <1>2 DEF LedgerInit, LedgerTypeOK
<1>4. \A t \in DOMAIN tasks : history[t] = <<>> /\ created[t] = tasks[t]
  BY DEF LedgerInit
<1> QED
  BY <1>3, <1>4 DEF HistoryExplainsRow, Explained, About

(* A step of the ledger keeps the types.                                   *)
LEMMA LedgerNextTypes == LedgerTypeOK /\ [LedgerNext]_ledger => LedgerTypeOK'
<1> SUFFICES ASSUME LedgerTypeOK, [LedgerNext]_ledger PROVE LedgerTypeOK'
  OBVIOUS
<1>1. ASSUME NEW row, LedgerInsert(row) PROVE LedgerTypeOK'
  BY <1>1 DEF LedgerTypeOK, LedgerInsert
<1>2. ASSUME NEW t \in DOMAIN tasks, LedgerChange(t) PROVE LedgerTypeOK'
  <2>0. t \in 1..Len(tasks) /\ t \in 1..Len(history)
    BY DEF LedgerTypeOK
  <2>1. tasks' \in Seq(Row) /\ Len(tasks') = Len(tasks)
    <3> DEFINE row == tasks'[t]
    <3>1. row \in Row /\ tasks' = [tasks EXCEPT ![t] = row] /\ tasks \in Seq(Row)
      BY <1>2 DEF LedgerTypeOK, LedgerChange
    <3> HIDE DEF row
    <3> QED
      BY <2>0, <3>1, ExceptSeq
  <2>2. history' \in Seq(Seq(Entry)) /\ Len(history') = Len(history)
    <3> DEFINE h == history'[t]
    <3>1. /\ h \in Seq(Entry) /\ history' = [history EXCEPT ![t] = h]
          /\ history \in Seq(Seq(Entry))
      BY <1>2 DEF LedgerTypeOK, LedgerChange, Extended
    <3> HIDE DEF h
    <3> QED
      BY <2>0, <3>1, ExceptSeq
  <2> QED
    BY <1>2, <2>0, <2>1, <2>2 DEF LedgerTypeOK, LedgerChange
<1>3. ASSUME NEW t \in DOMAIN tasks, LedgerDelete(t) PROVE LedgerTypeOK'
  <2> DEFINE row == [tasks[t] EXCEPT !.deleted = TRUE]
  <2>1. tasks[t] \in Row /\ t \in 1..Len(tasks) /\ tasks \in Seq(Row)
    BY DEF LedgerTypeOK
  <2>2. row \in Row
    BY <2>1 DEF Row
  <2>3. tasks' = [tasks EXCEPT ![t] = row]
    BY <1>3 DEF LedgerDelete
  <2> HIDE DEF row
  <2>4. tasks' \in Seq(Row) /\ Len(tasks') = Len(tasks)
    BY <2>1, <2>2, <2>3, ExceptSeq
  <2> QED
    BY <1>3, <2>4 DEF LedgerTypeOK, LedgerDelete
<1>4. CASE UNCHANGED ledger
  BY <1>4 DEF LedgerTypeOK, ledger
<1> QED
  BY <1>1, <1>2, <1>3, <1>4 DEF LedgerNext

(* LedgerTypeOK is an invariant of the ledger.                                   *)
THEOREM LedgerTypes == LedgerSpec => []LedgerTypeOK
  BY LedgerInitial, LedgerNextTypes, PTL DEF LedgerSpec

-------------------------------------------------------------------------------
(* A step that leaves the row, the history and the first value of a task   *)
(* alone leaves its explanation alone.                                     *)
LEMMA ExplainedFrame ==
  ASSUME NEW t, NEW f, Explained(t, f),
         tasks'[t].val[f] = tasks[t].val[f],
         created'[t].val[f] = created[t].val[f],
         history'[t] = history[t]
  PROVE  Explained(t, f)'
  BY SMTT(30) DEF Explained, About

(* A faithful change of a task keeps each of its fields explained.         *)
LEMMA FaithfulExplains ==
  ASSUME LedgerTypeOK, NEW t \in DOMAIN tasks, NEW f \in Fields,
         Extended(t), Faithful(t), UNCHANGED created, Explained(t, f)
  PROVE  Explained(t, f)'
<1> DEFINE h == history[t]  h1 == history'[t]
           old == About(t, f)  new == About(t, f)'
<1>1. /\ h \in Seq(Entry) /\ h1 \in Seq(Entry) /\ Len(h) <= Len(h1)
      /\ \A i \in 1..Len(h) : h1[i] = h[i]
  BY DEF LedgerTypeOK, Extended
<1>2. old = {i \in new : i <= Len(h)}
  BY <1>1 DEF About
<1>3. \A i \in new \ old : /\ i \in Added(t)
                           /\ h1[i].old = tasks[t].val[f]
                           /\ h1[i].new = tasks'[t].val[f]
  BY <1>1, <1>2 DEF About, Added, Extended, Faithful
<1>4. \A i, j \in new \ old : i = j
  BY <1>3, <1>1, <1>2 DEF About, Extended
<1>5. new = old => tasks'[t].val[f] = tasks[t].val[f]
  BY <1>1, <1>2 DEF About, Added, Faithful
<1>6. new = {} => tasks'[t].val[f] = created'[t].val[f]
  BY <1>2, <1>5 DEF Explained
<1>7. ASSUME NEW i \in new, \A j \in new : i <= j
      PROVE  h1[i].old = created'[t].val[f]
  <2>1. CASE i \in old
    BY <1>7, <2>1, <1>1, <1>2 DEF Explained, About
  <2>2. CASE i \notin old
    <3>1. old = {}
      BY <1>7, <2>2, <1>1, <1>2 DEF About
    <3> QED
      BY <3>1, <2>2, <1>3 DEF Explained
  <2> QED
    BY <2>1, <2>2
<1>8. ASSUME NEW i \in new, NEW j \in new, i < j,
             ~\E k \in new : i < k /\ k < j
      PROVE  h1[i].new = h1[j].old
  <2>1. i \in old
    BY <1>8, <1>1, <1>2, <1>4 DEF About
  <2>2. CASE j \in old
    <3>1. ~\E k \in old : i < k /\ k < j
      BY <1>2, <1>8
    <3>2. h[i].new = h[j].old
      BY <1>8, <2>1, <2>2, <3>1 DEF Explained
    <3>3. h1[i] = h[i] /\ h1[j] = h[j]
      BY <1>1, <2>1, <2>2 DEF About
    <3> QED BY <3>2, <3>3
  <2>3. CASE j \notin old
    <3>1. \A k \in old : k <= i
      BY <1>8, <2>1, <2>3, <1>1, <1>2 DEF About
    <3> QED
      BY <3>1, <2>1, <2>3, <1>1, <1>2, <1>3 DEF Explained, About
  <2> QED
    BY <2>2, <2>3
<1>9. ASSUME NEW i \in new, \A j \in new : j <= i
      PROVE  h1[i].new = tasks'[t].val[f]
  <2>1. CASE i \in old
    <3>1. new = old
      BY <1>9, <2>1, <1>1, <1>2 DEF About
    <3> QED
      BY <3>1, <1>9, <2>1, <1>1, <1>2, <1>5 DEF Explained, About
  <2>2. CASE i \notin old
    BY <2>2, <1>3
  <2> QED
    BY <2>1, <2>2
<1> QED
  BY <1>6, <1>7, <1>8, <1>9 DEF Explained

(* A step of the ledger keeps every history that was not raced an explanation. *)
LEMMA LedgerNextExplains ==
  LedgerTypeOK /\ HistoryExplainsRow /\ [LedgerNext]_ledger => HistoryExplainsRow'
<1> SUFFICES ASSUME LedgerTypeOK, HistoryExplainsRow, [LedgerNext]_ledger,
                    NEW u \in DOMAIN tasks', u \notin raced', NEW f \in Fields
             PROVE  Explained(u, f)'
  BY DEF HistoryExplainsRow
<1>1. ASSUME NEW row, LedgerInsert(row) PROVE Explained(u, f)'
  <2>1. CASE u \in DOMAIN tasks
    <3>1. /\ tasks'[u] = tasks[u] /\ created'[u] = created[u]
          /\ history'[u] = history[u] /\ u \notin raced
      BY <1>1, <2>1 DEF LedgerInsert, LedgerTypeOK
    <3> QED
      BY <3>1, <2>1, ExplainedFrame DEF HistoryExplainsRow
  <2>2. CASE u \notin DOMAIN tasks
    <3>1. tasks'[u] = row /\ created'[u] = row /\ history'[u] = <<>>
      BY <1>1, <2>2 DEF LedgerInsert, LedgerTypeOK
    <3> QED
      BY <3>1 DEF Explained, About
  <2> QED
    BY <2>1, <2>2
<1>2. ASSUME NEW t \in DOMAIN tasks, LedgerChange(t) PROVE Explained(u, f)'
  <2>1. u \in DOMAIN tasks /\ created' = created /\ u \notin raced
    BY <1>2 DEF LedgerChange, LedgerTypeOK
  <2>2. CASE u = t
    <3>1. Extended(t) /\ Faithful(t)
      BY <1>2, <2>2 DEF LedgerChange
    <3> QED
      BY <2>1, <2>2, <3>1, FaithfulExplains DEF HistoryExplainsRow
  <2>3. CASE u # t
    <3>1. tasks'[u] = tasks[u] /\ history'[u] = history[u]
      BY <1>2, <2>1, <2>3 DEF LedgerChange, Extended, LedgerTypeOK
    <3> QED
      BY <2>1, <3>1, ExplainedFrame DEF HistoryExplainsRow
  <2> QED
    BY <2>2, <2>3
<1>3. ASSUME NEW t \in DOMAIN tasks, LedgerDelete(t) PROVE Explained(u, f)'
  <2>1. /\ u \in DOMAIN tasks /\ created' = created /\ history' = history
        /\ u \notin raced /\ tasks'[u].val = tasks[u].val
    BY <1>3 DEF LedgerDelete, LedgerTypeOK, Row
  <2> QED
    BY <2>1, ExplainedFrame DEF HistoryExplainsRow
<1>4. CASE UNCHANGED ledger
  BY <1>4, ExplainedFrame DEF ledger, HistoryExplainsRow
<1> QED
  BY <1>1, <1>2, <1>3, <1>4 DEF LedgerNext

(* In every ledger the history of a task explains its row, unless an       *)
(* update of the task was made on the ground of a stale read.              *)
THEOREM LedgerExplains == LedgerSpec => []HistoryExplainsRow
<1>1. LedgerInit => LedgerTypeOK /\ HistoryExplainsRow
  BY LedgerInitial
<1>2. LedgerTypeOK /\ HistoryExplainsRow /\ [LedgerNext]_ledger
        => (LedgerTypeOK /\ HistoryExplainsRow)'
  BY LedgerNextTypes, LedgerNextExplains
<1> QED
  BY <1>1, <1>2, PTL DEF LedgerSpec

-------------------------------------------------------------------------------
(* In every ledger a deleted row is final.                                 *)
LEMMA LedgerNextFinal ==
  LedgerTypeOK /\ [LedgerNext]_ledger => \A t \in DOMAIN tasks : tasks[t].deleted =>
      tasks'[t] = tasks[t] /\ history'[t] = history[t]
<1> SUFFICES ASSUME LedgerTypeOK, [LedgerNext]_ledger, NEW u \in DOMAIN tasks,
                    tasks[u].deleted
             PROVE  tasks'[u] = tasks[u] /\ history'[u] = history[u]
  OBVIOUS
<1>1. ASSUME NEW row, LedgerInsert(row)
      PROVE  tasks'[u] = tasks[u] /\ history'[u] = history[u]
  BY <1>1 DEF LedgerInsert, LedgerTypeOK
<1>2. ASSUME NEW t \in DOMAIN tasks, LedgerChange(t)
      PROVE  tasks'[u] = tasks[u] /\ history'[u] = history[u]
  BY <1>2 DEF LedgerChange, Extended, LedgerTypeOK
<1>3. ASSUME NEW t \in DOMAIN tasks, LedgerDelete(t)
      PROVE  tasks'[u] = tasks[u] /\ history'[u] = history[u]
  BY <1>3 DEF LedgerDelete, LedgerTypeOK
<1> QED
  BY <1>1, <1>2, <1>3 DEF LedgerNext, ledger

(* DeletedIsFinal holds of the ledger.                                     *)
THEOREM LedgerFinal == LedgerSpec => DeletedIsFinal
<1>1. LedgerTypeOK /\ [LedgerNext]_ledger =>
        [\A t \in DOMAIN tasks : tasks[t].deleted =>
           tasks'[t] = tasks[t] /\ history'[t] = history[t]]_ledger
  BY LedgerNextFinal
<1> QED
  BY <1>1, LedgerTypes, PTL DEF LedgerSpec, DeletedIsFinal

-------------------------------------------------------------------------------
(* The service.                                                             *)

(* The operations that reach each step.                                    *)
Reached == [find |-> {"get", "update", "delete", "history"},
            member |-> {"create", "get", "update", "delete", "history", "list"},
            insert |-> {"create"}, update |-> {"update"}, entries |-> {"update"},
            delete |-> {"delete"}, history |-> {"history"},
            invalidate |-> {"create", "update", "delete"},
            lookup |-> {"list"}, rows |-> {"list"}, count |-> {"list"},
            store |-> {"list"}]

(* What the open transaction of r has recorded so far, and has still to    *)
(* record: each field once, from the row it read to the row it writes.     *)
EntriesOK(r) ==
    LET es == loc[r].entries  seen == loc[r].seen  row == loc[r].row
        fields == Recorded(seen, row, BuildPatch(req[r].body))
    IN
    /\ row \in Row
    /\ loc[r].todo \subseteq fields
    /\ \A i \in 1..Len(es) : /\ es[i].field \in fields \ loc[r].todo
                             /\ es[i].old = seen.val[es[i].field]
                             /\ es[i].new = row.val[es[i].field]
                             /\ es[i].by = req[r].actor
    /\ \A i, j \in 1..Len(es) : es[i].field = es[j].field => i = j
    /\ \A f \in fields :
          f \in loc[r].todo \/ \E i \in 1..Len(es) : es[i].field = f

Local(r) ==
    /\ pc[r] # "idle" => req[r] \in Inputs
    /\ pc[r] \notin {"idle", "done"} =>
          ~Malformed(req[r]) /\ req[r].op \in Reached[pc[r]]
    /\ (pc[r] = "member" /\ req[r].op \notin {"create", "list"})
          \/ pc[r] \in {"update", "entries", "delete", "history"} =>
          req[r].task \in DOMAIN tasks /\ loc[r].seen \in Row
    /\ pc[r] \notin {"entries"} => loc[r].entries = <<>>
    /\ pc[r] = "entries" => EntriesOK(r)
    /\ pc[r] = "invalidate" => loc[r].row \in Row
    /\ pc[r] \in {"count", "store"} => loc[r].page \in Page

IInv == TypeOK /\ TransactionIsCurrent /\ \A r \in Requests : Local(r)

-------------------------------------------------------------------------------
(* The data.                                                               *)

(* The local variables a request starts and ends with.                     *)
LEMMA NoWorkType == NoWork \in Work
  BY DEF NoWork, Work

(* The fields of an input of each kind.                                    *)
LEMMA InputFields ==
  ASSUME NEW i \in Inputs
  PROVE  /\ i.actor \in Users
         /\ i.op \in {"create", "get", "update", "delete", "history", "list"}
         /\ i.op = "create" => i.team \in Teams \cup {Zero} /\ i.body \in Body
         /\ i.op = "update" => i.body \in Body
         /\ i.op = "list" => i.filter \in Filter
  BY ServiceAssumption DEF Input

(* A validated body that passes the foreign key makes a well-typed row.    *)
LEMMA NewRowType ==
  ASSUME NEW team \in Teams \cup {Zero}, NEW by \in Users, NEW body \in Body,
         CreateOK(team, body), ForeignKeyOK(NewRow(team, by, body).val)
  PROVE  NewRow(team, by, body) \in Row /\ ~NewRow(team, by, body).deleted
<1> DEFINE v == [f \in Fields |-> IF f \in Given(body) THEN body[f] ELSE Null]
<1>1. v["assignee_id"] \in Users \cup {Null}
  BY DEF NewRow, ForeignKeyOK
<1>2. ASSUME NEW f \in Fields PROVE v[f] \in Values
  <2>1. CASE f \in Given(body)
    <3>1. body[f] \in Values \cup {Zero, NoUser} /\ v[f] = body[f]
      BY <1>2, <2>1 DEF Body, Given, CreateOK
    <3>2. body[f] \in {Zero, NoUser} => f = "assignee_id"
      BY <2>1 DEF Body, Given
    <3>3. f = "assignee_id" => body[f] \in Users \cup {Null}
      BY <1>1, <3>1
    <3> QED
      BY <3>1, <3>2, <3>3 DEF Values
  <2>2. CASE f \notin Given(body)
    BY <1>2, <2>2 DEF Values
  <2> QED
    BY <2>1, <2>2
<1>3. v \in [Fields -> Values]
  BY <1>2
<1>4. NewRow(team, by, body) =
        [team |-> team, by |-> by, deleted |-> FALSE, val |-> v]
  BY DEF NewRow
<1> HIDE DEF v
<1> QED
  BY <1>3, <1>4 DEF Row, CreateOK

(* So does a validated patch of a well-typed row.                          *)
LEMMA PatchedType ==
  ASSUME NEW row \in Row, NEW body \in Body, PatchOK(body),
         ForeignKeyOK(Patched(row, BuildPatch(body)).val)
  PROVE  /\ Patched(row, BuildPatch(body)) \in Row
         /\ Patched(row, BuildPatch(body)).team = row.team
         /\ Patched(row, BuildPatch(body)).by = row.by
         /\ Patched(row, BuildPatch(body)).deleted = row.deleted
         /\ \A f \in Fields \ DOMAIN BuildPatch(body) :
               Patched(row, BuildPatch(body)).val[f] = row.val[f]
         /\ DOMAIN BuildPatch(body) \subseteq Fields
<1> DEFINE p == BuildPatch(body)
           v == [f \in Fields |-> IF f \in DOMAIN p THEN p[f] ELSE row.val[f]]
<1>1. /\ Patched(row, p) = [row EXCEPT !.val = v]
      /\ row.val \in [Fields -> Values] /\ row.team \in Teams
      /\ row.deleted \in BOOLEAN
  BY DEF Patched, Row
<1>2. v["assignee_id"] \in Users \cup {Null}
  BY <1>1 DEF ForeignKeyOK, Row
<1>3. DOMAIN p = Given(body) /\ Given(body) \subseteq Fields
  BY DEF BuildPatch, Given, Body
<1>4. ASSUME NEW f \in Fields PROVE v[f] \in Values
  <2>1. CASE f \in DOMAIN p
    <3>1. body[f] \in Values \cup {Zero, NoUser} /\ v[f] = p[f]
      BY <1>3, <1>4, <2>1 DEF Body, Given, PatchOK
    <3>2. p[f] = IF body[f] = Zero THEN Null ELSE body[f]
      BY <2>1, <1>3 DEF BuildPatch
    <3>3. body[f] = NoUser => f = "assignee_id"
      BY <1>3, <2>1 DEF Body, Given
    <3> QED
      BY <1>2, <3>1, <3>2, <3>3 DEF Values
  <2>2. CASE f \notin DOMAIN p
    BY <1>1, <1>4, <2>2
  <2> QED
    BY <2>1, <2>2
<1>5. v \in [Fields -> Values]
  BY <1>4
<1>6. \A f \in Fields \ DOMAIN p : v[f] = row.val[f]
  OBVIOUS
<1> HIDE DEF v
<1> QED
  BY <1>1, <1>3, <1>5, <1>6 DEF Row

(* The keys invalidated for a team are keys.                               *)
LEMMA InvalidateKeysType ==
  ASSUME NEW team \in Teams PROVE InvalidateKeys(team) \subseteq Key
<1>1. 1..InvalidatedPages \subseteq Nat \ {0}
  BY DataAssumption
<1> SUFFICES ASSUME NEW k \in InvalidateKeys(team) PROVE k \in Key
  OBVIOUS
<1>2. /\ k = [team |-> k.team, status |-> k.status, page |-> k.page]
      /\ k.team = team /\ k.status \in Statuses \cup {"any"}
      /\ k.page \in 1..InvalidatedPages
  BY DEF InvalidateKeys
<1> QED
  BY <1>1, <1>2 DEF Key

(* Where the elements of a concatenation come from.                        *)
LEMMA ConcatIndex ==
  ASSUME NEW S, NEW s \in Seq(S), NEW u \in Seq(S)
  PROVE  /\ s \o u \in Seq(S) /\ Len(s \o u) = Len(s) + Len(u)
         /\ Len(s) <= Len(s \o u)
         /\ \A i \in 1..Len(s) : (s \o u)[i] = s[i]
         /\ \A i \in (Len(s) + 1)..Len(s \o u) :
               i - Len(s) \in 1..Len(u) /\ (s \o u)[i] = u[i - Len(s)]
         /\ \A i \in 1..Len(u) : /\ Len(s) + i \in (Len(s) + 1)..Len(s \o u)
                                 /\ (s \o u)[Len(s) + i] = u[i]
<1>1. Len(s) \in Nat /\ Len(u) \in Nat
  OBVIOUS
<1>2. s \o u \in Seq(S) /\ Len(s \o u) = Len(s) + Len(u)
  BY ConcatProperties
<1>3. \A i \in 1..Len(s) + Len(u) :
        (s \o u)[i] = IF i <= Len(s) THEN s[i] ELSE u[i - Len(s)]
  BY ConcatProperties
<1>4. \A i \in 1..Len(s) : (s \o u)[i] = s[i]
  BY <1>1, <1>3
<1>5. \A i \in (Len(s) + 1)..Len(s \o u) :
        i - Len(s) \in 1..Len(u) /\ (s \o u)[i] = u[i - Len(s)]
  BY <1>1, <1>2, <1>3
<1>6. \A i \in 1..Len(u) : /\ Len(s) + i \in (Len(s) + 1)..Len(s \o u)
                           /\ Len(s) + i - Len(s) = i
  BY <1>1, <1>2
<1>7. \A i \in 1..Len(u) : (s \o u)[Len(s) + i] = u[i]
  BY <1>5, <1>6
<1> QED
  BY <1>1, <1>2, <1>4, <1>5, <1>6, <1>7

(* A list query answers rows with their ids, and a number.                 *)
LEMMA QueryType ==
  ASSUME NEW rows \in Seq(Row), NEW f \in Filter
  PROVE  /\ ListRows(rows, f) \in SUBSET [id : Nat, row : Row]
         /\ CountRows(rows, f) \in Nat
<1>1. ListRows(rows, f) \in SUBSET [id : Nat, row : Row]
  <2> DEFINE all == Matching(rows, f)
             pos(t) == Cardinality({u \in all : u < t})
             ids == {t \in all : /\ pos(t) >= (f.page - 1) * f.limit
                                 /\ pos(t) < f.page * f.limit}
  <2>1. ListRows(rows, f) = {[id |-> t, row |-> rows[t]] : t \in ids}
    BY DEF ListRows
  <2>2. ids \subseteq 1..Len(rows)
    BY DEF Matching
  <2> HIDE DEF ids
  <2>3. \A t \in ids : t \in Nat /\ rows[t] \in Row
    BY <2>2
  <2> QED
    BY <2>1, <2>3
<1>2. IsFiniteSet(1..Len(rows))
  BY FS_Interval
<1>3. IsFiniteSet(Matching(rows, f))
  BY <1>2, FS_Subset DEF Matching
<1> QED
  BY <1>1, <1>3, FS_CardinalityType DEF CountRows

-------------------------------------------------------------------------------
(* Frames.  The variables of a request have types of their own, and a step *)
(* of one request leaves the others as they are.                           *)

(* TypeOK without the tables: those of the ledger follow from the          *)
(* refinement, and table team_members only grows.                          *)
ServiceTypeOK ==
    /\ DOMAIN cache \subseteq Key /\ \A k \in DOMAIN cache : cache[k] \in Page
    /\ pc \in [Requests -> Steps]
    /\ req \in [Requests -> Inputs \cup {Null}]
    /\ loc \in [Requests -> Work]
    /\ DOMAIN out = Requests /\ \A r \in Requests : out[r].code \in Nat
    /\ applied \subseteq Requests /\ overtaken \subseteq Requests
    /\ leaked \subseteq Key

MembersTypeOK == members \subseteq Users \X Teams

(* The types of the service beside those of the ledger.                    *)
LEMMA TypeSplit == TypeOK <=> LedgerTypeOK /\ MembersTypeOK /\ ServiceTypeOK
  BY DEF TypeOK, ServiceTypeOK, MembersTypeOK

(* An answer keeps the types of the variables it sets.                     *)
LEMMA AnswerType ==
  ASSUME ServiceTypeOK, NEW r \in Requests, NEW code \in Nat, NEW body,
         Answer(r, code, body)
  PROVE  /\ pc' \in [Requests -> Steps] /\ pc'[r] = "done"
         /\ loc' \in [Requests -> Work] /\ loc'[r] = NoWork
         /\ DOMAIN out' = Requests /\ \A q \in Requests : out'[q].code \in Nat
         /\ \A q \in Requests \ {r} : pc'[q] = pc[q] /\ loc'[q] = loc[q]
<1>1. pc' = [pc EXCEPT ![r] = "done"] /\ loc' = [loc EXCEPT ![r] = NoWork]
  BY DEF Answer, Goto
<1>2. out' = [out EXCEPT ![r] = [code |-> code, body |-> body]]
  BY DEF Answer
<1>3. DOMAIN out' = Requests /\ \A q \in Requests : out'[q].code \in Nat
  BY <1>2 DEF ServiceTypeOK
<1> QED
  BY <1>1, <1>3, NoWorkType DEF ServiceTypeOK, Steps

(* So does moving on to another step.                                      *)
LEMMA GotoType ==
  ASSUME ServiceTypeOK, NEW r \in Requests, NEW step \in Steps, Goto(r, step)
  PROVE  /\ pc' \in [Requests -> Steps] /\ pc'[r] = step
         /\ \A q \in Requests \ {r} : pc'[q] = pc[q]
  BY DEF ServiceTypeOK, Goto

(* So does what follows a write.                                           *)
LEMMA WrittenType ==
  ASSUME ServiceTypeOK, NEW r \in Requests, NEW row \in Row, Written(r, row)
  PROVE  /\ pc' \in [Requests -> Steps]
         /\ loc' \in [Requests -> Work]
         /\ DOMAIN out' = Requests /\ \A q \in Requests : out'[q].code \in Nat
         /\ applied' \subseteq Requests /\ overtaken' \subseteq Requests
         /\ leaked' \subseteq Key
         /\ \A q \in Requests \ {r} : pc'[q] = pc[q] /\ loc'[q] = loc[q]
         /\ loc'[r].entries = <<>>
         /\ \/ pc'[r] = "done"
            \/ pc'[r] = "invalidate" /\ loc'[r].row = row
<1>1. applied' \subseteq Requests /\ overtaken' \subseteq Requests
  BY DEF Written, ServiceTypeOK
<1>2. InvalidateKeys(row.team) \subseteq Key
  BY InvalidateKeysType DEF Row
<1>3. CASE Answer(r, 500, Null) /\ leaked' = leaked \cup InvalidateKeys(row.team)
  BY <1>1, <1>2, <1>3, AnswerType DEF ServiceTypeOK, NoWork
<1> DEFINE w == [NoWork EXCEPT !.row = row, !.keys = InvalidateKeys(row.team)]
<1>4. CASE /\ Goto(r, "invalidate")
           /\ loc' = [loc EXCEPT ![r] = w]
           /\ UNCHANGED <<out, leaked>>
  <2>1. NoWork.entries = <<>>
    BY DEF NoWork
  <2>2. w \in Work /\ w.row = row /\ w.entries = <<>>
    BY <1>2, <2>1, NoWorkType DEF Work
  <2> HIDE DEF w
  <2>3. /\ pc' \in [Requests -> Steps] /\ pc'[r] = "invalidate"
        /\ \A q \in Requests \ {r} : pc'[q] = pc[q]
    BY <1>4, GotoType DEF Steps
  <2>4. /\ loc' \in [Requests -> Work] /\ loc'[r] = w
        /\ \A q \in Requests \ {r} : loc'[q] = loc[q]
    BY <1>4, <2>2 DEF ServiceTypeOK
  <2> QED
    BY <1>1, <1>4, <2>2, <2>3, <2>4 DEF ServiceTypeOK
<1> QED
  BY <1>3, <1>4 DEF Written

(* What is known of a request depends on its own variables only.           *)
LEMMA LocalFrame ==
  ASSUME NEW q, Local(q), pc'[q] = pc[q], req'[q] = req[q], loc'[q] = loc[q],
         DOMAIN tasks \subseteq DOMAIN tasks'
  PROVE  Local(q)'
<1>1. pc[q] = "entries" /\ EntriesOK(q) => EntriesOK(q)'
  BY DEF EntriesOK
<1>2. Malformed(req'[q]) = Malformed(req[q])
  OBVIOUS
<1> QED
  BY <1>1, <1>2 DEF Local

(* Nothing needs to be known of a request that is over.                    *)
LEMMA LocalDone ==
  ASSUME NEW r, pc'[r] = "done", req'[r] \in Inputs, loc'[r] = NoWork
  PROVE  Local(r)'
  BY DEF Local, NoWork

(* TransactionIsCurrent survives a step of a request that is not in its    *)
(* transaction afterwards and changes no row another transaction holds.    *)
LEMMA TransactionFrame ==
  ASSUME TransactionIsCurrent, NEW r \in Requests, pc'[r] # "entries",
         \A q \in Requests \ {r} :
            pc'[q] = pc[q] /\ req'[q] = req[q] /\ loc'[q] = loc[q],
         \A q \in Requests \ {r} : pc[q] = "entries" =>
            tasks'[req[q].task] = tasks[req[q].task]
  PROVE  TransactionIsCurrent'
  BY DEF TransactionIsCurrent

-------------------------------------------------------------------------------
(* One lemma for each action: what it keeps besides the types of the       *)
(* tables, and the step of the ledger it is.                               *)

Rest == ServiceTypeOK /\ TransactionIsCurrent /\ \A r \in Requests : Local(r)

(* A step of r that leaves the tables alone and ends outside a transaction *)
(* keeps the rest when it keeps the types and what is known of r.          *)
LEMMA QuietStep ==
  ASSUME IInv, NEW r \in Requests, ServiceTypeOK', Local(r)',
         UNCHANGED <<tables, raced>>, pc'[r] # "entries",
         \A q \in Requests \ {r} :
            pc'[q] = pc[q] /\ req'[q] = req[q] /\ loc'[q] = loc[q]
  PROVE  Rest' /\ [LedgerNext]_ledger
<1>1. UNCHANGED ledger /\ tasks' = tasks
  BY DEF tables, ledger
<1>2. \A q \in Requests \ {r} : Local(q)'
  BY <1>1, LocalFrame DEF IInv
<1>3. TransactionIsCurrent'
  BY <1>1, TransactionFrame DEF IInv
<1> QED
  BY <1>1, <1>2, <1>3 DEF Rest

(* An answer is such a step.                                               *)
LEMMA QuietAnswer ==
  ASSUME IInv, NEW r \in Requests, NEW code \in Nat, NEW body,
         Answer(r, code, body), req[r] \in Inputs,
         UNCHANGED <<tables, raced, req, applied, overtaken>>,
         DOMAIN cache' \subseteq Key, \A k \in DOMAIN cache' : cache'[k] \in Page,
         leaked' \subseteq Key
  PROVE  Rest' /\ [LedgerNext]_ledger
<1>1. ServiceTypeOK
  BY TypeSplit DEF IInv
<1>2. ServiceTypeOK'
  BY <1>1, AnswerType DEF ServiceTypeOK
<1>3. Local(r)'
  BY <1>1, AnswerType, LocalDone
<1> QED
  BY <1>1, <1>2, <1>3, AnswerType, QuietStep

(* Accept: an input that passes validation is well formed from here on.    *)
LEMMA AcceptStep ==
  ASSUME IInv, NEW r \in Requests, Accept(r)
  PROVE  Rest' /\ [LedgerNext]_ledger
<1> USE TypeSplit DEF IInv
<1>1. PICK i \in Inputs :
        /\ req' = [req EXCEPT ![r] = i]
        /\ \/ Malformed(i) /\ Answer(r, 400, Null)
           \/ /\ ~Malformed(i)
              /\ Goto(r, IF i.op \in {"create", "list"} THEN "member" ELSE "find")
              /\ UNCHANGED <<loc, out>>
  BY DEF Accept
<1>2. /\ pc[r] = "idle" /\ UNCHANGED <<tables, cache, audit>>
  BY DEF Accept
<1>3. /\ req' \in [Requests -> Inputs \cup {Null}] /\ req'[r] = i
      /\ \A q \in Requests \ {r} : req'[q] = req[q]
  BY <1>1 DEF ServiceTypeOK
<1>4. CASE Answer(r, 400, Null)
  <2>1. ServiceTypeOK' /\ Local(r)'
    BY <1>2, <1>3, <1>4, AnswerType, LocalDone DEF ServiceTypeOK, audit
  <2> QED
    BY <1>2, <1>3, <1>4, <2>1, AnswerType, QuietStep DEF audit
<1>5. CASE /\ ~Malformed(i)
           /\ Goto(r, IF i.op \in {"create", "list"} THEN "member" ELSE "find")
           /\ UNCHANGED <<loc, out>>
  <2> DEFINE step == IF i.op \in {"create", "list"} THEN "member" ELSE "find"
  <2>1. step \in Steps /\ i.op \in Reached[step] /\ step \in {"member", "find"}
        /\ (step = "member" => i.op \in {"create", "list"})
    BY InputFields DEF Steps, Reached
  <2>2. /\ pc' \in [Requests -> Steps] /\ pc'[r] = step
        /\ \A q \in Requests \ {r} : pc'[q] = pc[q]
    BY <1>5, <2>1, GotoType
  <2> HIDE DEF step
  <2>3. ServiceTypeOK'
    BY <1>2, <1>3, <1>5, <2>2 DEF ServiceTypeOK, audit
  <2>4. Malformed(req[r])' = Malformed(i)
    BY <1>3 DEF Malformed
  <2>5. Local(r)'
    BY <1>2, <1>3, <1>5, <2>1, <2>2, <2>4 DEF Local
  <2> QED
    BY <1>2, <1>3, <1>5, <2>1, <2>2, <2>3, <2>5, QuietStep DEF audit
<1> QED
  BY <1>1, <1>4, <1>5

(* Find: the row read is a row of the table.                               *)
LEMMA FindStep ==
  ASSUME IInv, NEW r \in Requests, Find(r)
  PROVE  Rest' /\ [LedgerNext]_ledger
<1> USE TypeSplit DEF IInv
<1>1. /\ pc[r] = "find" /\ UNCHANGED <<tables, cache, req, audit>>
  BY DEF Find
<1>2. req[r] \in Inputs /\ ~Malformed(req[r]) /\ loc[r].entries = <<>>
      /\ req[r].op \in {"get", "update", "delete", "history"}
  BY <1>1 DEF Local, Reached
<1>3. CASE Answer(r, 404, Null)
  BY <1>1, <1>2, <1>3, QuietAnswer DEF audit, ServiceTypeOK
<1>4. CASE /\ req[r].task \in DOMAIN tasks
           /\ loc' = [loc EXCEPT ![r].seen = tasks[req[r].task]]
           /\ Goto(r, "member")
           /\ UNCHANGED out
  <2>1. /\ pc' \in [Requests -> Steps] /\ pc'[r] = "member"
        /\ \A q \in Requests \ {r} : pc'[q] = pc[q]
    BY <1>4, GotoType DEF Steps
  <2>2. tasks[req[r].task] \in Row
    BY <1>4 DEF LedgerTypeOK
  <2>3. /\ loc' \in [Requests -> Work] /\ loc'[r].seen = tasks[req[r].task]
        /\ loc'[r].entries = <<>>
        /\ \A q \in Requests \ {r} : loc'[q] = loc[q]
    BY <1>2, <1>4, <2>2, ZenonT(40) DEF ServiceTypeOK, Work
  <2>4. ServiceTypeOK'
    BY <1>1, <1>4, <2>1, <2>3 DEF ServiceTypeOK, audit
  <2>5. Local(r)'
    BY <1>1, <1>2, <1>4, <2>1, <2>2, <2>3 DEF Local, Reached, Malformed, tables
  <2> QED
    BY <1>1, <2>1, <2>3, <2>4, <2>5, QuietStep DEF audit
<1> QED
  BY <1>3, <1>4 DEF Find

(* Member: the request reaches only steps of its own operation.            *)
LEMMA MemberStep ==
  ASSUME IInv, NEW r \in Requests, Member(r)
  PROVE  Rest' /\ [LedgerNext]_ledger
<1> USE TypeSplit DEF IInv
<1>1. /\ pc[r] = "member" /\ UNCHANGED <<tables, cache, req, audit>>
  BY DEF Member
<1>2. req[r] \in Inputs /\ ~Malformed(req[r]) /\ loc[r].entries = <<>>
      /\ req[r].op \in {"create", "get", "update", "delete", "history", "list"}
  BY <1>1 DEF Local, Reached
<1>3. ASSUME NEW code \in Nat, NEW body, Answer(r, code, body)
      PROVE  Rest' /\ [LedgerNext]_ledger
  BY <1>1, <1>2, <1>3, QuietAnswer DEF audit, ServiceTypeOK
<1>4. CASE /\ req[r].op # "get"
           /\ Goto(r, AfterMember[req[r].op])
           /\ UNCHANGED <<loc, out>>
  <2> DEFINE step == AfterMember[req[r].op]
  <2>1. /\ step \in {"insert", "update", "delete", "history", "lookup"}
        /\ req[r].op \in Reached[step]
        /\ step \in {"update", "delete", "history"}
              => req[r].op \notin {"create", "list"}
    BY <1>2, <1>4 DEF AfterMember, Reached
  <2>2. /\ pc' \in [Requests -> Steps] /\ pc'[r] = step
        /\ \A q \in Requests \ {r} : pc'[q] = pc[q]
    BY <1>4, <2>1, GotoType DEF Steps
  <2> HIDE DEF step
  <2>3. ServiceTypeOK'
    BY <1>1, <1>4, <2>2 DEF ServiceTypeOK, audit
  <2>4. Local(r)'
    BY <1>1, <1>2, <1>4, <2>1, <2>2 DEF Local, Malformed, tables
  <2> QED
    BY <1>1, <1>4, <2>1, <2>2, <2>3, <2>4, QuietStep DEF audit
<1> QED
  BY <1>3, <1>4 DEF Member

(* A write of r keeps the rest when it only adds rows or changes a row no  *)
(* other transaction holds.                                                *)
LEMMA WriteStep ==
  ASSUME IInv, NEW r \in Requests, NEW row \in Row, Written(r, row),
         req[r] \in Inputs, ~Malformed(req[r]),
         req[r].op \in {"create", "update", "delete"},
         UNCHANGED <<cache, req>>, DOMAIN tasks \subseteq DOMAIN tasks',
         \A q \in Requests \ {r} : pc[q] = "entries" =>
            tasks'[req[q].task] = tasks[req[q].task]
  PROVE  Rest'
<1>1. ServiceTypeOK
  BY TypeSplit DEF IInv
<1>2. ServiceTypeOK'
  BY <1>1, WrittenType DEF ServiceTypeOK
<1>3. Local(r)'
  <2>1. Malformed(req[r])' = Malformed(req[r])
    BY DEF Malformed
  <2> QED
    BY <1>1, <2>1, WrittenType DEF Local, Reached
<1>4. \A q \in Requests \ {r} : Local(q)'
  BY <1>1, WrittenType, LocalFrame DEF IInv
<1>5. TransactionIsCurrent'
  BY <1>1, WrittenType, TransactionFrame DEF IInv
<1> QED
  BY <1>2, <1>3, <1>4, <1>5 DEF Rest

(* Insert: a validated body becomes a row of the ledger.                   *)
LEMMA InsertStep ==
  ASSUME IInv, NEW r \in Requests, Insert(r)
  PROVE  Rest' /\ [LedgerNext]_ledger
<1> USE TypeSplit DEF IInv
<1> DEFINE row == NewRow(req[r].team, req[r].actor, req[r].body)
<1>1. pc[r] = "insert" /\ UNCHANGED <<cache, req>>
  BY DEF Insert
<1>2. req[r] \in Inputs /\ ~Malformed(req[r]) /\ req[r].op = "create"
  BY <1>1 DEF Local, Reached
<1>3. CASE Answer(r, 500, Null) /\ UNCHANGED <<tables, audit>>
  BY <1>1, <1>2, <1>3, QuietAnswer DEF audit, ServiceTypeOK
<1>4. CASE /\ ForeignKeyOK(row.val)
           /\ tasks'   = Append(tasks, row)
           /\ created' = Append(created, row)
           /\ history' = Append(history, <<>>)
           /\ Written(r, row)
           /\ UNCHANGED <<members, raced>>
  <2>1. row \in Row /\ ~row.deleted
    BY <1>2, <1>4, InputFields, NewRowType DEF Malformed
  <2> HIDE DEF row
  <2>2. /\ DOMAIN tasks \subseteq DOMAIN tasks' /\ Len(tasks') = Len(tasks) + 1
        /\ tasks'[Len(tasks')] = row
        /\ \A t \in DOMAIN tasks : tasks'[t] = tasks[t]
    BY <1>4, <2>1 DEF LedgerTypeOK
  <2>3. LedgerNext
    BY <1>4, <2>1, <2>2 DEF LedgerNext, LedgerInsert
  <2>4. \A q \in Requests : pc[q] = "entries" => req[q].task \in DOMAIN tasks
    BY DEF Local
  <2> QED
    BY <1>1, <1>2, <1>4, <2>1, <2>2, <2>3, <2>4, WriteStep
<1> QED
  BY <1>3, <1>4 DEF Insert

(* UpdateTx: what will be committed is the current row, patched.           *)
LEMMA UpdateTxStep ==
  ASSUME IInv, NEW r \in Requests, UpdateTx(r)
  PROVE  Rest' /\ [LedgerNext]_ledger
<1> USE TypeSplit DEF IInv
<1> DEFINE row   == tasks[req[r].task]
           patch == BuildPatch(req[r].body)
           new   == Patched(row, patch)
<1>1. pc[r] = "update" /\ RowFree(r) /\ UNCHANGED <<tables, cache, req, audit>>
  BY DEF UpdateTx
<1>2. /\ req[r] \in Inputs /\ ~Malformed(req[r]) /\ req[r].op = "update"
      /\ req[r].task \in DOMAIN tasks /\ loc[r].seen \in Row
      /\ loc[r].entries = <<>>
  BY <1>1 DEF Local, Reached
<1>3. ASSUME NEW code \in Nat, Answer(r, code, Null)
      PROVE  Rest' /\ [LedgerNext]_ledger
  BY <1>1, <1>2, <1>3, QuietAnswer DEF audit, ServiceTypeOK
<1>4. CASE /\ Live(row) /\ ForeignKeyOK(new.val)
           /\ loc' = [loc EXCEPT ![r].row  = new,
                                 ![r].todo = Recorded(loc[r].seen, new, patch)]
           /\ Goto(r, "entries")
           /\ UNCHANGED out
  <2>1. row \in Row /\ req[r].body \in Body /\ PatchOK(req[r].body)
    BY <1>2, InputFields DEF LedgerTypeOK, Malformed
  <2>2. new \in Row /\ DOMAIN patch \subseteq Fields
    BY <1>4, <2>1, PatchedType
  <2>3. Recorded(loc[r].seen, new, patch) \subseteq Fields
    BY <2>2 DEF Recorded
  <2>4. /\ pc' \in [Requests -> Steps] /\ pc'[r] = "entries"
        /\ \A q \in Requests \ {r} : pc'[q] = pc[q]
    BY <1>4, GotoType DEF Steps
  <2> DEFINE todo == Recorded(loc[r].seen, new, patch)
  <2>5. /\ loc' = [loc EXCEPT ![r].row = new, ![r].todo = todo]
        /\ todo \in SUBSET Fields /\ loc \in [Requests -> Work]
    BY <1>4, <2>3 DEF ServiceTypeOK
  <2>6. loc[r] \in Work /\ loc[r].entries = <<>>
    BY <1>2, <2>5
  <2> HIDE DEF row, new, todo
  <2> DEFINE w == [loc[r] EXCEPT !.row = new, !.todo = todo]
  <2>7. w \in Work /\ w.row = new /\ w.todo = todo /\ w.seen = loc[r].seen
        /\ w.entries = <<>>
    BY <2>2, <2>5, <2>6 DEF Work
  <2>8. loc' = [loc EXCEPT ![r] = w]
    BY <2>5
  <2> HIDE DEF w
  <2>9. /\ loc' \in [Requests -> Work]
        /\ loc'[r].row = new /\ loc'[r].todo = todo
        /\ loc'[r].seen = loc[r].seen /\ loc'[r].entries = <<>>
        /\ \A q \in Requests \ {r} : loc'[q] = loc[q]
    BY <2>5, <2>7, <2>8, ZenonT(40)
  <2>10. ServiceTypeOK'
    BY <1>1, <1>4, <2>4, <2>9 DEF ServiceTypeOK, audit
  <2>11. UNCHANGED ledger /\ tasks' = tasks
    BY <1>1 DEF tables, audit, ledger
  <2>12. EntriesOK(r)'
    <3>1. Len(loc'[r].entries) = 0
      BY <2>9
    <3>2. Recorded(loc'[r].seen, loc'[r].row, BuildPatch(req'[r].body)) = loc'[r].todo
      BY <1>1, <2>9 DEF todo
    <3> QED
      BY <2>2, <2>9, <3>1, <3>2 DEF EntriesOK
  <2>13. Malformed(req[r])' = Malformed(req[r])
    BY <1>1 DEF Malformed
  <2>14. Local(r)'
    BY <1>1, <1>2, <2>4, <2>9, <2>11, <2>12, <2>13 DEF Local, Reached
  <2>15. \A q \in Requests \ {r} : Local(q)'
    BY <1>1, <2>4, <2>9, <2>11, LocalFrame
  <2>16. TransactionIsCurrent'
    <3>1. ASSUME NEW q \in Requests, pc'[q] = "entries",
                 NEW p \in Requests \ {q}, pc'[p] = "entries"
          PROVE  req[p].task # req[q].task
      BY <1>1, <2>4, <3>1 DEF TransactionIsCurrent, RowFree
    <3>2. ASSUME NEW q \in Requests, pc'[q] = "entries"
          PROVE  /\ ~tasks[req[q].task].deleted
                 /\ loc'[q].row = Patched(tasks[req[q].task],
                                          BuildPatch(req[q].body))
      BY <1>4, <2>4, <2>9, <3>2 DEF TransactionIsCurrent, Live, row, new
    <3> QED
      BY <1>1, <2>11, <3>1, <3>2 DEF TransactionIsCurrent
  <2> QED
    BY <2>10, <2>11, <2>14, <2>15, <2>16 DEF Rest
<1>5. CASE Live(row)
  BY <1>3, <1>4, <1>5 DEF UpdateTx
<1>6. CASE ~Live(row)
  <2>1. Affected(row, row) = {0} /\ Gone(row, 0)
    BY <1>6 DEF Affected, Gone, Live
  <2>2. Answer(r, 404, Null)
    BY <1>6, <2>1 DEF UpdateTx
  <2> QED BY <1>3, <2>2
<1> QED
  BY <1>5, <1>6

(* InsertHistory: the entries collected tell the values of the two rows.   *)
LEMMA InsertHistoryStep ==
  ASSUME IInv, NEW r \in Requests, InsertHistory(r)
  PROVE  Rest' /\ [LedgerNext]_ledger
<1> USE TypeSplit DEF IInv
<1>1. /\ pc[r] = "entries"
      /\ UNCHANGED <<tables, cache, pc, req, out, audit>>
  BY DEF InsertHistory
<1> DEFINE es == loc[r].entries  seen == loc[r].seen  row == loc[r].row
<1>2. PICK f \in loc[r].todo :
        loc' = [loc EXCEPT
              ![r].todo    = @ \ {f},
              ![r].entries = Append(@,
                 [field |-> f, by |-> req[r].actor,
                  old |-> loc[r].seen.val[f], new |-> loc[r].row.val[f]])]
  BY DEF InsertHistory
<1> DEFINE e == [field |-> f, by |-> req[r].actor,
                 old |-> seen.val[f], new |-> row.val[f]]
           w == [loc[r] EXCEPT !.todo = @ \ {f}, !.entries = Append(es, e)]
<1>3. /\ req[r] \in Inputs /\ ~Malformed(req[r]) /\ req[r].op = "update"
      /\ req[r].task \in DOMAIN tasks /\ seen \in Row /\ EntriesOK(r)
  BY <1>1 DEF Local, Reached
<1>4. row \in Row /\ loc[r] \in Work /\ f \in Fields /\ es \in Seq(Entry)
  BY <1>3 DEF EntriesOK, ServiceTypeOK, Work
<1>5. /\ e \in Entry /\ e.field = f /\ e.by = req[r].actor
      /\ e.old = seen.val[f] /\ e.new = row.val[f]
  BY <1>3, <1>4, InputFields DEF Row, Entry
<1>6. loc' = [loc EXCEPT ![r] = w]
  BY <1>2
<1> HIDE DEF e
<1>7. /\ Append(es, e) \in Seq(Entry) /\ Len(Append(es, e)) = Len(es) + 1
      /\ Append(es, e)[Len(es) + 1] = e
      /\ \A i \in 1..Len(es) : Append(es, e)[i] = es[i]
  BY <1>4, <1>5
<1>8. /\ w \in Work /\ w.todo = loc[r].todo \ {f} /\ w.entries = Append(es, e)
      /\ w.seen = seen /\ w.row = row
  BY <1>4, <1>7 DEF Work
<1> HIDE DEF w
<1>9. /\ loc' \in [Requests -> Work] /\ loc'[r] = w
      /\ \A q \in Requests \ {r} : loc'[q] = loc[q]
  BY <1>6, <1>8 DEF ServiceTypeOK
<1>10. ServiceTypeOK'
  BY <1>1, <1>9 DEF ServiceTypeOK, audit
<1>11. UNCHANGED ledger /\ tasks' = tasks
  BY <1>1 DEF tables, audit, ledger
<1>12. EntriesOK(r)'
  <2> DEFINE es1 == loc'[r].entries
             fields == Recorded(seen, row, BuildPatch(req[r].body))
  <2>1. /\ es1 = Append(es, e) /\ loc'[r].todo = loc[r].todo \ {f}
        /\ loc'[r].seen = seen /\ loc'[r].row = row /\ req' = req
    BY <1>1, <1>8, <1>9
  <2>2. Len(es) \in Nat /\ Len(es1) = Len(es) + 1
    BY <1>4, <1>7, <2>1
  <2>3. \A i \in 1..Len(es1) : IF i = Len(es) + 1 THEN es1[i] = e
                               ELSE i \in 1..Len(es) /\ es1[i] = es[i]
    BY <1>7, <2>1, <2>2
  <2>4. ASSUME NEW i \in 1..Len(es1)
        PROVE  /\ es1[i].field \in fields \ loc'[r].todo
               /\ es1[i].old = seen.val[es1[i].field]
               /\ es1[i].new = row.val[es1[i].field]
               /\ es1[i].by = req'[r].actor
    <3>1. ASSUME NEW k \in 1..Len(es)
          PROVE  /\ es[k].field \in fields \ loc[r].todo
                 /\ es[k].old = seen.val[es[k].field]
                 /\ es[k].new = row.val[es[k].field]
                 /\ es[k].by = req[r].actor
      BY <1>3 DEF EntriesOK
    <3>2. f \in fields
      BY <1>2, <1>3 DEF EntriesOK
    <3> HIDE DEF IInv, es, es1, seen, row, fields
    <3> QED
      BY <1>5, <2>1, <2>3, <3>1, <3>2
  <2>5. ASSUME NEW i \in 1..Len(es1), NEW j \in 1..Len(es1),
               es1[i].field = es1[j].field
        PROVE  i = j
    <3>1. /\ \A k \in 1..Len(es) : es[k].field # f
          /\ \A k, l \in 1..Len(es) : es[k].field = es[l].field => k = l
      <4>1. f \in loc[r].todo
        BY <1>2
      <4>2. \A k \in 1..Len(es) : es[k].field \notin loc[r].todo
        BY <1>3 DEF EntriesOK
      <4>3. \A k, l \in 1..Len(es) : es[k].field = es[l].field => k = l
        BY <1>3, Zenon DEF EntriesOK
      <4> QED BY <4>1, <4>2, <4>3, Zenon
    <3> HIDE DEF es, es1
    <3>2. \A k \in 1..Len(es1) : k # Len(es) + 1 =>
            k \in 1..Len(es) /\ es1[k] = es[k] /\ es1[k].field # f
      BY <2>3, <3>1
    <3>3. es1[Len(es) + 1].field = f
      BY <1>5, <2>2, <2>3
    <3> QED
      BY <2>5, <3>1, <3>2, <3>3
  <2>6. ASSUME NEW g \in Recorded(seen, row, BuildPatch(req[r].body))
        PROVE  g \in loc'[r].todo \/ \E i \in 1..Len(es1) : es1[i].field = g
    <3>1. CASE g = f
      <4>1. Len(es) + 1 \in 1..Len(es1)
        BY <2>2
      <4> HIDE DEF IInv, es, es1
      <4>2. es1[Len(es) + 1].field = g
        BY <1>5, <2>3, <3>1, <4>1
      <4> QED
        BY <4>1, <4>2
    <3>2. CASE g # f
      <4>1. g \in loc[r].todo \/ \E i \in 1..Len(es) : es[i].field = g
        BY <1>3 DEF EntriesOK
      <4> HIDE DEF IInv, es, es1
      <4>2. \A i \in 1..Len(es) : i \in 1..Len(es1) /\ es1[i] = es[i]
        BY <2>2, <2>3
      <4> QED
        BY <2>1, <3>2, <4>1, <4>2
    <3> QED
      BY <3>1, <3>2
  <2>7. loc'[r].todo \subseteq fields
    BY <1>3, <2>1 DEF EntriesOK
  <2> HIDE DEF es1
  <2> QED
    BY <1>4, <2>1, <2>4, <2>5, <2>6, <2>7, ZenonT(30) DEF EntriesOK, es1
<1>13. Malformed(req[r])' = Malformed(req[r])
  BY <1>1 DEF Malformed
<1>14. Local(r)'
  BY <1>1, <1>3, <1>8, <1>9, <1>11, <1>12, <1>13 DEF Local, Reached
<1>15. \A q \in Requests \ {r} : Local(q)'
  BY <1>1, <1>9, <1>11, LocalFrame
<1>16. TransactionIsCurrent'
  BY <1>1, <1>8, <1>9, <1>11 DEF TransactionIsCurrent
<1> QED
  BY <1>10, <1>11, <1>14, <1>15, <1>16 DEF Rest

(* Commit: a change of the ledger, raced when the row read was stale.      *)
LEMMA CommitStep ==
  ASSUME IInv, NEW r \in Requests, Commit(r)
  PROVE  Rest' /\ [LedgerNext]_ledger
<1> USE TypeSplit DEF IInv
<1> DEFINE t == req[r].task  row == loc[r].row  es == loc[r].entries
           seen == loc[r].seen  patch == BuildPatch(req[r].body)
           fields == Recorded(seen, row, patch)
<1>1. /\ pc[r] = "entries" /\ loc[r].todo = {}
      /\ tasks'   = [tasks EXCEPT ![t] = row]
      /\ history' = [history EXCEPT ![t] = @ \o es]
      /\ raced'   = IF seen = tasks[t] THEN raced ELSE raced \cup {t}
      /\ Written(r, row)
      /\ UNCHANGED <<cache, req, created, members>>
  BY DEF Commit
<1>2. /\ req[r] \in Inputs /\ ~Malformed(req[r]) /\ req[r].op = "update"
      /\ t \in DOMAIN tasks /\ seen \in Row /\ EntriesOK(r)
  BY <1>1 DEF Local, Reached
<1>3. /\ row \in Row /\ row = Patched(tasks[t], patch)
      /\ ~tasks[t].deleted /\ tasks[t] \in Row
  <2>1. row = Patched(tasks[t], patch) /\ ~tasks[t].deleted
    BY <1>1 DEF TransactionIsCurrent
  <2>2. row \in Row
    BY <1>2 DEF EntriesOK
  <2>3. tasks[t] \in Row
    BY <1>2 DEF LedgerTypeOK
  <2> QED
    BY <2>1, <2>2, <2>3
<1>4. /\ row.deleted = tasks[t].deleted /\ row.team = tasks[t].team
      /\ row.by = tasks[t].by
      /\ \A f \in Fields \ DOMAIN patch : row.val[f] = tasks[t].val[f]
  <2>1. row = Patched(tasks[t], patch) /\ tasks[t] \in Row
    BY <1>3
  <2> HIDE DEF IInv, row, t, patch
  <2> QED
    BY <2>1 DEF Patched, Row
<1>5. es \in Seq(Entry) /\ history[t] \in Seq(Entry) /\ t \in DOMAIN history
  BY <1>2 DEF ServiceTypeOK, Work, LedgerTypeOK
<1>6. tasks'[t] = row /\ DOMAIN tasks' = DOMAIN tasks
      /\ \A u \in DOMAIN tasks \ {t} : tasks'[u] = tasks[u]
  BY <1>1, <1>2 DEF LedgerTypeOK
<1>7. /\ history'[t] = history[t] \o es
      /\ history' = [history EXCEPT ![t] = history'[t]]
  BY <1>1, <1>5
<1>8. /\ \A i \in 1..Len(es) : /\ es[i].old = seen.val[es[i].field]
                               /\ es[i].new = row.val[es[i].field]
                               /\ es[i].field \in fields
      /\ \A i, j \in 1..Len(es) : es[i].field = es[j].field => i = j
      /\ \A f \in fields :
            \E i \in 1..Len(es) : es[i].field = f
  BY <1>1, <1>2 DEF EntriesOK
<1> DEFINE h == history[t]  h1 == history'[t]
<1>9. /\ h1 \in Seq(Entry) /\ Len(h) <= Len(h1)
      /\ Added(t) = (Len(h) + 1)..Len(h1)
      /\ \A i \in 1..Len(h) : h1[i] = h[i]
      /\ \A i \in Added(t) : i - Len(h) \in 1..Len(es) /\ h1[i] = es[i - Len(h)]
      /\ \A i \in 1..Len(es) : /\ Len(h) + i \in Added(t)
                               /\ h1[Len(h) + i] = es[i]
  <2>1. h \in Seq(Entry) /\ h1 = h \o es /\ Added(t) = (Len(h) + 1)..Len(h1)
    BY <1>5, <1>7 DEF Added
  <2>2. es \in Seq(Entry)
    BY <1>5
  <2> HIDE DEF h, h1, es, t
  <2> QED
    BY <2>1, <2>2, ConcatIndex, SMTT(30)
<1>10. Extended(t) /\ (seen = tasks[t] => Faithful(t))
  <2> HIDE DEF es, seen, row, h, h1, fields, t, patch, IInv
  <2>1. \A i \in Added(t) : h1[i].new = row.val[h1[i].field]
                            /\ h1[i].old = seen.val[h1[i].field]
                            /\ h1[i].field \in fields
    <3> TAKE i \in Added(t)
    <3>1. i - Len(h) \in 1..Len(es) /\ h1[i] = es[i - Len(h)]
      BY <1>9
    <3> QED BY <1>8, <3>1
  <2>2. \A i, j \in Added(t) : h1[i].field = h1[j].field => i = j
    <3> SUFFICES ASSUME NEW i \in Added(t), NEW j \in Added(t),
                        h1[i].field = h1[j].field
                 PROVE  i = j
      OBVIOUS
    <3> DEFINE k == i - Len(h)  l == j - Len(h)
    <3>1. k \in 1..Len(es) /\ h1[i] = es[k] /\ l \in 1..Len(es) /\ h1[j] = es[l]
      BY <1>9
    <3> HIDE DEF k, l
    <3>2. k = l
      BY <1>8, <3>1
    <3>3. i \in Int /\ j \in Int /\ Len(h) \in Int
      BY <1>5, <1>9 DEF h
    <3> QED
      BY <3>2, <3>3 DEF k, l
  <2>3. Extended(t)
    BY <1>6, <1>7, <1>9, <2>1, <2>2 DEF Extended, h, h1
  <2>4. ASSUME seen = tasks[t], NEW f \in Fields, row.val[f] # tasks[t].val[f]
        PROVE  \E i \in Added(t) : h1[i].field = f
    <3>1. f \in fields
      BY <1>4, <2>4 DEF Recorded, row, fields, patch
    <3>2. PICK j \in 1..Len(es) : es[j].field = f
      BY <1>8, <3>1
    <3> QED
      BY <1>9, <3>2
  <2>5. \A i \in Added(t) : h1[i].old = h1[i].new => h1[i].field = "assignee_id"
    BY <2>1 DEF Recorded, fields
  <2> QED
    BY <1>6, <2>1, <2>3, <2>4, <2>5 DEF Faithful, h1
<1>11. LedgerNext
  BY <1>1, <1>2, <1>3, <1>4, <1>6, <1>10 DEF LedgerNext, LedgerChange
<1>12. \A q \in Requests \ {r} : pc[q] = "entries" =>
          tasks'[req[q].task] = tasks[req[q].task]
  <2>1. \A q \in Requests \ {r} : pc[q] = "entries" =>
          req[q].task # t /\ req[q].task \in DOMAIN tasks
    BY <1>1 DEF TransactionIsCurrent, Local
  <2> QED
    BY <1>6, <2>1
<1> QED
  BY <1>1, <1>2, <1>3, <1>6, <1>11, <1>12, WriteStep

(* SoftDelete: a deletion of the ledger, of a row nobody has locked.       *)
LEMMA SoftDeleteStep ==
  ASSUME IInv, NEW r \in Requests, SoftDelete(r)
  PROVE  Rest' /\ [LedgerNext]_ledger
<1> USE TypeSplit DEF IInv
<1> DEFINE t == req[r].task
<1>1. pc[r] = "delete" /\ RowFree(r) /\ UNCHANGED <<cache, req>>
  BY DEF SoftDelete
<1>2. /\ req[r] \in Inputs /\ ~Malformed(req[r]) /\ req[r].op = "delete"
      /\ t \in DOMAIN tasks
  BY <1>1 DEF Local, Reached
<1>3. CASE Answer(r, 404, Null) /\ UNCHANGED <<tables, audit>>
  BY <1>1, <1>2, <1>3, QuietAnswer DEF audit, ServiceTypeOK
<1>4. CASE /\ Live(tasks[t])
           /\ tasks' = [tasks EXCEPT ![t].deleted = TRUE]
           /\ Written(r, tasks[t])
           /\ UNCHANGED <<history, created, members, raced>>
  <2>1. LedgerNext
    BY <1>2, <1>4 DEF LedgerNext, LedgerDelete, Live
  <2>2. tasks[t] \in Row /\ DOMAIN tasks' = DOMAIN tasks
        /\ \A u \in DOMAIN tasks \ {t} : tasks'[u] = tasks[u]
    BY <1>2, <1>4 DEF LedgerTypeOK
  <2>3. \A q \in Requests \ {r} : pc[q] = "entries" =>
          req[q].task # t /\ req[q].task \in DOMAIN tasks
    BY <1>1 DEF RowFree, Local
  <2>4. \A q \in Requests \ {r} : pc[q] = "entries" =>
          tasks'[req[q].task] = tasks[req[q].task]
    BY <2>2, <2>3
  <2> QED
    BY <1>1, <1>2, <1>4, <2>1, <2>2, <2>4, WriteStep
<1> QED
  BY <1>3, <1>4 DEF SoftDelete

(* ReadHistory: an answer and nothing else.                                *)
LEMMA ReadHistoryStep ==
  ASSUME IInv, NEW r \in Requests, ReadHistory(r)
  PROVE  Rest' /\ [LedgerNext]_ledger
<1> USE TypeSplit DEF IInv
<1>1. req[r] \in Inputs
  BY DEF ReadHistory, Local
<1> QED
  BY <1>1, QuietAnswer DEF ReadHistory, audit, ServiceTypeOK

(* What remains of the cache when a key is deleted.                        *)
LEMMA WithoutType ==
  ASSUME ServiceTypeOK, NEW k
  PROVE  /\ DOMAIN Without(k) \subseteq Key
         /\ \A l \in DOMAIN Without(k) : Without(k)[l] \in Page
  BY DEF ServiceTypeOK, Without

(* The codes of success are numbers.                                       *)
LEMMA SuccessType ==
  ASSUME NEW r, req[r].op \in {"create", "update", "delete"}
  PROVE  Success(r) \in Nat
  BY DEF Success

(* InvalidateKey: deletes a page.                                          *)
LEMMA InvalidateKeyStep ==
  ASSUME IInv, NEW r \in Requests, InvalidateKey(r)
  PROVE  Rest' /\ [LedgerNext]_ledger
<1> USE TypeSplit DEF IInv
<1>1. PICK k \in loc[r].keys :
        /\ cache'  = Without(k)
        /\ leaked' = leaked \ {k}
        /\ \/ Answer(r, Success(r), Result(r))
           \/ /\ loc' = [loc EXCEPT ![r].keys = @ \ {k}]
              /\ UNCHANGED <<pc, out>>
  BY DEF InvalidateKey
<1>2. pc[r] = "invalidate" /\ UNCHANGED <<tables, req, applied, raced, overtaken>>
  BY DEF InvalidateKey
<1>3. /\ req[r] \in Inputs /\ ~Malformed(req[r])
      /\ req[r].op \in {"create", "update", "delete"}
      /\ loc[r].entries = <<>> /\ loc[r].row \in Row
  BY <1>2 DEF Local, Reached
<1>4. /\ DOMAIN cache' \subseteq Key /\ \A l \in DOMAIN cache' : cache'[l] \in Page
      /\ leaked' \subseteq Key
  BY <1>1, WithoutType DEF ServiceTypeOK
<1>5. CASE Answer(r, Success(r), Result(r))
  BY <1>2, <1>3, <1>4, <1>5, SuccessType, QuietAnswer
<1>6. CASE /\ loc' = [loc EXCEPT ![r].keys = @ \ {k}]
           /\ UNCHANGED <<pc, out>>
  <2>1. /\ loc' \in [Requests -> Work] /\ loc'[r].entries = <<>>
        /\ loc'[r].row = loc[r].row
        /\ \A q \in Requests \ {r} : loc'[q] = loc[q]
    BY <1>3, <1>6, ZenonT(40) DEF ServiceTypeOK, Work
  <2>2. ServiceTypeOK'
    BY <1>2, <1>4, <1>6, <2>1 DEF ServiceTypeOK
  <2>3. Malformed(req[r])' = Malformed(req[r])
    BY <1>2 DEF Malformed
  <2>4. Local(r)'
    BY <1>2, <1>3, <1>6, <2>1, <2>3 DEF Local, Reached
  <2> QED
    BY <1>2, <1>6, <2>1, <2>2, <2>4, QuietStep
<1> QED
  BY <1>1, <1>5, <1>6

(* InvalidateFails: leaves the pages there.                                *)
LEMMA InvalidateFailsStep ==
  ASSUME IInv, NEW r \in Requests, InvalidateFails(r)
  PROVE  Rest' /\ [LedgerNext]_ledger
<1> USE TypeSplit DEF IInv
<1>1. pc[r] = "invalidate" /\ leaked' = leaked \cup loc[r].keys
      /\ Answer(r, Success(r), Result(r))
      /\ UNCHANGED <<tables, cache, req, applied, raced, overtaken>>
  BY DEF InvalidateFails
<1>2. req[r] \in Inputs /\ req[r].op \in {"create", "update", "delete"}
  BY <1>1 DEF Local, Reached
<1>3. loc[r].keys \subseteq Key
  BY DEF ServiceTypeOK, Work
<1> QED
  BY <1>1, <1>2, <1>3, SuccessType, QuietAnswer DEF ServiceTypeOK

(* CacheGet: answers a page or goes to the database.                       *)
LEMMA CacheGetStep ==
  ASSUME IInv, NEW r \in Requests, CacheGet(r)
  PROVE  Rest' /\ [LedgerNext]_ledger
<1> USE TypeSplit DEF IInv
<1> DEFINE page == cache[KeyOf(req[r].filter)]
<1>1. /\ pc[r] = "lookup" /\ UNCHANGED <<tables, cache, req, audit>>
      /\ \/ Answer(r, 200, [page |-> page])
         \/ Goto(r, "rows") /\ UNCHANGED <<loc, out>>
  BY DEF CacheGet
<1>2. req[r] \in Inputs /\ ~Malformed(req[r]) /\ req[r].op = "list"
      /\ loc[r].entries = <<>>
  BY <1>1 DEF Local, Reached
<1>3. CASE Answer(r, 200, [page |-> page])
  <2> HIDE DEF page
  <2> QED
    BY <1>1, <1>2, <1>3, QuietAnswer DEF audit, ServiceTypeOK
<1>4. CASE Goto(r, "rows") /\ UNCHANGED <<loc, out>>
  <2>1. /\ pc' \in [Requests -> Steps] /\ pc'[r] = "rows"
        /\ \A q \in Requests \ {r} : pc'[q] = pc[q]
    BY <1>4, GotoType DEF Steps
  <2>2. ServiceTypeOK'
    BY <1>1, <1>4, <2>1 DEF ServiceTypeOK, audit
  <2>3. Malformed(req[r])' = Malformed(req[r])
    BY <1>1 DEF Malformed
  <2>4. Local(r)'
    BY <1>1, <1>2, <1>4, <2>1, <2>3 DEF Local, Reached
  <2> QED
    BY <1>1, <1>4, <2>1, <2>2, <2>4, QuietStep DEF audit
<1> QED
  BY <1>1, <1>3, <1>4

(* The step of a list request that read a part of its page.                *)
LEMMA PageStep ==
  ASSUME IInv, NEW r \in Requests, NEW page \in Page,
         NEW step \in {"count", "store"},
         pc[r] \in {"rows", "count"},
         loc' = [loc EXCEPT ![r].page = page], Goto(r, step),
         UNCHANGED <<tables, cache, req, out, audit>>
  PROVE  Rest' /\ [LedgerNext]_ledger
<1> USE TypeSplit DEF IInv
<1>1. req[r] \in Inputs /\ ~Malformed(req[r]) /\ req[r].op = "list"
      /\ loc[r].entries = <<>>
  BY DEF Local, Reached
<1>2. /\ pc' \in [Requests -> Steps] /\ pc'[r] = step
      /\ \A q \in Requests \ {r} : pc'[q] = pc[q]
  BY GotoType DEF Steps
<1>3. /\ loc' \in [Requests -> Work] /\ loc'[r].entries = <<>>
      /\ loc'[r].page = page
      /\ \A q \in Requests \ {r} : loc'[q] = loc[q]
  BY <1>1, ZenonT(40) DEF ServiceTypeOK, Work
<1>4. ServiceTypeOK'
  BY <1>2, <1>3 DEF ServiceTypeOK, audit
<1>5. Malformed(req[r])' = Malformed(req[r])
  BY DEF Malformed
<1>6. Local(r)'
  BY <1>1, <1>2, <1>3, <1>5 DEF Local, Reached
<1> QED
  BY <1>2, <1>3, <1>4, <1>6, QuietStep DEF audit

(* SelectRows: starts a page.                                              *)
LEMMA SelectRowsStep ==
  ASSUME IInv, NEW r \in Requests, SelectRows(r)
  PROVE  Rest' /\ [LedgerNext]_ledger
<1> USE TypeSplit DEF IInv
<1> DEFINE f == req[r].filter
           page == [for |-> f, total |-> 0, items |-> ListRows(tasks, f)]
<1>1. /\ pc[r] = "rows" /\ UNCHANGED <<tables, cache, req, out, audit>>
      /\ loc' = [loc EXCEPT ![r].page = page] /\ Goto(r, "count")
  BY DEF SelectRows
<1>2. f \in Filter /\ tasks \in Seq(Row)
  BY <1>1, InputFields, SMTT(30) DEF Local, Reached, LedgerTypeOK
<1>3. page \in Page
  BY <1>2, QueryType DEF Page
<1> HIDE DEF page
<1> QED
  BY <1>1, <1>3, PageStep

(* SelectCount: completes it.                                              *)
LEMMA SelectCountStep ==
  ASSUME IInv, NEW r \in Requests, SelectCount(r)
  PROVE  Rest' /\ [LedgerNext]_ledger
<1> USE TypeSplit DEF IInv
<1> DEFINE n == CountRows(tasks, req[r].filter)
           page == [loc[r].page EXCEPT !.total = n]
<1>1. /\ pc[r] = "count" /\ UNCHANGED <<tables, cache, req, out, audit>>
      /\ loc' = [loc EXCEPT ![r].page.total = n] /\ Goto(r, "store")
  BY DEF SelectCount
<1>2. req[r].filter \in Filter /\ tasks \in Seq(Row) /\ loc[r].page \in Page
  BY <1>1, InputFields DEF Local, Reached, LedgerTypeOK
<1>3. n \in Nat
  BY <1>2, QueryType
<1> HIDE DEF n
<1>4. page \in Page
  BY <1>2, <1>3 DEF Page
<1>5. loc' = [loc EXCEPT ![r].page = page]
  BY <1>1 DEF ServiceTypeOK, Work
<1> HIDE DEF page
<1> QED
  BY <1>1, <1>4, <1>5, PageStep

(* Store: a page goes into the cache under a key.                          *)
LEMMA StoreStep ==
  ASSUME IInv, NEW r \in Requests, Store(r)
  PROVE  Rest' /\ [LedgerNext]_ledger
<1> USE TypeSplit DEF IInv
<1> DEFINE k == KeyOf(req[r].filter)  page == loc[r].page
<1>1. /\ pc[r] = "store" /\ Answer(r, 200, [page |-> page])
      /\ UNCHANGED <<tables, req, applied, raced, overtaken>>
      /\ \/ /\ cache' = [l \in DOMAIN cache \cup {k} |->
                             IF l = k THEN page ELSE cache[l]]
            /\ leaked' = IF r \in overtaken THEN leaked \cup {k} ELSE leaked \ {k}
         \/ UNCHANGED <<cache, leaked>>
  BY DEF Store
<1>2. /\ req[r] \in Inputs /\ req[r].op = "list" /\ ~Malformed(req[r])
      /\ page \in Page
  BY <1>1 DEF Local, Reached
<1>3. k \in Key
  BY <1>2, InputFields DEF KeyOf, Key, Filter, Malformed
<1> HIDE DEF k, page
<1>4. /\ DOMAIN cache' \subseteq Key /\ \A l \in DOMAIN cache' : cache'[l] \in Page
      /\ leaked' \subseteq Key
  BY <1>1, <1>2, <1>3 DEF ServiceTypeOK
<1> QED
  BY <1>1, <1>2, <1>4, QuietAnswer

(* DBError: an answer; an open transaction leaves no trace.                *)
LEMMA DBErrorStep ==
  ASSUME IInv, NEW r \in Requests, DBError(r)
  PROVE  Rest' /\ [LedgerNext]_ledger
<1> USE TypeSplit DEF IInv
<1>1. req[r] \in Inputs /\ Answer(r, 500, Null)
      /\ UNCHANGED <<tables, cache, req, audit>>
  BY DEF DBError, Local
<1>2. /\ UNCHANGED <<tables, raced, req, applied, overtaken>>
      /\ DOMAIN cache' \subseteq Key /\ \A k \in DOMAIN cache' : cache'[k] \in Page
      /\ leaked' \subseteq Key
  BY <1>1 DEF audit, ServiceTypeOK
<1>3. IInv
  OBVIOUS
<1> HIDE DEF IInv
<1> QED
  BY <1>1, <1>2, <1>3, QuietAnswer

(* Crash: every request is over, the tables stay as they are.              *)
LEMMA CrashStep ==
  ASSUME IInv, Crash
  PROVE  Rest' /\ [LedgerNext]_ledger
<1> USE TypeSplit DEF IInv
<1>1. /\ pc'  = [r \in Requests |-> IF r \in InFlight THEN "done" ELSE pc[r]]
      /\ out' = [r \in Requests |-> IF r \in InFlight THEN Lost ELSE out[r]]
      /\ loc' = [r \in Requests |-> NoWork]
      /\ leaked' = leaked \cup UNION {loc[r].keys : r \in Requests}
      /\ UNCHANGED <<tables, cache, req, applied, raced, overtaken>>
  BY DEF Crash
<1>2. \A r \in Requests : pc'[r] \in {"idle", "done"} /\ loc'[r] = NoWork
  BY <1>1 DEF InFlight
<1>3. leaked' \subseteq Key
  BY <1>1 DEF ServiceTypeOK, Work
<1>4. /\ pc' \in [Requests -> Steps] /\ loc' \in [Requests -> Work]
      /\ DOMAIN out' = Requests /\ \A r \in Requests : out'[r].code \in Nat
  BY <1>1, <1>2, NoWorkType DEF ServiceTypeOK, Steps, Lost
<1>5. ServiceTypeOK'
  BY <1>1, <1>3, <1>4 DEF ServiceTypeOK
<1>6. ASSUME NEW r \in Requests PROVE Local(r)'
  BY <1>1, <1>2 DEF Local, NoWork, InFlight
<1>7. TransactionIsCurrent'
  BY <1>2 DEF TransactionIsCurrent
<1> QED
  BY <1>1, <1>5, <1>6, <1>7 DEF Rest, tables, ledger

(* Expire: deletes a page.                                                 *)
LEMMA ExpireStep ==
  ASSUME IInv, NEW k, Expire(k)
  PROVE  Rest' /\ [LedgerNext]_ledger
<1> USE TypeSplit DEF IInv
<1>1. /\ cache'  = Without(k)
      /\ leaked' = leaked \ {k}
      /\ UNCHANGED <<tables, pc, req, loc, out, applied, raced, overtaken>>
  BY DEF Expire
<1>2. ServiceTypeOK'
  BY <1>1, WithoutType DEF ServiceTypeOK
<1>3. tasks' = tasks /\ UNCHANGED ledger
  BY <1>1 DEF tables, ledger
<1>4. \A r \in Requests : Local(r)'
  BY <1>1, <1>3, LocalFrame
<1>5. TransactionIsCurrent'
  BY <1>1, <1>3 DEF TransactionIsCurrent
<1> QED
  BY <1>2, <1>3, <1>4, <1>5 DEF Rest

(* Join: nothing of a request and nothing of the ledger changes.           *)
LEMMA JoinStep ==
  ASSUME IInv, Join
  PROVE  Rest' /\ [LedgerNext]_ledger
<1> USE TypeSplit DEF IInv
<1>1. /\ UNCHANGED <<cache, pc, req, loc, out, applied, overtaken, leaked>>
      /\ tasks' = tasks /\ UNCHANGED ledger
  BY DEF Join, audit, ledger
<1>2. ServiceTypeOK' /\ TransactionIsCurrent'
  BY <1>1 DEF ServiceTypeOK, TransactionIsCurrent
<1>3. \A r \in Requests : Local(r)'
  BY <1>1, LocalFrame
<1> QED
  BY <1>1, <1>2, <1>3 DEF Rest

(* Table team_members gains rows and loses none.                           *)
LEMMA MembersGrow ==
  ASSUME [Next]_vars
  PROVE  members \subseteq members' /\ (MembersTypeOK => MembersTypeOK')
<1>1. CASE UNCHANGED members
  BY <1>1 DEF MembersTypeOK
<1>2. CASE Join
  BY <1>2 DEF Join, MembersTypeOK
<1>3. CASE \E r \in Requests : Accept(r) \/ Serve(r) \/ DBError(r)
  <2> USE <1>1 DEF tables
  <2>1. PICK r \in Requests : Accept(r) \/ Serve(r) \/ DBError(r)
    BY <1>3
  <2>2. CASE Insert(r)
    BY <2>2 DEF Insert
  <2>3. CASE Accept(r) \/ DBError(r) \/ Find(r) \/ Member(r)
    BY <2>3 DEF Accept, DBError, Find, Member
  <2>4. CASE UpdateTx(r) \/ InsertHistory(r)
    BY <2>4 DEF UpdateTx, InsertHistory
  <2>5. CASE Commit(r)
    BY <2>5 DEF Commit
  <2>6. CASE SoftDelete(r)
    BY <2>6 DEF SoftDelete
  <2>7. CASE InvalidateKey(r) \/ InvalidateFails(r) \/ ReadHistory(r)
    BY <2>7 DEF InvalidateKey, InvalidateFails, ReadHistory
  <2>8. CASE CacheGet(r) \/ SelectRows(r) \/ SelectCount(r) \/ Store(r)
    BY <2>8 DEF CacheGet, SelectRows, SelectCount, Store
  <2> QED
    BY <2>1, <2>2, <2>3, <2>4, <2>5, <2>6, <2>7, <2>8 DEF Serve
<1>4. CASE Crash \/ \E k \in DOMAIN cache : Expire(k)
  BY <1>1, <1>4 DEF Crash, Expire, tables
<1>5. CASE UNCHANGED vars
  BY <1>1, <1>5 DEF vars, tables
<1> QED
  BY <1>2, <1>3, <1>4, <1>5 DEF Next, Finished

-------------------------------------------------------------------------------
(* The invariant is inductive, and every step is a step of the ledger.     *)

(* The initial states satisfy the invariant and are those of the ledger.   *)
LEMMA InitIInv == Init => IInv /\ LedgerInit
<1> SUFFICES ASSUME Init PROVE IInv /\ LedgerInit
  OBVIOUS
<1>1. InitialTasks \in Seq(Row)
  BY ServiceAssumption
<1>2. LedgerInit
  BY <1>1 DEF Init, LedgerInit
<1>3. LedgerTypeOK
  BY <1>2, LedgerInitial
<1>4. ServiceTypeOK
  BY NoWorkType DEF Init, ServiceTypeOK, Steps, NoAnswer
<1>5. \A r \in Requests : Local(r)
  BY DEF Init, Local, NoWork
<1>6. TransactionIsCurrent
  BY DEF Init, TransactionIsCurrent
<1>7. MembersTypeOK
  BY ServiceAssumption DEF Init, MembersTypeOK
<1> QED
  BY <1>2, <1>3, <1>4, <1>5, <1>6, <1>7, TypeSplit DEF IInv

(* The invariant is inductive, and every step is a step of the ledger or none. *)
LEMMA NextIInv == IInv /\ [Next]_vars => IInv' /\ [LedgerNext]_ledger
<1> SUFFICES ASSUME IInv, [Next]_vars PROVE IInv' /\ [LedgerNext]_ledger
  OBVIOUS
<1>1. ASSUME NEW r \in Requests, Serve(r) PROVE Rest' /\ [LedgerNext]_ledger
  BY <1>1, FindStep, MemberStep, InsertStep, UpdateTxStep, InsertHistoryStep,
     CommitStep, SoftDeleteStep, InvalidateKeyStep, InvalidateFailsStep,
     ReadHistoryStep, CacheGetStep, SelectRowsStep, SelectCountStep, StoreStep
     DEF Serve
<1>2. ASSUME UNCHANGED vars PROVE Rest' /\ [LedgerNext]_ledger
  <2>1. /\ UNCHANGED <<cache, pc, req, loc, out>>
        /\ UNCHANGED <<applied, overtaken, leaked>> /\ tasks' = tasks
        /\ UNCHANGED ledger
    BY <1>2 DEF vars, tables, audit, ledger
  <2>2. ServiceTypeOK' /\ TransactionIsCurrent'
    BY <2>1, TypeSplit DEF ServiceTypeOK, TransactionIsCurrent, IInv
  <2>3. \A r \in Requests : Local(r)'
    BY <2>1, LocalFrame DEF IInv
  <2> QED
    BY <2>1, <2>2, <2>3 DEF Rest
<1>3. Rest' /\ [LedgerNext]_ledger
  <2>1. CASE \E r \in Requests : Accept(r) \/ Serve(r) \/ DBError(r)
    BY <1>1, <2>1, AcceptStep, DBErrorStep
  <2>2. CASE \E k \in DOMAIN cache : Expire(k)
    BY <2>2, ExpireStep
  <2>3. CASE Crash
    BY <2>3, CrashStep
  <2>4. CASE UNCHANGED vars
    BY <1>2, <2>4
  <2>5. CASE Join
    BY <2>5, JoinStep
  <2> QED
    BY <2>1, <2>2, <2>3, <2>4, <2>5 DEF Next, Finished
<1>4. LedgerTypeOK'
  BY <1>3, LedgerNextTypes, TypeSplit DEF IInv
<1>5. TypeOK'
  <2>1. MembersTypeOK'
    BY MembersGrow, TypeSplit DEF IInv
  <2> QED
    BY <1>3, <1>4, <2>1 DEF Rest, TypeOK, ServiceTypeOK, LedgerTypeOK, MembersTypeOK
<1> QED
  BY <1>3, <1>5 DEF Rest, IInv

(* Together: the invariant holds in every reachable state.                 *)
LEMMA Invariance == Spec => []IInv
<1> QED
  BY InitIInv, NextIInv, PTL DEF Spec

(* Every variable keeps its type, whatever the requests and their number.  *)
THEOREM ServiceTypes == Spec => []TypeOK
<1>1. IInv => TypeOK
  BY DEF IInv
<1> QED
  BY <1>1, Invariance, PTL

(* A row lock has one holder, whose pending row is the committed one with  *)
(* its patch applied: no update silently undoes another one's fields.      *)
THEOREM TransactionsAreCurrent == Spec => []TransactionIsCurrent
<1>1. IInv => TransactionIsCurrent
  BY DEF IInv
<1> QED
  BY <1>1, Invariance, PTL

(* The interleaved service with its failures and crashes implements the    *)
(* ledger, whose rows change together with their history.                  *)
THEOREM ServiceImplementsLedger == Spec => ImplementsLedger
<1>1. Init => LedgerInit
  BY InitIInv
<1>2. IInv /\ [Next]_vars => [LedgerNext]_ledger
  BY NextIInv
<1> QED
  BY <1>1, <1>2, Invariance, PTL DEF Spec, ImplementsLedger, LedgerSpec

(* In the service, the history of a task that no update changed on the     *)
(* ground of a stale read explains every field of its row.                 *)
THEOREM ServiceHistoryExplains == Spec => []HistoryExplainsRow
  BY ServiceImplementsLedger, LedgerExplains DEF ImplementsLedger

(* In the service, a deleted task keeps its row and its history.           *)
THEOREM ServiceDeletedIsFinal == Spec => DeletedIsFinal
  BY ServiceImplementsLedger, LedgerFinal DEF ImplementsLedger

-------------------------------------------------------------------------------
(* What the answers promise.  A second invariant, on top of IInv, says of  *)
(* each request whether its write took effect, that its actor was found in *)
(* the team, and what the page it is about to answer shows.                *)

(* The team a request is about, and that its actor is a member of it.      *)
Target(r) == CASE req[r].op = "create" -> req[r].team
               [] req[r].op = "list"   -> req[r].filter.team
               [] OTHER                -> tasks[req[r].task].team

May(r) == /\ req[r].op \in {"create", "list"} \/ req[r].task \in DOMAIN tasks
          /\ <<req[r].actor, Target(r)>> \in members

(* A page shows live rows of its team and status only.                     *)
Shown(page) ==
    \A item \in page.items :
        /\ item.row.team = page.for.team /\ ~item.row.deleted
        /\ page.for.status \in {"any", item.row.val["status"]}

Told(r) ==
    /\ out[r].code \in {400, 403, 404} => r \notin applied
    /\ out[r].code \in {200, 201, 204} => (r \in applied <=> req[r].op \in Writes)
    /\ out[r].code = 200 => May(r) /\ req[r].op # "create"
    /\ out[r].code = 200 /\ req[r].op = "list" =>
          KeyOf(out[r].body.page.for) = KeyOf(req[r].filter) /\ Shown(out[r].body.page)

Checked == {"insert", "update", "entries", "delete", "history",
            "lookup", "rows", "count", "store"}

Kept(r) ==
    /\ pc[r] \notin {"invalidate", "done"} => r \notin applied
    /\ pc[r] = "invalidate" => r \in applied
    /\ r \in applied => req[r].op \in Writes /\ May(r)
    /\ pc[r] \in Checked => May(r)
    /\ pc[r] = "member" /\ req[r].op \notin {"create", "list"} =>
          loc[r].seen.team = Target(r)
    /\ pc[r] \in {"count", "store"} =>
          loc[r].page.for = req[r].filter /\ Shown(loc[r].page)
    /\ pc[r] = "done" => Told(r)

CacheShown == \A k \in DOMAIN cache : KeyOf(cache[k].for) = k /\ Shown(cache[k])

Promises == CacheShown /\ \A r \in Requests : Kept(r)

(* An answer is what the client sees, and leaves the others alone.         *)
LEMMA AnswerSeen ==
  ASSUME ServiceTypeOK, NEW r \in Requests, NEW code, NEW body, Answer(r, code, body)
  PROVE  /\ out'[r].code = code /\ out'[r].body = body /\ pc'[r] = "done"
         /\ \A q \in Requests \ {r} :
               pc'[q] = pc[q] /\ loc'[q] = loc[q] /\ out'[q] = out[q]
  BY DEF Answer, Goto, ServiceTypeOK

(* The calls that write the tables have written, or answer and have not.   *)
LEMMA WriteOutcomes ==
  ASSUME NEW r \in Requests, Insert(r) \/ Commit(r) \/ SoftDelete(r)
  PROVE  /\ req' = req
         /\ \/ \E row : Written(r, row)
            \/ /\ applied' = applied
               /\ Answer(r, 404, Null) \/ Answer(r, 500, Null)
<1>1. CASE Insert(r)
  <2> DEFINE row == NewRow(req[r].team, req[r].actor, req[r].body)
  <2>1. /\ req' = req
        /\ \/ Written(r, row)
           \/ Answer(r, 500, Null) /\ UNCHANGED audit
    BY <1>1, Zenon DEF Insert
  <2> HIDE DEF row
  <2>2. UNCHANGED audit => applied' = applied
    BY DEF audit
  <2> QED
    BY <2>1, <2>2, Zenon
<1>2. CASE Commit(r)
  <2>1. req' = req /\ Written(r, loc[r].row)
    BY <1>2, Zenon DEF Commit
  <2> QED
    BY <2>1, Zenon
<1>3. CASE SoftDelete(r)
  <2>1. /\ req' = req
        /\ \/ Written(r, tasks[req[r].task])
           \/ Answer(r, 404, Null) /\ UNCHANGED audit
    BY <1>3, Zenon DEF SoftDelete
  <2>2. UNCHANGED audit => applied' = applied
    BY DEF audit
  <2> QED
    BY <2>1, <2>2, Zenon
<1> QED
  BY <1>1, <1>2, <1>3

(* A step of a request leaves the other requests alone.                    *)
LEMMA Others ==
  ASSUME ServiceTypeOK, NEW r \in Requests, Accept(r) \/ Serve(r) \/ DBError(r),
         NEW q \in Requests \ {r}
  PROVE  /\ pc'[q] = pc[q] /\ req'[q] = req[q] /\ loc'[q] = loc[q]
         /\ out'[q] = out[q] /\ (q \in applied' <=> q \in applied)
<1> DEFINE same == pc'[q] = pc[q] /\ loc'[q] = loc[q] /\ out'[q] = out[q]
<1>1. \A code, body : Answer(r, code, body) => same
  BY AnswerSeen
<1>2. \A step : Goto(r, step) => pc'[q] = pc[q]
  BY DEF Goto, ServiceTypeOK
<1>3. \A row : Written(r, row) => same /\ (q \in applied' <=> q \in applied)
  BY <1>1, <1>2 DEF Written, ServiceTypeOK
<1> HIDE DEF same
<1>4. CASE Insert(r) \/ Commit(r) \/ SoftDelete(r)
  <2>1. /\ req' = req
        /\ \/ \E row : Written(r, row)
           \/ applied' = applied /\ \E code, body : Answer(r, code, body)
    BY <1>4, WriteOutcomes, Zenon
  <2> QED
    BY <1>1, <1>3, <2>1 DEF same
<1>5. CASE Accept(r)
  BY <1>1, <1>2, <1>5 DEF Accept, audit, same, ServiceTypeOK
<1>6. CASE Find(r) \/ Member(r) \/ DBError(r)
  BY <1>1, <1>2, <1>6 DEF Find, Member, DBError, audit, same, ServiceTypeOK
<1>7. CASE UpdateTx(r)
  <2>1. \A x, y : loc' = [loc EXCEPT ![r].row = x, ![r].todo = y] => loc'[q] = loc[q]
    BY DEF ServiceTypeOK
  <2> DEFINE row == tasks[req[r].task]
             new == IF Live(row) THEN Patched(row, BuildPatch(req[r].body)) ELSE row
             todo == Recorded(loc[r].seen, new, BuildPatch(req[r].body))
  <2>2. /\ req' = req /\ applied' = applied
        /\ \/ Answer(r, 404, Null) \/ Answer(r, 500, Null)
           \/ /\ Goto(r, "entries") /\ out' = out
              /\ loc' = [loc EXCEPT ![r].row = new, ![r].todo = todo]
    BY <1>7, Zenon DEF UpdateTx, audit
  <2> HIDE DEF new, todo
  <2> QED
    BY <1>1, <1>2, <2>1, <2>2 DEF same
<1>8. CASE InsertHistory(r)
  <2>1. loc'[q] = loc[q]
    BY <1>8 DEF InsertHistory, ServiceTypeOK
  <2>2. UNCHANGED <<pc, req, out, applied>>
    BY <1>8 DEF InsertHistory, audit
  <2> QED
    BY <2>1, <2>2
<1>9. CASE InvalidateKey(r) \/ InvalidateFails(r)
  <2>1. \A x : loc' = [loc EXCEPT ![r].keys = x] => loc'[q] = loc[q]
    BY DEF ServiceTypeOK
  <2>2. /\ req' = req /\ applied' = applied
        /\ \/ \E code, body : Answer(r, code, body)
           \/ \E x : loc' = [loc EXCEPT ![r].keys = x] /\ UNCHANGED <<pc, out>>
    BY <1>9 DEF InvalidateKey, InvalidateFails
  <2> QED
    BY <1>1, <2>1, <2>2 DEF same
<1>10. CASE ReadHistory(r) \/ CacheGet(r) \/ Store(r)
  BY <1>1, <1>2, <1>10 DEF ReadHistory, CacheGet, Store, audit, same, ServiceTypeOK
<1>11. CASE SelectRows(r) \/ SelectCount(r)
  BY <1>1, <1>2, <1>11 DEF SelectRows, SelectCount, audit, same, ServiceTypeOK
<1> QED
  BY <1>4, <1>5, <1>6, <1>7, <1>9, <1>10, <1>11, <1>8 DEF Serve

(* No step moves a task to another team, or gives it another creator.      *)
LEMMA TeamsStay ==
  ASSUME IInv, [Next]_vars
  PROVE  /\ DOMAIN tasks \subseteq DOMAIN tasks'
         /\ \A t \in DOMAIN tasks :
               tasks'[t].team = tasks[t].team /\ tasks'[t].by = tasks[t].by
<1>1. [LedgerNext]_ledger /\ LedgerTypeOK
  BY NextIInv, TypeSplit DEF IInv
<1>2. CASE UNCHANGED ledger
  BY <1>2 DEF ledger
<1>3. CASE \E row : LedgerInsert(row)
  BY <1>1, <1>3 DEF LedgerInsert, LedgerTypeOK
<1>4. ASSUME NEW t \in DOMAIN tasks, LedgerChange(t)
      PROVE  /\ DOMAIN tasks' = DOMAIN tasks
             /\ \A u \in DOMAIN tasks :
                   tasks'[u].team = tasks[u].team /\ tasks'[u].by = tasks[u].by
  BY <1>1, <1>4 DEF LedgerChange, LedgerTypeOK
<1>5. ASSUME NEW t \in DOMAIN tasks, LedgerDelete(t)
      PROVE  /\ DOMAIN tasks' = DOMAIN tasks
             /\ \A u \in DOMAIN tasks :
                   tasks'[u].team = tasks[u].team /\ tasks'[u].by = tasks[u].by
  <2>1. tasks[t] \in Row
    BY <1>1 DEF LedgerTypeOK
  <2>2. /\ DOMAIN tasks' = DOMAIN tasks
        /\ \A u \in DOMAIN tasks \ {t} : tasks'[u] = tasks[u]
        /\ tasks'[t] = [tasks[t] EXCEPT !.deleted = TRUE]
    BY <1>1, <1>5 DEF LedgerDelete, LedgerTypeOK
  <2> QED
    BY <2>1, <2>2 DEF Row
<1> QED
  BY <1>1, <1>2, <1>3, <1>4, <1>5 DEF LedgerNext

(* A member stays one of the team, which stays the one of the task.        *)
LEMMA MayStays ==
  ASSUME IInv, [Next]_vars, NEW r \in Requests, req'[r] = req[r],
         pc[r] # "idle", May(r)
  PROVE  May(r)' /\ Target(r)' = Target(r)
<1>1. members \subseteq members'
  BY MembersGrow
<1>2. Target(r)' = Target(r)
  BY TeamsStay DEF May, Target
<1> QED
  BY <1>1, <1>2, TeamsStay DEF May

(* What is kept of a request that does not move.                           *)
LEMMA KeptFrame ==
  ASSUME IInv, [Next]_vars, NEW q \in Requests, Kept(q),
         pc'[q] = pc[q], req'[q] = req[q], loc'[q] = loc[q], out'[q] = out[q],
         q \in applied' <=> q \in applied
  PROVE  Kept(q)'
<1>1. pc[q] # "idle" /\ May(q) => May(q)'
  BY MayStays
<1>2. pc[q] = "member" /\ req[q].op \notin {"create", "list"} =>
        Target(q)' = Target(q)
  BY TeamsStay DEF IInv, Local, Target
<1>3. pc[q] = "done" => Told(q)'
  BY <1>1 DEF Kept, Told, Shown
<1> QED
  BY <1>1, <1>2, <1>3 DEF Kept, Shown, Checked

(* What is kept of a request that is answered.                             *)
LEMMA KeptAnswer ==
  ASSUME IInv, [Next]_vars, NEW r \in Requests, Kept(r), pc[r] # "idle",
         NEW code, NEW body, Answer(r, code, body), req' = req,
         r \in applied' => req[r].op \in Writes /\ May(r),
         code \in {400, 403, 404} => r \notin applied',
         code \in {200, 201, 204} => (r \in applied' <=> req[r].op \in Writes),
         code = 200 => May(r) /\ req[r].op # "create",
         code = 200 /\ req[r].op = "list" =>
            KeyOf(body.page.for) = KeyOf(req[r].filter) /\ Shown(body.page)
  PROVE  Kept(r)'
<1>1. out'[r].code = code /\ out'[r].body = body /\ pc'[r] = "done"
  BY AnswerSeen, TypeSplit DEF IInv
<1>2. May(r) => May(r)'
  BY MayStays
<1>3. Told(r)'
  BY <1>1, <1>2 DEF Told, Shown
<1> QED
  BY <1>1, <1>2, <1>3 DEF Kept, Checked

(* What is kept of a request whose write took effect.                      *)
LEMMA KeptWritten ==
  ASSUME IInv, [Next]_vars, NEW r \in Requests, Kept(r), pc[r] # "idle",
         NEW row, Written(r, row), req' = req,
         req[r].op \in {"create", "update", "delete"}, May(r)
  PROVE  Kept(r)'
<1>1. r \in applied' /\ May(r)'
  BY MayStays DEF Written
<1>2. CASE Answer(r, 500, Null)
  BY <1>1, <1>2, KeptAnswer DEF Writes
<1>3. CASE Goto(r, "invalidate")
  <2>1. pc'[r] = "invalidate"
    BY <1>3, GotoType, TypeSplit DEF IInv, Steps
  <2> QED
    BY <1>1, <2>1 DEF Kept, Checked, Writes
<1> QED
  BY <1>2, <1>3 DEF Written

(* A page read from the tables shows live rows of its filter.              *)
LEMMA ListRowsShown ==
  ASSUME NEW rows, NEW f, NEW n
  PROVE  Shown([for |-> f, total |-> n, items |-> ListRows(rows, f)])
<1> DEFINE page == [for |-> f, total |-> n, items |-> ListRows(rows, f)]
<1> SUFFICES ASSUME NEW item \in ListRows(rows, f)
             PROVE  /\ item.row.team = f.team /\ ~item.row.deleted
                    /\ f.status \in {"any", item.row.val["status"]}
  BY DEF Shown
<1>1. \E t \in Matching(rows, f) : item = [id |-> t, row |-> rows[t]]
  BY Zenon DEF ListRows
<1> QED
  BY <1>1 DEF Matching, Matches, Live

(* The first calls of a request: it is not answered before its actor was   *)
(* found among the members, except with a refusal.                         *)
LEMMA KeptChecks ==
  ASSUME IInv, [Next]_vars, NEW r \in Requests, Kept(r),
         Accept(r) \/ Find(r) \/ Member(r)
  PROVE  Kept(r)'
<1> USE TypeSplit DEF IInv
<1>1. CASE Accept(r)
  <2>1. PICK i \in Inputs :
          /\ req' = [req EXCEPT ![r] = i]
          /\ \/ Malformed(i) /\ Answer(r, 400, Null)
             \/ /\ ~Malformed(i)
                /\ Goto(r, IF i.op \in {"create", "list"} THEN "member" ELSE "find")
                /\ UNCHANGED <<loc, out>>
    BY <1>1 DEF Accept
  <2>2. pc[r] = "idle" /\ r \notin applied' /\ req'[r] = i
    BY <1>1, <2>1 DEF Accept, audit, Kept, ServiceTypeOK
  <2>3. CASE Answer(r, 400, Null)
    <3>1. pc'[r] = "done" /\ out'[r].code = 400
      BY <2>3, AnswerSeen
    <3> QED
      BY <2>2, <3>1 DEF Kept, Told, Checked
  <2>4. CASE Goto(r, IF i.op \in {"create", "list"} THEN "member" ELSE "find")
    <3>1. pc'[r] = IF i.op \in {"create", "list"} THEN "member" ELSE "find"
      BY <2>4, GotoType DEF Steps
    <3> QED
      BY <2>2, <3>1 DEF Kept, Checked
  <2> QED
    BY <2>1, <2>3, <2>4
<1>2. CASE Find(r)
  <2>1. pc[r] = "find" /\ r \notin applied' /\ req' = req /\ tasks' = tasks
    BY <1>2 DEF Find, audit, tables, Kept
  <2>2. CASE Answer(r, 404, Null)
    BY <2>1, <2>2, KeptAnswer
  <2>3. CASE /\ loc' = [loc EXCEPT ![r].seen = tasks[req[r].task]]
             /\ Goto(r, "member")
    <3>1. pc'[r] = "member" /\ loc'[r].seen = tasks[req[r].task]
      BY <2>3, GotoType DEF Steps, ServiceTypeOK, Work
    <3> QED
      BY <2>1, <3>1 DEF Kept, Checked, Target
  <2> QED
    BY <1>2, <2>2, <2>3 DEF Find
<1>3. CASE Member(r)
  <2>1. pc[r] = "member" /\ r \notin applied /\ applied' = applied /\ req' = req
    BY <1>3 DEF Member, audit, tables, Kept
  <2>2. req[r].op \in {"create", "get", "update", "delete", "history", "list"}
        /\ (req[r].op \notin {"create", "list"} => req[r].task \in DOMAIN tasks)
    BY <2>1 DEF Local, Reached
  <2>3. CASE Answer(r, 403, Null)
    BY <2>1, <2>3, KeptAnswer
  <2>4. IsMember(r) => May(r)
    BY <2>1, <2>2 DEF IsMember, May, Target, TeamOf, Kept
  <2>5. CASE /\ IsMember(r) /\ req[r].op = "get"
             /\ Answer(r, 200, [task |-> loc[r].seen])
    BY <2>1, <2>4, <2>5, KeptAnswer DEF Writes
  <2>6. CASE /\ IsMember(r) /\ req[r].op # "get"
             /\ Goto(r, AfterMember[req[r].op])
    <3>1. AfterMember[req[r].op] \in
            {"insert", "update", "delete", "history", "lookup"}
      BY <2>2, <2>6 DEF AfterMember
    <3>2. pc'[r] \in {"insert", "update", "delete", "history", "lookup"}
      BY <2>6, <3>1, GotoType DEF Steps
    <3>3. May(r)'
      BY <2>1, <2>4, <2>6, MayStays
    <3> QED
      BY <2>1, <3>2, <3>3 DEF Kept, Checked
  <2> QED
    BY <1>3, <2>3, <2>5, <2>6 DEF Member
<1> QED
  BY <1>1, <1>2, <1>3

(* The calls that write: what took effect was asked for by a member.       *)
LEMMA KeptWrites ==
  ASSUME IInv, [Next]_vars, NEW r \in Requests, Kept(r),
         \/ Insert(r) \/ UpdateTx(r) \/ InsertHistory(r) \/ Commit(r)
         \/ SoftDelete(r)
  PROVE  Kept(r)'
<1> USE TypeSplit DEF IInv
<1>1. /\ pc[r] \in {"insert", "update", "entries", "delete"} /\ May(r)
      /\ r \notin applied /\ req' = req
      /\ req[r].op \in {"create", "update", "delete"}
  <2>1. pc[r] \in {"insert", "update", "entries", "delete"} /\ req' = req
    BY Zenon DEF Insert, UpdateTx, InsertHistory, Commit, SoftDelete
  <2> QED
    BY <2>1 DEF Kept, Local, Reached, Checked
<1>2. ASSUME NEW code \in {404, 500}, Answer(r, code, Null), applied' = applied
      PROVE  Kept(r)'
  BY <1>1, <1>2, KeptAnswer
<1>3. ASSUME NEW row, Written(r, row) PROVE Kept(r)'
  BY <1>1, <1>3, KeptWritten
<1>4. ASSUME pc'[r] = "entries", applied' = applied PROVE Kept(r)'
  BY <1>1, <1>4, MayStays DEF Kept, Checked
<1>5. CASE Insert(r) \/ Commit(r) \/ SoftDelete(r)
  BY <1>2, <1>3, <1>5, WriteOutcomes
<1>6. CASE UpdateTx(r)
  <2>1. /\ applied' = applied
        /\ Answer(r, 404, Null) \/ Answer(r, 500, Null) \/ Goto(r, "entries")
    BY <1>6, Zenon DEF UpdateTx, audit
  <2>2. Goto(r, "entries") => pc'[r] = "entries"
    BY GotoType DEF Steps
  <2> QED
    BY <1>2, <1>4, <2>1, <2>2
<1>7. CASE InsertHistory(r)
  <2>1. applied' = applied /\ pc' = pc /\ pc[r] = "entries"
    BY <1>7 DEF InsertHistory, audit
  <2> QED
    BY <1>4, <2>1
<1> QED
  BY <1>5, <1>6, <1>7

(* The calls after a write, and a failure: the answer tells what happened. *)
LEMMA KeptAfter ==
  ASSUME IInv, [Next]_vars, NEW r \in Requests, Kept(r),
         InvalidateKey(r) \/ InvalidateFails(r) \/ DBError(r)
  PROVE  Kept(r)'
<1> USE TypeSplit DEF IInv
<1>1. req' = req /\ applied' = applied /\ pc[r] \notin {"idle", "done"}
  BY DEF InvalidateKey, InvalidateFails, DBError, audit
<1>2. CASE pc[r] = "invalidate" /\ Answer(r, Success(r), Result(r))
  <2>1. r \in applied /\ May(r) /\ req[r].op \in {"create", "update", "delete"}
    BY <1>2 DEF Kept, Local, Reached
  <2>2. Success(r) \in {200, 201, 204} /\ (Success(r) = 200 => req[r].op # "create")
    BY <2>1 DEF Success
  <2> QED
    BY <1>1, <1>2, <2>1, <2>2, KeptAnswer DEF Writes
<1>3. CASE pc[r] = "invalidate" /\ UNCHANGED <<pc, out>>
  <2>1. r \in applied /\ May(r)'
    BY <1>1, <1>3, MayStays DEF Kept
  <2> QED
    BY <1>1, <1>3, <2>1 DEF Kept, Checked
<1>4. CASE DBError(r)
  BY <1>1, <1>4, KeptAnswer DEF DBError, Kept
<1> QED
  BY <1>2, <1>3, <1>4, Zenon DEF InvalidateKey, InvalidateFails

(* The calls that read: what is answered is of the team of the request.    *)
LEMMA KeptReads ==
  ASSUME IInv, [Next]_vars, NEW r \in Requests, Kept(r), CacheShown,
         ReadHistory(r) \/ CacheGet(r) \/ SelectRows(r) \/ SelectCount(r) \/ Store(r)
  PROVE  Kept(r)'
<1> USE TypeSplit DEF IInv
<1>1. /\ pc[r] \in {"history", "lookup", "rows", "count", "store"}
      /\ req' = req /\ applied' = applied
  BY DEF ReadHistory, CacheGet, SelectRows, SelectCount, Store, audit
<1>2. /\ May(r) /\ May(r)' /\ r \notin applied
      /\ req[r].op = IF pc[r] = "history" THEN "history" ELSE "list"
  BY <1>1, MayStays DEF Kept, Checked, Local, Reached
<1>3. CASE ReadHistory(r)
  BY <1>1, <1>2, <1>3, KeptAnswer DEF ReadHistory, Writes
<1>4. CASE CacheGet(r)
  <2> DEFINE k == KeyOf(req[r].filter)
  <2>1. CASE k \in DOMAIN cache /\ Answer(r, 200, [page |-> cache[k]])
    <3>1. KeyOf(cache[k].for) = k /\ Shown(cache[k])
      BY <2>1 DEF CacheShown
    <3> QED
      BY <1>1, <1>2, <2>1, <3>1, KeptAnswer DEF Writes
  <2>2. CASE Goto(r, "rows")
    <3>1. pc'[r] = "rows"
      BY <2>2, GotoType DEF Steps
    <3> QED
      BY <1>1, <1>2, <3>1 DEF Kept, Checked
  <2> QED
    BY <1>4, <2>1, <2>2 DEF CacheGet
<1>5. CASE SelectRows(r)
  <2> DEFINE f == req[r].filter
             page == [for |-> f, total |-> 0, items |-> ListRows(tasks, f)]
  <2>1. /\ loc' = [loc EXCEPT ![r].page = page] /\ Goto(r, "count")
    BY <1>5 DEF SelectRows
  <2>2. Shown(page) /\ page.for = f
    BY ListRowsShown
  <2> HIDE DEF page, f
  <2>3. pc'[r] = "count" /\ loc'[r].page = page
    BY <2>1, GotoType DEF Steps, ServiceTypeOK, Work
  <2> QED
    BY <1>1, <1>2, <2>2, <2>3 DEF Kept, Checked, Shown, f
<1>6. CASE SelectCount(r)
  <2> DEFINE n == CountRows(tasks, req[r].filter)
  <2>1. loc' = [loc EXCEPT ![r].page.total = n] /\ Goto(r, "store")
        /\ pc[r] = "count"
    BY <1>6 DEF SelectCount
  <2> HIDE DEF n
  <2>2. loc[r].page \in Page
    BY <2>1 DEF Local
  <2>3. /\ pc'[r] = "store" /\ loc'[r].page.for = loc[r].page.for
        /\ loc'[r].page.items = loc[r].page.items
    BY <2>1, <2>2, GotoType DEF Steps, ServiceTypeOK, Work, Page
  <2> QED
    BY <1>1, <1>2, <2>1, <2>3 DEF Kept, Checked, Shown
<1>7. CASE Store(r)
  <2>1. Answer(r, 200, [page |-> loc[r].page]) /\ pc[r] = "store"
    BY <1>7 DEF Store
  <2>2. loc[r].page.for = req[r].filter /\ Shown(loc[r].page)
    BY <2>1 DEF Kept
  <2> QED
    BY <1>1, <1>2, <2>1, <2>2, KeptAnswer DEF Writes
<1> QED
  BY <1>3, <1>4, <1>5, <1>6, <1>7

(* What is stored under a key shows what the key says.                     *)
LEMMA CacheShownStep ==
  ASSUME IInv, Promises, [Next]_vars PROVE CacheShown'
<1>1. CASE UNCHANGED cache
  BY <1>1 DEF Promises, CacheShown, Shown
<1>2. ASSUME NEW k, cache' = Without(k) PROVE CacheShown'
  BY <1>2 DEF Promises, CacheShown, Without, Shown
<1>3. ASSUME NEW r \in Requests, Store(r) PROVE CacheShown'
  <2> DEFINE k == KeyOf(req[r].filter)
  <2>1. loc[r].page.for = req[r].filter /\ Shown(loc[r].page)
    BY <1>3 DEF Store, Promises, Kept
  <2>2. CASE UNCHANGED cache
    BY <1>1, <2>2
  <2>3. CASE cache' = [l \in DOMAIN cache \cup {k} |->
                          IF l = k THEN loc[r].page ELSE cache[l]]
    <3>1. \A l \in DOMAIN cache' :
            \/ l = k /\ cache'[l] = loc[r].page
            \/ l \in DOMAIN cache /\ cache'[l] = cache[l]
      BY <2>3
    <3> QED
      BY <2>1, <3>1 DEF Promises, CacheShown, Shown
  <2> QED
    BY <1>3, <2>2, <2>3 DEF Store
<1>4. ASSUME NEW r \in Requests, Accept(r) \/ Serve(r) \/ DBError(r)
      PROVE  CacheShown'
  <2>1. CASE Store(r)
    BY <1>3, <2>1
  <2>2. CASE InvalidateKey(r)
    BY <1>2, <2>2 DEF InvalidateKey
  <2>3. CASE Accept(r) \/ DBError(r) \/ Find(r) \/ Member(r) \/ Insert(r)
    BY <1>1, <2>3, Zenon DEF Accept, DBError, Find, Member, Insert
  <2>4. CASE UpdateTx(r) \/ InsertHistory(r) \/ Commit(r) \/ SoftDelete(r)
    BY <1>1, <2>4, Zenon DEF UpdateTx, InsertHistory, Commit, SoftDelete
  <2>5. CASE \/ InvalidateFails(r) \/ ReadHistory(r) \/ CacheGet(r)
             \/ SelectRows(r) \/ SelectCount(r)
    BY <1>1, <2>5, Zenon DEF InvalidateFails, ReadHistory, CacheGet, SelectRows,
       SelectCount
  <2> QED
    BY <1>4, <2>1, <2>2, <2>3, <2>4, <2>5 DEF Serve
<1>5. CASE Crash \/ Join \/ UNCHANGED vars
  BY <1>1, <1>5 DEF Crash, Join, vars
<1>6. CASE \E k \in DOMAIN cache : Expire(k)
  BY <1>2, <1>6 DEF Expire
<1> QED
  BY <1>4, <1>5, <1>6 DEF Next, Finished

(* The promises hold at the start and survive every step.                  *)
LEMMA PromisesHold == Spec => []Promises
<1>1. Init => Promises
  BY DEF Init, Promises, CacheShown, Kept, NoAnswer, Checked
<1>2. ASSUME IInv, Promises, [Next]_vars PROVE Promises'
  <2> USE TypeSplit DEF IInv
  <2>1. ASSUME NEW r \in Requests, Accept(r) \/ Serve(r) \/ DBError(r),
               NEW q \in Requests
        PROVE  Kept(q)'
    <3>1. CASE q = r
      <4> USE DEF Promises
      <4> QED
        BY <1>2, <2>1, <3>1, KeptChecks, KeptWrites, KeptAfter, KeptReads DEF Serve
    <3>2. CASE q # r
      BY <1>2, <2>1, <3>2, Others, KeptFrame DEF Promises
    <3> QED
      BY <3>1, <3>2
  <2>2. CASE Crash
    <3>1. ASSUME NEW q \in Requests, pc[q] \in {"idle", "done"} PROVE Kept(q)'
      <4>1. /\ pc'[q] = pc[q] /\ out'[q] = out[q] /\ req' = req
            /\ applied' = applied
        BY <2>2, <3>1 DEF Crash, InFlight, ServiceTypeOK
      <4>2. Kept(q)
        BY <1>2 DEF Promises
      <4>3. May(q) /\ pc[q] = "done" => May(q)'
        BY <1>2, <4>1, MayStays
      <4> QED
        BY <3>1, <4>1, <4>2, <4>3 DEF Kept, Told, Checked, Shown
    <3>2. ASSUME NEW q \in Requests, pc[q] \notin {"idle", "done"} PROVE Kept(q)'
      <4>1. /\ pc'[q] = "done" /\ out'[q].code = 1 /\ req' = req
            /\ applied' = applied
        BY <2>2, <3>2 DEF Crash, InFlight, Lost
      <4>2. May(q) => May(q)'
        BY <1>2, <3>2, <4>1, MayStays
      <4> QED
        BY <1>2, <3>2, <4>1, <4>2 DEF Promises, Kept, Told, Checked
    <3> QED
      BY <1>2, <3>1, <3>2, CacheShownStep DEF Promises
  <2>3. CASE Join \/ (\E k \in DOMAIN cache : Expire(k)) \/ UNCHANGED vars
    <3>1. UNCHANGED <<pc, req, loc, out, applied>>
      BY <2>3 DEF Join, Expire, vars, audit
    <3> QED
      BY <1>2, <3>1, KeptFrame, CacheShownStep DEF Promises
  <2> QED
    BY <1>2, <2>1, <2>2, <2>3, CacheShownStep DEF Promises, Next, Finished
<1> QED
  BY <1>1, <1>2, Invariance, PTL DEF Spec

(* A task that was there from the start is found, by Find or by the write, *)
(* unless it has been deleted.                                             *)
FoundUnlessDeleted(r) ==
    pc[r] = "done" /\ out[r].code = 404 /\ req[r].task \in DOMAIN InitialTasks =>
        tasks[req[r].task].deleted

Found == /\ DOMAIN InitialTasks \subseteq DOMAIN tasks
         /\ \A r \in Requests : FoundUnlessDeleted(r)

(* The steps that answer 404: the row is not there, or is deleted.         *)
LEMMA NotFoundStep ==
  ASSUME IInv, NEW r \in Requests, Accept(r) \/ Serve(r) \/ DBError(r),
         pc'[r] = "done", out'[r].code = 404
  PROVE  /\ pc[r] # "idle" /\ req' = req /\ tasks' = tasks
         /\ req[r].task \notin DOMAIN tasks \/ tasks[req[r].task].deleted
<1> USE TypeSplit DEF IInv
<1>1. \A code, body : Answer(r, code, body) => code = 404
  BY AnswerSeen
<1>2. \A step \in Steps : Goto(r, step) => step = "done"
  BY GotoType
<1>3. ~\E row : Written(r, row)
  <2>1. \A row : Written(r, row) => Goto(r, "invalidate") \/ Answer(r, 500, Null)
    BY Zenon DEF Written
  <2>2. ~Goto(r, "invalidate") /\ ~Answer(r, 500, Null)
    BY <1>1, <1>2 DEF Steps
  <2> QED BY <2>1, <2>2
<1>4. CASE Accept(r)
  <2>1. \/ Answer(r, 400, Null) \/ Goto(r, "member") \/ Goto(r, "find")
    BY <1>4, Zenon DEF Accept
  <2> QED BY <1>1, <1>2, <2>1 DEF Steps
<1>5. CASE Find(r)
  <2>1. /\ pc[r] = "find" /\ req' = req /\ UNCHANGED tables
        /\ \/ req[r].task \notin DOMAIN tasks
           \/ Goto(r, "member")
    BY <1>5, Zenon DEF Find
  <2> QED BY <1>2, <2>1 DEF Steps, tables
<1>6. CASE Member(r)
  <2>1. /\ pc[r] = "member"
        /\ \/ Answer(r, 403, Null) \/ Answer(r, 200, [task |-> loc[r].seen])
           \/ req[r].op # "get" /\ Goto(r, AfterMember[req[r].op])
    BY <1>6, Zenon DEF Member
  <2>2. req[r].op # "get" => AfterMember[req[r].op] \in Steps \ {"done"}
    BY <2>1 DEF Local, Reached, AfterMember, Steps
  <2> QED BY <1>1, <1>2, <2>1, <2>2
<1>7. CASE Insert(r) \/ Commit(r) \/ SoftDelete(r)
  <2>1. CASE Insert(r)
    <3>1. Answer(r, 500, Null) \/ \E row : Written(r, row)
      BY <2>1, Zenon DEF Insert
    <3> QED BY <1>1, <1>3, <3>1
  <2>2. CASE Commit(r)
    BY <1>3, <2>2, Zenon DEF Commit
  <2>3. CASE SoftDelete(r)
    <3>1. /\ pc[r] = "delete" /\ req' = req
          /\ \/ ~Live(tasks[req[r].task]) /\ UNCHANGED <<tables, audit>>
             \/ Written(r, tasks[req[r].task])
      BY <2>3, Zenon DEF SoftDelete
    <3> QED BY <1>3, <3>1 DEF Live, tables
  <2> QED BY <1>7, <2>1, <2>2, <2>3
<1>8. CASE UpdateTx(r)
  <2>1. pc[r] = "update" /\ req' = req /\ UNCHANGED tables
    BY <1>8, Zenon DEF UpdateTx
  <2> DEFINE row == tasks[req[r].task]
             new == IF Live(row) THEN Patched(row, BuildPatch(req[r].body)) ELSE row
  <2>2. \/ Answer(r, 500, Null)
        \/ \E n \in Affected(row, new) : Gone(row, n) \/ Goto(r, "entries")
    BY <1>8, SMTT(30) DEF UpdateTx
  <2> HIDE DEF new
  <2>3. ~Answer(r, 500, Null) /\ ~Goto(r, "entries")
    BY <1>1, <1>2 DEF Steps
  <2>4. \E n \in Affected(row, new) : Gone(row, n)
    BY <2>2, <2>3, Zenon
  <2>5. row.deleted
    BY <2>4, Zenon DEF Gone
  <2> QED BY <2>1, <2>5 DEF tables
<1>9. CASE InsertHistory(r)
  BY <1>9 DEF InsertHistory
<1>10. CASE InvalidateKey(r) \/ InvalidateFails(r)
  <2>1. /\ pc[r] = "invalidate"
        /\ \/ pc' = pc \/ Answer(r, Success(r), Result(r))
    BY <1>10, Zenon DEF InvalidateKey, InvalidateFails
  <2>2. Success(r) # 404
    BY <2>1 DEF Success, Local, Reached
  <2> QED BY <1>1, <2>1, <2>2
<1>11. CASE ReadHistory(r) \/ Store(r)
  BY <1>1, <1>11 DEF ReadHistory, Store
<1>12. CASE CacheGet(r)
  <2>1. \/ \E body : Answer(r, 200, body)
        \/ Goto(r, "rows")
    BY <1>12, Zenon DEF CacheGet
  <2> QED BY <1>1, <1>2, <2>1 DEF Steps
<1>13. CASE SelectRows(r) \/ SelectCount(r)
  BY <1>2, <1>13 DEF SelectRows, SelectCount, Steps
<1>14. CASE DBError(r)
  BY <1>1, <1>14 DEF DBError
<1> QED
  BY <1>4, <1>5, <1>6, <1>7, <1>8, <1>9, <1>10, <1>11, <1>12, <1>13, <1>14 DEF Serve

LEMMA FoundHolds == Spec => []Found
<1>1. Init => Found
  BY DEF Init, Found, FoundUnlessDeleted
<1>2. ASSUME IInv, Found, [Next]_vars PROVE Found'
  <2> USE TypeSplit DEF IInv
  <2>1. /\ DOMAIN tasks \subseteq DOMAIN tasks'
        /\ \A t \in DOMAIN tasks : tasks[t].deleted => tasks'[t].deleted
    BY <1>2, TeamsStay, NextIInv, LedgerNextFinal
  <2>2. ASSUME NEW q \in Requests, req'[q] = req[q],
               (pc'[q] = pc[q] /\ out'[q] = out[q]) \/ out'[q].code = 1
        PROVE  FoundUnlessDeleted(q)'
    BY <1>2, <2>1, <2>2 DEF Found, FoundUnlessDeleted
  <2>3. ASSUME NEW r \in Requests, Accept(r) \/ Serve(r) \/ DBError(r),
               NEW q \in Requests
        PROVE  FoundUnlessDeleted(q)'
    <3>1. CASE q = r
      BY <1>2, <2>3, <3>1, NotFoundStep DEF Found, FoundUnlessDeleted
    <3>2. CASE q # r
      BY <1>2, <2>2, <2>3, <3>2, Others
    <3> QED BY <3>1, <3>2
  <2>4. CASE Crash
    <3>1. ASSUME NEW q \in Requests
          PROVE  /\ req'[q] = req[q]
                 /\ (pc'[q] = pc[q] /\ out'[q] = out[q]) \/ out'[q].code = 1
      BY <2>4, <1>2, <3>1 DEF Crash, Lost, InFlight, ServiceTypeOK
    <3> QED BY <1>2, <2>1, <2>2, <3>1 DEF Found
  <2>5. CASE Join \/ (\E k \in DOMAIN cache : Expire(k)) \/ UNCHANGED vars
    <3>1. UNCHANGED <<pc, req, out>>
      BY <2>5 DEF Join, Expire, vars
    <3> QED BY <1>2, <2>1, <2>2, <3>1 DEF Found
  <2> QED
    BY <1>2, <2>1, <2>3, <2>4, <2>5 DEF Found, Next, Finished
<1> QED
  BY <1>1, <1>2, Invariance, PTL DEF Spec

(* An answer tells whether the write took effect, and a 404 that the task  *)
(* was not there or is deleted.                                            *)
THEOREM AnswersHold == Spec => []AnswersAreTruthful
<1>1. Promises /\ Found => AnswersAreTruthful
  BY DEF Promises, Kept, Told, AnswersAreTruthful, Found, FoundUnlessDeleted
<1> QED
  BY <1>1, PromisesHold, FoundHolds, PTL

(* Whatever the interleaving with joins, crashes and the cache, only       *)
(* members of its team see or change a task.                               *)
THEOREM OnlyMembers == Spec => []MembersOnly
<1>1. ASSUME IInv, Promises PROVE MembersOnly
  <2> SUFFICES ASSUME NEW r \in Requests
        PROVE  LET may(team) == <<req[r].actor, team>> \in members IN
               /\ r \in applied => may(IF req[r].op = "create" THEN req[r].team
                                       ELSE tasks[req[r].task].team)
               /\ pc[r] = "done" /\ out[r].code = 200 =>
                    CASE req[r].op = "list" ->
                           \A item \in out[r].body.page.items : may(item.row.team)
                      [] OTHER -> may(tasks[req[r].task].team)
    BY DEF MembersOnly
  <2>1. Kept(r)
    BY <1>1 DEF Promises
  <2>2. r \in applied => req[r].op \in Writes /\ May(r)
    BY <2>1 DEF Kept
  <2>3. pc[r] = "done" /\ out[r].code = 200 =>
          Told(r) /\ req[r].op # "create" /\ May(r)
    BY <2>1 DEF Kept, Told
  <2>4. r \in applied => <<req[r].actor, Target(r)>> \in members
        /\ req[r].op # "list"
    BY <2>2 DEF May, Writes
  <2>5. CASE req[r].op = "list"
    BY <2>3, <2>4, <2>5 DEF Told, May, Target, KeyOf, Shown
  <2>6. CASE req[r].op # "list"
    BY <2>3, <2>4, <2>6 DEF May, Target
  <2> QED
    BY <2>5, <2>6
<1> QED
  BY <1>1, Invariance, PromisesHold, PTL

(* Who wrote a task or an entry of its history is a member of its team, the*)
(* rows aside that were there when the system started.                     *)
WrittenByMembers ==
    \A t \in DOMAIN tasks :
        /\ t > Len(InitialTasks) => <<tasks[t].by, tasks[t].team>> \in members
        /\ \A i \in 1..Len(history[t]) :
              <<history[t][i].by, tasks[t].team>> \in members

(* The steps that do not touch the two tables.                             *)
LEMMA TablesStay ==
  ASSUME [Next]_vars, ~\E r \in Requests : Insert(r) \/ Commit(r) \/ SoftDelete(r)
  PROVE  tasks' = tasks /\ history' = history
<1> USE DEF tables
<1>1. CASE \E r \in Requests : Accept(r) \/ Serve(r) \/ DBError(r)
  <2>1. PICK r \in Requests : Accept(r) \/ Serve(r) \/ DBError(r)
    BY <1>1
  <2>2. CASE Accept(r) \/ DBError(r) \/ Find(r) \/ Member(r)
    BY <2>2 DEF Accept, DBError, Find, Member
  <2>3. CASE UpdateTx(r) \/ InsertHistory(r)
    BY <2>3 DEF UpdateTx, InsertHistory
  <2>4. CASE InvalidateKey(r) \/ InvalidateFails(r) \/ ReadHistory(r)
    BY <2>4 DEF InvalidateKey, InvalidateFails, ReadHistory
  <2>5. CASE CacheGet(r) \/ SelectRows(r) \/ SelectCount(r) \/ Store(r)
    BY <2>5 DEF CacheGet, SelectRows, SelectCount, Store
  <2> QED
    BY <2>1, <2>2, <2>3, <2>4, <2>5 DEF Serve
<1>2. CASE Crash \/ Join \/ UNCHANGED vars \/ \E k \in DOMAIN cache : Expire(k)
  BY <1>2 DEF Crash, Join, vars, Expire
<1> QED
  BY <1>1, <1>2 DEF Next, Finished

(* An author was found in the team before he wrote, and is still in it.    *)
LEMMA AuthorsStep ==
  ASSUME IInv, Promises, WrittenByMembers, [Next]_vars
  PROVE  WrittenByMembers'
<1> USE TypeSplit DEF IInv, Promises
<1>1. /\ members \subseteq members' /\ DOMAIN tasks \subseteq DOMAIN tasks'
      /\ \A t \in DOMAIN tasks :
            tasks'[t].team = tasks[t].team /\ tasks'[t].by = tasks[t].by
  BY MembersGrow, TeamsStay
<1>2. /\ DOMAIN history = DOMAIN tasks /\ DOMAIN tasks = 1..Len(tasks)
      /\ \A t \in DOMAIN tasks : Len(history[t]) \in Nat
  BY DEF LedgerTypeOK
<1>3. CASE \E r \in Requests : Insert(r) /\ tasks' # tasks
  <2>1. PICK r \in Requests : Insert(r) /\ tasks' # tasks
    BY <1>3
  <2> DEFINE row == NewRow(req[r].team, req[r].actor, req[r].body)
  <2>2. /\ pc[r] = "insert" /\ tasks' = Append(tasks, row)
        /\ history' = Append(history, <<>>)
    BY <2>1, Zenon DEF Insert, tables
  <2>3. row.by = req[r].actor /\ row.team = req[r].team
    BY DEF NewRow
  <2>4. <<row.by, row.team>> \in members
    BY <2>2, <2>3, SMTT(30) DEF Kept, Checked, May, Target, Local, Reached
  <2> HIDE DEF row
  <2>5. ASSUME NEW t \in DOMAIN tasks'
        PROVE  \/ t \in DOMAIN tasks /\ history'[t] = history[t]
               \/ tasks'[t] = row /\ Len(history'[t]) = 0
    BY <2>2, <2>5 DEF LedgerTypeOK
  <2> QED
    BY <1>1, <2>4, <2>5 DEF WrittenByMembers
<1>4. CASE \E r \in Requests : Commit(r)
  <2>1. PICK r \in Requests : Commit(r)
    BY <1>4
  <2> DEFINE t == req[r].task
             es == loc[r].entries
  <2>2. /\ pc[r] = "entries" /\ tasks' = [tasks EXCEPT ![t] = loc[r].row]
        /\ history' = [history EXCEPT ![t] = @ \o es]
    BY <2>1 DEF Commit
  <2>3. /\ t \in DOMAIN tasks /\ req[r].op = "update" /\ es \in Seq(Entry)
        /\ \A i \in 1..Len(es) : es[i].by = req[r].actor
    <3>1. /\ t \in DOMAIN tasks /\ req[r].op = "update" /\ loc[r] \in Work
          /\ EntriesOK(r)
      BY <2>2 DEF Local, Reached, ServiceTypeOK
    <3> QED
      BY <3>1 DEF EntriesOK, Work
  <2>4. <<req[r].actor, tasks[t].team>> \in members
    BY <2>2, <2>3 DEF Kept, Checked, May, Target
  <2>5. DOMAIN tasks' = DOMAIN tasks
    BY <2>2
  <2>6. \A i \in 1..Len(history'[t]) : <<history'[t][i].by, tasks[t].team>> \in members
    <3> HIDE DEF es, t
    <3>1. history'[t] = history[t] \o es
      BY <1>2, <2>2, <2>3
    <3>2. history[t] \in Seq(Entry)
      BY <1>2, <2>3 DEF LedgerTypeOK
    <3>3. \A i \in 1..Len(history'[t]) :
             \/ i \in 1..Len(history[t]) /\ history'[t][i] = history[t][i]
             \/ /\ i - Len(history[t]) \in 1..Len(es)
                /\ history'[t][i] = es[i - Len(history[t])]
      BY <2>3, <3>1, <3>2
    <3> QED
      BY <2>3, <2>4, <3>3 DEF WrittenByMembers
  <2>7. \A u \in DOMAIN tasks \ {t} : history'[u] = history[u]
    BY <1>2, <2>2
  <2> QED
    BY <1>1, <2>5, <2>6, <2>7 DEF WrittenByMembers
<1>5. CASE /\ DOMAIN tasks' = DOMAIN tasks /\ history' = history
  BY <1>1, <1>5 DEF WrittenByMembers
<1>6. ASSUME NEW r \in Requests, Insert(r), tasks' = tasks
      PROVE  history' = history
  <2>1. \A row : tasks # Append(tasks, row)
    BY DEF LedgerTypeOK
  <2> QED
    BY <1>6, <2>1 DEF Insert, tables
<1>7. ASSUME NEW r \in Requests, SoftDelete(r)
      PROVE  DOMAIN tasks' = DOMAIN tasks /\ history' = history
  BY <1>7 DEF SoftDelete, tables
<1> QED
  BY <1>3, <1>4, <1>5, <1>6, <1>7, TablesStay

(* Nothing in the tables bears the name of an outsider.                    *)
THEOREM AuthorsAreMembers == Spec => []WrittenByMembers
<1>1. Init => WrittenByMembers
  <2> SUFFICES ASSUME Init PROVE WrittenByMembers
    OBVIOUS
  <2>1. /\ tasks = InitialTasks /\ DOMAIN tasks = 1..Len(InitialTasks)
        /\ \A t \in DOMAIN tasks : history[t] = <<>>
    BY ServiceAssumption DEF Init
  <2> QED
    BY <2>1, ServiceAssumption DEF WrittenByMembers
<1>2. IInv /\ Promises /\ WrittenByMembers /\ [Next]_vars => WrittenByMembers'
  BY AuthorsStep
<1> QED
  BY <1>1, <1>2, Invariance, PromisesHold, PTL DEF Spec

(* A list shows what was asked for, whatever was in the cache.             *)
THEOREM ListsAnswerTheKey == Spec => []ListAnswersTheKey
<1>1. ASSUME Promises, NEW r \in Requests,
             pc[r] = "done", req[r].op = "list", out[r].code = 200
      PROVE  /\ KeyOf(out[r].body.page.for) = KeyOf(req[r].filter)
             /\ Shown(out[r].body.page)
  BY <1>1 DEF Promises, Kept, Told
<1>2. \A f, g : KeyOf(g) = KeyOf(f) => g.team = f.team /\ g.status = f.status
  BY DEF KeyOf
<1>3. ASSUME NEW page, NEW f, KeyOf(page.for) = KeyOf(f), Shown(page)
      PROVE  \A item \in page.items :
                /\ item.row.team = f.team /\ ~item.row.deleted
                /\ f.status \in {"any", item.row.val["status"]}
  <2>1. page.for.team = f.team /\ page.for.status = f.status
    BY <1>2, <1>3
  <2> QED
    BY <1>3, <2>1 DEF Shown
<1>4. Promises => ListAnswersTheKey
  BY <1>1, <1>3 DEF ListAnswersTheKey
<1> QED
  BY <1>4, PromisesHold, PTL

-------------------------------------------------------------------------------
(* How a page can be stale.  The third invariant says what a list request  *)
(* has read: the current rows, unless a write overtook it.                 *)

Reading(r) ==
    /\ pc[r] # "invalidate" => loc[r].keys = {}
    /\ pc[r] \in {"count", "store"} /\ r \notin overtaken =>
          loc[r].page.items = ListRows(tasks, loc[r].page.for)
    /\ pc[r] = "store" /\ r \notin overtaken =>
          loc[r].page.total = CountRows(tasks, loc[r].page.for)

Freshness == StaleOnlyIfLeaked /\ \A r \in Requests : Reading(r)

(* The rows of the one table are those of the other, the team's aside.     *)
SameBut(team, rows, rows1) ==
    /\ DOMAIN rows \subseteq DOMAIN rows1
    /\ \A t \in DOMAIN rows1 :
          \/ t \in DOMAIN rows /\ rows1[t] = rows[t]
          \/ rows1[t].team = team /\ (t \in DOMAIN rows => rows[t].team = team)

(* Rows of one team do not show in the lists of another.                   *)
LEMMA QueryFrame ==
  ASSUME NEW rows \in Seq(Row), NEW rows1 \in Seq(Row), NEW team, NEW f,
         f.team # team, SameBut(team, rows, rows1)
  PROVE  ListRows(rows1, f) = ListRows(rows, f) /\ CountRows(rows1, f) = CountRows(rows, f)
<1>1. Matching(rows1, f) = Matching(rows, f)
  BY DEF Matching, Matches, SameBut
<1>2. \A t \in Matching(rows, f) : rows1[t] = rows[t]
  BY DEF Matching, Matches, SameBut
<1>3. CountRows(rows1, f) = CountRows(rows, f)
  BY <1>1 DEF CountRows
<1> DEFINE all == Matching(rows, f)
           pos(t) == Cardinality({u \in all : u < t})
           ids == {t \in all : /\ pos(t) >= (f.page - 1) * f.limit
                               /\ pos(t) < f.page * f.limit}
<1>4. /\ ListRows(rows1, f) = {[id |-> t, row |-> rows1[t]] : t \in ids}
      /\ ListRows(rows, f) = {[id |-> t, row |-> rows[t]] : t \in ids}
  BY <1>1 DEF ListRows
<1>5. \A t \in ids : rows1[t] = rows[t]
  BY <1>2
<1> HIDE DEF ids
<1> QED
  BY <1>3, <1>4, <1>5

(* Every page of the first ones of a team is among the keys invalidated.   *)
LEMMA KeyInvalidated ==
  ASSUME NEW k \in Key
  PROVE  k \in InvalidateKeys(k.team) \/ k.page > InvalidatedPages
<1>1. /\ k = [team |-> k.team, status |-> k.status, page |-> k.page]
      /\ k.status \in Statuses \cup {"any"} /\ k.page \in Nat \ {0}
  BY DEF Key
<1>2. k.page \in 1..InvalidatedPages \/ k.page > InvalidatedPages
  BY <1>1, DataAssumption
<1> QED
  BY <1>1, <1>2 DEF InvalidateKeys

(* A step that touches no row, page or mark keeps all pages covered.       *)
LEMMA CoveredFrame ==
  ASSUME StaleOnlyIfLeaked, UNCHANGED <<tasks, cache>>, leaked \subseteq leaked',
         \A q \in Requests : loc[q].keys \subseteq loc'[q].keys
  PROVE  StaleOnlyIfLeaked'
<1> SUFFICES ASSUME NEW k \in DOMAIN cache
             PROVE  \/ Fresh(k)' \/ k \in leaked'
                    \/ \E r \in Requests : k \in loc'[r].keys
                    \/ k.page > InvalidatedPages
  BY DEF StaleOnlyIfLeaked
<1>1. Fresh(k)' <=> Fresh(k)
  BY DEF Fresh
<1> QED
  BY <1>1 DEF StaleOnlyIfLeaked

(* A write covers the pages of its team, and marks the lists it overtakes. *)
LEMMA WriteFreshness ==
  ASSUME IInv, IInv', Promises, Freshness, NEW r \in Requests, NEW row,
         Written(r, row), pc[r] # "invalidate", UNCHANGED <<cache, req>>,
         SameBut(row.team, tasks, tasks'),
         \A q \in Requests \ {r} : pc'[q] = pc[q] /\ loc'[q] = loc[q]
  PROVE  Freshness'
<1> USE TypeSplit DEF IInv
<1>1. \A f : f.team # row.team => /\ ListRows(tasks', f) = ListRows(tasks, f)
                                  /\ CountRows(tasks', f) = CountRows(tasks, f)
  <2>1. tasks \in Seq(Row) /\ tasks' \in Seq(Row)
    BY DEF TypeOK, LedgerTypeOK
  <2>2. ASSUME NEW f, f.team # row.team
        PROVE  /\ ListRows(tasks', f) = ListRows(tasks, f)
               /\ CountRows(tasks', f) = CountRows(tasks, f)
    <3> HIDE DEF IInv
    <3> QED
      BY <2>1, <2>2, QueryFrame
  <2> QED
    BY <2>2
<1>2. /\ leaked \subseteq leaked' /\ overtaken \subseteq overtaken'
      /\ InvalidateKeys(row.team) \subseteq loc'[r].keys \cup leaked'
      /\ pc'[r] \in {"invalidate", "done"} /\ (pc'[r] = "done" => loc'[r].keys = {})
  <2>1. leaked \subseteq leaked' /\ overtaken \subseteq overtaken'
    BY DEF Written
  <2>2. CASE Answer(r, 500, Null) /\ leaked' = leaked \cup InvalidateKeys(row.team)
    BY <2>1, <2>2, AnswerType DEF NoWork
  <2>3. CASE /\ Goto(r, "invalidate")
             /\ loc' = [loc EXCEPT ![r] =
                   [NoWork EXCEPT !.row = row, !.keys = InvalidateKeys(row.team)]]
    <3>1. pc'[r] = "invalidate"
      BY <2>3, GotoType DEF Steps
    <3>2. loc'[r].keys = InvalidateKeys(row.team)
      BY <2>3 DEF ServiceTypeOK, NoWork
    <3> QED
      BY <2>1, <3>1, <3>2
  <2> QED
    BY <2>2, <2>3 DEF Written
<1>3. loc[r].keys = {}
  BY DEF Freshness, Reading
<1>4. StaleOnlyIfLeaked'
  <2> SUFFICES ASSUME NEW k \in DOMAIN cache
               PROVE  \/ Fresh(k)' \/ k \in leaked'
                      \/ \E q \in Requests : k \in loc'[q].keys
                      \/ k.page > InvalidatedPages
    BY DEF StaleOnlyIfLeaked
  <2>1. CASE k.team = row.team
    BY <1>2, <2>1, KeyInvalidated DEF ServiceTypeOK
  <2>2. CASE k.team # row.team
    <3>1. cache[k].for.team # row.team
      BY <2>2 DEF Promises, CacheShown, KeyOf
    <3>2. Fresh(k) => Fresh(k)'
      BY <1>1, <3>1 DEF Fresh
    <3> QED
      BY <1>2, <1>3, <3>2 DEF Freshness, StaleOnlyIfLeaked
  <2> QED
    BY <2>1, <2>2
<1>5. Reading(r)'
  BY <1>2 DEF Reading
<1>6. ASSUME NEW q \in Requests \ {r} PROVE Reading(q)'
  <2>1. CASE pc[q] \in {"count", "store"}
    <3>1. req[q].op = "list" /\ loc[q].page.for = req[q].filter
      BY <2>1 DEF Local, Reached, Promises, Kept
    <3>2. q \in overtaken' \/ loc[q].page.for.team # row.team
      BY <2>1, <3>1 DEF Written, TeamOf
    <3> QED
      BY <1>1, <1>2, <2>1, <3>2 DEF Freshness, Reading
  <2>2. CASE pc[q] \notin {"count", "store"}
    BY <2>2 DEF Freshness, Reading
  <2> QED
    BY <2>1, <2>2
<1> QED
  BY <1>4, <1>5, <1>6 DEF Freshness

(* What other requests have read stays read when no row changes.           *)
LEMMA ReadingFrame ==
  ASSUME NEW q, Reading(q), tasks' = tasks, overtaken' = overtaken,
         pc'[q] = pc[q], loc'[q] = loc[q]
  PROVE  Reading(q)'
  BY DEF Reading

(* The calls that write no row and no page.                                *)
LEMMA QuietFreshness ==
  ASSUME IInv, Promises, Freshness, NEW r \in Requests,
         Accept(r) \/ Serve(r) \/ DBError(r),
         UNCHANGED <<tasks, cache, leaked, overtaken>>, pc[r] # "invalidate"
  PROVE  Freshness'
<1> USE TypeSplit DEF IInv
<1>1. loc[r].keys = {}
  BY DEF Freshness, Reading
<1>2. \A q \in Requests \ {r} : pc'[q] = pc[q] /\ loc'[q] = loc[q]
  BY Others
<1>3. StaleOnlyIfLeaked'
  BY <1>1, <1>2, CoveredFrame DEF Freshness
<1>4. \A q \in Requests \ {r} : Reading(q)'
  BY <1>2, ReadingFrame DEF Freshness
<1>5. ASSUME NEW code, NEW body, Answer(r, code, body) PROVE Reading(r)'
  BY <1>5, AnswerSeen DEF Reading, Answer, NoWork, ServiceTypeOK
<1>6. ASSUME NEW step \in Steps \ {"count", "store"}, Goto(r, step), loc'[r].keys = {}
      PROVE  Reading(r)'
  BY <1>6, GotoType DEF Reading
<1>7. Reading(r)'
  <2>1. CASE SelectRows(r)
    <3> DEFINE f == req[r].filter
               page == [for |-> f, total |-> 0, items |-> ListRows(tasks, f)]
    <3>1. page.items = ListRows(tasks, f) /\ page.for = f
      OBVIOUS
    <3>2. loc' = [loc EXCEPT ![r].page = page] /\ Goto(r, "count")
      BY <2>1 DEF SelectRows
    <3> HIDE DEF page, f
    <3>3. pc'[r] = "count" /\ loc'[r].page = page /\ loc'[r].keys = loc[r].keys
      BY <3>2, GotoType DEF Steps, ServiceTypeOK, Work
    <3> QED
      BY <1>1, <3>1, <3>3 DEF Reading
  <2>2. CASE SelectCount(r)
    <3> DEFINE n == CountRows(tasks, req[r].filter)
    <3>1. /\ loc' = [loc EXCEPT ![r].page.total = n] /\ Goto(r, "store")
          /\ pc[r] = "count"
      BY <2>2 DEF SelectCount
    <3> HIDE DEF n
    <3>2. loc[r].page \in Page /\ loc[r].page.for = req[r].filter
      BY <3>1 DEF Local, Promises, Kept
    <3>3. /\ pc'[r] = "store" /\ loc'[r].page = [loc[r].page EXCEPT !.total = n]
          /\ loc'[r].keys = loc[r].keys
      BY <3>1, GotoType DEF Steps, ServiceTypeOK, Work
    <3>4. /\ loc'[r].page.total = n /\ loc'[r].page.for = req[r].filter
          /\ loc'[r].page.items = loc[r].page.items
      BY <3>2, <3>3 DEF Page
    <3> QED
      BY <1>1, <3>1, <3>2, <3>3, <3>4 DEF Freshness, Reading, n
  <2>3. CASE Accept(r)
    <3>1. /\ \/ \E code, body : Answer(r, code, body)
             \/ loc' = loc /\ (Goto(r, "member") \/ Goto(r, "find"))
      BY <2>3 DEF Accept
    <3> QED
      BY <1>1, <1>5, <1>6, <3>1 DEF Steps
  <2>4. CASE Find(r)
    <3>1. \/ Answer(r, 404, Null)
          \/ /\ loc' = [loc EXCEPT ![r].seen = tasks[req[r].task]]
             /\ Goto(r, "member")
      BY <2>4 DEF Find
    <3>2. \A v : loc' = [loc EXCEPT ![r].seen = v] => loc'[r].keys = loc[r].keys
      BY DEF ServiceTypeOK, Work
    <3> QED
      BY <1>1, <1>5, <1>6, <3>1, <3>2 DEF Steps
  <2>5. CASE Member(r)
    <3>1. pc[r] = "member" /\ req[r].op \in Reached["member"]
      BY <2>5 DEF Member, Local
    <3>2. \/ \E code, body : Answer(r, code, body)
          \/ /\ loc' = loc /\ req[r].op # "get"
             /\ Goto(r, AfterMember[req[r].op])
      BY <2>5, Zenon DEF Member
    <3>3. req[r].op # "get" => AfterMember[req[r].op] \in Steps \ {"count", "store"}
      BY <3>1 DEF AfterMember, Reached, Steps
    <3> QED
      BY <1>1, <1>5, <1>6, <3>2, <3>3
  <2>6. CASE UpdateTx(r)
    <3> DEFINE row == tasks[req[r].task]
               new == IF Live(row) THEN Patched(row, BuildPatch(req[r].body)) ELSE row
               todo == Recorded(loc[r].seen, new, BuildPatch(req[r].body))
    <3>1. \/ Answer(r, 404, Null) \/ Answer(r, 500, Null)
          \/ /\ Goto(r, "entries")
             /\ loc' = [loc EXCEPT ![r].row = new, ![r].todo = todo]
      BY <2>6, Zenon DEF UpdateTx
    <3> HIDE DEF new, todo
    <3>2. \A x, y : loc' = [loc EXCEPT ![r].row = x, ![r].todo = y] =>
                    loc'[r].keys = loc[r].keys
      BY DEF ServiceTypeOK, Work
    <3> QED
      BY <1>1, <1>5, <1>6, <3>1, <3>2 DEF Steps
  <2>7. CASE InsertHistory(r)
    <3>1. pc' = pc /\ pc[r] = "entries"
      BY <2>7 DEF InsertHistory
    <3>2. loc'[r].keys = loc[r].keys
      BY <2>7 DEF InsertHistory, ServiceTypeOK, Work
    <3> QED
      BY <1>1, <3>1, <3>2 DEF Reading
  <2>8. CASE CacheGet(r)
    <3>1. \/ \E code, body : Answer(r, code, body)
          \/ loc' = loc /\ Goto(r, "rows")
      BY <2>8 DEF CacheGet
    <3> QED
      BY <1>1, <1>5, <1>6, <3>1 DEF Steps
  <2>9. CASE ReadHistory(r) \/ DBError(r) \/ Store(r)
    BY <1>5, <2>9 DEF ReadHistory, DBError, Store
  <2>10. CASE Insert(r) \/ Commit(r) \/ SoftDelete(r)
    <3>1. \/ \E code, body : Answer(r, code, body)
          \/ \E row : Written(r, row)
      BY <2>10, WriteOutcomes, Zenon
    <3>2. ASSUME NEW row, Written(r, row) PROVE Reading(r)'
      <4>1. Goto(r, "invalidate") => pc'[r] = "invalidate"
        BY GotoType DEF Steps
      <4> QED
        BY <1>5, <3>2, <4>1 DEF Written, Reading
    <3> QED
      BY <1>5, <3>1, <3>2
  <2> QED
    BY <2>1, <2>2, <2>3, <2>4, <2>5, <2>6, <2>7, <2>8, <2>9, <2>10
       DEF Serve, InvalidateKey, InvalidateFails
<1> QED
  BY <1>3, <1>4, <1>7 DEF Freshness

(* The calls that delete or store a page, and those after which nobody     *)
(* will delete it.                                                         *)
LEMMA CacheFreshness ==
  ASSUME IInv, Promises, Freshness, NEW r \in Requests,
         InvalidateKey(r) \/ InvalidateFails(r) \/ Store(r)
  PROVE  Freshness'
<1> USE TypeSplit DEF IInv
<1>1. \A q \in Requests \ {r} : pc'[q] = pc[q] /\ loc'[q] = loc[q]
  BY Others DEF Serve
<1>2. tasks' = tasks /\ overtaken' = overtaken
  BY DEF InvalidateKey, InvalidateFails, Store, tables
<1>3. \A q \in Requests \ {r} : Reading(q)'
  BY <1>1, <1>2, ReadingFrame DEF Freshness
<1>4. ASSUME NEW code, NEW body, Answer(r, code, body)
      PROVE  Reading(r)' /\ loc'[r].keys = {}
  <2>1. pc'[r] = "done" /\ loc'[r].keys = {}
    BY <1>4, AnswerSeen DEF Answer, NoWork, ServiceTypeOK
  <2> QED
    BY <2>1 DEF Reading
<1>5. CASE InvalidateKey(r)
  <2>1. PICK k \in loc[r].keys :
          /\ cache' = Without(k) /\ leaked' = leaked \ {k}
          /\ \/ loc[r].keys = {k} /\ Answer(r, Success(r), Result(r))
             \/ /\ loc' = [loc EXCEPT ![r].keys = @ \ {k}]
                /\ UNCHANGED <<pc, out>>
    BY <1>5 DEF InvalidateKey
  <2>2. pc[r] = "invalidate"
    BY <1>5 DEF InvalidateKey
  <2>3. loc'[r].keys = loc[r].keys \ {k} /\ Reading(r)'
    <3>1. CASE loc[r].keys = {k} /\ Answer(r, Success(r), Result(r))
      BY <1>4, <3>1
    <3>2. CASE loc' = [loc EXCEPT ![r].keys = @ \ {k}] /\ UNCHANGED <<pc, out>>
      BY <2>2, <3>2 DEF ServiceTypeOK, Work, Reading
    <3> QED
      BY <2>1, <3>1, <3>2
  <2>4. ASSUME NEW l \in DOMAIN cache'
        PROVE  \/ Fresh(l)' \/ l \in leaked'
               \/ \E q \in Requests : l \in loc'[q].keys
               \/ l.page > InvalidatedPages
    <3>1. l \in DOMAIN cache \ {k} /\ cache'[l] = cache[l]
      BY <2>1 DEF Without
    <3>2. Fresh(l) => Fresh(l)'
      BY <1>2, <3>1 DEF Fresh
    <3> QED
      BY <1>1, <2>1, <2>3, <3>1, <3>2 DEF Freshness, StaleOnlyIfLeaked
  <2> QED
    BY <1>3, <2>3, <2>4 DEF Freshness, StaleOnlyIfLeaked
<1>6. CASE InvalidateFails(r)
  <2>1. /\ cache' = cache /\ leaked' = leaked \cup loc[r].keys
        /\ Answer(r, Success(r), Result(r))
    BY <1>6 DEF InvalidateFails
  <2>2. ASSUME NEW l \in DOMAIN cache'
        PROVE  \/ Fresh(l)' \/ l \in leaked'
               \/ \E q \in Requests : l \in loc'[q].keys
               \/ l.page > InvalidatedPages
    <3>1. Fresh(l) => Fresh(l)'
      BY <1>2, <2>1 DEF Fresh
    <3> QED
      BY <1>1, <2>1, <3>1 DEF Freshness, StaleOnlyIfLeaked
  <2> QED
    BY <1>3, <1>4, <2>1, <2>2 DEF Freshness, StaleOnlyIfLeaked
<1>7. CASE Store(r)
  <2> DEFINE k == KeyOf(req[r].filter)
  <2>1. /\ pc[r] = "store" /\ Answer(r, 200, [page |-> loc[r].page])
        /\ \/ /\ cache' = [l \in DOMAIN cache \cup {k} |->
                              IF l = k THEN loc[r].page ELSE cache[l]]
              /\ leaked' = IF r \in overtaken THEN leaked \cup {k} ELSE leaked \ {k}
           \/ UNCHANGED <<cache, leaked>>
    BY <1>7 DEF Store
  <2>2. loc[r].keys = {}
    BY <2>1 DEF Freshness, Reading
  <2>3. r \notin overtaken =>
          /\ loc[r].page.items = ListRows(tasks, loc[r].page.for)
          /\ loc[r].page.total = CountRows(tasks, loc[r].page.for)
    BY <2>1 DEF Freshness, Reading
  <2> HIDE DEF k
  <2>4. ASSUME NEW l \in DOMAIN cache'
        PROVE  \/ Fresh(l)' \/ l \in leaked'
               \/ \E q \in Requests : l \in loc'[q].keys
               \/ l.page > InvalidatedPages
    <3>1. CASE UNCHANGED <<cache, leaked>>
      <4>1. Fresh(l) => Fresh(l)'
        BY <1>2, <3>1 DEF Fresh
      <4> QED
        BY <1>1, <2>2, <3>1, <4>1 DEF Freshness, StaleOnlyIfLeaked
    <3>2. CASE /\ cache' = [m \in DOMAIN cache \cup {k} |->
                              IF m = k THEN loc[r].page ELSE cache[m]]
               /\ leaked' = IF r \in overtaken THEN leaked \cup {k} ELSE leaked \ {k}
      <4>1. CASE l = k
        <5>1. cache'[l] = loc[r].page
          BY <3>2, <4>1
        <5>2. r \notin overtaken => Fresh(l)'
          BY <1>2, <2>3, <5>1 DEF Fresh
        <5> QED
          BY <3>2, <4>1, <5>2
      <4>2. CASE l # k
        <5>1. l \in DOMAIN cache /\ cache'[l] = cache[l]
          BY <3>2, <4>2
        <5>2. Fresh(l) => Fresh(l)'
          BY <1>2, <5>1 DEF Fresh
        <5>3. l \in leaked => l \in leaked'
          BY <3>2, <4>2
        <5> QED
          BY <1>1, <2>2, <5>1, <5>2, <5>3 DEF Freshness, StaleOnlyIfLeaked
      <4> QED
        BY <4>1, <4>2
    <3> QED
      BY <2>1, <3>1, <3>2
  <2> QED
    BY <1>3, <1>4, <2>1, <2>4 DEF Freshness, StaleOnlyIfLeaked
<1> QED
  BY <1>5, <1>6, <1>7

(* The writes: what they change is of the team they invalidate.            *)
LEMMA WritesFreshness ==
  ASSUME IInv, IInv', Promises, Freshness, NEW r \in Requests,
         Insert(r) \/ Commit(r) \/ SoftDelete(r)
  PROVE  Freshness'
<1> USE TypeSplit DEF IInv
<1>1. \A q \in Requests \ {r} : pc'[q] = pc[q] /\ loc'[q] = loc[q]
  BY Others DEF Serve
<1>2. pc[r] # "invalidate" /\ UNCHANGED <<cache, req>>
  BY Zenon DEF Insert, Commit, SoftDelete
<1>3. CASE UNCHANGED <<tables, audit>>
  BY <1>2, <1>3, QuietFreshness DEF Serve, tables, audit
<1>4. ASSUME NEW row, Written(r, row), tasks' = Append(tasks, row)
      PROVE  Freshness'
  <2>1. SameBut(row.team, tasks, tasks')
    BY <1>4 DEF LedgerTypeOK, SameBut
  <2> QED
    BY <1>1, <1>2, <1>4, <2>1, WriteFreshness
<1>5. ASSUME NEW row, Written(r, row), NEW t \in DOMAIN tasks, NEW new,
             tasks' = [tasks EXCEPT ![t] = new],
             new.team = tasks[t].team, row.team = tasks[t].team
      PROVE  Freshness'
  <2>1. SameBut(row.team, tasks, tasks')
    BY <1>5 DEF LedgerTypeOK, SameBut
  <2> QED
    BY <1>1, <1>2, <1>5, <2>1, WriteFreshness
<1>6. CASE Insert(r)
  BY <1>3, <1>4, <1>6, Zenon DEF Insert
<1>7. CASE Commit(r)
  <2> DEFINE t == req[r].task  row == loc[r].row
  <2>1. pc[r] = "entries" /\ tasks' = [tasks EXCEPT ![t] = row] /\ Written(r, row)
    BY <1>7 DEF Commit
  <2>2. t \in DOMAIN tasks /\ row = Patched(tasks[t], BuildPatch(req[r].body))
    BY <2>1 DEF TransactionIsCurrent, Local
  <2>3. tasks[t] \in Row
    BY <2>2 DEF LedgerTypeOK
  <2>4. row.team = tasks[t].team
    BY <2>2, <2>3 DEF Patched, Row
  <2> QED
    BY <1>5, <2>1, <2>2, <2>4
<1>8. CASE SoftDelete(r)
  <2> DEFINE t == req[r].task
  <2>1. pc[r] = "delete" /\ t \in DOMAIN tasks
    BY <1>8 DEF SoftDelete, Local
  <2>2. tasks[t] \in Row
    BY <2>1 DEF LedgerTypeOK
  <2>3. CASE /\ tasks' = [tasks EXCEPT ![t].deleted = TRUE]
             /\ Written(r, tasks[t])
    <3> DEFINE new == [tasks[t] EXCEPT !.deleted = TRUE]
    <3>1. tasks' = [tasks EXCEPT ![t] = new]
      BY <2>3
    <3>2. new.team = tasks[t].team
      BY <2>2 DEF Row
    <3>3. Written(r, tasks[t]) /\ tasks[t].team = tasks[t].team
      BY <2>3
    <3> HIDE DEF new, t, IInv
    <3> QED
      BY <1>5, <2>1, <3>1, <3>2, <3>3, Zenon
  <2> QED
    BY <1>3, <1>8, <2>3, Zenon DEF SoftDelete
<1> QED
  BY <1>6, <1>7, <1>8

(* What is known of stale pages holds at the start and survives every step.*)
LEMMA FreshnessHolds == Spec => []Freshness
<1>1. Init => Freshness
  BY DEF Init, Freshness, StaleOnlyIfLeaked, Reading, NoWork
<1>2. ASSUME IInv, IInv', Promises, Freshness, [Next]_vars PROVE Freshness'
  <2> USE TypeSplit DEF IInv
  <2>1. ASSUME NEW r \in Requests, Accept(r) \/ Serve(r) \/ DBError(r)
        PROVE  Freshness'
    <3>1. CASE InvalidateKey(r) \/ InvalidateFails(r) \/ Store(r)
      BY <1>2, <3>1, CacheFreshness
    <3>2. CASE Insert(r) \/ Commit(r) \/ SoftDelete(r)
      BY <1>2, <3>2, WritesFreshness
    <3>3. CASE \/ Accept(r) \/ Find(r) \/ Member(r) \/ UpdateTx(r)
               \/ InsertHistory(r) \/ ReadHistory(r) \/ CacheGet(r)
               \/ SelectRows(r) \/ SelectCount(r) \/ DBError(r)
      <4>1. UNCHANGED <<tables, cache, audit>> /\ pc[r] # "invalidate"
        BY <3>3, Zenon DEF Accept, Find, Member, UpdateTx, InsertHistory,
           ReadHistory, CacheGet, SelectRows, SelectCount, DBError
      <4>2. UNCHANGED <<tasks, cache, leaked, overtaken>>
        BY <4>1 DEF tables, audit
      <4> QED
        BY <1>2, <2>1, <4>1, <4>2, QuietFreshness
    <3> QED
      BY <2>1, <3>1, <3>2, <3>3 DEF Serve
  <2>2. CASE Crash
    <3>1. /\ tasks' = tasks /\ cache' = cache /\ overtaken' = overtaken
          /\ leaked' = leaked \cup UNION {loc[r].keys : r \in Requests}
          /\ \A r \in Requests : pc'[r] \in {"idle", "done"} /\ loc'[r].keys = {}
      BY <2>2 DEF Crash, tables, InFlight, NoWork
    <3>2. \A k \in DOMAIN cache : Fresh(k) => Fresh(k)'
      BY <3>1 DEF Fresh
    <3>3. \A k : (\E r \in Requests : k \in loc[r].keys) => k \in leaked'
      BY <3>1
    <3>4. StaleOnlyIfLeaked'
      BY <1>2, <3>1, <3>2, <3>3 DEF Freshness, StaleOnlyIfLeaked
    <3> QED
      BY <3>1, <3>4 DEF Freshness, Reading
  <2>3. ASSUME NEW k \in DOMAIN cache, Expire(k) PROVE Freshness'
    <3>1. /\ tasks' = tasks /\ UNCHANGED <<pc, loc, overtaken>>
          /\ cache' = Without(k) /\ leaked' = leaked \ {k}
      BY <2>3 DEF Expire, tables
    <3>2. \A l \in DOMAIN cache' : l \in DOMAIN cache \ {k} /\ cache'[l] = cache[l]
      BY <3>1 DEF Without
    <3>3. \A l \in DOMAIN cache' : Fresh(l) => Fresh(l)'
      BY <3>1, <3>2 DEF Fresh
    <3>4. \A r \in Requests : Reading(r)'
      BY <1>2, <3>1, ReadingFrame DEF Freshness
    <3> QED
      BY <1>2, <3>1, <3>2, <3>3, <3>4 DEF Freshness, StaleOnlyIfLeaked
  <2>4. CASE Join \/ UNCHANGED vars
    <3>1. UNCHANGED <<tasks, cache, leaked, overtaken, pc, loc>>
      BY <2>4 DEF Join, vars, tables, audit
    <3> QED
      BY <1>2, <3>1, CoveredFrame, ReadingFrame DEF Freshness
  <2> QED
    BY <1>2, <2>1, <2>2, <2>3, <2>4 DEF Next, Finished
<1> QED
  BY <1>1, <1>2, Invariance, PromisesHold, PTL DEF Spec

(* A stale page is about to be deleted, or one of the listed misfortunes   *)
(* happened to its invalidation: there is no other way.                    *)
THEOREM StalenessExplained == Spec => []StaleOnlyIfLeaked
<1>1. Freshness => StaleOnlyIfLeaked
  BY DEF Freshness
<1> QED
  BY <1>1, FreshnessHolds, PTL
===============================================================================
