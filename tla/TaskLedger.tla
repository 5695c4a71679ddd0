------------------------------ MODULE TaskLedger ------------------------------
(***************************************************************************)
(* What the tables tasks and task_history promise to the readers of the    *)
(* API, with no request, lock or cache in sight: rows are inserted,        *)
(* changed together with their history, and soft-deleted, each in one      *)
(* step.  A change either records exactly what it did, or was made by      *)
(* somebody whose picture of the row was out of date; the task is then     *)
(* in raced and its history need no longer add up.                         *)
(***************************************************************************)
EXTENDS TaskData

VARIABLES
    tasks,      \* rows of table tasks; the id of a row is its position
    history,    \* history[t]: the entries of task t, in the order of their ids
    created,    \* auxiliary: the rows as they were inserted
    raced       \* auxiliary: tasks updated on the ground of a stale read

ledger == <<tasks, history, created, raced>>

LedgerInit ==
    /\ tasks \in Seq(Row)
    /\ created = tasks
    /\ history = [t \in DOMAIN tasks |-> <<>>]
    /\ raced = {}

(* A row is inserted, alive and with no history.                           *)
LedgerInsert(row) ==
    /\ row \in Row /\ ~row.deleted
    /\ tasks'   = Append(tasks, row)
    /\ created' = Append(created, row)
    /\ history' = Append(history, <<>>)
    /\ UNCHANGED raced

(* The entries a step adds to the history of task t, by position.          *)
Added(t) == (Len(history[t]) + 1) .. Len(history'[t])

(* The history of t only grows, by at most one entry a field, and each new *)
(* entry tells the new value of its field.                                 *)
Extended(t) ==
    /\ history' = [history EXCEPT ![t] = history'[t]]
    /\ history'[t] \in Seq(Entry)
    /\ Len(history[t]) <= Len(history'[t])
    /\ \A i \in 1..Len(history[t]) : history'[t][i] = history[t][i]
    /\ \A i \in Added(t) :
          history'[t][i].new = tasks'[t].val[history'[t][i].field]
    /\ \A i, j \in Added(t) : history'[t][i].field = history'[t][j].field => i = j

(* The new entries tell the old values, and no changed field lacks one; the*)
(* assignee alone may have one that tells of no change.                    *)
Faithful(t) ==
    /\ \A i \in Added(t) :
          history'[t][i].old = tasks[t].val[history'[t][i].field]
    /\ \A i \in Added(t) : history'[t][i].old = history'[t][i].new =>
          history'[t][i].field = "assignee_id"
    /\ \A f \in Fields : tasks'[t].val[f] # tasks[t].val[f] =>
          \E i \in Added(t) : history'[t][i].field = f

LedgerChange(t) ==
    /\ ~tasks[t].deleted
    /\ tasks' = [tasks EXCEPT ![t] = tasks'[t]]
    /\ tasks'[t] \in Row /\ ~tasks'[t].deleted
    /\ tasks'[t].team = tasks[t].team /\ tasks'[t].by = tasks[t].by
    /\ Extended(t)
    /\ \/ raced' = raced /\ Faithful(t)
       \/ raced' = raced \cup {t}
    /\ UNCHANGED created

LedgerDelete(t) ==
    /\ ~tasks[t].deleted
    /\ tasks' = [tasks EXCEPT ![t].deleted = TRUE]
    /\ UNCHANGED <<history, created, raced>>

LedgerNext ==
    \/ Len(tasks') = Len(tasks) + 1 /\ LedgerInsert(tasks'[Len(tasks')])
    \/ \E t \in DOMAIN tasks : LedgerChange(t) \/ LedgerDelete(t)

LedgerSpec == LedgerInit /\ [][LedgerNext]_ledger

-------------------------------------------------------------------------------
(* The three tables agree on the ids in use.                               *)
LedgerTypeOK ==
    /\ tasks \in Seq(Row) /\ created \in Seq(Row)
    /\ history \in Seq(Seq(Entry))
    /\ Len(history) = Len(tasks) /\ Len(created) = Len(tasks)
    /\ raced \subseteq DOMAIN tasks

(* The positions of the entries about field f of task t.                   *)
About(t, f) == {i \in 1..Len(history[t]) : history[t][i].field = f}

(* The history of a field explains its value: it starts from the value the *)
(* row was inserted with, each entry starts where the one before it ended, *)
(* and the last one ends with the value of the row.                        *)
Explained(t, f) ==
    LET is == About(t, f)
        old(i) == history[t][i].old
        new(i) == history[t][i].new
    IN  /\ is = {} => tasks[t].val[f] = created[t].val[f]
        /\ \A i \in is : (\A j \in is : i <= j) => old(i) = created[t].val[f]
        /\ \A i, j \in is :
              (i < j /\ ~\E k \in is : i < k /\ k < j) => new(i) = old(j)
        /\ \A i \in is : (\A j \in is : j <= i) => new(i) = tasks[t].val[f]

(* Unless an update of the task was made on the ground of a stale read, the*)
(* history of every field explains its value.                              *)
HistoryExplainsRow ==
    \A t \in DOMAIN tasks : t \notin raced => \A f \in Fields : Explained(t, f)

(* A deleted row is final: no later step changes it or adds to its history.*)
DeletedIsFinal ==
    [][\A t \in DOMAIN tasks : tasks[t].deleted =>
          tasks'[t] = tasks[t] /\ history'[t] = history[t]]_ledger
===============================================================================
