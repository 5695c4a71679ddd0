-------------------------- MODULE StatsQueriesProofs --------------------------
(***************************************************************************)
(* Theorems about StatsQueries: what becomes done is counted, the top      *)
(* creators are the top, and orphans come from assignments only.           *)
(*                                                                         *)
(* The first is proved of every step of TaskLedger, which the service      *)
(* implements; its inductive invariant adds that the entries counted are   *)
(* finitely many.  The second holds of every state: the ranks number the   *)
(* creators from 1 on.                                                     *)
(***************************************************************************)
EXTENDS StatsQueries, TaskServiceProofs

-------------------------------------------------------------------------------
(* The number of done tasks.                                               *)

(* The history entries of a team that tell of a task becoming done.        *)
Tells(team) ==
    {e \in Nat \X Nat :
        /\ e[1] \in DOMAIN tasks /\ tasks[e[1]].team = team
        /\ e[2] \in DOMAIN history[e[1]]
        /\ history[e[1]][e[2]].field = "status"
        /\ history[e[1]][e[2]].new = "done"}

(* They are what the query counts, and finitely many.                      *)
TellsFinite == \A team \in Teams : IsFiniteSet(Tells(team))

(* The tasks of a team that a step takes to the status done.               *)
BecomeDone(team) == DoneNow(team)' \ DoneNow(team)

(* What DoneIsCounted says of a step and a team.                           *)
Counted(team) ==
    (\A t \in raced' : tasks'[t].team # team) =>
        /\ BecomeDone(team) \cap DOMAIN tasks # {} =>
              DoneLast7Days(team)' = DoneLast7Days(team) + 1
        /\ DoneLast7Days(team)' > DoneLast7Days(team) => BecomeDone(team) # {}

LEMMA ToldNew == LedgerTypeOK => \A team \in Teams : DoneEntries(team) = Tells(team)
<1> SUFFICES ASSUME LedgerTypeOK, NEW team \in Teams
             PROVE  DoneEntries(team) = Tells(team)
  OBVIOUS
<1>1. /\ DOMAIN tasks = 1..Len(tasks) /\ Len(tasks) \in Nat
      /\ \A t \in DOMAIN tasks : DOMAIN history[t] = 1..Len(history[t])
                                  /\ Len(history[t]) \in Nat
  BY DEF LedgerTypeOK
<1> QED BY <1>1 DEF DoneEntries, Tells

LEMMA ToldNewNext == (LedgerTypeOK => \A team \in Teams : DoneEntries(team) = Tells(team))'
  BY ToldNew, PTL

(* Who leaves the entries alone, and makes no task done, counts nothing.   *)
LEMMA NothingCounted ==
  ASSUME LedgerTypeOK, LedgerTypeOK', TellsFinite, NEW team \in Teams,
         Tells(team)' = Tells(team),
         (\A t \in raced' : tasks'[t].team # team) =>
            BecomeDone(team) \cap DOMAIN tasks = {}
  PROVE  IsFiniteSet(Tells(team))' /\ Counted(team)
<1>1. DoneLast7Days(team) = Cardinality(Tells(team))
  BY ToldNew DEF DoneLast7Days
<1>2. DoneEntries(team)' = Tells(team)'
  BY ToldNewNext
<1>3. DoneLast7Days(team)' = Cardinality(Tells(team))
  BY <1>2 DEF DoneLast7Days
<1>4. Cardinality(Tells(team)) \in Nat
  BY FS_CardinalityType DEF TellsFinite
<1> QED BY <1>1, <1>3, <1>4 DEF Counted, TellsFinite

(* An inserted row has no history, and a deleted one keeps what it has.    *)
LEMMA InsertCounts ==
  ASSUME LedgerTypeOK, LedgerTypeOK', TellsFinite, NEW row, LedgerInsert(row),
         NEW team \in Teams
  PROVE  IsFiniteSet(Tells(team))' /\ Counted(team)
<1> DEFINE n == Len(tasks) + 1
<1>1. /\ Len(tasks) \in Nat /\ DOMAIN tasks = 1..Len(tasks)
      /\ DOMAIN tasks' = 1..n /\ tasks'[n] = row
      /\ \A t \in 1..Len(tasks) : tasks'[t] = tasks[t] /\ history'[t] = history[t]
      /\ history'[n] = <<>>
  BY DEF LedgerTypeOK, LedgerInsert
<1>2. DOMAIN tasks' = DOMAIN tasks \cup {n} /\ n \notin DOMAIN tasks
  BY <1>1
<1>3. Tells(team)' = Tells(team)
  BY <1>1, <1>2 DEF Tells
<1>4. BecomeDone(team) \cap DOMAIN tasks = {}
  BY <1>1 DEF BecomeDone, DoneNow
<1> QED BY <1>3, <1>4, NothingCounted

LEMMA DeleteCounts ==
  ASSUME LedgerTypeOK, LedgerTypeOK', TellsFinite, NEW t \in DOMAIN tasks,
         LedgerDelete(t), NEW team \in Teams
  PROVE  IsFiniteSet(Tells(team))' /\ Counted(team)
<1>1. /\ DOMAIN tasks' = DOMAIN tasks /\ history' = history
      /\ \A u \in DOMAIN tasks : tasks'[u].team = tasks[u].team
                                   /\ tasks'[u].val = tasks[u].val
  BY DEF LedgerTypeOK, LedgerDelete, Row
<1>2. Tells(team)' = Tells(team)
  BY <1>1 DEF Tells
<1>3. BecomeDone(team) = {}
  BY <1>1 DEF BecomeDone, DoneNow
<1> QED BY <1>2, <1>3, NothingCounted

(* What a change of task t leaves as it was.                               *)
LEMMA ChangeFrame ==
  ASSUME LedgerTypeOK, NEW t \in DOMAIN tasks, LedgerChange(t)
  PROVE  /\ DOMAIN tasks' = DOMAIN tasks /\ created' = created
         /\ \A u \in DOMAIN tasks : tasks'[u].team = tasks[u].team
         /\ \A u \in DOMAIN tasks \ {t} : tasks'[u] = tasks[u] /\ history'[u] = history[u]
         /\ history[t] \in Seq(Entry) /\ history'[t] \in Seq(Entry)
         /\ Len(history[t]) <= Len(history'[t])
         /\ \A i \in 1..Len(history[t]) : history'[t][i] = history[t][i]
<1>1. /\ DOMAIN history = DOMAIN tasks
      /\ history[t] \in Seq(Entry)
  BY DEF LedgerTypeOK
<1>2. /\ tasks' = [tasks EXCEPT ![t] = tasks'[t]] /\ created' = created
      /\ history' = [history EXCEPT ![t] = history'[t]]
      /\ tasks'[t].team = tasks[t].team
  BY DEF LedgerChange, Extended
<1>3. /\ DOMAIN tasks' = DOMAIN tasks
      /\ \A u \in DOMAIN tasks \ {t} : tasks'[u] = tasks[u] /\ history'[u] = history[u]
  BY <1>1, <1>2
<1>4. \A u \in DOMAIN tasks : tasks'[u].team = tasks[u].team
  BY <1>2, <1>3
<1> QED BY <1>1, <1>2, <1>3, <1>4 DEF LedgerChange, Extended

(* Nor does it touch what is told of another team, or of this one unless   *)
(* it adds an entry about the status.                                      *)
LEMMA ChangeTold ==
  ASSUME LedgerTypeOK, NEW t \in DOMAIN tasks, LedgerChange(t), NEW team,
         tasks[t].team = team => \A i \in Added(t) : history'[t][i].field # "status"
  PROVE  Tells(team)' = Tells(team)
<1> DEFINE h == history[t]  h1 == history'[t]
<1>1. /\ DOMAIN h = 1..Len(h) /\ DOMAIN h1 = 1..Len(h1)
      /\ Len(h) \in Nat /\ Len(h1) \in Nat
      /\ DOMAIN h \subseteq DOMAIN h1
      /\ \A i \in DOMAIN h : h1[i] = h[i]
      /\ \A i \in DOMAIN h1 \ DOMAIN h : i \in Added(t)
  BY ChangeFrame DEF Added
<1>2. ASSUME NEW e \in Nat \X Nat, e[1] # t
      PROVE  e \in Tells(team)' <=> e \in Tells(team)
  BY <1>2, ChangeFrame DEF Tells
<1>3. ASSUME NEW e \in Nat \X Nat, e[1] = t
      PROVE  e \in Tells(team)' <=> e \in Tells(team)
  <2>1. CASE tasks[t].team # team
    BY <1>3, <2>1, ChangeFrame DEF Tells
  <2>2. CASE tasks[t].team = team
    BY <1>1, <1>3, <2>2, ChangeFrame DEF Tells
  <2> QED BY <2>1, <2>2
<1>4. Tells(team)' \subseteq Nat \X Nat /\ Tells(team) \subseteq Nat \X Nat
  BY DEF Tells
<1> QED BY <1>2, <1>3, <1>4

(* An entry about the status is told of its own team, if it is about done. *)
LEMMA ChangeTellsOne ==
  ASSUME LedgerTypeOK, NEW t \in DOMAIN tasks, LedgerChange(t), NEW team,
         tasks[t].team = team, NEW i \in Added(t), history'[t][i].field = "status"
  PROVE  /\ <<t, i>> \notin Tells(team)
         /\ Tells(team)' =
              IF history'[t][i].new = "done"
              THEN Tells(team) \cup {<<t, i>>}
              ELSE Tells(team)
<1> DEFINE h == history[t]  h1 == history'[t]
<1>0. /\ h \in Seq(Entry) /\ h1 \in Seq(Entry) /\ Len(h) <= Len(h1)
      /\ \A j \in 1..Len(h) : h1[j] = h[j]
  BY ChangeFrame
<1>1. /\ DOMAIN h = 1..Len(h) /\ DOMAIN h1 = 1..Len(h1)
      /\ Len(h) \in Nat /\ Len(h1) \in Nat
      /\ DOMAIN h \subseteq DOMAIN h1
      /\ \A j \in DOMAIN h : h1[j] = h[j]
      /\ i \in DOMAIN h1 /\ i \notin DOMAIN h /\ i \in Nat
  <2>1. i \in (Len(h) + 1)..Len(h1)
    BY DEF Added
  <2> HIDE DEF h, h1
  <2>2. DOMAIN h = 1..Len(h) /\ DOMAIN h1 = 1..Len(h1) /\ Len(h) \in Nat /\ Len(h1) \in Nat
    BY <1>0
  <2>3. DOMAIN h \subseteq DOMAIN h1 /\ \A j \in DOMAIN h : h1[j] = h[j]
    BY <1>0, <2>2
  <2>4. i \in DOMAIN h1 /\ i \notin DOMAIN h /\ i \in Nat
    BY <2>1, <2>2
  <2> QED BY <2>2, <2>3, <2>4
<1>2. \A j \in DOMAIN h1 \ DOMAIN h : h1[j].field = "status" => j = i
  BY <1>1, ChangeFrame DEF Added, LedgerChange, Extended
<1>3. t \in Nat /\ t \in DOMAIN tasks' /\ tasks'[t].team = team
  BY ChangeFrame DEF LedgerTypeOK
<1>4. <<t, i>> \notin Tells(team)
  BY <1>1 DEF Tells
<1>5. <<t, i>> \in Tells(team)' <=> h1[i].new = "done"
  BY <1>1, <1>3 DEF Tells
<1>6. ASSUME NEW e \in Nat \X Nat, e # <<t, i>>
      PROVE  e \in Tells(team)' <=> e \in Tells(team)
  <2>1. CASE e[1] # t
    BY <2>1, ChangeFrame DEF Tells
  <2>2. CASE e[1] = t
    <3>1. e[2] # i
      BY <1>6, <2>2
    <3> QED BY <1>1, <1>2, <1>3, <2>2, <3>1 DEF Tells
  <2> QED BY <2>1, <2>2
<1>7. Tells(team)' \subseteq Nat \X Nat /\ Tells(team) \subseteq Nat \X Nat
  BY DEF Tells
<1>8. <<t, i>> \in Nat \X Nat
  BY <1>1, <1>3
<1> DEFINE T == Tells(team)  T1 == Tells(team)'
<1>9. /\ \A e \in Nat \X Nat : e # <<t, i>> => (e \in T1 <=> e \in T)
      /\ T1 \subseteq Nat \X Nat /\ T \subseteq Nat \X Nat
      /\ <<t, i>> \notin T
  BY <1>4, <1>6, <1>7
<1>10. CASE h1[i].new = "done"
  <2>1. <<t, i>> \in T1
    BY <1>5, <1>10
  <2> HIDE DEF T, T1
  <2>2. T1 = T \cup {<<t, i>>}
    BY <1>8, <1>9, <2>1
  <2> QED BY <1>4, <1>10, <2>2 DEF T, T1
<1>11. CASE h1[i].new # "done"
  <2>1. <<t, i>> \notin T1
    BY <1>5, <1>11
  <2> HIDE DEF T, T1
  <2>2. T1 = T
    BY <1>8, <1>9, <2>1
  <2> QED BY <1>4, <1>11, <2>2 DEF T, T1
<1> QED BY <1>10, <1>11

(* A change counts if it has an entry that tells of the status done. If it *)
(* is faithful, that is if it makes the task done.                         *)
LEMMA ChangeCounts ==
  ASSUME LedgerTypeOK, LedgerTypeOK', TellsFinite, NEW t \in DOMAIN tasks,
         LedgerChange(t), NEW team \in Teams
  PROVE  IsFiniteSet(Tells(team))' /\ Counted(team)
<1> DEFINE before == tasks[t].val["status"]  after == tasks'[t].val["status"]
<1>1. ASSUME \A u \in raced' : tasks'[u].team # team, tasks[t].team = team
      PROVE  Faithful(t)
  BY <1>1, ChangeFrame DEF LedgerChange
<1>2. ASSUME NEW u \in DOMAIN tasks
      PROVE  u \in BecomeDone(team) <=>
               u = t /\ tasks[t].team = team /\ before # "done" /\ after = "done"
  BY <1>2, ChangeFrame DEF BecomeDone, DoneNow
<1>3. BecomeDone(team) = IF tasks[t].team = team /\ before # "done" /\ after = "done"
                         THEN {t} ELSE {}
  <2>1. BecomeDone(team) \subseteq DOMAIN tasks
    BY ChangeFrame DEF BecomeDone, DoneNow
  <2> QED BY <1>2, <2>1
<1>4. ASSUME tasks[t].team = team => \A i \in Added(t) : history'[t][i].field # "status"
      PROVE  IsFiniteSet(Tells(team))' /\ Counted(team)
  <2>1. ASSUME Faithful(t), tasks[t].team = team PROVE after = before
    BY <1>4, <2>1 DEF Faithful, Fields
  <2>2. (\A u \in raced' : tasks'[u].team # team) => BecomeDone(team) = {}
    BY <1>1, <1>3, <2>1
  <2>3. Tells(team)' = Tells(team)
    BY <1>4, ChangeTold
  <2> QED BY <2>2, <2>3, NothingCounted
<1>5. ASSUME tasks[t].team = team, NEW i \in Added(t), history'[t][i].field = "status"
      PROVE  IsFiniteSet(Tells(team))' /\ Counted(team)
  <2>1. history'[t][i].new = after
    BY <1>5 DEF LedgerChange, Extended
  <2>2. <<t, i>> \notin Tells(team)
        /\ Tells(team)' = IF after = "done" THEN Tells(team) \cup {<<t, i>>} ELSE Tells(team)
    BY <1>5, <2>1, ChangeTellsOne
  <2>3. ASSUME Faithful(t) PROVE before # after
    BY <1>5, <2>1, <2>3 DEF Faithful
  <2>4. IsFiniteSet(Tells(team)) /\ Cardinality(Tells(team)) \in Nat
    BY FS_CardinalityType DEF TellsFinite
  <2>5. CASE after = "done"
    <3>1. /\ IsFiniteSet(Tells(team)')
          /\ Cardinality(Tells(team)') = Cardinality(Tells(team)) + 1
      <4> DEFINE A == Tells(team)  A1 == Tells(team)'  e == <<t, i>>
      <4>1. A1 = A \cup {e} /\ e \notin A /\ IsFiniteSet(A)
        BY <2>2, <2>4, <2>5
      <4> HIDE DEF A, A1, e
      <4>2. IsFiniteSet(A1) /\ Cardinality(A1) = Cardinality(A) + 1
        BY <4>1, FS_AddElement
      <4> QED BY <4>2 DEF A, A1
    <3>2. DoneLast7Days(team) = Cardinality(Tells(team))
      BY ToldNew DEF DoneLast7Days
    <3>3. DoneEntries(team)' = Tells(team)'
      BY ToldNewNext
    <3>4. DoneLast7Days(team)' = Cardinality(Tells(team)')
      BY <3>3 DEF DoneLast7Days
    <3>5. (\A u \in raced' : tasks'[u].team # team) => BecomeDone(team) # {}
      BY <1>1, <1>3, <1>5, <2>3, <2>5
    <3> QED BY <3>1, <3>2, <3>4, <3>5 DEF Counted
  <2>6. CASE after # "done"
    <3>1. Tells(team)' = Tells(team) /\ BecomeDone(team) = {}
      BY <1>3, <2>2, <2>6
    <3> QED BY <3>1, NothingCounted
  <2> QED BY <2>5, <2>6
<1> QED BY <1>4, <1>5

(* So every step of a ledger counts what becomes done.                     *)
LEMMA CountStep ==
  LedgerTypeOK /\ TellsFinite /\ [LedgerNext]_ledger
    => TellsFinite' /\ \A team \in Teams : Counted(team)
<1> SUFFICES ASSUME LedgerTypeOK, TellsFinite, [LedgerNext]_ledger, NEW team \in Teams
             PROVE  IsFiniteSet(Tells(team))' /\ Counted(team)
  BY DEF TellsFinite
<1>1. LedgerTypeOK'
  BY LedgerNextTypes
<1>2. CASE UNCHANGED ledger
  <2>1. Tells(team)' = Tells(team) /\ BecomeDone(team) = {}
    BY <1>2 DEF ledger, Tells, BecomeDone, DoneNow
  <2> QED BY <1>1, <2>1, NothingCounted
<1> QED BY <1>1, <1>2, InsertCounts, ChangeCounts, DeleteCounts DEF LedgerNext

(* A system that starts has no history.                                    *)
LEMMA CountInit == LedgerInit => TellsFinite
<1> SUFFICES ASSUME LedgerInit, NEW team \in Teams PROVE IsFiniteSet(Tells(team))
  BY DEF TellsFinite
<1>1. Tells(team) = {}
  BY DEF LedgerInit, Tells
<1> QED BY <1>1, FS_EmptySet

(* The number of done tasks the service reports goes up by one in the step *)
(* in which an update makes a task of the team done, and in no step that   *)
(* makes none, for a team none of whose tasks was changed on a stale read. *)
THEOREM DoneCountHolds == Spec => DoneIsCounted
<1>1. LedgerInit => LedgerTypeOK /\ TellsFinite
  BY LedgerInitial, CountInit
<1>2. LedgerTypeOK /\ TellsFinite /\ [LedgerNext]_ledger => (LedgerTypeOK /\ TellsFinite)'
  BY LedgerNextTypes, CountStep
<1>3. LedgerTypeOK /\ TellsFinite /\ [LedgerNext]_ledger /\ [Next]_vars =>
        [\A team \in Teams : (\A t \in raced' : tasks'[t].team # team) =>
            LET done == (DoneNow(team)' \ DoneNow(team)) IN
            /\ done \cap DOMAIN tasks # {} =>
                  DoneLast7Days(team)' = DoneLast7Days(team) + 1
            /\ DoneLast7Days(team)' > DoneLast7Days(team) => done # {}]_vars
  BY CountStep DEF Counted, BecomeDone
<1> QED BY <1>1, <1>2, <1>3, ServiceImplementsLedger, PTL
        DEF ImplementsLedger, LedgerSpec, Spec, DoneIsCounted

-------------------------------------------------------------------------------
(* The top creators.                                                       *)

(* Those ranked before a creator of a team.                                *)
Before(team, u) == {x \in Creators(team) : Ahead(team, x, u)}

(* A creator has one task at least of his own, so there are no more of     *)
(* them than rows.                                                         *)
LEMMA CreatorsFinite ==
  ASSUME LedgerTypeOK, NEW team
  PROVE  /\ IsFiniteSet(Creators(team))
         /\ \A u \in Users : TaskCount(team, u) \in Nat
<1> DEFINE C == Creators(team)  n == Len(tasks)
           f == [u \in C |-> CHOOSE t \in 1..n : t \in TasksBy(team, u)]
<1>1. DOMAIN tasks = 1..n /\ n \in Nat /\ IsFiniteSet(1..n)
  BY FS_Interval DEF LedgerTypeOK
<1>2. \A u \in Users : TasksBy(team, u) \in SUBSET (1..n)
  BY <1>1 DEF TasksBy
<1>3. \A u \in Users : TaskCount(team, u) \in Nat
  BY <1>1, <1>2, FS_Subset, FS_CardinalityType DEF TaskCount
<1>4. \A u \in C : f[u] \in 1..n /\ f[u] \in TasksBy(team, u)
  BY <1>2 DEF Creators
<1>5. \A u \in C : tasks[f[u]].by = u
  BY <1>4 DEF TasksBy
<1>6. f \in Injection(C, 1..n)
  <2>1. f \in [C -> 1..n]
    BY <1>4
  <2> HIDE DEF f, C
  <2> QED BY <1>5, <2>1 DEF Injection, IsInjective
<1>7. IsFiniteSet(C)
  <2> HIDE DEF f, C, n
  <2> QED BY <1>1, <1>6, FS_Injection
<1> QED BY <1>3, <1>7

(* Ahead orders the creators: no two of them share an id.                  *)
LEMMA AheadIsStrict ==
  ASSUME LedgerTypeOK, NEW team, NEW u \in Users, NEW v \in Users, NEW w \in Users
  PROVE  /\ ~Ahead(team, u, u)
         /\ Ahead(team, u, v) /\ Ahead(team, v, w) => Ahead(team, u, w)
         /\ u # v => Ahead(team, u, v) \/ Ahead(team, v, u)
<1>1. /\ TaskCount(team, u) \in Nat /\ TaskCount(team, v) \in Nat
      /\ TaskCount(team, w) \in Nat
  BY CreatorsFinite
<1>2. /\ UserId[u] \in Nat /\ UserId[v] \in Nat /\ UserId[w] \in Nat
      /\ UserId[u] = UserId[v] => u = v
  BY StatsAssumption
<1> QED BY <1>1, <1>2 DEF Ahead

(* The ranks follow the order, and are numbers from 1 to that of creators. *)
LEMMA RankFollows ==
  ASSUME LedgerTypeOK, NEW team
  PROVE  \A u \in Creators(team) :
            /\ Rank(team, u) \in 1..Cardinality(Creators(team))
            /\ \A v \in Creators(team) : Ahead(team, u, v) => Rank(team, u) < Rank(team, v)
<1> DEFINE C == Creators(team)  B(u) == Before(team, u)
<1>1. IsFiniteSet(C) /\ C \subseteq Users
  BY CreatorsFinite DEF Creators
<1>2. \A u \in C : Rank(team, u) = 1 + Cardinality(B(u))
  BY DEF Rank, Before
<1>3. \A u \in C : u \notin B(u) /\ B(u) \in SUBSET C
  BY <1>1, AheadIsStrict DEF Before
<1>4. \A u, v \in C : Ahead(team, u, v) => B(u) \in SUBSET B(v) /\ u \in B(v)
  BY <1>1, AheadIsStrict DEF Before
<1> HIDE DEF C, B
<1>5. \A u \in C : IsFiniteSet(B(u)) /\ Cardinality(B(u)) \in Nat
  BY <1>1, <1>3, FS_Subset, FS_CardinalityType
<1>6. ASSUME NEW u \in C PROVE Cardinality(B(u)) < Cardinality(C)
  <2>1. Cardinality(B(u)) <= Cardinality(C) /\ Cardinality(B(u)) # Cardinality(C)
    BY <1>1, <1>3, <1>6, FS_Subset
  <2> QED BY <1>1, <1>5, <2>1, FS_CardinalityType
<1>7. ASSUME NEW u \in C, NEW v \in C, Ahead(team, u, v)
      PROVE  Cardinality(B(u)) < Cardinality(B(v))
  <2>1. /\ Cardinality(B(u)) <= Cardinality(B(v))
        /\ Cardinality(B(u)) # Cardinality(B(v))
    BY <1>3, <1>4, <1>5, <1>7, FS_Subset
  <2> QED BY <1>5, <2>1
<1>8. Cardinality(C) \in Nat
  BY <1>1, FS_CardinalityType
<1>9. \A u \in C : Rank(team, u) \in 1..Cardinality(C)
  BY <1>2, <1>5, <1>6, <1>8
<1>10. \A u, v \in C : Ahead(team, u, v) => Rank(team, u) < Rank(team, v)
  BY <1>2, <1>5, <1>7
<1> QED BY <1>9, <1>10 DEF C

(* So the first of them are as many as asked for, if there are enough.     *)
LEMMA TopAreFirst ==
  ASSUME LedgerTypeOK, NEW team, NEW limit \in Nat
  PROVE  Cardinality(TopCreators(team, limit))
           = IF Cardinality(Creators(team)) < limit
             THEN Cardinality(Creators(team)) ELSE limit
<1> DEFINE C == Creators(team)  n == Cardinality(C)
           m == IF n < limit THEN n ELSE limit
           rank == [u \in C |-> Rank(team, u)]
           top == TopCreators(team, limit)
           first == [u \in top |-> rank[u]]
<1>1. IsFiniteSet(C) /\ n \in Nat /\ C \subseteq Users
  BY CreatorsFinite, FS_CardinalityType DEF Creators
<1>2. top = {u \in C : rank[u] <= limit}
  BY DEF TopCreators
<1>3. rank \in Injection(C, 1..n)
  <2>1. rank \in [C -> 1..n]
    BY RankFollows
  <2>2. ASSUME NEW u \in C, NEW v \in C, u # v PROVE rank[u] # rank[v]
    <3>1. Ahead(team, u, v) \/ Ahead(team, v, u)
      BY <1>1, <2>2, AheadIsStrict
    <3>2. Rank(team, u) \in Nat /\ Rank(team, v) \in Nat
      BY RankFollows
    <3> QED BY <3>1, <3>2, RankFollows
  <2> HIDE DEF rank, C, n
  <2> QED BY <2>1, <2>2 DEF Injection, IsInjective
<1>4. /\ IsFiniteSet(1..n) /\ Cardinality(1..n) = n
      /\ IsFiniteSet(1..m) /\ Cardinality(1..m) = m /\ m \in Nat
  <2>1. m \in Nat
    BY <1>1
  <2> HIDE DEF n, m
  <2>2. \A k \in Nat : IsFiniteSet(1..k) /\ Cardinality(1..k) = k
    <3> TAKE k \in Nat
    <3>1. Cardinality(1..k) = IF 1 > k THEN 0 ELSE k - 1 + 1
      BY FS_Interval
    <3> QED BY <3>1, FS_Interval
  <2> QED BY <1>1, <2>1, <2>2
<1>5. m <= limit /\ m <= n /\ \A k \in 1..n : k <= limit => k \in 1..m
  BY <1>1
<1> HIDE DEF rank, C, n, top, m
<1>6. rank \in Surjection(C, 1..n)
  <2>1. Cardinality(C) = n
    BY DEF n
  <2> QED BY <1>1, <1>3, <1>4, <2>1, FS_Injection
<1>7. first \in Injection(top, 1..m)
  <2>1. rank \in [C -> 1..n] /\ \A u, v \in C : rank[u] = rank[v] => u = v
    BY <1>3 DEF Injection, IsInjective
  <2>2. \A u \in top : u \in C /\ first[u] = rank[u] /\ rank[u] \in 1..m
    BY <1>2, <1>5, <2>1
  <2>3. first \in [top -> 1..m] /\ \A u, v \in top : first[u] = first[v] => u = v
    BY <2>1, <2>2
  <2> HIDE DEF first
  <2> QED BY <2>3 DEF Injection, IsInjective
<1>8. first \in Surjection(top, 1..m)
  <2>1. ASSUME NEW k \in 1..m PROVE \E u \in top : first[u] = k
    <3>1. k \in 1..n /\ k <= limit
      BY <1>1, <1>4, <1>5
    <3>2. PICK u \in C : rank[u] = k
      BY <1>6, <3>1 DEF Surjection
    <3> QED BY <1>2, <3>1, <3>2
  <2>2. first \in [top -> 1..m]
    BY <1>7 DEF Injection, IsInjective
  <2> HIDE DEF first
  <2> QED BY <2>1, <2>2 DEF Surjection
<1>9. Cardinality(top) = m
  <2> HIDE DEF first
  <2> QED BY <1>4, <1>7, <1>8, FS_Injection
<1> QED BY <1>9 DEF top, m, n, C

(* No two creators share a rank, and nobody ranked behind has more tasks.  *)
LEMMA RanksAreDistinct ==
  ASSUME LedgerTypeOK, NEW team,
         NEW u \in Creators(team), NEW v \in Creators(team)
  PROVE  /\ Rank(team, u) = Rank(team, v) => u = v
         /\ Rank(team, u) < Rank(team, v) => TaskCount(team, v) <= TaskCount(team, u)
<1>1. u \in Users /\ v \in Users
  BY DEF Creators
<1>2. /\ Rank(team, u) \in Nat /\ Rank(team, v) \in Nat
      /\ Ahead(team, u, v) => Rank(team, u) < Rank(team, v)
      /\ Ahead(team, v, u) => Rank(team, v) < Rank(team, u)
  BY RankFollows
<1>3. u # v => Ahead(team, u, v) \/ Ahead(team, v, u)
  BY <1>1, AheadIsStrict
<1>4. ~Ahead(team, v, u) => TaskCount(team, v) <= TaskCount(team, u)
  BY <1>1, CreatorsFinite DEF Ahead
<1> QED BY <1>2, <1>3, <1>4

(* Every list the query may ask for is made of the first in the ranking.   *)
LEMMA TopAreTop == LedgerTypeOK => TopCreatorsAreTop
<1> SUFFICES ASSUME LedgerTypeOK, NEW team \in Teams, NEW query \in {0, 1, 2, 101}
             PROVE  LET limit == LimitOf(query)
                        top   == TopCreators(team, limit)
                    IN  /\ Cardinality(top) =
                             IF Cardinality(Creators(team)) < limit
                             THEN Cardinality(Creators(team)) ELSE limit
                        /\ \A u, v \in top : Rank(team, u) = Rank(team, v) => u = v
                        /\ \A u \in top, v \in Creators(team) \ top :
                              TaskCount(team, v) <= TaskCount(team, u)
  BY DEF TopCreatorsAreTop
<1> DEFINE limit == LimitOf(query)  top == TopCreators(team, limit)
<1>1. limit \in Nat
  BY DEF LimitOf, HandlerLimit, ServiceLimit, RepoLimit
<1> HIDE DEF limit
<1>2. /\ top \subseteq Creators(team)
      /\ \A u \in top : Rank(team, u) <= limit
      /\ \A u \in Creators(team) \ top : ~(Rank(team, u) <= limit)
  BY DEF TopCreators
<1>3. Cardinality(top) = IF Cardinality(Creators(team)) < limit
                         THEN Cardinality(Creators(team)) ELSE limit
  BY <1>1, TopAreFirst
<1> HIDE DEF top
<1>4. \A u, v \in top : Rank(team, u) = Rank(team, v) => u = v
  BY <1>2, RanksAreDistinct
<1>5. ASSUME NEW u \in top, NEW v \in Creators(team) \ top
      PROVE  TaskCount(team, v) <= TaskCount(team, u)
  <2>1. Rank(team, u) \in Nat /\ Rank(team, v) \in Nat
    BY <1>2, RankFollows
  <2>2. Rank(team, u) < Rank(team, v)
    BY <1>1, <1>2, <2>1
  <2> QED BY <1>2, <2>2, RanksAreDistinct
<1> QED BY <1>3, <1>4, <1>5 DEF top, limit

(* The list of top creators has as many users as the limit allows, each    *)
(* with a rank of its own, and leaves out nobody with more tasks.          *)
THEOREM TopCreatorsHold == Spec => []TopCreatorsAreTop
<1>1. TypeOK => LedgerTypeOK
  BY TypeSplit
<1> QED BY <1>1, TopAreTop, ServiceTypes, PTL

-------------------------------------------------------------------------------
(* The orphans.                                                            *)

(* A step that makes an orphan of a task changes its assignee: the members *)
(* of its team stay, it stays with the team, and once deleted it stays so. *)
LEMMA OrphanStep ==
  IInv /\ [Next]_vars => \A t \in DOMAIN tasks : t \in OrphanTasks' \ OrphanTasks =>
      tasks'[t].val["assignee_id"] # tasks[t].val["assignee_id"]
<1> SUFFICES ASSUME IInv, [Next]_vars, NEW t \in DOMAIN tasks, t \in OrphanTasks',
                    tasks'[t].val["assignee_id"] = tasks[t].val["assignee_id"]
             PROVE  t \in OrphanTasks
  OBVIOUS
<1>1. members \subseteq members' /\ tasks'[t].team = tasks[t].team
  BY MembersGrow, TeamsStay
<1>2. tasks[t].deleted => tasks'[t] = tasks[t]
  BY NextIInv, LedgerNextFinal, TypeSplit DEF IInv
<1>3. /\ ~tasks'[t].deleted /\ tasks'[t].val["assignee_id"] # Null
      /\ <<tasks'[t].val["assignee_id"], tasks'[t].team>> \notin members'
  BY DEF OrphanTasks, AssigneeJoins, Live
<1> QED BY <1>1, <1>2, <1>3 DEF OrphanTasks, AssigneeJoins, Live

(* A task becomes an orphan only by a write of its assignee.               *)
THEOREM OrphansComeFromWrites == Spec => OrphansAreAssigned
<1>1. IInv /\ [Next]_vars =>
        [\A t \in DOMAIN tasks : t \in OrphanTasks' \ OrphanTasks =>
           tasks'[t].val["assignee_id"] # tasks[t].val["assignee_id"]]_vars
  BY OrphanStep
<1> QED BY <1>1, Invariance, PTL DEF Spec, OrphansAreAssigned
===============================================================================
