--------------------------- MODULE DeploymentProofs ---------------------------
(***************************************************************************)
(* Theorems about Migrate, the process of the API and their Deployment, for*)
(* any number of files, statements, terminals and requests, and for any    *)
(* command lines and environments.                                         *)
(*                                                                         *)
(* The tool: only the one that holds the lock has read the version, so the *)
(* tables, the version and the flag are related by the place that tool is  *)
(* at.  A tool in the middle of a file has set the flag before its first   *)
(* statement, and a dirty version is what no tool goes on from.            *)
(* The schema: the success of the service migrate leaves a clean last      *)
(* version, on which the service itself has nothing more to do.            *)
(* The process: the listener and the handlers live between the start of    *)
(* the listener and the deferred calls, and the pool is closed only there. *)
(***************************************************************************)
EXTENDS Deployment, TLAPS

-------------------------------------------------------------------------------
(* The migration tool.                                                      *)

(* The steps of a tool that holds the lock, and those that run files.      *)
Inside  == {"read", "mark", "run", "clean", "unlock"}
InFiles == {"mark", "run", "clean"}

Holds(p) == tool[p] \in Inside => lock = p

(* Steps that are not cut short: how far the tool is from where it is going*)
OnItsWay(p) ==
    work[p].cmd.op = "steps" /\ ~work[p].short =>
        Applied(work[p].from) + (IF Upward(work[p].cmd) THEN work[p].left
                                                        ELSE -work[p].left)
          = Applied(work[p].start) + work[p].cmd.n

(* What the local variables of a tool say of each other.                   *)
Planned(p) ==
    /\ tool[p] \notin Ended =>
          work[p].cmd \in Commands /\ ~EndsAtOnce(work[p].cmd)
    /\ tool[p] \in InFiles =>
          /\ work[p].cmd.op # "force"
          /\ work[p].from \in Versions \cup {Nil}
          /\ work[p].left \in 1..Available(work[p].cmd, work[p].from)
          /\ work[p].cmd.op \in {"up", "down"} =>
                work[p].left = Available(work[p].cmd, work[p].from)
          /\ OnItsWay(p)
    /\ tool[p] = "run" => work[p].at < Statements
    /\ tool[p] = "clean" => work[p].at = Statements

(* The tables when n statements of the file of tool p were run.            *)
Partial(p, n) ==
    IF Upward(work[p].cmd)
    THEN Complete(work[p].from) \cup ({File(p)} \X (1..n))
    ELSE Complete(work[p].from) \ ({File(p)} \X ((Statements + 1 - n)..Statements))

(* What they say of the schema.                                            *)
Marks(p) ==
    /\ tool[p] = "mark" => version = work[p].from /\ ~dirty
    /\ tool[p] \in {"run", "clean"} =>
          /\ version = Target(p) /\ dirty
          /\ ~misled => tables = Partial(p, work[p].at)
    /\ tool[p] = "unlock" =>
          /\ ~dirty
          /\ work[p].cmd.op = "up"    => version = LastVersion
          /\ work[p].cmd.op = "steps" /\ ~work[p].short =>
                Applied(version) = Applied(work[p].start) + work[p].cmd.n
          /\ work[p].cmd.op = "force" => version = work[p].cmd.n

MigrateInv ==
    /\ MigrateTypeOK /\ CleanMeansComplete
    /\ \A p \in Terminals : Holds(p) /\ Planned(p) /\ Marks(p)

-------------------------------------------------------------------------------
(* The tables of the files up to v, and those of one more or one less.     *)
LEMMA CompleteNil == Complete(Nil) = {} /\ Complete(0) = {}
  BY DEF Complete, Nil

LEMMA CompleteGrows ==
  ASSUME NEW v \in Nat
  PROVE  Complete(v + 1) = Complete(v) \cup ({v + 1} \X (1..Statements))
  BY MigrateAssumption DEF Complete

LEMMA CompleteShrinks ==
  ASSUME NEW v \in Nat, v > 0
  PROVE  Complete(v) \ ({v} \X (1..Statements)) = Complete(v - 1)
  BY MigrateAssumption DEF Complete

LEMMA CompleteIn ==
  ASSUME NEW v \in Versions \cup {Nil}
  PROVE  Complete(v) \subseteq Versions \X (1..Statements)
  BY MigrateAssumption DEF Complete, Versions, Nil

(* One more statement of a file.                                           *)
LEMMA ColumnGrows ==
  ASSUME NEW f, NEW n \in Nat
  PROVE  ({f} \X (1..n)) \cup {<<f, n + 1>>} = {f} \X (1..(n + 1))
  OBVIOUS

LEMMA ColumnShrinks ==
  ASSUME NEW f, NEW n \in Nat, n < Statements
  PROVE  ({f} \X ((Statements + 1 - n)..Statements)) \cup {<<f, Statements + 1 - (n + 1)>>}
            = {f} \X ((Statements + 1 - (n + 1))..Statements)
  BY MigrateAssumption

LEMMA CommandFacts ==
  ASSUME NEW c \in Commands, ~EndsAtOnce(c)
  PROVE  \/ c.op = "up" \/ c.op = "down"
         \/ c.op = "steps" /\ c.n \in Int /\ c.n # 0
         \/ c.op = "force" /\ c.n \in Int /\ c.n >= Nil
  BY MigrateAssumption DEF Command, EndsAtOnce, Nil

(* A command that runs files goes up or down, and there is a next file as  *)
(* long as some are left.                                                  *)
LEMMA AvailableFacts ==
  ASSUME NEW c \in Commands, ~EndsAtOnce(c), c.op # "force",
         NEW v \in Versions \cup {Nil}
  PROVE  /\ Available(c, v) \in Nat /\ Wanted(c, v) \in Nat
         /\ c.op = "up" => Upward(c) /\ Wanted(c, v) = Available(c, v)
         /\ c.op = "down" => ~Upward(c) /\ Wanted(c, v) = Available(c, v)
         /\ Upward(c) /\ Available(c, v) > 0 => v # LastVersion
         /\ ~Upward(c) /\ Available(c, v) > 0 => v \in Versions
         /\ Upward(c) /\ Available(c, v) = 0 => v = LastVersion
         /\ ~Upward(c) /\ Available(c, v) = 0 => v = Nil
  BY CommandFacts, MigrateAssumption DEF Available, Applied, Wanted, Upward, Versions, Nil

(* Where the next file leads.                                              *)
LEMMA TargetFacts ==
  ASSUME NEW p \in Terminals, Planned(p), tool[p] \in InFiles
  PROVE  /\ File(p) \in Versions /\ Target(p) \in Versions \cup {Nil}
         /\ Available(work[p].cmd, Target(p)) = Available(work[p].cmd, work[p].from) - 1
         /\ Applied(Target(p)) = Applied(work[p].from)
                                  + (IF Upward(work[p].cmd) THEN 1 ELSE -1)
         /\ Partial(p, 0) = Complete(work[p].from)
         /\ Partial(p, Statements) = Complete(Target(p))
<1> DEFINE c == work[p].cmd  v == work[p].from
<1>1. c \in Commands /\ ~EndsAtOnce(c) /\ c.op # "force"
  BY DEF Planned, InFiles, Ended
<1>2. v \in Versions \cup {Nil} /\ Available(c, v) > 0
  <2>1. v \in Versions \cup {Nil} /\ work[p].left \in 1..Available(c, v)
    BY DEF Planned
  <2> QED BY <2>1, <1>1, AvailableFacts
<1>3. CASE Upward(c)
  <2>1. v # LastVersion
    BY <1>1, <1>2, <1>3, AvailableFacts
  <2>2. /\ File(p) = (IF v = Nil THEN 1 ELSE v + 1) /\ Target(p) = File(p)
        /\ File(p) \in Versions
    BY <1>2, <1>3, <2>1, MigrateAssumption DEF File, Target, Versions, Nil
  <2>3. /\ Available(c, Target(p)) = Available(c, v) - 1
        /\ Applied(Target(p)) = Applied(v) + 1
    BY <1>2, <1>3, <2>2, MigrateAssumption DEF Available, Applied, Versions, Nil
  <2>4. Partial(p, 0) = Complete(v)
    BY <1>3 DEF Partial
  <2>5. Complete(File(p)) = Complete(v) \cup ({File(p)} \X (1..Statements))
    BY <1>2, <2>2, CompleteNil, CompleteGrows DEF Versions, Nil
  <2> QED BY <1>3, <2>2, <2>3, <2>4, <2>5 DEF Partial
<1>4. CASE ~Upward(c)
  <2>1. v \in Versions
    BY <1>1, <1>2, <1>4, AvailableFacts
  <2>2. /\ File(p) = v /\ Target(p) = (IF v = 1 THEN Nil ELSE v - 1)
        /\ Target(p) \in Versions \cup {Nil}
    BY <1>4, <2>1, MigrateAssumption DEF File, Target, Versions, Nil
  <2>3. /\ Available(c, Target(p)) = Available(c, v) - 1
        /\ Applied(Target(p)) = Applied(v) + (-1)
    BY <1>4, <2>1, <2>2, MigrateAssumption DEF Available, Applied, Versions, Nil
  <2>4. Partial(p, 0) = Complete(v)
    BY <1>4, MigrateAssumption DEF Partial
  <2>5. Complete(Target(p)) = Complete(v) \ ({v} \X (1..Statements))
    BY <2>1, <2>2, CompleteNil, CompleteShrinks DEF Versions, Nil
  <2>6. Statements + 1 - Statements = 1
    BY MigrateAssumption
  <2>7. Partial(p, Statements) = Complete(Target(p))
    BY <1>4, <2>2, <2>5, <2>6 DEF Partial
  <2> QED BY <1>4, <2>1, <2>2, <2>3, <2>4, <2>7
<1> QED BY <1>3, <1>4

-------------------------------------------------------------------------------
LEMMA MigrateInitInv == MigrateInit => MigrateInv
<1> SUFFICES ASSUME MigrateInit PROVE MigrateInv
  OBVIOUS
<1>1. NoWork \in Work
  BY MigrateAssumption DEF NoWork, Begin, Work, Nil
<1>2. MigrateTypeOK
  <2>1. tool \in [Terminals -> ToolSteps] /\ work \in [Terminals -> Work]
    BY <1>1 DEF MigrateInit, ToolSteps
  <2>2. dirty \in BOOLEAN /\ misled \in BOOLEAN
    BY DEF MigrateInit
  <2>3. tables = {} /\ version \in Int /\ lock \in Terminals \cup {Nobody}
    BY DEF MigrateInit, Nil
  <2> QED BY <2>1, <2>2, <2>3 DEF MigrateTypeOK
<1>3. CleanMeansComplete
  BY CompleteNil DEF MigrateInit, CleanMeansComplete
<1>4. \A p \in Terminals : Holds(p) /\ Planned(p) /\ Marks(p)
  BY DEF MigrateInit, Holds, Planned, Marks, Inside, InFiles, Ended
<1> QED BY <1>2, <1>3, <1>4 DEF MigrateInv

(* What a step of tool p does to the other tools' part of the invariant.   *)
LEMMA OthersKeep ==
  ASSUME MigrateInv, NEW p \in Terminals, NEW q \in Terminals, q # p,
         NEW next, NEW w, Proceed(p, next, w),
         \/ lock' = lock \/ lock = Nobody
         \/ lock = p /\ lock' = Nobody,
         (UNCHANGED <<schema, misled>>) \/ lock = p
  PROVE  Holds(q)' /\ Planned(q)' /\ Marks(q)'
<1>1. tool'[q] = tool[q] /\ work'[q] = work[q]
  BY DEF Proceed, MigrateInv, MigrateTypeOK
<1>2. Holds(q) /\ Planned(q) /\ Marks(q)
  BY DEF MigrateInv
<1>3. Nobody # q
  BY MigrateAssumption
<1>4. Holds(q)'
  BY <1>1, <1>2, <1>3 DEF Holds
<1>5. Planned(q)'
  BY <1>1, <1>2 DEF Planned, OnItsWay
<1>6. CASE UNCHANGED <<schema, misled>>
  <2>1. Target(q)' = Target(q) /\ \A n : Partial(q, n)' = Partial(q, n)
    BY <1>1 DEF Target, File, Partial
  <2>2. Marks(q)'
    BY <1>1, <1>2, <1>6, <2>1 DEF Marks, schema
  <2> QED BY <1>4, <1>5, <2>2
<1>7. CASE lock = p
  <2>1. tool[q] \notin Inside
    BY <1>2, <1>7 DEF Holds
  <2>2. Marks(q)'
    BY <1>1, <2>1 DEF Marks, Inside
  <2> QED BY <1>4, <1>5, <2>2
<1> QED BY <1>6, <1>7
-------------------------------------------------------------------------------
(* Each step keeps the invariant: the type, the relation of version and    *)
(* tables, and the part of the tool that takes the step.                   *)
LEMMA Assemble ==
  ASSUME MigrateInv, NEW p \in Terminals,
         NEW next \in ToolSteps, NEW w \in Work, Proceed(p, next, w),
         \/ lock' = lock \/ (lock = Nobody /\ lock' = p)
         \/ lock = p /\ lock' = Nobody,
         (UNCHANGED <<schema, misled>>) \/ lock = p,
         tables' \subseteq Versions \X (1..Statements),
         version' \in Int, dirty' \in BOOLEAN, misled' \in BOOLEAN,
         CleanMeansComplete', Holds(p)' /\ Planned(p)' /\ Marks(p)'
  PROVE  MigrateInv'
<1>1. \A q \in Terminals : Holds(q)' /\ Planned(q)' /\ Marks(q)'
  BY OthersKeep
<1>2. tool' \in [Terminals -> ToolSteps] /\ work' \in [Terminals -> Work]
  BY DEF Proceed, MigrateInv, MigrateTypeOK
<1>3. lock' \in Terminals \cup {Nobody}
  BY DEF MigrateInv, MigrateTypeOK
<1>4. MigrateTypeOK'
  BY <1>2, <1>3 DEF MigrateTypeOK
<1> QED BY <1>1, <1>4 DEF MigrateInv

(* A tool that ends, or goes on without touching the schema.               *)
LEMMA ExitKeeps ==
  ASSUME MigrateInv, NEW p \in Terminals, NEW how \in Ended, Exit(p, how),
         UNCHANGED <<schema, misled>>
  PROVE  MigrateInv'
<1>1. NoWork \in Work /\ how \in ToolSteps
  BY MigrateAssumption DEF NoWork, Begin, Work, Nil, Ended, ToolSteps
<1>2. Proceed(p, how, NoWork) /\ (lock' = lock \/ (lock = p /\ lock' = Nobody))
  BY DEF Exit
<1>3. tool'[p] = how
  BY <1>2 DEF Proceed, MigrateInv, MigrateTypeOK
<1>4. Holds(p)' /\ Planned(p)' /\ Marks(p)'
  BY <1>3 DEF Holds, Planned, Marks, Inside, InFiles, Ended
<1>5. CleanMeansComplete'
  BY DEF MigrateInv, CleanMeansComplete, schema, Complete
<1>6. /\ tables' \subseteq Versions \X (1..Statements)
      /\ version' \in Int /\ dirty' \in BOOLEAN /\ misled' \in BOOLEAN
  BY DEF MigrateInv, MigrateTypeOK, schema
<1> QED BY <1>1, <1>2, <1>4, <1>5, <1>6, Assemble

LEMMA WorkMade ==
  ASSUME NEW c \in Commands \cup {NoCommand}, NEW v \in Int, NEW l \in Nat,
         NEW b \in BOOLEAN, 0 \in 0..Statements
  PROVE  [cmd |-> c, start |-> v, from |-> v, at |-> 0, left |-> l, short |-> b] \in Work
  BY DEF Work

LEMMA RunKeeps ==
  ASSUME MigrateInv, NEW p \in Terminals, Run(p)
  PROVE  MigrateInv'
<1>1. PICK c \in Commands :
        \/ ~EndsAtOnce(c) /\ Proceed(p, "lock", Begin(c))
        \/ /\ EndsAtOnce(c)
           /\ Proceed(p, IF c.op \in {"usage", "force"} THEN "failed" ELSE "ok", NoWork)
  BY DEF Run
<1>2. UNCHANGED <<schema, lock, misled>>
  BY DEF Run
<1>3. CleanMeansComplete'
  BY <1>2 DEF MigrateInv, CleanMeansComplete, schema, Complete
<1>4. /\ tables' \subseteq Versions \X (1..Statements)
      /\ version' \in Int /\ dirty' \in BOOLEAN /\ misled' \in BOOLEAN
  BY <1>2 DEF MigrateInv, MigrateTypeOK, schema
<1>5. NoWork \in Work /\ Begin(c) \in Work /\ Begin(c).cmd = c
  <2>1. Nil \in Int /\ 0 \in 0..Statements /\ FALSE \in BOOLEAN
    BY MigrateAssumption DEF Nil
  <2> QED BY <2>1, WorkMade DEF NoWork, Begin
<1>6. CASE ~EndsAtOnce(c) /\ Proceed(p, "lock", Begin(c))
  <2>1. tool'[p] = "lock" /\ work'[p].cmd = c
    BY <1>5, <1>6 DEF Proceed, MigrateInv, MigrateTypeOK
  <2>2. Holds(p)' /\ Marks(p)'
    BY <2>1 DEF Holds, Marks, Inside
  <2>3. Planned(p)'
    BY <1>6, <2>1 DEF Planned, InFiles
  <2>4. "lock" \in ToolSteps
    BY DEF ToolSteps
  <2> QED BY <1>2, <1>3, <1>4, <1>5, <1>6, <2>2, <2>3, <2>4, Assemble
<1>7. CASE Proceed(p, IF c.op \in {"usage", "force"} THEN "failed" ELSE "ok", NoWork)
  <2> DEFINE next == IF c.op \in {"usage", "force"} THEN "failed" ELSE "ok"
  <2>1. next \in Ended /\ next \in ToolSteps
    BY DEF Ended, ToolSteps
  <2>2. tool'[p] \in Ended
    BY <1>7, <2>1 DEF Proceed, MigrateInv, MigrateTypeOK
  <2>3. Holds(p)' /\ Planned(p)' /\ Marks(p)'
    BY <2>2 DEF Holds, Planned, Marks, Inside, InFiles, Ended
  <2> QED BY <1>2, <1>3, <1>4, <1>5, <1>7, <2>1, <2>3, Assemble
<1> QED BY <1>1, <1>6, <1>7

LEMMA LockKeeps ==
  ASSUME MigrateInv, NEW p \in Terminals, Lock(p)
  PROVE  MigrateInv'
<1>1. CASE lock # Nobody /\ Exit(p, "failed")
  BY <1>1, ExitKeeps DEF Lock, Ended
<1>2. CASE lock = Nobody /\ lock' = p /\ Proceed(p, "read", work[p])
  <2>1. UNCHANGED <<schema, misled>> /\ tool[p] = "lock"
    BY DEF Lock
  <2>2. tool'[p] = "read" /\ work'[p] = work[p]
    BY <1>2 DEF Proceed, MigrateInv, MigrateTypeOK
  <2>3. Planned(p)
    BY DEF MigrateInv
  <2>4. Holds(p)' /\ Planned(p)' /\ Marks(p)'
    BY <1>2, <2>1, <2>2, <2>3 DEF Holds, Planned, Marks, Inside, InFiles, Ended
  <2>5. CleanMeansComplete'
    BY <2>1 DEF MigrateInv, CleanMeansComplete, schema, Complete
  <2>6. /\ tables' \subseteq Versions \X (1..Statements)
        /\ version' \in Int /\ dirty' \in BOOLEAN /\ misled' \in BOOLEAN
    BY <2>1 DEF MigrateInv, MigrateTypeOK, schema
  <2>7. "read" \in ToolSteps /\ work[p] \in Work
    BY DEF ToolSteps, MigrateInv, MigrateTypeOK
  <2> QED BY <1>2, <2>1, <2>4, <2>5, <2>6, <2>7, Assemble
<1> QED BY <1>1, <1>2 DEF Lock
LEMMA ForceKeeps ==
  ASSUME MigrateInv, NEW p \in Terminals, ForceVersion(p)
  PROVE  MigrateInv'
<1> DEFINE c == work[p].cmd
<1>1. /\ tool[p] = "read" /\ c.op = "force" /\ UNCHANGED <<tables, lock>>
      /\ version' = c.n /\ dirty' = FALSE /\ misled' = (tables # Complete(c.n))
      /\ Proceed(p, "unlock", work[p])
  BY DEF ForceVersion
<1>2. Planned(p) /\ lock = p
  BY <1>1 DEF MigrateInv, Holds, Inside
<1>3. c.n \in Int
  <2>1. c \in Commands /\ ~EndsAtOnce(c)
    BY <1>1, <1>2 DEF Planned, Ended
  <2> QED BY <1>1, <2>1, CommandFacts
<1>4. tool'[p] = "unlock" /\ work'[p] = work[p]
  BY <1>1 DEF Proceed, MigrateInv, MigrateTypeOK
<1>5. Holds(p)'
  BY <1>1, <1>2 DEF Holds
<1>6. Planned(p)'
  BY <1>1, <1>2, <1>4 DEF Planned, InFiles, Ended
<1>7. Marks(p)'
  BY <1>1, <1>4 DEF Marks
<1>8. CleanMeansComplete'
  BY <1>1 DEF CleanMeansComplete, Complete
<1>9. "unlock" \in ToolSteps /\ work[p] \in Work /\ tables' \subseteq Versions \X (1..Statements)
  BY <1>1 DEF ToolSteps, MigrateInv, MigrateTypeOK
<1>10. version' \in Int /\ dirty' \in BOOLEAN /\ misled' \in BOOLEAN
  BY <1>1, <1>3
<1> QED BY <1>1, <1>2, <1>5, <1>6, <1>7, <1>8, <1>9, <1>10, Assemble

LEMMA ReadVersionKeeps ==
  ASSUME MigrateInv, NEW p \in Terminals, ReadVersion(p)
  PROVE  MigrateInv'
<1> DEFINE c    == work[p].cmd
           have == Available(c, version)
           want == Wanted(c, version)
           none == have = 0 /\ want > 0
           next == IF want = 0 THEN "unlock" ELSE "mark"
           w    == [cmd |-> c, start |-> version, from |-> version, at |-> 0,
                    left |-> IF want < have THEN want ELSE have,
                    short |-> have < want]
<1>1. tool[p] = "read" /\ c.op # "force" /\ UNCHANGED <<schema, misled>>
  BY DEF ReadVersion
<1>2. CASE Exit(p, "failed")
  BY <1>1, <1>2, ExitKeeps DEF Ended
<1>3. CASE ~Refuses(version, dirty) /\ ~none /\ Proceed(p, next, w) /\ UNCHANGED lock
  <2>1. c \in Commands /\ ~EndsAtOnce(c) /\ lock = p
    BY <1>1 DEF MigrateInv, Planned, Holds, Ended, Inside
  <2>2. version \in Versions \cup {Nil} /\ ~dirty
    BY <1>3 DEF Refuses
  <2>3. have \in Nat /\ want \in Nat
    BY <1>1, <2>1, <2>2, AvailableFacts
  <2>4. w \in Work
    <3>1. version \in Int /\ 0 \in 0..Statements
      BY MigrateAssumption DEF MigrateInv, MigrateTypeOK
    <3>2. (IF want < have THEN want ELSE have) \in Nat /\ (have < want) \in BOOLEAN
      BY <2>3
    <3>3. c \in Commands \cup {NoCommand}
      BY <2>1
    <3> QED BY <3>1, <3>2, <3>3, WorkMade
  <2>5. tool'[p] = next /\ work'[p] = w
    BY <1>3 DEF Proceed, MigrateInv, MigrateTypeOK
  <2>6. /\ work'[p].cmd = c /\ work'[p].from = version /\ work'[p].start = version
        /\ work'[p].left = IF want < have THEN want ELSE have
        /\ work'[p].short = (have < want)
    BY <2>5
  <2>7. version' = version /\ dirty' = dirty
    BY <1>1 DEF schema
  <2>8. Planned(p)'
    <3>1. CASE want = 0
      BY <2>1, <2>5, <2>6, <3>1 DEF Planned, InFiles
    <3>2. CASE want # 0
      <4>1. have > 0
        BY <1>3, <2>3, <3>2
      <4>2. work'[p].left \in 1..have
        BY <2>3, <2>6, <3>2, <4>1
      <4>3. c.op \in {"up", "down"} => work'[p].left = have
        BY <1>1, <2>1, <2>2, <2>3, <2>6, AvailableFacts
      <4>4. tool'[p] = "mark"
        BY <2>5, <3>2
      <4>5. Available(work'[p].cmd, work'[p].from) = have
        BY <2>6
      <4>6. OnItsWay(p)'
        <5>1. SUFFICES ASSUME c.op = "steps", ~(have < want)
                       PROVE  (IF Upward(c) THEN work'[p].left ELSE -work'[p].left) = c.n
          BY <2>2, <2>6 DEF OnItsWay, Applied, Versions, Nil
        <5>2. work'[p].left = want
          BY <2>3, <2>6, <5>1
        <5>3. c.n \in Int /\ c.n # 0
          BY <2>1, <5>1, CommandFacts
        <5> QED BY <5>1, <5>2, <5>3 DEF Wanted, Upward
      <4> QED BY <1>1, <2>1, <2>2, <2>6, <4>2, <4>3, <4>4, <4>5, <4>6 DEF Planned, InFiles
    <3> QED BY <3>1, <3>2
  <2>9. Marks(p)'
    <3>1. CASE want = 0
      <4>1. have = 0
        BY <1>1, <1>3, <2>1, <2>2, <2>3, <3>1, AvailableFacts, CommandFacts DEF Wanted
      <4>2. (c.op = "up" => version = LastVersion) /\ c.op # "steps"
        BY <1>1, <2>1, <2>2, <2>3, <3>1, AvailableFacts, CommandFacts DEF Wanted
      <4> QED BY <1>1, <2>2, <2>5, <2>6, <2>7, <3>1, <4>2 DEF Marks
    <3>2. CASE want # 0
      BY <2>2, <2>5, <2>6, <2>7, <3>2 DEF Marks
    <3> QED BY <3>1, <3>2
  <2>10. Holds(p)'
    BY <1>3, <2>1 DEF Holds
  <2>11. CleanMeansComplete' /\ next \in ToolSteps
    BY <1>1 DEF MigrateInv, CleanMeansComplete, schema, Complete, ToolSteps
  <2>12. /\ tables' \subseteq Versions \X (1..Statements)
         /\ version' \in Int /\ dirty' \in BOOLEAN /\ misled' \in BOOLEAN
    BY <1>1 DEF MigrateInv, MigrateTypeOK, schema
  <2> QED BY <1>1, <1>3, <2>4, <2>8, <2>9, <2>10, <2>11, <2>12, Assemble
<1> QED BY <1>2, <1>3 DEF ReadVersion
(* Facts about the record of a tool when one field changes.                *)
LEMMA AtChanges ==
  ASSUME NEW w \in Work, NEW n \in 0..Statements, NEW x, x = [w EXCEPT !.at = n]
  PROVE  /\ x \in Work /\ x.at = n /\ x.cmd = w.cmd /\ x.start = w.start
         /\ x.from = w.from /\ x.left = w.left /\ x.short = w.short
  BY DEF Work

(* A tool in the middle of a file.                                         *)
LEMMA MarksMade ==
  ASSUME NEW p \in Terminals, tool'[p] \in {"run", "clean"},
         work'[p].cmd = work[p].cmd, work'[p].from = work[p].from,
         version' = Target(p), dirty', ~misled' => tables' = Partial(p, work'[p].at)
  PROVE  Marks(p)'
  BY DEF Marks, Partial, Target, File

LEMMA MarkDirtyKeeps ==
  ASSUME MigrateInv, NEW p \in Terminals, MarkDirty(p)
  PROVE  MigrateInv'
<1> DEFINE w == [work[p] EXCEPT !.at = 0]
<1>1. /\ tool[p] = "mark" /\ version' = Target(p) /\ dirty' = TRUE
      /\ Proceed(p, "run", w) /\ UNCHANGED <<tables, lock, misled>>
  BY DEF MarkDirty
<1>2. lock = p /\ Planned(p) /\ Marks(p) /\ work[p] \in Work /\ tool[p] \in InFiles
  BY <1>1 DEF MigrateInv, MigrateTypeOK, Holds, Inside, InFiles
<1>3. 0 \in 0..Statements /\ 0 < Statements
  BY MigrateAssumption
<1>4. tool'[p] = "run" /\ work'[p] = w
  BY <1>1 DEF Proceed, MigrateInv, MigrateTypeOK
<1>5. /\ w \in Work /\ work'[p].at = 0 /\ work'[p].cmd = work[p].cmd
      /\ work'[p].from = work[p].from /\ work'[p].left = work[p].left
      /\ work'[p].start = work[p].start /\ work'[p].short = work[p].short
  BY <1>2, <1>3, <1>4, AtChanges
<1>7. Planned(p)'
  BY <1>1, <1>2, <1>3, <1>4, <1>5 DEF Planned, OnItsWay, InFiles, Ended
<1>8. Marks(p)'
  <2>1. ~misled => tables = Partial(p, 0)
    BY <1>1, <1>2, TargetFacts DEF Marks, MigrateInv, CleanMeansComplete
  <2> QED BY <1>1, <1>4, <1>5, <2>1, MarksMade
<1>9. Holds(p)' /\ CleanMeansComplete' /\ "run" \in ToolSteps
  BY <1>1, <1>2 DEF Holds, CleanMeansComplete, ToolSteps
<1>10. /\ tables' \subseteq Versions \X (1..Statements)
       /\ version' \in Int /\ dirty' \in BOOLEAN /\ misled' \in BOOLEAN
  <2>1. Target(p) \in Int
    BY <1>2, TargetFacts, MigrateAssumption DEF Versions, Nil
  <2> QED BY <1>1, <2>1 DEF MigrateInv, MigrateTypeOK
<1> QED BY <1>1, <1>2, <1>5, <1>7, <1>8, <1>9, <1>10, Assemble

LEMMA StatementKeeps ==
  ASSUME MigrateInv, NEW p \in Terminals, Statement(p)
  PROVE  MigrateInv'
<1> DEFINE up == Upward(work[p].cmd)
           n  == work[p].at + 1
           t  == <<File(p), IF up THEN n ELSE Statements + 1 - n>>
           w  == [work[p] EXCEPT !.at = n]
           next == IF n = Statements THEN "clean" ELSE "run"
<1>1. tool[p] = "run" /\ UNCHANGED <<version, dirty, misled>>
  BY DEF Statement
<1>2. CASE Exit(p, "failed") /\ UNCHANGED tables
  BY <1>1, <1>2, ExitKeeps DEF Ended, schema
<1>3. CASE /\ tables' = IF up THEN tables \cup {t} ELSE tables \ {t}
           /\ Proceed(p, next, w) /\ UNCHANGED lock
  <2>1. /\ lock = p /\ Planned(p) /\ Marks(p) /\ work[p] \in Work
        /\ tool[p] \in InFiles
    BY <1>1 DEF MigrateInv, MigrateTypeOK, Holds, Inside, InFiles
  <2>2. work[p].at \in Nat /\ work[p].at < Statements /\ n \in 1..Statements
    BY <1>1, <2>1, MigrateAssumption DEF Planned, Work
  <2>3. tool'[p] = next /\ work'[p] = w
    BY <1>3 DEF Proceed, MigrateInv, MigrateTypeOK
  <2>4. /\ w \in Work /\ work'[p].at = n /\ work'[p].cmd = work[p].cmd
        /\ work'[p].from = work[p].from /\ work'[p].left = work[p].left
        /\ work'[p].start = work[p].start /\ work'[p].short = work[p].short
    BY <2>1, <2>2, <2>3, AtChanges
  <2>5. version = Target(p) /\ dirty
    BY <1>1, <2>1 DEF Marks
  <2>6. Planned(p)'
    <3>1. tool'[p] = "run" => n < Statements
      BY <2>2, <2>3, MigrateAssumption
    <3>2. tool'[p] = "clean" => n = Statements
      BY <2>3
    <3> HIDE DEF n, w, next
    <3>3. OnItsWay(p)'
      BY <1>1, <2>1, <2>4 DEF Planned, OnItsWay, InFiles
    <3> QED BY <1>1, <2>1, <2>3, <2>4, <3>1, <3>2, <3>3 DEF Planned, InFiles, Ended
  <2>7. ~misled => tables' = Partial(p, n)
    <3>1. SUFFICES ASSUME ~misled PROVE tables' = Partial(p, n)
      OBVIOUS
    <3>2. tables = Partial(p, work[p].at)
      BY <1>1, <2>1, <3>1 DEF Marks
    <3>3. CASE up
      <4>1. ({File(p)} \X (1..work[p].at)) \cup {<<File(p), n>>} = {File(p)} \X (1..n)
        BY <2>2, ColumnGrows
      <4> QED BY <1>3, <3>2, <3>3, <4>1 DEF Partial
    <3>4. CASE ~up
      <4>1. ({File(p)} \X ((Statements + 1 - work[p].at)..Statements))
               \cup {<<File(p), Statements + 1 - n>>}
              = {File(p)} \X ((Statements + 1 - n)..Statements)
        BY <2>2, ColumnShrinks
      <4> QED BY <1>3, <3>2, <3>4, <4>1 DEF Partial
    <3> QED BY <3>3, <3>4
  <2>8. Marks(p)'
    <3>1. tool'[p] \in {"run", "clean"} /\ version' = Target(p) /\ dirty'
      BY <1>1, <2>3, <2>5
    <3>2. ~misled' => tables' = Partial(p, work'[p].at)
      BY <1>1, <2>4, <2>7
    <3> QED BY <2>4, <3>1, <3>2, MarksMade
  <2>9. Holds(p)' /\ CleanMeansComplete' /\ next \in ToolSteps
    BY <1>1, <1>3, <2>1 DEF Holds, Marks, CleanMeansComplete, ToolSteps
  <2>10. tables' \subseteq Versions \X (1..Statements)
    <3>1. File(p) \in Versions /\ tables \subseteq Versions \X (1..Statements)
      BY <2>1, TargetFacts DEF MigrateInv, MigrateTypeOK
    <3>2. t \in Versions \X (1..Statements)
      BY <2>2, <3>1, MigrateAssumption
    <3> QED BY <1>3, <3>1, <3>2
  <2>11. version' \in Int /\ dirty' \in BOOLEAN /\ misled' \in BOOLEAN
    BY <1>1 DEF MigrateInv, MigrateTypeOK
  <2> QED BY <1>3, <2>1, <2>4, <2>6, <2>8, <2>9, <2>10, <2>11, Assemble
<1> QED BY <1>2, <1>3 DEF Statement
LEMMA MarkCleanKeeps ==
  ASSUME MigrateInv, NEW p \in Terminals, MarkClean(p)
  PROVE  MigrateInv'
<1> DEFINE c == work[p].cmd
           v == Target(p)
           l == work[p].left - 1
           w == [work[p] EXCEPT !.from = v, !.left = l]
           next == IF work[p].left = 1 THEN "unlock" ELSE "mark"
<1>1. /\ tool[p] = "clean" /\ version' = v /\ dirty' = FALSE
      /\ Proceed(p, next, [work[p] EXCEPT !.from = v, !.left = @ - 1])
      /\ UNCHANGED <<tables, lock, misled>>
  BY DEF MarkClean
<1>2. lock = p /\ Planned(p) /\ Marks(p) /\ work[p] \in Work /\ tool[p] \in InFiles
  BY <1>1 DEF MigrateInv, MigrateTypeOK, Holds, Inside, InFiles
<1>3. /\ v \in Versions \cup {Nil} /\ v \in Int
      /\ Available(c, v) = Available(c, work[p].from) - 1
      /\ Partial(p, Statements) = Complete(v)
      /\ Applied(v) = Applied(work[p].from) + (IF Upward(c) THEN 1 ELSE -1)
  BY <1>2, TargetFacts, MigrateAssumption DEF Versions, Nil
<1>4. c \in Commands /\ ~EndsAtOnce(c) /\ c.op # "force"
  BY <1>1, <1>2 DEF Planned, Ended, InFiles
<1>5. /\ work[p].left \in 1..Available(c, work[p].from) /\ Available(c, work[p].from) \in Nat
      /\ c.op \in {"up", "down"} => work[p].left = Available(c, work[p].from)
      /\ l \in Nat
  <2>1. /\ work[p].from \in Versions \cup {Nil}
        /\ work[p].left \in 1..Available(c, work[p].from)
        /\ c.op \in {"up", "down"} => work[p].left = Available(c, work[p].from)
    BY <1>2 DEF Planned
  <2>2. Available(c, work[p].from) \in Nat
    BY <1>4, <2>1, AvailableFacts
  <2> QED BY <2>1, <2>2
<1>6. tool'[p] = next /\ work'[p] = w
  BY <1>1 DEF Proceed, MigrateInv, MigrateTypeOK
<1>7. /\ w \in Work /\ work'[p].cmd = c /\ work'[p].from = v /\ work'[p].left = l
      /\ work'[p].start = work[p].start /\ work'[p].short = work[p].short
  <2>1. v \in Int /\ l \in Nat /\ work[p] \in Work /\ work'[p] = w
    BY <1>2, <1>3, <1>5, <1>6
  <2> HIDE DEF v, l
  <2>2. w \in Work
    BY <2>1 DEF Work
  <2>3. /\ w.cmd = c /\ w.from = v /\ w.left = l
        /\ w.start = work[p].start /\ w.short = work[p].short
    BY <2>1 DEF Work
  <2> QED BY <2>1, <2>2, <2>3
<1>8. c.op = "steps" /\ ~work[p].short =>
         Applied(v) + (IF Upward(c) THEN l ELSE -l) = Applied(work[p].start) + c.n
  <2>1. OnItsWay(p) /\ work[p].left \in Int /\ work[p].from \in Versions \cup {Nil}
    BY <1>1, <1>2, <1>5 DEF Planned, InFiles
  <2>2. Applied(work[p].from) \in Int
    BY <2>1 DEF Applied, Versions
  <2> QED BY <1>3, <2>1, <2>2 DEF OnItsWay
<1>9. Planned(p)'
  <2>1. tool'[p] \in InFiles => tool'[p] = "mark" /\ l > 0
    BY <1>5, <1>6 DEF InFiles
  <2>2. l > 0 => l \in 1..Available(c, v)
    BY <1>3, <1>5
  <2>3. c.op \in {"up", "down"} => l = Available(c, v)
    BY <1>3, <1>5
  <2>4. tool'[p] \notin {"run", "clean"}
    BY <1>6
  <2>5. OnItsWay(p)'
    BY <1>7, <1>8 DEF OnItsWay
  <2> HIDE DEF c, v, l, w, next
  <2> QED BY <1>3, <1>4, <1>7, <2>1, <2>2, <2>3, <2>4, <2>5 DEF Planned
<1>10. Marks(p)'
  <2>1. tool'[p] = "unlock" => l = 0
    BY <1>5, <1>6
  <2>2. l = 0 /\ c.op = "up" => v = LastVersion
    BY <1>3, <1>4, <1>5, AvailableFacts
  <2>3. l = 0 /\ c.op = "steps" /\ ~work[p].short =>
           Applied(v) = Applied(work[p].start) + c.n
    BY <1>3, <1>8 DEF Applied, Versions
  <2>4. tool'[p] \in {"unlock", "mark"}
    BY <1>6
  <2>5. version' = v /\ ~dirty'
    BY <1>1
  <2> HIDE DEF c, v, l, w, next
  <2> QED BY <1>4, <1>7, <2>1, <2>2, <2>3, <2>4, <2>5 DEF Marks
<1>11. CleanMeansComplete'
  <2>1. ~misled => tables = Complete(v)
    BY <1>1, <1>2, <1>3 DEF Marks, Planned
  <2> QED BY <1>1, <2>1 DEF CleanMeansComplete, Complete
<1>12. Holds(p)' /\ next \in ToolSteps
  BY <1>1, <1>2 DEF Holds, ToolSteps
<1>13. /\ tables' \subseteq Versions \X (1..Statements)
       /\ version' \in Int /\ dirty' \in BOOLEAN /\ misled' \in BOOLEAN
  BY <1>1, <1>3 DEF MigrateInv, MigrateTypeOK
<1>14. Proceed(p, next, w)
  BY <1>1
<1> QED BY <1>1, <1>2, <1>7, <1>9, <1>10, <1>11, <1>12, <1>13, <1>14, Assemble

LEMMA ToolKeeps ==
  ASSUME MigrateInv, NEW p \in Terminals, ToolStep(p)
  PROVE  MigrateInv'
<1>1. CASE Unlock(p)
  <2>1. Exit(p, IF work[p].short THEN "failed" ELSE "ok") /\ UNCHANGED <<schema, misled>>
    BY <1>1 DEF Unlock
  <2> QED BY <2>1, ExitKeeps DEF Ended
<1>2. CASE ToolFails(p)
  BY <1>2, ExitKeeps DEF ToolFails, Ended
<1> QED BY <1>1, <1>2, RunKeeps, LockKeeps, ForceKeeps, ReadVersionKeeps, MarkDirtyKeeps,
           StatementKeeps, MarkCleanKeeps DEF ToolStep

LEMMA StutterKeeps == MigrateInv /\ UNCHANGED migrateVars => MigrateInv'
<1> SUFFICES ASSUME MigrateInv, UNCHANGED migrateVars PROVE MigrateInv'
  OBVIOUS
<1>1. UNCHANGED <<tables, version, dirty, lock, tool, work, misled>>
  BY DEF migrateVars, schema
<1>2. MigrateTypeOK' /\ CleanMeansComplete'
  BY <1>1 DEF MigrateInv, MigrateTypeOK, CleanMeansComplete, Complete, Versions, Work
<1>3. \A p \in Terminals : Holds(p)' /\ Planned(p)' /\ Marks(p)'
  BY <1>1 DEF MigrateInv, Holds, Planned, OnItsWay, Marks, Partial, Target, File
<1> QED BY <1>2, <1>3 DEF MigrateInv

LEMMA MigrateNextKeeps == MigrateInv /\ [MigrateNext]_migrateVars => MigrateInv'
  BY ToolKeeps, StutterKeeps DEF MigrateNext

LEMMA MigrateInvHolds == MigrateSpec => []MigrateInv
  BY MigrateInitInv, MigrateNextKeeps, PTL DEF MigrateSpec

-------------------------------------------------------------------------------
(* The variables of the tool and of its schema have their types.           *)
THEOREM MigrateTypeCorrect == MigrateSpec => []MigrateTypeOK
<1>1. MigrateInv => MigrateTypeOK
  BY DEF MigrateInv
<1> QED BY <1>1, MigrateInvHolds, PTL

(* A clean version tells the tables there are, whoever ran the tool at once*)
(* and wherever it died, unless somebody forced a version that was not true*)
THEOREM CleanIsComplete == MigrateSpec => []CleanMeansComplete
<1>1. MigrateInv => CleanMeansComplete
  BY DEF MigrateInv
<1> QED BY <1>1, MigrateInvHolds, PTL

(* A tool that is about to report success has done what it was asked for.  *)
LEMMA InvSuccess == MigrateInv => SuccessIsDone
  BY DEF MigrateInv, Holds, Marks, Inside, SuccessIsDone

THEOREM SuccessMeansDone == MigrateSpec => []SuccessIsDone
  BY InvSuccess, MigrateInvHolds, PTL

(* Nothing but a forced version changes what a broken migration left.      *)
LEMMA BrokenStep ==
  ASSUME MigrateInv, NEW p \in Terminals, ToolStep(p), Broken
  PROVE  \/ UNCHANGED schema
         \/ /\ UNCHANGED tables
            /\ \E q \in Terminals : work[q].cmd.op = "force" /\ lock = q
<1>1. dirty /\ tool[p] \notin {"run", "clean"} /\ tool[p] # "mark"
  BY DEF Broken, MigrateInv, Marks
<1>2. CASE ForceVersion(p)
  BY <1>2 DEF ForceVersion, MigrateInv, Holds, Inside
<1>3. CASE Run(p) \/ Lock(p) \/ ReadVersion(p) \/ Unlock(p) \/ ToolFails(p)
  BY <1>3 DEF Run, Lock, ReadVersion, Unlock, ToolFails
<1>4. ~MarkDirty(p) /\ ~Statement(p) /\ ~MarkClean(p)
  BY <1>1 DEF MarkDirty, Statement, MarkClean
<1> QED BY <1>2, <1>3, <1>4 DEF ToolStep

THEOREM BrokenStays == MigrateSpec => BrokenIsLeftAlone
<1> DEFINE A == Broken => \/ UNCHANGED schema
                          \/ /\ UNCHANGED tables
                             /\ \E p \in Terminals :
                                   work[p].cmd.op = "force" /\ lock = p
<1>1. MigrateInv /\ [MigrateNext]_migrateVars => [A]_migrateVars
  BY BrokenStep DEF MigrateNext
<1> QED BY <1>1, MigrateInvHolds, PTL DEF MigrateSpec, BrokenIsLeftAlone

-------------------------------------------------------------------------------
(* The schema under the API.                                                *)

(* What the success of the service migrate, and the container, stand for.  *)
ServiceInv ==
    /\ tool[Compose] \notin Ended => work[Compose].cmd = [op |-> "up"]
    /\ (tool[Compose] = "ok" \/ wanted \/ main # "off") /\ ~touched =>
          version = LastVersion /\ ~dirty

(* Only docker starts a process, and only the stack makes it wanted.       *)
LEMMA ProcessStays ==
  ASSUME ProcessStep, ~wanted, main = "off"
  PROVE  ~wanted' /\ main' = "off"
<1>1. ~Start /\ ~MainStep /\ ~Listen /\ ~ListenFails /\ ~Kill /\ ~Signal
  BY DEF Start, MainStep, OpenMySQL, OpenRedis, Open, NewTokenManager, Register, GoListen,
         Notify, Select, Shutdown, TimeOut, Close, At, Return, Listen, ListenFails, Kill,
         Signal, Running
<1>2. PICK r \in Requests : Accept(r) \/ Handle(r) \/ Fails(r) \/ Replied(r)
  BY <1>1 DEF ProcessStep
<1>3. UNCHANGED boot
  BY <1>2 DEF Accept, Handle, Acquire, Closed, Query, Update, ReadBack, Commit, Fails, Replied
<1> QED BY <1>3 DEF boot

LEMMA ServiceInit == Init => MigrateInv /\ ServiceInv
  BY MigrateInitInv, DeploymentAssumption
  DEF Init, MigrateInit, ServerInit, ServiceInv, Ended

(* The service migrate reports success only from the end of an `up`.       *)
LEMMA ServiceStep ==
  ASSUME MigrateInv, ServiceInv, MigrateService
  PROVE  MigrateInv' /\ ServiceInv'
<1>1. /\ Compose \in Terminals /\ ToolStep(Compose) /\ UNCHANGED <<wanted, main>>
      /\ tool[Compose] \in Ended => work'[Compose].cmd = [op |-> "up"]
      /\ touched' = (touched /\ tool'[Compose] # "ok")
  BY DeploymentAssumption DEF MigrateService, serverVars, boot
<1>2. MigrateInv'
  BY <1>1, ToolKeeps
<1> DEFINE p == Compose
<1>3. ASSUME NEW next, NEW w, Proceed(p, next, w)
      PROVE  tool'[p] = next /\ work'[p] = w
  BY <1>1, <1>3 DEF Proceed, MigrateInv, MigrateTypeOK
<1>4. NoWork.cmd # [op |-> "up"]
  <2>1. NoWork.cmd = [op |-> "none"]
    BY DEF NoCommand, NoWork, Begin
  <2>2. [op |-> "none"].op # [op |-> "up"].op
    OBVIOUS
  <2> QED BY <2>1, <2>2
<1>5. Marks(p)
  BY <1>1 DEF MigrateInv
<1> DEFINE Up == work[p].cmd = [op |-> "up"]
<1>6. tool[p] \notin Ended => Up
  BY DEF ServiceInv
<1> DEFINE Goes == tool'[p] \notin Ended /\ work'[p].cmd = [op |-> "up"]
<1>7. ASSUME NEW next \in Inside, NEW w, Proceed(p, next, w), w.cmd = [op |-> "up"]
      PROVE  Goes
  BY <1>3, <1>7 DEF Inside, Ended
<1>8. \/ Goes
      \/ tool'[p] = "failed"
      \/ tool'[p] = "ok" /\ version' = LastVersion /\ ~dirty'
  <2>1. CASE Run(p)
    <3>1. PICK c \in Commands :
            \/ ~EndsAtOnce(c) /\ Proceed(p, "lock", Begin(c))
            \/ /\ EndsAtOnce(c)
               /\ Proceed(p, IF c.op \in {"usage", "force"} THEN "failed" ELSE "ok", NoWork)
      BY <2>1 DEF Run
    <3>2. work'[p].cmd = [op |-> "up"]
      BY <1>1, <2>1 DEF Run
    <3>3. CASE Proceed(p, "lock", Begin(c))
      <4>1. tool'[p] = "lock"
        BY <1>3, <3>3
      <4> QED BY <3>2, <4>1 DEF Ended
    <3>4. CASE Proceed(p, IF c.op \in {"usage", "force"} THEN "failed" ELSE "ok", NoWork)
      <4>1. work'[p] = NoWork
        BY <1>3, <3>4
      <4> QED BY <1>4, <3>2, <4>1
    <3> QED BY <3>1, <3>3, <3>4
  <2>2. CASE Lock(p) /\ ~Exit(p, "failed")
    <3>1. Proceed(p, "read", work[p]) /\ Up
      BY <1>6, <2>2 DEF Lock, Ended
    <3> QED BY <1>7, <3>1 DEF Inside
  <2>3. CASE Exit(p, "failed")
    BY <1>3, <2>3 DEF Exit
  <2>4. CASE ForceVersion(p)
    <3>1. Proceed(p, "unlock", work[p]) /\ Up
      BY <1>6, <2>4 DEF ForceVersion, Ended
    <3> QED BY <1>7, <3>1 DEF Inside
  <2>5. CASE ReadVersion(p) /\ ~Exit(p, "failed")
    <3> DEFINE want == Wanted(work[p].cmd, version)
               have == Available(work[p].cmd, version)
               w    == [cmd |-> work[p].cmd, start |-> version, from |-> version, at |-> 0,
                        left |-> IF want < have THEN want ELSE have,
                        short |-> have < want]
    <3>1. Proceed(p, IF want = 0 THEN "unlock" ELSE "mark", w) /\ Up
      BY <1>6, <2>5 DEF ReadVersion, Ended
    <3>2. w.cmd = [op |-> "up"]
      BY <3>1
    <3>3. (IF want = 0 THEN "unlock" ELSE "mark") \in Inside
      BY DEF Inside
    <3> HIDE DEF w, want
    <3> QED BY <1>7, <3>1, <3>2, <3>3
  <2>6. CASE MarkDirty(p)
    <3> DEFINE w == [work[p] EXCEPT !.at = 0]
    <3>1. Proceed(p, "run", w) /\ Up /\ work[p] \in Work
      BY <1>1, <1>6, <2>6 DEF MarkDirty, Ended, MigrateInv, MigrateTypeOK
    <3>2. w.cmd = [op |-> "up"]
      BY <3>1 DEF Work
    <3> HIDE DEF w
    <3> QED BY <1>7, <3>1, <3>2 DEF Inside
  <2>7. CASE Statement(p) /\ ~Exit(p, "failed")
    <3> DEFINE w == [work[p] EXCEPT !.at = work[p].at + 1]
               next == IF work[p].at + 1 = Statements THEN "clean" ELSE "run"
    <3>1. Proceed(p, next, w) /\ Up /\ work[p] \in Work
      BY <1>1, <1>6, <2>7 DEF Statement, Ended, MigrateInv, MigrateTypeOK
    <3>2. w.cmd = [op |-> "up"]
      BY <3>1 DEF Work
    <3>3. next \in Inside
      BY DEF Inside
    <3> HIDE DEF w, next
    <3> QED BY <1>7, <3>1, <3>2, <3>3
  <2>8. CASE MarkClean(p)
    <3> DEFINE w == [work[p] EXCEPT !.from = Target(p), !.left = @ - 1]
               next == IF work[p].left = 1 THEN "unlock" ELSE "mark"
    <3>1. Proceed(p, next, w) /\ Up /\ work[p] \in Work
      BY <1>1, <1>6, <2>8 DEF MarkClean, Ended, MigrateInv, MigrateTypeOK
    <3>2. w.cmd = [op |-> "up"]
      BY <3>1 DEF Work
    <3>3. next \in Inside
      BY DEF Inside
    <3> HIDE DEF w, next
    <3> QED BY <1>7, <3>1, <3>2, <3>3
  <2>9. CASE Unlock(p)
    <3>1. tool[p] = "unlock" /\ Up /\ UNCHANGED schema
      BY <1>6, <2>9 DEF Unlock, Ended
    <3>2. work[p].cmd.op = "up"
      BY <3>1
    <3>3. version' = LastVersion /\ ~dirty'
      BY <1>5, <3>1, <3>2 DEF Marks, schema
    <3>4. tool'[p] = IF work[p].short THEN "failed" ELSE "ok"
      BY <1>3, <2>9 DEF Unlock, Exit
    <3> QED BY <3>3, <3>4
  <2> HIDE DEF Goes
  <2> QED BY <1>1, <2>1, <2>2, <2>3, <2>4, <2>5, <2>6, <2>7, <2>8, <2>9
      DEF ToolStep, ToolFails
<1>9. /\ tool'[p] \notin Ended => work'[p].cmd = [op |-> "up"]
      /\ tool'[p] = "ok" => version' = LastVersion /\ ~dirty'
  BY <1>8 DEF Ended
<1>10. ASSUME version = LastVersion, ~dirty
       PROVE  UNCHANGED schema
  <2>1. work[p].cmd.op # "force"  \/ tool[p] \in Ended
    BY <1>6
  <2>2. ~ForceVersion(p)
    BY <2>1 DEF ForceVersion, Ended
  <2>3. tool[p] \notin InFiles
    <3>1. SUFFICES ASSUME tool[p] \in InFiles PROVE FALSE
      OBVIOUS
    <3>2. Up /\ Planned(p)
      <4>1. tool[p] \notin Ended /\ p \in Terminals
        BY <1>1, <3>1 DEF InFiles, Ended
      <4> QED BY <1>6, <4>1 DEF MigrateInv
    <3>3. work[p].from = LastVersion
      BY <1>5, <1>10, <3>1 DEF InFiles, Marks
    <3>4. Available(work[p].cmd, LastVersion) = 0
      BY <3>2, MigrateAssumption DEF Available, Applied, Upward, Nil
    <3> QED BY <3>1, <3>2, <3>3, <3>4 DEF Planned
  <2>4. ~MarkDirty(p) /\ ~Statement(p) /\ ~MarkClean(p)
    BY <2>3 DEF MarkDirty, Statement, MarkClean, InFiles
  <2> QED BY <1>1, <2>2, <2>4 DEF ToolStep, Run, Lock, ReadVersion, Unlock, ToolFails
<1>11. (tool'[p] = "ok" \/ wanted' \/ main' # "off") /\ ~touched' =>
          version' = LastVersion /\ ~dirty'
  <2>1. CASE tool'[p] = "ok"
    BY <1>9, <2>1
  <2>2. CASE tool'[p] # "ok"
    <3>1. SUFFICES ASSUME wanted \/ main # "off", ~touched
                   PROVE  version' = LastVersion /\ ~dirty'
      BY <1>1, <2>2
    <3>2. version = LastVersion /\ ~dirty
      BY <3>1 DEF ServiceInv
    <3> QED BY <1>10, <3>2 DEF schema
  <2> QED BY <2>1, <2>2
<1> QED BY <1>2, <1>9, <1>11 DEF ServiceInv

LEMMA OperatorStep ==
  ASSUME MigrateInv, ServiceInv, NEW p \in Terminals, Operator(p)
  PROVE  MigrateInv' /\ ServiceInv'
<1>1. MigrateInv' /\ p # Compose /\ Compose \in Terminals
  BY ToolKeeps, DeploymentAssumption DEF Operator
<1>2. \E next, w : Proceed(p, next, w)
  <2>1. CASE Run(p) \/ Lock(p) \/ Unlock(p) \/ ToolFails(p)
    BY <2>1 DEF Run, Lock, Unlock, ToolFails, Exit
  <2>2. CASE ForceVersion(p) \/ MarkDirty(p) \/ MarkClean(p)
    BY <2>2 DEF ForceVersion, MarkDirty, MarkClean
  <2>3. CASE ReadVersion(p) \/ Statement(p)
    BY <2>3 DEF ReadVersion, Statement, Exit
  <2> QED BY <2>1, <2>2, <2>3 DEF Operator, ToolStep
<1>3. tool'[Compose] = tool[Compose] /\ work'[Compose] = work[Compose]
  <2>1. PICK next, w : Proceed(p, next, w)
    BY <1>2
  <2> QED BY <1>1, <2>1 DEF Proceed, MigrateInv, MigrateTypeOK
<1>4. ~touched' => ~touched /\ version' = version /\ dirty' = dirty
  BY DEF Operator, schema
<1>5. wanted' = wanted /\ main' = main
  BY DEF Operator, serverVars, boot
<1> QED BY <1>1, <1>3, <1>4, <1>5 DEF ServiceInv

LEMMA ServiceKeeps ==
  ASSUME MigrateInv, ServiceInv, [Next]_vars
  PROVE  MigrateInv' /\ ServiceInv'
<1>1. ASSUME UNCHANGED <<migrateVars, touched>>,
             wanted' \/ main' # "off" => wanted \/ main # "off" \/ tool[Compose] = "ok"
      PROVE  MigrateInv' /\ ServiceInv'
  BY <1>1, StutterKeeps DEF ServiceInv, migrateVars, schema
<1>2. CASE StackUp
  BY <1>1, <1>2 DEF StackUp, Completed
<1>3. CASE Process
  BY <1>1, <1>3, ProcessStays DEF Process
<1>4. CASE UNCHANGED vars
  BY <1>1, <1>4 DEF vars, serverVars, boot
<1> QED BY <1>2, <1>3, <1>4, ServiceStep, OperatorStep DEF Next

(* As long as no operator has changed the schema since the service migrate *)
(* succeeded, the API runs on a clean last version, and on all the tables  *)
(* unless somebody forced a version that was not true.                     *)
THEOREM AlwaysFullSchema == Spec => []RunsOnFullSchema
<1>1. MigrateInv /\ ServiceInv => RunsOnFullSchema
  BY DEF MigrateInv, ServiceInv, CleanMeansComplete, RunsOnFullSchema
<1> QED BY <1>1, ServiceInit, ServiceKeeps, PTL DEF Spec

(* The composition adds nothing to its parts: a run of the stack is a run  *)
(* of the migration tool and a run of the process of the API, so that what *)
(* is proved of each of them holds of the stack.                           *)
THEOREM StackIsBoth == Spec => MigrateSpec /\ ServerSpec
<1>1. Init => MigrateInit /\ ServerInit
  BY DEF Init
<1>2. ASSUME [Next]_vars
      PROVE  [MigrateNext]_migrateVars /\ [ServerNext]_serverVars
  <2>1. CASE MigrateService
    BY <2>1, DeploymentAssumption DEF MigrateService, MigrateNext
  <2>2. CASE \E p \in Terminals : Operator(p)
    BY <2>2 DEF Operator, MigrateNext
  <2>3. CASE StackUp \/ Process
    BY <2>3 DEF StackUp, Process, ServerNext
  <2>4. CASE UNCHANGED vars
    BY <2>4 DEF vars
  <2> QED BY <1>2, <2>1, <2>2, <2>3, <2>4 DEF Next
<1> QED BY <1>1, <1>2, PTL DEF Spec, MigrateSpec, ServerSpec

-------------------------------------------------------------------------------
(* What the goroutines, the pool and the handlers rely on of each other.   *)
ListenerInv ==
    /\ listener # "none" => main \in {"notify", "select", "drain", "close"}
    /\ main \in {"drain", "close"} => listener \in {"none", "closed", "failed"}
    /\ main = "drain" => listener # "none"
    /\ main \in {"redis", "tokens", "routes", "listen", "notify", "select", "drain"} =>
          "mysql" \in open
VerdictInv ==
    /\ main = "close" => verdict \in {"ok", "error", "panic"}
    /\ main # "close" => verdict = "none"
    /\ verdict = "panic" => listener = "none"
HandlerInv ==
    /\ \A r \in Requests : InFlight(r) => listener # "none" /\ verdict # "ok"
    /\ refused # {} => verdict = "error"
    /\ \A r \in Requests : step[r] \in {"call", "query"} => ask[r].calls > 0
ServerInv == ServerTypeOK /\ ListenerInv /\ VerdictInv /\ HandlerInv

LEMMA NoInputIsInput == NoInput \in Input /\ NoInput.calls = 0 /\ NoInput.row = NoRow
  BY DEF NoInput, Input

LEMMA OffIsSafe == ServerInit => ServerInv
<1> SUFFICES ASSUME ServerInit PROVE ServerInv
  OBVIOUS
<1>1. ServerTypeOK
  BY NoInputIsInput DEF ServerInit, ServerTypeOK
<1>2. ListenerInv /\ VerdictInv
  BY DEF ServerInit, ListenerInv, VerdictInv
<1>3. HandlerInv
  BY DEF ServerInit, HandlerInv, InFlight, Waiting, Holding
<1> QED BY <1>1, <1>2, <1>3 DEF ServerInv

(* A step of the goroutines main and ListenAndServe, of which the handlers *)
(* see the listener and the verdict.                                       *)
LEMMA HandlersUnmoved ==
  ASSUME ServerInv, UNCHANGED handlers,
         listener # "none" => listener' # "none",
         \/ verdict' = verdict
         \/ verdict' = "error"
         \/ listener = "none"
         \/ \A r \in Requests : ~InFlight(r),
         refused = {} \/ verdict' = verdict
  PROVE  HandlerInv'
  BY DEF ServerInv, HandlerInv, handlers, InFlight

LEMMA StartSafe ==
  ASSUME ServerInv, Start
  PROVE  ServerInv'
<1>1. UNCHANGED <<wanted, open, listener, stop, handlers>> /\ main = "off"
  BY DEF Start, Return, At
<1>2. (main' = "close" /\ verdict' = "error") \/ (main' = "mysql" /\ verdict' = verdict)
  BY DEF Start, Return, At
<1>3. listener = "none" /\ verdict = "none" /\ refused = {}
  BY <1>1 DEF ServerInv, ListenerInv, VerdictInv, HandlerInv
<1>4. ServerTypeOK'
  BY <1>1, <1>2 DEF ServerInv, ServerTypeOK, handlers
<1>5. ListenerInv' /\ VerdictInv'
  BY <1>1, <1>2, <1>3 DEF ListenerInv, VerdictInv
<1>6. HandlerInv'
  BY <1>1, <1>3, HandlersUnmoved
<1> QED BY <1>4, <1>5, <1>6 DEF ServerInv

LEMMA BootSafe ==
  ASSUME ServerInv, OpenMySQL \/ OpenRedis \/ NewTokenManager \/ Register \/ GoListen \/ Notify
  PROVE  ServerInv'
<1>1. UNCHANGED <<wanted, stop, handlers>>
  BY DEF OpenMySQL, OpenRedis, Open, NewTokenManager, Register, GoListen, Notify
<1>2. verdict = "none" /\ refused = {}
  BY DEF OpenMySQL, OpenRedis, Open, NewTokenManager, Register, GoListen, Notify, Return, At,
         ServerInv, VerdictInv, HandlerInv
<1>3. CASE OpenMySQL \/ OpenRedis
  <2>1. /\ listener' = listener /\ main \in {"mysql", "redis"}
        /\ open \subseteq open' /\ open' \subseteq {"mysql", "redis"}
        /\ \/ main = "mysql" /\ main' = "redis" /\ "mysql" \in open' /\ verdict' = verdict
           \/ main = "redis" /\ main' = "tokens" /\ verdict' = verdict
           \/ main' = "close" /\ verdict' = "error"
    BY <1>3 DEF OpenMySQL, OpenRedis, Open, At, Return, ServerInv, ServerTypeOK
  <2>2. listener = "none"
    BY <2>1 DEF ServerInv, ListenerInv
  <2>3. ServerTypeOK'
    BY <1>1, <2>1 DEF ServerInv, ServerTypeOK, handlers
  <2>4. ListenerInv' /\ VerdictInv'
    BY <1>2, <2>1, <2>2 DEF ServerInv, ListenerInv, VerdictInv
  <2> QED BY <1>1, <1>2, <2>1, <2>2, <2>3, <2>4, HandlersUnmoved DEF ServerInv
<1>4. CASE NewTokenManager \/ Register
  <2>1. /\ listener' = listener /\ main \in {"tokens", "routes"} /\ open' = open
        /\ \/ main' \in {"routes", "listen"} /\ verdict' = verdict
           \/ main' = "close" /\ verdict' \in {"error", "panic"}
    BY <1>4 DEF NewTokenManager, Register, At, Return
  <2>2. listener = "none"
    BY <2>1 DEF ServerInv, ListenerInv
  <2>3. ServerTypeOK'
    BY <1>1, <2>1 DEF ServerInv, ServerTypeOK, handlers
  <2>4. ListenerInv' /\ VerdictInv'
    BY <1>2, <2>1, <2>2 DEF ServerInv, ListenerInv, VerdictInv
  <2> QED BY <1>1, <1>2, <2>1, <2>2, <2>3, <2>4, HandlersUnmoved DEF ServerInv
<1>5. CASE GoListen \/ Notify
  <2>1. /\ open' = open /\ verdict' = verdict
        /\ \/ main = "listen" /\ main' = "notify" /\ listener' = "starting"
           \/ main = "notify" /\ main' = "select" /\ listener' = listener
    BY <1>5 DEF GoListen, Notify, At
  <2>2. ServerTypeOK'
    BY <1>1, <2>1 DEF ServerInv, ServerTypeOK, handlers
  <2>3. ListenerInv' /\ VerdictInv'
    BY <1>2, <2>1 DEF ServerInv, ListenerInv, VerdictInv
  <2> QED BY <1>1, <2>1, <2>2, <2>3, HandlersUnmoved DEF ServerInv
<1> QED BY <1>3, <1>4, <1>5

LEMMA EndSafe ==
  ASSUME ServerInv, Select \/ Shutdown \/ TimeOut
  PROVE  ServerInv'
<1>1. UNCHANGED <<wanted, config, open, stop, handlers>>
  BY DEF Select, Shutdown, TimeOut
<1>2. CASE Select
  <2>1. /\ main = "select" /\ verdict = "none" /\ refused = {}
        /\ \/ main' = "drain" /\ listener' \in {"closed", "failed"} /\ verdict' = verdict
           \/ /\ main' = "close" /\ verdict' = "error"
              /\ listener' = listener /\ listener = "failed"
    BY <1>2 DEF Select, Return, At, ServerInv, VerdictInv, HandlerInv
  <2>2. ServerTypeOK'
    BY <1>1, <2>1 DEF ServerInv, ServerTypeOK, handlers
  <2>3. ListenerInv' /\ VerdictInv'
    BY <1>1, <2>1 DEF ServerInv, ListenerInv, VerdictInv
  <2> QED BY <1>1, <2>1, <2>2, <2>3, HandlersUnmoved DEF ServerInv
<1>3. CASE Shutdown \/ TimeOut
  <2>1. /\ main = "drain" /\ verdict = "none" /\ refused = {}
        /\ main' = "close" /\ listener' = listener
        /\ verdict' = "error" \/ (verdict' = "ok" /\ \A r \in Requests : ~InFlight(r))
    BY <1>3 DEF Shutdown, TimeOut, Drained, Return, At, ServerInv, VerdictInv, HandlerInv
  <2>2. ServerTypeOK'
    BY <1>1, <2>1 DEF ServerInv, ServerTypeOK, handlers
  <2>3. ListenerInv' /\ VerdictInv'
    BY <1>1, <2>1 DEF ServerInv, ListenerInv, VerdictInv
  <2> QED BY <1>1, <2>1, <2>2, <2>3, HandlersUnmoved DEF ServerInv
<1> QED BY <1>2, <1>3

LEMMA EndProcessSafe ==
  ASSUME wanted' \in BOOLEAN, EndProcess
  PROVE  ServerInv'
<1>1. ServerTypeOK'
  BY NoInputIsInput DEF EndProcess, ServerTypeOK
<1>2. ListenerInv' /\ VerdictInv'
  BY DEF EndProcess, ListenerInv, VerdictInv
<1>3. HandlerInv'
  BY DEF EndProcess, HandlerInv, InFlight, Waiting, Holding
<1> QED BY <1>1, <1>2, <1>3 DEF ServerInv

LEMMA CloseSafe ==
  ASSUME ServerInv, Close
  PROVE  ServerInv'
<1>1. CASE EndProcess
  BY <1>1, EndProcessSafe DEF Close, ServerInv, ServerTypeOK
<1>2. CASE ~EndProcess
  <2>1. /\ main = "close" /\ open' \subseteq open
        /\ UNCHANGED <<wanted, main, config, listener, stop, verdict, handlers>>
    BY <1>2 DEF Close
  <2>2. ServerTypeOK'
    BY <2>1 DEF ServerInv, ServerTypeOK, handlers
  <2>3. ListenerInv' /\ VerdictInv'
    BY <2>1 DEF ServerInv, ListenerInv, VerdictInv
  <2> QED BY <2>1, <2>2, <2>3, HandlersUnmoved DEF ServerInv
<1> QED BY <1>1, <1>2

LEMMA OutsideSafe ==
  ASSUME ServerInv, Listen \/ ListenFails \/ Kill \/ Signal \/ ComposeUp
  PROVE  ServerInv'
<1>1. CASE Listen \/ ListenFails
  <2>1. /\ UNCHANGED <<wanted, main, config, open, stop, verdict, handlers>>
        /\ listener \in {"starting", "open"} /\ listener' \in {"open", "failed"}
    BY <1>1 DEF Listen, ListenFails
  <2>2. ServerTypeOK'
    BY <2>1 DEF ServerInv, ServerTypeOK, handlers
  <2>3. ListenerInv' /\ VerdictInv'
    BY <2>1 DEF ServerInv, ListenerInv, VerdictInv
  <2> QED BY <2>1, <2>2, <2>3, HandlersUnmoved DEF ServerInv
<1>2. CASE Kill \/ (Signal /\ EndProcess)
  BY <1>2, EndProcessSafe DEF Kill, Signal, ServerInv, ServerTypeOK
<1>3. CASE ComposeUp \/ (Signal /\ ~EndProcess)
  <2>1. /\ wanted' \in BOOLEAN /\ stop' \in BOOLEAN
        /\ UNCHANGED <<main, config, open, listener, verdict, handlers>>
    BY <1>3 DEF ComposeUp, Signal, ServerInv, ServerTypeOK
  <2>2. ServerTypeOK'
    BY <2>1 DEF ServerInv, ServerTypeOK, handlers
  <2>3. ListenerInv' /\ VerdictInv'
    BY <2>1 DEF ServerInv, ListenerInv, VerdictInv
  <2> QED BY <2>1, <2>2, <2>3, HandlersUnmoved DEF ServerInv
<1> QED BY <1>1, <1>2, <1>3

-------------------------------------------------------------------------------
(* The handlers.  A step of one moves only its own program counter.        *)
LEMMA HandlerSafe ==
  ASSUME ServerInv, UNCHANGED boot, NEW r \in Requests,
         NEW next \in {"idle", "reply", "done"} \cup Waiting \cup Holding, NEW todo \in Input,
         step' = [step EXCEPT ![r] = next],
         ask' = [ask EXCEPT ![r] = todo],
         next \in {"call", "query"} => todo.calls > 0,
         InFlight(r) \/ listener = "open",
         pool' \subseteq Requests, rows' \subseteq Requests, refused' \subseteq Requests,
         refused' = {} \/ verdict = "error"
  PROVE  ServerInv'
<1>1. step \in [Requests -> {"idle", "reply", "done"} \cup Waiting \cup Holding]
      /\ ask \in [Requests -> Input]
  BY DEF ServerInv, ServerTypeOK
<1>2. ServerTypeOK'
  BY <1>1 DEF ServerInv, ServerTypeOK, boot
<1>3. ListenerInv' /\ VerdictInv'
  BY DEF ServerInv, ListenerInv, VerdictInv, boot
<1>4. listener # "none" /\ verdict # "ok"
  BY DEF ServerInv, ListenerInv, VerdictInv, HandlerInv
<1>5. HandlerInv'
  <2>1. \A q \in Requests : InFlight(q)' => listener' # "none" /\ verdict' # "ok"
    BY <1>4 DEF boot
  <2>2. refused' # {} => verdict' = "error"
    BY DEF boot
  <2>3. ASSUME NEW q \in Requests, step'[q] \in {"call", "query"}
        PROVE  ask'[q].calls > 0
    BY <1>1, <2>3 DEF ServerInv, HandlerInv
  <2> QED BY <2>1, <2>2, <2>3 DEF HandlerInv
<1> QED BY <1>2, <1>3, <1>5 DEF ServerInv

LEMMA ContinueSafe ==
  ASSUME ServerInv, UNCHANGED boot, NEW r \in Requests, NEW todo \in Input,
         Continue(r, todo), InFlight(r) \/ listener = "open",
         pool' \subseteq Requests, rows' \subseteq Requests, refused' \subseteq Requests,
         refused' = {} \/ verdict = "error"
  PROVE  ServerInv'
<1> DEFINE next == IF todo.calls > 0 THEN "call"
                   ELSE IF todo.row # NoRow THEN "begin" ELSE "reply"
<1>1. /\ step' = [step EXCEPT ![r] = next] /\ ask' = [ask EXCEPT ![r] = todo]
      /\ next \in {"idle", "reply", "done"} \cup Waiting \cup Holding
      /\ next \in {"call", "query"} => todo.calls > 0
  BY DEF Continue, Goto, Waiting, Holding
<1> HIDE DEF next
<1> QED BY <1>1, HandlerSafe

LEMMA GotoSafe ==
  ASSUME ServerInv, UNCHANGED <<boot, ask>>, NEW r \in Requests,
         NEW next \in {"idle", "reply", "done"} \cup Waiting \cup Holding,
         Goto(r, next), InFlight(r),
         next \in {"call", "query"} => step[r] \in {"call", "query"},
         pool' \subseteq Requests, rows' \subseteq Requests, UNCHANGED refused
  PROVE  ServerInv'
<1>1. /\ ask' = [ask EXCEPT ![r] = ask[r]] /\ ask[r] \in Input
      /\ refused \subseteq Requests /\ (refused = {} \/ verdict = "error")
  BY DEF ServerInv, ServerTypeOK, HandlerInv
<1>2. next \in {"call", "query"} => ask[r].calls > 0
  BY DEF ServerInv, HandlerInv
<1> QED BY <1>1, <1>2, HandlerSafe DEF Goto

(* The pool is closed under a handler only after an error.                 *)
LEMMA ClosedPool ==
  ASSUME ServerInv, NEW r \in Requests, Closed(r)
  PROVE  verdict = "error"
<1>1. InFlight(r) /\ Running /\ "mysql" \notin open
  BY DEF Closed, InFlight
<1>2. listener # "none" /\ verdict # "ok"
  BY <1>1 DEF ServerInv, HandlerInv
<1>3. main = "close"
  BY <1>1, <1>2 DEF ServerInv, ListenerInv
<1> QED BY <1>2, <1>3 DEF ServerInv, VerdictInv

LEMMA RequestSafe ==
  ASSUME ServerInv, NEW r \in Requests, Accept(r) \/ Handle(r) \/ Fails(r) \/ Replied(r)
  PROVE  ServerInv'
<1>1. /\ pool \subseteq Requests /\ rows \subseteq Requests /\ refused \subseteq Requests
      /\ refused = {} \/ verdict = "error"
  BY DEF ServerInv, ServerTypeOK, HandlerInv
<1>2. CASE Accept(r)
  <2>1. PICK i \in Inputs : Continue(r, i)
    BY <1>2 DEF Accept
  <2> QED BY <1>1, <1>2, <2>1, ContinueSafe, ServerAssumption DEF Accept
<1>3. CASE Acquire(r)
  <2> DEFINE next == IF step[r] = "call" THEN "query" ELSE "update"
  <2>1. /\ Goto(r, next) /\ pool' = pool \cup {r} /\ UNCHANGED <<boot, ask, rows, refused>>
        /\ InFlight(r) /\ next \in {"idle", "reply", "done"} \cup Waiting \cup Holding
        /\ next \in {"call", "query"} => step[r] \in {"call", "query"}
    BY <1>3 DEF Acquire, InFlight, Holding
  <2> HIDE DEF next
  <2> QED BY <1>1, <2>1, GotoSafe
<1>4. CASE Closed(r)
  BY <1>1, <1>4, ClosedPool, NoInputIsInput, ContinueSafe DEF Closed, Reply, InFlight
<1>5. CASE Query(r)
  <2> DEFINE todo == [ask[r] EXCEPT !.calls = @ - 1]
  <2>1. /\ Continue(r, todo) /\ step[r] = "query" /\ pool' = pool \ {r}
        /\ UNCHANGED <<boot, rows, refused>>
    BY <1>5 DEF Query
  <2>2. ask[r].calls > 0 /\ ask[r] \in Input
    BY <2>1 DEF ServerInv, ServerTypeOK, HandlerInv
  <2>3. todo \in Input
    BY <2>2 DEF Input
  <2> HIDE DEF todo
  <2> QED BY <1>1, <2>1, <2>3, ContinueSafe DEF InFlight, Holding
<1>6. CASE Update(r) \/ ReadBack(r)
  <2>1. PICK next \in {"readback", "commit"} : Goto(r, next)
    BY <1>6 DEF Update, ReadBack
  <2> QED BY <1>1, <1>6, <2>1, GotoSafe DEF Update, ReadBack, InFlight, Holding
<1>7. CASE Commit(r) \/ Fails(r)
  BY <1>1, <1>7, NoInputIsInput, ContinueSafe DEF Commit, Fails, Reply, InFlight, Holding
<1>8. CASE Replied(r)
  BY <1>1, <1>8, GotoSafe DEF Replied, InFlight
<1> QED BY <1>2, <1>3, <1>4, <1>5, <1>6, <1>7, <1>8 DEF Handle

LEMMA ServerKeeps ==
  ASSUME ServerInv, [ServerNext]_serverVars
  PROVE  ServerInv'
<1>1. CASE UNCHANGED serverVars
  <2>1. UNCHANGED <<boot, handlers>>
    BY <1>1 DEF serverVars
  <2>2. ServerTypeOK' /\ ListenerInv' /\ VerdictInv'
    BY <2>1 DEF ServerInv, ServerTypeOK, ListenerInv, VerdictInv, boot, handlers
  <2> QED BY <2>1, <2>2, HandlersUnmoved DEF ServerInv, boot
<1>2. CASE MainStep
  BY <1>2, BootSafe, EndSafe, CloseSafe DEF MainStep
<1> QED BY <1>1, <1>2, StartSafe, OutsideSafe, RequestSafe DEF ServerNext, ProcessStep

LEMMA ServerInvHolds == ServerSpec => []ServerInv
  BY OffIsSafe, ServerKeeps, PTL DEF ServerSpec

(* The process of the API has its types, in every run of it.               *)
THEOREM ServerTypeCorrect == ServerSpec => []ServerTypeOK
<1>1. ServerInv => ServerTypeOK
  BY DEF ServerInv
<1> QED BY <1>1, ServerInvHolds, PTL

(* No run of the stack cuts a request short without an error.              *)
THEOREM NothingIsCut == Spec => []CutOnlyOnError
<1>1. ServerInv => CutOnlyOnError
  <2> SUFFICES ASSUME ServerInv, NEW r \in Requests,
                      r \in refused \/ (main = "close" /\ InFlight(r))
               PROVE  main = "close" /\ verdict = "error"
    BY DEF CutOnlyOnError
  <2>1. CASE r \in refused
    BY <2>1 DEF ServerInv, HandlerInv, VerdictInv
  <2>2. CASE main = "close" /\ InFlight(r)
    BY <2>2 DEF ServerInv, HandlerInv, VerdictInv
  <2> QED BY <2>1, <2>2
<1> QED BY <1>1, ServerInvHolds, StackIsBoth, PTL
===============================================================================
