-------------------------------- MODULE Migrate --------------------------------
(***************************************************************************)
(* The migration tool: a front end of the library golang-migrate, which    *)
(* keeps the number of the last migration and a dirty flag in a table,     *)
(* takes a lock of MySQL around each command, and runs the statements of a *)
(* file one after the other; CREATE and DROP TABLE cannot be rolled back.  *)
(* Several people may run the tool at once, and it may die anywhere.       *)
(* Each statement of an up file creates a table, which must not exist, and *)
(* the down file drops those there are.  The files are numbered from 1.    *)
(*                                                                         *)
(* Sources: cmd/migrate/main.go, migrations/0001_init.{up,down}.sql        *)
(***************************************************************************)
EXTENDS Integers

CONSTANTS
    LastVersion,    \* the number of up files, and of down files
    Statements,     \* the number of statements of each
    Terminals,      \* where the tool is run, again and again
    Commands,       \* the command lines given, a subset of Command
    Nobody          \* the holder of a free lock

Nil     == -1
Command == [op : {"up", "down", "version", "usage"}]
              \cup [op : {"steps", "force"}, n : Int]

ASSUME MigrateAssumption ==
    /\ LastVersion \in Nat \ {0} /\ Statements \in Nat \ {0}
    /\ Commands \subseteq Command
    /\ Nobody \notin Terminals

VARIABLES
    tables,     \* the tables there are: file and statement that create them
    version,    \* schema_migrations: the version, Nil when there is no row
    dirty,
    lock,       \* the advisory lock: a session's, gone when the session ends
    tool,       \* what the tool run at a terminal does next, or how it ended
    work,       \* its local variables
    misled      \* auxiliary: somebody forced a version the tables are not at

schema      == <<tables, version, dirty>>
migrateVars == <<schema, lock, tool, work, misled>>

ToolSteps == {"lock", "read", "mark", "run", "clean", "unlock", "ok", "failed"}
Ended     == {"ok", "failed"}
Versions  == 1..LastVersion

(* cmd is the command line, from the version the tool has reached, left the*)
(* number of files to run, at that of the statements of the current file   *)
(* that were run, short says that fewer files are left than asked for;     *)
(* start is auxiliary, the version the tool found.                         *)
NoCommand == [op |-> "none"]
Begin(c) == [cmd |-> c, start |-> Nil, from |-> Nil, left |-> 0, at |-> 0,
             short |-> FALSE]
NoWork == Begin(NoCommand)
Work   == [cmd : Commands \cup {NoCommand}, start : Int, from : Int, left : Nat,
           at : 0..Statements, short : BOOLEAN]

(* The tables after the up files from 1 to v.                              *)
Complete(v) == (1..v) \X (1..Statements)

MigrateInit ==
    /\ tables = {} /\ version = Nil /\ dirty = FALSE /\ lock = Nobody
    /\ tool = [p \in Terminals |-> "failed"]
    /\ work = [p \in Terminals |-> NoWork]
    /\ misled = FALSE

-------------------------------------------------------------------------------
Proceed(p, next, w) ==
    /\ tool' = [tool EXCEPT ![p] = next]
    /\ work' = [work EXCEPT ![p] = w]

(* The tool ends, and with its session the lock it may hold.               *)
Exit(p, how) ==
    /\ Proceed(p, how, NoWork)
    /\ lock' = IF lock = p THEN Nobody ELSE lock

(* run: "version" and a wrong command line end here, as do steps of 0 and  *)
(* a version to force that is less than Nil.                               *)
EndsAtOnce(c) == c.op \in {"version", "usage"}
                    \/ (c.op = "steps" /\ c.n = 0) \/ (c.op = "force" /\ c.n < Nil)
Run(p) ==
    /\ tool[p] \in Ended
    /\ \E c \in Commands :
        \/ ~EndsAtOnce(c) /\ Proceed(p, "lock", Begin(c))
        \/ /\ EndsAtOnce(c)
           /\ Proceed(p, IF c.op \in {"usage", "force"} THEN "failed" ELSE "ok", NoWork)
    /\ UNCHANGED <<schema, lock, misled>>

(* GET_LOCK waits ten seconds.                                             *)
Lock(p) ==
    /\ tool[p] = "lock"
    /\ \/ lock = Nobody /\ lock' = p /\ Proceed(p, "read", work[p])
       \/ lock # Nobody /\ Exit(p, "failed")
    /\ UNCHANGED <<schema, misled>>

ForceVersion(p) ==
    /\ tool[p] = "read" /\ work[p].cmd.op = "force"
    /\ version' = work[p].cmd.n /\ dirty' = FALSE
    /\ misled' = (tables # Complete(work[p].cmd.n))
    /\ Proceed(p, "unlock", work[p])
    /\ UNCHANGED <<tables, lock>>

MutUpward(c) == c.op \in {"up", "steps"}     \* mutant: the sign of N is lost
Upward(c) == c.op = "up" \/ (c.op = "steps" /\ c.n > 0)

(* The number of files that lead to version v.                             *)
Applied(v) == IF v = Nil THEN 0 ELSE v

(* The files between the current version and the end of the line, and the  *)
(* number of them a command asks for: up and down ask for all there are.   *)
Available(c, v) == IF Upward(c) THEN LastVersion - Applied(v) ELSE Applied(v)
Wanted(c, v) == IF c.op # "steps" THEN Available(c, v)
                ELSE IF c.n > 0 THEN c.n ELSE -c.n

MutRefuses(v, d) == v \notin Versions \cup {Nil}  \* mutant: a dirty version is no error
Refuses(v, d) == d \/ v \notin Versions \cup {Nil}

(* The version is read under the lock.  A dirty one, or one that no file   *)
(* has, is an error; and so are steps when there is no file left for them. *)
ReadVersion(p) ==
    /\ tool[p] = "read" /\ work[p].cmd.op # "force"
    /\ LET c    == work[p].cmd
           have == Available(c, version)
           want == Wanted(c, version)
           none == have = 0 /\ want > 0
       IN  \/ (Refuses(version, dirty) \/ none) /\ Exit(p, "failed")
           \/ /\ ~Refuses(version, dirty) /\ ~none
              /\ Proceed(p, IF want = 0 THEN "unlock" ELSE "mark",
                    [cmd |-> c, start |-> version, from |-> version, at |-> 0,
                     left |-> IF want < have THEN want ELSE have,
                     short |-> have < want])
              /\ UNCHANGED lock
    /\ UNCHANGED <<schema, misled>>

(* The file to run next and the version it leads to.                       *)
File(p) == LET v == work[p].from IN
           IF ~Upward(work[p].cmd) THEN v ELSE IF v = Nil THEN 1 ELSE v + 1
Target(p) == LET v == work[p].from IN
             IF Upward(work[p].cmd) THEN File(p) ELSE IF v = 1 THEN Nil ELSE v - 1

MutMarkDirty(p) ==                      \* mutant: the flag is set only on an error
    /\ tool[p] = "mark"
    /\ Proceed(p, "run", [work[p] EXCEPT !.at = 0])
    /\ UNCHANGED <<schema, lock, misled>>
MarkDirty(p) ==
    /\ tool[p] = "mark"
    /\ version' = Target(p) /\ dirty' = TRUE
    /\ Proceed(p, "run", [work[p] EXCEPT !.at = 0])
    /\ UNCHANGED <<tables, lock, misled>>

(* One statement of the file; a down file starts from its last table.  To  *)
(* create a table that exists is an error, to drop one that does not is not*)
Statement(p) ==
    /\ tool[p] = "run"
    /\ LET up == Upward(work[p].cmd)
           n  == work[p].at + 1
           t  == <<File(p), IF up THEN n ELSE Statements + 1 - n>>
       IN  \/ up /\ t \in tables /\ Exit(p, "failed") /\ UNCHANGED tables
           \/ /\ ~(up /\ t \in tables)
              /\ tables' = IF up THEN tables \cup {t} ELSE tables \ {t}
              /\ Proceed(p, IF n = Statements THEN "clean" ELSE "run",
                         [work[p] EXCEPT !.at = n])
              /\ UNCHANGED lock
    /\ UNCHANGED <<version, dirty, misled>>

MarkClean(p) ==
    /\ tool[p] = "clean"
    /\ version' = Target(p) /\ dirty' = FALSE
    /\ Proceed(p, IF work[p].left = 1 THEN "unlock" ELSE "mark",
               [work[p] EXCEPT !.from = Target(p), !.left = @ - 1])
    /\ UNCHANGED <<tables, lock, misled>>

(* Fewer steps than asked for are an error, at the end.                    *)
Unlock(p) ==
    /\ tool[p] = "unlock"
    /\ Exit(p, IF work[p].short THEN "failed" ELSE "ok")
    /\ UNCHANGED <<schema, misled>>

-------------------------------------------------------------------------------
(* A call to MySQL fails without effect, or the tool dies.                 *)
ToolFails(p) ==
    /\ tool[p] \notin Ended
    /\ Exit(p, "failed")
    /\ UNCHANGED <<schema, misled>>

ToolStep(p) ==
    \/ Run(p) \/ Lock(p) \/ ForceVersion(p) \/ ReadVersion(p) \/ MarkDirty(p)
    \/ Statement(p) \/ MarkClean(p) \/ Unlock(p) \/ ToolFails(p)

MigrateNext == \E p \in Terminals : ToolStep(p)

MigrateSpec == MigrateInit /\ [][MigrateNext]_migrateVars

-------------------------------------------------------------------------------
(* Every variable has its type.                                            *)
MigrateTypeOK ==
    /\ tables \subseteq Versions \X (1..Statements)
    /\ version \in Int /\ dirty \in BOOLEAN
    /\ lock \in Terminals \cup {Nobody}
    /\ tool \in [Terminals -> ToolSteps] /\ work \in [Terminals -> Work]
    /\ misled \in BOOLEAN

(* A clean version tells the tables there are: all those of the files up to*)
(* it and no other, whoever ran the tool at once and wherever it died;     *)
(* unless somebody forced a version that was not true.                     *)
CleanMeansComplete == ~dirty /\ ~misled => tables = Complete(version)

(* The version a broken migration left behind stays, and so do the tables, *)
(* until somebody forces a version.                                        *)
Broken == dirty /\ \A p \in Terminals : tool[p] \notin {"run", "clean"}
BrokenIsLeftAlone ==
    [][Broken => \/ UNCHANGED schema
                 \/ /\ UNCHANGED tables
                    /\ \E p \in Terminals : work[p].cmd.op = "force" /\ lock = p]_migrateVars

(* A tool that is about to report success has done what it was asked for,  *)
(* although others ran and died before it, and between its own reading of  *)
(* the version and its last file: `up` has reached the last version,       *)
(* `steps N` has gone N files from the version the tool found, up or down, *)
(* and `force V` has set V.                                                *)
SuccessIsDone ==
    \A p \in Terminals : tool[p] = "unlock" /\ ~work[p].short =>
        LET c == work[p].cmd IN
        /\ lock = p /\ ~dirty
        /\ c.op = "up"    => version = LastVersion
        /\ c.op = "steps" => Applied(version) = Applied(work[p].start) + c.n
        /\ c.op = "force" => version = c.n
===============================================================================
