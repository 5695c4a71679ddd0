------------------------------ MODULE Deployment ------------------------------
(***************************************************************************)
(* docker compose: the service migrate runs `migrate up` each time the     *)
(* stack is brought up, and the container of the API starts only when that *)
(* has completed successfully.  At the other terminals operators run the   *)
(* tool by hand, at any time.                                              *)
(*                                                                         *)
(* The tool reads the files of the directory migrations; it is taken to be *)
(* there, which in a container of the image of the Dockerfile it is not.   *)
(*                                                                         *)
(* Sources: docker-compose.yml, Makefile, README.md and those of Migrate   *)
(* and Server                                                              *)
(***************************************************************************)
EXTENDS Migrate, Server

CONSTANT Compose        \* the terminal of the service migrate

ASSUME DeploymentAssumption == Compose \in Terminals /\ [op |-> "up"] \in Commands

VARIABLE touched    \* auxiliary: an operator has changed the schema since the
                    \* service migrate last succeeded

vars == <<migrateVars, serverVars, touched>>

Init == MigrateInit /\ ServerInit /\ touched = FALSE

(* The service migrate: its command line is always `up`.                   *)
MigrateService ==
    /\ ToolStep(Compose)
    /\ tool[Compose] \in Ended => work'[Compose].cmd = [op |-> "up"]
    /\ touched' = (touched /\ tool'[Compose] # "ok")
    /\ UNCHANGED serverVars

Operator(p) ==
    /\ p # Compose /\ ToolStep(p)
    /\ touched' = (touched \/ schema' # schema)
    /\ UNCHANGED serverVars

MutCompleted == tool[Compose] \in Ended     \* mutant: service_completed
Completed == tool[Compose] = "ok"

StackUp ==
    /\ Completed /\ ComposeUp
    /\ UNCHANGED <<migrateVars, touched>>

Process == ProcessStep /\ UNCHANGED <<migrateVars, touched>>

Next == MigrateService \/ (\E p \in Terminals : Operator(p)) \/ StackUp \/ Process

Spec == Init /\ [][Next]_vars /\ ServerFairness

-------------------------------------------------------------------------------
(* As long as no operator has changed the schema since the service migrate *)
(* succeeded, the API runs on a clean last version, whoever ran the tool   *)
(* before that or at the same time and wherever it died, and the stack may *)
(* be brought up again under the API that runs; and it runs on all of the  *)
(* tables unless somebody had forced a version that was not true: after    *)
(* `force 1` on half a schema `up` has nothing to do and succeeds.         *)
RunsOnFullSchema ==
    (wanted \/ main # "off") /\ ~touched =>
        /\ version = LastVersion /\ ~dirty
        /\ misled \/ tables = Complete(LastVersion)
===============================================================================
