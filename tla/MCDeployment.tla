----------------------------- MODULE MCDeployment -----------------------------
(***************************************************************************)
(* A small instance of Deployment: two files of two statements, the service*)
(* migrate and an operator, three requests to each process.                *)
(***************************************************************************)
EXTENDS Deployment, TLC

CONSTANTS service, operator, r1, r2, r3

MCCommands ==
    {[op |-> "up"], [op |-> "down"], [op |-> "version"], [op |-> "usage"]}
      \cup [op : {"steps"}, n : {-1, 0, 1, 3}]
      \cup [op : {"force"}, n : {-2, -1, 0, 1, 2}]

MCEnv(env, file) == [env |-> env, file |-> file]
Secret == "secret" :> "long"

(* Pools of one and two connections; the rest does not start, each at a    *)
(* place of its own.                                                       *)
MCEnvironments ==
    { MCEnv(Secret @@ ("conns" :> 1), "conns" :> 2),
      MCEnv(Secret @@ ("app_env" :> "production"), "conns" :> 2),
      MCEnv(<<>>, <<>>), MCEnv(Secret, Junk),
      MCEnv(Secret @@ ("rps" :> Junk), <<>>), MCEnv(Secret, "burst" :> 0),
      MCEnv(("secret" :> "short") @@ ("app_env" :> "production"), <<>>),
      MCEnv("secret" :> "short", <<>>), MCEnv(Secret, "issuer" :> ""),
      MCEnv(Secret @@ ("metrics" :> "/ping"), <<>>) }

(* docker-compose.yml, .env.example and configs/config.yaml, as far as they*)
(* differ from the defaults; main registers GET /healthz.                  *)
ComposeEnvironments == { MCEnv(Secret, "secret" :> "") }

(* A read, and an update that others wait for.                             *)
MCInputs == { [calls |-> 1, row |-> NoRow], [calls |-> 1, row |-> "a"] }

HealthRoute == <<"/healthz">>

(* Bounds: while a tool runs, after one that failed, and on a schema that  *)
(* an operator has changed or declared to be what it is not, the process   *)
(* gets no further than to MySQL.                                          *)
Focus ==
    \/ main \in {"off", "mysql"}
    \/ ~touched /\ ~misled /\ \A p \in Terminals : tool[p] = "ok"

(* The routes without that of main, for what comes after the start.        *)
NoRoutes == <<>>
===============================================================================
