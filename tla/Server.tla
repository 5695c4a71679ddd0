-------------------------------- MODULE Server --------------------------------
(***************************************************************************)
(* The process of the API: its start from the configuration to the         *)
(* listener, the handlers it runs, and its end.  A handler is modelled by  *)
(* what it holds: each call to MySQL takes a connection of the pool and    *)
(* gives it back, and a request that updates a row keeps the connection,   *)
(* and the row lock, from BEGIN to COMMIT.  Docker restarts the process as *)
(* long as it is wanted.                                                   *)
(*                                                                         *)
(* Sources: cmd/app/main.go, internal/config/config.go, internal/storage/  *)
(* mysql.go, internal/cache/redis.go, internal/auth/jwt.go, internal/router*)
(* /router.go, internal/service/transactor.go, docker-compose.yml          *)
(***************************************************************************)
EXTENDS Integers, Sequences, FiniteSets, Functions

CONSTANTS
    Environments,   \* what the process may be started with
    MainRoutes,     \* the GET routes that main adds to those of the router
    Requests,       \* one element for each request a process may be sent
    Inputs,         \* the requests clients send, a subset of Input
    Rows,           \* the rows they update
    NoRow,          \* the row of a request that updates none
    Junk            \* a value that cannot be decoded, a file that is no YAML

(* An environment has the keys that environment variables set, which have  *)
(* no effect when they are empty, and those that config.yaml sets.  The    *)
(* secret is "blank" when it is long but all spaces.                       *)
Keys == {"app_env", "port", "secret", "issuer", "ttl", "rps", "burst",
         "conns", "metrics"}
Defaults == [app_env |-> "development", port |-> "8080", secret |-> "",
             issuer |-> "taskmgr", ttl |-> 24, rps |-> 167, burst |-> 100,
             conns |-> 25, metrics |-> "/metrics"]
Load(e) == [k \in Keys |-> IF k \in DOMAIN e.env THEN e.env[k]
                           ELSE IF k \in DOMAIN e.file THEN e.file[k]
                           ELSE Defaults[k]]

Validate(c) ==
    /\ c.secret \notin {"", "blank"}
    /\ c.app_env = "production" => c.secret = "long"
    /\ c.port # "" /\ c.ttl > 0 /\ c.rps > 0 /\ c.burst > 0

Loads(e) == /\ e.file # Junk
            /\ \A k \in {"ttl", "rps", "burst", "conns"} : Load(e)[k] # Junk
            /\ Validate(Load(e))

NewTokenManagerOK(c) == c.secret \in {"blank", "long"} /\ c.issuer # "" /\ c.ttl > 0

(* The GET routes in the order of their registration.                      *)
Routes(c) ==
    <<"/healthz">> \o (IF c.metrics = "" THEN <<>> ELSE <<c.metrics>>)
      \o <<"/ping", "/api/v1/teams", "/api/v1/teams/:id/members",
           "/api/v1/tasks", "/api/v1/tasks/:id", "/api/v1/tasks/:id/history",
           "/api/v1/tasks/:id/comments", "/api/v1/stats/teams/last-week",
           "/api/v1/stats/top-creators", "/api/v1/stats/orphan-tasks">>
      \o MainRoutes

(* A request makes some calls to MySQL, and then it may update a row.      *)
Input == [calls : Nat, row : Rows \cup {NoRow}]

ASSUME ServerAssumption == Inputs \subseteq Input

VARIABLES
    wanted,     \* docker is to keep the container running
    main,       \* what the goroutine main does next
    config,     \* what it loaded
    open,       \* the clients it has opened and not closed
    listener,   \* what the goroutine of ListenAndServe does
    stop,       \* there is a signal in the channel stop
    verdict,    \* what run returns
    step,       \* what the handler of a request does next
    ask,        \* what is left of the request
    pool,       \* the requests that hold a connection
    rows,       \* those that hold the lock of the row they update
    refused     \* those that found the pool closed

boot       == <<wanted, main, config, open, listener, stop, verdict>>
handlers   == <<step, ask, pool, rows, refused>>
serverVars == <<boot, handlers>>

NoInput  == [calls |-> 0, row |-> NoRow]
Running  == main # "off"
Waiting  == {"call", "begin"}
Holding  == {"query", "update", "readback", "commit"}
InFlight(r) == step[r] \in Waiting \cup Holding \cup {"reply"}

ServerInit ==
    /\ wanted = FALSE /\ main = "off" /\ config = Defaults /\ open = {}
    /\ listener = "none" /\ stop = FALSE /\ verdict = "none"
    /\ step = [r \in Requests |-> "idle"]
    /\ ask = [r \in Requests |-> NoInput]
    /\ pool = {} /\ rows = {} /\ refused = {}

(* The end of the process; MySQL rolls back what it had begun.             *)
EndProcess ==
    /\ main' = "off" /\ config' = Defaults /\ open' = {}
    /\ listener' = "none" /\ stop' = FALSE /\ verdict' = "none"
    /\ step' = [r \in Requests |-> "idle"]
    /\ ask' = [r \in Requests |-> NoInput]
    /\ pool' = {} /\ rows' = {} /\ refused' = {}

-------------------------------------------------------------------------------
(* The goroutine main.                                                     *)
At(here, next) == main = here /\ main' = next
Return(here, how) == At(here, "close") /\ verdict' = how

Start ==
    /\ wanted
    /\ \E e \in Environments :
        \/ ~Loads(e) /\ Return("off", "error") /\ UNCHANGED config
        \/ Loads(e) /\ At("off", "mysql") /\ config' = Load(e) /\ UNCHANGED verdict
    /\ UNCHANGED <<wanted, open, listener, stop, handlers>>

(* A client that does not answer the first ping is closed at once.         *)
Open(client, next) ==
    /\ \/ At(client, next) /\ open' = open \cup {client} /\ UNCHANGED verdict
       \/ Return(client, "error") /\ UNCHANGED open
    /\ UNCHANGED <<wanted, config, listener, stop, handlers>>
OpenMySQL == Open("mysql", "redis")
OpenRedis == Open("redis", "tokens")

NewTokenManager ==
    /\ \/ At("tokens", "routes") /\ NewTokenManagerOK(config) /\ UNCHANGED verdict
       \/ Return("tokens", "error") /\ ~NewTokenManagerOK(config)
    /\ UNCHANGED <<wanted, config, open, listener, stop, handlers>>

(* gin panics when a route is registered twice.                            *)
Register ==
    /\ \/ At("routes", "listen") /\ IsInjective(Routes(config)) /\ UNCHANGED verdict
       \/ Return("routes", "panic") /\ ~IsInjective(Routes(config))
    /\ UNCHANGED <<wanted, config, open, listener, stop, handlers>>

GoListen ==
    /\ At("listen", "notify") /\ listener' = "starting"
    /\ UNCHANGED <<wanted, config, open, stop, verdict, handlers>>

Notify ==
    /\ At("notify", "select")
    /\ UNCHANGED <<wanted, config, open, listener, stop, verdict, handlers>>

(* When both channels are ready, either is taken.                          *)
Select ==
    /\ \/ /\ stop /\ At("select", "drain")
          /\ listener' = IF listener = "failed" THEN listener ELSE "closed"
          /\ UNCHANGED verdict
       \/ listener = "failed" /\ Return("select", "error") /\ UNCHANGED listener
    /\ UNCHANGED <<wanted, config, open, stop, handlers>>

MutDrained == pool = {}     \* mutant: waits for the queries, not the handlers
Drained == \A r \in Requests : ~InFlight(r)

Shutdown ==
    /\ Drained /\ Return("drain", "ok")
    /\ UNCHANGED <<wanted, config, open, listener, stop, handlers>>

MutTimeOut == FALSE /\ UNCHANGED serverVars \* mutant: no deadline
TimeOut ==
    /\ Return("drain", "error")
    /\ UNCHANGED <<wanted, config, open, listener, stop, handlers>>

(* The deferred calls: Redis is closed first.  Then the process ends.      *)
Close ==
    /\ main = "close"
    /\ \/ open = {} /\ EndProcess
       \/ /\ open # {}
          /\ open' = open \ {IF "redis" \in open THEN "redis" ELSE "mysql"}
          /\ UNCHANGED <<main, config, listener, stop, verdict, handlers>>
    /\ UNCHANGED wanted

-------------------------------------------------------------------------------
(* The goroutine of ListenAndServe: it does not listen after Shutdown.     *)
Listen ==
    /\ Running /\ listener = "starting" /\ listener' = "open"
    /\ UNCHANGED <<wanted, main, config, open, stop, verdict, handlers>>
ListenFails ==
    /\ Running /\ listener \in {"starting", "open"} /\ listener' = "failed"
    /\ UNCHANGED <<wanted, main, config, open, stop, verdict, handlers>>

(* The process ends without the deferred calls.                            *)
Kill == Running /\ EndProcess /\ UNCHANGED wanted

(* docker stop sends SIGTERM, which kills until Notify is called.          *)
Notified == main \in {"select", "drain"} \/ (main = "close" /\ listener # "none")
Signal ==
    /\ wanted /\ wanted' = FALSE
    /\ \/ Running /\ ~Notified /\ EndProcess
       \/ /\ ~Running /\ UNCHANGED <<main, config, open, listener, stop, verdict, handlers>>
       \/ /\ Running /\ Notified /\ stop' = TRUE
          /\ UNCHANGED <<main, config, open, listener, verdict, handlers>>

ComposeUp ==
    /\ ~wanted /\ wanted' = TRUE
    /\ UNCHANGED <<main, config, open, listener, stop, verdict, handlers>>

-------------------------------------------------------------------------------
(* The handlers.                                                           *)
Goto(r, next) == step' = [step EXCEPT ![r] = next]

(* What is left of request r, or of its transaction: when there is nothing,*)
(* it is answered.                                                         *)
Continue(r, todo) ==
    /\ Goto(r, IF todo.calls > 0 THEN "call"
               ELSE IF todo.row # NoRow THEN "begin" ELSE "reply")
    /\ ask' = [ask EXCEPT ![r] = todo]
Reply(r) == Continue(r, NoInput)

Accept(r) ==
    /\ listener = "open" /\ step[r] = "idle"
    /\ \E i \in Inputs : Continue(r, i)
    /\ UNCHANGED <<boot, pool, rows, refused>>

(* A pool without a limit grows; another makes the request wait.           *)
Room == config.conns <= 0 \/ Cardinality(pool) < config.conns

Acquire(r) ==
    /\ Running /\ step[r] \in Waiting /\ "mysql" \in open /\ Room
    /\ pool' = pool \cup {r}
    /\ Goto(r, IF step[r] = "call" THEN "query" ELSE "update")
    /\ UNCHANGED <<boot, ask, rows, refused>>

(* sql: database is closed                                                 *)
Closed(r) ==
    /\ Running /\ step[r] \in Waiting /\ "mysql" \notin open
    /\ Reply(r) /\ refused' = refused \cup {r}
    /\ UNCHANGED <<boot, pool, rows>>

Query(r) ==
    /\ Running /\ step[r] = "query"
    /\ Continue(r, [ask[r] EXCEPT !.calls = @ - 1])
    /\ pool' = pool \ {r}
    /\ UNCHANGED <<boot, rows, refused>>

RowIsFree(r) == \A q \in rows : ask[q].row # ask[r].row
Update(r) ==
    /\ Running /\ step[r] = "update" /\ RowIsFree(r)
    /\ rows' = rows \cup {r} /\ Goto(r, "readback")
    /\ UNCHANGED <<boot, ask, pool, refused>>

MutReadBack(r) ==           \* mutant: with a second connection of the pool
    /\ Running /\ step[r] = "readback" /\ Room /\ Goto(r, "commit")
    /\ UNCHANGED <<boot, ask, pool, rows, refused>>
ReadBack(r) ==
    /\ Running /\ step[r] = "readback" /\ Goto(r, "commit")
    /\ UNCHANGED <<boot, ask, pool, rows, refused>>

Commit(r) ==
    /\ Running /\ step[r] = "commit" /\ Reply(r)
    /\ pool' = pool \ {r} /\ rows' = rows \ {r}
    /\ UNCHANGED <<boot, refused>>

(* A call fails, or the client leaves while it waits for a connection.     *)
Fails(r) ==
    /\ Running /\ step[r] \in Waiting \cup Holding /\ Reply(r)
    /\ pool' = pool \ {r} /\ rows' = rows \ {r}
    /\ UNCHANGED <<boot, refused>>

(* A client may take as long as it likes to read its answer.               *)
Replied(r) ==
    /\ Running /\ step[r] = "reply" /\ Goto(r, "done")
    /\ UNCHANGED <<boot, ask, pool, rows, refused>>
-------------------------------------------------------------------------------
MainStep ==
    \/ OpenMySQL \/ OpenRedis \/ NewTokenManager \/ Register \/ GoListen
    \/ Notify \/ Select \/ Shutdown \/ TimeOut \/ Close
Handle(r) ==
    \/ Acquire(r) \/ Closed(r) \/ Query(r) \/ Update(r) \/ ReadBack(r) \/ Commit(r)

ProcessStep ==
    \/ Start \/ MainStep \/ Listen \/ ListenFails \/ Kill \/ Signal
    \/ \E r \in Requests : Accept(r) \/ Handle(r) \/ Fails(r) \/ Replied(r)

ServerNext == ProcessStep \/ ComposeUp

(* The scheduler runs every goroutine, and the timer of the shutdown fires;*)
(* no client is bound to read its answer.                                  *)
ServerFairness ==
    /\ WF_serverVars(MainStep)
    /\ \A r \in Requests : WF_serverVars(Handle(r))

ServerSpec == ServerInit /\ [][ServerNext]_serverVars /\ ServerFairness

-------------------------------------------------------------------------------
(* Every variable has its type.                                            *)
ServerTypeOK ==
    /\ wanted \in BOOLEAN /\ stop \in BOOLEAN
    /\ main \in {"off", "mysql", "redis", "tokens", "routes", "listen",
                 "notify", "select", "drain", "close"}
    /\ open \subseteq {"mysql", "redis"}
    /\ listener \in {"none", "starting", "open", "failed", "closed"}
    /\ verdict \in {"none", "ok", "error", "panic"}
    /\ step \in [Requests -> {"idle", "reply", "done"} \cup Waiting \cup Holding]
    /\ ask \in [Requests -> Input]
    /\ pool \subseteq Requests /\ rows \subseteq Requests /\ refused \subseteq Requests

(* No request that was accepted is cut short, by the end of the process or *)
(* by a pool closed under it, unless run returns an error (the deadline of *)
(* ten seconds, a listener that failed) or somebody kills the process: an  *)
(* exit without an error has answered everybody.                           *)
CutOnlyOnError ==
    \A r \in Requests :
        r \in refused \/ (main = "close" /\ InFlight(r)) =>
            main = "close" /\ verdict = "error"

(* A handler comes to its answer although others wait for the connections  *)
(* and the rows it needs: nobody who holds a connection waits for another, *)
(* and no client that is slow to read its answer holds one.                *)
RequestsEnd ==
    \A r \in Requests :
        InFlight(r) ~> step[r] \in {"reply", "done"} \/ main = "off"

(* A signal stops the process, whatever the handlers and the clients do.   *)
StopsAfterSignal == stop ~> main = "off"

(* The process comes up: no configuration it loads makes its start panic.  *)
StartDoesNotPanic == verdict # "panic"
===============================================================================
