# A specification of the task manager

TLA+ modules, model-checking runs and proofs for the REST service in this
repository (Go, Gin, MySQL, Redis): users form teams, members of a team create,
change and delete its tasks, and every change of a task is kept in a history.

Everything that carries the program's own logic is modelled: the **task
service** with its list cache, the **comment service**, the **team service**,
**accounts and tokens**, the **statistics**, the **per-user rate limiter**, the
**process** of the API from its start to its end, the **migration tool**, and
the way the containers tie these two together. The three services that share
tables are also composed into one **platform**. `PROJECT.json` lists every
component, the hazards with their lines, the runs, and the source lines behind
each definition.

## 1. The system

| Component | State | Operations | Modelled in |
|---|---|---|---|
| Task service (`internal/service/task_service.go`, `transactor.go`, `repository/task_repo.go`, `history_repo.go`, `handler/task.go`) | tables `tasks`, `task_history`; locals of each request | create, get, list, update, delete, history | `TaskData`, `TaskLedger`, `TaskService` |
| Task list cache (`service/task_cache.go`, `cache/redis.go`) | Redis keys with a TTL of 5 minutes | get, store, invalidate | `TaskService` |
| Team service (`service/team_service.go`, `repository/team_repo.go`, `handler/team.go`) | tables `teams`, `team_members` | create, invite, list, list members | `TeamService` |
| Comment service (`service/comment_service.go`, `repository/comment_repo.go`, `handler/comment.go`) | table `task_comments`, its AUTO_INCREMENT counter | create, list | `CommentService` |
| Statistics (`service/stats_service.go`, `repository/stats_repo.go`, `handler/stats.go`) | none | three queries | `StatsQueries` |
| Rate limiter (`middleware/ratelimit.go`) | map from user to token bucket, mutex | get + Allow for each request, hourly gc | `TokenBucket`, `RateLimiter` |
| Authentication (`service/auth.go`, `auth/jwt.go`, `middleware/auth.go`) | table `users`; the secret; tokens held by clients | register, login, check a token | `AuthService` |
| Process (`cmd/app/main.go`, `config/config.go`, `router/router.go`, `storage/mysql.go`) | configuration, clients, routes, listener, signal, pool of connections | start, serve, drain, close, die | `Server` |
| Migration tool (`cmd/migrate/main.go`, `migrations/`) | the tables, the version, its dirty flag, the advisory lock | up, down, steps, version, force | `Migrate` |
| Containers (`docker-compose.yml`) | what is to run | up, stop, restart | `Deployment` |
| Metrics, logging, test keys | counters | none the program depends on | no |

**How they interact.** A request passes RequireAuth, then the limiter, then a
handler, then a service; a goroutine of its own runs all of it. Requests share
MySQL, Redis, the limiter's map and the pool of connections, and nothing else.
The task and comment services and the statistics read `team_members`; the team
service writes it. Comments are on tasks the task service writes. Nothing in
the program ever removes or changes a member, a team, or a row of `users`.
docker compose starts the API when a run of the migration tool has succeeded,
and restarts it whenever it ends.

**What is hard.**
- *Interleaving.* A service makes several calls to MySQL and Redis, and other
  requests run between any two. `Update` reads the row before its transaction
  and computes the history from that copy. `Create` of a team makes two inserts
  that no transaction joins. A list reads rows, then their total, then stores
  the page, while a write invalidates keys one at a time. An INSERT of a comment
  gets its id before it waits for a lock, so ids become visible out of order.
- *Failure.* Any call fails, any commit may take effect although its answer is
  lost, the error of an invalidation is dropped, and the process may die (or be
  cut off ten seconds after a signal) between two calls. Redis and MySQL keep
  their contents over it.
  A migration cannot be rolled back, and the tool may die between two of its
  statements; people repair what it left by hand, from several terminals.
- *Limits.* Connections of the pool are held while a row lock is awaited.
- *Time.* Stale pages live until their TTL; buckets gain tokens and are dropped;
  the drain at shutdown has ten seconds.

**What makes each component correct.**
- *Tasks*: a row and its history change together; the history explains the row;
  a deleted task is final; an answer tells whether the write happened; only
  members see or change anything.
- *Cache*: a page is what the database would answer unless its invalidation got
  lost; what a list shows belongs to the query.
- *Teams*: whoever is a member was invited by somebody who could, back to the
  creator; the creator is the owner; answers say what happened.
- *Accounts*: one account an address, whoever races; a token speaks for the user
  whose password got it; who has registered can log in.
- *Comments*: only members write and read them; a list has all that were
  acknowledged before, and later ones come later.
- *Statistics*: a task that is done is counted once, however updates overlap;
  nobody left out of the top has more tasks; orphans come from assignments.
- *Process*: it comes up; it stops after a signal; a request ends although others
  wait; what it cut short it reports as an error.
- *Migrations*: a clean version tells the tables there are; nobody goes on from a
  broken one; success means done; compose starts the API on the whole schema only.
- *Limiter*: one bucket a user, no interval with more than burst and refill,
  nobody refused below that.

## 2. The modules

`TaskData` has the data and pure functions: rows, request bodies, the patch
(`BuildPatch`), the fields that get a history entry (`Recorded`), the list query
(`ListRows`, `CountRows`), the cache key (`KeyOf`) and the keys an invalidation
deletes.

`TaskLedger` is the abstract specification: rows are inserted, changed together
with their history, and deleted, each in one step. A change is either faithful
(its entries are the differences between the old and the new row; only the entry
of an assignee may tell one value twice, as `buildHistoryEntries` has it) or adds
the task to `raced`, the tasks updated on the ground of a stale read.

`TaskService` EXTENDS `TaskLedger` and shares its variables, so the refinement
mapping is the identity: the property `ImplementsLedger` is `LedgerSpec` itself.
Its actions correspond to the code as follows.

| Action | Code |
|---|---|
| `Accept` | handler, validation, up to the first call |
| `Find`, `Member` | `taskRepo.FindByID` (which finds deleted tasks), `teamRepo.GetMember` |
| `Insert` | `taskRepo.Create` |
| `UpdateTx` | BEGIN, UPDATE ... WHERE deleted_at IS NULL, RowsAffected (`Affected`) and the reading back, which tells a deleted row from one that did not change (`Gone`); the row lock is taken here |
| `InsertHistory` | one `historyRepo.InsertTx`, in the order of `buildHistoryEntries` |
| `Commit` | COMMIT; rows, entries and the release of the lock take effect |
| `SoftDelete` | `taskRepo.SoftDelete`, a statement of its own |
| `InvalidateKey`, `InvalidateFails` | one DEL of `taskListCache.Invalidate`; its first error ends it and is dropped |
| `CacheGet`, `SelectRows`, `SelectCount`, `Store` | `TaskService.List` |
| `DBError` | any MySQL call fails without effect; an open transaction rolls back |
| `Crash` | the process dies; requests end without answer |
| `Join` | the team service adds a member, at any time |
| `Expire` | Redis drops a key whose TTL is over |

`pc[r]` is the call request `r` makes next, `loc[r]` its local variables. A
transaction is open exactly while `pc[r] = "entries"`, its writes are in
`loc[r]` until the commit, and readers outside see the committed tables.
`applied`, `raced`, `overtaken` and `leaked` are auxiliary: no guard reads them.
They say which writes took effect, which tasks were updated on a stale read,
which lists had a write between their reads, and which keys missed an
invalidation.

`TeamService` models the team service the same way. `members` is a sequence so
that "before" has a meaning; `by`, in its rows, is auxiliary.

`AuthService` models registration and login (`Find`, `Create`, `Issue`) and
RequireAuth (`Parse`). `tokens` are the tokens clients hold; a token has the
secret it was signed with, because `Restart` may bring another `JWT_SECRET`.
`Normal` is `ToLower(TrimSpace(...))` and `Collated` what the collation of the
column compares, which is coarser (it ignores accents) and finer (it does not
ignore leading spaces); no relation between them is assumed. `password` in a
token, `since` in a request and `at` in an answer are auxiliary.

`CommentService` has three steps for an INSERT (`Insert` gives out the id,
`Commit` makes the row visible, `Reply` answers), because the id is given out
when the statement starts and the row appears when it commits. Tasks and
members are the environment's: `CreateTask`, `DeleteTask`, `Join`. `base` is
auxiliary: what there was when a request was accepted.

`StatsQueries` EXTENDS `TaskService`: the three SELECTs as operators over its
tables, and the limit of the query string as it passes the handler, the service
and the repository (`HandlerLimit`, `ServiceLimit`, `RepoLimit`).

`TokenBucket` is what the limiter promises: a bucket for each user, no map, no
gc. `RateLimiter` keeps the `rate.Limiter` objects apart from the map that points
to them, because a request holds a pointer (`held`) after the mutex is released.
`Get` is `PerUserLimiter.get`, `Allow` the library's bucket, `Gc` the hourly
cleaning, `Restart` a new process. A tick is the time one token takes. `before`
is a record of the past: `before[s][u]` is what user `u` had been admitted when
tick `s` began. The refinement mapping of `LimiterImplementsBucket` computes the
level of a user from the bucket in the map, or takes a full one if there is none.

`Migrate` has a terminal `p` for everybody who may run the tool: `tool[p]` is its
next step, `work[p]` its local variables. `Run` reads the command line; `Lock`,
`ReadVersion`, `MarkDirty`, `Statement`, `MarkClean` and `Unlock` are the calls
golang-migrate makes to MySQL, as this program uses it; `ForceVersion` is
`migrate force`; `ToolFails` is a failing call or the death of the tool, which
lets go of the lock and of nothing else. `misled` is auxiliary: somebody forced
a version that does not describe the tables; and so is `start`, in `work[p]`, the
version the tool found.

`Server` has the goroutine main (`main` is the step it makes next: `Start`,
`OpenMySQL`, `OpenRedis`, `NewTokenManager`, `Register`, `GoListen`, `Notify`,
`Select`, `Shutdown` or `TimeOut`, `Close`), the goroutine of ListenAndServe
(`Listen`, `ListenFails`), what comes from outside (`Signal`, `Kill`,
`ComposeUp`) and the handlers by what they hold: `Acquire` takes a connection,
`Query` gives it back, an update keeps it from `Update`, where it may wait for
the row, over `ReadBack` to `Commit`. `Load` and `Validate` are the
configuration; `Routes` is the list of GET routes in the order of registration.

`Deployment` EXTENDS both: the service `migrate` runs `up`, the stack starts the
API when that has completed successfully, operators use the tool by hand, at any
time, also while the API runs. `touched` is auxiliary: an operator has changed the
schema since the service last succeeded. `RunsOnFullSchema` is about the stack as
long as none has: compose does not look at the schema again, so a `down` under an
API that runs takes its tables away, and nothing in the program prevents it.

`Platform` is the API as one process: the team, the task and the comment service
as INSTANCEs over one `team_members`, one `tasks` and one `task_comments`. A step
is a step of one of them, or a `Crash` of all three. The task and the comment
service see `members`, the pairs of user and team in the rows of the team
service, and the comment service sees of a task its team and whether it is
deleted (`taskRows`). What each of them leaves to its environment alone (`Join`,
`CreateTask`, `DeleteTask`) is here done by the service that does it. It starts
from an empty database, and `MaxTasks` bounds its tasks.

The `MC*` modules give the constants their values; definitions named `Mut...`
are faulty variants of the definition after them. Nothing refers to them; they
are there to see that each property notices a fault.

## 3. The runs

| Run | Question | States |
|---|---|---|
| `MCTask` | rows, history, locks and the refinement under three overlapping requests; lists and writes that share keys | 581 000 |
| `MCServe` | every kind of request, valid and refused, two at a time; what the statistics count; progress, under fairness | 107 000 |
| `MCComment` | every kind of request on changing tasks; INSERTs out of the order of their ids | 923 000 |
| `MCTeam` | creation and invitations of one team, four requests | 270 000 |
| `MCAuth` | an address in three spellings, raced registrations, restarts, three requests | 990 000 |
| `MCLimiter` | two users, two requests inside, gc and a restart at any time; the refinement | 590 000 |
| `MCDeployment` | the tool at two terminals, dying anywhere; the API behind it under three requests; progress, under fairness | 120 000 |
| `MCHistoryRaced`, `MCListFilter`, `MCTeamOwner`, `MCMinute`, `MCStart` | find the five disagreements below | |

**Bounds, and why they are enough.** `Requests` is the number of requests of a
behaviour; each is served once. Three requests give every pair of overlapping
writes and a third that reads or deletes in between; four in `MCTeam` give a
creation, an invitation of an admin, one by that admin, and one that competes.
`InvalidatedPages` is 1 instead of 100, so that page 2 is beyond it: the case
"page 101" occurs. Two rows and limits 1 and 2 make page 2 non-empty. In
`MCAuth` one spelling needs trimming and another differs by an accent only, two
secrets alternate, and with `Ttl` and `Leeway` 1 and `MaxTime` 2 a token expires.
In `MCLimiter` `Burst` is 2, `Ttl` 3 (the least with which an hour fills a bucket,
`HourFillsBucket`, with `Stall` 1), and `MaxTime` 4 lets a bucket be dropped and
made anew. In `MCComment` `MaxTasks` 2 lets a task appear, and lengths at and one
beyond the limit occur. In `MCDeployment` two files of two statements give a file that is
half run, with and without one before it; steps of -1, 0, 1 and 3 and forced
versions from -2 to 2 give every way to be right, wrong or short; three requests
exhaust pools of one and two connections, and two of them can want one row.
The theorems of section 5 need none of these bounds.

`MCPlatform.cfg` is a further instance that `PROJECT.json` does not list: a
creation of a team and an invitation, two of a creation, an update and a
deletion of a task, and a comment, all at once (767 000 states, under a
minute). It checks what section 5 proves of the platform, and the invariants
used for it. It can be run by hand; the theorems of `PlatformProofs` cover its
question for all values of the constants.
`MCWideBucket.cfg` is another: one user, `Burst` 4, `Ttl` 2, so that an hour does not
fill a bucket and gc drops one that is not full (36 000 states). It shows
`WithinBudget` in the form it has then; over more than an hour the budget is
exceeded.

`OneScenario`, the CONSTRAINT of `MCTask` and `MCComment`, keeps the requests of
a behaviour in one of two sets: in `MCTask` the writes of one task with its
history, or the writes and lists of one key; in `MCComment` two requests of every
kind, or three on one task while nobody else interferes. Mixed behaviours are
left to the theorems.

`Focus`, the CONSTRAINT of `MCDeployment` and `MCStart`, lets the process get beyond
its connection to MySQL only while every tool has ended well, no operator has
changed the schema since the service `migrate` succeeded, and no version was
forced that is not true. Up to there the operators do what they like, which
includes the start of the API on what `force 1` leaves of half a schema. Nothing
is lost for the properties of the process: none of its steps reads a variable of
the tool, so what it does on a changed schema it also does on an unchanged one;
and what a tool does later it also does with the process still at that point. The
theorems have no such bound.
`NoRoutes` removes the second `GET /healthz`, with which no process gets beyond its
start (`MCStart`), so that `MCDeployment` can say what comes after; panics are
still there, by a METRICS_PATH that is a route.

Requests are interchangeable, so the runs without liveness use symmetry.
Deadlock is checked: `Finished` is the only way for a service to stop.
`RateLimiter` never stops by itself, since requests keep coming, `AuthService` may
always be restarted, and the stack brought up.

**What they show.** All the properties of section 1 that a run checks hold, with
the exceptions written into them: history needs `raced`, freshness needs
`leaked` and the pages beyond the invalidated ones. `StaleOnlyIfLeaked` is the
exact list of how a page can be stale: a lost or unfinished invalidation, a
crash before it, a page computed across a write and stored after it, a page
beyond the last one invalidated. `AnswersAreTruthful` includes that a 404 for
a task there was from the start means it is deleted, and not that an update
changed nothing. `DoneIsCounted` says when `done_last_7_days` grows: by one when an
update makes a task done, and at no other step. `WithinBudget` holds of every
interval if an hour fills a bucket, and otherwise of those of an hour at most.
`RunsOnFullSchema` claims the last version, clean, for the time the schema is left
alone, and all of its tables unless somebody forced a version that was not true.
`LaterCommentsComeLater` is as much order as the ids give: comments whose requests
overlap may appear in front of ones already shown.
`RequestsEnd` would fail if a handler took a second connection inside its
transaction; the mutant does that, and a pool of one is enough to stop it.

**Fairness.** `FairSpec` has weak fairness of `Serve(r)`, since Go runs the
goroutine of an accepted request and MySQL grants a lock when its holder ends. No
fairness on `Accept`, `DBError`, `Crash` or `Expire`: nobody has to send a request,
nothing has to fail, and no property rests on the TTL. A request that waits for a
row lock has its action disabled until the holder's transaction ends; the holder
never waits for anything, so weak fairness suffices. `ServerFairness` has weak
fairness of `MainStep` and of `Handle(r)`: the Go scheduler runs every goroutine,
and the timer of the drain fires. There is none on `Replied`, because a client may
take as long as it likes to read its answer, nor on `Listen`, `Signal`, `Start` or
the failures.

**Where the code and what is said of it disagree.**
1. `HistoryAlwaysExplainsRow` fails: `Update` reads the old values outside its
   transaction (`task_service.go:167`), and an update that commits in between
   leaves entries with wrong old values. The description of the columns
   (`migrations/0001_init.up.sql:70`) has them as the old and the new value.
2. `ListHonoursFilter` fails: the cache key (`task_cache.go:22`) has no assignee
   and no limit, which are parameters of the query (`dto/filter.go:15`).
3. `CreatorIsOwner` fails: a failure between the two inserts of
   `TeamService.Create` leaves a team nobody owns
   (`team_service_test.go:38`: the creator automatically becomes owner), and by
   `AbandonedStaysEmpty` nobody ever will. The transactor the service is given
   is not used.
4. `HundredPerMinute` fails: README.md:94 promises 100 requests a minute, but the
   burst of 100 comes on top of 100 refilled tokens.
5. `StartDoesNotPanic` fails: `router.New` registers `GET /healthz`
   (`router.go:40`) and main registers it again (`main.go:122`), at which gin
   panics, although by README.md:19 the API is available after `make up`.

More were met while modelling; the models follow the code, and no run is spent on
them:
- An update with `"assignee_id": null` keeps the assignee, because a nil pointer
  means "no change" (`task_service.go:312`); `dto/task.go:19` has an explicit nil
  remove it.
- A comment may have 4000 bytes (`comment_service.go:48`); `dto/validation.go:36`
  has 10 000, in a function nobody calls.
- `done_last_7_days` is not the number of tasks in status done, as `dto/stats.go:4`
  has it: the query counts entries of the history, so a task that was reopened and
  done again counts twice, one that was deleted or reopened still counts, and one
  created as done does not.
- `migrate down` reverts all migrations (`m.Down`); the comment in
  `cmd/migrate/main.go:58` and README.md:73 have it revert one. With the single
  migration there is, the two coincide. `SuccessIsDone` makes no claim about `down`.
- The image has no `migrations` directory (`Dockerfile:27-38` copies two binaries),
  so `migrate.New("file://migrations", ...)` (`cmd/migrate/main.go:33`) fails in the
  container of the service `migrate`, which then never succeeds. `Deployment` takes
  the directory to be there, as it is where the tool is built and run by hand;
  otherwise nothing would follow the service. `MCStart` assumes the same.
- `force 1` after a migration that ended half-way (README.md:75 offers it for a
  dirty state) makes the version clean and the tables no more complete; `up` then
  has nothing to do and succeeds, and compose starts the API on half a schema. The
  last conjunct of `RunsOnFullSchema` has `misled` for it.
- An hour need not fill a bucket: `config.validate` (`config.go:163-168`) asks for a
  positive rate and a positive burst only. With the defaults it does, in a minute.
- A secret of less than 32 bytes passes the validation outside production, as
  README.md says, but `NewTokenManager` refuses it everywhere (`jwt.go:47`).
- docker-compose.yml sets `APP_PORT`, which `bindEnvs` does not know (it binds
  `HTTP_PORT`), and gives the API a DSN with the scheme `mysql://`, which
  golang-migrate takes off and `storage.OpenMySQL` does not. `MCStart` assumes a
  DSN the driver accepts.

## 4. Assumptions of the models

- *MySQL*: statements are atomic, an UPDATE locks its row until its transaction
  ends and reads the current row, other reads see committed rows, keys and
  foreign keys hold. A call fails without effect, except that the answer to a
  write may be lost after it took effect.
- *Redis*: single commands are atomic; a read may fail at any time, which the
  code treats as a miss.
- *Data*: an id is a position in a table; texts are two model values; `Invalid`
  stands for an empty or too long title and an unknown status, `Zero` for id 0,
  `NoUser` for an id no user has. Time stamps and the layout of answers are left
  out: no modelled decision reads them.
- *Members* of the task and comment services only grow (`Join`), at any time: the
  program has no way to remove one, so a check that passed stays true.
- *Comments*: the ids of AUTO_INCREMENT are given out in the order in which the
  statements start, and none is given out twice.
- *Statistics*: each query is one statement, hence sees one state; what happens,
  happens within the week (or `since_days`) it looks back.
- *golang-migrate*: one lock around a command, which ends with the session; the
  version is written dirty before a file and clean after it; a dirty version and
  one without a file are errors. Each statement of an up file creates a table, of
  a down file drops one if it is there.
- *The process*: `Shutdown` closes the listener first and returns when no handler
  is left; after that no request is accepted. A query that was begun on a pool
  that is closed then is not interrupted; a connection asked for is refused.
  Every call to MySQL ends: it is granted, fails, or its row becomes free.
- *Tokens*: a signature verifies with the secret that made it and no other, a
  bcrypt hash with the password that made it and no other (of passwords, only
  the 72 bytes that bcrypt reads); the clock does not run backwards. `Parse` has
  one outcome for all its errors, as RequireAuth has.
- *Limiter*: all ticks have the same length; `Allow` is atomic (the library locks
  the bucket); no request is held up for more than an hour between `get` and
  `Allow` (`Stall <= Ttl`). That an hour fills a bucket is no assumption but a
  condition (`HourFillsBucket`) of the refinement and of the budget of long
  intervals.

## 5. The proofs

The theorems hold for all values of the constants that satisfy the named
assumptions (`DataAssumption`, `ServiceAssumption`, `TeamAssumption`,
`AuthAssumption`, `CommentAssumption`, `StatsAssumption`, `LimiterAssumption`,
`MigrateAssumption`, `ServerAssumption`, `DeploymentAssumption`), so for any
number of users, requests, inputs, migrations and terminals. `PlatformAssumption`
is those of the three services together, as the hypothesis of the theorems about
`Platform`.

**`TaskServiceProofs`**, first about the ledger: `LedgerTypes`, `LedgerExplains`
(the history explains the row) and `LedgerFinal`. `HistoryExplainsRow` is
inductive with the types: `FaithfulExplains` shows that entries of a faithful
change continue the chain of old and new values, `ExplainedFrame` that other
tasks are left alone.

Then about the service: the invariant is `TypeOK /\ TransactionIsCurrent /\
Local` for each request. `Local(r)` says what `r` has established at each step:
that its input passed validation, that the row it read exists, and that the
entries collected with those still to be inserted are the recorded differences
between the row it read and the row it will commit (`EntriesOK`). It is needed
because `Commit` alone cannot tell that its entries are right. A lemma for each
action shows that it keeps the invariant and that it is a step of the ledger or
changes none of its variables; `ServiceImplementsLedger` follows, and with it
`ServiceHistoryExplains` and `ServiceDeletedIsFinal` from the ledger's theorems.
`TransactionsAreCurrent` rests on the row lock and on nobody else writing a
locked row. `OnlyMembers`, `AnswersHold` and `ListsAnswerTheKey` rest on a second
invariant, `Promises`: what each request has found out about its actor and has
written so far (`Kept`), and that every page in the cache belongs to its key and
shows live rows only (`CacheShown`). `StalenessExplained` needs a third,
`Freshness`: a page being computed holds the current rows, or a write has
overtaken it (`Reading`); `WriteFreshness` shows that a write has the keys of all
the pages it makes stale still to delete, except those beyond the last one
invalidated. `AuthorsAreMembers` adds whose the rows and entries are: a task
inserted since the start, and every entry of a history, is by a member of the
task's team. It takes the promise that a request past its check of membership has
one (`Kept`), that members stay, and that a task stays with its team.

**`StatsQueriesProofs`**: `DoneCountHolds` compares the two sides of a step of the
ledger, as the entries the query counts are counted by task and place (`Tells`).
A step adds to a history at most one entry about the status (`ChangeTellsOne`),
and a faithful change does so exactly when the status changed, with the new one
in it; so the count grows by one when the task becomes done and not otherwise
(`ChangeCounts`). An insert has no entries and a deletion changes none. That the
set is finite is the invariant needed (`TellsFinite`), and the service has the
rest by refinement. `TopCreatorsHold` follows from the types: the order of the query is
strict and total (`AheadIsStrict`), so a rank is one more than the number of
those ahead (`RankFollows`), and the first `limit` ranks are all taken
(`TopAreFirst`). `OrphansComeFromWrites` holds because members stay and a deleted
task stays deleted.

**`TeamServiceProofs`**: the invariant is `TypeOK /\ ChainOfInvites /\ Local`,
where `Local` says that a request past its membership check still has its inviter
in the table (rows are never removed). `AbandonedTeamsStayEmpty` follows: who
adds to a team is its creating request, or has a row in it. `TeamAnswersHold`
adds what each answer, and each step on the way to it, says of the tables
(`Promise`). `MembersHaveAnOwner` is what remains of the `CreatorIsOwner` that
fails (disagreement 3): a team that has any member is owned by its creator, so
only an empty team is ever without its owner.

**`AuthServiceProofs`**: the invariant adds to the types that rows are normalised
and differ in what the unique key compares (`Accounts`), that every token agrees
with the row of its user (`Genuine`), and for each request what it has
established (`Local`): above all that the row a login found, or a registration
inserted, is still the account of the address and password sent. The theorems are
`OneAccountForAll`, `TokensSpeakForOwners` and `AuthAnswersHold`.

**`RateLimiterProofs`**: the invariant adds to the types and `HeldIsCurrent` when
buckets were last used (`UsedInTime`), and an account: what a user was admitted
plus what its next request would find never exceeds the budget of any interval
(`Account`), and equals that of some interval (`Exact`). Dropping a bucket keeps
the account for one of two reasons: an hour fills a bucket (`HourFillsBucket`), so
it is full by then; or the interval is short (`Short`), so the user was admitted
nothing in it, since he asked for nothing for an hour (`Quiet`), and a full bucket
is within its budget. `BudgetHolds` and `RefusalsAreDeserved` are the two halves of
the account; neither assumes that an hour fills a bucket.

`ImplementsBucket` is the refinement of `TokenBucket`, for which `HourFillsBucket` is
a hypothesis: a dropped bucket was full, so taking it out of the map changes no
level.

**`CommentServiceProofs`**: the invariant says of every INSERT that its id is
below the counter and nobody else's, in the table or in flight
(`IdsAreDistinct`, which is the promise of AUTO_INCREMENT), and of every
request what was there when it was accepted (`base`). `ListsAreComplete` and
`CommentsInOrder` follow, since rows are never removed and the counter only
grows.

**`DeploymentProofs`**, first about the migration tool: only the holder of the
lock has read the version (`Holds`), so the schema is described by the place its
tool is at: `Planned` says how many files are left and that they exist, `Marks`
that in the middle of a file the version is its target, the flag is set, and the
tables are those of the start with the statements run so far (`Partial`).
`CleanIsComplete` cannot be shown without it: a tool about to clear the flag must
know its file is finished. `SuccessMeansDone` and `BrokenStays` use the same
invariant.

Then about the stack: `StackIsBoth` shows that the composition is one of
`Migrate` and `Server`, so what is proved of each holds of both together.
`AlwaysFullSchema` adds that the service `migrate` runs no command but `up`, and that
its success, a process, or the wish for one stands for the last version, clean,
as long as no operator changed the schema since (`ServiceInv`). Operators are not
restricted: they may migrate before, during and after, and the stack may be
brought up again under them. `CleanMeansComplete` turns the version into tables. `NothingIsCut` follows from
`ServerInv`: handlers live only behind a listener (`ListenerInv`), the pool is
closed only by the deferred calls, and a verdict without error was given when no
handler was left (`HandlerInv`).

**`PlatformProofs`**: the environments of the services are real. Each of them,
run beside the others, does only what its own module allows (`PlatformRunsTeams`,
`PlatformRunsTasks`, `PlatformRunsComments`), so what is proved of each alone
holds of the whole (`PromisesHoldTogether` lists the most important). The
argument goes in the order of who writes for whom: a step of the team service
adds at most one member, who is new, which is a `Join` (`MembersJoin`); so the
task service runs as its module says; its steps are steps of the ledger, which
for the comment service are a `CreateTask`, a `DeleteTask` or nothing
(`RowsSteps`). Two theorems say what no service ensures by itself.
`NoReferenceDangles`: nobody inserts a member, task or comment for a team or task
that is not there, although the check and the insert are separate statements, so
the foreign keys between the tables of the services never refuse anything.
`AllWorkIsOwned`: a task is in a team that its creator owns, and whoever wrote
the task, an entry of its history or a comment on it is a member of that team;
the team that lost its owner (disagreement 3) never holds any work. It joins
`MembersHaveAnOwner`, `AuthorsAreMembers` and the invariant of the comments
(`Together`).

**Only model-checked**: the liveness properties (`EveryRequestEnds`, `RequestsEnd`,
`StopsAfterSignal`): fairness and ENABLED are
beyond the prover. So are induction over data and RECURSIVE operators; the
modules have neither.

## 6. Not modelled, and the plan

Left out for good: `UpdateMemberRole`, `RemoveMember` and `UserBelongsToTeam` of
the team repository, which nothing calls (hence the team service is listed as
partly modelled); the fallback bucket of user 0 (RequireAuth rejects that user
first); a service without a cache; the names of users and teams; the format of
answers; metrics, logging and test keys.

What could come next, most important first:
1. What handlers see when an operator migrates under them; at present the tables of
   `Migrate` and those of the services are apart.
2. The statistics with time: rows that grow too old to count.
3. Accounts in the platform: at present `Users` are those with a row in `users`
   from the start, since nothing ever removes one.
