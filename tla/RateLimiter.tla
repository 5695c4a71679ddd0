------------------------------ MODULE RateLimiter ------------------------------
(***************************************************************************)
(* PerUserLimiter of the middleware: a token bucket for each user, created *)
(* by the user's first request and dropped by the hourly gc when it was    *)
(* not used for the time Ttl.  A request takes the bucket's address under  *)
(* the mutex and asks it for a token after the mutex is released, so gc    *)
(* and other requests may come in between.                                 *)
(*                                                                         *)
(* A tick of the clock is the time in which a bucket gains one token,      *)
(* 1 / rps.  The bucket is that of golang.org/x/time/rate.                 *)
(*                                                                         *)
(* Source: internal/middleware/ratelimit.go                                *)
(***************************************************************************)
EXTENDS Naturals, Sequences

CONSTANTS
    Users,          \* ids of the users that send requests
    Goroutines,     \* the requests that may be inside the middleware at once
    Burst,          \* the capacity of a bucket, RATE_LIMIT_BURST
    Ttl,            \* gc drops what was not used for longer: one hour
    Stall,          \* longest time between get and Allow of one request
    MaxTime,        \* bound: the last tick considered
    Null            \* no bucket

(* No request is held up for more than an hour between the two calls.      *)
ASSUME LimiterAssumption ==
    /\ Burst \in Nat \ {0} /\ Ttl \in Nat /\ Stall \in Nat /\ MaxTime \in Nat
    /\ Stall <= Ttl
    /\ Null \notin Nat

(* An hour fills an empty bucket.  With the defaults it does (an hour has  *)
(* 6012 ticks and Burst is 100), but config.validate asks for no more than *)
(* positive values.                                                        *)
HourFillsBucket == Burst + Stall <= Ttl

VARIABLES
    now,        \* the time
    heap,       \* the rate.Limiter objects: user, tokens, time of last update
    perUser,    \* the map: a user's position in heap, or Null
    lastUse,    \* lastUse of the user's entry
    held,       \* the bucket a request took, and when, or Null
    admitted,   \* auxiliary: the requests of a user that were let through
    before      \* auxiliary: before[s][u], admitted[u] when tick s began

vars == <<now, heap, perUser, lastUse, held, admitted, before>>

Init ==
    /\ now = 0
    /\ heap = <<>>
    /\ perUser = [u \in Users |-> Null]
    /\ lastUse = [u \in Users |-> 0]
    /\ held = [g \in Goroutines |-> Null]
    /\ admitted = [u \in Users |-> 0]
    /\ before = [s \in 0..MaxTime |-> [u \in Users |-> 0]]

-------------------------------------------------------------------------------
MutNewBucketEmpty(u) == [user |-> u, tokens |-> 0, last |-> now]  \* mutant: starts empty
MutNewBucketOver(u) ==                  \* mutant: a new bucket holds one too many
    [user |-> u, tokens |-> Burst + 1, last |-> now]
NewBucket(u) == [user |-> u, tokens |-> Burst, last |-> now]

MutTouchOnCreate(u) ==                  \* mutant: only a new entry gets its lastUse
    lastUse' = IF perUser[u] = Null THEN [lastUse EXCEPT ![u] = now] ELSE lastUse
Touch(u) == lastUse' = [lastUse EXCEPT ![u] = now]

(* PerUserLimiter.get, under the mutex.                                    *)
Get(g) ==
    /\ held[g] = Null
    /\ \E u \in Users :
        /\ Touch(u)
        /\ \/ /\ perUser[u] = Null
              /\ heap' = Append(heap, NewBucket(u))
              /\ perUser' = [perUser EXCEPT ![u] = Len(heap')]
           \/ perUser[u] # Null /\ UNCHANGED <<heap, perUser>>
        /\ held' = [held EXCEPT ![g] = [bucket |-> perUser'[u], since |-> now]]
    /\ UNCHANGED <<now, admitted, before>>

(* The tokens in bucket b now.                                             *)
Tokens(b) ==
    LET n == heap[b].tokens + (now - heap[b].last)
    IN  IF n > Burst THEN Burst ELSE n

(* Limiter.Allow: take a token and be admitted, or get a 429.              *)
Allow(g) ==
    /\ held[g] # Null
    /\ LET b == held[g].bucket IN
        \/ /\ Tokens(b) > 0
           /\ heap' = [heap EXCEPT ![b].tokens = Tokens(b) - 1, ![b].last = now]
           /\ admitted' = [admitted EXCEPT ![heap[b].user] = @ + 1]
        \/ Tokens(b) = 0 /\ UNCHANGED <<heap, admitted>>
    /\ held' = [held EXCEPT ![g] = Null]
    /\ UNCHANGED <<now, perUser, lastUse, before>>

MutUnused(u) == TRUE                    \* mutant: gc clears the map
Unused(u) == lastUse[u] + Ttl < now

(* The ticker's goroutine; when it gets the mutex is up to the scheduler.  *)
Gc ==
    /\ \E u \in Users : perUser[u] # Null /\ Unused(u)
    /\ perUser' = [u \in Users |-> IF Unused(u) THEN Null ELSE perUser[u]]
    /\ UNCHANGED <<now, heap, lastUse, held, admitted, before>>

Tick ==
    /\ now < MaxTime
    /\ \A g \in Goroutines : held[g] # Null => now < held[g].since + Stall
    /\ now' = now + 1
    /\ before' = [before EXCEPT ![now'] = admitted]
    /\ UNCHANGED <<heap, perUser, lastUse, held, admitted>>

(* The process starts again: nothing of the limiter is stored, and time and *)
(* admissions are counted from here.                                       *)
Restart ==
    /\ now' = 0 /\ heap' = <<>>
    /\ perUser' = [u \in Users |-> Null] /\ lastUse' = [u \in Users |-> 0]
    /\ held' = [g \in Goroutines |-> Null]
    /\ admitted' = [u \in Users |-> 0]
    /\ before' = [s \in 0..MaxTime |-> [u \in Users |-> 0]]

Next ==
    \/ \E g \in Goroutines : Get(g) \/ Allow(g)
    \/ Gc
    \/ Tick
    \/ Restart

Spec == Init /\ [][Next]_vars

-------------------------------------------------------------------------------
Bucket == [user : Users, tokens : 0..Burst, last : 0..MaxTime]
Hold   == [bucket : Nat \ {0}, since : 0..MaxTime]

(* Every variable has its type, and addresses point into the heap.         *)
TypeOK ==
    /\ now \in 0..MaxTime
    /\ heap \in Seq(Bucket)
    /\ \A b \in DOMAIN heap : heap[b].last <= now
    /\ perUser \in [Users -> (Nat \ {0}) \cup {Null}]
    /\ \A u \in Users : perUser[u] # Null =>
          perUser[u] \in DOMAIN heap /\ heap[perUser[u]].user = u
    /\ lastUse \in [Users -> 0..MaxTime]
    /\ held \in [Goroutines -> Hold \cup {Null}]
    /\ \A g \in Goroutines : held[g] # Null => held[g].bucket \in DOMAIN heap
    /\ admitted \in [Users -> Nat]
    /\ before \in [0..MaxTime -> [Users -> Nat]]

(* A request never asks a bucket that gc has dropped: there is one bucket  *)
(* a user, whatever the interleaving of gc with the requests.              *)
HeldIsCurrent ==
    \A g \in Goroutines : held[g] # Null =>
        perUser[heap[held[g].bucket].user] = held[g].bucket

(* What a user's next request finds: a dropped bucket comes back full.     *)
Available(u) == IF perUser[u] = Null THEN Burst ELSE Tokens(perUser[u])

(* The promise of a token bucket, which dropping buckets must not break: in*)
(* no interval are more requests of a user admitted than Burst and one for *)
(* each tick of it.  When an hour does not fill a bucket, gc may replace   *)
(* one that is not full by one that is; then the promise holds of the      *)
(* intervals of an hour, less the time a request is held up.               *)
WithinBudget ==
    \A u \in Users, s \in 0..now :
        HourFillsBucket \/ now + Stall <= s + Ttl =>
            admitted[u] <= before[s][u] + Burst + (now - s)

(* A request is refused only to a user who has used the whole budget of    *)
(* some interval up to now.                                                *)
RefusedOnlyOverBudget ==
    \A u \in Users : Available(u) = 0 =>
        \E s \in 0..now : admitted[u] = before[s][u] + Burst + (now - s)

(* Whatever requests and gc do with the map and the buckets in it, a user  *)
(* sees one bucket that only requests let through, ticks and restarts      *)
(* change, if an hour fills a bucket: dropping it or making it again does  *)
(* not change it then.                                                     *)
Ideal == INSTANCE TokenBucket WITH level <- [u \in Users |-> Available(u)]
LimiterImplementsBucket == Ideal!Spec

(* A minute has Burst ticks with the default configuration (100 requests   *)
(* and 1.67 a second); README.md promises no more than 100 a minute.       *)
HundredPerMinute ==
    \A u \in Users, s \in 0..now :
        now - s < Burst => admitted[u] <= before[s][u] + Burst
===============================================================================
