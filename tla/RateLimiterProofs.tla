--------------------------- MODULE RateLimiterProofs ---------------------------
(***************************************************************************)
(* Theorems about RateLimiter, for every number of users, of concurrent    *)
(* requests, every capacity, and every Ttl, whether or not it lets a bucket*)
(* fill.                                                                   *)
(*                                                                         *)
(* The inductive invariant (IInv) adds to the types and to HeldIsCurrent   *)
(* when buckets were last used (UsedInTime), that nobody is admitted after *)
(* that (Quiet), and an account for each user: what was admitted and what  *)
(* the bucket still holds never exceed the budget of an interval (Account),*)
(* and equal that of some (Exact).                                         *)
(***************************************************************************)
EXTENDS RateLimiter, Integers, TLAPS

UsedInTime ==
    /\ \A u \in Users : lastUse[u] <= now
    /\ \A u \in Users : perUser[u] # Null =>
          heap[perUser[u]].last <= lastUse[u] + Stall
    /\ \A g \in Goroutines : held[g] # Null =>
          /\ now <= held[g].since + Stall
          /\ held[g].since <= lastUse[heap[held[g].bucket].user]

Quiet ==
    \A u \in Users, s \in 0..now :
        lastUse[u] + Stall < s => before[s][u] = admitted[u]

(* The intervals up to now that WithinBudget is about.                     *)
Short(s) == now + Stall <= s + Ttl

Account ==
    \A u \in Users, s \in 0..now : HourFillsBucket \/ Short(s) =>
        admitted[u] + Available(u) <= before[s][u] + Burst + (now - s)

Exact ==
    \A u \in Users : \E s \in 0..now :
        admitted[u] + Available(u) = before[s][u] + Burst + (now - s)

(* What a step does to the buckets as their users see them.                *)
Untouched == admitted' = admitted /\ \A v \in Users : Available(v)' = Available(v)

Taken(u) ==
    /\ Available(u) > 0
    /\ admitted' = [admitted EXCEPT ![u] = @ + 1]
    /\ \A v \in Users : admitted'[v] + Available(v)' = admitted[v] + Available(v)

Refilled ==
    /\ admitted' = admitted
    /\ \A v \in Users : Available(v)' =
          IF Available(v) < Burst THEN Available(v) + 1 ELSE Burst

IInv == TypeOK /\ HeldIsCurrent /\ UsedInTime /\ Quiet /\ Account /\ Exact

(* The types of the parts of the state, spelled out for the provers.       *)
LEMMA PartTypes ==
  ASSUME TypeOK
  PROVE  /\ now \in Nat /\ now <= MaxTime
         /\ \A b \in DOMAIN heap :
               /\ b \in Nat \ {0} /\ heap[b] \in Bucket /\ heap[b].user \in Users
               /\ heap[b].tokens \in Nat /\ heap[b].tokens <= Burst
               /\ heap[b].last \in Nat /\ heap[b].last <= now
         /\ \A u \in Users : lastUse[u] \in Nat /\ admitted[u] \in Nat
         /\ \A u \in Users, s \in 0..now : before[s][u] \in Nat
         /\ \A g \in Goroutines : held[g] # Null =>
               held[g].bucket \in DOMAIN heap /\ held[g].since \in Nat
<1> USE LimiterAssumption
<1>1. now \in Nat /\ now <= MaxTime
  BY DEF TypeOK
<1>2. ASSUME NEW b \in DOMAIN heap
      PROVE  /\ b \in Nat \ {0} /\ heap[b] \in Bucket /\ heap[b].last <= now
  <2>1. heap \in Seq(Bucket) /\ heap[b].last <= now
    BY DEF TypeOK
  <2> QED
    BY <2>1
<1>3. ASSUME NEW x \in Bucket
      PROVE  /\ x.user \in Users /\ x.tokens \in Nat /\ x.tokens <= Burst
             /\ x.last \in Nat
  BY DEF Bucket
<1>4. \A u \in Users : lastUse[u] \in Nat /\ admitted[u] \in Nat
  <2>1. lastUse \in [Users -> 0..MaxTime] /\ admitted \in [Users -> Nat]
    BY DEF TypeOK
  <2> QED
    BY <2>1
<1>5. \A u \in Users, s \in 0..now : before[s][u] \in Nat
  <2>1. before \in [0..MaxTime -> [Users -> Nat]]
    BY DEF TypeOK
  <2> QED
    BY <1>1, <2>1
<1>6. \A g \in Goroutines : held[g] # Null =>
        held[g].bucket \in DOMAIN heap /\ held[g].since \in Nat
  <2>1. held \in [Goroutines -> Hold \cup {Null}]
    BY DEF TypeOK
  <2>2. \A x \in Hold : x.since \in Nat
    BY DEF Hold
  <2> QED
    BY <2>1, <2>2 DEF TypeOK
<1> QED
  BY <1>1, <1>2, <1>3, <1>4, <1>5, <1>6

(* What a bucket holds is a number of tokens.                              *)
LEMMA TokensType ==
  ASSUME TypeOK, NEW b \in DOMAIN heap
  PROVE  Tokens(b) \in 0..Burst
<1>1. /\ heap[b].tokens \in Nat /\ heap[b].tokens <= Burst
      /\ heap[b].last \in Nat /\ heap[b].last <= now /\ now \in Nat
  BY PartTypes
<1> QED
  BY <1>1, LimiterAssumption DEF Tokens

(* What the next request of a user would find is a number of tokens.       *)
LEMMA AvailableType ==
  ASSUME TypeOK, NEW u \in Users
  PROVE  Available(u) \in 0..Burst
  BY TokensType, LimiterAssumption DEF Available, TypeOK

(* The account of a user whose admissions and tokens add up as before.     *)
LEMMA AccountFrame ==
  ASSUME Account, Exact, now' = now, before' = before,
         \A u \in Users : admitted'[u] + Available(u)' = admitted[u] + Available(u)
  PROVE  Account' /\ Exact'
  BY DEF Account, Short, Exact

(* The invariant holds before the first request.                           *)
LEMMA InitIInv == Init => IInv
<1> SUFFICES ASSUME Init PROVE IInv
  OBVIOUS
<1>1. TypeOK
  BY LimiterAssumption DEF Init, TypeOK, Bucket
<1>2. HeldIsCurrent /\ UsedInTime /\ Quiet
  BY LimiterAssumption DEF Init, HeldIsCurrent, UsedInTime, Quiet
<1>3. \A u \in Users : Available(u) = Burst /\ admitted[u] = 0 /\ before[0][u] = 0
  <2>1. 0 \in 0..MaxTime
    BY LimiterAssumption
  <2>2. \A u \in Users : perUser[u] = Null /\ admitted[u] = 0
    BY DEF Init
  <2>3. \A u \in Users : before[0][u] = 0
    BY <2>1 DEF Init
  <2> QED
    BY <2>2, <2>3 DEF Available
<1>4. now = 0 /\ 0..now = {0}
  BY DEF Init
<1>5. Account /\ Exact
  BY <1>3, <1>4, LimiterAssumption DEF Account, Exact
<1> QED
  BY <1>1, <1>2, <1>5 DEF IInv

(* Get keeps it: a bucket that is in the map was not dropped, and a new one is full. *)
LEMMA GetStep ==
  ASSUME IInv, NEW g \in Goroutines, Get(g) PROVE IInv' /\ Untouched
<1> USE LimiterAssumption DEF IInv
<1>1. PICK u \in Users :
        /\ lastUse' = [lastUse EXCEPT ![u] = now]
        /\ \/ /\ perUser[u] = Null
              /\ heap' = Append(heap, NewBucket(u))
              /\ perUser' = [perUser EXCEPT ![u] = Len(heap')]
           \/ perUser[u] # Null /\ UNCHANGED <<heap, perUser>>
        /\ held' = [held EXCEPT ![g] = [bucket |-> perUser'[u], since |-> now]]
  BY DEF Get, Touch
<1>2. UNCHANGED <<now, admitted, before>>
  BY DEF Get
<1>3. /\ heap' \in Seq(Bucket) /\ DOMAIN heap \subseteq DOMAIN heap'
      /\ \A b \in DOMAIN heap : heap'[b] = heap[b]
      /\ perUser'[u] \in DOMAIN heap' /\ perUser'[u] \in Nat \ {0}
      /\ heap'[perUser'[u]].user = u /\ heap'[perUser'[u]].last <= now
      /\ \A b \in DOMAIN heap' : heap'[b].last <= now
      /\ \A v \in Users \ {u} : perUser'[v] = perUser[v]
      /\ perUser' \in [Users -> (Nat \ {0}) \cup {Null}]
      /\ perUser[u] # Null => perUser'[u] = perUser[u]
  <2>1. CASE perUser[u] # Null /\ UNCHANGED <<heap, perUser>>
    BY <2>1 DEF TypeOK
  <2>2. CASE /\ perUser[u] = Null
             /\ heap' = Append(heap, NewBucket(u))
             /\ perUser' = [perUser EXCEPT ![u] = Len(heap')]
    <3>1. NewBucket(u) \in Bucket /\ NewBucket(u).user = u /\ NewBucket(u).last = now
      BY DEF NewBucket, Bucket, TypeOK
    <3>2. /\ heap' \in Seq(Bucket) /\ DOMAIN heap' = 1..(Len(heap) + 1)
          /\ DOMAIN heap = 1..Len(heap) /\ Len(heap) \in Nat
          /\ \A b \in DOMAIN heap : heap'[b] = heap[b]
          /\ heap'[Len(heap) + 1] = NewBucket(u) /\ Len(heap') = Len(heap) + 1
      BY <2>2, <3>1 DEF TypeOK
    <3>3. \A b \in DOMAIN heap' : heap'[b].last <= now
      BY <3>1, <3>2, SMTT(30) DEF TypeOK
    <3>4. /\ perUser'[u] = Len(heap) + 1
          /\ \A v \in Users \ {u} : perUser'[v] = perUser[v]
          /\ perUser' \in [Users -> (Nat \ {0}) \cup {Null}]
      BY <2>2, <3>2 DEF TypeOK
    <3> QED
      BY <2>2, <3>1, <3>2, <3>3, <3>4, SMTT(30)
  <2> QED
    BY <1>1, <2>1, <2>2
<1>4. /\ held'[g] = [bucket |-> perUser'[u], since |-> now]
      /\ \A h \in Goroutines \ {g} : held'[h] = held[h]
      /\ held' \in [Goroutines -> Hold \cup {Null}]
  BY <1>1, <1>3 DEF TypeOK, Hold
<1>5. /\ lastUse'[u] = now /\ \A v \in Users \ {u} : lastUse'[v] = lastUse[v]
      /\ lastUse' \in [Users -> 0..MaxTime]
  BY <1>1 DEF TypeOK
<1>6. TypeOK'
  <2>1. \A v \in Users : perUser'[v] # Null =>
          perUser'[v] \in DOMAIN heap' /\ heap'[perUser'[v]].user = v
    <3>1. \A v \in Users : perUser[v] # Null =>
            perUser[v] \in DOMAIN heap /\ heap[perUser[v]].user = v
      BY DEF TypeOK
    <3> HIDE DEF IInv
    <3> QED
      BY <1>3, <3>1
  <2>2. \A h \in Goroutines : held'[h] # Null => held'[h].bucket \in DOMAIN heap'
    BY <1>3, <1>4, PartTypes
  <2> QED
    BY <1>2, <1>3, <1>4, <1>5, <2>1, <2>2 DEF TypeOK
<1>7. HeldIsCurrent'
  <2>1. ASSUME NEW h \in Goroutines \ {g}, held[h] # Null
        PROVE  perUser'[heap'[held[h].bucket].user] = held[h].bucket
    <3>1. /\ held[h].bucket \in DOMAIN heap
          /\ perUser[heap[held[h].bucket].user] = held[h].bucket
          /\ heap[held[h].bucket].user \in Users /\ held[h].bucket \in Nat
      BY <2>1, PartTypes DEF HeldIsCurrent
    <3> QED
      BY <1>3, <3>1
  <2> QED
    BY <1>3, <1>4, <2>1 DEF HeldIsCurrent
<1>8. UsedInTime'
  <2>1. \A v \in Users : lastUse[v] <= lastUse'[v] /\ lastUse'[v] <= now
    BY <1>5, PartTypes DEF UsedInTime
  <2>2. \A v \in Users : perUser'[v] # Null =>
          heap'[perUser'[v]].last <= lastUse'[v] + Stall
    <3>1. heap'[perUser'[u]].last <= lastUse'[u] + Stall
      <4>1. heap'[perUser'[u]] \in Bucket
        BY <1>3
      <4>2. heap'[perUser'[u]].last \in Nat
        BY <4>1 DEF Bucket
      <4> QED
        BY <1>3, <1>5, <4>2, PartTypes
    <3>2. \A v \in Users \ {u} : perUser[v] # Null =>
            heap'[perUser'[v]].last <= lastUse'[v] + Stall
      <4> SUFFICES ASSUME NEW v \in Users \ {u}, perUser[v] # Null
                   PROVE  heap'[perUser'[v]].last <= lastUse'[v] + Stall
        OBVIOUS
      <4>1. perUser[v] \in DOMAIN heap
        BY DEF TypeOK
      <4>2. heap[perUser[v]].last <= lastUse[v] + Stall
        BY DEF UsedInTime
      <4> HIDE DEF IInv
      <4>3. perUser'[v] = perUser[v] /\ heap'[perUser[v]] = heap[perUser[v]]
        BY <1>3, <4>1
      <4>4. lastUse'[v] = lastUse[v]
        BY <1>5
      <4> QED
        BY <4>2, <4>3, <4>4
    <3> QED
      BY <1>3, <3>1, <3>2
  <2>3. ASSUME NEW h \in Goroutines, held'[h] # Null
        PROVE  /\ now <= held'[h].since + Stall
               /\ held'[h].since <= lastUse'[heap'[held'[h].bucket].user]
    <3>1. CASE h = g
      BY <1>3, <1>4, <1>5, <3>1 DEF TypeOK
    <3>2. CASE h # g
      <4>1. /\ held'[h] = held[h] /\ held[h].bucket \in DOMAIN heap
            /\ held[h].since \in Nat
            /\ heap[held[h].bucket].user \in Users
            /\ heap'[held[h].bucket] = heap[held[h].bucket]
            /\ now <= held[h].since + Stall
            /\ held[h].since <= lastUse[heap[held[h].bucket].user]
        BY <1>3, <1>4, <2>3, <3>2, PartTypes DEF UsedInTime
      <4>2. /\ lastUse[heap[held[h].bucket].user] \in Nat
            /\ lastUse'[heap[held[h].bucket].user] \in Nat
            /\ lastUse[heap[held[h].bucket].user] <= lastUse'[heap[held[h].bucket].user]
        BY <1>5, <2>1, <4>1 DEF TypeOK
      <4> DEFINE x == lastUse[heap[held[h].bucket].user]
                 y == lastUse'[heap[held[h].bucket].user]
      <4>3. held[h].since <= y
        <5>1. held[h].since \in Nat /\ x \in Nat /\ y \in Nat
              /\ held[h].since <= x /\ x <= y
          BY <4>1, <4>2
        <5> HIDE DEF x, y
        <5> QED
          BY <5>1
      <4> QED
        BY <4>1, <4>3
    <3> QED
      BY <3>1, <3>2
  <2> QED
    BY <1>2, <2>1, <2>2, <2>3 DEF UsedInTime
<1>9. \A v \in Users : Available(v)' = Available(v)
  <2>1. ASSUME NEW v \in Users, perUser[v] # Null PROVE Available(v)' = Available(v)
    <3>1. perUser'[v] = perUser[v] /\ heap'[perUser[v]] = heap[perUser[v]]
      BY <1>3, <2>1 DEF TypeOK
    <3> QED
      BY <1>2, <3>1 DEF Available, Tokens
  <2>2. ASSUME NEW v \in Users \ {u}, perUser[v] = Null
        PROVE  Available(v)' = Available(v)
    BY <1>3, <2>2 DEF Available
  <2>3. ASSUME perUser[u] = Null PROVE Available(u)' = Available(u)
    <3>1. perUser'[u] # Null
      BY <1>3
    <3>2. heap'[perUser'[u]] = NewBucket(u)
      BY <1>1, <2>3 DEF TypeOK
    <3>3. Available(u)' = Tokens(perUser[u])'
      BY <3>1 DEF Available
    <3>4. Tokens(perUser[u])' = Burst
      BY <1>2, <3>2, PartTypes DEF Tokens, NewBucket
    <3> QED
      BY <2>3, <3>3, <3>4 DEF Available
  <2> QED
    BY <2>1, <2>2, <2>3
<1>10. Account' /\ Exact'
  BY <1>2, <1>9, AccountFrame
<1>11. Untouched
  BY <1>2, <1>9 DEF Untouched
<1>12. Quiet'
  <2>1. ASSUME NEW v \in Users, NEW s \in 0..now, lastUse'[v] + Stall < s
        PROVE  before[s][v] = admitted[v]
    <3>1. lastUse[v] <= lastUse'[v] /\ lastUse[v] \in Nat /\ lastUse'[v] \in Nat
      <4>1. lastUse[v] \in Nat /\ lastUse[v] <= now /\ now \in Nat
        BY PartTypes DEF UsedInTime
      <4> HIDE DEF IInv
      <4> QED
        BY <1>5, <4>1
    <3>2. lastUse[v] + Stall < s
      <4>1. s \in Nat
        BY PartTypes
      <4> HIDE DEF IInv
      <4> QED
        BY <2>1, <3>1, <4>1
    <3> QED
      BY <3>2 DEF Quiet
  <2> QED
    BY <1>2, <2>1 DEF Quiet
<1> QED
  BY <1>6, <1>7, <1>8, <1>10, <1>11, <1>12

(* Allow keeps it: an admission takes one token of the user's only bucket. *)
LEMMA AllowStep ==
  ASSUME IInv, NEW g \in Goroutines, Allow(g)
  PROVE  IInv' /\ (Untouched \/ \E u \in Users : Taken(u))
<1> USE LimiterAssumption DEF IInv
<1> DEFINE b == held[g].bucket  u == heap[b].user
<1>1. /\ held[g] # Null /\ held' = [held EXCEPT ![g] = Null]
      /\ UNCHANGED <<now, perUser, lastUse, before>>
      /\ \/ /\ Tokens(b) > 0
            /\ heap' = [heap EXCEPT ![b].tokens = Tokens(b) - 1, ![b].last = now]
            /\ admitted' = [admitted EXCEPT ![u] = @ + 1]
         \/ UNCHANGED <<heap, admitted>>
  BY DEF Allow
<1>2. /\ b \in DOMAIN heap /\ u \in Users /\ heap[b] \in Bucket /\ perUser[u] = b
      /\ Tokens(b) \in 0..Burst /\ b \in Nat
      /\ now <= lastUse[u] + Stall
  <2>1. /\ b \in DOMAIN heap /\ u \in Users /\ heap[b] \in Bucket /\ b \in Nat
        /\ perUser[u] = b /\ held[g].since \in Nat
    BY <1>1, PartTypes DEF HeldIsCurrent
  <2>2. now <= held[g].since + Stall /\ held[g].since <= lastUse[u]
    BY <1>1 DEF UsedInTime
  <2>3. now \in Nat /\ lastUse[u] \in Nat
    BY <2>1 DEF TypeOK
  <2>4. now <= lastUse[u] + Stall
    <3> HIDE DEF u, b
    <3> QED
      BY <2>1, <2>2, <2>3
  <2> QED
    BY <2>1, <2>4, TokensType
<1>3. /\ \A h \in Goroutines : held'[h] # Null => held'[h] = held[h]
      /\ held' \in [Goroutines -> Hold \cup {Null}]
  BY <1>1 DEF TypeOK
<1>4. CASE UNCHANGED <<heap, admitted>>
  <2>1. TypeOK'
    BY <1>1, <1>3, <1>4 DEF TypeOK
  <2>2. HeldIsCurrent' /\ UsedInTime' /\ Quiet'
    BY <1>1, <1>3, <1>4 DEF HeldIsCurrent, UsedInTime, Quiet
  <2>3. \A v \in Users : Available(v)' = Available(v)
    BY <1>1, <1>4 DEF Available, Tokens
  <2>4. Account' /\ Exact'
    BY <1>1, <1>4, <2>3, AccountFrame
  <2>5. Untouched
    BY <1>4, <2>3 DEF Untouched
  <2> QED
    BY <2>1, <2>2, <2>4, <2>5
<1>5. CASE /\ Tokens(b) > 0
           /\ heap' = [heap EXCEPT ![b].tokens = Tokens(b) - 1, ![b].last = now]
           /\ admitted' = [admitted EXCEPT ![u] = @ + 1]
  <2> DEFINE w == [heap[b] EXCEPT !.tokens = Tokens(b) - 1, !.last = now]
  <2>1. /\ w \in Bucket /\ heap' = [heap EXCEPT ![b] = w]
        /\ w.user = u /\ w.tokens = Tokens(b) - 1 /\ w.last = now
    <3>1. Tokens(b) - 1 \in 0..Burst /\ now \in 0..MaxTime
      BY <1>2, <1>5, PartTypes
    <3> QED
      BY <1>2, <1>5, <3>1 DEF Bucket
  <2> HIDE DEF w
  <2>2. /\ heap' \in Seq(Bucket) /\ DOMAIN heap' = DOMAIN heap /\ heap'[b] = w
        /\ \A c \in DOMAIN heap \ {b} : heap'[c] = heap[c]
        /\ \A c \in DOMAIN heap : heap'[c].user = heap[c].user
    BY <1>2, <2>1, SMTT(30) DEF TypeOK
  <2>3. /\ admitted'[u] = admitted[u] + 1 /\ admitted[u] \in Nat
        /\ \A v \in Users \ {u} : admitted'[v] = admitted[v]
        /\ admitted' \in [Users -> Nat]
    <3>1. admitted \in [Users -> Nat]
      BY DEF TypeOK
    <3> HIDE DEF u
    <3> QED
      BY <1>2, <1>5, <3>1
  <2>4. TypeOK'
    <3>1. ASSUME NEW c \in DOMAIN heap' PROVE heap'[c].last <= now
      <4>1. CASE c = b
        BY <2>1, <2>2, <4>1, PartTypes
      <4>2. CASE c # b
        BY <2>2, <4>2, PartTypes
      <4> QED
        BY <4>1, <4>2
    <3> QED
      BY <1>1, <1>3, <2>2, <2>3, <3>1 DEF TypeOK
  <2>5. HeldIsCurrent'
    BY <1>1, <1>3, <2>2, SMTT(30) DEF HeldIsCurrent, TypeOK
  <2>6. UsedInTime'
    <3>1. \A v \in Users \ {u} : perUser[v] # Null => perUser[v] # b
                                   /\ perUser[v] \in DOMAIN heap
      BY <1>2 DEF TypeOK
    <3>2. ASSUME NEW v \in Users, perUser[v] # Null
          PROVE  heap'[perUser[v]].last <= lastUse[v] + Stall
      <4>1. CASE v = u
        BY <1>2, <2>1, <2>2, <4>1
      <4>2. CASE v # u
        <5>1. heap'[perUser[v]] = heap[perUser[v]]
          BY <2>2, <3>1, <3>2, <4>2
        <5> QED
          BY <3>2, <5>1 DEF UsedInTime
      <4> QED
        BY <4>1, <4>2
    <3>3. ASSUME NEW h \in Goroutines, held'[h] # Null
          PROVE  /\ now <= held'[h].since + Stall
                 /\ held'[h].since <= lastUse[heap'[held'[h].bucket].user]
      <4>1. held'[h] = held[h]
        BY <1>1, <1>3, <3>3
      <4>2. held[h].bucket \in DOMAIN heap
        BY <3>3, <4>1 DEF TypeOK
      <4>3. heap'[held[h].bucket].user = heap[held[h].bucket].user
        BY <2>2, <4>2
      <4> QED
        BY <3>3, <4>1, <4>3 DEF UsedInTime
    <3>4. \A v \in Users : lastUse[v] <= now
      BY DEF UsedInTime
    <3> HIDE DEF IInv
    <3> QED
      BY <1>1, <3>2, <3>3, <3>4 DEF UsedInTime
  <2>7. ASSUME NEW v \in Users
        PROVE  admitted'[v] + Available(v)' = admitted[v] + Available(v)
    <3>1. CASE v = u
      <4>1. perUser[v] # Null /\ perUser'[v] # Null
        BY <1>1, <1>2, <3>1
      <4> DEFINE n == Tokens(perUser[v])
      <4>2. /\ heap'[perUser[v]].tokens = n - 1 /\ heap'[perUser[v]].last = now
            /\ n \in Nat /\ n <= Burst /\ n > 0 /\ now \in Nat
        <5>1. perUser[v] = b
          BY <1>2, <3>1
        <5>2. Tokens(b) \in 0..Burst /\ Burst \in Nat /\ now \in Nat
          BY <1>2, PartTypes
        <5> HIDE DEF IInv, b, u
        <5> QED
          BY <1>5, <2>1, <2>2, <5>1, <5>2
      <4>3. Available(v) = n
        BY <4>1 DEF Available
      <4> HIDE DEF n
      <4>4. Available(v)' = Tokens(perUser[v])'
        BY <1>1, <4>1 DEF Available
      <4>5. Tokens(perUser[v])' = n - 1
        BY <1>1, <4>2 DEF Tokens
      <4>6. v = u /\ n \in Nat
        BY <3>1, <4>2
      <4> HIDE DEF IInv, u
      <4> QED
        BY <2>3, <4>3, <4>4, <4>5, <4>6
    <3>2. CASE v # u
      <4>1. perUser[v] # Null => perUser[v] # b /\ perUser[v] \in DOMAIN heap
        BY <1>2, <3>2 DEF TypeOK
      <4>2. perUser[v] # Null => heap'[perUser[v]] = heap[perUser[v]]
        BY <2>2, <4>1
      <4>3. Available(v)' = Available(v)
        BY <1>1, <4>2 DEF Available, Tokens
      <4> QED
        BY <2>3, <3>2, <4>3
    <3> QED
      BY <3>1, <3>2
  <2>8. Account' /\ Exact'
    BY <1>1, <2>7, AccountFrame
  <2>9. Taken(u)
    <3>1. Available(u) = Tokens(b)
      BY <1>2, PartTypes DEF Available
    <3> HIDE DEF IInv
    <3> QED
      BY <1>5, <2>7, <3>1 DEF Taken
  <2>10. \E v \in Users : Taken(v)
    BY <1>2, <2>9
  <2>11. Quiet'
    <3>1. \A s \in 0..now : ~(lastUse[u] + Stall < s)
      <4>1. now \in Nat /\ lastUse[u] \in Nat
        BY <1>2, PartTypes
      <4> HIDE DEF IInv, u
      <4> QED
        BY <1>2, <4>1
    <3>2. \A v \in Users \ {u}, s \in 0..now :
             lastUse[v] + Stall < s => before[s][v] = admitted'[v]
      BY <2>3 DEF Quiet
    <3> HIDE DEF IInv, u
    <3> QED
      BY <1>1, <3>1, <3>2 DEF Quiet
  <2> QED
    BY <2>4, <2>5, <2>6, <2>8, <2>10, <2>11
<1> QED
  BY <1>1, <1>4, <1>5

(* Gc keeps it: what it drops was unused long enough to be full again, or  *)
(* else for longer than the intervals the account is about.                *)
LEMMA GcStep ==
  ASSUME IInv, Gc PROVE IInv' /\ (HourFillsBucket => Untouched)
<1> USE LimiterAssumption DEF IInv
<1>1. /\ perUser' = [u \in Users |-> IF Unused(u) THEN Null ELSE perUser[u]]
      /\ UNCHANGED <<now, heap, lastUse, held, admitted, before>>
  BY DEF Gc
<1>2. TypeOK'
  BY <1>1 DEF TypeOK
<1>3. UsedInTime' /\ Quiet'
  BY <1>1 DEF UsedInTime, Quiet
<1>4. HeldIsCurrent'
  <2>1. ASSUME NEW g \in Goroutines, held[g] # Null
        PROVE  ~Unused(heap[held[g].bucket].user)
    <3> DEFINE v == heap[held[g].bucket].user
    <3>1. v \in Users /\ held[g].since \in Nat
      BY <2>1, PartTypes
    <3>2. now <= held[g].since + Stall /\ held[g].since <= lastUse[v]
      BY <2>1 DEF UsedInTime
    <3>3. now \in Nat /\ lastUse[v] \in Nat
      BY <3>1 DEF TypeOK
    <3> HIDE DEF v
    <3>4. ~(lastUse[v] + Ttl < now)
      BY <3>1, <3>2, <3>3
    <3> QED
      BY <3>4 DEF Unused, v
  <2>2. \A g \in Goroutines : held[g] # Null => heap[held[g].bucket].user \in Users
    BY PartTypes
  <2> QED
    BY <1>1, <2>1, <2>2 DEF HeldIsCurrent
<1>5. ASSUME HourFillsBucket, NEW u \in Users PROVE Available(u)' = Available(u)
  <2>1. CASE perUser[u] # Null /\ Unused(u)
    <3> DEFINE x == heap[perUser[u]]
    <3>1. /\ perUser[u] \in DOMAIN heap /\ x.last <= lastUse[u] + Stall
          /\ lastUse[u] + Ttl < now
      BY <2>1 DEF TypeOK, UsedInTime, Unused
    <3>2. /\ now \in Nat /\ lastUse[u] \in Nat /\ x.last \in Nat
          /\ x.tokens \in Nat /\ x.last <= now
      BY <3>1, PartTypes
    <3> HIDE DEF x
    <3>3. x.tokens + (now - x.last) >= Burst
      BY <1>5, <3>1, <3>2 DEF HourFillsBucket
    <3>4. Tokens(perUser[u]) = Burst
      BY <3>2, <3>3 DEF Tokens, x
    <3> QED
      BY <1>1, <2>1, <3>4 DEF Available
  <2>2. CASE ~(perUser[u] # Null /\ Unused(u))
    BY <1>1, <2>2 DEF Available, Tokens
  <2> QED
    BY <2>1, <2>2
<1>6. HourFillsBucket => Untouched
  BY <1>1, <1>5 DEF Untouched
<1>7. ASSUME NEW u \in Users, Available(u)' # Available(u)
      PROVE  /\ Available(u)' = Burst
             /\ \A s \in 0..now : Short(s) \/ s = now => before[s][u] = admitted[u]
  <2>1. Unused(u) /\ Available(u)' = Burst
    BY <1>1, <1>7 DEF Available, Tokens
  <2>2. ASSUME NEW s \in 0..now, Short(s) \/ s = now PROVE lastUse[u] + Stall < s
    <3>1. now \in Nat /\ lastUse[u] \in Nat /\ s \in Nat
      BY PartTypes
    <3>2. lastUse[u] + Ttl < now
      BY <2>1 DEF Unused
    <3> HIDE DEF IInv
    <3> QED
      BY <2>2, <3>1, <3>2 DEF Short
  <2> QED
    BY <2>1, <2>2 DEF Quiet
<1>8. /\ \A u \in Users, s \in 0..now : before[s][u] \in Nat
      /\ \A u \in Users : admitted[u] \in Nat
      /\ now \in Nat
  BY PartTypes
<1>9. Account'
  <2>1. ASSUME NEW u \in Users, NEW s \in 0..now, HourFillsBucket \/ Short(s)
        PROVE  admitted[u] + Available(u)' <= before[s][u] + Burst + (now - s)
    <3>1. CASE Available(u)' = Available(u)
      BY <2>1, <3>1 DEF Account
    <3>2. CASE Available(u)' # Available(u)
      <4>1. ~HourFillsBucket
        BY <1>5, <3>2
      <4>2. Available(u)' = Burst /\ before[s][u] = admitted[u]
        BY <1>7, <2>1, <3>2, <4>1
      <4> HIDE DEF IInv
      <4> QED
        BY <1>8, <4>2
    <3> QED
      BY <3>1, <3>2
  <2> QED
    BY <1>1, <2>1 DEF Account, Short
<1>10. Exact'
  <2>1. ASSUME NEW u \in Users
        PROVE  \E s \in 0..now :
                  admitted[u] + Available(u)' = before[s][u] + Burst + (now - s)
    <3>1. CASE Available(u)' = Available(u)
      BY <3>1 DEF Exact
    <3>2. CASE Available(u)' # Available(u)
      <4>1. now \in 0..now
        BY <1>8
      <4>2. Available(u)' = Burst /\ before[now][u] = admitted[u]
        BY <1>7, <3>2, <4>1
      <4> HIDE DEF IInv
      <4>3. admitted[u] + Available(u)' = before[now][u] + Burst + (now - now)
        BY <1>8, <4>2
      <4> QED
        BY <4>1, <4>3
    <3> QED
      BY <3>1, <3>2
  <2> QED
    BY <1>1, <2>1 DEF Exact
<1> QED
  BY <1>2, <1>3, <1>4, <1>6, <1>9, <1>10

(* One more tick, counted into the tokens of a bucket.                     *)
LEMMA OneMoreTick ==
  ASSUME NEW t \in Nat, NEW n \in Nat, NEW l \in Nat, l <= n
  PROVE  t + (n - l) \in Nat /\ t + (n + 1 - l) = t + (n - l) + 1
  OBVIOUS

(* Tick keeps it: a tick adds at most one token and one unit of budget.    *)
LEMMA TickStep ==
  ASSUME IInv, Tick PROVE IInv' /\ Refilled
<1> USE LimiterAssumption DEF IInv
<1>1. /\ now < MaxTime /\ now' = now + 1
      /\ \A g \in Goroutines : held[g] # Null => now < held[g].since + Stall
      /\ before' = [before EXCEPT ![now'] = admitted]
      /\ UNCHANGED <<heap, perUser, lastUse, held, admitted>>
  BY DEF Tick
<1>2. /\ now \in Nat /\ now' \in 0..MaxTime /\ before' \in [0..MaxTime -> [Users -> Nat]]
      /\ before'[now + 1] = admitted /\ \A s \in 0..now : before'[s] = before[s]
  BY <1>1 DEF TypeOK
<1>0. /\ now' = now + 1 /\ heap' = heap /\ perUser' = perUser
      /\ admitted' = admitted /\ now \in Nat
  BY <1>1, <1>2
<1>3. /\ \A u \in Users : admitted[u] \in Nat /\ lastUse[u] \in Nat
      /\ \A u \in Users, s \in 0..now : before[s][u] \in Nat
  BY PartTypes
<1>4. TypeOK'
  <2>1. \A b \in DOMAIN heap : heap[b].last <= now + 1
    BY PartTypes
  <2> QED
    BY <1>1, <1>2, <2>1 DEF TypeOK
<1>5. HeldIsCurrent'
  BY <1>1 DEF HeldIsCurrent
<1>6. UsedInTime'
  <2>1. \A u \in Users : lastUse[u] <= now + 1
    BY <1>2, <1>3 DEF UsedInTime
  <2>2. \A g \in Goroutines : held[g] # Null => now + 1 <= held[g].since + Stall
    BY <1>1, PartTypes
  <2> QED
    BY <1>1, <2>1, <2>2 DEF UsedInTime
<1>7. ASSUME NEW u \in Users
      PROVE  /\ Available(u) \in Nat /\ Available(u)' \in Nat
             /\ Available(u)' <= Burst
             /\ \/ Available(u)' = Available(u) + 1
                \/ Available(u)' = Burst /\ Available(u) = Burst
  <2>1. CASE perUser[u] = Null
    BY <1>1, <2>1 DEF Available
  <2>2. CASE perUser[u] # Null
    <3> DEFINE x == heap[perUser[u]]
    <3>1. /\ x.tokens \in Nat /\ x.tokens <= Burst
          /\ x.last \in Nat /\ x.last <= now
      BY <2>2, PartTypes DEF TypeOK
    <3>2. Available(u) = Tokens(perUser[u]) /\ Available(u)' = Tokens(perUser[u])'
      BY <1>1, <2>2 DEF Available
    <3> DEFINE n == x.tokens + (now - x.last)
               n1 == x.tokens + (now + 1 - x.last)
    <3>3. Tokens(perUser[u]) = IF n > Burst THEN Burst ELSE n
      BY DEF Tokens
    <3>4. Tokens(perUser[u])' = IF n1 > Burst THEN Burst ELSE n1
      <4>1. /\ heap'[perUser'[u]].tokens = x.tokens
            /\ heap'[perUser'[u]].last = x.last
            /\ now' - x.last = now + 1 - x.last
        <5>1. heap'[perUser'[u]] = x
          BY <1>0
        <5> HIDE DEF x
        <5>2. now' - x.last = now + 1 - x.last
          BY <1>0, <3>1
        <5> QED
          BY <5>1, <5>2
      <4> HIDE DEF x
      <4>2. x.tokens + (now' - x.last) = n1
        BY <4>1
      <4> HIDE DEF n, n1
      <4> QED
        BY <4>1, <4>2 DEF Tokens
    <3>5. n \in Nat /\ n1 = n + 1
      <4>1. now \in Nat
        BY <1>0
      <4> HIDE DEF x
      <4> QED
        BY <4>1, <3>1, OneMoreTick, SMTT(30)
    <3> HIDE DEF n, n1
    <3> QED
      BY <3>2, <3>3, <3>4, <3>5
  <2> QED
    BY <2>1, <2>2
<1>8. Account'
  <2>1. ASSUME NEW u \in Users, NEW s \in 0..(now + 1),
               HourFillsBucket \/ now + 1 + Stall <= s + Ttl
        PROVE  admitted[u] + Available(u)' <= before'[s][u] + Burst + (now + 1 - s)
    <3>1. CASE s = now + 1
      BY <1>2, <1>3, <1>7, <3>1
    <3>2. CASE s \in 0..now
      <4>1. admitted[u] + Available(u) <= before[s][u] + Burst + (now - s)
        <5>1. HourFillsBucket \/ Short(s)
          BY <1>2, <2>1, <3>2 DEF Short
        <5> QED
          BY <3>2, <5>1 DEF Account
      <4>2. before'[s][u] = before[s][u] /\ before[s][u] \in Nat
        BY <1>2, <1>3, <3>2
      <4>3. Available(u)' <= Available(u) + 1
        BY <1>7
      <4>4. s \in Nat /\ s <= now
        BY <1>2, <3>2
      <4> DEFINE a == admitted[u]  p == Available(u)  q == Available(u)'
                 n == before[s][u]
      <4>5. /\ a \in Nat /\ p \in Nat /\ q \in Nat /\ n \in Nat /\ q <= p + 1
            /\ a + p <= n + Burst + (now - s)
        BY <1>3, <1>7, <4>1, <4>2, <4>3
      <4> HIDE DEF a, p, q, n
      <4> HIDE DEF IInv
      <4>6. a + q <= n + Burst + (now + 1 - s)
        BY <1>2, <4>4, <4>5, LimiterAssumption, SMTT(30)
      <4> QED
        BY <4>2, <4>6, SMTT(30) DEF a, q, n
    <3> QED
      BY <1>2, <3>1, <3>2
  <2> QED
    <3>1. /\ \A u \in Users, s \in 0..now' :
                HourFillsBucket \/ now' + Stall <= s + Ttl =>
                  admitted[u] + Available(u)' <= before'[s][u] + Burst + (now' - s)
          /\ admitted' = admitted
      BY <1>0, <2>1
    <3> QED
      BY <3>1 DEF Account, Short
<1>9. Exact'
  <2>1. ASSUME NEW u \in Users
        PROVE  \E s \in 0..(now + 1) :
                  admitted[u] + Available(u)' = before'[s][u] + Burst + (now + 1 - s)
    <3>1. CASE Available(u)' = Burst
      <4>1. admitted[u] + Available(u)'
              = before'[now + 1][u] + Burst + (now + 1 - (now + 1))
        BY <1>2, <1>3, <3>1
      <4> QED
        BY <1>2, <4>1
    <3>2. CASE Available(u)' = Available(u) + 1
      <4>1. PICK s \in 0..now :
              admitted[u] + Available(u) = before[s][u] + Burst + (now - s)
        BY DEF Exact
      <4>2. before'[s][u] = before[s][u] /\ before[s][u] \in Nat
            /\ s \in Nat /\ s <= now
        BY <1>2, <1>3
      <4> DEFINE a == admitted[u]  p == Available(u)  q == Available(u)'
                 n == before[s][u]
      <4>3. /\ a \in Nat /\ p \in Nat /\ q = p + 1 /\ n \in Nat /\ q \in Nat
            /\ a + p = n + Burst + (now - s)
        BY <1>3, <1>7, <3>2, <4>1, <4>2
      <4> HIDE DEF a, p, q, n
      <4>4. a + q = n + Burst + (now + 1 - s)
        BY <1>0, <4>2, <4>3
      <4>5. admitted[u] + Available(u)' = before'[s][u] + Burst + (now + 1 - s)
        BY <4>2, <4>4 DEF a, q, n
      <4>6. s \in 0..(now + 1)
        BY <1>2, <4>2
      <4> QED
        BY <4>5, <4>6
    <3> QED
      BY <1>7, <3>1, <3>2
  <2> QED
    <3>1. /\ \A u \in Users : \E s \in 0..now' :
                admitted[u] + Available(u)' = before'[s][u] + Burst + (now' - s)
          /\ admitted' = admitted
      BY <1>0, <2>1
    <3> QED
      BY <3>1 DEF Exact
<1>10. Refilled
  <2>1. ASSUME NEW u \in Users
        PROVE  Available(u)' = IF Available(u) < Burst THEN Available(u) + 1 ELSE Burst
    BY <1>7
  <2> QED
    BY <1>1, <2>1 DEF Refilled
<1>11. Quiet'
  <2>1. ASSUME NEW u \in Users, NEW s \in 0..(now + 1), lastUse[u] + Stall < s
        PROVE  before'[s][u] = admitted[u]
    <3>1. CASE s = now + 1
      BY <1>2, <3>1
    <3>2. CASE s # now + 1
      <4>1. s \in 0..now
        BY <1>2, <3>2
      <4> QED
        BY <1>2, <2>1, <4>1 DEF Quiet
    <3> QED
      BY <3>1, <3>2
  <2> QED
    BY <1>0, <1>1, <2>1 DEF Quiet
<1> QED
  BY <1>4, <1>5, <1>6, <1>8, <1>9, <1>10, <1>11

(* A restart is a new beginning.                                           *)
LEMMA RestartStep ==
  ASSUME Restart PROVE IInv' /\ Ideal!Restart
<1>1. Init'
  BY DEF Restart, Init
<1>2. Init' => IInv'
  BY InitIInv, PTL
<1>3. \A u \in Users : Available(u)' = Burst
  BY DEF Restart, Available
<1> QED
  BY <1>1, <1>2, <1>3 DEF Restart, Ideal!Restart

(* The invariant is inductive.                                             *)
LEMMA NextIInv == IInv /\ [Next]_vars => IInv'
<1> SUFFICES ASSUME IInv, [Next]_vars PROVE IInv'
  OBVIOUS
<1>1. ASSUME UNCHANGED vars PROVE IInv'
  <2>1. \A u \in Users : Available(u)' = Available(u)
    BY <1>1 DEF vars, Available, Tokens
  <2>2. Account' /\ Exact'
    BY <1>1, <2>1, AccountFrame DEF vars, IInv
  <2> QED
    BY <1>1, <2>2 DEF vars, IInv, TypeOK, HeldIsCurrent, UsedInTime, Quiet
<1> QED
  BY <1>1, GetStep, AllowStep, GcStep, TickStep, RestartStep DEF Next

(* It holds in every reachable state.                                      *)
LEMMA Invariance == Spec => []IInv
<1> QED
  BY InitIInv, NextIInv, PTL DEF Spec

(* Every variable of the limiter keeps its type.                           *)
THEOREM LimiterTypes == Spec => []TypeOK
<1>1. IInv => TypeOK
  BY DEF IInv
<1> QED
  BY <1>1, Invariance, PTL

(* No request ever asks a bucket that gc dropped from the map.             *)
THEOREM HeldBucketIsCurrent == Spec => []HeldIsCurrent
<1>1. IInv => HeldIsCurrent
  BY DEF IInv
<1> QED
  BY <1>1, Invariance, PTL

(* In every interval a user is admitted at most Burst times and once for   *)
(* each tick, although gc drops buckets and later requests get full ones;  *)
(* and if an hour does not fill a bucket, in every interval of an hour.    *)
THEOREM BudgetHolds == Spec => []WithinBudget
<1>1. IInv => WithinBudget
  <2> SUFFICES ASSUME IInv, NEW u \in Users, NEW s \in 0..now,
                      HourFillsBucket \/ now + Stall <= s + Ttl
               PROVE  admitted[u] <= before[s][u] + Burst + (now - s)
    BY DEF WithinBudget
  <2>1. admitted[u] + Available(u) <= before[s][u] + Burst + (now - s)
    BY DEF IInv, Account, Short
  <2>2. Available(u) \in 0..Burst /\ admitted[u] \in Nat
    BY AvailableType DEF IInv, TypeOK
  <2>3. before[s][u] + Burst + (now - s) \in Int
    <3>1. before[s][u] \in Nat /\ now \in Nat /\ s \in Nat
      BY PartTypes DEF IInv
    <3> QED
      BY <3>1, LimiterAssumption
  <2> QED
    BY <2>1, <2>2, <2>3, LimiterAssumption
<1> QED
  BY <1>1, Invariance, PTL

(* A user is refused only when the budget of some interval is used up.     *)
THEOREM RefusalsAreDeserved == Spec => []RefusedOnlyOverBudget
<1>1. IInv => RefusedOnlyOverBudget
  <2> SUFFICES ASSUME IInv, NEW u \in Users, Available(u) = 0
               PROVE  \E s \in 0..now :
                        admitted[u] = before[s][u] + Burst + (now - s)
    BY DEF RefusedOnlyOverBudget
  <2>1. admitted[u] \in Nat
    BY DEF IInv, TypeOK
  <2> QED
    BY <2>1 DEF IInv, Exact
<1> QED
  BY <1>1, Invariance, PTL

-------------------------------------------------------------------------------
(* The limiter implements TokenBucket.                                     *)

LEMMA AvailableHere == TypeOK => \A u \in Users : Available(u) \in 0..Burst
  BY AvailableType

LEMMA AvailableNext == TypeOK' => \A u \in Users : Available(u)' \in 0..Burst
<1>1. TypeOK' => (\A u \in Users : Available(u) \in 0..Burst)'
  BY AvailableHere, PTL
<1> QED
  BY <1>1

LEMMA TakenStep ==
  ASSUME IInv, IInv', NEW u \in Users, Taken(u) PROVE Ideal!Admit(u)
<1>1. \A v \in Users : Available(v) \in Nat
  <2>1. \A v \in Users : Available(v) \in 0..Burst
    BY AvailableType DEF IInv
  <2> QED
    BY <2>1, LimiterAssumption
<1>2. admitted \in [Users -> Nat]
  BY DEF IInv, TypeOK
<1>3. ASSUME NEW v \in Users
      PROVE  Available(v)' = IF v = u THEN Available(v) - 1 ELSE Available(v)
  <2> DEFINE a == admitted[v]  p == Available(v)  q == Available(v)'
  <2>1. a \in Nat /\ p \in Nat
    BY <1>1, <1>2
  <2>2. admitted'[v] = IF v = u THEN a + 1 ELSE a
    BY <1>2 DEF Taken
  <2>3. admitted'[v] + q = a + p
    BY DEF Taken
  <2>4. q \in Nat
    BY AvailableNext, LimiterAssumption DEF IInv
  <2> HIDE DEF a, p, q
  <2>5. q = IF v = u THEN p - 1 ELSE p
    BY <2>1, <2>2, <2>3, <2>4
  <2> QED
    BY <2>5 DEF p, q
<1> DEFINE after == [v \in Users |-> Available(v)]'
<1>4. after = [v \in Users |-> IF v = u THEN Available(v) - 1 ELSE Available(v)]
  BY <1>3
<1>5. after = [[v \in Users |-> Available(v)] EXCEPT ![u] = @ - 1]
  BY <1>4
<1> QED
  BY <1>5 DEF Taken, Ideal!Admit

LEMMA RefilledStep ==
  ASSUME Refilled PROVE Ideal!Refill
<1>1. [u \in Users |-> Available(u)]' =
        [u \in Users |-> IF Available(u) < Burst THEN Available(u) + 1 ELSE Burst]
  BY DEF Refilled
<1>2. \A u \in Users : [v \in Users |-> Available(v)][u] = Available(u)
  OBVIOUS
<1> QED
  BY <1>1, <1>2 DEF Refilled, Ideal!Refill

(* Every step of the limiter is one of the bucket's, or leaves it alone.   *)
LEMMA StepIsIdeal ==
  ASSUME HourFillsBucket, IInv, IInv', [Next]_vars
  PROVE  [Ideal!Next]_<<[u \in Users |-> Available(u)], admitted>>
<1>1. ASSUME Untouched
      PROVE  UNCHANGED <<[u \in Users |-> Available(u)], admitted>>
  BY <1>1 DEF Untouched
<1>2. CASE UNCHANGED vars
  <2>1. Untouched
    BY <1>2 DEF vars, Untouched, Available, Tokens
  <2> QED
    BY <1>1, <2>1
<1>3. ASSUME NEW g \in Goroutines, Get(g) PROVE Untouched
  BY <1>3, GetStep
<1>4. ASSUME NEW g \in Goroutines, Allow(g)
      PROVE  Untouched \/ \E u \in Users : Ideal!Admit(u)
  BY <1>4, AllowStep, TakenStep
<1>5. ASSUME Gc PROVE Untouched
  BY <1>5, GcStep
<1>6. ASSUME Tick PROVE Ideal!Refill
  BY <1>6, TickStep, RefilledStep
<1>7. ASSUME Restart PROVE Ideal!Restart
  BY <1>7, RestartStep
<1> QED
  BY <1>1, <1>2, <1>3, <1>4, <1>5, <1>6, <1>7 DEF Next, Ideal!Next

(* The limiter, with its map, its gc and its two-step middleware, gives    *)
(* each user the one bucket of TokenBucket if an hour fills a bucket.      *)
THEOREM ImplementsBucket ==
  ASSUME HourFillsBucket
  PROVE  Spec => LimiterImplementsBucket
<1>1. Init => Ideal!Init
  <2> SUFFICES ASSUME Init PROVE Ideal!Init
    OBVIOUS
  <2>1. \A u \in Users : Available(u) = Burst
    BY DEF Init, Available
  <2> QED
    BY <2>1 DEF Init, Ideal!Init
<1>2. IInv /\ IInv' /\ [Next]_vars =>
        [Ideal!Next]_<<[u \in Users |-> Available(u)], admitted>>
  BY StepIsIdeal
<1> QED
  BY <1>1, <1>2, Invariance, PTL DEF Spec, LimiterImplementsBucket, Ideal!Spec
===============================================================================
