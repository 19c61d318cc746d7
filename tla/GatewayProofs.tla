--------------------------- MODULE GatewayProofs ---------------------------
(***************************************************************************)
(* Proofs about the OAuth gateway's two guards, the per-email rate limit   *)
(* and the cache of validated tokens.                                      *)
(*                                                                         *)
(* perEmailLimiter implements one everlasting token bucket per email, for  *)
(* every rate, burst, idle time and number of emails and requests such     *)
(* that a bucket refills within the idle time.  For all others, what the   *)
(* evictions give away is bounded.                                         *)
(*                                                                         *)
(* The step that needs an argument is the sweep.  It looks at lastSeen,    *)
(* the time of the last lookup, but what an entry holds depends on when    *)
(* its limiter was last drawn on, up to MaxDelay later.  LimiterInv bounds *)
(* the one by the other, so an evicted entry has had Idle - MaxDelay to    *)
(* refill and was as full as the one that will replace it.                 *)
(*                                                                         *)
(* googleValidator, further down, lets a token through only while it may,  *)
(* for every TTL, timeout, expiry and number of concurrent requests.       *)
(***************************************************************************)
EXTENDS RateLimiter, GatewayValidator, TLAPS

\* A limiter was last drawn on by a request that had looked it up.
BucketsOK ==
    \A e \in Emails : buckets[e] # None =>
        /\ buckets[e].last <= now
        /\ buckets[e].lastSeen <= now
        /\ buckets[e].last <= buckets[e].lastSeen + MaxDelay

\* A request in `allow' keeps the entry it looked up from looking idle.
RequestsOK ==
    \A r \in Requests : mail[r] # None =>
        /\ buckets[mail[r]] # None
        /\ found[r] <= buckets[mail[r]].lastSeen
        /\ found[r] <= now /\ now <= found[r] + MaxDelay

LimiterInv == TypeOK /\ BucketsOK /\ RequestsOK

\* What a limiter would have if it filled at the rate Gain.
Quick(b) == Capped(b.tokens + Gain * (now - b.last))
QuickLevel(e) == IF buckets[e] = None THEN Burst ELSE Quick(buckets[e])

\* The window's account: what was admitted and what is left never exceed a full
\* bucket and what accrues at that rate.
Account ==
    \A e \in Emails : IF from <= now
                      THEN used[e] + QuickLevel(e) <= Burst + Gain * (now - from)
                      ELSE used[e] = 0

-----------------------------------------------------------------------------
\* Multiplication, as far as it is needed.
LEMMA Multiplication ==
    /\ \A a, b \in Nat : a * b \in Nat
    /\ \A a, b \in Nat : a * (b + 1) = a * b + a
    /\ \A a, b, c \in Nat : b <= c => a * b <= a * c
  OBVIOUS

\* A limiter never has more than a burst, nor less than what it held.
LEMMA AccruedType ==
    ASSUME now \in Nat, NEW b \in Bucket, b.last <= now
    PROVE  Accrued(b) \in 0 .. Burst
  <1>1. now - b.last \in Nat /\ b.tokens \in Nat
    BY BurstAssumption DEF Bucket
  <1>2. Rate * (now - b.last) \in Nat
    BY <1>1, RateAssumption, Multiplication
  <1> QED
    BY <1>1, <1>2, BurstAssumption DEF Accrued, Capped

\* An entry that the sweep takes has had Idle - MaxDelay to refill.
LEMMA StaleIsOld ==
    ASSUME now \in Nat, NEW b \in Bucket, b.last <= now,
           b.last <= b.lastSeen + MaxDelay, NEW t \in Nat, t <= now, Stale(b, t),
           NEW rate \in Nat, Burst <= rate * (Idle - MaxDelay)
    PROVE  Capped(b.tokens + rate * (now - b.last)) = Burst
  <1>1. /\ now - b.last \in Nat /\ b.tokens \in Nat
        /\ Idle - MaxDelay \in Nat /\ Idle - MaxDelay <= now - b.last
    BY DelayAssumption, BurstAssumption DEF Bucket, Stale
  <1>2. rate * (Idle - MaxDelay) <= rate * (now - b.last) /\ rate * (now - b.last) \in Nat
    BY <1>1, Multiplication
  <1>3. rate * (Idle - MaxDelay) \in Nat
    BY <1>1, Multiplication
  <1> QED
    BY <1>1, <1>2, <1>3, BurstAssumption DEF Capped

\* So it is full if a bucket is Refilled in that time.
LEMMA StaleIsFull ==
    ASSUME Refilled, now \in Nat, NEW b \in Bucket, b.last <= now,
           b.last <= b.lastSeen + MaxDelay, NEW t \in Nat, t <= now, Stale(b, t)
    PROVE  Accrued(b) = Burst
  BY StaleIsOld, RateAssumption DEF Accrued, Refilled

-----------------------------------------------------------------------------
\* A gateway that has just started satisfies the invariant.
LEMMA InitLimiterInv == Init => LimiterInv
  BY MaxTimeAssumption DEF Init, LimiterInv, TypeOK, BucketsOK, RequestsOK

\* Lookups, draws, sweeps and the passing of time keep the invariant.
LEMMA NextLimiterInv == LimiterInv /\ [Next]_vars => LimiterInv'
  <1> SUFFICES ASSUME LimiterInv, [Next]_vars PROVE LimiterInv'
    OBVIOUS
  <1> USE DelayAssumption, BurstAssumption, NoneAssumption
  <1> USE DEF LimiterInv
  <1>1. ASSUME NEW r \in Requests, NEW e \in Emails, Lookup(r, e) PROVE LimiterInv'
    <2>1. NewLimiter \in Bucket /\ (buckets[e] # None => Seen(buckets[e]) \in Bucket)
      BY DEF NewLimiter, Seen, Bucket, TypeOK
    <2>2. TypeOK'
      BY <1>1, <2>1 DEF Lookup, TypeOK
    <2>3. /\ buckets'[e] = IF buckets[e] = None THEN NewLimiter ELSE Seen(buckets[e])
          /\ \A d \in Emails : d # e => buckets'[d] = buckets[d]
      BY <1>1 DEF Lookup, TypeOK
    <2>4. BucketsOK'
      BY <1>1, <2>3 DEF Lookup, TypeOK, BucketsOK, NewLimiter, Seen, Bucket
    <2>5. buckets'[e] # None /\ buckets'[e].lastSeen = now
      BY <2>1, <2>3 DEF NewLimiter, Seen
    <2>6. RequestsOK'
      BY <1>1, <2>3, <2>5 DEF Lookup, TypeOK, BucketsOK, RequestsOK
    <2> QED
      BY <2>2, <2>4, <2>6
  <1>2. ASSUME NEW r \in Requests, Allow(r) PROVE LimiterInv'
    <2> DEFINE e == mail[r]
    <2>0. e \in Emails /\ buckets[e] \in Bucket
      BY <1>2 DEF Allow, TypeOK
    <2>1. Accrued(buckets[e]) \in 0 .. Burst /\ Cost <= Accrued(buckets[e])
      BY <1>2, <2>0, AccruedType DEF Allow, Covers, TypeOK, BucketsOK
    <2>2. [tokens |-> Accrued(buckets[e]) - Cost, last |-> now,
           lastSeen |-> buckets[e].lastSeen] \in Bucket
      BY <2>0, <2>1, CostAssumption DEF Bucket, TypeOK
    <2>3. /\ buckets'[e] = [tokens |-> Accrued(buckets[e]) - Cost, last |-> now,
                            lastSeen |-> buckets[e].lastSeen]
          /\ \A d \in Emails : d # e => buckets'[d] = buckets[d]
      BY <1>2, <2>0 DEF Allow, TypeOK
    <2>4. TypeOK'
      BY <1>2, <2>0, <2>2, CostAssumption DEF Allow, Leave, TypeOK
    <2>5. BucketsOK'
      BY <1>2, <2>0, <2>3 DEF Allow, Leave, TypeOK, BucketsOK, RequestsOK, Bucket
    <2>6. buckets'[e] # None /\ buckets'[e].lastSeen = buckets[e].lastSeen
      BY <2>2, <2>3
    <2>7. RequestsOK'
      BY <1>2, <2>0, <2>3, <2>6 DEF Allow, Leave, TypeOK, RequestsOK
    <2> QED
      BY <2>4, <2>5, <2>7
  <1>3. ASSUME NEW r \in Requests, TooMany(r) PROVE LimiterInv'
    BY <1>3 DEF TooMany, Leave, TypeOK, BucketsOK, RequestsOK
  <1>4. ASSUME NEW t \in 0 .. MaxTime, Sweep(t) PROVE LimiterInv'
    <2>1. TypeOK' /\ BucketsOK'
      BY <1>4 DEF Sweep, TypeOK, BucketsOK
    <2>2. ASSUME NEW r \in Requests, mail[r] # None PROVE ~Stale(buckets[mail[r]], t)
      BY <1>4, <2>2 DEF Sweep, Stale, TypeOK, RequestsOK, Bucket
    <2>3. RequestsOK'
      BY <1>4, <2>2 DEF Sweep, TypeOK, RequestsOK
    <2> QED
      BY <2>1, <2>3
  <1>5. CASE Tick
    BY <1>5 DEF Tick, TypeOK, BucketsOK, RequestsOK, Bucket
  <1>6. CASE UNCHANGED vars
    BY <1>6 DEF vars, TypeOK, BucketsOK, RequestsOK
  <1> QED
    BY <1>1, <1>2, <1>3, <1>4, <1>5, <1>6 DEF Next

\* The invariant holds in every reachable state.
LEMMA LimiterInvariant == Spec => []LimiterInv
  BY InitLimiterInv, NextLimiterInv, PTL DEF Spec

\* Every limiter holds between nothing and a burst, through lookups, draws and
\* sweeps, and a request has an email until it leaves (allow, sweep).
THEOREM LimiterTyped == Spec => []TypeOK
  <1>1. LimiterInv => TypeOK
    BY DEF LimiterInv
  <1> QED
    BY <1>1, LimiterInvariant, PTL

\* "Each authenticated email gets its own bucket": a request draws on the entry
\* that is in the map, whatever the sweep does between its lookup and its draw.
THEOREM EntryStays == Spec => []EntryHeld
  <1>1. LimiterInv => EntryHeld
    BY DEF LimiterInv, RequestsOK, EntryHeld
  <1> QED
    BY <1>1, LimiterInvariant, PTL

-----------------------------------------------------------------------------
\* An email's bucket in effect holds between nothing and a burst.
LEMMA LevelType ==
    ASSUME LimiterInv
    PROVE  Level \in [Emails -> 0 .. Burst]
  BY AccruedType, BurstAssumption DEF Level, LimiterInv, TypeOK, BucketsOK

\* A tick of the clock fills every limiter by Rate, up to the burst.
LEMMA TickAccrues ==
    ASSUME now \in Nat, now' = now + 1, NEW b \in Bucket, b.last <= now
    PROVE  Capped(b.tokens + Rate * (now' - b.last)) = Capped(Accrued(b) + Rate)
  <1>1. now - b.last \in Nat /\ b.tokens \in Nat /\ now' - b.last = (now - b.last) + 1
    BY BurstAssumption DEF Bucket
  <1>2. Rate * (now' - b.last) = Rate * (now - b.last) + Rate /\ Rate * (now - b.last) \in Nat
    BY <1>1, RateAssumption, Multiplication
  <1> QED
    BY <1>1, <1>2, RateAssumption, BurstAssumption DEF Accrued, Capped

\* Every step of the limiter is a step of the buckets, or changes none of them.
LEMMA StepMaps ==
    ASSUME Refilled
    PROVE  LimiterInv /\ [Next]_vars => [TB!Next]_(TB!vars)
  <1> SUFFICES ASSUME LimiterInv, [Next]_vars PROVE [TB!Next]_(TB!vars)
    OBVIOUS
  <1> USE DEF LimiterInv
  <1>0. Level \in [Emails -> 0 .. Burst]
    BY LevelType
  <1>1. ASSUME NEW r \in Requests, NEW e \in Emails, Lookup(r, e) PROVE UNCHANGED TB!vars
    <2>1. now' = now /\ from' = from /\ used' = used
      BY <1>1 DEF Lookup
    <2>2. ASSUME NEW d \in Emails PROVE Level'[d] = Level[d]
      <3>1. CASE d # e
        BY <1>1, <2>1, <3>1 DEF Lookup, Level, Accrued, TypeOK
      <3>2. CASE d = e /\ buckets[e] = None
        <4>1. buckets'[e] = NewLimiter /\ NewLimiter \in Bucket
          BY <1>1, <3>2, BurstAssumption DEF Lookup, NewLimiter, Bucket, TypeOK
        <4>2. Rate * (now - now) = 0
          BY RateAssumption DEF TypeOK
        <4>3. Capped(Burst + Rate * (now - now)) = Burst
          BY <4>2, BurstAssumption DEF Capped
        <4>4. buckets'[e].tokens = Burst /\ buckets'[e].last = now
          BY <4>1 DEF NewLimiter
        <4> QED
          BY <2>1, <3>2, <4>1, <4>3, <4>4, NoneAssumption DEF Level, Accrued
      <3>3. CASE d = e /\ buckets[e] # None
        <4>1. buckets'[e] = Seen(buckets[e]) /\ Seen(buckets[e]) \in Bucket
          BY <1>1, <3>3 DEF Lookup, Seen, Bucket, TypeOK
        <4>2. buckets'[e].tokens = buckets[e].tokens /\ buckets'[e].last = buckets[e].last
          BY <4>1 DEF Seen
        <4> QED
          BY <2>1, <3>3, <4>1, <4>2, NoneAssumption DEF Level, Accrued
      <3> QED
        BY <3>1, <3>2, <3>3
    <2>3. Level' = Level
      BY <2>2 DEF Level
    <2> QED
      BY <2>1, <2>3 DEF TB!vars
  <1>2. ASSUME NEW r \in Requests, Allow(r) PROVE TB!Next
    <2> DEFINE e == mail[r]
               b == buckets[e]
               c == [tokens |-> Accrued(b) - Cost, last |-> now, lastSeen |-> b.lastSeen]
    <2>0. e \in Emails /\ b \in Bucket /\ b # None /\ b.last <= now
      BY <1>2 DEF Allow, TypeOK, BucketsOK
    <2>1. Accrued(b) \in 0 .. Burst /\ Cost <= Accrued(b)
      BY <1>2, <2>0, AccruedType DEF Allow, Covers, TypeOK
    <2>2. c \in Bucket /\ buckets' = [buckets EXCEPT ![e] = c]
      BY <1>2, <2>0, <2>1, CostAssumption, BurstAssumption DEF Allow, Bucket, TypeOK
    <2>3. now' = now /\ from' = from
      BY <1>2 DEF Allow, Leave
    <2>4. Level[e] = Accrued(b)
      BY <2>0 DEF Level
    <2>5. Level'[e] = Accrued(b) - Cost
      <3>1. buckets'[e] = c
        BY <2>0, <2>2 DEF TypeOK
      <3>2. Rate * (now - now) = 0
        BY RateAssumption DEF TypeOK
      <3>3. Capped((Accrued(b) - Cost) + Rate * (now - now)) = Accrued(b) - Cost
        BY <2>1, <3>2, CostAssumption, BurstAssumption DEF Capped
      <3>4. buckets'[e] # None /\ buckets'[e].tokens = Accrued(b) - Cost /\ buckets'[e].last = now
        BY <2>2, <3>1, NoneAssumption
      <3>5. Level'[e] = Capped((Accrued(b) - Cost) + Rate * (now - now))
        <4> HIDE DEF b, c
        <4> QED
          BY <2>0, <2>3, <3>4 DEF Level, Accrued
      <3> QED
        BY <3>3, <3>5
    <2>6. ASSUME NEW d \in Emails, d # e PROVE Level'[d] = Level[d]
      <3>1. buckets'[d] = buckets[d]
        BY <2>0, <2>2, <2>6 DEF TypeOK
      <3> QED
        BY <2>3, <3>1 DEF Level, Accrued
    <2>7. Level' = [Level EXCEPT ![e] = @ - Cost]
      BY <1>0, <2>0, <2>4, <2>5, <2>6 DEF Level
    <2>8. TB!Admit(e)
      BY <1>2, <2>1, <2>3, <2>4, <2>7 DEF TB!Admit, Allow
    <2> QED
      BY <2>0, <2>8 DEF TB!Next
  <1>3. ASSUME NEW r \in Requests, TooMany(r) PROVE UNCHANGED TB!vars
    BY <1>3 DEF TooMany, Leave, TB!vars, Level, Accrued
  <1>4. ASSUME NEW t \in 0 .. MaxTime, Sweep(t) PROVE UNCHANGED TB!vars
    <2>1. now' = now /\ from' = from /\ used' = used
      BY <1>4 DEF Sweep
    <2>2. ASSUME NEW d \in Emails PROVE Level'[d] = Level[d]
      <3>1. CASE buckets[d] # None /\ Stale(buckets[d], t)
        <4>1. Accrued(buckets[d]) = Burst
          BY <1>4, <3>1, StaleIsFull DEF Sweep, TypeOK, BucketsOK
        <4>2. buckets'[d] = None
          BY <1>4, <3>1 DEF Sweep
        <4> QED
          BY <3>1, <4>1, <4>2 DEF Level
      <3>2. CASE ~(buckets[d] # None /\ Stale(buckets[d], t))
        <4>1. buckets'[d] = buckets[d]
          BY <1>4, <3>2 DEF Sweep
        <4> QED
          BY <2>1, <4>1 DEF Level, Accrued
      <3> QED
        BY <3>1, <3>2
    <2>3. Level' = Level
      BY <2>2 DEF Level
    <2> QED
      BY <2>1, <2>3 DEF TB!vars
  <1>5. CASE Tick
    <2>1. now' = now + 1 /\ from' = from /\ used' = used /\ buckets' = buckets
      BY <1>5 DEF Tick
    <2>2. ASSUME NEW d \in Emails PROVE Level'[d] = Capped(Level[d] + Rate)
      <3>1. CASE buckets[d] = None
        BY <2>1, <3>1, RateAssumption, BurstAssumption DEF Level, Capped
      <3>2. CASE buckets[d] # None
        <4>1. Capped(buckets[d].tokens + Rate * (now' - buckets[d].last))
                = Capped(Accrued(buckets[d]) + Rate)
          BY <2>1, <3>2, TickAccrues DEF TypeOK, BucketsOK
        <4> QED
          BY <2>1, <3>2, <4>1 DEF Level, Accrued
      <3> QED
        BY <3>1, <3>2
    <2>3. Level' = [e \in Emails |-> TB!Capped(Level[e] + Rate)]
      BY <2>2 DEF Level, Capped, TB!Capped
    <2>4. TB!Tick
      BY <2>1, <2>3 DEF TB!Tick
    <2> QED
      BY <2>4 DEF TB!Next
  <1>6. CASE UNCHANGED vars
    BY <1>6 DEF vars, TB!vars, Level, Accrued
  <1> QED
    BY <1>1, <1>2, <1>3, <1>4, <1>5, <1>6 DEF Next

\* An empty map is a full bucket for every email.
LEMMA InitMaps == Init => TB!Init
  BY DEF Init, TB!Init, Level

\* perEmailLimiter, its on-demand limiters and its sweep, implements one bucket
\* per email that is kept for ever, if a bucket is Refilled before it is evicted.
THEOREM Implements == ASSUME Refilled PROVE Spec => KeepsBuckets
  <1>1. LimiterInv /\ [Next]_vars => [TB!Next]_(TB!vars)
    BY StepMaps
  <1> QED
    BY <1>1, InitMaps, LimiterInvariant, PTL DEF Spec, TB!Spec, KeepsBuckets

\* Filled at the rate Gain, a limiter has between what it really has and a burst.
LEMMA QuickType ==
    ASSUME now \in Nat, NEW b \in Bucket, b.last <= now
    PROVE  Quick(b) \in 0 .. Burst /\ Accrued(b) <= Quick(b)
  <1>1. now - b.last \in Nat /\ b.tokens \in Nat
    BY BurstAssumption DEF Bucket
  <1>2. /\ Rate * (now - b.last) \in Nat /\ Gain * (now - b.last) \in Nat
        /\ (now - b.last) * Rate <= (now - b.last) * Gain
    BY <1>1, RateAssumption, GainAssumption, Multiplication
  <1>3. /\ Rate * (now - b.last) = (now - b.last) * Rate
        /\ Gain * (now - b.last) = (now - b.last) * Gain
    BY <1>1, RateAssumption, GainAssumption, Multiplication
  <1> QED
    BY <1>1, <1>2, <1>3, BurstAssumption DEF Quick, Accrued, Capped

\* A tick fills it by no more than Gain.
LEMMA QuickTick ==
    ASSUME now \in Nat, now' = now + 1, NEW b \in Bucket, b.last <= now
    PROVE  Capped(b.tokens + Gain * (now' - b.last)) <= Quick(b) + Gain
  <1>1. now - b.last \in Nat /\ b.tokens \in Nat /\ now' - b.last = (now - b.last) + 1
    BY BurstAssumption DEF Bucket
  <1>2. Gain * (now' - b.last) = Gain * (now - b.last) + Gain /\ Gain * (now - b.last) \in Nat
    BY <1>1, GainAssumption, Multiplication
  <1> QED
    BY <1>1, <1>2, GainAssumption, BurstAssumption DEF Quick, Capped

\* The window gains as much per tick.
LEMMA WindowGrows ==
    ASSUME now \in Nat, from \in Nat
    PROVE  /\ from <= now => /\ Gain * (now - from) \in Nat
                             /\ Gain * ((now + 1) - from) = Gain * (now - from) + Gain
           /\ now + 1 = from => Gain * ((now + 1) - from) = 0
  <1>1. from <= now => now - from \in Nat /\ (now + 1) - from = (now - from) + 1
    OBVIOUS
  <1> QED
    BY <1>1, GainAssumption, Multiplication

\* The account is balanced at the start, and every step keeps it.
LEMMA AccountKept ==
    /\ Init => Account
    /\ LimiterInv /\ Account /\ [Next]_vars => Account'
  <1>1. Init => Account
    <2> SUFFICES ASSUME Init, NEW e \in Emails, from <= now
                 PROVE  used[e] + QuickLevel(e) <= Burst + Gain * (now - from)
      BY DEF Init, Account
    <2>1. now - from = 0 /\ Gain * (now - from) = 0 /\ QuickLevel(e) = Burst /\ used[e] = 0
      BY MaxTimeAssumption, GainAssumption DEF Init, QuickLevel
    <2> QED
      BY <2>1, BurstAssumption
  <1>2. ASSUME LimiterInv, Account, [Next]_vars PROVE Account'
    <2>0. /\ now \in Nat /\ from \in Nat /\ used \in [Emails -> Nat]
          /\ \A e \in Emails : /\ buckets[e] = None \/ (buckets[e] \in Bucket /\ buckets[e].last <= now)
                               /\ QuickLevel(e) \in 0 .. Burst
      BY <1>2, QuickType, BurstAssumption DEF LimiterInv, TypeOK, BucketsOK, QuickLevel
    <2>1. ASSUME NEW r \in Requests, NEW e \in Emails, Lookup(r, e) PROVE Account'
      <3>1. /\ buckets'[e] = IF buckets[e] = None THEN NewLimiter ELSE Seen(buckets[e])
            /\ \A d \in Emails : d # e => buckets'[d] = buckets[d]
            /\ now' = now /\ from' = from /\ used' = used
        BY <1>2, <2>1 DEF Lookup, LimiterInv, TypeOK
      <3>2. NewLimiter # None /\ (buckets[e] # None => Seen(buckets[e]) # None)
        BY <2>0, NoneAssumption, BurstAssumption DEF NewLimiter, Seen, Bucket
      <3>3. QuickLevel(e)' = QuickLevel(e)
        <4>1. Gain * (now - now) = 0
          BY <2>0, GainAssumption
        <4> QED
          BY <2>0, <3>1, <3>2, <4>1, BurstAssumption
             DEF QuickLevel, Quick, Capped, NewLimiter, Seen, Bucket
      <3>4. \A d \in Emails : QuickLevel(d)' = QuickLevel(d)
        BY <3>1, <3>3 DEF QuickLevel, Quick
      <3> QED
        BY <1>2, <3>1, <3>4 DEF Account
    <2>2. ASSUME NEW r \in Requests, Allow(r) PROVE Account'
      <3>1. PICK e, b : e = mail[r] /\ b = buckets[e]
        OBVIOUS
      <3>2. e \in Emails /\ b \in Bucket /\ b.last <= now /\ b # None /\ Cost <= Accrued(b)
        BY <1>2, <2>0, <2>2, <3>1 DEF Allow, Covers, TypeOK, LimiterInv
      <3>3. /\ buckets'[e] = [tokens |-> Accrued(b) - Cost, last |-> now, lastSeen |-> b.lastSeen]
            /\ \A d \in Emails : d # e => buckets'[d] = buckets[d]
            /\ now' = now /\ from' = from
            /\ used' = IF from <= now THEN [used EXCEPT ![e] = @ + Cost] ELSE used
        BY <1>2, <2>2, <3>1, <3>2 DEF Allow, Leave, LimiterInv, TypeOK
      <3>4. Accrued(b) \in 0 .. Burst /\ Accrued(b) <= QuickLevel(e)
        BY <2>0, <3>1, <3>2, AccruedType, QuickType DEF QuickLevel
      <3>5. buckets'[e] \in Bucket /\ buckets'[e] # None
        BY <2>0, <3>2, <3>3, <3>4, CostAssumption, BurstAssumption, NoneAssumption DEF Bucket
      <3>6. QuickLevel(e)' = Accrued(b) - Cost
        <4>1. Gain * (now - now) = 0
          BY <2>0, GainAssumption
        <4>2. QuickLevel(e)' = Capped((Accrued(b) - Cost) + Gain * (now - now))
          BY <3>3, <3>5 DEF QuickLevel, Quick
        <4> QED
          BY <3>2, <3>4, <4>1, <4>2, CostAssumption, BurstAssumption DEF Capped
      <3>7. \A d \in Emails : d # e => QuickLevel(d)' = QuickLevel(d)
        BY <3>3 DEF QuickLevel, Quick
      <3>8. from <= now => Gain * (now - from) \in Nat
        BY <2>0, WindowGrows
      <3>9. ASSUME NEW d \in Emails
            PROVE  IF from <= now THEN used'[d] + QuickLevel(d)' <= Burst + Gain * (now - from)
                   ELSE used'[d] = 0
        <4>1. IF from <= now THEN used[d] + QuickLevel(d) <= Burst + Gain * (now - from)
              ELSE used[d] = 0
          BY <1>2 DEF Account
        <4>2. CASE d = e
          BY <2>0, <3>2, <3>3, <3>4, <3>6, <3>8, <4>1, <4>2, CostAssumption, BurstAssumption
        <4>3. CASE d # e
          BY <2>0, <3>2, <3>3, <3>7, <4>1, <4>3
        <4> QED
          BY <4>2, <4>3
      <3> QED
        BY <3>3, <3>9 DEF Account
    <2>3. ASSUME NEW r \in Requests, TooMany(r) PROVE Account'
      BY <1>2, <2>3 DEF TooMany, Leave, Account, QuickLevel, Quick
    <2>4. ASSUME NEW t \in 0 .. MaxTime, Sweep(t) PROVE Account'
      <3>1. now' = now /\ from' = from /\ used' = used
        BY <2>4 DEF Sweep
      <3>2. ASSUME NEW d \in Emails PROVE QuickLevel(d)' = QuickLevel(d)
        <4>1. CASE buckets[d] # None /\ Stale(buckets[d], t)
          <5>1. Quick(buckets[d]) = Burst
            BY <1>2, <2>0, <2>4, <4>1, StaleIsOld, GainAssumption, MaxTimeAssumption
               DEF Sweep, LimiterInv, TypeOK, BucketsOK, Quick
          <5>2. buckets'[d] = None
            BY <2>4, <4>1 DEF Sweep
          <5> QED
            BY <4>1, <5>1, <5>2 DEF QuickLevel
        <4>2. CASE ~(buckets[d] # None /\ Stale(buckets[d], t))
          <5>1. buckets'[d] = buckets[d]
            BY <2>4, <4>2 DEF Sweep
          <5> QED
            BY <3>1, <5>1 DEF QuickLevel, Quick
        <4> QED
          BY <4>1, <4>2
      <3> QED
        BY <1>2, <3>1, <3>2 DEF Account
    <2>5. CASE Tick
      <3>1. now' = now + 1 /\ from' = from /\ used' = used /\ buckets' = buckets
        BY <2>5 DEF Tick
      <3>2. ASSUME NEW d \in Emails
            PROVE  QuickLevel(d)' \in 0 .. Burst /\ QuickLevel(d)' <= QuickLevel(d) + Gain
        <4>1. CASE buckets[d] = None
          BY <3>1, <4>1, GainAssumption, BurstAssumption DEF QuickLevel
        <4>2. CASE buckets[d] # None
          <5>1. PICK b \in Bucket : b = buckets[d] /\ b.last <= now
            BY <2>0, <4>2
          <5>2. Capped(b.tokens + Gain * (now' - b.last)) <= Quick(b) + Gain
            BY <2>0, <3>1, <5>1, QuickTick
          <5>3. QuickLevel(d)' = Capped(b.tokens + Gain * (now' - b.last)) /\ QuickLevel(d) = Quick(b)
            BY <3>1, <4>2, <5>1 DEF QuickLevel, Quick
          <5>4. Capped(b.tokens + Gain * (now' - b.last)) \in 0 .. Burst
            <6>1. now' - b.last \in Nat /\ b.tokens \in Nat
              BY <2>0, <3>1, <5>1, BurstAssumption DEF Bucket
            <6>2. Gain * (now' - b.last) \in Nat
              BY <6>1, GainAssumption, Multiplication
            <6> QED
              BY <6>1, <6>2, BurstAssumption DEF Capped
          <5> QED
            BY <5>2, <5>3, <5>4
        <4> QED
          BY <4>1, <4>2
      <3>3. ASSUME NEW d \in Emails
            PROVE  IF from <= now' THEN used[d] + QuickLevel(d)' <= Burst + Gain * (now' - from)
                   ELSE used[d] = 0
        <4>1. IF from <= now THEN used[d] + QuickLevel(d) <= Burst + Gain * (now - from)
              ELSE used[d] = 0
          BY <1>2 DEF Account
        <4>2. CASE from <= now
          <5>1. /\ Gain * (now - from) \in Nat
                /\ Gain * (now' - from) = Gain * (now - from) + Gain
            BY <2>0, <3>1, <4>2, WindowGrows
          <5> QED
            BY <2>0, <3>1, <3>2, <4>1, <4>2, <5>1, GainAssumption, BurstAssumption
        <4>3. CASE now + 1 = from
          <5>1. Gain * (now' - from) = 0
            BY <2>0, <3>1, <4>3, WindowGrows
          <5> QED
            BY <2>0, <3>1, <3>2, <4>1, <4>3, <5>1, BurstAssumption
        <4>4. CASE now + 1 < from
          BY <2>0, <3>1, <4>1, <4>4
        <4> QED
          BY <2>0, <4>2, <4>3, <4>4
      <3> QED
        BY <3>1, <3>3 DEF Account
    <2>6. CASE UNCHANGED vars
      BY <1>2, <2>6 DEF vars, Account, QuickLevel, Quick
    <2> QED
      BY <1>2, <2>1, <2>2, <2>3, <2>4, <2>5, <2>6 DEF Next
  <1> QED
    BY <1>1, <1>2

\* Whatever the limits are, no email is admitted in any window of time for more
\* than a burst and what accrues at the rate Gain, although the sweep forgets
\* buckets that are not full (ratelimit.go).
THEOREM Bounded == Spec => []WindowBound
  <1>1. Spec => []Account
    BY LimiterInvariant, AccountKept, PTL DEF Spec
  <1>2. LimiterInv /\ Account => WindowBound
    <2> SUFFICES ASSUME LimiterInv, Account, NEW e \in Emails, from <= now
                 PROVE  used[e] <= Burst + Gain * (now - from)
      BY DEF WindowBound
    <2>1. now \in Nat /\ from \in Nat /\ used[e] \in Nat
      BY DEF LimiterInv, TypeOK
    <2>2. QuickLevel(e) \in 0 .. Burst
      BY <2>1, QuickType, BurstAssumption DEF LimiterInv, TypeOK, BucketsOK, QuickLevel
    <2>3. Gain * (now - from) \in Nat
      BY <2>1, WindowGrows
    <2>4. used[e] + QuickLevel(e) <= Burst + Gain * (now - from)
      BY DEF Account
    <2> QED
      BY <2>1, <2>2, <2>3, <2>4, BurstAssumption
  <1> QED
    BY <1>1, <1>2, LimiterInvariant, PTL

-----------------------------------------------------------------------------
(***************************************************************************)
(* The cache of validated tokens.  AdmissionJustified is about the last    *)
(* admission only.  It is inductive together with what the cache and the   *)
(* calls in flight are worth: an entry outlives neither the token nor a    *)
(* revocation by more than a call and the TTL, and a positive answer was   *)
(* asked for before the revocation.                                        *)
(***************************************************************************)
\* Nothing recorded is in the future.
ClockOK == clock \in Nat \ {0} /\ revokedAt <= clock /\ lastOK <= clock

\* A call in flight has neither been asked in the future nor timed out.
CallsOK ==
    \A r \in Calls : pc[r] # "idle" =>
        /\ asked[r] <= clock /\ clock <= asked[r] + Timeout

\* A positive answer was asked for before the token was revoked.
AnswersOK ==
    \A r \in Calls : pc[r] = "answered" /\ answer[r] = "info" =>
        (revokedAt # 0 => asked[r] <= revokedAt)

\* An entry exists only for a token of the gateway, not past the cap.
CacheOK ==
    cache # 0 =>
        /\ listed
        /\ cache <= clock + TTL
        /\ revokedAt # 0 => cache <= revokedAt + Timeout + TTL

GatewayInv ==
    CacheTypeOK /\ ClockOK /\ CallsOK /\ AnswersOK /\ CacheOK /\ AdmissionJustified

\* A gateway that has just started satisfies the invariant.
LEMMA InitGatewayInv == ValidatorInit => GatewayInv
  BY ExpAssumption DEF ValidatorInit, GatewayInv, CacheTypeOK, ClockOK, CallsOK, AnswersOK, CacheOK,
     AdmissionJustified

\* The lesser of the expiry and the cap is at most each of them.
LEMMA CacheUntilBounds ==
    ASSUME clock \in Nat
    PROVE  CacheUntil \in Nat /\ CacheUntil <= Exp /\ CacheUntil <= clock + TTL
  BY ExpAssumption, TTLAssumption DEF CacheUntil

\* A failed or refused call changes nothing but the request's own state.
LEMMA DenyStep ==
    ASSUME GatewayInv, NEW r \in Calls, Deny(r)
    PROVE  GatewayInv'
  BY DEF Deny, GatewayInv, CacheTypeOK, ClockOK, CallsOK, AnswersOK, CacheOK, AdmissionJustified

\* Every step of Validate, of Google, of the user and of the clock keeps it.
LEMMA NextGatewayInv == GatewayInv /\ [ValidatorNext]_validatorVars => GatewayInv'
  <1> SUFFICES ASSUME GatewayInv, [ValidatorNext]_validatorVars PROVE GatewayInv'
    OBVIOUS
  <1> USE ExpAssumption, TTLAssumption, TimeoutAssumption
  <1>1. ASSUME NEW r \in Calls, CacheHit(r) PROVE GatewayInv'
    BY <1>1 DEF CacheHit, GatewayInv, CacheTypeOK, ClockOK, CallsOK, AnswersOK, CacheOK,
       AdmissionJustified
  <1>2. ASSUME NEW r \in Calls, CacheMiss(r) PROVE GatewayInv'
    BY <1>2 DEF CacheMiss, GatewayInv, CacheTypeOK, ClockOK, CallsOK, AnswersOK, CacheOK,
       AdmissionJustified
  <1>3. ASSUME NEW r \in Calls, Google(r) PROVE GatewayInv'
    BY <1>3 DEF Google, GatewayInv, CacheTypeOK, ClockOK, CallsOK, AnswersOK, CacheOK,
       AdmissionJustified
  <1>4. ASSUME NEW r \in Calls, Admit(r) PROVE GatewayInv'
    <2>1. CacheTypeOK' /\ ClockOK' /\ CallsOK' /\ AnswersOK'
      BY <1>4, CacheUntilBounds DEF Admit, GatewayInv, CacheTypeOK, ClockOK, CallsOK, AnswersOK
    <2>2. listed /\ clock <= Exp /\ (revokedAt # 0 => clock <= revokedAt + Timeout)
      BY <1>4 DEF Admit, AnswerGood, GatewayInv, CacheTypeOK, ClockOK, CallsOK, AnswersOK
    <2>3. CacheOK'
      BY <1>4, <2>2, CacheUntilBounds DEF Admit, CacheOK, GatewayInv, CacheTypeOK, ClockOK
    <2>4. AdmissionJustified'
      BY <1>4, <2>2 DEF Admit, AdmissionJustified, GatewayInv, CacheTypeOK, ClockOK
    <2> QED
      BY <2>1, <2>3, <2>4 DEF GatewayInv
  <1>5. ASSUME NEW r \in Calls, Reject(r) PROVE GatewayInv'
    BY <1>5, DenyStep DEF Reject
  <1>6. ASSUME NEW r \in Calls, TimeOut(r) PROVE GatewayInv'
    BY <1>6, DenyStep DEF TimeOut
  <1>7. CASE Revoke
    BY <1>7 DEF Revoke, GatewayInv, CacheTypeOK, ClockOK, CallsOK, AnswersOK, CacheOK,
       AdmissionJustified
  <1>8. CASE Elapse
    BY <1>8 DEF Elapse, GatewayInv, CacheTypeOK, ClockOK, CallsOK, AnswersOK, CacheOK,
       AdmissionJustified
  <1>9. CASE UNCHANGED validatorVars
    BY <1>9 DEF validatorVars, GatewayInv, CacheTypeOK, ClockOK, CallsOK, AnswersOK, CacheOK,
       AdmissionJustified
  <1> QED
    BY <1>1, <1>2, <1>3, <1>4, <1>5, <1>6, <1>7, <1>8, <1>9 DEF ValidatorNext

\* The invariant holds in every behaviour of the gateway.
LEMMA GatewayInvariant == ValidatorSpec => []GatewayInv
  <1>1. ValidatorInit => GatewayInv
    BY InitGatewayInv
  <1>2. GatewayInv /\ [ValidatorNext]_validatorVars => GatewayInv'
    BY NextGatewayInv
  <1> QED
    BY <1>1, <1>2, PTL DEF ValidatorSpec

\* Validate's state keeps its types; no cache entry outlives the expiry that
\* Google reported (cacheUntil).
THEOREM CacheTyped == ValidatorSpec => []CacheTypeOK
  <1>1. GatewayInv => CacheTypeOK
    BY DEF GatewayInv
  <1> QED
    BY <1>1, GatewayInvariant, PTL

\* google_validator.go caps cache entries "so a revoked token isn't accepted
\* indefinitely": no request is let through on a token that is not the
\* gateway's, that has expired, or that was revoked more than a call and
\* maxCacheTTL ago.
THEOREM Justified == ValidatorSpec => []AdmissionJustified
  <1>1. GatewayInv => AdmissionJustified
    BY DEF GatewayInv
  <1> QED
    BY <1>1, GatewayInvariant, PTL

=============================================================================
