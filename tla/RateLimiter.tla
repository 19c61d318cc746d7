---------------------------- MODULE RateLimiter ----------------------------
(***************************************************************************)
(* The gateway's perEmailLimiter (cmd/coggo-oauth-gateway/ratelimit.go).   *)
(*                                                                         *)
(* A map from email to a rate.Limiter and the time it was last asked for.  *)
(* `allow' finds or makes the entry under the mutex, releases the mutex    *)
(* and only then asks the limiter; a background sweep evicts the entries   *)
(* that have been idle for too long, and the next request of an evicted    *)
(* email starts with a full bucket.  The limiter (golang.org/x/time/rate)  *)
(* accrues on demand: it holds the tokens of its last use and that time.   *)
(*                                                                         *)
(* TokenBucket says what this comes to if eviction gives nothing away.     *)
(***************************************************************************)
EXTENDS Naturals

CONSTANTS
    Requests,   \* concurrent requests on /mcp
    Emails,     \* authenticated emails, lower-cased
    Rate,       \* units a limiter gains per tick
    Burst,      \* units a limiter holds
    Cost,       \* units a request takes
    Idle,       \* the idle time after which an entry is evicted
    MaxDelay,   \* how long a goroutine may take from Unlock to lim.Allow
    MaxTime,    \* bound: the last instant of a behaviour
    Gain,       \* for WindowBound: what an email may gain per tick, evictions included
    None        \* no entry; no email

ASSUME RateAssumption == Rate \in Nat
ASSUME BurstAssumption == Burst \in Nat
ASSUME CostAssumption == Cost \in Nat \ {0}
ASSUME DelayAssumption == Idle \in Nat /\ MaxDelay \in Nat /\ MaxDelay <= Idle
ASSUME MaxTimeAssumption == MaxTime \in Nat

\* A bucket fills in less than the idle time: so with the default limits, by far.
\* The gateway does not check it (loadConfig).
Refilled == Burst <= Rate * (Idle - MaxDelay)

\* At the rate Gain it would.  Every setting has one, as long as MaxDelay is less
\* than Idle; where the bucket is Refilled it is the Rate itself.
ASSUME GainAssumption == Gain \in Nat /\ Rate <= Gain /\ Burst <= Gain * (Idle - MaxDelay)

\* emailBucket, with the limiter's own fields.
Bucket == [tokens: 0 .. Burst, last: Nat, lastSeen: Nat]

ASSUME NoneAssumption == None \notin Bucket /\ None \notin Emails

VARIABLES
    now,        \* the clock
    buckets,    \* the map: an entry for each email, or None
    mail,       \* mail[r]: the email of the request in `allow', or None
    found,      \* found[r]: when it looked its entry up
    from,       \* the start of the window that is watched, fixed once
    used        \* used[e]: units admitted for e since then

vars == <<now, buckets, mail, found, from, used>>

TypeOK ==
    /\ now \in Nat
    /\ buckets \in [Emails -> Bucket \cup {None}]
    /\ mail \in [Requests -> Emails \cup {None}]
    /\ found \in [Requests -> Nat]
    /\ from \in Nat
    /\ used \in [Emails -> Nat]

Init ==
    /\ now = 0
    /\ buckets = [e \in Emails |-> None]
    /\ mail = [r \in Requests |-> None]
    /\ found = [r \in Requests |-> 0]
    /\ from \in 0 .. MaxTime
    /\ used = [e \in Emails |-> 0]

-----------------------------------------------------------------------------
Capped(units) == IF units < Burst THEN units ELSE Burst

\* What a limiter would have now (rate.Limiter, external).
Accrued(b) == Capped(b.tokens + Rate * (now - b.last))

\* rate.NewLimiter starts full.
NewLimiter == [tokens |-> Burst, last |-> now, lastSeen |-> now]

Seen(b) == [tokens |-> b.tokens, last |-> b.last, lastSeen |-> now]

\* Mutant: only a new entry is dated.
LookupUndated(r, e) ==
    /\ mail[r] = None
    /\ buckets' = [buckets EXCEPT ![e] = IF @ = None THEN NewLimiter ELSE @]
    /\ mail' = [mail EXCEPT ![r] = e]
    /\ found' = [found EXCEPT ![r] = now]
    /\ UNCHANGED <<now, from, used>>

\* Mutant: the entry is made anew although there is one.
LookupAnew(r, e) ==
    /\ mail[r] = None
    /\ buckets' = [buckets EXCEPT ![e] = NewLimiter]
    /\ mail' = [mail EXCEPT ![r] = e]
    /\ found' = [found EXCEPT ![r] = now]
    /\ UNCHANGED <<now, from, used>>

\* allow, up to Unlock: find or make the entry and note the time.
Lookup(r, e) ==
    /\ mail[r] = None
    /\ buckets' = [buckets EXCEPT ![e] = IF @ = None THEN NewLimiter ELSE Seen(@)]
    /\ mail' = [mail EXCEPT ![r] = e]
    /\ found' = [found EXCEPT ![r] = now]
    /\ UNCHANGED <<now, from, used>>

Covers(b) == Cost <= Accrued(b)

Leave(r) ==
    /\ mail' = [mail EXCEPT ![r] = None]
    /\ found' = [found EXCEPT ![r] = 0]
    /\ UNCHANGED <<now, from>>

\* b.lim.Allow() takes a token, and the request goes on to the proxy.
Allow(r) ==
    LET e == mail[r] IN
    /\ e # None
    /\ buckets[e] # None
    /\ Covers(buckets[e])
    /\ buckets' = [buckets EXCEPT ![e] =
            [tokens |-> Accrued(@) - Cost, last |-> now, lastSeen |-> @.lastSeen]]
    /\ used' = IF from <= now THEN [used EXCEPT ![e] = @ + Cost] ELSE used
    /\ Leave(r)

\* b.lim.Allow() is false: 429, and the limiter is left as it was.
TooMany(r) ==
    LET e == mail[r] IN
    /\ e # None
    /\ buckets[e] # None
    /\ ~Covers(buckets[e])
    /\ Leave(r)
    /\ UNCHANGED <<buckets, used>>

Stale(b, t) == b.lastSeen + Idle < t

\* One turn of sweep: t is the tick's time, read before the mutex was free.
Sweep(t) ==
    /\ t <= now
    /\ \E e \in Emails : buckets[e] # None /\ Stale(buckets[e], t)
    /\ buckets' = [e \in Emails |->
            IF buckets[e] # None /\ Stale(buckets[e], t) THEN None ELSE buckets[e]]
    /\ UNCHANGED <<now, mail, found, from, used>>

\* Time passes, but a goroutine inside `allow' is not held up past MaxDelay.
Tick ==
    /\ now < MaxTime
    /\ \A r \in Requests : mail[r] # None => now < found[r] + MaxDelay
    /\ now' = now + 1
    /\ UNCHANGED <<buckets, mail, found, from, used>>

Next ==
    \/ \E r \in Requests : \/ \E e \in Emails : Lookup(r, e)
                           \/ Allow(r)
                           \/ TooMany(r)
    \/ \E t \in 0 .. MaxTime : Sweep(t)
    \/ Tick

Spec == Init /\ [][Next]_vars

-----------------------------------------------------------------------------
\* The bucket each email has in effect: none in the map is a full one.
Level == [e \in Emails |-> IF buckets[e] = None THEN Burst ELSE Accrued(buckets[e])]

TB == INSTANCE TokenBucket WITH level <- Level

\* "Each authenticated email gets its own bucket" (ratelimit.go): limiters that
\* accrue on demand, are made on demand, and are evicted by a sweep that runs
\* beside the requests admit exactly what one bucket per email, kept for ever,
\* would admit, if a bucket is Refilled before it is evicted.
KeepsBuckets == TB!Spec

\* However requests and sweeps interleave, the entry a request has looked up is
\* still the one in the map when the request draws on it: no request spends the
\* tokens of a limiter that the next request will not see.
EntryHeld == \A r \in Requests : mail[r] # None => buckets[mail[r]] # None

\* In every window of time an email is admitted for at most a burst and what
\* accrued at the rate Gain, whatever the limits are: all that evictions in the
\* window give away is that a slow bucket fills as if it were Refilled.
WindowBound ==
    \A e \in Emails : from <= now => used[e] <= Burst + Gain * (now - from)

=============================================================================
