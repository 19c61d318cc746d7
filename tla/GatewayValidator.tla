-------------------------- MODULE GatewayValidator --------------------------
(***************************************************************************)
(* The OAuth gateway's googleValidator (cmd/coggo-oauth-gateway/           *)
(* google_validator.go), for the requests that carry one access token.     *)
(*                                                                         *)
(* Validate looks in a cache under a mutex, releases it to ask Google's    *)
(* tokeninfo endpoint, and puts a positive answer in the cache under the   *)
(* mutex again.  Between the two the user may revoke the token and other   *)
(* requests may be answered differently, and an answer given before the    *)
(* revocation may be cached after it.                                      *)
(***************************************************************************)
EXTENDS Naturals

CONSTANTS
    Calls,      \* calls of Validate, by concurrent requests that bear the token
    Exp,        \* when the token expires, as Google reports it
    TTL,        \* maxCacheTTL
    Timeout,    \* the HTTP client's timeout
    LastInstant \* bound: the last instant of a behaviour

ASSUME ExpAssumption == Exp \in Nat
ASSUME TTLAssumption == TTL \in Nat
ASSUME TimeoutAssumption == Timeout \in Nat
ASSUME LastInstantAssumption == LastInstant \in Nat

VARIABLES
    clock,      \* time; 0 is before the first instant
    listed,     \* the token's audience and verified email are the gateway's own
    revokedAt,  \* when the user revoked the token, 0 if never
    cache,      \* ExpiresAt of the token's cache entry, 0 if there is none
    pc,         \* where each request's Validate is
    asked,      \* when it asked Google
    answer,     \* what Google answered
    lastOK      \* when a request was last let through, 0 if never

validatorVars == <<clock, listed, revokedAt, cache, pc, asked, answer, lastOK>>

CacheTypeOK ==
    /\ clock \in Nat
    /\ listed \in BOOLEAN
    /\ revokedAt \in Nat
    /\ cache \in 0..Exp
    /\ pc \in [Calls -> {"idle", "asking", "answered"}]
    /\ asked \in [Calls -> Nat]
    /\ answer \in [Calls -> {"none", "info", "error"}]
    /\ lastOK \in Nat

ValidatorInit ==
    /\ clock = 1
    /\ listed \in BOOLEAN
    /\ revokedAt = 0
    /\ cache = 0
    /\ pc = [r \in Calls |-> "idle"]
    /\ asked = [r \in Calls |-> 0]
    /\ answer = [r \in Calls |-> "none"]
    /\ lastOK = 0

-----------------------------------------------------------------------------
\* Mutant: an entry is good for ever.
CacheHitStale(r) ==
    /\ pc[r] = "idle"
    /\ cache # 0
    /\ lastOK' = clock
    /\ UNCHANGED <<clock, listed, revokedAt, cache, pc, asked, answer>>

\* Validate finds a fresh entry: u.ExpiresAt is after time.Now().
CacheHit(r) ==
    /\ pc[r] = "idle"
    /\ cache # 0 /\ clock < cache
    /\ lastOK' = clock
    /\ UNCHANGED <<clock, listed, revokedAt, cache, pc, asked, answer>>

\* No entry, or a stale one, which is deleted: the tokeninfo request goes out.
CacheMiss(r) ==
    /\ pc[r] = "idle"
    /\ ~(cache # 0 /\ clock < cache)
    /\ cache' = 0
    /\ pc' = [pc EXCEPT ![r] = "asking"]
    /\ asked' = [asked EXCEPT ![r] = clock]
    /\ answer' = [answer EXCEPT ![r] = "none"]
    /\ UNCHANGED <<clock, listed, revokedAt, lastOK>>

\* Google (external): token info while the token is good, an error after.
Google(r) ==
    /\ pc[r] = "asking"
    /\ pc' = [pc EXCEPT ![r] = "answered"]
    /\ answer' = [answer EXCEPT ![r] =
                    IF revokedAt = 0 /\ clock <= Exp THEN "info" ELSE "error"]
    /\ UNCHANGED <<clock, listed, revokedAt, cache, asked, lastOK>>

Deny(r) ==
    /\ pc' = [pc EXCEPT ![r] = "idle"]
    /\ asked' = [asked EXCEPT ![r] = 0]
    /\ answer' = [answer EXCEPT ![r] = "none"]
    /\ UNCHANGED <<clock, listed, revokedAt, cache, lastOK>>

\* Mutant: the cap alone decides, whatever is left of the token's life.
CacheUntilCap == clock + TTL

\* cacheUntil: the lesser of the token's expiry and clock + maxCacheTTL.
CacheUntil == IF clock + TTL < Exp THEN clock + TTL ELSE Exp

\* The checks on the answer, in Validate's order; the first that fails denies.
AnswerGood(r) == answer[r] = "info" /\ listed /\ clock <= Exp

\* The answer passes the checks and goes in the cache.
Admit(r) ==
    /\ pc[r] = "answered"
    /\ AnswerGood(r)
    /\ cache' = CacheUntil
    /\ lastOK' = clock
    /\ pc' = [pc EXCEPT ![r] = "idle"]
    /\ asked' = [asked EXCEPT ![r] = 0]
    /\ answer' = [answer EXCEPT ![r] = "none"]
    /\ UNCHANGED <<clock, listed, revokedAt>>

Reject(r) ==
    /\ pc[r] = "answered"
    /\ ~AnswerGood(r)
    /\ Deny(r)

\* Mutant: the client has no timeout.
TimeOutNever(r) == FALSE /\ Deny(r)

\* The call fails, or its timeout strikes (it covers reading the body).
TimeOut(r) ==
    /\ pc[r] # "idle"
    /\ Deny(r)

\* The user revokes the token at Google (external).
Revoke ==
    /\ revokedAt = 0
    /\ revokedAt' = clock
    /\ UNCHANGED <<clock, listed, cache, pc, asked, answer, lastOK>>

\* Time passes, but not past the timeout of a request in flight.
Elapse ==
    /\ clock < LastInstant
    /\ \A r \in Calls : pc[r] # "idle" => clock < asked[r] + Timeout
    /\ clock' = clock + 1
    /\ UNCHANGED <<listed, revokedAt, cache, pc, asked, answer, lastOK>>

ValidatorNext ==
    \/ \E r \in Calls : \/ CacheHit(r) \/ CacheMiss(r) \/ Google(r)
                        \/ Admit(r) \/ Reject(r) \/ TimeOut(r)
    \/ Revoke
    \/ Elapse

ValidatorSpec == ValidatorInit /\ [][ValidatorNext]_validatorVars

\* The request has waited for Timeout, or until the bound, where the clock stops.
Overdue(r) == clock >= asked[r] + Timeout \/ clock = LastInstant

\* net/http ends a call whose timeout has struck; nobody makes Google answer.
FairValidatorSpec ==
    /\ ValidatorSpec
    /\ WF_validatorVars(Elapse)
    /\ \A r \in Calls : WF_validatorVars(TimeOut(r) /\ Overdue(r))

-----------------------------------------------------------------------------
\* "so a revoked token isn't accepted indefinitely" (google_validator.go): a
\* request is let through only on a token of this gateway, not after it has
\* expired, and, once the token is revoked, for no longer than the cache's TTL
\* and one call to Google, however the answers and the revocation interleave.
AdmissionJustified ==
    lastOK # 0 =>
        /\ listed
        /\ lastOK <= Exp
        /\ revokedAt # 0 => lastOK <= revokedAt + Timeout + TTL

\* A request is decided even if Google never answers.
Decided == \A r \in Calls : pc[r] # "idle" ~> pc[r] = "idle"

=============================================================================
