---------------------------- MODULE TokenBucket ----------------------------
(***************************************************************************)
(* What the gateway's per-email rate limit promises: every email has a     *)
(* bucket of its own, full at the start, that fills at a constant rate and *)
(* that each admitted request draws on.  Nothing is ever forgotten.        *)
(*                                                                         *)
(* Units: a request costs Cost, so that a fractional rate is a whole       *)
(* number of units per tick.                                               *)
(***************************************************************************)
EXTENDS Naturals

CONSTANTS
    Emails,     \* authenticated emails, lower-cased
    Rate,       \* units a bucket gains per tick
    Burst,      \* units a bucket holds
    Cost,       \* units a request takes
    MaxTime     \* bound: the last instant of a behaviour

VARIABLES
    now,        \* the clock
    level,      \* level[e]: what e's bucket holds
    from,       \* the start of the window that is watched, fixed once
    used        \* used[e]: units admitted for e since then

Capped(units) == IF units < Burst THEN units ELSE Burst

Init ==
    /\ now = 0
    /\ level = [e \in Emails |-> Burst]
    /\ from \in 0 .. MaxTime
    /\ used = [e \in Emails |-> 0]

Admit(e) ==
    /\ Cost <= level[e]
    /\ level' = [level EXCEPT ![e] = @ - Cost]
    /\ used' = IF from <= now THEN [used EXCEPT ![e] = @ + Cost] ELSE used
    /\ UNCHANGED <<now, from>>

Tick ==
    /\ now' = now + 1
    /\ level' = [e \in Emails |-> Capped(level[e] + Rate)]
    /\ UNCHANGED <<from, used>>

Next == Tick \/ \E e \in Emails : Admit(e)

vars == <<now, level, from, used>>

Spec == Init /\ [][Next]_vars

=============================================================================
