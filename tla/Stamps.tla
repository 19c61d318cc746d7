------------------------------- MODULE Stamps -------------------------------
(***************************************************************************)
(* Times as the store writes them (formatTime, internal/store/sqlite.go)   *)
(* and as SQLite compares them.  A time is a number of readings of the     *)
(* clock, of which each second has as many.                                *)
(***************************************************************************)
EXTENDS Naturals

CONSTANTS
    TicksPerSecond, \* clock readings per second; 1: all stamps are whole seconds
    Widths          \* readings that share each prefix of a fraction's digits

ASSUME TicksAssumption == TicksPerSecond \in 1..10
\* The shortest text stands for a whole second, the longest for one reading.
ASSUME WidthsAssumption ==
    /\ Widths \subseteq 1..TicksPerSecond /\ {1, TicksPerSecond} \subseteq Widths
    /\ \A w \in Widths : TicksPerSecond % w = 0

SecondOf(t) == t \div TicksPerSecond

\* formatTime writes RFC3339Nano, which drops the zeros at the end of a fraction,
\* and a fraction of zero.  Span(t): how many readings begin with the digits that
\* are left of t.
Span(t) == CHOOSE w \in Widths : t % w = 0 /\ \A v \in Widths : t % v = 0 => v <= w

\* The column is TEXT and 'Z', which ends it, sorts after '.' and the digits: a text
\* comes after all those that go on where it ends, "05.51Z" < "05.5Z" < "05Z".
\* TextRank(t) is the place of t's text in the order SQLite sorts it.
TextRank(t) == (t + Span(t)) * (TicksPerSecond + 1) + Span(t)

=============================================================================
