------------------------------ MODULE Queries ------------------------------
(***************************************************************************)
(* One question asked in two ways: QueryEntities leaves filters, order and *)
(* limit to SQLite, TimeTravelEntities applies them in Go to the rows that *)
(* the log rebuilds (internal/store/sqlite.go).  Here both see the same    *)
(* rows of one peer: that the log rebuilds them is Substrate's matter.     *)
(*                                                                         *)
(* A row has an id, a type, its data, whether it is archived, and when it  *)
(* was created.  Data and filters are functions from names, a name is the  *)
(* sequence of its parts between dots (one or two of them), and a value    *)
(* has a kind and what tells it from others of the kind; an object also    *)
(* has data of its own.  A query has a type ("" for any), filters, whether *)
(* it includes archived rows, and a limit (0 for none given).              *)
(***************************************************************************)
EXTENDS Stamps, Sequences, FiniteSets

CONSTANT QueryLimit     \* the default limit (50 in the code)

ASSUME QueriesAssumption == QueryLimit \in Nat \ {0}

AnyType == ""

LimitOf(q) == IF q.limit = 0 THEN QueryLimit ELSE q.limit

\* The rows in an order that tells any two apart, each after all that come before it.
ByRank(rows, earlier) == [k \in 1 .. Cardinality(rows) |-> CHOOSE r \in rows : earlier[r] = k - 1]
Sorted(rows, Before(_, _)) ==
    ByRank(rows, [r \in rows |-> Cardinality({s \in rows : Before(s, r)})])

FirstOf(s, n) == SubSeq(s, 1, IF n < Len(s) THEN n ELSE Len(s))

Listed(row, q) == (q.archived \/ ~row.archived) /\ q.type \in {AnyType, row.type}

-----------------------------------------------------------------------------
\* json_extract: a boolean is the integer 0 or 1, a list or an object its text,
\* null is NULL.
Extracted(v) ==
    CASE v.kind = "boolean" -> [kind |-> "number", is |-> v.is]
      [] v.kind \in {"list", "object"} -> [kind |-> "text", is |-> v.kind]
      [] OTHER -> v

\* What the driver makes of a filter's value.
Bound(v) == IF v.kind = "boolean" THEN [kind |-> "number", is |-> v.is] ELSE v

\* What the data has under a name of one part.
Member(data, part) == {data[n] : n \in {<<part>>} \cap DOMAIN data}

\* The path '$.'||name, in which a dot leads into an object.
AtPath(data, name) ==
    LET outer == Member(data, name[1])
    IN  IF Len(name) = 1 THEN outer
        ELSE UNION {Member(v.data, name[2]) : v \in {u \in outer : u.kind = "object"}}

\* json_extract(data, '$.'||?) = ?, where NULL equals nothing.
SqlMatches(data, filters) ==
    \A k \in DOMAIN filters : \E v \in AtPath(data, k) :
        /\ "null" \notin {v.kind, filters[k].kind}
        /\ Extracted(v) = Bound(filters[k])

Unanswered == [error |-> TRUE]

\* ORDER BY a column of times, which are text, and id, both descending.
LaterText(r, s) ==
    \/ TextRank(r.at) > TextRank(s.at)
    \/ r.at = s.at /\ r.id > s.id

\* QueryEntities.  The driver takes no list and no map for an argument: an error.
QueryEntities(rows, q) ==
    LET found == {r \in rows : Listed(r, q) /\ SqlMatches(r.data, q.filters)}
    IN  IF \E k \in DOMAIN q.filters : q.filters[k].kind \in {"list", "object"} THEN Unanswered
        ELSE [error |-> FALSE, rows |-> FirstOf(Sorted(found, LaterText), LimitOf(q))]

\* Mutant: a name that the data lacks is not looked at.
MatchesFiltersLoosely(data, filters) ==
    \A k \in DOMAIN filters \cap DOMAIN data : data[k] = filters[k]

\* matchesFilters: the name is a plain key, and the JSON of the values is compared.
MatchesFilters(data, filters) ==
    \A k \in DOMAIN filters : k \in DOMAIN data /\ data[k] = filters[k]

\* The order in Go: CreatedAt.After, then the id.
Later(r, s) == r.at > s.at \/ (r.at = s.at /\ r.id > s.id)

\* TimeTravelEntities, from the filters on.
TimeTravelEntities(rows, q) ==
    LET found == {r \in rows : Listed(r, q) /\ MatchesFilters(r.data, q.filters)}
    IN  [error |-> FALSE, rows |-> FirstOf(Sorted(found, Later), LimitOf(q))]

-----------------------------------------------------------------------------
\* Asking for now and asking for the past give one answer: the same rows in the
\* same order, cut by the same limit.
PastAnswersAlike(rows, q) == TimeTravelEntities(rows, q) = QueryEntities(rows, q)

\* What the two ways tell apart: filters of null, a list or an object, or under a
\* name with a dot; a boolean against a number; a list or an object against its
\* text; and two times of one second whose fractions have not as many digits.
PlainFilters(filters) ==
    \A k \in DOMAIN filters : Len(k) = 1 /\ filters[k].kind \notin {"null", "list", "object"}

PlainData(data, filters) ==
    \A k \in DOMAIN filters \cap DOMAIN data :
        /\ {data[k].kind, filters[k].kind} # {"boolean", "number"}
        /\ data[k].kind \in {"list", "object"} => filters[k] # Extracted(data[k])

PlainTimes(rows) ==
    \A r, s \in rows : SecondOf(r.at) = SecondOf(s.at) => Span(r.at) = Span(s.at)

\* For all other questions the promise "closely enough" of matchesFilters
\* (sqlite.go) is kept to the letter.
PlainlyAskedAlike(rows, q) ==
    /\ PlainFilters(q.filters)
    /\ \A r \in rows : PlainData(r.data, q.filters)
    /\ PlainTimes(rows)
    => PastAnswersAlike(rows, q)

=============================================================================
