------------------------ MODULE PureFunctionsProofs ------------------------
(***************************************************************************)
(* What the pure algorithms promise, of inputs of any size: for each of    *)
(* them a lemma <Algorithm>Holds, and the theorem that names the property. *)
(* A loop of the code is a recursive function here; a lemma states its     *)
(* equation, and what holds after each turn follows by Climb.              *)
(***************************************************************************)
EXTENDS PureFunctions, FiniteSetTheorems, SequenceTheorems, NaturalsInduction,
        WellFoundedInduction, TLAPS

(***************************************************************************)
(* Inputs: what the arguments may be, of any size.                         *)
(***************************************************************************)
Kinds == {"string", "time", "number", "boolean", "list", "object", "nil", "relisted"}
TypeNames == {"string", "reference", "number", "boolean", "timestamp", "list_of", "other"}

FieldDef == [name : STRING, type : TypeNames, required : BOOLEAN, default : Kinds]
IsDef(def) == def \in Seq(FieldDef)
IsMap(fields) == fields \in [DOMAIN fields -> Kinds]

BriefedRow == [id : Nat, type : STRING, status : STRING, created : Nat, updated : Nat]

\* A value: an object has data besides, all others are their kind and what they are.
ValueOK(v) == v.kind # "object" => v = [kind |-> v.kind, is |-> v.is]
DataOK(data) == \A k \in DOMAIN data : k \in Seq(STRING) /\ ValueOK(data[k])
QueryOK(rows, q) ==
    /\ \A r \in rows : r.at \in Nat /\ DataOK(r.data)
    /\ DataOK(q.filters)

\* Fields as they are parsed, and a response whose items show well formed strings.
FieldsOK(fields) == fields \in Seq([name : STRING, n : Nat])

Text == [kind : {"string"}, len : Nat, cut : BOOLEAN]
ResponseOK(v) ==
    \A d \in 0 .. Depth : \A x \in Met(v)[d] : Result(x) =>
        \A p \in Shown(x) : p[2].kind = "string" => p[2] \in Text

SearchOK(rows, search) ==
    /\ IsFiniteSet(rows)
    /\ \A r \in rows : r.at \in Nat /\ r.id \in Nat /\ r.text \in Seq(STRING)
    /\ \A r, s \in rows : r.id = s.id => r = s
    /\ search.text \in Seq(STRING) /\ search.limit \in Nat

-----------------------------------------------------------------------------
(***************************************************************************)
(* The briefing.  What a query leaves out has as many rows before it as    *)
(* the query returns, and these and itself are more.                       *)
(***************************************************************************)
LEMMA QueryLeavesOut ==
    ASSUME NEW store, IsFiniteSet(store), store \subseteq BriefedRow, NEW type,
           NEW e \in OfType(store, type), e \notin Query(store, type)
    PROVE  Cardinality({f \in OfType(store, type) : f.created >= e.created}) > Limit
  <1> DEFINE rows == OfType(store, type) before == {f \in rows : Before(f, e)}
             newer == {f \in rows : f.created >= e.created}
  <1>1. Query(store, type) = {d \in rows : Cardinality({f \in rows : Before(f, d)}) < Limit}
    BY DEF Query, OfType
  <1>2. ~(Cardinality(before) < Limit)
    BY <1>1
  <1>3. e \in BriefedRow /\ rows \subseteq BriefedRow /\ rows \subseteq store
    BY DEF OfType
  <1>4. e \notin before /\ before \cup {e} \subseteq newer /\ newer \subseteq store /\ before \subseteq store
    BY <1>3 DEF Before, BriefedRow
  <1> HIDE DEF before, newer, rows
  <1>5. IsFiniteSet(before) /\ IsFiniteSet(newer)
    BY <1>4, FS_Subset
  <1>6. Cardinality(before \cup {e}) = Cardinality(before) + 1
    BY <1>4, <1>5, FS_AddElement
  <1>7. Cardinality(before \cup {e}) <= Cardinality(newer)
    BY <1>4, <1>5, FS_Subset
  <1>8. Cardinality(before) \in Nat /\ Cardinality(newer) \in Nat /\ Limit \in Nat
    BY <1>5, FS_CardinalityType, BriefingAssumption
  <1> QED
    BY <1>2, <1>6, <1>7, <1>8 DEF newer, rows

LEMMA BriefingHolds ==
    ASSUME NEW store, IsFiniteSet(store), store \subseteq BriefedRow, NEW now \in Nat,
           \A e \in store : e.created <= e.updated, NEW failed
    PROVE  /\ NothingOpenMissed(store, failed, now)
           /\ StaleMeansUntouched(store, failed, now)
           /\ RecentListed(store, failed, now)
  <1> DEFINE b == PeerSection(store, failed, now)
             stale == Stale(store, failed, now)
  <1>1. ASSUME NEW e \in store, NEW q, q \notin failed
        PROVE  e \in Answer(store, failed, q, e.type) \/ CrowdedOut(store, e)
    <2>1. e \in OfType(store, e.type)
      BY DEF OfType
    <2>2. e \in Query(store, e.type) \/ CrowdedOut(store, e)
      BY <2>1, QueryLeavesOut DEF CrowdedOut
    <2> QED
      BY <1>1, <2>2 DEF Answer
  <1>2. b.error = FALSE <=> "goals" \notin failed
    BY DEF PeerSection, NoBriefing
  <1>3. ASSUME "goals" \notin failed
        PROVE  /\ b.goals = OpenGoals(store, failed) /\ b.projects = ActiveProjects(store, failed)
               /\ b.recent = Recent(store, failed, "observations", "Observation", now)
                                \cup Recent(store, failed, "decisions", "Decision", now)
               /\ b.stale = stale
    BY <1>3 DEF PeerSection
  <1>4. b.error \in BOOLEAN
    BY DEF PeerSection, NoBriefing
  <1>5. /\ RecentDays \in Nat /\ StaleDays \in Nat /\ RecentDays <= StaleDays
        /\ \A e \in store : e.created \in Nat /\ e.updated \in Nat
    BY BriefingAssumption DEF BriefedRow
  <1>6. \A e \in store : e \in stale => e.updated + StaleDays < now
    BY DEF Stale
  <1>7. \A e \in store : e.type \in StaleTypes /\ e \in Answer(store, failed, e.type, e.type)
                         /\ e.updated + StaleDays < now => e \in stale
    BY DEF Stale
  <1> HIDE DEF b, stale
  <1> USE <1>4
  <1>8. NothingOpenMissed(store, failed, now)
    <2> SUFFICES ASSUME ~b.error, NEW e \in store
                 PROVE  /\ OpenGoal(e) => e \in b.goals \/ CrowdedOut(store, e)
                        /\ ActiveProject(e) =>
                              e \in b.projects \/ CrowdedOut(store, e) \/ "projects" \in failed
      BY DEF NothingOpenMissed, b
    <2>1. OpenGoal(e) => e \in b.goals \/ CrowdedOut(store, e)
      BY <1>1, <1>2, <1>3 DEF OpenGoal, OpenGoals
    <2>2. ActiveProject(e) => e \in b.projects \/ CrowdedOut(store, e) \/ "projects" \in failed
      BY <1>1, <1>2, <1>3 DEF ActiveProject, ActiveProjects
    <2> QED
      BY <2>1, <2>2
  <1>9. StaleMeansUntouched(store, failed, now)
    <2> SUFFICES ASSUME ~b.error, NEW e \in store
                 PROVE  IF now - e.updated <= StaleDays THEN e \notin b.stale
                        ELSE \/ e.type \notin StaleTypes
                             \/ e \in b.stale
                             \/ CrowdedOut(store, e)
                             \/ e.type \in failed
      BY DEF StaleMeansUntouched, b
    <2>1. (now - e.updated <= StaleDays) <=> ~(e.updated + StaleDays < now)
      BY <1>5
    <2> QED
      BY <1>1, <1>2, <1>3, <1>6, <1>7, <2>1
  <1>10. RecentListed(store, failed, now)
    <2> SUFFICES ASSUME ~b.error, NEW e \in store, e.type \in {"Observation", "Decision"},
                        e.created + RecentDays > now
                 PROVE  /\ e \notin b.stale
                        /\ \/ e \in b.recent
                           \/ CrowdedOut(store, e)
                           \/ (IF e.type = "Decision" THEN "decisions" ELSE "observations") \in failed
      BY DEF RecentListed, b
    <2>1. ~(e.updated + StaleDays < now)
      BY <1>5
    <2>2. e \notin b.stale
      BY <1>2, <1>3, <1>6, <2>1
    <2>3. CASE e.type = "Observation"
      BY <1>1, <1>2, <1>3, <2>2, <2>3 DEF Recent
    <2>4. CASE e.type = "Decision"
      BY <1>1, <1>2, <1>3, <2>2, <2>4 DEF Recent
    <2> QED
      BY <2>3, <2>4
  <1> QED
    BY <1>8, <1>9, <1>10

\* The daily briefing (buildPeerSection), for a store of any size and whichever queries
\* fail: an open goal is missed only where newer goals use up the limit of the query, an
\* active project, a recent or a stale entity only so or when its own query failed.
THEOREM BriefingMissesNone ==
    ASSUME input.of = "briefing" =>
               /\ IsFiniteSet(input.store) /\ input.store \subseteq BriefedRow
               /\ \A e \in input.store : e.created <= e.updated
               /\ input.now \in Nat
    PROVE  BriefingComplete
  <1> SUFFICES ASSUME input.of = "briefing"
               PROVE  /\ NothingOpenMissed(input.store, input.failed, input.now)
                      /\ StaleMeansUntouched(input.store, input.failed, input.now)
                      /\ RecentListed(input.store, input.failed, input.now)
    BY DEF BriefingComplete
  <1> QED
    BY BriefingHolds

-----------------------------------------------------------------------------
(***************************************************************************)
(* One question, two ways: the conditions agree row by row, and the orders *)
(* agree pair by pair.                                                     *)
(***************************************************************************)
\* SQLite's view of a value, kind by kind.
LEMMA ExtractedIs ==
    ASSUME NEW v
    PROVE  /\ v.kind = "boolean" => Extracted(v) = [kind |-> "number", is |-> v.is]
           /\ v.kind \in {"list", "object"} => Extracted(v) = [kind |-> "text", is |-> v.kind]
           /\ v.kind \notin {"boolean", "list", "object"} => Extracted(v) = v
  <1>1. ASSUME v.kind = "boolean" PROVE Extracted(v) = [kind |-> "number", is |-> v.is]
    BY <1>1, Zenon DEF Extracted
  <1>2. ASSUME v.kind = "list" PROVE Extracted(v) = [kind |-> "text", is |-> v.kind]
    <2>1. v.kind # "boolean" /\ v.kind \in {"list", "object"}
      BY <1>2
    <2> QED
      BY <2>1, Zenon DEF Extracted
  <1>3. ASSUME v.kind = "object" PROVE Extracted(v) = [kind |-> "text", is |-> v.kind]
    <2>1. v.kind # "boolean" /\ v.kind \in {"list", "object"}
      BY <1>3
    <2> QED
      BY <2>1, Zenon DEF Extracted
  <1>4. ASSUME v.kind # "boolean", v.kind \notin {"list", "object"} PROVE Extracted(v) = v
    BY <1>4, Zenon DEF Extracted
  <1> QED
    BY <1>1, <1>2, <1>3, <1>4

\* A name of one part leads both ways to the same value.
LEMMA PlainPath ==
    ASSUME NEW data, NEW name \in Seq(STRING), Len(name) = 1
    PROVE  AtPath(data, name) = {data[n] : n \in {name} \cap DOMAIN data}
  <1>1. name = <<name[1]>>
    OBVIOUS
  <1>2. AtPath(data, name) = Member(data, name[1])
    BY DEF AtPath
  <1> QED
    BY <1>1, <1>2 DEF Member

LEMMA SameMatches ==
    ASSUME NEW data, DataOK(data), NEW filters, DataOK(filters),
           PlainFilters(filters), PlainData(data, filters)
    PROVE  SqlMatches(data, filters) <=> MatchesFilters(data, filters)
  <1> DEFINE Alike(d, f) == "null" \notin {d.kind, f.kind} /\ Extracted(d) = Bound(f)
  <1>1. ASSUME NEW k \in DOMAIN filters
        PROVE  (\E v \in AtPath(data, k) : Alike(v, filters[k]))
               <=> k \in DOMAIN data /\ Alike(data[k], filters[k])
    <2>1. AtPath(data, k) = {data[n] : n \in {k} \cap DOMAIN data}
      BY PlainPath DEF PlainFilters, DataOK
    <2> HIDE DEF Alike
    <2> QED
      BY <2>1
  <1>2. ASSUME NEW k \in DOMAIN filters, k \in DOMAIN data
        PROVE  Alike(data[k], filters[k]) <=> data[k] = filters[k]
    <2>1. PICK d, f : d = data[k] /\ f = filters[k]
      OBVIOUS
    <2>2. ValueOK(d) /\ ValueOK(f)
      BY <1>2, <2>1 DEF DataOK
    <2>3. /\ f.kind \notin {"null", "list", "object"}
          /\ {d.kind, f.kind} # {"boolean", "number"}
          /\ d.kind \in {"list", "object"} => f # Extracted(d)
      BY <1>2, <2>1 DEF PlainFilters, PlainData
    <2>4. Bound(f) = IF f.kind = "boolean" THEN [kind |-> "number", is |-> f.is] ELSE f
      BY DEF Bound
    <2>5. f = [kind |-> f.kind, is |-> f.is]
      BY <2>2, <2>3 DEF ValueOK
    <2>6. CASE d.kind \in {"list", "object"}
      <3>1. Extracted(d) = [kind |-> "text", is |-> d.kind]
        BY <2>6, ExtractedIs
      <3>2. Bound(f) # Extracted(d)
        BY <2>3, <2>4, <2>6, <3>1
      <3> QED
        BY <2>1, <2>3, <2>6, <3>2
    <2>7. CASE d.kind = "boolean"
      <3>1. Extracted(d) = [kind |-> "number", is |-> d.is] /\ d = [kind |-> d.kind, is |-> d.is]
        BY <2>2, <2>7, ExtractedIs DEF ValueOK
      <3>2. Extracted(d) = Bound(f) <=> d = f
        BY <2>3, <2>4, <2>5, <2>7, <3>1
      <3> QED
        BY <2>1, <2>3, <2>7, <3>2
    <2>8. CASE d.kind \notin {"list", "object", "boolean"}
      <3>1. Extracted(d) = d /\ d = [kind |-> d.kind, is |-> d.is]
        BY <2>2, <2>8, ExtractedIs DEF ValueOK
      <3>2. Extracted(d) = Bound(f) <=> d = f
        BY <2>3, <2>4, <2>5, <2>8, <3>1
      <3> QED
        BY <2>1, <2>3, <2>8, <3>2
    <2> QED
      BY <2>6, <2>7, <2>8
  <1>3. SqlMatches(data, filters)
            <=> \A k \in DOMAIN filters : \E v \in AtPath(data, k) : Alike(v, filters[k])
    BY DEF SqlMatches
  <1> HIDE DEF Alike
  <1> QED
    BY <1>1, <1>2, <1>3, Zenon DEF MatchesFilters

\* A set of naturals that is not empty has a least element.
LEMMA LeastExists ==
    ASSUME NEW S \in SUBSET Nat, S # {}
    PROVE  \E x \in S : \A y \in S : x <= y
  <1> DEFINE less == OpToRel(<, Nat)
  <1>1. IsWellFoundedOn(less, Nat)
    BY NatLessThanWellFounded
  <1>2. PICK x \in S : \A y \in S : <<y, x>> \notin less
    <2> HIDE DEF less
    <2> QED
      BY <1>1, WFMin
  <1>3. \A y \in S : ~(y < x)
    BY <1>2 DEF OpToRel
  <1> QED
    BY <1>3

\* Span(t) is one of the widths, and divides t.
LEMMA SpanIs ==
    ASSUME NEW t \in Nat
    PROVE  Span(t) \in Widths /\ t % Span(t) = 0
  <1> DEFINE S == {w \in Widths : t % w = 0}
             R == {n \in 0 .. 10 : TicksPerSecond - n \in S}
  <1>1. Widths \subseteq 1 .. TicksPerSecond /\ 1 \in Widths /\ TicksPerSecond \in 1 .. 10
    BY TicksAssumption, WidthsAssumption
  <1>2. t % 1 = 0
    OBVIOUS
  <1>3. R \in SUBSET Nat /\ TicksPerSecond - 1 \in R
    <2>1. TicksPerSecond - 1 \in 0 .. 10 /\ TicksPerSecond - (TicksPerSecond - 1) = 1
      BY <1>1
    <2>2. 1 \in S
      BY <1>1, <1>2
    <2> HIDE DEF S
    <2> QED
      BY <2>1, <2>2
  <1>4. PICK n \in R : \A m \in R : n <= m
    <2> HIDE DEF R
    <2> QED
      BY <1>3, LeastExists
  <1> DEFINE w == TicksPerSecond - n
  <1>5. w \in S /\ \A v \in S : v <= w
    <2>1. ASSUME NEW v \in S PROVE v <= w
      <3>1. v \in 1 .. TicksPerSecond
        BY <1>1
      <3>2. TicksPerSecond - v \in 0 .. 10 /\ TicksPerSecond - (TicksPerSecond - v) = v
        BY <1>1, <3>1
      <3>3. TicksPerSecond - v \in R
        BY <3>2
      <3> QED
        BY <1>1, <1>4, <3>1, <3>3
    <2> QED
      BY <1>4, <2>1
  <1> HIDE DEF w
  <1> QED
    BY <1>5 DEF Span

\* The second and the rank of a time are numbers.
LEMMA TextRankType ==
    ASSUME NEW a \in Nat
    PROVE  /\ SecondOf(a) \in Nat /\ TextRank(a) \in Nat
           /\ Span(a) \in 1 .. TicksPerSecond
           /\ TicksPerSecond \in 1 .. 10
  <1>1. TicksPerSecond \in 1 .. 10
    BY TicksAssumption
  <1>2. Span(a) \in 1 .. TicksPerSecond
    BY SpanIs, WidthsAssumption
  <1>3. a \div TicksPerSecond \in Nat /\ (a + Span(a)) * (TicksPerSecond + 1) \in Nat
    BY <1>1, <1>2
  <1> QED
    BY <1>1, <1>2, <1>3 DEF TextRank, SecondOf

\* From one multiple to a greater one there is room for the number itself.
LEMMA NextMultiple ==
    ASSUME NEW w \in 1 .. 10, NEW a \in Nat, NEW n \in Nat, a % w = 0, n % w = 0, a < n
    PROVE  a + w <= n
  <1>1. PICK x \in Nat : x = a \div w
    OBVIOUS
  <1>2. PICK y \in Nat : y = n \div w
    OBVIOUS
  <1>3. a = w * x /\ n = w * y
    BY <1>1, <1>2
  <1>4. x + 1 <= y
    BY <1>3
  <1>5. w * (x + 1) <= w * y
    BY <1>4
  <1>6. w * (x + 1) = (w * x) + w
    OBVIOUS
  <1> QED
    BY <1>3, <1>5, <1>6

LEMMA MultipleOf ==
    ASSUME NEW w \in 1 .. 10, NEW n \in 1 .. 10, NEW m \in Nat, n % w = 0
    PROVE  (m * n) % w = 0
  <1>1. PICK x \in 0 .. 10 : n = w * x
    BY n = w * (n \div w), n \div w \in 0 .. 10
  <1>2. m * n = w * (m * x)
    BY <1>1
  <1>3. m * x \in Nat
    OBVIOUS
  <1> QED
    BY <1>2, <1>3

\* A second's texts are before those of the seconds after it (formatTime).
LEMMA TextRankSeconds ==
    ASSUME NEW a \in Nat, NEW b \in Nat, SecondOf(a) < SecondOf(b)
    PROVE  TextRank(a) < TextRank(b)
  <1> DEFINE T == TicksPerSecond
             m == (a \div T) + 1
  <1>1. T \in 1 .. 10 /\ Span(a) \in 1 .. T /\ Span(b) \in 1 .. T
    BY TextRankType
  <1>2. a % Span(a) = 0 /\ T % Span(a) = 0
    BY SpanIs, WidthsAssumption
  <1>3. m \in Nat /\ b \div T \in Nat /\ m <= b \div T
    BY <1>1 DEF SecondOf
  <1>4. a < m * T /\ (b \div T) * T <= b /\ m * T \in Nat
    BY <1>1
  <1>5. (m * T) % Span(a) = 0
    BY <1>1, <1>2, <1>3, MultipleOf
  <1>6. a + Span(a) <= m * T
    <2>1. Span(a) \in 1 .. 10
      BY <1>1
    <2> HIDE DEF m, T
    <2> QED
      BY <1>2, <1>4, <1>5, <2>1, NextMultiple
  <1>7. m * T <= (b \div T) * T
    <2> HIDE DEF m
    <2>1. \A x, y \in Nat : x <= y => x * T <= y * T
      BY <1>1
    <2> QED
      BY <1>3, <2>1
  <1>8. (b \div T) * T \in Nat
    BY <1>1, <1>3
  <1>9. (a + Span(a)) + 1 <= b + Span(b)
    <2> HIDE DEF m
    <2> QED
      BY <1>1, <1>4, <1>6, <1>7, <1>8
  <1> HIDE DEF T, m
  <1>10. \A x, y \in Nat : x + 1 <= y => (x * (T + 1)) + (T + 1) <= y * (T + 1)
    BY <1>1
  <1>11. ((a + Span(a)) * (T + 1)) + (T + 1) <= (b + Span(b)) * (T + 1)
    BY <1>1, <1>9, <1>10
  <1>12. (a + Span(a)) * (T + 1) \in Nat /\ (b + Span(b)) * (T + 1) \in Nat
    BY <1>1
  <1>13. /\ TextRank(a) = ((a + Span(a)) * (T + 1)) + Span(a)
         /\ TextRank(b) = ((b + Span(b)) * (T + 1)) + Span(b)
    BY DEF TextRank, T
  <1> QED
    BY <1>1, <1>11, <1>12, <1>13

\* No two times have one text.
LEMMA TextRankInjective ==
    ASSUME NEW a \in Nat, NEW b \in Nat, TextRank(a) = TextRank(b)
    PROVE  a = b
  <1> DEFINE n == TicksPerSecond + 1
             x == a + Span(a)
             y == b + Span(b)
  <1>1. n \in 2 .. 11 /\ Span(a) \in 1 .. n - 1 /\ Span(b) \in 1 .. n - 1
    BY TextRankType
  <1>2. x \in Nat /\ y \in Nat
    BY <1>1
  <1>3. (x * n) + Span(a) = (y * n) + Span(b)
    BY DEF TextRank
  <1>4. x = y
    <2> HIDE DEF x, y, n
    <2>1. \A u, v \in Nat : u < v => (u * n) + n <= v * n
      BY <1>1
    <2>2. x * n \in Nat /\ y * n \in Nat
      BY <1>1, <1>2
    <2>3. ~(x < y) /\ ~(y < x)
      BY <1>1, <1>2, <1>3, <2>1, <2>2
    <2> QED
      BY <1>2, <2>3
  <1>5. Span(a) = Span(b)
    <2> HIDE DEF x, y, n
    <2>1. x * n \in Nat
      BY <1>1, <1>2
    <2> QED
      BY <1>1, <1>3, <1>4, <2>1
  <1> QED
    BY <1>1, <1>4, <1>5

\* A time of an earlier second is an earlier time.
LEMMA SecondsOrder ==
    ASSUME NEW a \in Nat, NEW b \in Nat, SecondOf(a) < SecondOf(b)
    PROVE  a < b
  <1>1. TicksPerSecond \in 1 .. 10
    BY TicksAssumption
  <1> QED
    BY <1>1 DEF SecondOf

\* Times of different seconds, and those of one second with as many digits, sort as
\* text as they do as times.
LEMMA SameOrder ==
    ASSUME NEW r, NEW s, r.at \in Nat, s.at \in Nat,
           SecondOf(r.at) = SecondOf(s.at) => Span(r.at) = Span(s.at)
    PROVE  LaterText(r, s) <=> Later(r, s)
  <1>1. PICK a \in Nat, b \in Nat : a = r.at /\ b = s.at
    OBVIOUS
  <1>2. /\ SecondOf(a) \in Nat /\ SecondOf(b) \in Nat
        /\ TextRank(a) \in Nat /\ TextRank(b) \in Nat
        /\ TicksPerSecond \in 1 .. 10
    BY TextRankType
  <1>3. TextRank(a) > TextRank(b) <=> a > b
    <2>1. CASE SecondOf(a) < SecondOf(b)
      <3>1. TextRank(a) < TextRank(b)
        BY <2>1, TextRankSeconds
      <3>2. a < b
        BY <1>2, <2>1, SecondsOrder
      <3> QED
        BY <1>2, <3>1, <3>2
    <2>2. CASE SecondOf(b) < SecondOf(a)
      <3>1. TextRank(b) < TextRank(a)
        BY <2>2, TextRankSeconds
      <3>2. b < a
        BY <1>2, <2>2, SecondsOrder
      <3> QED
        BY <1>2, <3>1, <3>2
    <2>3. CASE SecondOf(a) = SecondOf(b)
      <3>1. PICK n \in 2 .. 11, w \in Nat :
                /\ n = TicksPerSecond + 1 /\ w = Span(a) /\ w = Span(b)
        BY <1>1, <1>2, <2>3, TextRankType
      <3>2. TextRank(a) = ((a + w) * n) + w /\ TextRank(b) = ((b + w) * n) + w
        BY <3>1 DEF TextRank
      <3>3. (a + w) * n > (b + w) * n <=> a > b
        BY <3>1
      <3> QED
        BY <3>1, <3>2, <3>3
    <2> QED
      BY <1>2, <2>1, <2>2, <2>3
  <1> QED
    BY <1>1, <1>3 DEF LaterText, Later

\* Two orders that agree on all pairs of rows sort them alike.
LEMMA SortedAlike ==
    ASSUME NEW rows, \A r, s \in rows : LaterText(s, r) <=> Later(s, r)
    PROVE  Sorted(rows, LaterText) = Sorted(rows, Later)
  <1>1. PICK f, g : /\ f = [r \in rows |-> Cardinality({s \in rows : LaterText(s, r)})]
                    /\ g = [r \in rows |-> Cardinality({s \in rows : Later(s, r)})]
    OBVIOUS
  <1>2. ASSUME NEW r \in rows PROVE f[r] = g[r]
    <2>1. {s \in rows : LaterText(s, r)} = {s \in rows : Later(s, r)}
      OBVIOUS
    <2> QED
      BY <1>1, <2>1
  <1>3. f = g
    BY <1>1, <1>2
  <1>4. Sorted(rows, LaterText) = ByRank(rows, f) /\ Sorted(rows, Later) = ByRank(rows, g)
    BY <1>1, Zenon DEF Sorted
  <1> QED
    BY <1>3, <1>4, Zenon

LEMMA QueriesHold ==
    ASSUME NEW rows, NEW q, QueryOK(rows, q)
    PROVE  PlainlyAskedAlike(rows, q)
  <1> SUFFICES ASSUME PlainFilters(q.filters), \A r \in rows : PlainData(r.data, q.filters),
                      PlainTimes(rows)
               PROVE  TimeTravelEntities(rows, q) = QueryEntities(rows, q)
    BY DEF PlainlyAskedAlike, PastAnswersAlike
  <1> DEFINE inSql == {r \in rows : Listed(r, q) /\ SqlMatches(r.data, q.filters)}
             inGo == {r \in rows : Listed(r, q) /\ MatchesFilters(r.data, q.filters)}
  <1>1. inSql = inGo
    <2>1. \A r \in rows : SqlMatches(r.data, q.filters) <=> MatchesFilters(r.data, q.filters)
      BY SameMatches DEF QueryOK
    <2> QED
      BY <2>1
  <1>2. \A r, s \in inGo : LaterText(s, r) <=> Later(s, r)
    BY SameOrder DEF QueryOK, PlainTimes
  <1>3. Sorted(inGo, LaterText) = Sorted(inGo, Later)
    <2> HIDE DEF inGo
    <2> QED
      BY <1>2, SortedAlike
  <1>4. ~ \E k \in DOMAIN q.filters : q.filters[k].kind \in {"list", "object"}
    BY DEF PlainFilters
  <1>5. QueryEntities(rows, q) = [error |-> FALSE, rows |-> FirstOf(Sorted(inSql, LaterText), LimitOf(q))]
    BY <1>4 DEF QueryEntities
  <1>6. TimeTravelEntities(rows, q) = [error |-> FALSE, rows |-> FirstOf(Sorted(inGo, Later), LimitOf(q))]
    BY DEF TimeTravelEntities
  <1> HIDE DEF inSql, inGo
  <1> QED
    BY <1>1, <1>3, <1>5, <1>6

\* Asking for now and asking for the past (entity.query, time.travel) give one answer
\* for plain filters, whatever the rows: matchesFilters and the comparators of
\* TimeTravelEntities do what SQLite does over JSON and text.
THEOREM PastAnswersAsPresent ==
    ASSUME input.of = "query" => QueryOK(input.rows, input.query)
    PROVE  QueriesAgree
  <1> SUFFICES ASSUME input.of = "query" PROVE PlainlyAskedAlike(input.rows, input.query)
    BY DEF QueriesAgree
  <1> QED
    BY QueriesHold

-----------------------------------------------------------------------------
(***************************************************************************)
(* Induction on the turns of a loop, through least elements.               *)
(***************************************************************************)
\* What holds at the foot and at each next rung holds up to the top.
LEMMA Climb ==
    ASSUME NEW N \in Nat, NEW P, 0 \in P, \A n \in 0 .. N : n + 1 \in 0 .. N /\ n \in P => n + 1 \in P
    PROVE  \A n \in 0 .. N : n \in P
  <1> DEFINE S == {n \in 0 .. N : n \notin P}
  <1> SUFFICES ASSUME S # {} PROVE FALSE
    OBVIOUS
  <1>1. S \in SUBSET Nat
    OBVIOUS
  <1>2. PICK x \in S : \A y \in S : x <= y
    <2> HIDE DEF S
    <2> QED
      BY <1>1, LeastExists
  <1>3. x \in 0 .. N /\ x \notin P /\ x # 0
    OBVIOUS
  <1>4. x - 1 \in 0 .. N /\ x - 1 + 1 = x /\ ~(x <= x - 1)
    BY <1>3
  <1>5. x - 1 \in P
    BY <1>2, <1>4
  <1> QED
    BY <1>3, <1>4, <1>5

-----------------------------------------------------------------------------
(***************************************************************************)
(* Search.  Without wildcards LIKE moves one character at a time, and rows *)
(* sorted by the text of a time have earlier seconds last.                 *)
(***************************************************************************)
LEMMA LikeIsContains ==
    ASSUME NEW text \in Seq(STRING), NEW wanted \in Seq(STRING), wanted # <<>>,
           \A k \in DOMAIN wanted : wanted[k] \notin {AnyText, AnyChar}
    PROVE  Like(text, wanted) <=> ContainsText(text, wanted)
  <1> DEFINE n == Len(wanted) m == Len(text)
  <1>1. n \in Nat /\ m \in Nat /\ DOMAIN wanted = 1 .. n /\ n # 0
    OBVIOUS
  <1>2. ASSUME ContainsText(text, wanted) PROVE Like(text, wanted)
    <2>1. PICK from \in 0 .. m - n : \A k \in 1 .. n : Lower(text[from + k]) = Lower(wanted[k])
      BY <1>1, <1>2 DEF ContainsText
    <2> DEFINE used == [k \in 1 .. n |-> from + k]
    <2>2. used \in [1 .. n -> 0 .. m] /\ from \in 0 .. m
      BY <1>1, <2>1
    <2>3. ASSUME NEW k \in 1 .. n
          PROVE  LET before == IF k = 1 THEN from ELSE used[k - 1] IN
                 IF wanted[k] = AnyText THEN used[k] >= before
                 ELSE /\ used[k] = before + 1
                      /\ wanted[k] = AnyChar \/ Lower(wanted[k]) = Lower(text[used[k]])
      <3>1. used[k] = from + k /\ (k # 1 => used[k - 1] = from + (k - 1))
        BY <1>1
      <3>2. used[k] = (IF k = 1 THEN from ELSE used[k - 1]) + 1
        BY <1>1, <2>1, <3>1
      <3>3. wanted[k] # AnyText /\ Lower(wanted[k]) = Lower(text[used[k]])
        BY <1>1, <2>1, <3>1
      <3> QED
        BY <3>2, <3>3
    <2> HIDE DEF used
    <2> QED
      BY <1>1, <2>2, <2>3, Zenon DEF Like
  <1>3. ASSUME Like(text, wanted) PROVE ContainsText(text, wanted)
    <2>1. PICK from \in 0 .. m, used \in [1 .. n -> 0 .. m] :
              \A k \in 1 .. n :
                  LET before == IF k = 1 THEN from ELSE used[k - 1] IN
                  IF wanted[k] = AnyText THEN used[k] >= before
                  ELSE /\ used[k] = before + 1
                       /\ wanted[k] = AnyChar \/ Lower(wanted[k]) = Lower(text[used[k]])
      BY <1>1, <1>3 DEF Like
    <2>2. \A k \in 1 .. n : /\ used[k] = (IF k = 1 THEN from ELSE used[k - 1]) + 1
                            /\ Lower(wanted[k]) = Lower(text[used[k]])
      BY <1>1, <2>1
    <2> DEFINE P == {k \in 0 .. n : k # 0 => used[k] = from + k}
    <2>3. \A k \in 0 .. n : k + 1 \in 0 .. n /\ k \in P => k + 1 \in P
      <3> SUFFICES ASSUME NEW k \in 0 .. n, k + 1 \in 0 .. n, k \in P PROVE used[k + 1] = from + (k + 1)
        BY <1>1
      <3>1. k + 1 \in 1 .. n /\ (k + 1) - 1 = k
        BY <1>1
      <3> QED
        BY <1>1, <2>1, <2>2, <3>1
    <2>4. 0 \in P
      BY <1>1
    <2>5. \A k \in 0 .. n : k \in P
      <3> HIDE DEF P
      <3> QED
        BY <1>1, <2>3, <2>4, Climb
    <2>6. \A k \in 1 .. n : used[k] = from + k
      BY <1>1, <2>5
    <2>7. from \in 0 .. m - n
      BY <1>1, <2>1, <2>6
    <2> QED
      BY <1>1, <2>2, <2>6, <2>7 DEF ContainsText
  <1> QED
    BY <1>2, <1>3

-----------------------------------------------------------------------------
\* A set of rows that ORDER BY tells apart.
Sortable(S) ==
    /\ IsFiniteSet(S)
    /\ \A r \in S : r.at \in Nat /\ r.id \in Nat
    /\ \A r, s \in S : r.id = s.id => r = s

LEMMA LaterTextOrders ==
    ASSUME NEW S, Sortable(S)
    PROVE  /\ \A r \in S : ~LaterText(r, r)
           /\ \A r, s \in S : LaterText(r, s) \/ LaterText(s, r) \/ r = s
           /\ \A r, s, t \in S : LaterText(r, s) /\ LaterText(s, t) => LaterText(r, t)
  <1>1. \A r \in S : TextRank(r.at) \in Nat /\ r.id \in Nat /\ r.at \in Nat
    BY TextRankType DEF Sortable
  <1>2. \A r, s \in S : TextRank(r.at) = TextRank(s.at) <=> r.at = s.at
    BY <1>1, TextRankInjective
  <1>3. \A r, s \in S : r.id = s.id => r = s
    BY DEF Sortable
  <1>4. \A r \in S : ~LaterText(r, r)
    BY <1>1 DEF LaterText
  <1>5. \A r, s \in S : LaterText(r, s) \/ LaterText(s, r) \/ r = s
    <2> SUFFICES ASSUME NEW r \in S, NEW s \in S PROVE LaterText(r, s) \/ LaterText(s, r) \/ r = s
      OBVIOUS
    <2>1. r.id > s.id \/ s.id > r.id \/ r = s
      BY <1>1, <1>3
    <2>2. TextRank(r.at) > TextRank(s.at) \/ TextRank(s.at) > TextRank(r.at) \/ r.at = s.at
      BY <1>1, <1>2
    <2> QED
      BY <2>1, <2>2 DEF LaterText
  <1>6. \A r, s, t \in S : LaterText(r, s) /\ LaterText(s, t) => LaterText(r, t)
    <2> SUFFICES ASSUME NEW r \in S, NEW s \in S, NEW t \in S, LaterText(r, s), LaterText(s, t)
                 PROVE  LaterText(r, t)
      OBVIOUS
    <2>1. /\ TextRank(r.at) \in Nat /\ TextRank(s.at) \in Nat /\ TextRank(t.at) \in Nat
          /\ r.id \in Nat /\ s.id \in Nat /\ t.id \in Nat
      BY <1>1
    <2>2. \/ TextRank(r.at) > TextRank(s.at)
          \/ r.at = s.at /\ r.id > s.id
      BY DEF LaterText
    <2>3. \/ TextRank(s.at) > TextRank(t.at)
          \/ s.at = t.at /\ s.id > t.id
      BY DEF LaterText
    <2>4. TextRank(r.at) > TextRank(t.at) \/ (r.at = t.at /\ r.id > t.id)
      BY <2>1, <2>2, <2>3
    <2> QED
      BY <2>4 DEF LaterText
  <1> QED
    BY <1>4, <1>5, <1>6

\* How many rows come before a row.
RankOf(S, r) == Cardinality({s \in S : LaterText(s, r)})

LEMMA RankOrder ==
    ASSUME NEW S, Sortable(S)
    PROVE  /\ IsFiniteSet(S) /\ Cardinality(S) \in Nat
           /\ \A r \in S : RankOf(S, r) \in 0 .. Cardinality(S) - 1
           /\ \A r, s \in S : LaterText(r, s) => RankOf(S, r) < RankOf(S, s)
           /\ \A r, s \in S : RankOf(S, r) = RankOf(S, s) => r = s
           /\ \A r, s \in S : RankOf(S, r) < RankOf(S, s) => LaterText(r, s)
  <1> DEFINE before(r) == {s \in S : LaterText(s, r)}
  <1>1. IsFiniteSet(S) /\ Cardinality(S) \in Nat
    BY FS_CardinalityType DEF Sortable
  <1>2. \A r \in S : before(r) \subseteq S /\ r \notin before(r)
    BY LaterTextOrders
  <1>3. \A r \in S : RankOf(S, r) = Cardinality(before(r))
    BY DEF RankOf
  <1>4. \A r, s \in S : LaterText(r, s) => before(r) \subseteq before(s) /\ r \in before(s)
    BY LaterTextOrders
  <1> HIDE DEF before
  <1>5. \A r \in S : IsFiniteSet(before(r)) /\ Cardinality(before(r)) \in Nat
    BY <1>1, <1>2, FS_Subset, FS_CardinalityType
  <1>6. ASSUME NEW r \in S PROVE Cardinality(before(r)) < Cardinality(S)
    <2>1. before(r) # S
      BY <1>2
    <2> QED
      BY <1>1, <1>2, <1>5, <2>1, FS_Subset
  <1>7. ASSUME NEW r \in S, NEW s \in S, LaterText(r, s)
        PROVE  Cardinality(before(r)) < Cardinality(before(s))
    <2>1. before(r) \subseteq before(s) /\ before(r) # before(s)
      BY <1>2, <1>4, <1>7
    <2> QED
      BY <1>5, <2>1, FS_Subset
  <1>8. \A r \in S : RankOf(S, r) \in 0 .. Cardinality(S) - 1
    BY <1>1, <1>3, <1>5, <1>6
  <1>9. \A r, s \in S : LaterText(r, s) => RankOf(S, r) < RankOf(S, s)
    BY <1>3, <1>7
  <1>10. \A r, s \in S : RankOf(S, r) = RankOf(S, s) => r = s
    BY <1>1, <1>8, <1>9, LaterTextOrders
  <1>11. \A r, s \in S : RankOf(S, r) < RankOf(S, s) => LaterText(r, s)
    BY <1>1, <1>8, <1>9, LaterTextOrders
  <1> QED
    BY <1>1, <1>8, <1>9, <1>10, <1>11

\* Every rank is taken.
LEMMA RankTaken ==
    ASSUME NEW S, Sortable(S), NEW k \in 1 .. Cardinality(S)
    PROVE  \E r \in S : RankOf(S, r) = k - 1
  <1> DEFINE place == [r \in S |-> RankOf(S, r) + 1]
             places == 1 .. Cardinality(S)
  <1>1. Cardinality(S) \in Nat /\ IsFiniteSet(S)
    BY RankOrder
  <1>2. place \in Injection(S, places)
    <2>1. \A r \in S : RankOf(S, r) + 1 \in places /\ RankOf(S, r) \in Nat
      BY <1>1, RankOrder
    <2>2. place \in [S -> places]
      BY <2>1
    <2>3. \A r, s \in S : place[r] = place[s] => r = s
      BY <2>1, RankOrder
    <2> QED
      BY <2>2, <2>3 DEF Injection, IsInjective
  <1>3. IsFiniteSet(places) /\ Cardinality(places) = Cardinality(S)
    <2> 1 \in Int /\ Cardinality(S) \in Int
      BY <1>1
    <2>1. /\ IsFiniteSet(1 .. Cardinality(S))
          /\ Cardinality(1 .. Cardinality(S)) = IF 1 > Cardinality(S) THEN 0 ELSE Cardinality(S) - 1 + 1
      BY ONLY FS_Interval, 1 \in Int, Cardinality(S) \in Int
    <2> QED
      BY <1>1, <2>1
  <1>4. place \in Surjection(S, places)
    BY <1>1, <1>2, <1>3, FS_Injection
  <1>5. PICK r \in S : place[r] = k
    BY <1>4 DEF Surjection
  <1>6. RankOf(S, r) \in Nat
    BY <1>1, RankOrder
  <1> QED
    BY <1>5, <1>6

\* What ORDER BY and LIMIT return: rows of the set, and if not all of them, as many
\* as the limit, each before all that are left out.
LEMMA FirstSorted ==
    ASSUME NEW S, Sortable(S), NEW n \in Nat
    PROVE  LET s == FirstOf(Sorted(S, LaterText), n) IN
           /\ s \in Seq(S) /\ Len(s) <= n
           /\ \A r \in S : \/ \E k \in DOMAIN s : s[k] = r
                           \/ Len(s) = n /\ \A k \in DOMAIN s : LaterText(s[k], r)
  <1> DEFINE c == Cardinality(S)
             m == IF n < c THEN n ELSE c
             all == Sorted(S, LaterText)
             s == FirstOf(all, n)
  <1>1. c \in Nat
    BY RankOrder
  <1>2. m \in Nat /\ m <= c /\ m <= n /\ (m = n \/ m = c)
    BY <1>1
  <1>3. /\ all = [k \in 1 .. c |-> all[k]]
        /\ \A k \in 1 .. c : all[k] = CHOOSE r \in S : RankOf(S, r) = k - 1
    <2>1. PICK ranks : ranks = [r \in S |-> Cardinality({t \in S : LaterText(t, r)})]
      OBVIOUS
    <2>2. all = ByRank(S, ranks)
      BY <2>1, Zenon DEF Sorted
    <2>3. \A r \in S : ranks[r] = RankOf(S, r)
      BY <2>1, Zenon DEF RankOf
    <2>4. ASSUME NEW k \in 1 .. c
          PROVE  (CHOOSE r \in S : ranks[r] = k - 1) = CHOOSE r \in S : RankOf(S, r) = k - 1
      BY <2>3, Zenon
    <2> HIDE DEF all, c
    <2>5. all = [k \in 1 .. c |-> CHOOSE r \in S : ranks[r] = k - 1]
      BY <2>2, Zenon DEF ByRank, c
    <2>6. all = [k \in 1 .. c |-> all[k]]
      BY <2>5
    <2>7. \A k \in 1 .. c : all[k] = CHOOSE r \in S : ranks[r] = k - 1
      BY <2>5, Zenon
    <2> QED
      BY <2>4, <2>6, <2>7, Zenon
  <1> HIDE DEF all
  <1>4. ASSUME NEW k \in 1 .. c PROVE all[k] \in S /\ RankOf(S, all[k]) = k - 1
    <2>1. \E r \in S : RankOf(S, r) = k - 1
      BY RankTaken
    <2>2. all[k] = CHOOSE r \in S : RankOf(S, r) = k - 1
      BY <1>3
    <2> QED
      BY <2>1, <2>2, Zenon
  <1>5. all \in Seq(S) /\ Len(all) = c
    <2>1. all \in [1 .. c -> S]
      BY <1>3, <1>4
    <2> QED
      BY <1>1, <2>1
  <1>6. s \in Seq(S) /\ Len(s) = m /\ \A k \in 1 .. m : s[k] = all[k]
    <2>1. s = SubSeq(all, 1, m)
      BY <1>5 DEF FirstOf
    <2> HIDE DEF m, c, s
    <2>2. 1 \in 1 .. Len(all) + 1 /\ m \in 0 .. Len(all)
      BY <1>1, <1>2, <1>5
    <2> QED
      BY <1>5, <2>1, <2>2
  <1> HIDE DEF s, m
  <1>7. ASSUME NEW r \in S, \A k \in DOMAIN s : s[k] # r
        PROVE  m = n /\ \A k \in DOMAIN s : LaterText(s[k], r)
    <2>1. RankOf(S, r) \in 0 .. c - 1
      BY RankOrder
    <2>2. DOMAIN s = 1 .. m
      BY <1>6
    <2>3. ~(RankOf(S, r) + 1 \in 1 .. m)
      <3> SUFFICES ASSUME RankOf(S, r) + 1 \in 1 .. m PROVE FALSE
        OBVIOUS
      <3>1. PICK k \in 1 .. m : k - 1 = RankOf(S, r)
        BY <2>1
      <3>2. s[k] \in S /\ RankOf(S, s[k]) = RankOf(S, r)
        BY <1>1, <1>2, <1>4, <1>6, <3>1
      <3> QED
        BY <1>7, <2>2, <3>2, RankOrder
    <2>4. m <= RankOf(S, r) /\ m = n
      BY <1>1, <1>2, <2>1, <2>3
    <2>5. ASSUME NEW k \in 1 .. m PROVE LaterText(s[k], r)
      <3>1. s[k] \in S /\ RankOf(S, s[k]) = k - 1
        BY <1>1, <1>2, <1>4, <1>6
      <3>2. RankOf(S, s[k]) < RankOf(S, r)
        BY <1>2, <2>1, <2>4, <3>1
      <3> QED
        BY <3>1, <3>2, RankOrder
    <2> QED
      BY <2>2, <2>4, <2>5
  <1> QED
    BY <1>2, <1>6, <1>7 DEF s, all

LEMMA SearchHolds ==
    ASSUME NEW rows, NEW search, SearchOK(rows, search)
    PROVE  ContainingFound(rows, search)
  <1> DEFINE limit == IF search.limit = 0 THEN SearchLimit ELSE search.limit
             wanted == {r \in rows : /\ ~r.archived
                                     /\ ContainsText(r.text, search.text)
                                     /\ search.type \in {AnyType, r.type}}
             found == SubstringSearch(rows, search)
             listed == {found[i] : i \in DOMAIN found}
  <1> SUFFICES ASSUME search.text # <<>>, \A k \in DOMAIN search.text : search.text[k] \notin {AnyText, AnyChar}
               PROVE  /\ listed \subseteq wanted
                      /\ \A r \in wanted \ listed :
                            /\ Len(found) >= limit
                            /\ \A s \in listed : SecondOf(s.at) >= SecondOf(r.at)
    BY Zenon DEF ContainingFound
  <1>1. {r \in rows : Found(r, search)} = wanted
    <2>1. \A r \in rows : Like(r.text, search.text) <=> ContainsText(r.text, search.text)
      BY LikeIsContains DEF SearchOK
    <2> QED
      BY <2>1 DEF Found
  <1>2. found = FirstOf(Sorted(wanted, LaterText), limit)
    BY <1>1, Zenon DEF SubstringSearch
  <1>3. Sortable(wanted)
    <2>1. wanted \subseteq rows
      OBVIOUS
    <2> HIDE DEF wanted
    <2> QED
      BY <2>1, FS_Subset DEF SearchOK, Sortable
  <1>4. limit \in Nat
    BY SearchAssumption DEF SearchOK
  <1> HIDE DEF wanted, found, limit
  <1>5. /\ found \in Seq(wanted) /\ Len(found) <= limit
        /\ \A r \in wanted : \/ \E k \in DOMAIN found : found[k] = r
                             \/ Len(found) = limit /\ \A k \in DOMAIN found : LaterText(found[k], r)
    BY <1>2, <1>3, <1>4, FirstSorted
  <1>6. listed \subseteq wanted
    BY <1>5
  <1>7. ASSUME NEW r \in wanted \ listed, NEW s \in listed
        PROVE  SecondOf(s.at) >= SecondOf(r.at)
    <2>1. LaterText(s, r)
      BY <1>5, <1>7
    <2>2. s.at \in Nat /\ r.at \in Nat
      BY <1>3, <1>6, <1>7 DEF Sortable
    <2>3. SecondOf(s.at) \in Nat /\ SecondOf(r.at) \in Nat
          /\ TextRank(s.at) \in Nat /\ TextRank(r.at) \in Nat
      BY <2>2, TextRankType
    <2>4. ~(SecondOf(s.at) < SecondOf(r.at))
      BY <2>1, <2>2, <2>3, TextRankSeconds DEF LaterText
    <2> QED
      BY <2>3, <2>4
  <1> QED
    BY <1>4, <1>5, <1>6, <1>7

\* semantic.search without a vector (SubstringSearch), for rows and texts of any size:
\* what it returns contains the text, and it leaves out a row that does only when the
\* limit is used up by rows of the same second or later ones.
THEOREM SearchByText ==
    ASSUME input.of = "search" => SearchOK(input.rows, input.search)
    PROVE  SearchContains
  <1> SUFFICES ASSUME input.of = "search" PROVE ContainingFound(input.rows, input.search)
    BY DEF SearchContains
  <1> QED
    BY SearchHolds

-----------------------------------------------------------------------------
(***************************************************************************)
(* Validation.  A turn of the loop keeps what the map has, and only the    *)
(* want of a required field is an error; over what the loop left, it       *)
(* changes nothing.                                                        *)
(***************************************************************************)
\* What a map becomes with one more value.
Extended(fields, name, kind, w) ==
    /\ DOMAIN w = DOMAIN fields \cup {name}
    /\ w[name] = kind
    /\ \A n \in DOMAIN fields : n # name => w[n] = fields[n]
    /\ IsMap(fields) /\ kind \in Kinds => IsMap(w)

LEMMA WithIs ==
    ASSUME NEW fields, NEW name, NEW kind
    PROVE  Extended(fields, name, kind, With(fields, name, kind))
  <1> DEFINE w == With(fields, name, kind)
  <1>1. /\ DOMAIN w = DOMAIN fields \cup {name}
        /\ w = [n \in DOMAIN w |-> w[n]]
        /\ \A n \in DOMAIN w : w[n] = IF n = name THEN kind ELSE fields[n]
    BY DEF With
  <1> HIDE DEF w
  <1>2. ASSUME IsMap(fields), kind \in Kinds PROVE IsMap(w)
    <2>1. \A n \in DOMAIN w : w[n] \in Kinds
      BY <1>1, <1>2 DEF IsMap
    <2> QED
      BY <1>1, <2>1 DEF IsMap
  <1>3. Extended(fields, name, kind, w)
    BY <1>1, <1>2 DEF Extended
  <1> QED
    BY <1>3 DEF w

\* One turn, arm by arm.
LEMMA VisitIs ==
    ASSUME NEW acc, NEW f
    PROVE  /\ f.name \notin DOMAIN acc.fields /\ f.default # "nil" =>
                Visit(acc, f) = [acc EXCEPT !.fields = With(acc.fields, f.name, f.default)]
           /\ f.name \notin DOMAIN acc.fields /\ f.default = "nil" /\ f.required =>
                Visit(acc, f) =
                    [acc EXCEPT !.issues = @ \cup {[field |-> f.name, severity |-> "error"]}]
           /\ f.name \in DOMAIN acc.fields =>
                \/ Visit(acc, f) =
                       [acc EXCEPT !.issues = @ \cup {[field |-> f.name, severity |-> "warning"]}]
                \/ Visit(acc, f) = acc
           /\ f.name \notin DOMAIN acc.fields /\ f.default = "nil" /\ ~f.required => Visit(acc, f) = acc
  <1>1. ASSUME f.name \notin DOMAIN acc.fields, f.default # "nil"
        PROVE  Visit(acc, f) = [acc EXCEPT !.fields = With(acc.fields, f.name, f.default)]
    BY <1>1, Zenon DEF Visit
  <1>2. ASSUME f.name \notin DOMAIN acc.fields, f.default = "nil", f.required
        PROVE  Visit(acc, f) =
                   [acc EXCEPT !.issues = @ \cup {[field |-> f.name, severity |-> "error"]}]
    BY <1>2, Zenon DEF Visit
  <1>3. ASSUME f.name \in DOMAIN acc.fields
        PROVE  \/ Visit(acc, f) =
                      [acc EXCEPT !.issues = @ \cup {[field |-> f.name, severity |-> "warning"]}]
               \/ Visit(acc, f) = acc
    BY <1>3, Zenon DEF Visit
  <1>4. ASSUME f.name \notin DOMAIN acc.fields, f.default = "nil", ~f.required
        PROVE  Visit(acc, f) = acc
    BY <1>4, Zenon DEF Visit
  <1> QED
    BY <1>1, <1>2, <1>3, <1>4, Zenon

\* The state of the loop.
IsLoop(acc) == acc = [fields |-> acc.fields, issues |-> acc.issues] /\ IsMap(acc.fields)

\* What a turn may do: from acc to t.
TurnOf(acc, f, t) ==
    /\ IsLoop(t)
    /\ \A n \in DOMAIN acc.fields : n \in DOMAIN t.fields /\ t.fields[n] = acc.fields[n]
    /\ DOMAIN t.fields = DOMAIN acc.fields \cup (IF f.default # "nil" THEN {f.name} ELSE {})
    /\ f.default # "nil" /\ f.name \notin DOMAIN acc.fields => t.fields[f.name] = f.default
    /\ f.required => f.name \in DOMAIN t.fields \/ HasErrors(t.issues)
    /\ HasErrors(acc.issues) => HasErrors(t.issues)
    /\ HasErrors(t.issues) => \/ HasErrors(acc.issues)
                              \/ /\ f.required /\ f.default = "nil"
                                 /\ f.name \notin DOMAIN acc.fields
    /\ f.name \in DOMAIN acc.fields \/ (~f.required /\ f.default = "nil") => t.fields = acc.fields

LEMMA VisitTurns ==
    ASSUME NEW acc, IsLoop(acc), NEW f \in FieldDef
    PROVE  TurnOf(acc, f, Visit(acc, f))
  <1> DEFINE t == Visit(acc, f)
             w == With(acc.fields, f.name, f.default)
  <1>0. /\ acc = [fields |-> acc.fields, issues |-> acc.issues] /\ IsMap(acc.fields)
        /\ f.default \in Kinds /\ f.required \in BOOLEAN
    BY DEF IsLoop, FieldDef
  <1>1. CASE f.name \notin DOMAIN acc.fields /\ f.default # "nil"
    <2>1. t = [acc EXCEPT !.fields = w]
      BY <1>1, VisitIs
    <2>2. /\ DOMAIN w = DOMAIN acc.fields \cup {f.name}
          /\ \A n \in DOMAIN acc.fields : n # f.name => w[n] = acc.fields[n]
          /\ IsMap(w) /\ w[f.name] = f.default
      <3>1. Extended(acc.fields, f.name, f.default, w)
        BY WithIs
      <3> HIDE DEF w
      <3> QED
        BY <1>0, <3>1 DEF Extended
    <2> HIDE DEF t, w
    <2>3. t = [fields |-> w, issues |-> acc.issues]
      BY <1>0, <2>1
    <2>4. t.fields = w /\ t.issues = acc.issues
      BY <2>3
    <2>5. TurnOf(acc, f, t)
      <3>1. IsLoop(t)
        BY <2>2, <2>3, <2>4 DEF IsLoop
      <3>2. \A n \in DOMAIN acc.fields : n \in DOMAIN t.fields /\ t.fields[n] = acc.fields[n]
        BY <1>1, <2>2, <2>4
      <3>3. DOMAIN t.fields = DOMAIN acc.fields \cup {f.name} /\ t.fields[f.name] = f.default
        BY <2>2, <2>4
      <3> QED
        BY <1>1, <2>4, <3>1, <3>2, <3>3 DEF TurnOf
    <2> QED
      BY <2>5 DEF t
  <1>2. CASE f.name \notin DOMAIN acc.fields /\ f.default = "nil" /\ f.required
    <2> DEFINE new == acc.issues \cup {[field |-> f.name, severity |-> "error"]}
    <2>1. t = [acc EXCEPT !.issues = new]
      BY <1>2, VisitIs
    <2>2. HasErrors(new)
      <3>1. [field |-> f.name, severity |-> "error"] \in new
        OBVIOUS
      <3>2. [field |-> f.name, severity |-> "error"].severity = "error"
        OBVIOUS
      <3> HIDE DEF new
      <3> QED
        BY <3>1, <3>2, Zenon DEF HasErrors
    <2> HIDE DEF t, new
    <2>3. t = [fields |-> acc.fields, issues |-> new]
      BY <1>0, <2>1
    <2>4. t.fields = acc.fields /\ t.issues = new
      BY <2>3
    <2> QED
      BY <1>0, <1>2, <2>2, <2>3, <2>4 DEF TurnOf, IsLoop, t
  <1>3. CASE f.name \in DOMAIN acc.fields \/ (f.default = "nil" /\ ~f.required)
    <2> DEFINE new == acc.issues \cup {[field |-> f.name, severity |-> "warning"]}
    <2>1. t = [acc EXCEPT !.issues = new] \/ t = acc
      BY <1>3, VisitIs
    <2>2. HasErrors(new) <=> HasErrors(acc.issues)
      BY DEF HasErrors
    <2> HIDE DEF t, new
    <2>3. t = [fields |-> acc.fields, issues |-> new] \/ t = acc
      BY <1>0, <2>1
    <2>4. /\ t = [fields |-> t.fields, issues |-> t.issues] /\ t.fields = acc.fields
          /\ t.issues = new \/ t.issues = acc.issues
      BY <1>0, <2>3
    <2>5. HasErrors(t.issues) <=> HasErrors(acc.issues)
      BY <2>2, <2>4
    <2> QED
      BY <1>0, <1>3, <2>4, <2>5 DEF TurnOf, IsLoop, t
  <1> QED
    BY <1>0, <1>1, <1>2, <1>3

\* The loop over def.Fields.
LEMMA VisitsRun ==
    ASSUME NEW def, IsDef(def), NEW given
    PROVE  /\ Visits(def, given)[0] = [fields |-> given, issues |-> {}]
           /\ \A i \in 0 .. Len(def) : i + 1 \in 0 .. Len(def) =>
                Visits(def, given)[i + 1] = Visit(Visits(def, given)[i], def[i + 1])
  <1> DEFINE N == Len(def)
             start == [fields |-> given, issues |-> {}]
             Runs(g, n) == g = [i \in 0 .. n |-> IF i = 0 THEN start ELSE Visit(g[i - 1], def[i])]
             P == {n \in 0 .. N : \E g : Runs(g, n)}
  <1>1. N \in Nat
    BY DEF IsDef
  <1> HIDE DEF N, start
  <1>2. 0 \in P
    <2> DEFINE g == [i \in 0 .. 0 |-> start]
    <2>1. Runs(g, 0)
      BY <1>1
    <2> HIDE DEF g
    <2> QED
      BY <1>1, <2>1
  <1>3. ASSUME NEW n \in 0 .. N, n + 1 \in 0 .. N, n \in P PROVE n + 1 \in P
    <2>1. PICK f : Runs(f, n)
      BY <1>3
    <2> DEFINE g == [i \in 0 .. n + 1 |-> IF i = n + 1 THEN Visit(f[n], def[n + 1]) ELSE f[i]]
    <2>2. ASSUME NEW i \in 0 .. n + 1
          PROVE  g[i] = IF i = 0 THEN start ELSE Visit(g[i - 1], def[i])
      <3>1. CASE i = n + 1
        <4>1. i # 0 /\ i - 1 = n /\ n \in 0 .. n + 1 /\ n # n + 1
          BY <1>1, <1>3, <3>1
        <4>2. g[i] = Visit(f[n], def[i]) /\ g[i - 1] = f[n]
          BY <3>1, <4>1
        <4> QED
          BY <4>1, <4>2
      <3>2. CASE i # n + 1
        <4>1. i \in 0 .. n /\ (i # 0 => i - 1 \in 0 .. n + 1 /\ i - 1 # n + 1)
          BY <1>1, <1>3, <3>2
        <4>2. f[i] = IF i = 0 THEN start ELSE Visit(f[i - 1], def[i])
          BY <2>1, <4>1
        <4> QED
          BY <3>2, <4>1, <4>2
      <3> QED
        BY <3>1, <3>2
    <2>3. g = [i \in 0 .. n + 1 |-> g[i]]
      OBVIOUS
    <2>4. Runs(g, n + 1)
      <3> HIDE DEF g
      <3> QED
        BY <2>2, <2>3
    <2> QED
      BY <1>3, <2>4
  <1>4. \A n \in 0 .. N : n \in P
    <2>1. \A n \in 0 .. N : n + 1 \in 0 .. N /\ n \in P => n + 1 \in P
      BY <1>3
    <2> HIDE DEF P
    <2> QED
      BY <1>1, <1>2, <2>1, Climb
  <1>5. \E g : Runs(g, N)
    BY <1>1, <1>4
  <1>6. Visits(def, given) = CHOOSE g : Runs(g, N)
    BY Zenon DEF Visits, N, start
  <1>7. Runs(Visits(def, given), N)
    BY <1>5, <1>6, Zenon
  <1>8. PICK a : a = Visits(def, given)
    OBVIOUS
  <1>9. a = [i \in 0 .. N |-> IF i = 0 THEN start ELSE Visit(a[i - 1], def[i])]
    BY <1>7, <1>8
  <1>10. a[0] = start
    BY <1>1, <1>9
  <1>11. ASSUME NEW i \in 0 .. N, i + 1 \in 0 .. N PROVE a[i + 1] = Visit(a[i], def[i + 1])
    <2>1. i + 1 # 0 /\ (i + 1) - 1 = i
      BY <1>1
    <2> QED
      BY <1>9, <1>11, <2>1
  <1> QED
    BY <1>8, <1>10, <1>11 DEF N, start

\* The loop so far: after i fields of def, from the map given.
Sofar(def, given, i, acc) ==
    /\ IsLoop(acc)
    /\ \A n \in DOMAIN given : n \in DOMAIN acc.fields /\ acc.fields[n] = given[n]
    /\ \A j \in 1 .. i : def[j].default # "nil" => def[j].name \in DOMAIN acc.fields
    /\ \A j \in 1 .. i : def[j].required => def[j].name \in DOMAIN acc.fields \/ HasErrors(acc.issues)
    /\ HasErrors(acc.issues) =>
           \E j \in DOMAIN def : /\ def[j].required /\ def[j].default = "nil"
                                 /\ def[j].name \notin DOMAIN given
    /\ \A n \in DOMAIN acc.fields :
           n \in DOMAIN given \/ \E j \in DOMAIN def : def[j].name = n /\ def[j].default # "nil"

LEMMA NoIssues == ~HasErrors({})
  BY DEF HasErrors

LEMMA LoopKeeps ==
    ASSUME NEW def, IsDef(def), NEW given, IsMap(given)
    PROVE  \A i \in 0 .. Len(def) : Sofar(def, given, i, Visits(def, given)[i])
  <1> DEFINE N == Len(def)
             P == {i \in 0 .. N : Sofar(def, given, i, Visits(def, given)[i])}
  <1>1. N \in Nat /\ DOMAIN def = 1 .. N /\ \A i \in 1 .. N : def[i] \in FieldDef
    BY DEF IsDef
  <1>2. 0 \in P
    <2>1. PICK acc : acc = Visits(def, given)[0]
      OBVIOUS
    <2>2. acc = [fields |-> given, issues |-> {}]
      BY <2>1, VisitsRun
    <2>3. acc.fields = given /\ acc.issues = {}
      BY <2>2
    <2>4. Sofar(def, given, 0, acc)
      BY <2>2, <2>3, NoIssues DEF Sofar, IsLoop
    <2> QED
      BY <1>1, <2>1, <2>4
  <1>3. ASSUME NEW i \in 0 .. N, i + 1 \in 0 .. N, i \in P PROVE i + 1 \in P
    <2>1. PICK acc, f, t : /\ acc = Visits(def, given)[i] /\ f = def[i + 1]
                           /\ t = Visits(def, given)[i + 1]
      OBVIOUS
    <2>2. Sofar(def, given, i, acc) /\ f \in FieldDef /\ t = Visit(acc, f)
      <3>1. i + 1 \in 1 .. N
        BY <1>1, <1>3
      <3>2. Visits(def, given)[i + 1] = Visit(Visits(def, given)[i], def[i + 1])
        BY <1>3, VisitsRun
      <3> QED
        BY <1>1, <1>3, <2>1, <3>1, <3>2
    <2>3. TurnOf(acc, f, t)
      BY <2>2, VisitTurns DEF Sofar
    <2>4. \A j \in 1 .. i + 1 : j \in 1 .. i \/ j = i + 1
      BY <1>1, <1>3
    <2>5. i + 1 \in DOMAIN def
      BY <1>1, <1>3
    <2>6. \A n \in DOMAIN given : n \in DOMAIN t.fields /\ t.fields[n] = given[n]
      BY <2>2, <2>3 DEF Sofar, TurnOf
    <2>7. \A j \in 1 .. i + 1 : def[j].default # "nil" => def[j].name \in DOMAIN t.fields
      BY <2>1, <2>2, <2>3, <2>4 DEF Sofar, TurnOf
    <2>8. \A j \in 1 .. i + 1 : def[j].required => def[j].name \in DOMAIN t.fields \/ HasErrors(t.issues)
      BY <2>1, <2>2, <2>3, <2>4 DEF Sofar, TurnOf
    <2>9. ASSUME HasErrors(t.issues)
          PROVE  \E j \in DOMAIN def : /\ def[j].required /\ def[j].default = "nil"
                                       /\ def[j].name \notin DOMAIN given
      <3>1. CASE HasErrors(acc.issues)
        BY <2>2, <3>1 DEF Sofar
      <3>2. CASE f.required /\ f.default = "nil" /\ f.name \notin DOMAIN acc.fields
        BY <2>1, <2>2, <2>5, <3>2 DEF Sofar
      <3> QED
        BY <2>3, <2>9, <3>1, <3>2 DEF TurnOf
    <2>10. ASSUME NEW n \in DOMAIN t.fields
           PROVE  n \in DOMAIN given
                  \/ \E j \in DOMAIN def : def[j].name = n /\ def[j].default # "nil"
      <3>1. n \in DOMAIN acc.fields \/ (n = f.name /\ f.default # "nil")
        BY <2>3 DEF TurnOf
      <3> QED
        BY <2>1, <2>2, <2>5, <3>1 DEF Sofar
    <2>11. Sofar(def, given, i + 1, t)
      BY <2>3, <2>6, <2>7, <2>8, <2>9, <2>10 DEF Sofar, TurnOf
    <2> QED
      BY <1>3, <2>1, <2>11
  <1> HIDE DEF P
  <1>4. \A i \in 0 .. N : i \in P
    <2>1. \A i \in 0 .. N : i + 1 \in 0 .. N /\ i \in P => i + 1 \in P
      BY <1>3
    <2> QED
      BY <1>1, <1>2, <2>1, Climb
  <1> QED
    BY <1>4 DEF P

\* Over a map with all that def requires or has a default for, nothing happens.
LEMMA LoopRests ==
    ASSUME NEW def, IsDef(def), NEW given, IsMap(given),
           \A j \in DOMAIN def : def[j].required \/ def[j].default # "nil" => def[j].name \in DOMAIN given
    PROVE  \A i \in 0 .. Len(def) : /\ IsLoop(Visits(def, given)[i])
                                    /\ Visits(def, given)[i].fields = given
                                    /\ ~HasErrors(Visits(def, given)[i].issues)
  <1> DEFINE N == Len(def)
             Rests(acc) == IsLoop(acc) /\ acc.fields = given /\ ~HasErrors(acc.issues)
             P == {i \in 0 .. N : Rests(Visits(def, given)[i])}
  <1>1. N \in Nat /\ DOMAIN def = 1 .. N /\ \A i \in 1 .. N : def[i] \in FieldDef
    BY DEF IsDef
  <1>2. 0 \in P
    <2>1. PICK acc : acc = Visits(def, given)[0]
      OBVIOUS
    <2>2. acc = [fields |-> given, issues |-> {}]
      BY <2>1, VisitsRun
    <2>3. acc.fields = given /\ acc.issues = {}
      BY <2>2
    <2>4. Rests(acc)
      BY <2>2, <2>3, NoIssues DEF IsLoop
    <2> QED
      BY <1>1, <2>1, <2>4
  <1>3. ASSUME NEW i \in 0 .. N, i + 1 \in 0 .. N, i \in P PROVE i + 1 \in P
    <2>1. PICK acc, f, t : /\ acc = Visits(def, given)[i] /\ f = def[i + 1]
                           /\ t = Visits(def, given)[i + 1]
      OBVIOUS
    <2>2. Rests(acc) /\ f \in FieldDef /\ t = Visit(acc, f) /\ i + 1 \in DOMAIN def
      <3>1. i + 1 \in 1 .. N
        BY <1>1, <1>3
      <3>2. Visits(def, given)[i + 1] = Visit(Visits(def, given)[i], def[i + 1])
        BY <1>3, VisitsRun
      <3> QED
        BY <1>1, <1>3, <2>1, <3>1, <3>2
    <2>3. TurnOf(acc, f, t)
      BY <2>2, VisitTurns
    <2>4. f.required \/ f.default # "nil" => f.name \in DOMAIN given
      BY <2>1, <2>2
    <2>5. f.required \in BOOLEAN
      BY <2>2 DEF FieldDef
    <2>6. Rests(t)
      BY <2>2, <2>3, <2>4, <2>5 DEF TurnOf
    <2> QED
      BY <1>3, <2>1, <2>6
  <1> HIDE DEF P
  <1>4. \A i \in 0 .. N : i \in P
    <2>1. \A i \in 0 .. N : i + 1 \in 0 .. N /\ i \in P => i + 1 \in P
      BY <1>3
    <2> QED
      BY <1>1, <1>2, <2>1, Climb
  <1> QED
    BY <1>4 DEF P

\* The unknown names only warn.
LEMMA ValidateIs ==
    ASSUME NEW def, NEW fields, NEW loop, loop = Visits(def, Given(fields))[Len(def)], IsLoop(loop)
    PROVE  /\ ValidateEntity(def, fields).fields = loop.fields
           /\ HasErrors(ValidateEntity(def, fields).issues) <=> HasErrors(loop.issues)
  <1> DEFINE known == {def[i].name : i \in DOMAIN def}
             warned == {[field |-> n, severity |-> "warning"] : n \in DOMAIN Given(fields) \ known}
             v == ValidateEntity(def, fields)
  <1>1. v = [loop EXCEPT !.issues = loop.issues \cup warned]
    BY DEF ValidateEntity
  <1>2. \A i \in warned : i.severity # "error"
    OBVIOUS
  <1> HIDE DEF warned, v
  <1>3. v = [fields |-> loop.fields, issues |-> loop.issues \cup warned]
    BY <1>1 DEF IsLoop
  <1>4. v.fields = loop.fields /\ v.issues = loop.issues \cup warned
    BY <1>3
  <1>5. HasErrors(v.issues) <=> HasErrors(loop.issues)
    BY <1>2, <1>4 DEF HasErrors
  <1> QED
    BY <1>4, <1>5 DEF v

LEMMA CreatedIs ==
    ASSUME NEW def, NEW fields
    PROVE  LET v == ValidateEntity(def, fields) IN
           /\ HasErrors(v.issues) => Created(def, fields) = Rejected
           /\ ~HasErrors(v.issues) /\ fields = NoMap => Created(def, fields) = NoFields
           /\ ~HasErrors(v.issues) /\ fields # NoMap => Created(def, fields) = v.fields
  BY DEF Created

\* No map of fields is the nil map or a rejection.
LEMMA MapsOnly ==
    ASSUME NEW fields, IsMap(fields)
    PROVE  fields # NoMap /\ fields # Rejected /\ Given(fields) = fields
  <1>1. \A n \in DOMAIN fields : fields[n] \notin {"no map", "rejected"}
    BY DEF IsMap, Kinds
  <1>2. /\ "none" \in DOMAIN NoMap /\ NoMap["none"] = "no map"
        /\ "none" \in DOMAIN Rejected /\ Rejected["none"] = "rejected"
    BY DEF NoMap, Rejected
  <1> QED
    BY <1>1, <1>2, Zenon DEF Given

LEMMA ValidationHolds ==
    ASSUME NEW def, IsDef(def), NEW fields, fields = NoMap \/ IsMap(fields)
    PROVE  RequiredStored(def, fields) /\ CallerKept(def, fields) /\ CreatedAgain(def, fields)
  <1> DEFINE given == Given(fields)
             loop == Visits(def, given)[Len(def)]
             e == Created(def, fields)
  <1>1. IsMap(given) /\ (fields # NoMap => given = fields) /\ (fields = NoMap => given = NoFields)
    <2>1. IsMap(NoFields)
      BY DEF IsMap, NoFields
    <2> QED
      BY <2>1, MapsOnly DEF Given
  <1>2. Len(def) \in 0 .. Len(def) /\ DOMAIN def = 1 .. Len(def)
    BY DEF IsDef
  <1> HIDE DEF given
  <1>3. Sofar(def, given, Len(def), loop)
    BY <1>1, <1>2, LoopKeeps
  <1> HIDE DEF loop
  <1>4. IsLoop(loop) /\ IsMap(loop.fields)
    BY <1>3 DEF Sofar, IsLoop
  <1>5. /\ HasErrors(loop.issues) => e = Rejected
        /\ ~HasErrors(loop.issues) /\ fields = NoMap => e = NoFields
        /\ ~HasErrors(loop.issues) /\ fields # NoMap => e = loop.fields
    BY <1>4, ValidateIs, CreatedIs DEF loop, given
  <1>6. NoFields # Rejected /\ loop.fields # Rejected /\ DOMAIN NoFields = {}
    <2>1. IsMap(NoFields) /\ DOMAIN NoFields = {}
      BY DEF IsMap, NoFields
    <2> QED
      BY <1>4, <2>1, MapsOnly
  <1> HIDE DEF e
  <1>7. e # Rejected => ~HasErrors(loop.issues)
    BY <1>5
  <1>8. e = Rejected => HasErrors(loop.issues)
    BY <1>5, <1>6
  <1>9. RequiredStored(def, fields)
    <2> DEFINE defaulted == {def[i].name : i \in {j \in DOMAIN def : def[j].default # "nil"}}
    <2> SUFFICES ASSUME e # Rejected, NEW i \in DOMAIN def, def[i].required,
                        fields = NoMap => def[i].name \notin defaulted
                 PROVE  def[i].name \in DOMAIN e
      BY DEF RequiredStored, e
    <2>1. def[i].name \in DOMAIN loop.fields
      BY <1>2, <1>3, <1>7 DEF Sofar
    <2>2. fields # NoMap
      <3> SUFFICES ASSUME fields = NoMap PROVE FALSE
        OBVIOUS
      <3>1. def[i].name \notin DOMAIN given
        BY <1>1, <1>6
      <3> QED
        BY <1>3, <2>1, <3>1 DEF Sofar
    <2> QED
      BY <1>5, <1>7, <2>1, <2>2
  <1>10. CallerKept(def, fields)
    <2>1. ASSUME e = Rejected
          PROVE  \E i \in DOMAIN def : /\ def[i].required /\ def[i].default = "nil"
                                       /\ def[i].name \notin DOMAIN given
      BY <1>3, <1>8, <2>1 DEF Sofar
    <2>2. ASSUME e # Rejected, NEW n \in DOMAIN given PROVE n \in DOMAIN e /\ e[n] = given[n]
      BY <1>1, <1>3, <1>5, <1>6, <1>7, <2>2 DEF Sofar
    <2> QED
      BY <2>1, <2>2, Zenon DEF CallerKept, e, given
  <1>11. CreatedAgain(def, fields)
    <2> SUFFICES ASSUME e # Rejected, fields # NoMap PROVE Created(def, e) = e
      BY DEF CreatedAgain, e
    <2>1. IsMap(e) /\ e # NoMap /\ Given(e) = e
      BY <1>4, <1>5, <1>7, MapsOnly
    <2>2. \A j \in DOMAIN def : def[j].required \/ def[j].default # "nil" => def[j].name \in DOMAIN e
      BY <1>2, <1>3, <1>5, <1>7 DEF Sofar
    <2> DEFINE again == Visits(def, e)[Len(def)]
    <2>3. IsLoop(again) /\ again.fields = e /\ ~HasErrors(again.issues)
      BY <1>2, <2>1, <2>2, LoopRests
    <2> HIDE DEF again
    <2>4. ValidateEntity(def, e).fields = e /\ ~HasErrors(ValidateEntity(def, e).issues)
      <3>1. again = Visits(def, Given(e))[Len(def)]
        BY <2>1 DEF again
      <3> QED
        BY <2>3, <3>1, ValidateIs
    <2> QED
      BY <2>1, <2>4, CreatedIs
  <1> QED
    BY <1>9, <1>10, <1>11

\* entity.create (ValidateEntity, opEntityCreate), for type definitions of any length
\* and any map of fields: what is required is stored, what the caller sent is stored as
\* it is or the message refused for want of a required field, and what was stored is
\* accepted unchanged.
THEOREM ValidationKeeps ==
    ASSUME input.of = "validation" =>
               IsDef(input.def) /\ (input.fields = NoMap \/ IsMap(input.fields))
    PROVE  ValidationSound
  <1> SUFFICES ASSUME input.of = "validation"
               PROVE  /\ RequiredStored(input.def, input.fields)
                      /\ CallerKept(input.def, input.fields)
                      /\ CreatedAgain(input.def, input.fields)
    BY DEF ValidationSound
  <1> QED
    BY ValidationHolds

-----------------------------------------------------------------------------
(***************************************************************************)
(* Answers.  The loop over the questions fills the map with what was       *)
(* answered, each text as a value of its field's type.                     *)
(***************************************************************************)
LEMMA CoerceIs ==
    ASSUME NEW raw, NEW type \in TypeNames
    PROVE  /\ CoerceField(raw, type) \in Kinds \cup {"rejected", "nan"}
           /\ CoerceField(raw, type) \notin {"rejected", "nan"} /\ type # "timestamp" =>
                WellTyped(CoerceField(raw, type), type)
  <1> DEFINE v == CoerceField(raw, type)
  <1>1. CASE type = "number"
    <2>1. v = "number" \/ v = "nan" \/ v = "rejected"
      BY <1>1, Zenon DEF CoerceField
    <2> HIDE DEF v
    <2>2. v \in Kinds \cup {"rejected", "nan"} /\ (v \notin {"rejected", "nan"} => WellTyped(v, type))
      BY <1>1, <2>1 DEF WellTyped, Kinds
    <2> QED
      BY <2>2 DEF v
  <1>2. CASE type = "boolean"
    <2>1. v = "boolean"
      BY <1>2, Zenon DEF CoerceField
    <2> HIDE DEF v
    <2>2. v \in Kinds \cup {"rejected", "nan"} /\ WellTyped(v, type)
      BY <1>2, <2>1 DEF WellTyped, Kinds
    <2> QED
      BY <2>2 DEF v
  <1>3. CASE type = "list_of"
    <2>1. v = "list" \/ v = "relisted"
      BY <1>3, Zenon DEF CoerceField
    <2> HIDE DEF v
    <2>2. v \in Kinds \cup {"rejected", "nan"} /\ WellTyped(v, type)
      BY <1>3, <2>1 DEF WellTyped, Kinds
    <2> QED
      BY <2>2 DEF v
  <1>4. CASE type \notin {"number", "boolean", "list_of"}
    <2>1. v = "time" \/ v = "string"
      BY <1>4, Zenon DEF CoerceField
    <2>2. type \in {"string", "reference", "timestamp", "other"}
      BY <1>4 DEF TypeNames
    <2> HIDE DEF v
    <2>3. v \in Kinds \cup {"rejected", "nan"} /\ (type # "timestamp" => WellTyped(v, type))
      BY <2>1, <2>2 DEF WellTyped, Kinds
    <2> QED
      BY <2>3 DEF v
  <1> QED
    BY <1>1, <1>2, <1>3, <1>4

\* A default that is well typed and no list comes back from its text.
LEMMA DefaultIs ==
    ASSUME NEW default \in Kinds, NEW type \in TypeNames
    PROVE  /\ TextOf(default) = Nothing <=> default = "nil"
           /\ default \notin {"nil", "list", "relisted"} /\ type # "other" /\ WellTyped(default, type) =>
                CoerceField(TextOf(default), type) = default
  <1>1. ASSUME default = "nil" PROVE TextOf(default) = Nothing
    BY <1>1, Zenon DEF TextOf
  <1>2. ASSUME default = "number" PROVE TextOf(default) = "digits"
    BY <1>2, Zenon DEF TextOf
  <1>3. ASSUME default = "time" PROVE TextOf(default) = "time"
    BY <1>3, Zenon DEF TextOf
  <1>4. ASSUME default \in {"list", "relisted"} PROVE TextOf(default) = "bracketed"
    BY <1>4, Zenon DEF TextOf
  <1>5. ASSUME default \notin {"nil", "number", "time", "list", "relisted"} PROVE TextOf(default) = "word"
    BY <1>5, Zenon DEF TextOf
  <1>6. "digits" # Nothing /\ "time" # Nothing /\ "bracketed" # Nothing /\ "word" # Nothing
    BY Zenon DEF Nothing
  <1>7. TextOf(default) = Nothing <=> default = "nil"
    BY <1>1, <1>2, <1>3, <1>4, <1>5, <1>6
  <1>8. ASSUME default \notin {"nil", "list", "relisted"}, type # "other", WellTyped(default, type)
        PROVE  CoerceField(TextOf(default), type) = default
    <2>1. CASE type = "number"
      <3>1. default = "number" /\ TextOf(default) = "digits"
        BY <1>2, <1>8, <2>1 DEF WellTyped
      <3>2. CoerceField("digits", "number") = "number"
        BY Zenon DEF CoerceField
      <3> QED
        BY <2>1, <3>1, <3>2
    <2>2. CASE type = "boolean"
      <3>1. default = "boolean" /\ TextOf(default) = "word"
        BY <1>5, <1>8, <2>2 DEF WellTyped
      <3>2. CoerceField("word", "boolean") = "boolean"
        BY Zenon DEF CoerceField
      <3> QED
        BY <2>2, <3>1, <3>2
    <2>3. CASE type \in {"string", "reference", "timestamp"}
      <3>1. default = "time" \/ default = "string"
        BY <1>8, <2>3 DEF WellTyped
      <3>2. \A raw : CoerceField(raw, type) = IF raw = "time" THEN "time" ELSE "string"
        BY <2>3, Zenon DEF CoerceField
      <3>3. CASE default = "time"
        BY <1>3, <3>2, <3>3
      <3>4. CASE default = "string"
        <4>1. TextOf(default) = "word"
          BY <1>5, <3>4
        <4> QED
          BY <3>2, <3>4, <4>1
      <3> QED
        BY <3>1, <3>3, <3>4
    <2>4. type # "list_of"
      BY <1>8 DEF WellTyped
    <2> QED
      BY <1>8, <2>1, <2>2, <2>3, <2>4 DEF TypeNames
  <1> QED
    BY <1>7, <1>8

\* The loop over the questions.
LEMMA FilledRuns ==
    ASSUME NEW def, IsDef(def), NEW raws
    PROVE  /\ Filled(def, raws)[0] = NoFields
           /\ \A i \in 0 .. Len(def) : i + 1 \in 0 .. Len(def) =>
                Filled(def, raws)[i + 1] = Answered(Filled(def, raws)[i], def[i + 1], raws[i + 1])
  <1> DEFINE N == Len(def)
             Runs(g, n) ==
                 g = [i \in 0 .. n |-> IF i = 0 THEN NoFields ELSE Answered(g[i - 1], def[i], raws[i])]
             P == {n \in 0 .. N : \E g : Runs(g, n)}
  <1>1. N \in Nat
    BY DEF IsDef
  <1> HIDE DEF N
  <1>2. 0 \in P
    <2> DEFINE g == [i \in 0 .. 0 |-> NoFields]
    <2>1. Runs(g, 0)
      BY <1>1
    <2> HIDE DEF g
    <2> QED
      BY <1>1, <2>1
  <1>3. ASSUME NEW n \in 0 .. N, n + 1 \in 0 .. N, n \in P PROVE n + 1 \in P
    <2>1. PICK f : Runs(f, n)
      BY <1>3
    <2> DEFINE g == [i \in 0 .. n + 1 |->
                        IF i = n + 1 THEN Answered(f[n], def[n + 1], raws[n + 1]) ELSE f[i]]
    <2>2. ASSUME NEW i \in 0 .. n + 1
          PROVE  g[i] = IF i = 0 THEN NoFields ELSE Answered(g[i - 1], def[i], raws[i])
      <3>1. CASE i = n + 1
        <4>1. i # 0 /\ i - 1 = n /\ n \in 0 .. n + 1 /\ n # n + 1
          BY <1>1, <1>3, <3>1
        <4>2. g[i] = Answered(f[n], def[i], raws[i]) /\ g[i - 1] = f[n]
          BY <3>1, <4>1
        <4> QED
          BY <4>1, <4>2
      <3>2. CASE i # n + 1
        <4>1. i \in 0 .. n /\ (i # 0 => i - 1 \in 0 .. n + 1 /\ i - 1 # n + 1)
          BY <1>1, <1>3, <3>2
        <4>2. f[i] = IF i = 0 THEN NoFields ELSE Answered(f[i - 1], def[i], raws[i])
          BY <2>1, <4>1
        <4> QED
          BY <3>2, <4>1, <4>2
      <3> QED
        BY <3>1, <3>2
    <2>3. g = [i \in 0 .. n + 1 |-> g[i]]
      OBVIOUS
    <2>4. Runs(g, n + 1)
      <3> HIDE DEF g
      <3> QED
        BY <2>2, <2>3
    <2> QED
      BY <1>3, <2>4
  <1>4. \A n \in 0 .. N : n \in P
    <2>1. \A n \in 0 .. N : n + 1 \in 0 .. N /\ n \in P => n + 1 \in P
      BY <1>3
    <2> HIDE DEF P
    <2> QED
      BY <1>1, <1>2, <2>1, Climb
  <1>5. \E g : Runs(g, N)
    BY <1>1, <1>4
  <1>6. Filled(def, raws) = CHOOSE g : Runs(g, N)
    BY Zenon DEF Filled, N
  <1>7. Runs(Filled(def, raws), N)
    BY <1>5, <1>6, Zenon
  <1>8. PICK a : a = Filled(def, raws)
    OBVIOUS
  <1>9. a = [i \in 0 .. N |-> IF i = 0 THEN NoFields ELSE Answered(a[i - 1], def[i], raws[i])]
    BY <1>7, <1>8
  <1>10. a[0] = NoFields
    BY <1>1, <1>9
  <1>11. ASSUME NEW i \in 0 .. N, i + 1 \in 0 .. N PROVE a[i + 1] = Answered(a[i], def[i + 1], raws[i + 1])
    <2>1. i + 1 # 0 /\ (i + 1) - 1 = i
      BY <1>1
    <2> QED
      BY <1>9, <1>11, <2>1
  <1> QED
    BY <1>8, <1>10, <1>11 DEF N

\* What the questions up to i leave of these texts.
FilledTo(def, raws, i, m) ==
    /\ m = [n \in DOMAIN m |-> m[n]]
    /\ DOMAIN m = {def[j].name : j \in {k \in 1 .. i : raws[k] # Nothing}}
    /\ \A j \in 1 .. i : raws[j] # Nothing => m[def[j].name] = CoerceField(raws[j], def[j].type)

LEMMA FilledAre ==
    ASSUME NEW def, IsDef(def), OneFieldPerName(def), NEW raws
    PROVE  \A i \in 0 .. Len(def) : FilledTo(def, raws, i, Filled(def, raws)[i])
  <1> DEFINE N == Len(def)
             P == {i \in 0 .. N : FilledTo(def, raws, i, Filled(def, raws)[i])}
  <1>1. N \in Nat /\ DOMAIN def = 1 .. N /\ \A i \in 1 .. N : def[i] \in FieldDef
    BY DEF IsDef
  <1>2. 0 \in P
    <2>1. FilledTo(def, raws, 0, NoFields)
      BY DEF FilledTo, NoFields
    <2> QED
      BY <1>1, <2>1, FilledRuns
  <1>3. ASSUME NEW i \in 0 .. N, i + 1 \in 0 .. N, i \in P PROVE i + 1 \in P
    <2>1. PICK m, f, raw, t : /\ m = Filled(def, raws)[i] /\ f = def[i + 1] /\ raw = raws[i + 1]
                              /\ t = Filled(def, raws)[i + 1]
      OBVIOUS
    <2>2. FilledTo(def, raws, i, m) /\ t = Answered(m, f, raw) /\ i + 1 \in 1 .. N
      <3>1. i + 1 \in 1 .. N
        BY <1>1, <1>3
      <3>2. Filled(def, raws)[i + 1] = Answered(Filled(def, raws)[i], def[i + 1], raws[i + 1])
        BY <1>3, FilledRuns
      <3> QED
        BY <1>3, <2>1, <3>1, <3>2
    <2>3. \A j \in 1 .. i + 1 : j \in 1 .. i \/ j = i + 1
      BY <1>1, <1>3
    <2>4. \A j \in 1 .. i : j \in 1 .. i + 1 /\ j \in 1 .. N /\ def[j].name # f.name
      <3>1. \A j \in 1 .. i : j \in 1 .. i + 1 /\ j \in 1 .. N /\ j # i + 1
        BY <1>1, <1>3
      <3> QED
        BY <1>1, <2>1, <2>2, <3>1 DEF OneFieldPerName
    <2>5. CASE raw = Nothing
      <3>1. t = m
        BY <2>2, <2>5 DEF Answered
      <3>2. {k \in 1 .. i + 1 : raws[k] # Nothing} = {k \in 1 .. i : raws[k] # Nothing}
        BY <2>1, <2>3, <2>4, <2>5
      <3>3. FilledTo(def, raws, i + 1, t)
        BY <2>1, <2>2, <2>3, <2>5, <3>1, <3>2 DEF FilledTo
      <3> QED
        BY <1>3, <2>1, <3>3
    <2>6. CASE raw # Nothing
      <3> DEFINE v == CoerceField(raw, f.type)
      <3>1. Extended(m, f.name, v, t)
        BY <2>2, <2>6, WithIs DEF Answered
      <3>2. t = [n \in DOMAIN t |-> t[n]]
        BY <2>2, <2>6 DEF Answered, With
      <3>3. {k \in 1 .. i + 1 : raws[k] # Nothing} = {k \in 1 .. i : raws[k] # Nothing} \cup {i + 1}
        BY <1>1, <1>3, <2>1, <2>3, <2>4, <2>6
      <3>4. DOMAIN t = {def[j].name : j \in {k \in 1 .. i + 1 : raws[k] # Nothing}}
        BY <2>1, <2>2, <3>1, <3>3 DEF FilledTo, Extended
      <3>5. ASSUME NEW j \in 1 .. i + 1, raws[j] # Nothing
            PROVE  t[def[j].name] = CoerceField(raws[j], def[j].type)
        <4>1. CASE j = i + 1
          BY <2>1, <3>1, <4>1 DEF Extended
        <4>2. CASE j \in 1 .. i
          <5>1. def[j].name \in DOMAIN m /\ m[def[j].name] = CoerceField(raws[j], def[j].type)
            BY <2>2, <3>5, <4>2 DEF FilledTo
          <5> QED
            BY <2>4, <3>1, <4>2, <5>1 DEF Extended
        <4> QED
          BY <2>3, <4>1, <4>2
      <3>6. FilledTo(def, raws, i + 1, t)
        BY <3>2, <3>4, <3>5 DEF FilledTo
      <3> QED
        BY <1>3, <2>1, <3>6
    <2> QED
      BY <2>5, <2>6
  <1> HIDE DEF P
  <1>4. \A i \in 0 .. N : i \in P
    <2>1. \A i \in 0 .. N : i + 1 \in 0 .. N /\ i \in P => i + 1 \in P
      BY <1>3
    <2> QED
      BY <1>1, <1>2, <2>1, Climb
  <1> QED
    BY <1>4 DEF P

\* A map that can be sent has the answers as values of their types.
LEMMA SendableIs ==
    ASSUME NEW def, IsDef(def), NEW raws, NEW m, FilledTo(def, raws, Len(def), m), ~Unsendable(m)
    PROVE  /\ IsMap(m) /\ m # NoMap /\ m # Rejected /\ Given(m) = m
           /\ \A j \in DOMAIN def : raws[j] # Nothing =>
                /\ def[j].name \in DOMAIN m /\ m[def[j].name] = CoerceField(raws[j], def[j].type)
                /\ def[j].type # "timestamp" => WellTyped(m[def[j].name], def[j].type)
  <1>1. DOMAIN def = 1 .. Len(def) /\ \A j \in DOMAIN def : def[j].type \in TypeNames
    <2>1. DOMAIN def = 1 .. Len(def) /\ \A j \in DOMAIN def : def[j] \in FieldDef
      BY DEF IsDef
    <2>2. \A f \in FieldDef : f.type \in TypeNames
      BY DEF FieldDef
    <2> QED
      BY <2>1, <2>2
  <1>2. ASSUME NEW j \in DOMAIN def, raws[j] # Nothing
        PROVE  /\ def[j].name \in DOMAIN m /\ m[def[j].name] = CoerceField(raws[j], def[j].type)
               /\ m[def[j].name] \in Kinds
               /\ def[j].type # "timestamp" => WellTyped(m[def[j].name], def[j].type)
    <2>1. PICK n, v, type : n = def[j].name /\ v = m[n] /\ type = def[j].type
      OBVIOUS
    <2>2. n \in DOMAIN m /\ v = CoerceField(raws[j], type) /\ type \in TypeNames
      BY <1>1, <1>2, <2>1 DEF FilledTo
    <2>3. v \notin {"rejected", "nan"}
      BY <2>1, <2>2 DEF Unsendable
    <2>4. v \in Kinds /\ (type # "timestamp" => WellTyped(v, type))
      BY <2>2, <2>3, CoerceIs
    <2> QED
      BY <2>1, <2>2, <2>4
  <1>3. IsMap(m)
    <2>1. \A n \in DOMAIN m : m[n] \in Kinds
      BY <1>1, <1>2 DEF FilledTo
    <2> QED
      BY <2>1 DEF FilledTo, IsMap
  <1> QED
    BY <1>2, <1>3, MapsOnly

LEMMA TypedHolds ==
    ASSUME NEW def, IsDef(def), NEW answers
    PROVE  TypedAsDeclared(def, answers)
  <1> DEFINE raws == [i \in DOMAIN def |-> Ask(answers[i], def[i].default)]
             F == Fields(def, answers)
  <1> SUFFICES ASSUME OneFieldPerName(def), NEW e, e = Prompted(def, answers) \/ e = PromptedRelation(def, answers),
                      e # Rejected, NEW i \in DOMAIN def, answers[i] # Nothing, def[i].type # "timestamp"
               PROVE  WellTyped(e[def[i].name], def[i].type)
    BY DEF TypedAsDeclared
  <1>1. Len(def) \in 0 .. Len(def)
    BY DEF IsDef
  <1>2. FilledTo(def, raws, Len(def), F)
    <2>1. F = Filled(def, raws)[Len(def)]
      BY DEF Fields
    <2> HIDE DEF raws, F
    <2> QED
      BY <1>1, <2>1, FilledAre
  <1>3. raws[i] = answers[i]
    BY DEF Ask
  <1> HIDE DEF raws
  <1>4. ~Unsendable(F) /\ (e = Created(def, F) \/ e = F)
    BY DEF Prompted, PromptedRelation
  <1> HIDE DEF F
  <1>5. /\ IsMap(F) /\ F # NoMap /\ Given(F) = F
        /\ def[i].name \in DOMAIN F /\ WellTyped(F[def[i].name], def[i].type)
    BY <1>2, <1>3, <1>4, SendableIs
  <1>6. CASE e = Created(def, F)
    <2>1. CallerKept(def, F)
      BY <1>5, ValidationHolds
    <2>2. e[def[i].name] = F[def[i].name]
      BY <1>5, <1>6, <2>1 DEF CallerKept
    <2> QED
      BY <1>5, <2>2
  <1>7. CASE e = F
    BY <1>5, <1>7
  <1> QED
    BY <1>4, <1>6, <1>7

LEMMA UpdateHolds ==
    ASSUME NEW def, IsDef(def), NEW data, NEW answers, \A i \in DOMAIN def : answers[i] # "shown"
    PROVE  OnlyAnswersChange(def, data, answers)
  <1> DEFINE raws == [i \in DOMAIN def |-> Changed(data, def[i], answers[i])]
             U == Updates(def, data, answers)
             e == PromptedUpdate(def, data, answers)
             typed == {def[i].name : i \in {j \in DOMAIN def : answers[j] # Nothing}}
  <1> SUFFICES ASSUME OneFieldPerName(def), e # Rejected
               PROVE  /\ DOMAIN e = DOMAIN data \cup typed
                      /\ \A n \in DOMAIN data \ typed : e[n] = data[n]
                      /\ \A i \in DOMAIN def :
                            answers[i] # Nothing /\ def[i].type # "timestamp" =>
                                WellTyped(e[def[i].name], def[i].type)
    BY DEF OnlyAnswersChange
  <1>1. Len(def) \in 0 .. Len(def) /\ DOMAIN def = 1 .. Len(def)
    BY DEF IsDef
  <1>2. FilledTo(def, raws, Len(def), U)
    <2>1. U = Filled(def, raws)[Len(def)]
      BY DEF Updates
    <2> HIDE DEF raws, U
    <2> QED
      BY <1>1, <2>1, FilledAre
  <1>3. \A i \in DOMAIN def : raws[i] = answers[i]
    BY DEF Changed, Displayed
  <1> HIDE DEF raws
  <1>4. /\ ~Unsendable(U)
        /\ e = [n \in DOMAIN data \cup DOMAIN U |-> IF n \in DOMAIN U THEN U[n] ELSE data[n]]
    BY DEF PromptedUpdate
  <1> HIDE DEF U, e
  <1>5. \A i \in DOMAIN def : answers[i] # Nothing =>
            /\ def[i].name \in DOMAIN U
            /\ def[i].type # "timestamp" => WellTyped(U[def[i].name], def[i].type)
    BY <1>2, <1>3, <1>4, SendableIs
  <1>6. DOMAIN U = typed
    BY <1>1, <1>2, <1>3 DEF FilledTo
  <1> HIDE DEF typed
  <1>7. DOMAIN e = DOMAIN data \cup typed /\ \A n \in DOMAIN e : e[n] = IF n \in typed THEN U[n] ELSE data[n]
    BY <1>4, <1>6
  <1>8. ASSUME NEW i \in DOMAIN def, answers[i] # Nothing, def[i].type # "timestamp"
        PROVE  WellTyped(e[def[i].name], def[i].type)
    <2>1. def[i].name \in DOMAIN e /\ e[def[i].name] = U[def[i].name]
      BY <1>5, <1>6, <1>7, <1>8
    <2> QED
      BY <1>5, <1>8, <2>1
  <1> QED
    BY <1>7, <1>8

\* The loop of validation with one field per name: the map as the defaults leave it.
Defaulted(def, given, i, acc) ==
    /\ IsLoop(acc)
    /\ DOMAIN acc.fields = DOMAIN given \cup {def[j].name : j \in {k \in 1 .. i : def[k].default # "nil"}}
    /\ \A n \in DOMAIN given : acc.fields[n] = given[n]
    /\ \A j \in 1 .. i : def[j].default # "nil" /\ def[j].name \notin DOMAIN given =>
           acc.fields[def[j].name] = def[j].default
    /\ HasErrors(acc.issues) <=> \E j \in 1 .. i : /\ def[j].required /\ def[j].default = "nil"
                                                   /\ def[j].name \notin DOMAIN given

LEMMA LoopDefaults ==
    ASSUME NEW def, IsDef(def), OneFieldPerName(def), NEW given, IsMap(given)
    PROVE  \A i \in 0 .. Len(def) : Defaulted(def, given, i, Visits(def, given)[i])
  <1> DEFINE N == Len(def)
             P == {i \in 0 .. N : Defaulted(def, given, i, Visits(def, given)[i])}
  <1>1. N \in Nat /\ DOMAIN def = 1 .. N /\ \A i \in 1 .. N : def[i] \in FieldDef
    BY DEF IsDef
  <1>2. 0 \in P
    <2>1. PICK acc : acc = Visits(def, given)[0]
      OBVIOUS
    <2>2. acc = [fields |-> given, issues |-> {}]
      BY <2>1, VisitsRun
    <2>3. acc.fields = given /\ acc.issues = {}
      BY <2>2
    <2>4. Defaulted(def, given, 0, acc)
      BY <2>2, <2>3, NoIssues DEF Defaulted, IsLoop
    <2> QED
      BY <1>1, <2>1, <2>4
  <1>3. ASSUME NEW i \in 0 .. N, i + 1 \in 0 .. N, i \in P PROVE i + 1 \in P
    <2>1. PICK acc, f, t : /\ acc = Visits(def, given)[i] /\ f = def[i + 1]
                           /\ t = Visits(def, given)[i + 1]
      OBVIOUS
    <2>2. /\ Defaulted(def, given, i, acc) /\ f \in FieldDef /\ t = Visit(acc, f)
          /\ i + 1 \in 1 .. N /\ i + 1 \in 1 .. i + 1
      <3>1. i + 1 \in 1 .. N /\ i + 1 \in 1 .. i + 1
        BY <1>1, <1>3
      <3>2. Visits(def, given)[i + 1] = Visit(Visits(def, given)[i], def[i + 1])
        BY <1>3, VisitsRun
      <3> QED
        BY <1>1, <1>3, <2>1, <3>1, <3>2
    <2>3. TurnOf(acc, f, t)
      BY <2>2, VisitTurns DEF Defaulted
    <2>4. \A j \in 1 .. i + 1 : j \in 1 .. i \/ j = i + 1
      BY <1>1, <1>3
    <2>5. \A j \in 1 .. i : j \in 1 .. i + 1 /\ def[j].name # f.name
      <3>1. \A j \in 1 .. i : j \in 1 .. i + 1 /\ j \in 1 .. N /\ j # i + 1
        BY <1>1, <1>3
      <3> QED
        BY <1>1, <2>1, <2>2, <3>1 DEF OneFieldPerName
    <2>6. f.name \in DOMAIN acc.fields <=> f.name \in DOMAIN given
      BY <2>2, <2>5 DEF Defaulted
    <2>7. DOMAIN t.fields
          = DOMAIN given \cup {def[j].name : j \in {k \in 1 .. i + 1 : def[k].default # "nil"}}
      <3>1. CASE f.default = "nil"
        <4>1. {k \in 1 .. i + 1 : def[k].default # "nil"} = {k \in 1 .. i : def[k].default # "nil"}
          BY <2>1, <2>4, <2>5, <3>1
        <4>2. DOMAIN t.fields = DOMAIN acc.fields
          BY <2>3, <3>1 DEF TurnOf
        <4> QED
          BY <2>2, <4>1, <4>2 DEF Defaulted
      <3>2. CASE f.default # "nil"
        <4>1. {k \in 1 .. i + 1 : def[k].default # "nil"}
              = {k \in 1 .. i : def[k].default # "nil"} \cup {i + 1}
          BY <2>1, <2>2, <2>4, <2>5, <3>2
        <4>2. DOMAIN t.fields = DOMAIN acc.fields \cup {f.name}
          BY <2>3, <3>2 DEF TurnOf
        <4> QED
          BY <2>1, <2>2, <4>1, <4>2 DEF Defaulted
      <3> QED
        BY <3>1, <3>2
    <2>8. \A n \in DOMAIN given : t.fields[n] = given[n]
      BY <2>2, <2>3 DEF Defaulted, TurnOf
    <2>9. ASSUME NEW j \in 1 .. i + 1, def[j].default # "nil", def[j].name \notin DOMAIN given
          PROVE  t.fields[def[j].name] = def[j].default
      <3>1. CASE j = i + 1
        BY <2>1, <2>3, <2>6, <2>9, <3>1 DEF TurnOf
      <3>2. CASE j \in 1 .. i
        <4>1. def[j].name \in DOMAIN acc.fields /\ acc.fields[def[j].name] = def[j].default
          BY <2>2, <2>9, <3>2 DEF Defaulted
        <4> QED
          BY <2>3, <4>1 DEF TurnOf
      <3> QED
        BY <2>4, <3>1, <3>2
    <2>10. HasErrors(t.issues) <=> \E j \in 1 .. i + 1 : /\ def[j].required /\ def[j].default = "nil"
                                                         /\ def[j].name \notin DOMAIN given
      <3>1. HasErrors(t.issues) <=> \/ HasErrors(acc.issues)
                                    \/ f.required /\ f.default = "nil" /\ f.name \notin DOMAIN given
        <4>1. f.required /\ f.default = "nil" /\ f.name \notin DOMAIN given => f.name \notin DOMAIN t.fields
          BY <2>3, <2>6 DEF TurnOf
        <4> QED
          BY <2>3, <2>6, <4>1 DEF TurnOf
      <3> QED
        BY <2>1, <2>2, <2>4, <2>5, <3>1 DEF Defaulted
    <2>11. Defaulted(def, given, i + 1, t)
      BY <2>3, <2>7, <2>8, <2>9, <2>10 DEF Defaulted, TurnOf
    <2> QED
      BY <1>3, <2>1, <2>11
  <1> HIDE DEF P
  <1>4. \A i \in 0 .. N : i \in P
    <2>1. \A i \in 0 .. N : i + 1 \in 0 .. N /\ i \in P => i + 1 \in P
      BY <1>3
    <2> QED
      BY <1>1, <1>2, <2>1, Climb
  <1> QED
    BY <1>4 DEF P

\* The entity that a map makes, where no two fields have one name.
Makes(def, given, e) ==
    LET wanting == \E j \in DOMAIN def : /\ def[j].required /\ def[j].default = "nil"
                                         /\ def[j].name \notin DOMAIN given
        defaults == {j \in DOMAIN def : def[j].default # "nil"}
    IN  /\ wanting => e = Rejected
        /\ ~wanting =>
             /\ e = [n \in DOMAIN e |-> e[n]]
             /\ DOMAIN e = DOMAIN given \cup {def[j].name : j \in defaults}
             /\ \A n \in DOMAIN given : e[n] = given[n]
             /\ \A j \in defaults : def[j].name \notin DOMAIN given => e[def[j].name] = def[j].default

LEMMA CreatedMakes ==
    ASSUME NEW def, IsDef(def), OneFieldPerName(def), NEW given, IsMap(given)
    PROVE  Makes(def, given, Created(def, given))
  <1> DEFINE loop == Visits(def, given)[Len(def)]
             e == Created(def, given)
  <1>1. Len(def) \in 0 .. Len(def) /\ DOMAIN def = 1 .. Len(def)
    BY DEF IsDef
  <1>2. given # NoMap /\ Given(given) = given
    BY MapsOnly
  <1>3. Defaulted(def, given, Len(def), loop)
    BY <1>1, LoopDefaults
  <1>4. (HasErrors(loop.issues) => e = Rejected) /\ (~HasErrors(loop.issues) => e = loop.fields)
    <2>1. IsLoop(loop) /\ loop = Visits(def, Given(given))[Len(def)]
      BY <1>2, <1>3 DEF Defaulted
    <2> HIDE DEF loop
    <2> QED
      BY <1>2, <2>1, ValidateIs, CreatedIs
  <1> HIDE DEF loop, e
  <1>5. loop.fields = [n \in DOMAIN loop.fields |-> loop.fields[n]]
    BY <1>3 DEF Defaulted, IsLoop, IsMap
  <1>6. Makes(def, given, e)
    BY <1>1, <1>3, <1>4, <1>5 DEF Makes, Defaulted
  <1> QED
    BY <1>6 DEF e

\* Maps that have the same where no default would, and defaults elsewhere, make one entity.
LEMMA MakesAlike ==
    ASSUME NEW def, NEW F, NEW M, NEW e, NEW d, Makes(def, F, e), Makes(def, M, d),
           DOMAIN F = DOMAIN M \cup {def[j].name : j \in {k \in DOMAIN def : def[k].default # "nil"}},
           \A n \in DOMAIN M : F[n] = M[n],
           \A j \in DOMAIN def : def[j].default # "nil" /\ def[j].name \notin DOMAIN M =>
               F[def[j].name] = def[j].default,
           \A j \in DOMAIN def : def[j].default = "nil" =>
               (def[j].name \in DOMAIN F <=> def[j].name \in DOMAIN M)
    PROVE  e = d
  <1> DEFINE wanting(given) == \E j \in DOMAIN def : /\ def[j].required /\ def[j].default = "nil"
                                                     /\ def[j].name \notin DOMAIN given
             defaults == {j \in DOMAIN def : def[j].default # "nil"}
  <1>1. wanting(F) <=> wanting(M)
    OBVIOUS
  <1>2. CASE wanting(F)
    <2>1. e = Rejected /\ d = Rejected
      BY <1>1, <1>2 DEF Makes
    <2> QED
      BY <2>1
  <1>3. CASE ~wanting(F)
    <2>1. /\ e = [n \in DOMAIN e |-> e[n]] /\ d = [n \in DOMAIN d |-> d[n]]
          /\ DOMAIN e = DOMAIN F \cup {def[j].name : j \in defaults}
          /\ DOMAIN d = DOMAIN M \cup {def[j].name : j \in defaults}
          /\ \A n \in DOMAIN F : e[n] = F[n]
          /\ \A n \in DOMAIN M : d[n] = M[n]
          /\ \A j \in defaults : def[j].name \notin DOMAIN M => d[def[j].name] = def[j].default
      BY <1>1, <1>3, Zenon DEF Makes
    <2>2. DOMAIN e = DOMAIN d /\ DOMAIN e = DOMAIN F
      BY <2>1
    <2>3. ASSUME NEW n \in DOMAIN e PROVE e[n] = d[n]
      <3>1. n \in DOMAIN F /\ e[n] = F[n]
        BY <2>1, <2>2
      <3>2. CASE n \in DOMAIN M
        BY <2>1, <3>1, <3>2
      <3>3. CASE n \notin DOMAIN M
        <4>1. PICK j \in DOMAIN def : def[j].default # "nil" /\ def[j].name = n
          BY <3>1, <3>3
        <4> QED
          BY <2>1, <3>1, <3>3, <4>1
      <3> QED
        BY <3>2, <3>3
    <2> QED
      BY <2>1, <2>2, <2>3
  <1> QED
    BY <1>2, <1>3

LEMMA BlankHolds ==
    ASSUME NEW def, IsDef(def), NEW answers
    PROVE  BlankMeansAbsent(def, answers)
  <1> DEFINE answered == {i \in DOMAIN def : answers[i] # Nothing}
             M == [n \in {def[i].name : i \in answered} |->
                        LET i == CHOOSE j \in answered : def[j].name = n
                        IN  CoerceField(answers[i], def[i].type)]
             raws == [i \in DOMAIN def |-> Ask(answers[i], def[i].default)]
             F == Fields(def, answers)
  <1> SUFFICES ASSUME OneFieldPerName(def),
                      \A i \in DOMAIN def :
                          /\ WellTyped(def[i].default, def[i].type)
                          /\ def[i].default \notin {"list", "relisted"} /\ def[i].type # "other",
                      \A n \in DOMAIN M : M[n] \notin {"rejected", "nan"}
               PROVE  Prompted(def, answers) = Created(def, M)
    BY Zenon DEF BlankMeansAbsent
  <1>1. /\ Len(def) \in 0 .. Len(def) /\ DOMAIN def = 1 .. Len(def)
        /\ \A i \in DOMAIN def : def[i].default \in Kinds /\ def[i].type \in TypeNames
    <2>1. /\ Len(def) \in 0 .. Len(def) /\ DOMAIN def = 1 .. Len(def)
          /\ \A j \in DOMAIN def : def[j] \in FieldDef
      BY DEF IsDef
    <2>2. \A f \in FieldDef : f.type \in TypeNames /\ f.default \in Kinds
      BY DEF FieldDef
    <2> QED
      BY <2>1, <2>2
  <1>2. FilledTo(def, raws, Len(def), F)
    <2>1. F = Filled(def, raws)[Len(def)]
      BY DEF Fields
    <2> HIDE DEF raws, F
    <2> QED
      BY <1>1, <2>1, FilledAre
  <1>3. DOMAIN M = {def[i].name : i \in answered} /\ M = [n \in DOMAIN M |-> M[n]]
    OBVIOUS
  <1>4. ASSUME NEW i \in answered PROVE M[def[i].name] = CoerceField(answers[i], def[i].type)
    <2>1. PICK n : n = def[i].name
      OBVIOUS
    <2>2. \A j \in answered : def[j].name = n => j = i
      BY <2>1 DEF OneFieldPerName
    <2>3. (CHOOSE j \in answered : def[j].name = n) = i
      <3> HIDE DEF answered
      <3> QED
        BY <2>1, <2>2, Zenon
    <2>4. n \in {def[j].name : j \in answered}
      BY <2>1
    <2> HIDE DEF answered
    <2>5. M[n] = CoerceField(answers[CHOOSE j \in answered : def[j].name = n],
                             def[CHOOSE j \in answered : def[j].name = n].type)
      BY <2>4, Zenon
    <2>6. M[n] = CoerceField(answers[i], def[i].type)
      BY <2>3, <2>5, Zenon
    <2> QED
      BY <2>1, <2>6
  <1>5. ASSUME NEW i \in DOMAIN def
        PROVE  /\ raws[i] # Nothing <=> i \in answered \/ def[i].default # "nil"
               /\ i \in answered => raws[i] = answers[i]
               /\ i \notin answered /\ def[i].default # "nil" =>
                    CoerceField(raws[i], def[i].type) = def[i].default
    <2>1. PICK d, type : d = def[i].default /\ type = def[i].type
      OBVIOUS
    <2>2. /\ d \in Kinds /\ type \in TypeNames /\ WellTyped(d, type)
          /\ d \notin {"list", "relisted"} /\ type # "other"
      BY <1>1, <2>1
    <2>3. /\ TextOf(d) = Nothing <=> d = "nil"
          /\ d # "nil" => CoerceField(TextOf(d), type) = d
      BY <2>2, DefaultIs
    <2>4. raws[i] = IF answers[i] = Nothing THEN TextOf(d) ELSE answers[i]
      BY <2>1 DEF Ask
    <2> HIDE DEF raws
    <2> QED
      BY <2>1, <2>3, <2>4
  <1> HIDE DEF M, raws, F
  <1>6. {k \in DOMAIN def : raws[k] # Nothing} = answered \cup {k \in DOMAIN def : def[k].default # "nil"}
    BY <1>5
  <1>7. DOMAIN F = DOMAIN M \cup {def[j].name : j \in {k \in DOMAIN def : def[k].default # "nil"}}
    BY <1>1, <1>2, <1>3, <1>6 DEF FilledTo
  <1>8. ASSUME NEW n \in DOMAIN M PROVE F[n] = M[n]
    <2>1. PICK i \in answered : def[i].name = n
      BY <1>3
    <2> QED
      BY <1>1, <1>2, <1>4, <1>5, <2>1 DEF FilledTo
  <1>9. ASSUME NEW j \in DOMAIN def, def[j].default # "nil", def[j].name \notin DOMAIN M
        PROVE  F[def[j].name] = def[j].default
    <2>1. j \notin answered
      BY <1>3, <1>9
    <2> QED
      BY <1>1, <1>2, <1>5, <1>9, <2>1 DEF FilledTo
  <1>10. ASSUME NEW j \in DOMAIN def, def[j].default = "nil"
         PROVE  def[j].name \in DOMAIN F <=> def[j].name \in DOMAIN M
    <2>1. ASSUME NEW k \in DOMAIN def, def[k].name = def[j].name PROVE def[k].default = "nil"
      BY <1>10, <2>1 DEF OneFieldPerName
    <2> QED
      BY <1>7, <2>1
  <1>11. IsMap(M)
    <2>1. ASSUME NEW n \in DOMAIN M PROVE M[n] \in Kinds
      <3>1. PICK i \in answered : def[i].name = n
        BY <1>3
      <3>2. M[n] = CoerceField(answers[i], def[i].type) /\ def[i].type \in TypeNames
        BY <1>1, <1>4, <3>1
      <3> QED
        BY <2>1, <3>2, CoerceIs
    <2> QED
      BY <1>3, <2>1 DEF IsMap
  <1>12. IsMap(F)
    <2>1. ASSUME NEW n \in DOMAIN F PROVE F[n] \in Kinds
      <3>1. CASE n \in DOMAIN M
        BY <1>8, <1>11, <3>1 DEF IsMap
      <3>2. CASE n \notin DOMAIN M
        <4>1. PICK j \in DOMAIN def : def[j].default # "nil" /\ def[j].name = n
          BY <1>7, <2>1, <3>2
        <4> QED
          BY <1>1, <1>9, <3>2, <4>1
      <3> QED
        BY <3>1, <3>2
    <2> QED
      BY <1>2, <2>1 DEF FilledTo, IsMap
  <1>13. ~Unsendable(F)
    <2>1. "rejected" \notin Kinds /\ "nan" \notin Kinds
      BY DEF Kinds
    <2> QED
      BY <1>12, <2>1 DEF Unsendable, IsMap
  <1>14. Prompted(def, answers) = Created(def, F)
    BY <1>13 DEF Prompted, F
  <1>15. Makes(def, F, Created(def, F)) /\ Makes(def, M, Created(def, M))
    BY <1>11, <1>12, CreatedMakes
  <1>16. Created(def, F) = Created(def, M)
    BY <1>7, <1>8, <1>9, <1>10, <1>15, MakesAlike
  <1> QED
    BY <1>14, <1>16

\* coggo entity new and update, relation new (coerceField, prompter.ask), for types of
\* any number of fields and any answers but the very text that is shown: what is typed
\* in becomes a value of its field's type or nothing is sent, a blank answer is an
\* absent field, and an update changes nothing else.
THEOREM PromptsKeep ==
    ASSUME input.of = "prompt" => IsDef(input.def),
           input.of = "update" =>
               IsDef(input.def) /\ \A i \in DOMAIN input.def : input.answers[i] # "shown"
    PROVE  PromptsFaithful
  <1>1. ASSUME input.of = "prompt"
        PROVE  TypedAsDeclared(input.def, input.answers) /\ BlankMeansAbsent(input.def, input.answers)
    BY <1>1, TypedHolds, BlankHolds
  <1>2. ASSUME input.of = "update" PROVE OnlyAnswersChange(input.def, input.data, input.answers)
    BY <1>2, UpdateHolds
  <1> QED
    BY <1>1, <1>2 DEF PromptsFaithful

-----------------------------------------------------------------------------
(***************************************************************************)
(* Projection.  The calls of walk by depth, and what a response and its    *)
(* projection have at one place.                                           *)
(***************************************************************************)
\* The three loops: what each makes, depth by depth.
MetByDepth(v, met) ==
    /\ met[0] = {v}
    /\ \A d \in 0 .. Depth : d + 1 \in 0 .. Depth => met[d + 1] = Beneath(met[d])

PairedByDepth(v, w, paired) ==
    /\ paired[0] = {<<v, w>>}
    /\ \A d \in 0 .. Depth : d + 1 \in 0 .. Depth => paired[d + 1] = BeneathBoth(paired[d])

WalksByDepth(v, sel, walk) ==
    /\ walk[0] = Calls(Met(v)[Depth], sel, <<>>)
    /\ \A d \in 0 .. Depth : d + 1 \in 0 .. Depth => walk[d + 1] = Calls(Met(v)[Depth - (d + 1)], sel, walk[d])

LEMMA MetRuns ==
    ASSUME NEW v
    PROVE  MetByDepth(v, Met(v))
  <1> DEFINE N == Depth
             start == {v}
             Runs(g, n) ==
                 g = [d \in 0 .. n |-> IF d = 0 THEN start ELSE Beneath(g[d - 1])]
             P == {n \in 0 .. N : \E g : Runs(g, n)}
  <1>1. N \in Nat
    BY DepthAssumption
  <1> HIDE DEF N, start
  <1>2. 0 \in P
    <2> DEFINE g == [d \in 0 .. 0 |-> start]
    <2>1. Runs(g, 0)
      BY <1>1
    <2> HIDE DEF g
    <2> QED
      BY <1>1, <2>1
  <1>3. ASSUME NEW n \in 0 .. N, n + 1 \in 0 .. N, n \in P PROVE n + 1 \in P
    <2>1. PICK f : Runs(f, n)
      BY <1>3
    <2> DEFINE g == [d \in 0 .. n + 1 |-> IF d = n + 1 THEN Beneath(f[n]) ELSE f[d]]
    <2>2. ASSUME NEW d \in 0 .. n + 1
          PROVE  g[d] = IF d = 0 THEN start ELSE Beneath(g[d - 1])
      <3>1. CASE d = n + 1
        <4>1. d # 0 /\ d - 1 = n /\ n \in 0 .. n + 1 /\ n # n + 1
          BY <1>1, <1>3, <3>1
        <4>2. g[d] = Beneath(f[n]) /\ g[d - 1] = f[n]
          BY <3>1, <4>1
        <4> QED
          BY <4>1, <4>2
      <3>2. CASE d # n + 1
        <4>1. d \in 0 .. n /\ (d # 0 => d - 1 \in 0 .. n + 1 /\ d - 1 # n + 1)
          BY <1>1, <1>3, <3>2
        <4>2. f[d] = IF d = 0 THEN start ELSE Beneath(f[d - 1])
          BY <2>1, <4>1
        <4> QED
          BY <3>2, <4>1, <4>2
      <3> QED
        BY <3>1, <3>2
    <2>3. g = [d \in 0 .. n + 1 |-> g[d]]
      OBVIOUS
    <2>4. Runs(g, n + 1)
      <3> HIDE DEF g
      <3> QED
        BY <2>2, <2>3
    <2> QED
      BY <1>3, <2>4
  <1>4. \A n \in 0 .. N : n \in P
    <2>1. \A n \in 0 .. N : n + 1 \in 0 .. N /\ n \in P => n + 1 \in P
      BY <1>3
    <2> HIDE DEF P
    <2> QED
      BY <1>1, <1>2, <2>1, Climb
  <1>5. \E g : Runs(g, N)
    BY <1>1, <1>4
  <1>6. Met(v) = CHOOSE g : Runs(g, N)
    BY Zenon DEF Met, N, start
  <1>7. Runs(Met(v), N)
    BY <1>5, <1>6, Zenon
  <1>8. PICK a : a = Met(v)
    OBVIOUS
  <1>9. a = [d \in 0 .. N |-> IF d = 0 THEN start ELSE Beneath(a[d - 1])]
    BY <1>7, <1>8
  <1>10. a[0] = start
    BY <1>1, <1>9
  <1>11. ASSUME NEW d \in 0 .. N, d + 1 \in 0 .. N PROVE a[d + 1] = Beneath(a[d])
    <2>1. d + 1 # 0 /\ (d + 1) - 1 = d
      BY <1>1
    <2> QED
      BY <1>9, <1>11, <2>1
  <1> QED
    BY <1>8, <1>10, <1>11 DEF MetByDepth, N, start

LEMMA PairedRuns ==
    ASSUME NEW v, NEW w
    PROVE  PairedByDepth(v, w, Paired(v, w))
  <1> DEFINE N == Depth
             start == {<<v, w>>}
             Runs(g, n) ==
                 g = [d \in 0 .. n |-> IF d = 0 THEN start ELSE BeneathBoth(g[d - 1])]
             P == {n \in 0 .. N : \E g : Runs(g, n)}
  <1>1. N \in Nat
    BY DepthAssumption
  <1> HIDE DEF N, start
  <1>2. 0 \in P
    <2> DEFINE g == [d \in 0 .. 0 |-> start]
    <2>1. Runs(g, 0)
      BY <1>1
    <2> HIDE DEF g
    <2> QED
      BY <1>1, <2>1
  <1>3. ASSUME NEW n \in 0 .. N, n + 1 \in 0 .. N, n \in P PROVE n + 1 \in P
    <2>1. PICK f : Runs(f, n)
      BY <1>3
    <2> DEFINE g == [d \in 0 .. n + 1 |-> IF d = n + 1 THEN BeneathBoth(f[n]) ELSE f[d]]
    <2>2. ASSUME NEW d \in 0 .. n + 1
          PROVE  g[d] = IF d = 0 THEN start ELSE BeneathBoth(g[d - 1])
      <3>1. CASE d = n + 1
        <4>1. d # 0 /\ d - 1 = n /\ n \in 0 .. n + 1 /\ n # n + 1
          BY <1>1, <1>3, <3>1
        <4>2. g[d] = BeneathBoth(f[n]) /\ g[d - 1] = f[n]
          BY <3>1, <4>1
        <4> QED
          BY <4>1, <4>2
      <3>2. CASE d # n + 1
        <4>1. d \in 0 .. n /\ (d # 0 => d - 1 \in 0 .. n + 1 /\ d - 1 # n + 1)
          BY <1>1, <1>3, <3>2
        <4>2. f[d] = IF d = 0 THEN start ELSE BeneathBoth(f[d - 1])
          BY <2>1, <4>1
        <4> QED
          BY <3>2, <4>1, <4>2
      <3> QED
        BY <3>1, <3>2
    <2>3. g = [d \in 0 .. n + 1 |-> g[d]]
      OBVIOUS
    <2>4. Runs(g, n + 1)
      <3> HIDE DEF g
      <3> QED
        BY <2>2, <2>3
    <2> QED
      BY <1>3, <2>4
  <1>4. \A n \in 0 .. N : n \in P
    <2>1. \A n \in 0 .. N : n + 1 \in 0 .. N /\ n \in P => n + 1 \in P
      BY <1>3
    <2> HIDE DEF P
    <2> QED
      BY <1>1, <1>2, <2>1, Climb
  <1>5. \E g : Runs(g, N)
    BY <1>1, <1>4
  <1>6. Paired(v, w) = CHOOSE g : Runs(g, N)
    BY Zenon DEF Paired, N, start
  <1>7. Runs(Paired(v, w), N)
    BY <1>5, <1>6, Zenon
  <1>8. PICK a : a = Paired(v, w)
    OBVIOUS
  <1>9. a = [d \in 0 .. N |-> IF d = 0 THEN start ELSE BeneathBoth(a[d - 1])]
    BY <1>7, <1>8
  <1>10. a[0] = start
    BY <1>1, <1>9
  <1>11. ASSUME NEW d \in 0 .. N, d + 1 \in 0 .. N PROVE a[d + 1] = BeneathBoth(a[d])
    <2>1. d + 1 # 0 /\ (d + 1) - 1 = d
      BY <1>1
    <2> QED
      BY <1>9, <1>11, <2>1
  <1> QED
    BY <1>8, <1>10, <1>11 DEF PairedByDepth, N, start

LEMMA WalksRun ==
    ASSUME NEW v, NEW sel
    PROVE  WalksByDepth(v, sel, Walks(v, sel))
  <1> DEFINE N == Depth
             start == Calls(Met(v)[Depth], sel, <<>>)
             Runs(g, n) ==
                 g = [d \in 0 .. n |-> IF d = 0 THEN start ELSE Calls(Met(v)[Depth - d], sel, g[d - 1])]
             P == {n \in 0 .. N : \E g : Runs(g, n)}
  <1>1. N \in Nat
    BY DepthAssumption
  <1> HIDE DEF N, start
  <1>2. 0 \in P
    <2> DEFINE g == [d \in 0 .. 0 |-> start]
    <2>1. Runs(g, 0)
      BY <1>1
    <2> HIDE DEF g
    <2> QED
      BY <1>1, <2>1
  <1>3. ASSUME NEW n \in 0 .. N, n + 1 \in 0 .. N, n \in P PROVE n + 1 \in P
    <2>1. PICK f : Runs(f, n)
      BY <1>3
    <2> DEFINE g == [d \in 0 .. n + 1 |-> IF d = n + 1 THEN Calls(Met(v)[Depth - (n + 1)], sel, f[n]) ELSE f[d]]
    <2>2. ASSUME NEW d \in 0 .. n + 1
          PROVE  g[d] = IF d = 0 THEN start ELSE Calls(Met(v)[Depth - d], sel, g[d - 1])
      <3>1. CASE d = n + 1
        <4>1. d # 0 /\ d - 1 = n /\ n \in 0 .. n + 1 /\ n # n + 1
          BY <1>1, <1>3, <3>1
        <4>2. g[d] = Calls(Met(v)[Depth - d], sel, f[n]) /\ g[d - 1] = f[n]
          BY <3>1, <4>1
        <4> QED
          BY <4>1, <4>2
      <3>2. CASE d # n + 1
        <4>1. d \in 0 .. n /\ (d # 0 => d - 1 \in 0 .. n + 1 /\ d - 1 # n + 1)
          BY <1>1, <1>3, <3>2
        <4>2. f[d] = IF d = 0 THEN start ELSE Calls(Met(v)[Depth - d], sel, f[d - 1])
          BY <2>1, <4>1
        <4> QED
          BY <3>2, <4>1, <4>2
      <3> QED
        BY <3>1, <3>2
    <2>3. g = [d \in 0 .. n + 1 |-> g[d]]
      OBVIOUS
    <2>4. Runs(g, n + 1)
      <3> HIDE DEF g
      <3> QED
        BY <2>2, <2>3
    <2> QED
      BY <1>3, <2>4
  <1>4. \A n \in 0 .. N : n \in P
    <2>1. \A n \in 0 .. N : n + 1 \in 0 .. N /\ n \in P => n + 1 \in P
      BY <1>3
    <2> HIDE DEF P
    <2> QED
      BY <1>1, <1>2, <2>1, Climb
  <1>5. \E g : Runs(g, N)
    BY <1>1, <1>4
  <1>6. Walks(v, sel) = CHOOSE g : Runs(g, N)
    BY Zenon DEF Walks, N, start
  <1>7. Runs(Walks(v, sel), N)
    BY <1>5, <1>6, Zenon
  <1>8. PICK a : a = Walks(v, sel)
    OBVIOUS
  <1>9. a = [d \in 0 .. N |-> IF d = 0 THEN start ELSE Calls(Met(v)[Depth - d], sel, a[d - 1])]
    BY <1>7, <1>8
  <1>10. a[0] = start
    BY <1>1, <1>9
  <1>11. ASSUME NEW d \in 0 .. N, d + 1 \in 0 .. N PROVE a[d + 1] = Calls(Met(v)[Depth - (d + 1)], sel, a[d])
    <2>1. d + 1 # 0 /\ (d + 1) - 1 = d
      BY <1>1
    <2> QED
      BY <1>9, <1>11, <2>1
  <1> QED
    BY <1>8, <1>10, <1>11 DEF WalksByDepth, N, start

\* What walk is called with at a place is what it made there.
LEMMA TurnBelow ==
    ASSUME NEW x, NEW sel, NEW below, NEW k \in Places(x)
    PROVE  At(Turn(x, sel, below), k) = below[At(x, k)]
  <1>1. CASE x.kind = "array"
    <2>1. k \in DOMAIN x.el /\ At(x, k) = x.el[k]
      BY <1>1 DEF Places, At
    <2>2. Turn(x, sel, below) = Arr([i \in DOMAIN x.el |-> below[x.el[i]]])
      BY <1>1 DEF Turn
    <2> QED
      BY <2>1, <2>2 DEF At, Arr
  <1>2. CASE x.kind # "array"
    <2>1. x.kind = "object" /\ ~EntityLike(x) /\ ~TypeDefLike(x) /\ k \in DOMAIN x.at /\ At(x, k) = x.at[k]
      BY <1>2 DEF Places, At, Item
    <2>2. Turn(x, sel, below) = Obj(x.role, [i \in DOMAIN x.at |-> below[x.at[i]]])
      BY <1>2, <2>1 DEF Turn
    <2> QED
      BY <2>1, <2>2 DEF At, Obj
  <1> QED
    BY <1>1, <1>2

\* A place of the response and of its projection: a value walk meets, and its answer.
Returned(v, sel, d, x, y) == x \in Met(v)[d] /\ \E below : y = Turn(x, sel, below)

LEMMA AnswersPaired ==
    ASSUME NEW v, NEW sel
    PROVE  \A d \in 0 .. Depth : \A p \in Paired(v, Walk(v, sel))[d] : Returned(v, sel, d, p[1], p[2])
  <1>1. PICK met : met = Met(v)
    OBVIOUS
  <1>2. PICK walk : walk = Walks(v, sel)
    OBVIOUS
  <1>3. PICK paired : paired = Paired(v, Walk(v, sel))
    OBVIOUS
  <1>4. /\ met[0] = {v}
        /\ \A d \in 0 .. Depth : d + 1 \in 0 .. Depth => met[d + 1] = Beneath(met[d])
    BY <1>1, MetRuns DEF MetByDepth
  <1>5. /\ walk[0] = Calls(met[Depth], sel, <<>>)
        /\ \A d \in 0 .. Depth : d + 1 \in 0 .. Depth =>
               walk[d + 1] = Calls(met[Depth - (d + 1)], sel, walk[d])
    BY <1>1, <1>2, WalksRun DEF WalksByDepth
  <1>6. /\ paired[0] = {<<v, walk[Depth][v]>>}
        /\ \A d \in 0 .. Depth : d + 1 \in 0 .. Depth => paired[d + 1] = BeneathBoth(paired[d])
    BY <1>2, <1>3, PairedRuns DEF PairedByDepth, Walk
  <1>7. Depth \in Nat
    BY DepthAssumption
  <1> DEFINE Right(d, p) == p[1] \in met[d] /\ p[2] = walk[Depth - d][p[1]]
             P == {d \in 0 .. Depth : \A p \in paired[d] : Right(d, p)}
  <1>8. 0 \in P
    <2>1. 0 \in 0 .. Depth /\ Depth - 0 = Depth
      BY <1>7
    <2>2. ASSUME NEW p \in paired[0] PROVE Right(0, p)
      <3>1. p = <<v, walk[Depth][v]>>
        BY <1>6, <2>2
      <3>2. p[1] = v /\ p[2] = walk[Depth][v]
        BY <3>1
      <3> QED
        BY <1>4, <2>1, <3>2
    <2> QED
      BY <2>1, <2>2
  <1>9. ASSUME NEW d \in 0 .. Depth, d + 1 \in 0 .. Depth, d \in P PROVE d + 1 \in P
    <2> SUFFICES ASSUME NEW q \in paired[d + 1] PROVE Right(d + 1, q)
      BY <1>9
    <2>1. q \in BeneathBoth(paired[d])
      BY <1>6, <1>9
    <2>10. PICK p \in paired[d] : q \in {<<At(p[1], k), At(p[2], k)>> : k \in Places(p[1])}
      BY <2>1 DEF BeneathBoth
    <2>2. PICK k \in Places(p[1]) : q = <<At(p[1], k), At(p[2], k)>>
      BY <2>10
    <2>3. p[1] \in met[d] /\ p[2] = walk[Depth - d][p[1]]
      BY <1>9
    <2>4. q[1] = At(p[1], k) /\ q[2] = At(p[2], k)
      BY <2>2
    <2>5. At(p[1], k) \in met[d + 1]
      BY <1>4, <1>9, <2>2, <2>3 DEF Beneath
    <2>11. PICK e : e = Depth - (d + 1)
      OBVIOUS
    <2>6. /\ e \in 0 .. Depth /\ e + 1 \in 0 .. Depth /\ e + 1 = Depth - d
          /\ Depth - (e + 1) = d
      BY <1>7, <1>9, <2>11
    <2>7. walk[Depth - d] = Calls(met[d], sel, walk[e])
      BY <1>5, <2>6
    <2>8. p[2] = Turn(p[1], sel, walk[e])
      BY <2>3, <2>7 DEF Calls
    <2>9. q[2] = walk[e][q[1]]
      BY <2>2, <2>4, <2>8, TurnBelow
    <2> QED
      BY <2>4, <2>5, <2>11, <2>9
  <1>10. \A d \in 0 .. Depth : d \in P
    <2>1. \A d \in 0 .. Depth : d + 1 \in 0 .. Depth /\ d \in P => d + 1 \in P
      BY <1>9
    <2> HIDE DEF P
    <2> QED
      BY <1>7, <1>8, <2>1, Climb
  <1>11. ASSUME NEW d \in 0 .. Depth, NEW p \in paired[d] PROVE Returned(v, sel, d, p[1], p[2])
    <2>1. p[1] \in met[d] /\ p[2] = walk[Depth - d][p[1]]
      BY <1>10, <1>11
    <2>2. \E below : p[2] = Turn(p[1], sel, below)
      <3>1. CASE d = Depth
        <4>1. Depth - d = 0
          BY <1>7, <3>1
        <4>2. p[2] = Turn(p[1], sel, <<>>)
          BY <1>5, <2>1, <3>1, <4>1 DEF Calls
        <4> QED
          BY <4>2
      <3>2. CASE d # Depth
        <4>0. PICK e : e = Depth - (d + 1)
          OBVIOUS
        <4>1. /\ e \in 0 .. Depth /\ e + 1 \in 0 .. Depth /\ e + 1 = Depth - d
              /\ Depth - (e + 1) = d
          BY <1>7, <3>2, <4>0
        <4>2. walk[Depth - d] = Calls(met[d], sel, walk[e])
          BY <1>5, <4>1
        <4>3. p[2] = Turn(p[1], sel, walk[e])
          BY <2>1, <4>2 DEF Calls
        <4> QED
          BY <4>3
      <3> QED
        BY <3>1, <3>2
    <2> QED
      BY <1>1, <2>1, <2>2 DEF Returned
  <1> QED
    BY <1>3, <1>11

-----------------------------------------------------------------------------
\* What a value becomes under a name that was asked for.
Selected(fields, name, u, w) ==
    /\ name \in Selections(fields).keep
    /\ w.kind = u.kind
    /\ w # u => w.cut
    /\ \A i \in DOMAIN fields :
          /\ fields[i].name = name /\ fields[i].n > 0
          /\ \A j \in DOMAIN fields : j > i => fields[j].name # name \/ fields[j].n = 0
          => Longest(w) <= fields[i].n + 1

LEMMA GreatestExists ==
    ASSUME NEW N \in Nat, NEW S \in SUBSET (1 .. N), S # {}
    PROVE  \E x \in S : \A y \in S : y <= x
  <1> DEFINE T == {N - i : i \in S}
  <1>1. T \in SUBSET Nat /\ T # {}
    <2>1. \A i \in S : N - i \in Nat
      OBVIOUS
    <2> QED
      BY <2>1
  <1>2. PICK t \in T : \A u \in T : t <= u
    <2> HIDE DEF T
    <2> QED
      BY <1>1, LeastExists
  <1>3. PICK x \in S : t = N - x
    BY <1>2
  <1>4. ASSUME NEW y \in S PROVE y <= x
    <2>1. N - x <= N - y
      BY <1>2, <1>3
    <2> QED
      BY <2>1
  <1> QED
    BY <1>4

\* The number that counts for a name: of several the last.
LEMMA NumberIs ==
    ASSUME NEW fields, FieldsOK(fields), NEW name \in Selections(fields).keep
    PROVE  /\ Selections(fields).truncate[name] \in Nat
           /\ \A i \in DOMAIN fields :
                 /\ fields[i].name = name /\ fields[i].n > 0
                 /\ \A j \in DOMAIN fields : j > i => fields[j].name # name \/ fields[j].n = 0
                 => Selections(fields).truncate[name] = fields[i].n
  <1> DEFINE S == {i \in DOMAIN fields : fields[i].name = name /\ fields[i].n > 0}
  <1>1. Selections(fields).truncate[name] = IF S = {} THEN 0 ELSE fields[LastOf(S)].n
    BY Zenon DEF Selections
  <1>2. DOMAIN fields \subseteq Nat /\ \A i \in DOMAIN fields : fields[i].n \in Nat
    <2>1. \A i \in DOMAIN fields : fields[i] \in [name : STRING, n : Nat]
      <3>1. PICK R : R = [name : STRING, n : Nat]
        OBVIOUS
      <3>2. fields \in Seq(R)
        BY <3>1, Zenon DEF FieldsOK
      <3>3. \A i \in DOMAIN fields : fields[i] \in R
        BY <3>2
      <3> QED
        BY <3>1, <3>3
    <2>3. DOMAIN fields = 1 .. Len(fields) /\ Len(fields) \in Nat
      BY DEF FieldsOK
    <2>2. DOMAIN fields \subseteq Nat
      BY <2>3
    <2> QED
      BY <2>1, <2>2
  <1>3. ASSUME S # {} PROVE LastOf(S) \in S /\ \A j \in S : j <= LastOf(S)
    <2>1. Len(fields) \in Nat /\ S \in SUBSET (1 .. Len(fields))
      BY DEF FieldsOK
    <2>2. \E i \in S : \A j \in S : j <= i
      BY <1>3, <2>1, GreatestExists
    <2> HIDE DEF S
    <2> QED
      BY <2>2 DEF LastOf
  <1>4. Selections(fields).truncate[name] \in Nat
    BY <1>1, <1>2, <1>3
  <1>5. ASSUME NEW i \in DOMAIN fields, fields[i].name = name, fields[i].n > 0,
               \A j \in DOMAIN fields : j > i => fields[j].name # name \/ fields[j].n = 0
        PROVE  Selections(fields).truncate[name] = fields[i].n
    <2>1. i \in S /\ \A j \in S : ~(j > i)
      BY <1>2, <1>5
    <2>2. LastOf(S) \in S /\ i <= LastOf(S)
      BY <1>3, <2>1
    <2>3. LastOf(S) = i
      BY <1>2, <2>1, <2>2
    <2> HIDE DEF S
    <2> QED
      BY <1>1, <2>1, <2>3
  <1> QED
    BY <1>4, <1>5

LEMMA TruncatedIs ==
    ASSUME NEW fields, FieldsOK(fields), NEW name \in Selections(fields).keep,
           NEW u, u.kind = "string" => u \in Text
    PROVE  Selected(fields, name, u, Truncated(u, name, Selections(fields)))
  <1>1. PICK n : n = Selections(fields).truncate[name]
    OBVIOUS
  <1>2. /\ n \in Nat
        /\ \A i \in DOMAIN fields :
              /\ fields[i].name = name /\ fields[i].n > 0
              /\ \A j \in DOMAIN fields : j > i => fields[j].name # name \/ fields[j].n = 0
              => n = fields[i].n
    BY <1>1, NumberIs
  <1>3. PICK w : w = Truncated(u, name, Selections(fields))
    OBVIOUS
  <1>4. w = IF n = 0 \/ u.kind # "string" THEN u
            ELSE IF u.len <= n THEN u ELSE [u EXCEPT !.len = n + 1, !.cut = TRUE]
    BY <1>1, <1>3 DEF Truncated
  <1>5. w.kind = u.kind /\ (w # u => w.cut) /\ (n # 0 => Longest(w) <= n + 1)
    <2>1. CASE u.kind # "string"
      BY <1>2, <1>4, <2>1 DEF Longest
    <2>2. CASE u.kind = "string"
      <3>1. u \in Text
        BY <2>2
      <3>2. CASE n = 0 \/ u.len <= n
        BY <1>2, <1>4, <2>2, <3>1, <3>2 DEF Longest, Text
      <3>3. CASE ~(n = 0 \/ u.len <= n)
        <4>1. w = [u EXCEPT !.len = n + 1, !.cut = TRUE]
          BY <1>4, <2>2, <3>3
        <4>2. w.kind = "string" /\ w.len = n + 1 /\ w.cut = TRUE
          BY <2>2, <3>1, <4>1 DEF Text
        <4> QED
          BY <1>2, <2>2, <4>2 DEF Longest
      <3> QED
        BY <3>2, <3>3
    <2> QED
      BY <2>1, <2>2
  <1>6. ASSUME NEW i \in DOMAIN fields, fields[i].name = name, fields[i].n > 0,
               \A j \in DOMAIN fields : j > i => fields[j].name # name \/ fields[j].n = 0
        PROVE  Longest(w) <= fields[i].n + 1
    <2>1. n = fields[i].n
      BY <1>2, <1>6
    <2> QED
      BY <1>2, <1>5, <1>6, <2>1
  <1> QED
    BY <1>3, <1>5, <1>6 DEF Selected

\* A map of fields as pairs, and what Pick makes of it.
PairsOf(f, S) == {<<k, f[k]>> : k \in S}

LEMMA PickIs ==
    ASSUME NEW fields, FieldsOK(fields), NEW v, NEW names \in SUBSET Selections(fields).keep,
           \A k \in DOMAIN v.at \cap names : v.at[k].kind = "string" => v.at[k] \in Text
    PROVE  /\ DOMAIN Pick(v, names, Selections(fields)) = DOMAIN v.at \cap names
           /\ \A k \in DOMAIN v.at \cap names :
                 Selected(fields, k, v.at[k], Pick(v, names, Selections(fields))[k])
  <1>1. PICK sel : sel = Selections(fields)
    OBVIOUS
  <1>2. ASSUME NEW k \in DOMAIN v.at \cap names
        PROVE  Selected(fields, k, v.at[k], Truncated(v.at[k], k, Selections(fields)))
    BY TruncatedIs
  <1>3. DOMAIN Pick(v, names, sel) = DOMAIN v.at \cap names
    BY DEF Pick
  <1>4. \A k \in DOMAIN v.at \cap names : Pick(v, names, sel)[k] = Truncated(v.at[k], k, sel)
    BY DEF Pick
  <1> QED
    BY <1>1, <1>2, <1>3, <1>4

LEMMA ShownIs ==
    ASSUME NEW v
    PROVE  /\ v.role = "entity" /\ Is(v, "data", "object") =>
                  Shown(v) = PairsOf(v.at, DOMAIN v.at \ {"data"})
                                 \cup PairsOf(v.at["data"].at, DOMAIN v.at["data"].at)
           /\ v.role = "entity" /\ ~Is(v, "data", "object") =>
                  Shown(v) = PairsOf(v.at, DOMAIN v.at \ {"data"})
           /\ v.role # "entity" => Shown(v) = PairsOf(v.at, DOMAIN v.at)
  BY DEF Shown, PairsOf

\* An item becomes an object that shows the selected names, each with its value or a
\* cut of it, and only those.
ItemRight(fields, x, y) ==
    /\ \A p \in Shown(y) : \E q \in Shown(x) : q[1] = p[1] /\ Selected(fields, p[1], q[2], p[2])
    /\ \A q \in Shown(x) : q[1] \in Selections(fields).keep => \E p \in Shown(y) : p[1] = q[1]

LEMMA DefinitionRight ==
    ASSUME NEW fields, FieldsOK(fields), NEW x, x.role # "entity",
           \A p \in Shown(x) : p[2].kind = "string" => p[2] \in Text
    PROVE  ItemRight(fields, x, Obj(x.role, Pick(x, Selections(fields).keep, Selections(fields))))
  <1>1. PICK K : K = Selections(fields).keep
    OBVIOUS
  <1>2. PICK f : f = Pick(x, K, Selections(fields))
    OBVIOUS
  <1>3. Shown(x) = PairsOf(x.at, DOMAIN x.at)
    BY ShownIs
  <1>4. ASSUME NEW k \in DOMAIN x.at PROVE x.at[k].kind = "string" => x.at[k] \in Text
    <2>1. <<k, x.at[k]>> \in Shown(x)
      BY <1>3 DEF PairsOf
    <2> QED
      BY <2>1
  <1>5. /\ DOMAIN f = DOMAIN x.at \cap K
        /\ \A k \in DOMAIN f : Selected(fields, k, x.at[k], f[k])
    <2>1. K \in SUBSET Selections(fields).keep
      BY <1>1
    <2>2. \A k \in DOMAIN x.at \cap K : x.at[k].kind = "string" => x.at[k] \in Text
      BY <1>4
    <2>3. /\ DOMAIN Pick(x, K, Selections(fields)) = DOMAIN x.at \cap K
          /\ \A k \in DOMAIN x.at \cap K :
                Selected(fields, k, x.at[k], Pick(x, K, Selections(fields))[k])
      BY <2>1, <2>2, PickIs
    <2> QED
      BY <1>2, <2>3
  <1>6. PICK y : y = Obj(x.role, f)
    OBVIOUS
  <1>7. y.at = f /\ y.role = x.role
    BY <1>6 DEF Obj
  <1>9. Shown(y) = PairsOf(f, DOMAIN f)
    BY <1>7, ShownIs
  <1>10. ASSUME NEW p \in Shown(y)
         PROVE  \E q \in Shown(x) : q[1] = p[1] /\ Selected(fields, p[1], q[2], p[2])
    <2>1. PICK k \in DOMAIN f : p = <<k, f[k]>>
      BY <1>9, <1>10 DEF PairsOf
    <2>2. <<k, x.at[k]>> \in Shown(x)
      BY <1>3, <1>5 DEF PairsOf
    <2>3. Selected(fields, k, x.at[k], f[k])
      BY <1>5
    <2>4. p[1] = k /\ p[2] = f[k]
      BY <2>1
    <2>5. PICK q : q = <<k, x.at[k]>>
      OBVIOUS
    <2>6. q \in Shown(x) /\ q[1] = k /\ q[2] = x.at[k]
      BY <2>2, <2>5
    <2> QED
      BY <2>3, <2>4, <2>6
  <1>11. ASSUME NEW q \in Shown(x), q[1] \in K PROVE \E p \in Shown(y) : p[1] = q[1]
    <2>1. PICK k \in DOMAIN x.at : q = <<k, x.at[k]>>
      BY <1>3, <1>11 DEF PairsOf
    <2>2. q[1] = k
      BY <2>1
    <2>3. k \in DOMAIN f
      BY <1>5, <1>11, <2>2
    <2>4. PICK p : p = <<k, f[k]>>
      OBVIOUS
    <2>5. p \in Shown(y) /\ p[1] = k
      BY <1>9, <2>3, <2>4 DEF PairsOf
    <2> QED
      BY <2>2, <2>5
  <1> QED
    BY <1>1, <1>2, <1>6, <1>10, <1>11 DEF ItemRight

LEMMA EntityRight ==
    ASSUME NEW fields, FieldsOK(fields), NEW x, x.role = "entity", EntityLike(x),
           \A p \in Shown(x) : p[2].kind = "string" => p[2] \in Text
    PROVE  ItemRight(fields, x, ProjectEntity(x, Selections(fields)))
  <1>1. PICK K : K = Selections(fields).keep
    OBVIOUS
  <1>2. PICK inner : inner = x.at["data"]
    OBVIOUS
  <1>3. PICK top : top = Pick(x, K \ {"data"}, Selections(fields))
    OBVIOUS
  <1>4. PICK data : data = Pick(inner, K \ DOMAIN top, Selections(fields))
    OBVIOUS
  <1>5. PICK y : y = ProjectEntity(x, Selections(fields))
    OBVIOUS
  <1>6. y = IF DOMAIN data = {} THEN Obj(x.role, top)
            ELSE Obj(x.role, [k \in DOMAIN top \cup {"data"} |->
                                IF k = "data" THEN Obj("none", data) ELSE top[k]])
    BY <1>1, <1>2, <1>3, <1>4, <1>5 DEF ProjectEntity
  <1>7. Shown(x) = PairsOf(x.at, DOMAIN x.at \ {"data"}) \cup PairsOf(inner.at, DOMAIN inner.at)
    BY <1>2, ShownIs DEF EntityLike
  <1>8. /\ \A k \in DOMAIN x.at \ {"data"} : x.at[k].kind = "string" => x.at[k] \in Text
        /\ \A k \in DOMAIN inner.at : inner.at[k].kind = "string" => inner.at[k] \in Text
    <2>1. ASSUME NEW k \in DOMAIN x.at \ {"data"} PROVE x.at[k].kind = "string" => x.at[k] \in Text
      <3>1. <<k, x.at[k]>> \in Shown(x)
        BY <1>7 DEF PairsOf
      <3> QED
        BY <3>1
    <2>2. ASSUME NEW k \in DOMAIN inner.at PROVE inner.at[k].kind = "string" => inner.at[k] \in Text
      <3>1. <<k, inner.at[k]>> \in Shown(x)
        BY <1>7 DEF PairsOf
      <3> QED
        BY <3>1
    <2> QED
      BY <2>1, <2>2
  <1>9. /\ DOMAIN top = DOMAIN x.at \cap (K \ {"data"})
        /\ \A k \in DOMAIN top : Selected(fields, k, x.at[k], top[k])
    <2>1. PICK T : T = K \ {"data"}
      OBVIOUS
    <2>2. T \in SUBSET Selections(fields).keep
      BY <1>1, <2>1
    <2>3. \A k \in DOMAIN x.at \cap T : x.at[k].kind = "string" => x.at[k] \in Text
      BY <1>8, <2>1
    <2>4. /\ DOMAIN Pick(x, T, Selections(fields)) = DOMAIN x.at \cap T
          /\ \A k \in DOMAIN x.at \cap T :
                Selected(fields, k, x.at[k], Pick(x, T, Selections(fields))[k])
      BY <2>2, <2>3, PickIs
    <2> QED
      BY <1>3, <2>1, <2>4
  <1>10. /\ DOMAIN data = DOMAIN inner.at \cap (K \ DOMAIN top)
         /\ \A k \in DOMAIN data : Selected(fields, k, inner.at[k], data[k])
    <2>1. PICK T : T = K \ DOMAIN top
      OBVIOUS
    <2>2. T \in SUBSET Selections(fields).keep
      BY <1>1, <2>1
    <2>3. \A k \in DOMAIN inner.at \cap T : inner.at[k].kind = "string" => inner.at[k] \in Text
      BY <1>8
    <2>4. /\ DOMAIN Pick(inner, T, Selections(fields)) = DOMAIN inner.at \cap T
          /\ \A k \in DOMAIN inner.at \cap T :
                Selected(fields, k, inner.at[k], Pick(inner, T, Selections(fields))[k])
      BY <2>2, <2>3, PickIs
    <2> QED
      BY <1>4, <2>1, <2>4
  <1>11. Shown(y) = PairsOf(top, DOMAIN top) \cup PairsOf(data, DOMAIN data)
    <2>0. "data" \notin DOMAIN top
      BY <1>9
    <2>1. CASE DOMAIN data = {}
      <3>1. y.at = top /\ y.role = "entity" /\ DOMAIN top \ {"data"} = DOMAIN top
        BY <1>6, <2>0, <2>1 DEF Obj
      <3>2. ~Is(y, "data", "object")
        BY <2>0, <3>1 DEF Is, Has
      <3>3. Shown(y) = PairsOf(top, DOMAIN top)
        BY <3>1, <3>2, ShownIs
      <3>4. PairsOf(data, DOMAIN data) = {}
        BY <2>1 DEF PairsOf
      <3> QED
        BY <3>3, <3>4
    <2>2. CASE DOMAIN data # {}
      <3>1. PICK f : f = [k \in DOMAIN top \cup {"data"} |-> IF k = "data" THEN Obj("none", data) ELSE top[k]]
        OBVIOUS
      <3>2. y.kind = "object" /\ y.at = f /\ y.role = "entity"
        BY <1>6, <2>2, <3>1 DEF Obj
      <3>3. DOMAIN f = DOMAIN top \cup {"data"} /\ f["data"] = Obj("none", data)
        BY <3>1
      <3>4. f["data"].kind = "object" /\ f["data"].at = data
        BY <3>3 DEF Obj
      <3>5. Is(y, "data", "object")
        BY <3>2, <3>3, <3>4 DEF Is, Has
      <3>6. Shown(y) = PairsOf(f, DOMAIN f \ {"data"}) \cup PairsOf(data, DOMAIN data)
        BY <3>2, <3>4, <3>5, ShownIs
      <3>7. DOMAIN f \ {"data"} = DOMAIN top /\ \A k \in DOMAIN top : f[k] = top[k]
        BY <2>0, <3>1, <3>3
      <3>8. PairsOf(f, DOMAIN top) = PairsOf(top, DOMAIN top)
        BY <3>7 DEF PairsOf
      <3> QED
        BY <3>6, <3>7, <3>8
    <2> QED
      BY <2>1, <2>2
  <1>12. ASSUME NEW p \in Shown(y)
         PROVE  \E q \in Shown(x) : q[1] = p[1] /\ Selected(fields, p[1], q[2], p[2])
    <2>1. CASE p \in PairsOf(top, DOMAIN top)
      <3>1. PICK k \in DOMAIN top : p = <<k, top[k]>>
        BY <2>1 DEF PairsOf
      <3>2. <<k, x.at[k]>> \in Shown(x)
        BY <1>7, <1>9 DEF PairsOf
      <3>3. Selected(fields, k, x.at[k], top[k])
        BY <1>9
      <3>4. p[1] = k /\ p[2] = top[k]
        BY <3>1
      <3>5. PICK q : q = <<k, x.at[k]>>
        OBVIOUS
      <3>6. q \in Shown(x) /\ q[1] = k /\ q[2] = x.at[k]
        BY <3>2, <3>5
      <3> QED
        BY <3>3, <3>4, <3>6
    <2>2. CASE p \in PairsOf(data, DOMAIN data)
      <3>1. PICK k \in DOMAIN data : p = <<k, data[k]>>
        BY <2>2 DEF PairsOf
      <3>2. <<k, inner.at[k]>> \in Shown(x)
        BY <1>7, <1>10 DEF PairsOf
      <3>3. Selected(fields, k, inner.at[k], data[k])
        BY <1>10
      <3>4. p[1] = k /\ p[2] = data[k]
        BY <3>1
      <3>5. PICK q : q = <<k, inner.at[k]>>
        OBVIOUS
      <3>6. q \in Shown(x) /\ q[1] = k /\ q[2] = inner.at[k]
        BY <3>2, <3>5
      <3> QED
        BY <3>3, <3>4, <3>6
    <2> QED
      BY <1>11, <2>1, <2>2
  <1>13. ASSUME NEW q \in Shown(x), q[1] \in K PROVE \E p \in Shown(y) : p[1] = q[1]
    <2>1. q[1] \in DOMAIN top \/ q[1] \in DOMAIN data
      <3>1. CASE q \in PairsOf(x.at, DOMAIN x.at \ {"data"})
        <4>1. PICK k \in DOMAIN x.at \ {"data"} : q = <<k, x.at[k]>>
          BY <3>1 DEF PairsOf
        <4>2. q[1] = k
          BY <4>1
        <4> QED
          BY <1>9, <1>13, <4>2
      <3>2. CASE q \in PairsOf(inner.at, DOMAIN inner.at)
        <4>1. PICK k \in DOMAIN inner.at : q = <<k, inner.at[k]>>
          BY <3>2 DEF PairsOf
        <4>2. q[1] = k
          BY <4>1
        <4> QED
          BY <1>10, <1>13, <4>2
      <3> QED
        BY <1>7, <3>1, <3>2
    <2>2. CASE q[1] \in DOMAIN top
      <3>1. PICK p : p = <<q[1], top[q[1]]>>
        OBVIOUS
      <3>2. p \in Shown(y) /\ p[1] = q[1]
        BY <1>11, <2>2, <3>1 DEF PairsOf
      <3> QED
        BY <3>2
    <2>3. CASE q[1] \in DOMAIN data
      <3>1. PICK p : p = <<q[1], data[q[1]]>>
        OBVIOUS
      <3>2. p \in Shown(y) /\ p[1] = q[1]
        BY <1>11, <2>3, <3>1 DEF PairsOf
      <3> QED
        BY <3>2
    <2> QED
      BY <2>1, <2>2, <2>3
  <1> QED
    BY <1>1, <1>5, <1>12, <1>13 DEF ItemRight

\* The two halves of what is said of an item.
LEMMA ItemSelected ==
    ASSUME NEW fields, NEW x, NEW y, ItemRight(fields, x, y)
    PROVE  OnlySelected(x, y, fields) /\ SelectedKept(x, y, fields)
  <1>1. OnlySelected(x, y, fields)
    <2>1. ASSUME NEW p \in Shown(y)
          PROVE  \E q \in Shown(x) : q[1] = p[1] /\ Selected(fields, p[1], q[2], p[2])
      BY DEF ItemRight
    <2> QED
      BY <2>1 DEF OnlySelected, Selected
  <1>2. ASSUME NEW n \in {p[1] : p \in {q \in Shown(x) : q[1] \in Selections(fields).keep}}
        PROVE  n \in {p[1] : p \in Shown(y)}
    <2>1. PICK q \in Shown(x) : q[1] \in Selections(fields).keep /\ n = q[1]
      OBVIOUS
    <2>2. PICK p \in Shown(y) : p[1] = q[1]
      BY <2>1 DEF ItemRight
    <2> QED
      BY <2>1, <2>2
  <1> QED
    BY <1>1, <1>2 DEF SelectedKept

\* What a marshalled object has, role by role.
LEMMA MarshalledIs ==
    ASSUME NEW v, Marshalled(v), v.kind = "object"
    PROVE  /\ v.role = "entity" => ~Has(v, "fields")
           /\ v.role = "type" => Is(v, "name", "string") /\ ~Has(v, "data")
           /\ v.role \notin {"entity", "type"} => ~Item(v)
  <1>1. ASSUME v.role = "entity" PROVE ~Has(v, "fields")
    BY <1>1, Zenon DEF Marshalled
  <1>2. ASSUME v.role = "type" PROVE Is(v, "name", "string") /\ ~Has(v, "data")
    BY <1>2, Zenon DEF Marshalled
  <1>3. ASSUME v.role # "entity", v.role # "type" PROVE ~Item(v)
    BY <1>3, Zenon DEF Marshalled
  <1> QED
    BY <1>1, <1>2, <1>3

\* One call of walk, whatever the calls beneath it made.
LEMMA TurnRight ==
    ASSUME NEW fields, FieldsOK(fields), NEW x, NEW below, Marshalled(x),
           Result(x) => \A p \in Shown(x) : p[2].kind = "string" => p[2] \in Text
    PROVE  LET y == Turn(x, Selections(fields), below) IN
           IF Result(x)
           THEN SelectedKept(x, y, fields) /\ (Recognised(x) => OnlySelected(x, y, fields))
           ELSE SameAround(x, y)
  <1>1. PICK y : y = Turn(x, Selections(fields), below)
    OBVIOUS
  <1>2. CASE Result(x) /\ Recognised(x)
    <2>1. x.kind = "object" /\ x.role \in {"entity", "type"}
      BY <1>2 DEF Result
    <2>2. ItemRight(fields, x, y)
      <3>1. CASE x.role = "entity"
        <4>1. EntityLike(x)
          BY <1>2, <3>1 DEF Recognised, EntityLike
        <4>2. y = ProjectEntity(x, Selections(fields))
          BY <1>1, <2>1, <4>1 DEF Turn
        <4> QED
          BY <1>2, <3>1, <4>1, <4>2, EntityRight
      <3>2. CASE x.role # "entity"
        <4>1. TypeDefLike(x) /\ ~EntityLike(x)
          BY <1>2, <2>1, <3>2, MarshalledIs DEF Recognised, TypeDefLike, EntityLike, Is
        <4>2. y = Obj(x.role, Pick(x, Selections(fields).keep, Selections(fields)))
          BY <1>1, <2>1, <4>1 DEF Turn
        <4> QED
          BY <1>2, <3>2, <4>2, DefinitionRight
      <3> QED
        BY <3>1, <3>2
    <2> QED
      BY <1>1, <1>2, <2>2, ItemSelected
  <1>3. CASE Result(x) /\ ~Recognised(x)
    <2>1. x.kind = "object" /\ x.role \in {"entity", "type"}
      BY <1>3 DEF Result
    <2>2. ~EntityLike(x) /\ ~TypeDefLike(x)
      <3>1. CASE x.role = "entity"
        <4>1. ~Has(x, "fields") /\ ~Is(x, "data", "object")
          BY <1>3, <2>1, <3>1, MarshalledIs DEF Recognised
        <4> QED
          BY <4>1 DEF EntityLike, TypeDefLike, Is
      <3>2. CASE x.role # "entity"
        <4>1. ~Has(x, "data") /\ ~Is(x, "fields", "array")
          BY <1>3, <2>1, <3>2, MarshalledIs DEF Recognised
        <4> QED
          BY <4>1 DEF EntityLike, TypeDefLike, Is
      <3> QED
        BY <3>1, <3>2
    <2>3. PICK f : f = [k \in DOMAIN x.at |-> below[x.at[k]]]
      OBVIOUS
    <2>4. y = Obj(x.role, f)
      BY <1>1, <2>1, <2>2, <2>3 DEF Turn
    <2>5. y.at = f /\ y.role = x.role /\ DOMAIN f = DOMAIN x.at
      BY <2>3, <2>4 DEF Obj
    <2>6. PICK names : /\ Shown(x) = PairsOf(x.at, names)
                       /\ PairsOf(f, names) \subseteq Shown(y)
      <3>1. CASE x.role = "entity"
        <4>1. ~Is(x, "data", "object")
          BY <1>3, <3>1 DEF Recognised
        <4>2. Shown(x) = PairsOf(x.at, DOMAIN x.at \ {"data"})
          BY <3>1, <4>1, ShownIs
        <4>3. PairsOf(f, DOMAIN x.at \ {"data"}) \subseteq Shown(y)
          BY <2>5, <3>1, ShownIs
        <4> QED
          BY <4>2, <4>3
      <3>2. CASE x.role # "entity"
        <4>1. Shown(x) = PairsOf(x.at, DOMAIN x.at) /\ Shown(y) = PairsOf(f, DOMAIN x.at)
          BY <2>5, <3>2, ShownIs
        <4> QED
          BY <4>1
      <3> QED
        BY <3>1, <3>2
    <2>7. ASSUME NEW q \in Shown(x) PROVE \E p \in Shown(y) : p[1] = q[1]
      <3>1. PICK k \in names : q = <<k, x.at[k]>>
        BY <2>6, <2>7 DEF PairsOf
      <3>2. PICK p : p = <<k, f[k]>>
        OBVIOUS
      <3>3. p \in Shown(y) /\ p[1] = k /\ q[1] = k
        BY <2>6, <3>1, <3>2 DEF PairsOf
      <3> QED
        BY <3>3
    <2>8. SelectedKept(x, y, fields)
      BY <2>7, Zenon DEF SelectedKept
    <2> QED
      BY <1>1, <1>3, <2>8
  <1>4. CASE ~Result(x)
    <2>1. CASE x.kind = "array"
      <3>1. y = Arr([i \in DOMAIN x.el |-> below[x.el[i]]])
        BY <1>1, <2>1 DEF Turn
      <3> QED
        BY <1>1, <1>4, <2>1, <3>1 DEF Arr, SameAround
    <2>2. CASE x.kind = "object"
      <3>1. ~Item(x)
        BY <1>4, <2>2, MarshalledIs DEF Result
      <3>2. y = Obj(x.role, [k \in DOMAIN x.at |-> below[x.at[k]]])
        BY <1>1, <2>2, <3>1 DEF Turn, Item
      <3> QED
        BY <1>1, <1>4, <2>2, <3>2 DEF Obj, SameAround
    <2>3. CASE x.kind \notin {"array", "object"}
      <3>1. y = x
        BY <1>1, <2>3 DEF Turn
      <3> QED
        BY <1>1, <1>4, <2>3, <3>1 DEF SameAround
    <2> QED
      BY <2>1, <2>2, <2>3
  <1> QED
    BY <1>2, <1>3, <1>4

\* Whatever the response and the fields are, each result object of the response is
\* projected and nothing else is touched.
LEMMA EverywhereProjected ==
    ASSUME NEW v, ResponseOK(v), NEW fields, FieldsOK(fields)
    PROVE  ProjectedEverywhere(v, fields)
  <1>1. PICK sel : sel = Selections(fields)
    OBVIOUS
  <1> SUFFICES ASSUME sel.keep # {}, \A d \in 0 .. Depth : \A x \in Met(v)[d] : Marshalled(x),
                      NEW d \in 0 .. Depth, NEW p \in Paired(v, ProjectJSON(v, fields))[d]
               PROVE  IF Result(p[1])
                      THEN /\ SelectedKept(p[1], p[2], fields)
                           /\ Recognised(p[1]) => OnlySelected(p[1], p[2], fields)
                      ELSE SameAround(p[1], p[2])
    BY <1>1 DEF ProjectedEverywhere
  <1>2. ProjectJSON(v, fields) = Walk(v, sel)
    BY <1>1 DEF ProjectJSON
  <1>3. Returned(v, sel, d, p[1], p[2])
    BY <1>2, AnswersPaired
  <1>4. PICK below : p[1] \in Met(v)[d] /\ p[2] = Turn(p[1], sel, below)
    BY <1>3 DEF Returned
  <1>5. Result(p[1]) => \A q \in Shown(p[1]) : q[2].kind = "string" => q[2] \in Text
    BY <1>4 DEF ResponseOK
  <1>6. Marshalled(p[1])
    BY <1>4
  <1> QED
    BY <1>1, <1>4, <1>5, <1>6, TurnRight

\* projectJSON (projection.go), for a response of any shape down to any depth and any
\* list of fields: entities with data and type definitions with fields show the names
\* asked for, all they have of them and no others, with their values or a cut of them;
\* those without lose none of the names asked for.
THEOREM ProjectsExactly ==
    ASSUME input.of = "projection" => ResponseOK(input.response) /\ FieldsOK(input.fields)
    PROVE  ProjectionExact
  <1> SUFFICES ASSUME input.of = "projection" PROVE ProjectedEverywhere(input.response, input.fields)
    BY DEF ProjectionExact
  <1> QED
    BY EverywhereProjected

=============================================================================
