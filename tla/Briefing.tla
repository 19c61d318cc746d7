----------------------------- MODULE Briefing -----------------------------
(***************************************************************************)
(* The daily briefing of a peer: buildPeerSection                          *)
(* (internal/briefing/today.go).  Each section is a query for one type,    *)
(* which returns the newest rows up to a default limit, and a filter on    *)
(* what it returned.  A query may fail: that for the goals ends the        *)
(* briefing, any other is taken to have found nothing.                     *)
(*                                                                         *)
(* An entity has an id, a type, a status ("" when its data has none), and  *)
(* the days it was created and last updated on.  Days count up to `now'.   *)
(* Titles, excerpts and the text of the lines are left out, and so are the *)
(* two sections that only the peer named coggo has.                        *)
(***************************************************************************)
EXTENDS Naturals, FiniteSets

CONSTANTS
    Limit,      \* the default limit of QueryEntities (50 in the code)
    RecentDays, \* 7
    StaleDays   \* 14

ASSUME BriefingAssumption ==
    {Limit, RecentDays, StaleDays} \subseteq Nat /\ RecentDays <= StaleDays

StaleTypes == {"Project", "Goal", "Decision", "Domain", "Observation"}

\* ORDER BY created_at DESC, id DESC.
Before(e, f) == e.created > f.created \/ (e.created = f.created /\ e.id > f.id)

\* Mutant: the rows come by their last update.
QueryByUpdate(store, type) ==
    LET rows == {e \in store : e.type = type}
    IN  {e \in rows : Cardinality({f \in rows : f.updated > e.updated}) < Limit}

\* QueryEntities(peer, type) without a limit: the default one.
Query(store, type) ==
    LET rows == {e \in store : e.type = type}
    IN  {e \in rows : Cardinality({f \in rows : Before(f, e)}) < Limit}

\* The queries, in the order they are made; those for the stale go by the type.
Questions == {"goals", "observations", "projects", "decisions"} \cup StaleTypes

\* What a section makes of its query, if the query failed or not.
Answer(store, failed, question, type) ==
    IF question \in failed THEN {} ELSE Query(store, type)

\* Mutant: a goal without a status does not count as open.
OpenGoalsExplicit(store, failed) ==
    {e \in Answer(store, failed, "goals", "Goal") : e.status = "open"}

OpenGoals(store, failed) ==
    {e \in Answer(store, failed, "goals", "Goal") : e.status \in {"", "open"}}
ActiveProjects(store, failed) ==
    {e \in Answer(store, failed, "projects", "Project") : e.status \in {"", "active"}}

\* CreatedAt.After(now - 7 days).
Recent(store, failed, question, type, now) ==
    {e \in Answer(store, failed, question, type) : e.created + RecentDays > now}

\* Mutant: age counts from the creation.
StaleByCreation(store, failed, now) ==
    {e \in UNION {Answer(store, failed, t, t) : t \in StaleTypes} : e.created + StaleDays < now}

\* UpdatedAt.Before(now - 14 days), over the types in the list.
Stale(store, failed, now) ==
    {e \in UNION {Answer(store, failed, t, t) : t \in StaleTypes} : e.updated + StaleDays < now}

NoBriefing == [error |-> TRUE]

\* Mutant: no query for the goals, no open goals.
PeerSectionAnyhow(store, failed, now) ==
    [error    |-> FALSE,
     goals    |-> OpenGoals(store, failed),
     projects |-> ActiveProjects(store, failed),
     recent   |-> Recent(store, failed, "observations", "Observation", now)
                     \cup Recent(store, failed, "decisions", "Decision", now),
     stale    |-> Stale(store, failed, now)]

\* buildPeerSection.
PeerSection(store, failed, now) ==
    IF "goals" \in failed THEN NoBriefing
    ELSE [error    |-> FALSE,
          goals    |-> OpenGoals(store, failed),
          projects |-> ActiveProjects(store, failed),
          recent   |-> Recent(store, failed, "observations", "Observation", now)
                          \cup Recent(store, failed, "decisions", "Decision", now),
          stale    |-> Stale(store, failed, now)]

-----------------------------------------------------------------------------
OfType(store, type) == {e \in store : e.type = type}

\* As many rows of its type are as new as the query for them returns.
CrowdedOut(store, e) ==
    Cardinality({f \in OfType(store, e.type) : f.created >= e.created}) > Limit

OpenGoal(e) == e.type = "Goal" /\ e.status \in {"", "open"}
ActiveProject(e) == e.type = "Project" /\ e.status \in {"", "active"}

\* A briefing leaves an open goal out only when its type has more rows than the
\* query returns, and then as many of them are newer; never because the query
\* failed, as it may an active project.
NothingOpenMissed(store, failed, now) ==
    LET b == PeerSection(store, failed, now) IN
    ~b.error => \A e \in store :
        /\ OpenGoal(e) => e \in b.goals \/ CrowdedOut(store, e)
        /\ ActiveProject(e) => e \in b.projects \/ CrowdedOut(store, e) \/ "projects" \in failed

\* What was created within the last days is listed and is not stale, unless its
\* query failed: older rows never keep it out, whatever happened to them since;
\* only as many newer do.
RecentListed(store, failed, now) ==
    LET b == PeerSection(store, failed, now) IN
    ~b.error => \A e \in store :
        e.type \in {"Observation", "Decision"} /\ e.created + RecentDays > now =>
            /\ e \notin b.stale
            /\ \/ e \in b.recent
               \/ CrowdedOut(store, e)
               \/ (IF e.type = "Decision" THEN "decisions" ELSE "observations") \in failed

\* What was worked on within the last days is not called stale, however old it is,
\* and whatever of the types looked at was not, is, unless newer rows of its type
\* use up the query or the query failed.
StaleMeansUntouched(store, failed, now) ==
    LET b == PeerSection(store, failed, now) IN
    ~b.error => \A e \in store :
        IF now - e.updated <= StaleDays THEN e \notin b.stale
        ELSE \/ e.type \notin StaleTypes
             \/ e \in b.stale
             \/ CrowdedOut(store, e)
             \/ e.type \in failed

=============================================================================
