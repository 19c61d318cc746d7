----------------------------- MODULE Substrate -----------------------------
(***************************************************************************)
(* The write path of a coggo peer.                                         *)
(*                                                                         *)
(* Every write is a federation message handled by StoreHandler             *)
(* (internal/federation/handler.go) over one SQLite database               *)
(* (internal/store/sqlite.go) that all peers share.  A handler runs three  *)
(* or four separate statements: it may read the row, it stamps the write   *)
(* with the wall clock, it INSERTs an event in the append-only log, and it *)
(* then changes the projection (the entities or relations table).  There   *)
(* is no transaction around them, and the MCP server runs one goroutine    *)
(* per request, so the steps of different requests interleave and any of   *)
(* them may be the last one before an error or a crash.                    *)
(*                                                                         *)
(* Abstractions.  Time is a counter that every reading advances: two       *)
(* readings are never equal.  A fresh ULID is named by the reading taken   *)
(* by the request that mints it.  Every write stores its own stamp as the  *)
(* value of the field it sets, so any two writes are distinguishable; 0 is *)
(* an absent field, a NULL timestamp and the empty identifier.  Type       *)
(* definitions (type.define) are not written here.                         *)
(***************************************************************************)
EXTENDS Stamps, FiniteSets

CONSTANTS
    Clients,        \* request goroutines, one request at a time each
    Peers,          \* peer DIDs served by the process
    PeersOf,        \* PeersOf[c]: the peers client c sends requests to
    Fields,         \* field names of an entity
    Ops,            \* the write operations the clients use
    Faults,         \* the failures that happen: "statement", "crash"
    MaxClock,       \* bound: how many times the clock is read
    Nil             \* no such row; no request

AllOps == {"entity.create", "entity.update", "entity.archive",
           "relation.create", "relation.dissolve"}

ASSUME PeersAssumption == PeersOf \in [Clients -> SUBSET Peers]
ASSUME OpsAssumption == Ops \subseteq AllOps
ASSUME FaultsAssumption == Faults \subseteq {"statement", "crash"}
ASSUME ClockAssumption == MaxClock \in Nat

Ids == 1 .. MaxClock
Times == 0 .. MaxClock

\* A row of the entities table (types.Entity); `archived' is archived_at.
EntityRow == [peer: Peers, data: [Fields -> Times], by: Clients,
              created: Ids, updated: Ids, archived: Times]

\* A row of the relations table (types.Relation).
RelationRow == [peer: Peers, from: Times, to: Times, by: Clients, created: Ids]

Rows == EntityRow \cup RelationRow

\* What a federation message asks for: the operation, the peer it is routed
\* to, the id it names (or mints) and the field an update sets.
Request == [op: AllOps, peer: Peers, id: Times, field: Fields \cup {Nil}]

ASSUME NilAssumption == Nil \notin Rows \cup Request

EventTypes == {"EntityCreated", "EntityUpdated", "EntityArchived",
               "RelationCreated", "RelationDissolved"}

\* A row of the events table: `id' and `row' are what the payload carries.
Event == [type: EventTypes, peer: Peers, id: Times, ts: Ids,
          row: Rows \cup {Nil}]

VARIABLES
    clock,      \* the last reading of time.Now()
    events,     \* the events table
    entities,   \* the entities table, by id
    relations,  \* the relations table, by id
    pc,         \* where each client's request is
    msg,        \* the request each client has in flight, or had last
    work,       \* the row its handler has in hand
    stamp,      \* the time its handler read
    reply       \* what its last request came to

db == <<events, entities, relations>>
vars == <<clock, events, entities, relations, pc, msg, work, stamp, reply>>

TypeOK ==
    /\ clock \in Times
    /\ events \subseteq Event
    /\ entities \in [Ids -> EntityRow \cup {Nil}]
    /\ relations \in [Ids -> RelationRow \cup {Nil}]
    /\ pc \in [Clients -> {"idle", "get", "stamp", "append", "project"}]
    /\ msg \in [Clients -> Request \cup {Nil}]
    /\ work \in [Clients -> Rows \cup {Nil}]
    /\ stamp \in [Clients -> Times]
    /\ reply \in [Clients -> {"none", "ok", "error", "lost"}]

-----------------------------------------------------------------------------
(***************************************************************************)
(* Reading the store.                                                      *)
(***************************************************************************)

\* GetEntity: the row with this id and this peer, or nil.
GetEntity(p, i) ==
    IF i \in Ids /\ entities[i] # Nil /\ entities[i].peer = p
    THEN entities[i] ELSE Nil

MaxRank == (MaxClock + TicksPerSecond) * (TicksPerSecond + 1) + TicksPerSecond

\* Mutant: the upper bound is dropped.
ListEventsUnbounded(p, until) == {e \in events : e.peer = p}

\* ListEvents(p, zero, until): the rows of one peer up to and including until.
ListEvents(p, until) ==
    {e \in events : e.peer = p /\ TextRank(e.ts) <= TextRank(until)}

\* Mutant: an update is taken as it is instead of being merged.
FoldEventUnmerged(state, e) ==
    CASE e.type \in {"EntityCreated", "EntityUpdated"} -> [state EXCEPT ![e.id] = e.row]
      [] e.type = "EntityArchived" /\ e.id \in Ids ->
            [state EXCEPT ![e.id] =
                IF @ = Nil THEN Nil ELSE [@ EXCEPT !.archived = e.ts]]
      [] OTHER -> state

\* One turn of TimeTravelEntities' loop over the events.
FoldEvent(state, e) ==
    CASE e.type = "EntityCreated" -> [state EXCEPT ![e.id] = e.row]
      [] e.type = "EntityUpdated" ->
            [state EXCEPT ![e.id] =
                IF @ = Nil THEN e.row
                ELSE [@ EXCEPT !.data = e.row.data, !.updated = e.ts]]
      [] e.type = "EntityArchived" /\ e.id \in Ids ->
            [state EXCEPT ![e.id] =
                IF @ = Nil THEN Nil ELSE [@ EXCEPT !.archived = e.ts]]
      [] OTHER -> state

\* The loop over a peer's events, in the order ListEvents returns them (ORDER BY
\* timestamp; no two stamps are equal): the entities at each rank.
Replay(log) ==
    LET At(r) == {e \in log : TextRank(e.ts) = r}
        state[r \in 0 .. MaxRank] ==
            IF r = 0 THEN [i \in Ids |-> Nil]
            ELSE IF At(r) = {} THEN state[r - 1]
            ELSE FoldEvent(state[r - 1], CHOOSE e \in At(r) : TRUE)
    IN  state

\* The rows of the peer that the loop leaves.
FoldLog(p, log) ==
    LET last == Replay(log)[MaxRank]
    IN  [i \in Ids |-> IF last[i] # Nil /\ last[i].peer = p THEN last[i] ELSE Nil]

\* TimeTravelEntities: the log of a peer up to asOf, folded.
TimeTravel(p, asOf) == FoldLog(p, ListEvents(p, asOf))

-----------------------------------------------------------------------------
(***************************************************************************)
(* A request arrives (dispatch) and the handler prepares its write.        *)
(***************************************************************************)
Init ==
    /\ clock = 0
    /\ events = {}
    /\ entities = [i \in Ids |-> Nil]
    /\ relations = [i \in Ids |-> Nil]
    /\ pc = [c \in Clients |-> "idle"]
    /\ msg = [c \in Clients |-> Nil]
    /\ work = [c \in Clients |-> Nil]
    /\ stamp = [c \in Clients |-> 0]
    /\ reply = [c \in Clients |-> "none"]

\* The ids a client can name: what it has seen, or none at all.
SeenEntities == {0} \cup {i \in Ids : entities[i] # Nil}

SeenRelations ==
    {0} \cup {i \in Ids : \/ relations[i] # Nil
                          \/ \E e \in events : /\ e.type = "RelationDissolved"
                                               /\ e.id = i}

\* Bound: a reading of the clock is left for every request that needs one.
ClockLeft ==
    clock + Cardinality({c \in Clients : pc[c] \in {"get", "stamp"}}) < MaxClock

\* A message is routed to the handler of one of the client's peers.
Dispatch(c, op, p, i, f) ==
    /\ pc[c] = "idle"
    /\ op \in Ops
    /\ p \in PeersOf[c]
    /\ msg' = [msg EXCEPT ![c] = [op |-> op, peer |-> p, id |-> i, field |-> f]]

\* now := time.Now().UTC(), and the row prepared for the write.
Stamp(c, row) ==
    /\ clock < MaxClock
    /\ clock' = clock + 1
    /\ stamp' = [stamp EXCEPT ![c] = clock + 1]
    /\ work' = [work EXCEPT ![c] = row]
    /\ pc' = [pc EXCEPT ![c] = "append"]
    /\ reply' = [reply EXCEPT ![c] = "none"]

\* respond: the request succeeded.
Respond(c) ==
    /\ pc' = [pc EXCEPT ![c] = "idle"]
    /\ reply' = [reply EXCEPT ![c] = "ok"]
    /\ work' = [work EXCEPT ![c] = Nil]
    /\ UNCHANGED <<clock, msg, stamp>>

\* errorResp, or no response at all: the handler gives up and undoes nothing.
Abandon(c, outcome) ==
    /\ pc' = [pc EXCEPT ![c] = "idle"]
    /\ reply' = [reply EXCEPT ![c] = outcome]
    /\ work' = [work EXCEPT ![c] = Nil]
    /\ msg' = [msg EXCEPT ![c] = Nil]
    /\ stamp' = [stamp EXCEPT ![c] = 0]
    /\ UNCHANGED clock

\* opEntityCreate up to AppendEvent, for a type that resolves and valid fields.
EntityCreate(c, p, f) ==
    /\ ClockLeft
    /\ Dispatch(c, "entity.create", p, clock + 1, Nil)
    /\ Stamp(c, [peer |-> p, by |-> c, created |-> clock + 1,
                 data |-> [g \in Fields |-> IF g = f THEN clock + 1 ELSE 0],
                 updated |-> clock + 1, archived |-> 0])
    /\ UNCHANGED db

\* opEntityUpdate is dispatched; its GetEntity is still to come.
EntityUpdate(c, p, i, f) ==
    /\ ClockLeft
    /\ Dispatch(c, "entity.update", p, i, f)
    /\ pc' = [pc EXCEPT ![c] = "get"]
    /\ stamp' = [stamp EXCEPT ![c] = 0]
    /\ reply' = [reply EXCEPT ![c] = "none"]
    /\ UNCHANGED <<clock, work, db>>

\* opEntityUpdate: cur := GetEntity.  A row that is not there is a nil cur, and
\* reading cur.Data panics: net/http ends the request without an answer.
UpdateGet(c) ==
    LET cur == GetEntity(msg[c].peer, msg[c].id) IN
    /\ pc[c] = "get"
    /\ \/ /\ cur # Nil
          /\ pc' = [pc EXCEPT ![c] = "stamp"]
          /\ work' = [work EXCEPT ![c] = cur]
          /\ UNCHANGED <<clock, msg, stamp, reply>>
       \/ /\ cur = Nil
          /\ Abandon(c, "lost")
    /\ UNCHANGED db

\* cur.Data[k] = v and cur.UpdatedAt = now; the other columns are kept.
Merged(row, f, t) ==
    [peer |-> row.peer, by |-> row.by, created |-> row.created,
     data |-> [row.data EXCEPT ![f] = t], updated |-> t, archived |-> row.archived]

\* Mutant: the writer becomes the creator.
UpdateMergeReauthors(c) ==
    /\ pc[c] = "stamp"
    /\ Stamp(c, [Merged(work[c], msg[c].field, clock + 1) EXCEPT !.by = c])
    /\ UNCHANGED <<msg, db>>

\* opEntityUpdate: merge the field into cur and stamp it.
UpdateMerge(c) ==
    /\ pc[c] = "stamp"
    /\ Stamp(c, Merged(work[c], msg[c].field, clock + 1))
    /\ UNCHANGED <<msg, db>>

\* opEntityArchive up to AppendEvent: nothing checks that the entity exists.
EntityArchive(c, p, i) ==
    /\ ClockLeft
    /\ Dispatch(c, "entity.archive", p, i, Nil)
    /\ Stamp(c, Nil)
    /\ UNCHANGED db

\* opRelationCreate up to AppendEvent: the endpoints are not looked up.
RelationCreate(c, p, from, to) ==
    /\ ClockLeft
    /\ Dispatch(c, "relation.create", p, clock + 1, Nil)
    /\ Stamp(c, [peer |-> p, from |-> from, to |-> to, by |-> c,
                 created |-> clock + 1])
    /\ UNCHANGED db

\* opRelationDissolve up to AppendEvent.
RelationDissolve(c, p, i) ==
    /\ ClockLeft
    /\ Dispatch(c, "relation.dissolve", p, i, Nil)
    /\ Stamp(c, Nil)
    /\ UNCHANGED db

\* A message that does not decode, names an operation or a type that does not
\* exist, or fails ValidateEntity: an error before anything is written.
Reject(c) ==
    /\ pc[c] = "idle"
    /\ Abandon(c, "error")
    /\ UNCHANGED db

-----------------------------------------------------------------------------
(***************************************************************************)
(* The two statements that write.                                          *)
(***************************************************************************)
EventTypeOf(op) ==
    CASE op = "entity.create"     -> "EntityCreated"
      [] op = "entity.update"     -> "EntityUpdated"
      [] op = "entity.archive"    -> "EntityArchived"
      [] op = "relation.create"   -> "RelationCreated"
      [] op = "relation.dissolve" -> "RelationDissolved"

\* Mutant: the event is not dated.
EventOfUndated(c) ==
    [type |-> EventTypeOf(msg[c].op), peer |-> msg[c].peer, id |-> msg[c].id,
     ts |-> 0, row |-> work[c]]

\* Mutant: the payload is made before the fields are merged.
EventOfUnmerged(c) ==
    [type |-> EventTypeOf(msg[c].op), peer |-> msg[c].peer, id |-> msg[c].id,
     ts |-> stamp[c],
     row |-> IF msg[c].op = "entity.update" THEN entities[msg[c].id] ELSE work[c]]

EventOf(c) ==
    [type |-> EventTypeOf(msg[c].op), peer |-> msg[c].peer, id |-> msg[c].id,
     ts |-> stamp[c], row |-> work[c]]

\* Mutant: the error of AppendEvent is not looked at.
AppendEventUnchecked(c) ==
    /\ pc[c] = "append"
    /\ events' \in {events, events \cup {EventOf(c)}}
    /\ pc' = [pc EXCEPT ![c] = "project"]
    /\ UNCHANGED <<clock, entities, relations, msg, work, stamp, reply>>

\* h.Store.AppendEvent.
AppendEvent(c) ==
    /\ pc[c] = "append"
    /\ events' = events \cup {EventOf(c)}
    /\ pc' = [pc EXCEPT ![c] = "project"]
    /\ UNCHANGED <<clock, entities, relations, msg, work, stamp, reply>>

\* UpsertEntity: INSERT OR REPLACE of the whole row the handler holds.
UpsertEntity(c) ==
    /\ pc[c] = "project"
    /\ msg[c].op \in {"entity.create", "entity.update"}
    /\ entities' = [entities EXCEPT ![msg[c].id] = work[c]]
    /\ Respond(c)
    /\ UNCHANGED <<events, relations>>

\* SET archived_at = at, updated_at = at.
Archived(row, t) ==
    [peer |-> row.peer, by |-> row.by, created |-> row.created,
     data |-> row.data, updated |-> t, archived |-> t]

\* Mutant: archiving deletes the row.
ArchiveEntityDeletes(c) ==
    /\ pc[c] = "project"
    /\ msg[c].op = "entity.archive"
    /\ GetEntity(msg[c].peer, msg[c].id) # Nil
    /\ entities' = [entities EXCEPT ![msg[c].id] = Nil]
    /\ Respond(c)
    /\ UNCHANGED <<events, relations>>

\* ArchiveEntity: UPDATE of the two timestamps of the peer's row, if any.
ArchiveEntity(c) ==
    LET i == msg[c].id IN
    /\ pc[c] = "project"
    /\ msg[c].op = "entity.archive"
    /\ \/ /\ GetEntity(msg[c].peer, i) # Nil
          /\ entities' = [entities EXCEPT ![i] = Archived(@, stamp[c])]
          /\ Respond(c)
       \/ /\ GetEntity(msg[c].peer, i) = Nil
          /\ Abandon(c, "error")
          /\ UNCHANGED entities
    /\ UNCHANGED <<events, relations>>

\* Mutant: the insert is retried although it went through.
UpsertRelationRetries(c) ==
    /\ pc[c] = "project"
    /\ msg[c].op = "relation.create"
    /\ relations' = [relations EXCEPT ![msg[c].id] = work[c]]
    /\ Respond(c) \/ UNCHANGED <<clock, pc, msg, work, stamp, reply>>
    /\ UNCHANGED <<events, entities>>

\* UpsertRelation: the endpoints must not be empty.
UpsertRelation(c) ==
    /\ pc[c] = "project"
    /\ msg[c].op = "relation.create"
    /\ \/ /\ work[c].from # 0 /\ work[c].to # 0
          /\ relations' = [relations EXCEPT ![msg[c].id] = work[c]]
          /\ Respond(c)
       \/ /\ work[c].from = 0 \/ work[c].to = 0
          /\ Abandon(c, "error")
          /\ UNCHANGED relations
    /\ UNCHANGED <<events, entities>>

\* DissolveRelation: DELETE of the peer's row, if any.
DissolveRelation(c) ==
    LET i == msg[c].id
        found == i \in Ids /\ relations[i] # Nil /\ relations[i].peer = msg[c].peer
    IN
    /\ pc[c] = "project"
    /\ msg[c].op = "relation.dissolve"
    /\ \/ /\ found
          /\ relations' = [relations EXCEPT ![i] = Nil]
          /\ Respond(c)
       \/ /\ ~found
          /\ Abandon(c, "error")
          /\ UNCHANGED relations
    /\ UNCHANGED <<events, entities>>

\* A statement returns an error (disk full, busy timeout, cancelled context):
\* the handler answers with it and undoes nothing.
StatementFails(c) ==
    /\ "statement" \in Faults
    /\ pc[c] \in {"get", "append", "project"}
    /\ Abandon(c, "error")
    /\ UNCHANGED db

\* The process dies: what was committed stays, what was in hand is gone.
Crash ==
    /\ "crash" \in Faults
    /\ \E c \in Clients : pc[c] # "idle"
    /\ LET busy == {c \in Clients : pc[c] # "idle"} IN
       /\ msg' = [c \in Clients |-> IF c \in busy THEN Nil ELSE msg[c]]
       /\ stamp' = [c \in Clients |-> IF c \in busy THEN 0 ELSE stamp[c]]
       /\ reply' = [c \in Clients |-> IF c \in busy THEN "lost" ELSE reply[c]]
    /\ pc' = [c \in Clients |-> "idle"]
    /\ work' = [c \in Clients |-> Nil]
    /\ UNCHANGED <<clock, db>>

-----------------------------------------------------------------------------
Arrive(c) ==
    \/ Reject(c)
    \/ \E p \in Peers :
        \/ \E f \in Fields : EntityCreate(c, p, f)
        \/ \E i \in SeenEntities, f \in Fields : EntityUpdate(c, p, i, f)
        \/ \E i \in SeenEntities : EntityArchive(c, p, i)
        \/ \E from, to \in SeenEntities : RelationCreate(c, p, from, to)
        \/ \E i \in SeenRelations : RelationDissolve(c, p, i)

Proceed(c) ==
    \/ UpdateGet(c)
    \/ UpdateMerge(c)
    \/ AppendEvent(c)
    \/ UpsertEntity(c)
    \/ ArchiveEntity(c)
    \/ UpsertRelation(c)
    \/ DissolveRelation(c)

Next ==
    \/ \E c \in Clients : Arrive(c) \/ Proceed(c) \/ StatementFails(c)
    \/ Crash

Spec == Init /\ [][Next]_vars

-----------------------------------------------------------------------------
(***************************************************************************)
(* Properties.                                                             *)
(***************************************************************************)

\* Some event of this type, about this id of this peer, was logged at t.
LoggedAt(type, p, i, t) ==
    \E e \in events : e.type = type /\ e.peer = p /\ e.id = i /\ e.ts = t

EntityOps == {"entity.create", "entity.update", "entity.archive"}

\* The events that carry the fields of an entity.
Contents == {"EntityCreated", "EntityUpdated"}

Dissolved(i) == \E e \in events : e.type = "RelationDissolved" /\ e.id = i

\* What the log must say before row r may stand under id i: who created it,
\* where its data comes from, and that it was archived.
CreatedLogged(i, r) ==
    /\ r.created = i
    /\ \E e \in events : /\ e.type = "EntityCreated" /\ e.peer = r.peer
                         /\ e.id = i /\ e.ts = i /\ e.row.by = r.by

ContentLogged(i, r) ==
    \E e \in events : /\ e.type \in Contents
                      /\ e.peer = r.peer /\ e.id = i /\ e.row.data = r.data
                      /\ r.updated \in {e.ts, r.archived}

ArchiveLogged(i, r) ==
    r.archived # 0 => LoggedAt("EntityArchived", r.peer, i, r.archived)

EntityLogged(i, r) ==
    CreatedLogged(i, r) /\ ContentLogged(i, r) /\ ArchiveLogged(i, r)

RelationLogged(i, r) ==
    \E e \in events : /\ e.type = "RelationCreated" /\ e.peer = r.peer
                      /\ e.id = i /\ e.row = r

\* "Every write path appends an Event before mutating the projection"
\* (handler.go): whatever interleaves, fails or crashes, every column of every
\* row of entities and relations comes from an event already in the log, of the
\* same peer and the same id.
LoggedBeforeProjected ==
    /\ \A i \in Ids : entities[i] # Nil => EntityLogged(i, entities[i])
    /\ \A i \in Ids : relations[i] # Nil => RelationLogged(i, relations[i])

\* Entities are never hard-deleted, and an update, which replaces the whole row
\* from a copy read earlier, never moves a row to another peer or rewrites who
\* created it and when.
CreationImmutable ==
    [][\A i \in Ids : entities[i] # Nil =>
          /\ entities'[i] # Nil
          /\ entities'[i].peer = entities[i].peer
          /\ entities'[i].by = entities[i].by
          /\ entities'[i].created = entities[i].created]_entities

\* A request answered with success stays recorded, whatever other requests, errors
\* and crashes follow: its event is in the log, the entity it was about is in the
\* peer's table, one it created under the name of its creator, a relation it created
\* is there until a dissolution is logged, and one it dissolved is gone for good.
\* (The fields of an update may be lost: see ReplayAgrees.)
AckedWritesLast ==
    \A c \in Clients : reply[c] = "ok" =>
        LET op == msg[c].op
            p == msg[c].peer
            i == msg[c].id
        IN  /\ LoggedAt(EventTypeOf(op), p, i, stamp[c])
            /\ op \in EntityOps => entities[i] # Nil /\ entities[i].peer = p
            /\ op = "entity.create" => entities[i].by = c
            /\ op = "relation.create" =>
                  relations[i] # Nil \/ Dissolved(i)
            /\ op = "relation.dissolve" => relations[i] = Nil

\* The times a client may ask for in coggo_time_travel, the future included.
AsOf == 0 .. MaxClock + TicksPerSecond

\* Another event of these types about the same entity is of e's second, or of a
\* later one up to t's.
Overtaken(e, types, t) ==
    \E d \in events \ {e} :
        /\ d.type \in types /\ d.peer = e.peer /\ d.id = e.id
        /\ SecondOf(e.ts) <= SecondOf(d.ts) /\ SecondOf(d.ts) <= SecondOf(t)

\* A write that was answered with success is what time travel shows from the next
\* second on, until another write of the same columns is logged: the field an update
\* set although its upsert may have been undone in the table, the columns of a
\* created entity, and the archival of one created in an earlier second.
AckedWritesShown ==
    \A c \in Clients, t \in AsOf :
        reply[c] = "ok" /\ SecondOf(stamp[c]) < SecondOf(t) =>
            \A e \in events : e.ts = stamp[c] =>
                LET row == TimeTravel(e.peer, t)[e.id] IN
                /\ e.type \in Contents /\ ~Overtaken(e, Contents, t) =>
                      /\ row # Nil
                      /\ \E f \in Fields : row.data[f] = stamp[c]
                      /\ e.type = "EntityCreated" => row.by = c /\ row.created = e.id
                      /\ e.type = "EntityUpdated" => row.data[msg[c].field] = stamp[c]
                /\ e.type = "EntityArchived" /\ ~Overtaken(e, {"EntityArchived"}, t)
                   /\ SecondOf(e.id) < SecondOf(e.ts) =>
                      row # Nil /\ row.archived = stamp[c]

\* A relation that was dissolved never comes back: relation.create inserts its
\* row once, before anyone can name it to relation.dissolve.
NoEdgeRevival ==
    [][\A i \in Ids : relations[i] = Nil /\ relations'[i] # Nil =>
          ~Dissolved(i)]_relations

\* No write that is still to be logged can carry a time of t's second, or before:
\* not one whose stamp is taken, and not one that has yet to read the clock.
Settled(t) ==
    /\ SecondOf(clock + 1) > SecondOf(t)
    /\ \A c \in Clients : pc[c] = "append" => SecondOf(stamp[c]) > SecondOf(t)

\* The past is settled (coggo_time_travel): the state as of t never changes any
\* more, whatever is written, fails or crashes, once t's second is over and the
\* requests stamped in it have been logged.  (One log has one fold.)
HistoryStable ==
    [][\A t \in 0 .. clock, p \in Peers :
          Settled(t) /\ ListEvents(p, t)' # ListEvents(p, t) =>
             FoldLog(p, ListEvents(p, t)') = TimeTravel(p, t)]_events

\* "the event log is the durable source of truth and time travel can rebuild
\* state from it" (handler.go).  It does not hold: of two updates the one logged
\* first may be upserted last, ArchiveEntity moves updated_at and the fold does
\* not, and events of one second may be folded in another order than theirs.
ReplayAgrees ==
    \A p \in Peers :
        (\A c \in Clients : p \in PeersOf[c] => pc[c] = "idle") =>
            \A i \in Ids :
                TimeTravel(p, MaxClock + TicksPerSecond)[i] = GetEntity(p, i)

=============================================================================
