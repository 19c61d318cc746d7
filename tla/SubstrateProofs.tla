-------------------------- MODULE SubstrateProofs --------------------------
(***************************************************************************)
(* Proofs about Substrate, for every number of clients, peers, fields and  *)
(* clock readings, and whichever faults happen.                            *)
(***************************************************************************)
EXTENDS Substrate, NaturalsInduction, WellFoundedInduction, TLAPS

Writing(c) == pc[c] \in {"append", "project"}

\* What a handler holds at each of its steps: TypeOK alone does not say that
\* the row an update is about to merge, or to write, is an entity.
HandlerOK ==
    \A c \in Clients :
        /\ pc[c] # "idle" => msg[c] \in Request
        /\ pc[c] \in {"get", "stamp"} => msg[c].op = "entity.update"
        /\ pc[c] = "stamp" => work[c] \in EntityRow
        /\ Writing(c) =>
            /\ stamp[c] \in Ids
            /\ msg[c].op \in {"entity.create", "entity.update"} => work[c] \in EntityRow
            /\ msg[c].op = "relation.create" => work[c] \in RelationRow

TypeInv == TypeOK /\ HandlerOK

\* GetEntity answers with the stored row, of the peer that was asked.
LEMMA GetEntityType ==
    ASSUME TypeOK, NEW p, NEW i, GetEntity(p, i) # Nil
    PROVE  /\ i \in Ids
           /\ entities[i] \in EntityRow
           /\ entities[i].peer = p
           /\ GetEntity(p, i) = entities[i]
  BY DEF GetEntity, TypeOK

\* The next reading of the clock is an id and a time.
LEMMA NextTick ==
    ASSUME TypeOK, clock < MaxClock
    PROVE  clock + 1 \in Ids /\ clock + 1 \in Times
  BY ClockAssumption DEF TypeOK, Ids, Times

\* opEntityUpdate's merge touches one field and updated_at.
LEMMA MergedRow ==
    ASSUME NEW r \in EntityRow, NEW f, NEW t \in Ids
    PROVE  /\ Merged(r, f, t) \in EntityRow
           /\ Merged(r, f, t).peer = r.peer
           /\ Merged(r, f, t).by = r.by
           /\ Merged(r, f, t).created = r.created
           /\ Merged(r, f, t).archived = r.archived
           /\ Merged(r, f, t).updated = t
  <1>1. t \in Times
    BY ClockAssumption DEF Ids, Times
  <1>2. r.data \in [Fields -> Times]
    BY DEF EntityRow
  <1>3. [r.data EXCEPT ![f] = t] \in [Fields -> Times]
    BY <1>1, <1>2
  <1> QED
    BY <1>3 DEF Merged, EntityRow

\* ArchiveEntity touches archived_at and updated_at.
LEMMA ArchivedRow ==
    ASSUME NEW r \in EntityRow, NEW t \in Ids
    PROVE  /\ Archived(r, t) \in EntityRow
           /\ Archived(r, t).peer = r.peer
           /\ Archived(r, t).by = r.by
           /\ Archived(r, t).created = r.created
           /\ Archived(r, t).data = r.data
           /\ Archived(r, t).archived = t
           /\ Archived(r, t).updated = t
  BY ClockAssumption DEF Archived, EntityRow, Ids, Times

\* Each operation logs its own type of event.
LEMMA EventTypeOfOp ==
    /\ EventTypeOf("entity.create") = "EntityCreated"
    /\ EventTypeOf("entity.update") = "EntityUpdated"
    /\ EventTypeOf("entity.archive") = "EntityArchived"
    /\ EventTypeOf("relation.create") = "RelationCreated"
    /\ EventTypeOf("relation.dissolve") = "RelationDissolved"
  BY Zenon DEF EventTypeOf

\* The empty store with no request in flight has the right types.
LEMMA InitTypeInv == Init => TypeInv
  BY ClockAssumption DEF Init, TypeInv, TypeOK, HandlerOK, Writing, Ids, Times

\* No statement of a handler, no failure and no crash breaks the types.
LEMMA NextTypeInv == TypeInv /\ [Next]_vars => TypeInv'
  <1> SUFFICES ASSUME TypeInv, [Next]_vars PROVE TypeInv'
    OBVIOUS
  <1> USE DEF TypeInv
  <1>a. ASSUME NEW c \in Clients, Reject(c) PROVE TypeInv'
    BY <1>a, ClockAssumption DEF Reject, Abandon, db, TypeOK, HandlerOK, Writing, Times
  <1>b. ASSUME NEW c \in Clients, NEW p \in Peers, NEW f \in Fields, EntityCreate(c, p, f)
        PROVE TypeInv'
    BY <1>b, NextTick, ClockAssumption DEF EntityCreate, Dispatch, Stamp, db, TypeOK, HandlerOK, Writing, Request, EntityRow, Rows, AllOps, Times
  <1>c. ASSUME NEW c \in Clients, NEW p \in Peers, NEW i \in SeenEntities, NEW f \in Fields,
               EntityUpdate(c, p, i, f)
        PROVE TypeInv'
    BY <1>c, ClockAssumption DEF EntityUpdate, Dispatch, db, TypeOK, HandlerOK, Writing, Request, AllOps, SeenEntities, Ids, Times
  <1>d. ASSUME NEW c \in Clients, NEW p \in Peers, NEW i \in SeenEntities, EntityArchive(c, p, i)
        PROVE TypeInv'
    BY <1>d, NextTick, ClockAssumption DEF EntityArchive, Dispatch, Stamp, db, TypeOK, HandlerOK, Writing, Request, AllOps, SeenEntities, Ids, Times
  <1>e. ASSUME NEW c \in Clients, NEW p \in Peers, NEW from \in SeenEntities, NEW to \in SeenEntities,
               RelationCreate(c, p, from, to)
        PROVE TypeInv'
    BY <1>e, NextTick, ClockAssumption DEF RelationCreate, Dispatch, Stamp, db, TypeOK, HandlerOK, Writing, Request, RelationRow, Rows, AllOps, SeenEntities, Ids, Times
  <1>f. ASSUME NEW c \in Clients, NEW p \in Peers, NEW i \in SeenRelations, RelationDissolve(c, p, i)
        PROVE TypeInv'
    BY <1>f, NextTick, ClockAssumption DEF RelationDissolve, Dispatch, Stamp, db, TypeOK, HandlerOK, Writing, Request, AllOps, SeenRelations, Ids, Times
  <1>g. ASSUME NEW c \in Clients, UpdateGet(c) PROVE TypeInv'
    BY <1>g, GetEntityType, ClockAssumption DEF UpdateGet, Abandon, db, TypeOK, HandlerOK, Writing, Rows, Times
  <1>h. ASSUME NEW c \in Clients, UpdateMerge(c) PROVE TypeInv'
    BY <1>h, NextTick, MergedRow, ClockAssumption DEF UpdateMerge, Stamp, db, TypeOK, HandlerOK, Writing, Rows
  <1>i. ASSUME NEW c \in Clients, AppendEvent(c) PROVE TypeInv'
    <2>1. EventOf(c) \in Event
      BY <1>i, EventTypeOfOp DEF AppendEvent, EventOf, Event, EventTypes, TypeOK, HandlerOK, Writing, Request, AllOps
    <2> QED
      BY <1>i, <2>1 DEF AppendEvent, TypeOK, HandlerOK, Writing
  <1>j. ASSUME NEW c \in Clients, UpsertEntity(c) PROVE TypeInv'
    BY <1>j DEF UpsertEntity, Respond, TypeOK, HandlerOK, Writing
  <1>k. ASSUME NEW c \in Clients, ArchiveEntity(c) PROVE TypeInv'
    <2>1. stamp[c] \in Ids
      BY <1>k DEF ArchiveEntity, HandlerOK, Writing
    <2>2. CASE GetEntity(msg[c].peer, msg[c].id) # Nil
      <3>1. Archived(entities[msg[c].id], stamp[c]) \in EntityRow
        BY <2>1, <2>2, GetEntityType, ArchivedRow
      <3>2. entities' \in [Ids -> EntityRow \cup {Nil}]
        BY <1>k, <2>2, <3>1, GetEntityType DEF ArchiveEntity, TypeOK
      <3> QED
        BY <1>k, <2>2, <3>2 DEF ArchiveEntity, Respond, TypeOK, HandlerOK, Writing
    <2>3. CASE GetEntity(msg[c].peer, msg[c].id) = Nil
      BY <1>k, <2>3, ClockAssumption DEF ArchiveEntity, Abandon, TypeOK, HandlerOK, Writing, Times
    <2> QED
      BY <2>2, <2>3
  <1>l. ASSUME NEW c \in Clients, UpsertRelation(c) PROVE TypeInv'
    BY <1>l, ClockAssumption DEF UpsertRelation, Respond, Abandon, TypeOK, HandlerOK, Writing, Times
  <1>m. ASSUME NEW c \in Clients, DissolveRelation(c) PROVE TypeInv'
    BY <1>m, ClockAssumption DEF DissolveRelation, Respond, Abandon, TypeOK, HandlerOK, Writing, Times
  <1>n. ASSUME NEW c \in Clients, StatementFails(c) PROVE TypeInv'
    BY <1>n, ClockAssumption DEF StatementFails, Abandon, db, TypeOK, HandlerOK, Writing, Times
  <1>o. CASE Crash
    BY <1>o, ClockAssumption DEF Crash, db, TypeOK, HandlerOK, Writing, Times
  <1>p. CASE UNCHANGED vars
    BY <1>p DEF vars, TypeOK, HandlerOK, Writing
  <1> QED
    BY <1>a, <1>b, <1>c, <1>d, <1>e, <1>f, <1>g, <1>h, <1>i, <1>j, <1>k, <1>l, <1>m, <1>n, <1>o, <1>p
       DEF Next, Arrive, Proceed

\* The tables, the log and the handlers' local state keep their types, whatever
\* the requests, their interleaving and their failures (handler.go, sqlite.go).
THEOREM TypeCorrect == Spec => []TypeOK
  <1>1. Spec => []TypeInv
    BY InitTypeInv, NextTypeInv, PTL DEF Spec
  <1>2. TypeInv => TypeOK
    BY DEF TypeInv
  <1> QED
    BY <1>1, <1>2, PTL

-----------------------------------------------------------------------------
(***************************************************************************)
(* The log comes first.  The invariant that carries the induction says     *)
(* what a handler in flight knows: the copy an update holds still agrees   *)
(* with the table on who created the entity, a fresh id is still unused,   *)
(* and a handler about to change the projection has its event in the log.  *)
(***************************************************************************)
SameCreation(i, r) ==
    /\ entities[i] # Nil
    /\ entities[i].peer = r.peer
    /\ entities[i].by = r.by
    /\ entities[i].created = r.created

Updating(c) == pc[c] = "stamp" \/ (Writing(c) /\ msg[c].op = "entity.update")
Creating(c) == Writing(c) /\ msg[c].op = "entity.create"
Relating(c) == Writing(c) /\ msg[c].op = "relation.create"

UpdateOK(c) ==
    Updating(c) =>
        /\ msg[c].id \in Ids
        /\ work[c].peer = msg[c].peer
        /\ CreatedLogged(msg[c].id, work[c])
        /\ ArchiveLogged(msg[c].id, work[c])
        /\ SameCreation(msg[c].id, work[c])
        /\ Writing(c) => work[c].updated = stamp[c]

CreateOK(c) ==
    Creating(c) =>
        /\ msg[c].id = stamp[c]
        /\ work[c].peer = msg[c].peer
        /\ work[c].by = c
        /\ work[c].created = stamp[c]
        /\ work[c].updated = stamp[c]
        /\ work[c].archived = 0
        /\ entities[msg[c].id] = Nil

RelateOK(c) ==
    Relating(c) => msg[c].id = stamp[c] /\ work[c].peer = msg[c].peer

EventOK(c) == pc[c] = "project" => EventOf(c) \in events

HandlersKnow ==
    \A c \in Clients : UpdateOK(c) /\ CreateOK(c) /\ RelateOK(c) /\ EventOK(c)

\* Stamps are readings already taken, and no two handlers share one.
StampsFresh ==
    /\ \A i \in Ids : entities[i] # Nil => i <= clock
    /\ \A c \in Clients : Writing(c) => stamp[c] <= clock
    /\ \A c, d \in Clients : Writing(c) /\ Writing(d) /\ c # d => stamp[c] # stamp[d]

LogInv == TypeInv /\ StampsFresh /\ HandlersKnow /\ LoggedBeforeProjected

\* What a step does to the requests of one client.
SameRequest(c) ==
    pc'[c] = pc[c] /\ msg'[c] = msg[c] /\ work'[c] = work[c] /\ stamp'[c] = stamp[c]

Enters(c) ==
    \/ \E p \in Peers, f \in Fields : EntityCreate(c, p, f)
    \/ \E p \in Peers, i \in SeenEntities, f \in Fields : EntityUpdate(c, p, i, f)
    \/ \E p \in Peers, i \in SeenEntities : EntityArchive(c, p, i)
    \/ \E p \in Peers, from, to \in SeenEntities : RelationCreate(c, p, from, to)
    \/ \E p \in Peers, i \in SeenRelations : RelationDissolve(c, p, i)

\* AppendEvent is the only step that touches the log, and it adds to it.
LEMMA EventsGrow == [Next]_vars => events \subseteq events'
  <1> SUFFICES ASSUME [Next]_vars PROVE events \subseteq events'
    OBVIOUS
  <1> QED
    BY DEF Next, vars, db, Arrive, Proceed, Reject, Abandon, Respond, EntityCreate,
       EntityUpdate, EntityArchive, RelationCreate, RelationDissolve, UpdateGet,
       UpdateMerge, AppendEvent, UpsertEntity, ArchiveEntity, UpsertRelation,
       DissolveRelation, StatementFails, Crash

\* What was logged stays logged.
LEMMA LogMonotone ==
    ASSUME events \subseteq events', NEW i, NEW r
    PROVE  /\ CreatedLogged(i, r) => CreatedLogged(i, r)'
           /\ ContentLogged(i, r) => ContentLogged(i, r)'
           /\ ArchiveLogged(i, r) => ArchiveLogged(i, r)'
           /\ RelationLogged(i, r) => RelationLogged(i, r)'
  BY DEF CreatedLogged, ContentLogged, ArchiveLogged, RelationLogged, LoggedAt

\* A step leaves a client's request alone, ends it, starts it or advances it.
LEMMA RequestStep ==
    ASSUME TypeInv, [Next]_vars, NEW c \in Clients
    PROVE  \/ SameRequest(c)
           \/ pc'[c] = "idle"
           \/ Enters(c)
           \/ UpdateGet(c)
           \/ UpdateMerge(c)
           \/ AppendEvent(c)
  <1> USE DEF TypeInv, TypeOK, SameRequest
  <1>1. CASE UNCHANGED vars
    BY <1>1 DEF vars
  <1>2. CASE Crash
    BY <1>2 DEF Crash
  <1>3. ASSUME NEW d \in Clients, Arrive(d)
        PROVE  SameRequest(c) \/ pc'[c] = "idle" \/ Enters(c)
    <2>1. CASE d = c
      BY <1>3, <2>1 DEF Arrive, Reject, Abandon, Enters
    <2>2. CASE d # c
      BY <1>3, <2>2 DEF Arrive, Reject, Abandon, EntityCreate, EntityUpdate, EntityArchive,
         RelationCreate, RelationDissolve, Dispatch, Stamp
    <2> QED
      BY <2>1, <2>2
  <1>4. ASSUME NEW d \in Clients, Proceed(d) \/ StatementFails(d)
        PROVE  SameRequest(c) \/ pc'[c] = "idle" \/ UpdateGet(c) \/ UpdateMerge(c) \/ AppendEvent(c)
    <2>1. CASE d = c
      BY <1>4, <2>1 DEF Proceed, UpsertEntity, ArchiveEntity, UpsertRelation, DissolveRelation,
         StatementFails, Respond, Abandon
    <2>2. CASE d # c
      BY <1>4, <2>2 DEF Proceed, UpdateGet, UpdateMerge, AppendEvent, UpsertEntity, ArchiveEntity,
         UpsertRelation, DissolveRelation, StatementFails, Respond, Abandon, Stamp
    <2> QED
      BY <2>1, <2>2
  <1> QED
    BY <1>1, <1>2, <1>3, <1>4 DEF Next

\* Rows of entities change by UpsertEntity and ArchiveEntity only.
LEMMA EntityStep ==
    ASSUME TypeInv, [Next]_vars, NEW i \in Ids
    PROVE  \/ entities'[i] = entities[i]
           \/ \E c \in Clients : /\ UpsertEntity(c) /\ msg[c].id = i
                                 /\ entities'[i] = work[c]
           \/ \E c \in Clients : /\ ArchiveEntity(c) /\ msg[c].id = i
                                 /\ entities[i] \in EntityRow
                                 /\ entities[i].peer = msg[c].peer
                                 /\ entities'[i] = Archived(entities[i], stamp[c])
  <1> USE DEF TypeInv, TypeOK
  <1>1. ASSUME NEW c \in Clients, UpsertEntity(c)
        PROVE  entities'[i] = entities[i] \/ (msg[c].id = i /\ entities'[i] = work[c])
    BY <1>1 DEF UpsertEntity
  <1>2. ASSUME NEW c \in Clients, ArchiveEntity(c)
        PROVE  \/ entities'[i] = entities[i]
               \/ /\ msg[c].id = i /\ entities[i] \in EntityRow
                  /\ entities[i].peer = msg[c].peer
                  /\ entities'[i] = Archived(entities[i], stamp[c])
    BY <1>2, GetEntityType DEF ArchiveEntity
  <1>3. CASE ~ \E c \in Clients : UpsertEntity(c) \/ ArchiveEntity(c)
    <2>1. UNCHANGED entities
      BY <1>3 DEF Next, vars, db, Arrive, Proceed, Reject, EntityCreate, EntityUpdate,
         EntityArchive, RelationCreate, RelationDissolve, UpdateGet, UpdateMerge, AppendEvent,
         UpsertRelation, DissolveRelation, StatementFails, Crash
    <2> QED
      BY <2>1
  <1> QED
    BY <1>1, <1>2, <1>3

\* Rows of relations appear by UpsertRelation only.
LEMMA RelationStep ==
    ASSUME TypeInv, [Next]_vars, NEW i \in Ids
    PROVE  \/ relations'[i] = relations[i]
           \/ relations'[i] = Nil
           \/ \E c \in Clients : /\ UpsertRelation(c) /\ msg[c].id = i
                                 /\ relations'[i] = work[c]
  <1> USE DEF TypeInv, TypeOK
  <1>1. ASSUME NEW c \in Clients, UpsertRelation(c)
        PROVE  relations'[i] = relations[i] \/ (msg[c].id = i /\ relations'[i] = work[c])
    BY <1>1 DEF UpsertRelation
  <1>2. ASSUME NEW c \in Clients, DissolveRelation(c)
        PROVE  relations'[i] = relations[i] \/ relations'[i] = Nil
    BY <1>2 DEF DissolveRelation
  <1>3. CASE ~ \E c \in Clients : UpsertRelation(c) \/ DissolveRelation(c)
    <2>1. UNCHANGED relations
      BY <1>3 DEF Next, vars, db, Arrive, Proceed, Reject, EntityCreate, EntityUpdate,
         EntityArchive, RelationCreate, RelationDissolve, UpdateGet, UpdateMerge, AppendEvent,
         UpsertEntity, ArchiveEntity, StatementFails, Crash
    <2> QED
      BY <2>1
  <1> QED
    BY <1>1, <1>2, <1>3

\* A row is never deleted, and its peer, creator and creation time never change.
LEMMA RowsKept ==
    ASSUME LogInv, [Next]_vars, NEW i \in Ids, entities[i] # Nil
    PROVE  /\ entities'[i] # Nil
           /\ entities'[i].peer = entities[i].peer
           /\ entities'[i].by = entities[i].by
           /\ entities'[i].created = entities[i].created
  <1> USE DEF LogInv
  <1>1. entities[i] \in EntityRow /\ Nil \notin EntityRow
    BY NilAssumption DEF TypeInv, TypeOK, Rows
  <1>2. ASSUME NEW c \in Clients, UpsertEntity(c), msg[c].id = i, entities'[i] = work[c]
        PROVE  SameCreation(i, work[c]) /\ work[c] # Nil
    <2>1. ~Creating(c)
      BY <1>2 DEF HandlersKnow, CreateOK
    <2>2. Updating(c) /\ work[c] \in EntityRow
      BY <1>2, <2>1 DEF UpsertEntity, Updating, Creating, Writing, TypeInv, HandlerOK
    <2> QED
      BY <1>1, <1>2, <2>2 DEF HandlersKnow, UpdateOK
  <1>3. ASSUME NEW c \in Clients, ArchiveEntity(c), entities'[i] = Archived(entities[i], stamp[c])
        PROVE  /\ entities'[i] \in EntityRow
               /\ entities'[i].peer = entities[i].peer
               /\ entities'[i].by = entities[i].by
               /\ entities'[i].created = entities[i].created
    <2>1. stamp[c] \in Ids
      BY <1>3 DEF ArchiveEntity, TypeInv, HandlerOK, Writing
    <2> QED
      BY <1>1, <1>3, <2>1, ArchivedRow
  <1> QED
    BY <1>1, <1>2, <1>3, EntityStep DEF SameCreation

\* A row appears under a fresh id, by the request that minted it.
LEMMA NewRow ==
    ASSUME LogInv, [Next]_vars, NEW i \in Ids, entities[i] = Nil, entities'[i] # Nil
    PROVE  \E c \in Clients : UpsertEntity(c) /\ Creating(c) /\ msg[c].id = i
  <1> USE DEF LogInv
  <1>1. Nil \notin EntityRow
    BY NilAssumption DEF Rows
  <1>2. PICK c \in Clients : UpsertEntity(c) /\ msg[c].id = i
    BY <1>1, EntityStep
  <1>3. ~Updating(c)
    BY <1>2 DEF HandlersKnow, UpdateOK, SameCreation
  <1> QED
    BY <1>2, <1>3 DEF UpsertEntity, Updating, Creating, Writing

\* Every column that a step writes was logged before the step.
LEMMA NextLogged == LogInv /\ [Next]_vars => LoggedBeforeProjected'
  <1> SUFFICES ASSUME LogInv, [Next]_vars PROVE LoggedBeforeProjected'
    OBVIOUS
  <1> USE DEF LogInv
  <1>1. ASSUME NEW i \in Ids, entities'[i] # Nil PROVE EntityLogged(i, entities[i])'
    <2>1. CASE entities'[i] = entities[i]
      BY <1>1, <2>1, EventsGrow, LogMonotone DEF LoggedBeforeProjected, EntityLogged,
         CreatedLogged, ContentLogged, ArchiveLogged, LoggedAt
    <2>2. ASSUME NEW c \in Clients, UpsertEntity(c), msg[c].id = i, entities'[i] = work[c]
          PROVE  EntityLogged(i, work[c])
      <3>1. EventOf(c) \in events /\ Writing(c)
        BY <2>2 DEF UpsertEntity, HandlersKnow, EventOK, Writing
      <3>2. CASE Creating(c)
        BY <2>2, <3>1, <3>2, EventTypeOfOp DEF HandlersKnow, CreateOK, Creating, EventOf, EntityLogged,
           CreatedLogged, Contents, ContentLogged, ArchiveLogged
      <3>3. CASE Updating(c)
        BY <2>2, <3>1, <3>3, EventTypeOfOp DEF HandlersKnow, UpdateOK, Updating, EventOf, EntityLogged,
           Contents, ContentLogged, Writing
      <3> QED
        BY <2>2, <3>1, <3>2, <3>3 DEF UpsertEntity, Creating, Updating
    <2>3. ASSUME NEW c \in Clients, ArchiveEntity(c), msg[c].id = i, entities[i] \in EntityRow,
                 entities[i].peer = msg[c].peer, entities'[i] = Archived(entities[i], stamp[c])
          PROVE  EntityLogged(i, Archived(entities[i], stamp[c]))
      <3>1. EventOf(c) \in events /\ stamp[c] \in Ids
        BY <2>3 DEF ArchiveEntity, HandlersKnow, EventOK, TypeInv, HandlerOK, Writing
      <3>2. EntityLogged(i, entities[i])
        BY <2>3, NilAssumption DEF LoggedBeforeProjected, Rows
      <3>3. LoggedAt("EntityArchived", entities[i].peer, i, stamp[c])
        BY <2>3, <3>1, EventTypeOfOp DEF EventOf, LoggedAt, ArchiveEntity
      <3> QED
        BY <2>3, <3>1, <3>2, <3>3, ArchivedRow DEF EntityLogged, CreatedLogged, ContentLogged, ArchiveLogged
    <2> QED
      BY <1>1, <2>1, <2>2, <2>3, EntityStep, EventsGrow, LogMonotone DEF EntityLogged,
         CreatedLogged, ContentLogged, ArchiveLogged, LoggedAt
  <1>2. ASSUME NEW i \in Ids, relations'[i] # Nil PROVE RelationLogged(i, relations[i])'
    <2>1. CASE relations'[i] = relations[i]
      BY <1>2, <2>1, EventsGrow DEF LoggedBeforeProjected, RelationLogged
    <2>2. ASSUME NEW c \in Clients, UpsertRelation(c), msg[c].id = i, relations'[i] = work[c]
          PROVE  RelationLogged(i, work[c])
      <3>1. EventOf(c) \in events /\ Relating(c)
        BY <2>2 DEF UpsertRelation, HandlersKnow, EventOK, Writing, Relating
      <3> QED
        BY <2>2, <3>1, EventTypeOfOp DEF HandlersKnow, RelateOK, Relating, EventOf, RelationLogged
    <2> QED
      BY <1>2, <2>1, <2>2, RelationStep, EventsGrow DEF RelationLogged
  <1> QED
    BY <1>1, <1>2 DEF LoggedBeforeProjected

\* The clock never goes back, and a stamp is the reading that advanced it.
LEMMA ClockStep ==
    ASSUME TypeInv, [Next]_vars
    PROVE  \/ clock' = clock
           \/ clock < MaxClock /\ clock' = clock + 1
  BY DEF Next, vars, db, Arrive, Proceed, Reject, Abandon, Respond, Stamp, EntityCreate,
     EntityUpdate, EntityArchive, RelationCreate, RelationDissolve, UpdateGet, UpdateMerge,
     AppendEvent, UpsertEntity, ArchiveEntity, UpsertRelation, DissolveRelation,
     StatementFails, Crash

\* A request that is being written was so before, with the same stamp, or has
\* just been stamped with the new reading; nobody else is stamped in that step.
LEMMA WritingStep ==
    ASSUME TypeInv, [Next]_vars, NEW c \in Clients, Writing(c)'
    PROVE  \/ Writing(c) /\ stamp'[c] = stamp[c]
           \/ /\ stamp'[c] = clock + 1 /\ clock' = clock + 1
              /\ \A d \in Clients : d # c => SameRequest(d)
  <1> USE DEF TypeInv, TypeOK, Writing
  <1>1. CASE SameRequest(c)
    BY <1>1 DEF SameRequest
  <1>2. CASE Enters(c)
    BY <1>2 DEF Enters, EntityCreate, EntityUpdate, EntityArchive, RelationCreate,
       RelationDissolve, Dispatch, Stamp, SameRequest
  <1>3. CASE UpdateGet(c)
    BY <1>3 DEF UpdateGet, Abandon
  <1>4. CASE UpdateMerge(c)
    BY <1>4 DEF UpdateMerge, Stamp, SameRequest
  <1>5. CASE AppendEvent(c)
    BY <1>5 DEF AppendEvent
  <1> QED
    BY <1>1, <1>2, <1>3, <1>4, <1>5, RequestStep

\* Stamps stay below the clock, and no two writes in flight share one.
LEMMA NextStamps == LogInv /\ [Next]_vars => StampsFresh'
  <1> SUFFICES ASSUME LogInv, [Next]_vars PROVE StampsFresh'
    OBVIOUS
  <1> USE DEF LogInv
  <1>0. clock \in Nat /\ clock' \in Nat /\ clock <= clock'
    BY ClockStep, ClockAssumption DEF TypeInv, TypeOK, Times
  <1>a. \A c \in Clients : stamp[c] \in Nat
    BY ClockAssumption DEF TypeInv, TypeOK, Times
  <1>1. ASSUME NEW i \in Ids, entities'[i] # Nil PROVE i <= clock'
    <2>1. CASE entities[i] # Nil
      BY <1>0, <2>1, ClockAssumption DEF StampsFresh, Ids
    <2>2. CASE entities[i] = Nil
      <3>1. PICK c \in Clients : UpsertEntity(c) /\ Creating(c) /\ msg[c].id = i
        BY <1>1, <2>2, NewRow
      <3>2. i = stamp[c] /\ stamp[c] <= clock
        BY <3>1 DEF HandlersKnow, CreateOK, StampsFresh, Creating
      <3> QED
        BY <1>0, <1>a, <3>2
    <2> QED
      BY <2>1, <2>2
  <1>2. ASSUME NEW c \in Clients, Writing(c)' PROVE stamp'[c] <= clock'
    BY <1>0, <1>a, <1>2, WritingStep DEF StampsFresh
  <1>3. ASSUME NEW c \in Clients, NEW d \in Clients, Writing(c)', Writing(d)', c # d
        PROVE  stamp'[c] # stamp'[d]
    <2>1. CASE Writing(c) /\ stamp'[c] = stamp[c] /\ Writing(d) /\ stamp'[d] = stamp[d]
      BY <1>3, <2>1 DEF StampsFresh
    <2>2. CASE stamp'[c] = clock + 1 /\ \A e \in Clients : e # c => SameRequest(e)
      BY <1>0, <1>a, <1>3, <2>2 DEF StampsFresh, SameRequest, Writing
    <2>3. CASE stamp'[d] = clock + 1 /\ \A e \in Clients : e # d => SameRequest(e)
      BY <1>0, <1>a, <1>3, <2>3 DEF StampsFresh, SameRequest, Writing
    <2> QED
      BY <1>3, <2>1, <2>2, <2>3, WritingStep
  <1> QED
    BY <1>1, <1>2, <1>3 DEF StampsFresh

\* What the other requests do leaves what a handler knows true.
LEMMA SameRequestKnows ==
    ASSUME LogInv, [Next]_vars, NEW c \in Clients, SameRequest(c)
    PROVE  (UpdateOK(c) /\ CreateOK(c) /\ RelateOK(c) /\ EventOK(c))'
  <1> USE DEF LogInv
  <1>1. UpdateOK(c)'
    <2> SUFFICES ASSUME Updating(c)' PROVE UpdateOK(c)'
      BY DEF UpdateOK
    <2>1. Updating(c) /\ msg[c].id \in Ids
      BY DEF SameRequest, Updating, Writing, HandlersKnow, UpdateOK
    <2>2. CreatedLogged(msg[c].id, work[c])' /\ ArchiveLogged(msg[c].id, work[c])'
      BY <2>1, EventsGrow DEF SameRequest, HandlersKnow, UpdateOK, CreatedLogged, ArchiveLogged, LoggedAt
    <2>3. SameCreation(msg[c].id, work[c])'
      BY <2>1, RowsKept DEF SameRequest, HandlersKnow, UpdateOK, SameCreation
    <2> QED
      BY <2>1, <2>2, <2>3 DEF SameRequest, HandlersKnow, UpdateOK, Writing
  <1>2. CreateOK(c)'
    <2> SUFFICES ASSUME Creating(c)' PROVE CreateOK(c)'
      BY DEF CreateOK
    <2>1. Creating(c) /\ msg[c].id = stamp[c] /\ stamp[c] \in Ids
      BY DEF SameRequest, Creating, Writing, HandlersKnow, CreateOK, TypeInv, HandlerOK
    <2>2. entities'[stamp[c]] = Nil
      <3> SUFFICES ASSUME entities'[stamp[c]] # Nil PROVE FALSE
        OBVIOUS
      <3>1. PICK d \in Clients : UpsertEntity(d) /\ Creating(d) /\ msg[d].id = stamp[c]
        BY <2>1, NewRow DEF HandlersKnow, CreateOK
      <3>2. stamp[d] = stamp[c]
        BY <3>1 DEF HandlersKnow, CreateOK
      <3>3. d = c
        BY <2>1, <3>1, <3>2 DEF StampsFresh, Creating
      <3> QED
        BY <3>1, <3>3 DEF UpsertEntity, Respond, SameRequest, TypeInv, TypeOK
    <2> QED
      BY <2>1, <2>2 DEF SameRequest, HandlersKnow, CreateOK
  <1>3. RelateOK(c)'
    BY DEF SameRequest, HandlersKnow, RelateOK, Relating, Writing
  <1>4. EventOK(c)'
    BY EventsGrow DEF SameRequest, HandlersKnow, EventOK, EventOf
  <1> QED
    BY <1>1, <1>2, <1>3, <1>4

\* A handler's own steps establish what it knows next.
LEMMA NextHandlers == LogInv /\ [Next]_vars => HandlersKnow'
  <1> SUFFICES ASSUME LogInv, [Next]_vars, NEW c \in Clients
               PROVE  (UpdateOK(c) /\ CreateOK(c) /\ RelateOK(c) /\ EventOK(c))'
    BY DEF HandlersKnow
  <1> USE DEF LogInv
  <1> DEFINE Knows == UpdateOK(c) /\ CreateOK(c) /\ RelateOK(c) /\ EventOK(c)
  <1>1. CASE SameRequest(c)
    BY <1>1, SameRequestKnows
  <1>2. CASE pc'[c] = "idle"
    BY <1>2 DEF UpdateOK, CreateOK, RelateOK, EventOK, Updating, Creating, Relating, Writing
  <1>3. CASE Enters(c)
    <2>1. ASSUME NEW p \in Peers, NEW f \in Fields, EntityCreate(c, p, f) PROVE Knows'
      <3>1. clock < MaxClock /\ clock + 1 \in Ids
        BY <2>1, NextTick DEF EntityCreate, Stamp, TypeInv
      <3>2. entities[clock + 1] = Nil
        <4>1. ~(clock + 1 <= clock)
          BY DEF TypeInv, TypeOK, Times
        <4> QED
          BY <3>1, <4>1 DEF StampsFresh
      <3>3. entities'[clock + 1] = Nil
        BY <2>1, <3>2 DEF EntityCreate, db
      <3>4. /\ pc'[c] = "append" /\ stamp'[c] = clock + 1
            /\ msg'[c] = [op |-> "entity.create", peer |-> p, id |-> clock + 1, field |-> Nil]
            /\ work'[c] = [peer |-> p, by |-> c, created |-> clock + 1,
                           data |-> [g \in Fields |-> IF g = f THEN clock + 1 ELSE 0],
                           updated |-> clock + 1, archived |-> 0]
        BY <2>1 DEF EntityCreate, Dispatch, Stamp, TypeInv, TypeOK
      <3> QED
        BY <3>3, <3>4 DEF UpdateOK, CreateOK, RelateOK, EventOK, Updating, Creating, Relating, Writing
    <2>2. ASSUME NEW p \in Peers, NEW i \in SeenEntities, NEW f \in Fields, EntityUpdate(c, p, i, f)
          PROVE  Knows'
      BY <2>2 DEF EntityUpdate, TypeInv, TypeOK, UpdateOK, CreateOK, RelateOK, EventOK, Updating,
         Creating, Relating, Writing
    <2>3. ASSUME NEW p \in Peers, NEW i \in SeenEntities, EntityArchive(c, p, i) PROVE Knows'
      BY <2>3 DEF EntityArchive, Dispatch, Stamp, TypeInv, TypeOK, UpdateOK, CreateOK, RelateOK,
         EventOK, Updating, Creating, Relating, Writing
    <2>4. ASSUME NEW p \in Peers, NEW from \in SeenEntities, NEW to \in SeenEntities,
                 RelationCreate(c, p, from, to)
          PROVE  Knows'
      BY <2>4 DEF RelationCreate, Dispatch, Stamp, TypeInv, TypeOK, UpdateOK, CreateOK, RelateOK,
         EventOK, Updating, Creating, Relating, Writing
    <2>5. ASSUME NEW p \in Peers, NEW i \in SeenRelations, RelationDissolve(c, p, i) PROVE Knows'
      BY <2>5 DEF RelationDissolve, Dispatch, Stamp, TypeInv, TypeOK, UpdateOK, CreateOK, RelateOK,
         EventOK, Updating, Creating, Relating, Writing
    <2> QED
      BY <1>3, <2>1, <2>2, <2>3, <2>4, <2>5 DEF Enters
  <1>4. CASE UpdateGet(c) /\ pc'[c] # "idle"
    <2> DEFINE cur == GetEntity(msg[c].peer, msg[c].id)
    <2>1. /\ cur # Nil /\ pc'[c] = "stamp" /\ work'[c] = cur /\ msg' = msg
          /\ UNCHANGED <<events, entities>>
      BY <1>4 DEF UpdateGet, Abandon, TypeInv, TypeOK, db
    <2>2. msg[c].id \in Ids /\ cur = entities[msg[c].id] /\ cur.peer = msg[c].peer
      BY <2>1, GetEntityType DEF TypeInv
    <2>3. EntityLogged(msg[c].id, cur)
      BY <2>1, <2>2 DEF LoggedBeforeProjected
    <2>4. work'[c] = entities[msg[c].id]
      BY <2>1, <2>2
    <2> HIDE DEF cur
    <2>5. CreatedLogged(msg[c].id, work[c])' /\ ArchiveLogged(msg[c].id, work[c])'
      BY <2>1, <2>2, <2>3, <2>4 DEF EntityLogged, CreatedLogged, ArchiveLogged, LoggedAt
    <2>6. SameCreation(msg[c].id, work[c])'
      BY <2>1, <2>2, <2>4 DEF SameCreation
    <2>7. UpdateOK(c)'
      BY <2>1, <2>2, <2>4, <2>5, <2>6 DEF UpdateOK, Writing
    <2> QED
      BY <2>1, <2>7 DEF CreateOK, RelateOK, EventOK, Creating, Relating, Writing
  <1>5. CASE UpdateMerge(c)
    <2>1. /\ pc[c] = "stamp" /\ pc'[c] = "append" /\ stamp'[c] = clock + 1 /\ msg' = msg
          /\ work'[c] = Merged(work[c], msg[c].field, clock + 1)
          /\ UNCHANGED <<events, entities>>
      BY <1>5 DEF UpdateMerge, Stamp, TypeInv, TypeOK, db
    <2>2. work[c] \in EntityRow /\ msg[c].op = "entity.update" /\ clock + 1 \in Ids
      BY <1>5, <2>1, NextTick DEF UpdateMerge, Stamp, TypeInv, HandlerOK
    <2>3. /\ work'[c].peer = work[c].peer /\ work'[c].by = work[c].by
          /\ work'[c].created = work[c].created /\ work'[c].archived = work[c].archived
          /\ work'[c].updated = clock + 1
      BY <2>1, <2>2, MergedRow
    <2>4. UpdateOK(c) /\ Updating(c)
      BY <2>1 DEF HandlersKnow, Updating
    <2>5. CreatedLogged(msg[c].id, work[c])' /\ ArchiveLogged(msg[c].id, work[c])'
          /\ SameCreation(msg[c].id, work[c])'
      BY <2>1, <2>3, <2>4 DEF UpdateOK, CreatedLogged, ArchiveLogged, LoggedAt, SameCreation
    <2> QED
      BY <2>1, <2>2, <2>3, <2>4, <2>5 DEF UpdateOK, CreateOK, RelateOK, EventOK, Creating, Relating,
         Writing
  <1>6. CASE AppendEvent(c)
    <2>1. /\ pc[c] = "append" /\ pc'[c] = "project" /\ events' = events \cup {EventOf(c)}
          /\ UNCHANGED <<entities, msg, work, stamp>>
      BY <1>6 DEF AppendEvent, TypeInv, TypeOK
    <2>2. EventOK(c)'
      BY <2>1 DEF EventOK, EventOf
    <2>3. UpdateOK(c)'
      BY <2>1 DEF HandlersKnow, UpdateOK, Updating, Writing, CreatedLogged, ArchiveLogged, LoggedAt,
         SameCreation
    <2> QED
      BY <2>1, <2>2, <2>3 DEF HandlersKnow, CreateOK, RelateOK, Creating, Relating, Writing
  <1> QED
    BY <1>1, <1>2, <1>3, <1>4, <1>5, <1>6, RequestStep

\* The empty store satisfies the inductive invariant.
LEMMA InitLogInv == Init => LogInv
  <1> SUFFICES ASSUME Init PROVE LogInv
    OBVIOUS
  <1>1. StampsFresh /\ HandlersKnow /\ LoggedBeforeProjected
    BY DEF Init, StampsFresh, HandlersKnow, LoggedBeforeProjected, UpdateOK, CreateOK, RelateOK,
       EventOK, Updating, Creating, Relating, Writing
  <1> QED
    BY <1>1, InitTypeInv DEF LogInv

\* The inductive invariant holds in every reachable state.
LEMMA LogInvariant == Spec => []LogInv
  <1>1. LogInv /\ [Next]_vars => LogInv'
    BY NextTypeInv, NextStamps, NextHandlers, NextLogged DEF LogInv
  <1> QED
    BY <1>1, InitLogInv, PTL DEF Spec

\* The write paths of handler.go append before they mutate: for every number of
\* clients, peers, fields and clock readings, every column of every projected row
\* comes from an event that is already in the log.
THEOREM LogFirst == Spec => []LoggedBeforeProjected
  <1>1. LogInv => LoggedBeforeProjected
    BY DEF LogInv
  <1> QED
    BY <1>1, LogInvariant, PTL

\* UpsertEntity replaces whole rows from copies read earlier, yet no step ever
\* deletes an entity or changes its peer, its creator or its creation time.
THEOREM CreationKept == Spec => CreationImmutable
  <1>1. LogInv /\ [Next]_vars =>
          [\A i \in Ids : entities[i] # Nil =>
             /\ entities'[i] # Nil
             /\ entities'[i].peer = entities[i].peer
             /\ entities'[i].by = entities[i].by
             /\ entities'[i].created = entities[i].created]_entities
    BY RowsKept
  <1> QED
    BY <1>1, LogInvariant, PTL DEF Spec, CreationImmutable

-----------------------------------------------------------------------------
(***************************************************************************)
(* Dissolved relations stay dissolved.  The id of a relation that is still *)
(* to be inserted is known to nobody but its handler: it is not in the     *)
(* table, in no event of a dissolution, and in no request for one.         *)
(***************************************************************************)
Dissolving(c, i) == Writing(c) /\ msg[c].op = "relation.dissolve" /\ msg[c].id = i

Named(i) == i \in SeenRelations \/ \E c \in Clients : Dissolving(c, i)

Unborn == \A i \in {0} \cup Ids, d \in Clients : Named(i) =>
             i <= clock /\ (Relating(d) => msg[d].id # i)

EdgeInv == LogInv /\ Unborn

\* A client that has an insert ahead of it had it before, or has just begun.
LEMMA RelatingStep ==
    ASSUME TypeInv, [Next]_vars, NEW d \in Clients, Relating(d)'
    PROVE  \/ Relating(d) /\ msg'[d].id = msg[d].id
           \/ msg'[d].id = clock + 1 /\ clock' = clock + 1
  <1> USE DEF TypeInv, TypeOK, HandlerOK, Relating, Writing
  <1>1. CASE SameRequest(d)
    BY <1>1 DEF SameRequest
  <1>2. CASE Enters(d)
    BY <1>2 DEF Enters, EntityCreate, EntityUpdate, EntityArchive, RelationCreate,
       RelationDissolve, Dispatch, Stamp
  <1>3. CASE UpdateGet(d) \/ UpdateMerge(d) \/ AppendEvent(d)
    BY <1>3 DEF UpdateGet, UpdateMerge, AppendEvent, Stamp, Abandon
  <1> QED
    BY <1>1, <1>2, <1>3, RequestStep

\* The dissolution of a relation begins with an id that was seen.
LEMMA DissolvingStep ==
    ASSUME TypeInv, [Next]_vars, NEW c \in Clients, NEW i, Dissolving(c, i)'
    PROVE  Named(i)
  <1> USE DEF TypeInv, TypeOK, HandlerOK, Dissolving, Writing
  <1>1. CASE SameRequest(c)
    BY <1>1 DEF SameRequest, Named
  <1>2. CASE Enters(c)
    BY <1>2 DEF Enters, EntityCreate, EntityUpdate, EntityArchive, RelationCreate,
       RelationDissolve, Dispatch, Stamp, Named
  <1>3. CASE UpdateGet(c) \/ UpdateMerge(c) \/ AppendEvent(c)
    BY <1>3 DEF UpdateGet, UpdateMerge, AppendEvent, Stamp, Abandon, Named
  <1> QED
    BY <1>1, <1>2, <1>3, RequestStep

\* The log gains an event by AppendEvent only.
LEMMA EventStep ==
    ASSUME [Next]_vars, NEW e \in events', e \notin events
    PROVE  \E c \in Clients : AppendEvent(c) /\ e = EventOf(c)
  <1>1. CASE \E c \in Clients : AppendEvent(c)
    BY <1>1 DEF AppendEvent
  <1>2. CASE ~ \E c \in Clients : AppendEvent(c)
    BY <1>2 DEF Next, vars, db, Arrive, Proceed, Reject, EntityCreate, EntityUpdate,
       EntityArchive, RelationCreate, RelationDissolve, UpdateGet, UpdateMerge, UpsertEntity,
       ArchiveEntity, UpsertRelation, DissolveRelation, StatementFails, Crash
  <1> QED
    BY <1>1, <1>2

\* A name that a step makes known is that of the relation it inserts.
LEMMA NamedStep ==
    ASSUME LogInv, [Next]_vars, NEW i \in {0} \cup Ids, Named(i)'
    PROVE  Named(i) \/ \E c \in Clients : UpsertRelation(c) /\ msg[c].id = i
  <1> USE DEF LogInv
  <1>1. CASE i = 0
    BY <1>1 DEF Named, SeenRelations
  <1>2. CASE \E c \in Clients : Dissolving(c, i)'
    BY <1>2, DissolvingStep
  <1>3. CASE i \in Ids /\ relations'[i] # Nil
    BY <1>3, RelationStep DEF Named, SeenRelations
  <1>4. ASSUME NEW e \in events', e.type = "RelationDissolved", e.id = i, i \in Ids
        PROVE  Named(i)
    <2>1. CASE e \in events
      BY <1>4, <2>1 DEF Named, SeenRelations
    <2>2. CASE e \notin events
      <3>1. PICK c \in Clients : AppendEvent(c) /\ e = EventOf(c)
        BY <2>2, EventStep
      <3>2. EventTypeOf(msg[c].op) = "RelationDissolved" /\ msg[c].id = i
        BY <1>4, <3>1 DEF EventOf
      <3>3. pc[c] = "append" /\ msg[c].op \in AllOps
        BY <3>1 DEF AppendEvent, TypeInv, HandlerOK, Request
      <3>4. msg[c].op = "relation.dissolve"
        BY <3>2, <3>3, EventTypeOfOp DEF AllOps
      <3> QED
        BY <3>2, <3>3, <3>4 DEF Named, Dissolving, Writing
    <2> QED
      BY <2>1, <2>2
  <1> QED
    BY <1>1, <1>2, <1>3, <1>4 DEF Named, SeenRelations

\* The clock only goes forward.
LEMMA ClockGrows == TypeInv /\ [Next]_vars => clock <= clock'
  BY ClockAssumption DEF TypeInv, TypeOK, Times, Next, vars, Arrive, Proceed, Reject, Abandon,
     Respond, Stamp, EntityCreate, EntityUpdate, EntityArchive, RelationCreate, RelationDissolve,
     UpdateGet, UpdateMerge, AppendEvent, UpsertEntity, ArchiveEntity, UpsertRelation,
     DissolveRelation, StatementFails, Crash

\* Every step keeps the ids of inserts ahead unknown.
LEMMA NextUnborn == EdgeInv /\ [Next]_vars => Unborn'
  <1> SUFFICES ASSUME EdgeInv, [Next]_vars, NEW i \in {0} \cup Ids, NEW d \in Clients, Named(i)'
               PROVE  i <= clock' /\ (Relating(d)' => msg'[d].id # i)
    BY DEF Unborn
  <1> USE DEF EdgeInv
  <1>1. /\ clock \in Nat /\ clock' \in Nat /\ clock <= clock' /\ i \in Nat
    BY ClockGrows, NextTypeInv, ClockAssumption DEF LogInv, TypeInv, TypeOK, Times, Ids
  <1>2. CASE Named(i)
    <2>1. i <= clock /\ (Relating(d) => msg[d].id # i)
      BY <1>2 DEF Unborn
    <2> QED
      BY <1>1, <2>1, RelatingStep DEF LogInv
  <1>3. ASSUME NEW c \in Clients, UpsertRelation(c), msg[c].id = i
        PROVE  i <= clock' /\ (Relating(d)' => msg'[d].id # i)
    <2>1. Relating(c) /\ stamp[c] = i /\ i <= clock
      BY <1>3 DEF UpsertRelation, Relating, Writing, LogInv, HandlersKnow, RelateOK, StampsFresh
    <2>2. ~Relating(c)'
      BY <1>3 DEF UpsertRelation, Respond, Abandon, Relating, Writing, LogInv, TypeInv, TypeOK
    <2>3. Relating(d) /\ d # c => msg[d].id # i
      BY <2>1 DEF Relating, LogInv, HandlersKnow, RelateOK, StampsFresh
    <2> QED
      BY <1>1, <2>1, <2>2, <2>3, RelatingStep DEF LogInv
  <1> QED
    BY <1>2, <1>3, NamedStep

LEMMA EdgeInvariant == Spec => []EdgeInv
  <1>1. Init => EdgeInv
    BY InitLogInv, ClockAssumption DEF Init, EdgeInv, Unborn, Named, SeenRelations, Dissolving,
       Relating, Writing, Ids, Times
  <1>2. EdgeInv /\ [Next]_vars => EdgeInv'
    BY NextTypeInv, NextStamps, NextHandlers, NextLogged, NextUnborn DEF EdgeInv, LogInv
  <1> QED
    BY <1>1, <1>2, PTL DEF Spec

\* No step inserts a relation whose dissolution is logged.
LEMMA NoRevivalStep ==
    ASSUME EdgeInv, [Next]_vars, NEW i \in Ids, relations[i] = Nil, Dissolved(i)
    PROVE  relations'[i] = Nil
  <1> SUFFICES ASSUME relations'[i] # Nil, NEW e \in events,
                      e.type = "RelationDissolved", e.id = i
               PROVE  FALSE
    BY DEF Dissolved
  <1>1. PICK c \in Clients : UpsertRelation(c) /\ msg[c].id = i
    BY RelationStep DEF EdgeInv, LogInv
  <1>2. Relating(c)
    BY <1>1 DEF UpsertRelation, Relating, Writing
  <1> QED
    BY <1>1, <1>2 DEF EdgeInv, Unborn, Named, SeenRelations

\* relation.create inserts its row once and before anyone can name it to
\* relation.dissolve, so no step brings a dissolved relation back
\* (opRelationCreate, UpsertRelation, DissolveRelation).
THEOREM NoRevival == Spec => NoEdgeRevival
  <1>1. EdgeInv /\ [Next]_vars =>
          [\A i \in Ids : relations[i] = Nil /\ relations'[i] # Nil => ~Dissolved(i)]_relations
    BY NoRevivalStep
  <1> QED
    BY <1>1, EdgeInvariant, PTL DEF Spec, NoEdgeRevival

-----------------------------------------------------------------------------
(***************************************************************************)
(* Acknowledged writes last.  A reply of "ok" is given by the statement    *)
(* that ends the request; what it vouches for stays, since rows of         *)
(* entities are kept, a relation goes only when its dissolution is logged, *)
(* and does not come back then.                                            *)
(***************************************************************************)
Vouched(c) ==
    /\ msg[c].id \in Ids
    /\ LoggedAt(EventTypeOf(msg[c].op), msg[c].peer, msg[c].id, stamp[c])
    /\ msg[c].op \in EntityOps =>
          entities[msg[c].id] # Nil /\ entities[msg[c].id].peer = msg[c].peer
    /\ msg[c].op = "entity.create" => entities[msg[c].id].by = c
    /\ msg[c].op = "relation.create" =>
          relations[msg[c].id] # Nil \/ Dissolved(msg[c].id)
    /\ msg[c].op = "relation.dissolve" => relations[msg[c].id] = Nil

Acked == \A c \in Clients : reply[c] = "ok" => Vouched(c)

Projects(c) ==
    UpsertEntity(c) \/ ArchiveEntity(c) \/ UpsertRelation(c) \/ DissolveRelation(c)

\* A client whose reply is "ok" had it already, or gets it with its last write.
LEMMA ReplyStep ==
    ASSUME TypeInv, [Next]_vars, NEW c \in Clients, reply'[c] = "ok"
    PROVE  /\ msg'[c] = msg[c] /\ stamp'[c] = stamp[c]
           /\ reply[c] = "ok" \/ Projects(c)
  <1> USE DEF TypeInv, TypeOK
  <1>1. CASE UNCHANGED vars
    BY <1>1 DEF vars
  <1>2. CASE Crash
    BY <1>2 DEF Crash
  <1>3. ASSUME NEW d \in Clients, Arrive(d) PROVE msg'[c] = msg[c] /\ stamp'[c] = stamp[c] /\ reply[c] = "ok"
    BY <1>3 DEF Arrive, Reject, Abandon, EntityCreate, EntityUpdate, EntityArchive,
       RelationCreate, RelationDissolve, Dispatch, Stamp
  <1>4. ASSUME NEW d \in Clients, UpdateGet(d) \/ UpdateMerge(d) \/ AppendEvent(d) \/ StatementFails(d)
        PROVE  msg'[c] = msg[c] /\ stamp'[c] = stamp[c] /\ reply[c] = "ok"
    BY <1>4 DEF UpdateGet, UpdateMerge, AppendEvent, StatementFails, Abandon, Stamp
  <1>5. ASSUME NEW d \in Clients, d # c,
               UpsertEntity(d) \/ ArchiveEntity(d) \/ UpsertRelation(d) \/ DissolveRelation(d)
        PROVE  msg'[c] = msg[c] /\ stamp'[c] = stamp[c] /\ reply[c] = "ok"
    BY <1>5 DEF UpsertEntity, ArchiveEntity, UpsertRelation, DissolveRelation, Respond, Abandon
  <1>6. CASE Projects(c)
    BY <1>6 DEF Projects, UpsertEntity, ArchiveEntity, UpsertRelation, DissolveRelation, Respond, Abandon
  <1> QED
    BY <1>1, <1>2, <1>3, <1>4, <1>5, <1>6 DEF Next, Proceed, Projects

\* A relation goes when a dissolution of it has been logged.
LEMMA RelationGone ==
    ASSUME LogInv, [Next]_vars, NEW i \in Ids, relations[i] # Nil, relations'[i] = Nil
    PROVE  Dissolved(i)
  <1> USE DEF LogInv, TypeInv, TypeOK
  <1>1. PICK c \in Clients : DissolveRelation(c) /\ msg[c].id = i
    <2>1. ASSUME NEW c \in Clients, UpsertRelation(c) PROVE FALSE
      <3>1. work[c] \in RelationRow
        BY <2>1 DEF UpsertRelation, HandlerOK, Writing
      <3>2. work[c] # Nil
        BY <3>1, NilAssumption DEF Rows
      <3> QED
        BY <2>1, <3>2 DEF UpsertRelation
    <2>2. ASSUME NEW c \in Clients, DissolveRelation(c) PROVE msg[c].id = i
      BY <2>2 DEF DissolveRelation
    <2>3. CASE ~ \E c \in Clients : UpsertRelation(c) \/ DissolveRelation(c)
      <3>1. UNCHANGED relations
        BY <2>3 DEF Next, vars, db, Arrive, Proceed, Reject, EntityCreate, EntityUpdate,
           EntityArchive, RelationCreate, RelationDissolve, UpdateGet, UpdateMerge, AppendEvent,
           UpsertEntity, ArchiveEntity, StatementFails, Crash
      <3> QED
        BY <3>1
    <2> QED
      BY <2>1, <2>2, <2>3
  <1>2. EventOf(c) \in events /\ msg[c].op = "relation.dissolve"
    BY <1>1 DEF DissolveRelation, HandlersKnow, EventOK
  <1>3. EventOf(c).type = "RelationDissolved" /\ EventOf(c).id = i
    BY <1>1, <1>2, EventTypeOfOp DEF EventOf
  <1> QED
    BY <1>2, <1>3 DEF Dissolved

\* The statement that ends a request does what its reply vouches for.
LEMMA ProjectVouches ==
    ASSUME LogInv, [Next]_vars, NEW c \in Clients, Projects(c), reply'[c] = "ok"
    PROVE  Vouched(c)'
  <1> USE DEF LogInv, TypeInv, TypeOK
  <1>1. pc[c] = "project" /\ msg' = msg /\ stamp'[c] = stamp[c] /\ EventOf(c) \in events'
    <2>1. pc[c] = "project"
      BY DEF Projects, UpsertEntity, ArchiveEntity, UpsertRelation, DissolveRelation
    <2>2. msg' = msg /\ stamp' = stamp
      BY DEF Projects, UpsertEntity, ArchiveEntity, UpsertRelation, DissolveRelation, Respond, Abandon
    <2> QED
      BY <2>1, <2>2, EventsGrow DEF HandlersKnow, EventOK
  <1>2. EventTypeOf(msg[c].op)' = EventTypeOf(msg[c].op)
    BY <1>1, Zenon DEF EventTypeOf
  <1>3. LoggedAt(EventTypeOf(msg[c].op), msg[c].peer, msg[c].id, stamp[c])'
    BY <1>1, <1>2 DEF LoggedAt, EventOf
  <1>4. CASE UpsertEntity(c)
    <2>1. /\ msg[c].op \in {"entity.create", "entity.update"} /\ work[c] \in EntityRow
          /\ msg[c].id \in Ids /\ work[c].peer = msg[c].peer
          /\ msg[c].op = "entity.create" => work[c].by = c
      <3>1. msg[c].op \in {"entity.create", "entity.update"} /\ Writing(c)
        BY <1>4 DEF UpsertEntity, Writing
      <3>2. work[c] \in EntityRow /\ stamp[c] \in Ids
        BY <3>1 DEF HandlerOK
      <3> QED
        BY <3>1, <3>2 DEF HandlersKnow, CreateOK, UpdateOK, Creating, Updating
    <2>2. entities'[msg[c].id] = work[c] /\ work[c] # Nil
      BY <1>4, <2>1, NilAssumption DEF UpsertEntity, Rows
    <2> QED
      BY <1>1, <1>3, <2>1, <2>2 DEF Vouched
  <1>5. CASE ArchiveEntity(c)
    <2>1. GetEntity(msg[c].peer, msg[c].id) # Nil /\ msg[c].op = "entity.archive" /\ stamp[c] \in Ids
      BY <1>5 DEF ArchiveEntity, Abandon, HandlerOK, Writing
    <2>2. /\ msg[c].id \in Ids /\ entities[msg[c].id] \in EntityRow
          /\ entities[msg[c].id].peer = msg[c].peer
      BY <2>1, GetEntityType
    <2>3. entities'[msg[c].id] = Archived(entities[msg[c].id], stamp[c])
      BY <1>5, <2>1, <2>2 DEF ArchiveEntity
    <2>4. /\ Archived(entities[msg[c].id], stamp[c]) \in EntityRow
          /\ Archived(entities[msg[c].id], stamp[c]).peer = msg[c].peer
      BY <2>1, <2>2, ArchivedRow
    <2> QED
      BY <1>1, <1>3, <2>1, <2>2, <2>3, <2>4, NilAssumption DEF Vouched, Rows
  <1>6. CASE UpsertRelation(c)
    <2>1. /\ msg[c].op = "relation.create" /\ work[c] \in RelationRow
          /\ msg[c].id \in Ids
      BY <1>6 DEF UpsertRelation, HandlerOK, Writing, HandlersKnow, RelateOK, Relating
    <2>2. relations'[msg[c].id] = work[c] /\ work[c] # Nil
      BY <1>6, <2>1, NilAssumption DEF UpsertRelation, Abandon, Rows
    <2> QED
      BY <1>1, <1>3, <2>1, <2>2 DEF Vouched, EntityOps
  <1>7. CASE DissolveRelation(c)
    <2>1. /\ msg[c].op = "relation.dissolve" /\ msg[c].id \in Ids
          /\ relations'[msg[c].id] = Nil
      BY <1>7 DEF DissolveRelation, Abandon
    <2> QED
      BY <1>1, <1>3, <2>1 DEF Vouched, EntityOps
  <1> QED
    BY <1>4, <1>5, <1>6, <1>7 DEF Projects

\* No step takes back what an acknowledged request stands for.
LEMMA NextAcked == EdgeInv /\ Acked /\ [Next]_vars => Acked'
  <1> SUFFICES ASSUME EdgeInv, Acked, [Next]_vars, NEW c \in Clients, reply'[c] = "ok"
               PROVE  Vouched(c)'
    BY DEF Acked
  <1>1. msg'[c] = msg[c] /\ stamp'[c] = stamp[c] /\ (reply[c] = "ok" \/ Projects(c))
    BY ReplyStep DEF EdgeInv, LogInv
  <1>2. CASE reply[c] = "ok"
    <2> DEFINE i == msg[c].id
    <2>1. Vouched(c)
      BY <1>2 DEF Acked
    <2>2. EventTypeOf(msg[c].op)' = EventTypeOf(msg[c].op)
      BY <1>1, Zenon DEF EventTypeOf
    <2>3. events \subseteq events'
      BY EventsGrow
    <2>4. LoggedAt(EventTypeOf(msg[c].op), msg[c].peer, msg[c].id, stamp[c])'
      BY <1>1, <2>1, <2>2, <2>3 DEF Vouched, LoggedAt
    <2>5. i \in Ids
      BY <2>1 DEF Vouched
    <2>6. msg[c].op \in EntityOps =>
            /\ entities'[i] # Nil /\ entities'[i].peer = msg[c].peer
            /\ entities'[i].by = entities[i].by
      BY <2>1, <2>5, RowsKept DEF Vouched, EdgeInv
    <2>7. msg[c].op = "relation.create" => relations'[i] # Nil \/ Dissolved(i)'
      <3>1. Dissolved(i) => Dissolved(i)'
        BY <1>1, <2>3 DEF Dissolved
      <3>2. relations[i] # Nil /\ relations'[i] = Nil => Dissolved(i)
        BY <2>5, RelationGone DEF EdgeInv
      <3> QED
        BY <2>1, <3>1, <3>2 DEF Vouched
    <2>8. msg[c].op = "relation.dissolve" => relations'[i] = Nil
      <3> SUFFICES ASSUME msg[c].op = "relation.dissolve" PROVE relations'[i] = Nil
        OBVIOUS
      <3>1. relations[i] = Nil /\ Dissolved(i)
        <4>1. EventTypeOf(msg[c].op) = "RelationDissolved"
          BY EventTypeOfOp
        <4> QED
          BY <2>1, <4>1 DEF Vouched, LoggedAt, Dissolved
      <3> QED
        BY <2>5, <3>1, NoRevivalStep
    <2> QED
      BY <1>1, <2>1, <2>4, <2>5, <2>6, <2>7, <2>8 DEF Vouched, EntityOps
  <1>3. CASE Projects(c)
    BY <1>3, ProjectVouches DEF EdgeInv
  <1> QED
    BY <1>1, <1>2, <1>3

\* A client that was answered "ok" finds its event in the log, its entity in the
\* table, its relation there or logged as dissolved, and what it dissolved gone, for
\* ever after: through concurrent whole-row upserts, failed statements and crashes
\* (respond, AppendEvent, UpsertEntity, ArchiveEntity, DissolveRelation).
THEOREM AckedLast == Spec => []AckedWritesLast
  <1>1. Init => Acked
    BY DEF Init, Acked
  <1>2. EdgeInv /\ Acked /\ [Next]_vars => Acked'
    BY NextAcked
  <1>3. Acked => AckedWritesLast
    BY DEF Acked, Vouched, AckedWritesLast
  <1> QED
    BY <1>1, <1>2, <1>3, EdgeInvariant, PTL DEF Spec

-----------------------------------------------------------------------------
(***************************************************************************)
(* Time travel.  Text compares as time does from one second to the next,   *)
(* so an event of a later second is on no list up to an earlier one, and   *)
(* an event that is logged later changes no such list.                     *)
(***************************************************************************)
\* A set of naturals that is not empty has a least element.
LEMMA LeastExists ==
    ASSUME NEW S \in SUBSET Nat, S # {}
    PROVE  \E x \in S : \A y \in S : x <= y
  <1> DEFINE less == OpToRel(<, Nat)
  <1>1. IsWellFoundedOn(less, Nat)
    BY NatLessThanWellFounded
  <1>2. PICK x \in S : \A y \in S : <<y, x>> \notin less
    <2> HIDE DEF less
    <2> QED
      BY <1>1, WFMin
  <1>3. \A y \in S : ~(y < x)
    BY <1>2 DEF OpToRel
  <1> QED
    BY <1>3

\* Span(t) is one of the widths, and divides t.
LEMMA SpanIs ==
    ASSUME NEW t \in Nat
    PROVE  Span(t) \in Widths /\ t % Span(t) = 0
  <1> DEFINE S == {w \in Widths : t % w = 0}
             R == {n \in 0 .. 10 : TicksPerSecond - n \in S}
  <1>1. Widths \subseteq 1 .. TicksPerSecond /\ 1 \in Widths /\ TicksPerSecond \in 1 .. 10
    BY TicksAssumption, WidthsAssumption
  <1>2. t % 1 = 0
    OBVIOUS
  <1>3. R \in SUBSET Nat /\ TicksPerSecond - 1 \in R
    <2>1. TicksPerSecond - 1 \in 0 .. 10 /\ TicksPerSecond - (TicksPerSecond - 1) = 1
      BY <1>1
    <2>2. 1 \in S
      BY <1>1, <1>2
    <2> HIDE DEF S
    <2> QED
      BY <2>1, <2>2
  <1>4. PICK n \in R : \A m \in R : n <= m
    <2> HIDE DEF R
    <2> QED
      BY <1>3, LeastExists
  <1> DEFINE w == TicksPerSecond - n
  <1>5. w \in S /\ \A v \in S : v <= w
    <2>1. ASSUME NEW v \in S PROVE v <= w
      <3>1. v \in 1 .. TicksPerSecond
        BY <1>1
      <3>2. TicksPerSecond - v \in 0 .. 10 /\ TicksPerSecond - (TicksPerSecond - v) = v
        BY <1>1, <3>1
      <3>3. TicksPerSecond - v \in R
        BY <3>2
      <3> QED
        BY <1>1, <1>4, <3>1, <3>3
    <2> QED
      BY <1>4, <2>1
  <1> HIDE DEF w
  <1> QED
    BY <1>5 DEF Span

\* The second and the rank of a time are numbers.
LEMMA TextRankType ==
    ASSUME NEW a \in Nat
    PROVE  /\ SecondOf(a) \in Nat /\ TextRank(a) \in Nat
           /\ Span(a) \in 1 .. TicksPerSecond
           /\ TicksPerSecond \in 1 .. 10
  <1>1. TicksPerSecond \in 1 .. 10
    BY TicksAssumption
  <1>2. Span(a) \in 1 .. TicksPerSecond
    BY SpanIs, WidthsAssumption
  <1>3. a \div TicksPerSecond \in Nat /\ (a + Span(a)) * (TicksPerSecond + 1) \in Nat
    BY <1>1, <1>2
  <1> QED
    BY <1>1, <1>2, <1>3 DEF TextRank, SecondOf

\* From one multiple to a greater one there is room for the number itself.
LEMMA NextMultiple ==
    ASSUME NEW w \in 1 .. 10, NEW a \in Nat, NEW n \in Nat, a % w = 0, n % w = 0, a < n
    PROVE  a + w <= n
  <1>1. PICK x \in Nat : x = a \div w
    OBVIOUS
  <1>2. PICK y \in Nat : y = n \div w
    OBVIOUS
  <1>3. a = w * x /\ n = w * y
    BY <1>1, <1>2
  <1>4. x + 1 <= y
    BY <1>3
  <1>5. w * (x + 1) <= w * y
    BY <1>4
  <1>6. w * (x + 1) = (w * x) + w
    OBVIOUS
  <1> QED
    BY <1>3, <1>5, <1>6

LEMMA MultipleOf ==
    ASSUME NEW w \in 1 .. 10, NEW n \in 1 .. 10, NEW m \in Nat, n % w = 0
    PROVE  (m * n) % w = 0
  <1>1. PICK x \in 0 .. 10 : n = w * x
    BY n = w * (n \div w), n \div w \in 0 .. 10
  <1>2. m * n = w * (m * x)
    BY <1>1
  <1>3. m * x \in Nat
    OBVIOUS
  <1> QED
    BY <1>2, <1>3

\* A second's texts are before those of the seconds after it (formatTime).
LEMMA TextRankSeconds ==
    ASSUME NEW a \in Nat, NEW b \in Nat, SecondOf(a) < SecondOf(b)
    PROVE  TextRank(a) < TextRank(b)
  <1> DEFINE T == TicksPerSecond
             m == (a \div T) + 1
  <1>1. T \in 1 .. 10 /\ Span(a) \in 1 .. T /\ Span(b) \in 1 .. T
    BY TextRankType
  <1>2. a % Span(a) = 0 /\ T % Span(a) = 0
    BY SpanIs, WidthsAssumption
  <1>3. m \in Nat /\ b \div T \in Nat /\ m <= b \div T
    BY <1>1 DEF SecondOf
  <1>4. a < m * T /\ (b \div T) * T <= b /\ m * T \in Nat
    BY <1>1
  <1>5. (m * T) % Span(a) = 0
    BY <1>1, <1>2, <1>3, MultipleOf
  <1>6. a + Span(a) <= m * T
    <2>1. Span(a) \in 1 .. 10
      BY <1>1
    <2> HIDE DEF m, T
    <2> QED
      BY <1>2, <1>4, <1>5, <2>1, NextMultiple
  <1>7. m * T <= (b \div T) * T
    <2> HIDE DEF m
    <2>1. \A x, y \in Nat : x <= y => x * T <= y * T
      BY <1>1
    <2> QED
      BY <1>3, <2>1
  <1>8. (b \div T) * T \in Nat
    BY <1>1, <1>3
  <1>9. (a + Span(a)) + 1 <= b + Span(b)
    <2> HIDE DEF m
    <2> QED
      BY <1>1, <1>4, <1>6, <1>7, <1>8
  <1> HIDE DEF T, m
  <1>10. \A x, y \in Nat : x + 1 <= y => (x * (T + 1)) + (T + 1) <= y * (T + 1)
    BY <1>1
  <1>11. ((a + Span(a)) * (T + 1)) + (T + 1) <= (b + Span(b)) * (T + 1)
    BY <1>1, <1>9, <1>10
  <1>12. (a + Span(a)) * (T + 1) \in Nat /\ (b + Span(b)) * (T + 1) \in Nat
    BY <1>1
  <1>13. /\ TextRank(a) = ((a + Span(a)) * (T + 1)) + Span(a)
         /\ TextRank(b) = ((b + Span(b)) * (T + 1)) + Span(b)
    BY DEF TextRank, T
  <1> QED
    BY <1>1, <1>11, <1>12, <1>13

\* No two times have one text.
LEMMA TextRankInjective ==
    ASSUME NEW a \in Nat, NEW b \in Nat, TextRank(a) = TextRank(b)
    PROVE  a = b
  <1> DEFINE n == TicksPerSecond + 1
             x == a + Span(a)
             y == b + Span(b)
  <1>1. n \in 2 .. 11 /\ Span(a) \in 1 .. n - 1 /\ Span(b) \in 1 .. n - 1
    BY TextRankType
  <1>2. x \in Nat /\ y \in Nat
    BY <1>1
  <1>3. (x * n) + Span(a) = (y * n) + Span(b)
    BY DEF TextRank
  <1>4. x = y
    <2> HIDE DEF x, y, n
    <2>1. \A u, v \in Nat : u < v => (u * n) + n <= v * n
      BY <1>1
    <2>2. x * n \in Nat /\ y * n \in Nat
      BY <1>1, <1>2
    <2>3. ~(x < y) /\ ~(y < x)
      BY <1>1, <1>2, <1>3, <2>1, <2>2
    <2> QED
      BY <1>2, <2>3
  <1>5. Span(a) = Span(b)
    <2> HIDE DEF x, y, n
    <2>1. x * n \in Nat
      BY <1>1, <1>2
    <2> QED
      BY <1>1, <1>3, <1>4, <2>1
  <1> QED
    BY <1>1, <1>4, <1>5

\* coggo_time_travel: whatever is written, fails or crashes, no step changes the
\* state as of a time whose second is over and whose requests have been logged.
THEOREM PastSettled == Spec => HistoryStable
  <1>1. LogInv /\ [Next]_vars =>
          [\A t \in 0 .. clock, p \in Peers :
             Settled(t) /\ ListEvents(p, t)' # ListEvents(p, t) =>
                FoldLog(p, ListEvents(p, t)') = TimeTravel(p, t)]_events
    <2> SUFFICES ASSUME LogInv, [Next]_vars, NEW t \in 0 .. clock, NEW p \in Peers, Settled(t)
                 PROVE  ListEvents(p, t)' = ListEvents(p, t)
      OBVIOUS
    <2>1. ASSUME NEW e \in events', e \notin events
          PROVE  ~ (TextRank(e.ts) <= TextRank(t))
      <3>1. PICK c \in Clients : AppendEvent(c) /\ e = EventOf(c)
        BY <2>1, EventStep
      <3>2. pc[c] = "append" /\ e.ts = stamp[c]
        BY <3>1 DEF AppendEvent, EventOf
      <3>3. e.ts \in Nat /\ t \in Nat
        BY <3>2, ClockAssumption DEF LogInv, TypeInv, TypeOK, Times
      <3>4. SecondOf(t) < SecondOf(e.ts)
        BY <3>2, <3>3, TicksAssumption DEF Settled, SecondOf
      <3>5. TextRank(e.ts) \in Nat /\ TextRank(t) \in Nat
        BY <3>3, TextRankType
      <3> QED
        BY <3>3, <3>4, <3>5, TextRankSeconds
    <2> QED
      BY <2>1, EventsGrow DEF ListEvents
  <1> QED
    BY <1>1, LogInvariant, PTL DEF Spec, HistoryStable

-----------------------------------------------------------------------------
(***************************************************************************)
(* The fold of TimeTravelEntities, as a loop.  Every loop over values of   *)
(* one set has a value at each turn (induction on the turns, through least *)
(* elements); an event whose text sorts after a log is folded last.        *)
(***************************************************************************)
\* What holds at the foot and at each next rung holds up to the top.
LEMMA Climb ==
    ASSUME NEW N \in Nat, NEW P, 0 \in P, \A n \in 0 .. N : n + 1 \in 0 .. N /\ n \in P => n + 1 \in P
    PROVE  \A n \in 0 .. N : n \in P
  <1> DEFINE S == {n \in 0 .. N : n \notin P}
  <1> SUFFICES ASSUME S # {} PROVE FALSE
    OBVIOUS
  <1>1. S \in SUBSET Nat
    OBVIOUS
  <1>2. PICK x \in S : \A y \in S : x <= y
    <2> HIDE DEF S
    <2> QED
      BY <1>1, LeastExists
  <1>3. x \in 0 .. N /\ x \notin P /\ x # 0
    OBVIOUS
  <1>4. x - 1 \in 0 .. N /\ x - 1 + 1 = x /\ ~(x <= x - 1)
    BY <1>3
  <1>5. x - 1 \in P
    BY <1>2, <1>4
  <1> QED
    BY <1>3, <1>4, <1>5

\* A loop of n turns over values of one set has a value at every turn.
LoopValues(n, S, first, turn) ==
    {f \in [0 .. n -> S] : f[0] = first /\ \A r \in 1 .. n : f[r] = turn[r][f[r - 1]]}

LEMMA LoopRuns ==
    ASSUME NEW N \in Nat, NEW S, NEW first \in S, NEW turn \in [1 .. N -> [S -> S]]
    PROVE  LoopValues(N, S, first, turn) # {}
  <1> DEFINE Runs(n) == LoopValues(n, S, first, turn)
             P == {n \in 0 .. N : Runs(n) # {}}
  <1>1. 0 \in P
    <2> DEFINE f == [r \in 0 .. 0 |-> first]
    <2>1. f \in Runs(0)
      BY DEF LoopValues
    <2> QED
      BY <2>1
  <1>2. ASSUME NEW n \in 0 .. N, n + 1 \in 0 .. N, n \in P PROVE n + 1 \in P
    <2>1. PICK f \in [0 .. n -> S] : f[0] = first /\ \A r \in 1 .. n : f[r] = turn[r][f[r - 1]]
      BY <1>2 DEF LoopValues
    <2> DEFINE g == [r \in 0 .. n + 1 |-> IF r = n + 1 THEN turn[n + 1][f[n]] ELSE f[r]]
    <2>2. n \in 0 .. n /\ n + 1 \in 1 .. N /\ n \in Nat
      BY <1>2
    <2>3. f[n] \in S /\ turn[n + 1] \in [S -> S]
      BY <2>1, <2>2
    <2>4. turn[n + 1][f[n]] \in S
      BY <2>3
    <2>5. g \in [0 .. n + 1 -> S] /\ g[0] = first
      BY <2>1, <2>2, <2>4
    <2>6. ASSUME NEW r \in 1 .. n + 1 PROVE g[r] = turn[r][g[r - 1]]
      <3>1. CASE r = n + 1
        BY <2>2, <3>1
      <3>2. CASE r # n + 1
        <4>1. r \in 1 .. n /\ r \in 0 .. n + 1 /\ r - 1 \in 0 .. n + 1 /\ r - 1 # n + 1
          BY <2>2, <3>2
        <4> QED
          BY <2>1, <3>2, <4>1
      <3> QED
        BY <3>1, <3>2
    <2>7. g \in Runs(n + 1)
      BY <2>5, <2>6 DEF LoopValues
    <2> QED
      BY <1>2, <2>7
  <1> HIDE DEF P
  <1>3. \A n \in 0 .. N : n \in P
    <2>1. \A n \in 0 .. N : n + 1 \in 0 .. N /\ n \in P => n + 1 \in P
      BY <1>2
    <2> QED
      BY <1>1, <2>1, Climb
  <1>4. N \in P
    BY <1>3
  <1> QED
    BY <1>4 DEF P

\* The entities of a peer, as the loop over its log may leave them.
PeerRows(p) == [Ids -> {r \in EntityRow : r.peer = p} \cup {Nil}]

\* An event that brings an entity brings one of its own peer.
RowOK(e) ==
    e.type \in {"EntityCreated", "EntityUpdated"} =>
        e.row \in EntityRow /\ e.row.peer = e.peer /\ e.id \in Ids

LogOK(p, log) == \A e \in log : e \in Event /\ e.peer = p /\ RowOK(e)

\* One turn of the loop, type of event by type of event.
LEMMA FoldIs ==
    ASSUME NEW s, NEW e
    PROVE  /\ e.type = "EntityCreated" => FoldEvent(s, e) = [s EXCEPT ![e.id] = e.row]
           /\ e.type = "EntityUpdated" =>
                FoldEvent(s, e) = [s EXCEPT ![e.id] =
                    IF @ = Nil THEN e.row ELSE [@ EXCEPT !.data = e.row.data, !.updated = e.ts]]
           /\ e.type = "EntityArchived" /\ e.id \in Ids =>
                FoldEvent(s, e) = [s EXCEPT ![e.id] =
                    IF @ = Nil THEN Nil ELSE [@ EXCEPT !.archived = e.ts]]
           /\ e.type = "EntityArchived" /\ e.id \notin Ids => FoldEvent(s, e) = s
           /\ e.type \in {"RelationCreated", "RelationDissolved"} => FoldEvent(s, e) = s
  <1>1. ASSUME e.type = "EntityCreated" PROVE FoldEvent(s, e) = [s EXCEPT ![e.id] = e.row]
    BY <1>1, Zenon DEF FoldEvent
  <1>2. ASSUME e.type = "EntityUpdated"
        PROVE  FoldEvent(s, e) = [s EXCEPT ![e.id] =
                    IF @ = Nil THEN e.row ELSE [@ EXCEPT !.data = e.row.data, !.updated = e.ts]]
    BY <1>2, Zenon DEF FoldEvent
  <1>3. ASSUME e.type = "EntityArchived", e.id \in Ids
        PROVE  FoldEvent(s, e) = [s EXCEPT ![e.id] =
                    IF @ = Nil THEN Nil ELSE [@ EXCEPT !.archived = e.ts]]
    BY <1>3, Zenon DEF FoldEvent
  <1>4. ASSUME e.type = "EntityArchived", e.id \notin Ids PROVE FoldEvent(s, e) = s
    BY <1>4, Zenon DEF FoldEvent
  <1>5. ASSUME e.type \in {"RelationCreated", "RelationDissolved"} PROVE FoldEvent(s, e) = s
    BY <1>5, Zenon DEF FoldEvent
  <1> QED
    BY <1>1, <1>2, <1>3, <1>4, <1>5

\* What a turn makes of the entity that the event is about; it leaves the others alone.
Folded(s, e, t) ==
    /\ \A i \in Ids : i # e.id => t[i] = s[i]
    /\ e.type = "EntityCreated" => t[e.id] = e.row
    /\ e.type = "EntityUpdated" /\ s[e.id] # Nil =>
         t[e.id] = [s[e.id] EXCEPT !.data = e.row.data, !.updated = e.ts]
    /\ e.type = "EntityUpdated" /\ s[e.id] = Nil => t[e.id] = e.row
    /\ e.type = "EntityArchived" /\ e.id \in Ids /\ s[e.id] # Nil =>
         t[e.id] = [s[e.id] EXCEPT !.archived = e.ts]
    /\ e.type = "EntityArchived" /\ e.id \in Ids /\ s[e.id] = Nil => t[e.id] = Nil
    /\ e.type \in {"RelationCreated", "RelationDissolved"} => t = s

LEMMA FoldRows ==
    ASSUME NEW p, NEW s \in PeerRows(p), NEW e \in Event, e.peer = p, RowOK(e)
    PROVE  FoldEvent(s, e) \in PeerRows(p) /\ Folded(s, e, FoldEvent(s, e))
  <1> DEFINE R == {r \in EntityRow : r.peer = p} t == FoldEvent(s, e)
  <1>1. /\ \A i \in Ids : s[i] \in R \cup {Nil}
        /\ s = [i \in Ids |-> s[i]]
        /\ e.ts \in Ids /\ e.ts \in Times /\ e.type \in EventTypes
    BY ClockAssumption DEF PeerRows, Event, Ids, Times
  <1>2. ASSUME NEW r \in R, NEW d \in [Fields -> Times]
        PROVE  [r EXCEPT !.data = d, !.updated = e.ts] \in R
    BY <1>1 DEF EntityRow
  <1>3. ASSUME NEW r \in R PROVE [r EXCEPT !.archived = e.ts] \in R
    BY <1>1 DEF EntityRow
  <1>4. CASE e.type = "EntityCreated"
    <2>1. t = [s EXCEPT ![e.id] = e.row] /\ e.row \in R /\ e.id \in Ids
      BY <1>4, FoldIs DEF RowOK
    <2> QED
      BY <1>1, <1>4, <2>1 DEF PeerRows, Folded
  <1>5. CASE e.type = "EntityUpdated"
    <2> DEFINE new == IF s[e.id] = Nil THEN e.row
                      ELSE [s[e.id] EXCEPT !.data = e.row.data, !.updated = e.ts]
    <2>1. e.row \in R /\ e.id \in Ids /\ e.row.data \in [Fields -> Times]
      BY <1>5 DEF RowOK, EntityRow
    <2>2. new \in R
      BY <1>1, <1>2, <2>1
    <2>3. t = [s EXCEPT ![e.id] = new]
      BY <1>1, <1>5, <2>1, FoldIs
    <2> HIDE DEF t
    <2> QED
      BY <1>1, <1>5, <2>1, <2>2, <2>3 DEF PeerRows, Folded, t
  <1>6. CASE e.type = "EntityArchived" /\ e.id \in Ids
    <2> DEFINE new == IF s[e.id] = Nil THEN Nil ELSE [s[e.id] EXCEPT !.archived = e.ts]
    <2>1. new \in R \cup {Nil}
      BY <1>1, <1>3, <1>6
    <2>2. t = [s EXCEPT ![e.id] = new]
      BY <1>1, <1>6, FoldIs
    <2> QED
      BY <1>1, <1>6, <2>1, <2>2 DEF PeerRows, Folded
  <1>7. CASE (e.type = "EntityArchived" /\ e.id \notin Ids)
              \/ e.type \in {"RelationCreated", "RelationDissolved"}
    <2>1. t = s
      BY <1>7, FoldIs
    <2> QED
      BY <1>7, <2>1 DEF Folded
  <1> QED
    BY <1>1, <1>4, <1>5, <1>6, <1>7 DEF EventTypes, Folded

\* The events of the log at one rank, and the turn of the loop there.
At(log, r) == {e \in log : TextRank(e.ts) = r}
Turn(log, s, r) ==
    IF At(log, r) = {} THEN s ELSE FoldEvent(s, CHOOSE e \in At(log, r) : TRUE)

NoRows == [i \in Ids |-> Nil]

LEMMA TurnRows ==
    ASSUME NEW p, NEW log, LogOK(p, log), NEW s \in PeerRows(p), NEW r
    PROVE  Turn(log, s, r) \in PeerRows(p)
  <1>1. CASE At(log, r) = {}
    BY <1>1 DEF Turn
  <1>2. CASE At(log, r) # {}
    <2>1. PICK e : e = CHOOSE d \in At(log, r) : TRUE
      OBVIOUS
    <2>2. e \in At(log, r)
      BY <1>2, <2>1
    <2>3. e \in Event /\ e.peer = p /\ RowOK(e)
      BY <2>2 DEF At, LogOK
    <2>4. FoldEvent(s, e) \in PeerRows(p)
      BY ONLY <2>3, FoldRows, s \in PeerRows(p)
    <2>5. Turn(log, s, r) = FoldEvent(s, e)
      BY <1>2, <2>1 DEF Turn
    <2> QED
      BY <2>4, <2>5
  <1> QED
    BY <1>1, <1>2

LEMMA MaxRankType == MaxRank \in Nat
  BY TicksAssumption, ClockAssumption DEF MaxRank

\* The loop over a peer's log: it begins with no entity and takes a turn at each rank.
LEMMA ReplayIs ==
    ASSUME NEW p, NEW log, LogOK(p, log)
    PROVE  /\ Replay(log)[0] = NoRows
           /\ \A r \in 1 .. MaxRank : Replay(log)[r] = Turn(log, Replay(log)[r - 1], r)
           /\ \A r \in 0 .. MaxRank : Replay(log)[r] \in PeerRows(p)
  <1> DEFINE Loop(f) == [r \in 0 .. MaxRank |->
                            IF r = 0 THEN NoRows ELSE Turn(log, f[r - 1], r)]
             turn == [r \in 1 .. MaxRank |-> [s \in PeerRows(p) |-> Turn(log, s, r)]]
             g == Replay(log)
  <1>1. g = CHOOSE f : f = Loop(f)
    BY DEF Replay, Turn, At, NoRows
  <1>2. NoRows \in PeerRows(p)
    BY DEF NoRows, PeerRows
  <1>3. turn \in [1 .. MaxRank -> [PeerRows(p) -> PeerRows(p)]]
    BY TurnRows
  <1>4. PICK f \in [0 .. MaxRank -> PeerRows(p)] :
            f[0] = NoRows /\ \A r \in 1 .. MaxRank : f[r] = turn[r][f[r - 1]]
    <2> HIDE DEF turn
    <2>1. LoopValues(MaxRank, PeerRows(p), NoRows, turn) # {}
      BY <1>2, <1>3, LoopRuns, MaxRankType
    <2> QED
      BY <2>1 DEF LoopValues
  <1>5. f = Loop(f)
    <2>1. ASSUME NEW r \in 1 .. MaxRank PROVE f[r] = Turn(log, f[r - 1], r)
      <3>1. f[r - 1] \in PeerRows(p)
        BY <1>4, MaxRankType
      <3> QED
        BY <1>4, <3>1
    <2>2. ASSUME NEW r \in 0 .. MaxRank
          PROVE  f[r] = IF r = 0 THEN NoRows ELSE Turn(log, f[r - 1], r)
      BY <1>4, <2>1, MaxRankType
    <2>3. f = [r \in 0 .. MaxRank |-> f[r]]
      BY <1>4
    <2> QED
      BY <2>2, <2>3, Zenon
  <1>6. g = Loop(g)
    <2> HIDE DEF g, Loop
    <2> QED
      BY <1>1, <1>5
  <1> HIDE DEF g
  <1>7. g[0] = NoRows /\ \A r \in 1 .. MaxRank : g[r] = Turn(log, g[r - 1], r)
    <2>1. ASSUME NEW r \in 0 .. MaxRank
          PROVE  g[r] = IF r = 0 THEN NoRows ELSE Turn(log, g[r - 1], r)
      BY <1>6
    <2>2. 0 \in 0 .. MaxRank
      BY MaxRankType
    <2>3. \A r \in 1 .. MaxRank : r \in 0 .. MaxRank /\ r # 0
      BY MaxRankType
    <2> QED
      BY <2>1, <2>2, <2>3
  <1>8. \A r \in 0 .. MaxRank : g[r] \in PeerRows(p)
    <2> DEFINE P == {r \in 0 .. MaxRank : g[r] \in PeerRows(p)}
    <2>1. 0 \in P
      BY <1>2, <1>7, MaxRankType
    <2>2. ASSUME NEW n \in 0 .. MaxRank, n + 1 \in 0 .. MaxRank, n \in P PROVE n + 1 \in P
      <3>1. n + 1 \in 1 .. MaxRank /\ n + 1 - 1 = n
        BY <2>2, MaxRankType
      <3>2. g[n + 1] = Turn(log, g[n], n + 1)
        BY <1>7, <3>1
      <3> QED
        BY <2>2, <3>2, TurnRows
    <2> HIDE DEF P
    <2>3. \A n \in 0 .. MaxRank : n + 1 \in 0 .. MaxRank /\ n \in P => n + 1 \in P
      BY <2>2
    <2>4. \A n \in 0 .. MaxRank : n \in P
      BY <2>1, <2>3, Climb, MaxRankType
    <2> QED
      BY <2>4 DEF P
  <1> QED
    BY <1>7, <1>8 DEF g

\* What the loop leaves are rows of the peer, all of them.
LEMMA FoldLogIs ==
    ASSUME NEW p, NEW log, LogOK(p, log)
    PROVE  FoldLog(p, log) = Replay(log)[MaxRank] /\ FoldLog(p, log) \in PeerRows(p)
  <1> DEFINE last == Replay(log)[MaxRank]
  <1>1. last \in PeerRows(p)
    BY ReplayIs, MaxRankType
  <1>2. FoldLog(p, log) = [i \in Ids |-> IF last[i] # Nil /\ last[i].peer = p THEN last[i] ELSE Nil]
    BY DEF FoldLog
  <1> HIDE DEF last
  <1>3. \A i \in Ids : (IF last[i] # Nil /\ last[i].peer = p THEN last[i] ELSE Nil) = last[i]
    BY <1>1 DEF PeerRows
  <1>4. last = [i \in Ids |-> last[i]]
    BY <1>1 DEF PeerRows
  <1>5. FoldLog(p, log) = last
    BY <1>2, <1>3, <1>4
  <1> QED
    BY <1>1, <1>5 DEF last

\* The text of a stamp has a rank.
LEMMA RankInRange ==
    ASSUME NEW t \in Ids
    PROVE  TextRank(t) \in 1 .. MaxRank
  <1> DEFINE n == TicksPerSecond + 1
             x == t + Span(t)
             y == MaxClock + TicksPerSecond
  <1>1. t \in Nat /\ t <= MaxClock /\ MaxClock \in Nat
    BY ClockAssumption DEF Ids
  <1>2. /\ TicksPerSecond \in 1 .. 10 /\ n \in 2 .. 11
        /\ Span(t) \in 1 .. n - 1 /\ TextRank(t) \in Nat
    BY <1>1, TextRankType
  <1>3. x \in Nat /\ y \in Nat /\ x <= y
    BY <1>1, <1>2
  <1>4. TextRank(t) = (x * n) + Span(t) /\ MaxRank = (y * n) + (n - 1)
    BY <1>2 DEF TextRank, MaxRank
  <1> HIDE DEF x, y, n
  <1>5. x * n <= y * n /\ x * n \in Nat /\ y * n \in Nat
    BY <1>2, <1>3
  <1> QED
    BY <1>2, <1>4, <1>5
-----------------------------------------------------------------------------
(***************************************************************************)
(* What the log says of an acknowledged write, and time travel shows.  An  *)
(* event is the only one of its time, it carries what its request set, and *)
(* what follows it in the loop over the log touches other columns only.    *)
(***************************************************************************)
EventFacts(e) ==
    /\ e.ts <= clock
    /\ RowOK(e)
    /\ e.type = "EntityCreated" => e.id = e.ts /\ e.row.created = e.id
    /\ e.type \in Contents => \E f \in Fields : e.row.data[f] = e.ts

Unlogged(c) == pc[c] = "append" => \A e \in events : e.ts # stamp[c]

\* The row in hand carries the field that the request sets.
WorkOK(c) ==
    /\ pc[c] \in {"get", "stamp"} \/ (Writing(c) /\ msg[c].op = "entity.update") =>
         msg[c].field \in Fields
    /\ Creating(c) => \E f \in Fields : work[c].data[f] = stamp[c]
    /\ Writing(c) /\ msg[c].op = "entity.update" => work[c].data[msg[c].field] = stamp[c]

EventFact(c, e) ==
    /\ e.type = "EntityCreated" => e.row.by = c
    /\ e.type = "EntityUpdated" => e.row.data[msg[c].field] = stamp[c]
    /\ e.type = "EntityArchived" =>
         \E d \in events : d.type = "EntityCreated" /\ d.peer = e.peer /\ d.id = e.id

ReplyOK(c) == reply[c] = "ok" => \A e \in events : e.ts = stamp[c] => EventFact(c, e)

ShownInv ==
    /\ EdgeInv /\ Acked
    /\ \A e \in events : EventFacts(e)
    /\ \A d, e \in events : d.ts = e.ts => d = e
    /\ \A c \in Clients : Unlogged(c) /\ WorkOK(c) /\ ReplyOK(c)

\* The type of an event tells the operation that logged it.
LEMMA OpOfEventType ==
    ASSUME NEW op \in AllOps
    PROVE  /\ EventTypeOf(op) = "EntityCreated" => op = "entity.create"
           /\ EventTypeOf(op) = "EntityUpdated" => op = "entity.update"
           /\ EventTypeOf(op) = "EntityArchived" => op = "entity.archive"
  BY EventTypeOfOp DEF AllOps

\* What AppendEvent adds to the log.
LEMMA AppendedFacts ==
    ASSUME ShownInv, NEW c \in Clients, AppendEvent(c)
    PROVE  EventFacts(EventOf(c)) /\ EventOf(c) \notin events
  <1> DEFINE e == EventOf(c)
  <1> USE DEF ShownInv, EdgeInv, LogInv, TypeInv
  <1>1. /\ e.type = EventTypeOf(msg[c].op) /\ e.id = msg[c].id /\ e.ts = stamp[c]
        /\ e.row = work[c] /\ e.peer = msg[c].peer
    BY DEF EventOf
  <1>2. Writing(c) /\ pc[c] = "append" /\ msg[c].op \in AllOps /\ stamp[c] \in Ids
    BY DEF AppendEvent, Writing, HandlerOK, Request
  <1> HIDE DEF e
  <1>3. e.ts <= clock /\ \A d \in events : d.ts # e.ts
    BY <1>1, <1>2 DEF StampsFresh, Unlogged
  <1>4. ASSUME e.type = "EntityCreated"
        PROVE  /\ e.row \in EntityRow /\ e.row.peer = e.peer /\ e.id \in Ids
               /\ e.id = e.ts /\ e.row.created = e.id
               /\ \E f \in Fields : e.row.data[f] = e.ts
    <2>1. msg[c].op = "entity.create"
      BY <1>1, <1>2, <1>4, OpOfEventType
    <2> QED
      BY <1>1, <1>2, <2>1 DEF HandlerOK, HandlersKnow, CreateOK, Creating, WorkOK
  <1>5. ASSUME e.type = "EntityUpdated"
        PROVE  /\ e.row \in EntityRow /\ e.row.peer = e.peer /\ e.id \in Ids
               /\ \E f \in Fields : e.row.data[f] = e.ts
    <2>1. msg[c].op = "entity.update"
      BY <1>1, <1>2, <1>5, OpOfEventType
    <2>2. msg[c].field \in Fields /\ work[c].data[msg[c].field] = stamp[c]
      BY <1>2, <2>1 DEF WorkOK
    <2> QED
      BY <1>1, <1>2, <2>1, <2>2 DEF HandlerOK, HandlersKnow, UpdateOK, Updating
  <1>6. RowOK(e)
    BY <1>4, <1>5 DEF RowOK
  <1>7. e.type = "EntityUpdated" => e.type # "EntityCreated"
    OBVIOUS
  <1> QED
    BY <1>3, <1>4, <1>5, <1>6, <1>7 DEF EventFacts, Contents, e

\* Every event in the log stays what it was, and a new one is AppendEvent's.
LEMMA NextEventFacts ==
    ASSUME ShownInv, [Next]_vars
    PROVE  /\ \A e \in events' : EventFacts(e)'
           /\ \A d, e \in events' : d.ts = e.ts => d = e
  <1>1. clock <= clock' /\ clock \in Nat /\ clock' \in Nat /\ \A e \in events : e.ts \in Nat
    BY ClockGrows, NextTypeInv, ClockAssumption
       DEF ShownInv, EdgeInv, LogInv, TypeInv, TypeOK, Times, Event, Ids
  <1>2. ASSUME NEW e, EventFacts(e), e.ts \in Nat PROVE EventFacts(e)'
    BY <1>1, <1>2 DEF EventFacts, RowOK
  <1>3. ASSUME NEW e \in events', e \notin events
        PROVE  EventFacts(e)' /\ (\A d \in events : d.ts # e.ts) /\ events' = events \cup {e}
    <2>1. PICK c \in Clients : AppendEvent(c) /\ e = EventOf(c)
      BY <1>3, EventStep
    <2>2. pc[c] = "append" /\ e.ts = stamp[c] /\ stamp[c] \in Nat
      BY <2>1, ClockAssumption
         DEF AppendEvent, EventOf, ShownInv, EdgeInv, LogInv, TypeInv, TypeOK, Times
    <2>3. EventFacts(e)
      BY <2>1, AppendedFacts
    <2>4. \A d \in events : d.ts # e.ts
      BY <2>2 DEF ShownInv, Unlogged
    <2> QED
      BY <1>2, <2>1, <2>2, <2>3, <2>4 DEF AppendEvent
  <1>4. \A e \in events : EventFacts(e)'
    BY <1>1, <1>2 DEF ShownInv
  <1> QED
    BY <1>3, <1>4 DEF ShownInv

\* Two writes in flight have two stamps, and a new stamp is later than any event.
LEMMA NextUnlogged ==
    ASSUME ShownInv, [Next]_vars, NEW c \in Clients
    PROVE  Unlogged(c)'
  <1> SUFFICES ASSUME pc'[c] = "append", NEW e \in events' PROVE e.ts # stamp'[c]
    BY DEF Unlogged
  <1> USE DEF ShownInv, EdgeInv, LogInv, TypeInv, TypeOK
  <1>1. Writing(c)'
    BY DEF Writing
  <1>2. clock \in Nat
    BY ClockAssumption DEF Times
  <1>3. ASSUME NEW d \in Clients, AppendEvent(d) PROVE pc[c] = "append" /\ d # c /\ stamp'[c] = stamp[c]
    BY <1>3 DEF AppendEvent
  <1>4. CASE stamp'[c] = clock + 1 /\ ~ \E d \in Clients : AppendEvent(d)
    <2>1. e \in events
      BY <1>4, EventStep
    <2>2. e.ts <= clock /\ e.ts \in Nat
      BY <2>1, ClockAssumption DEF EventFacts, Event, Ids
    <2> QED
      BY <1>2, <1>4, <2>2
  <1>5. CASE Writing(c) /\ stamp'[c] = stamp[c]
    <2>1. pc[c] = "append"
      BY <1>5, RequestStep DEF SameRequest, Enters, EntityCreate, EntityUpdate, EntityArchive,
         RelationCreate, RelationDissolve, Dispatch, UpdateGet, UpdateMerge, AppendEvent, Writing
    <2>2. CASE e \in events
      BY <1>5, <2>1, <2>2 DEF Unlogged
    <2>3. CASE e \notin events
      <3>1. PICK d \in Clients : AppendEvent(d) /\ e = EventOf(d)
        BY <2>3, EventStep
      <3>2. e.ts = stamp[d] /\ Writing(d) /\ d # c
        BY <1>3, <3>1 DEF AppendEvent, EventOf, Writing
      <3> QED
        BY <1>5, <3>2 DEF StampsFresh
    <2> QED
      BY <2>2, <2>3
  <1>6. ASSUME NEW d \in Clients, AppendEvent(d) PROVE clock' = clock
    BY <1>6 DEF AppendEvent
  <1> QED
    BY <1>1, <1>2, <1>4, <1>5, <1>6, WritingStep

\* The row a handler prepares carries the field of its request.
LEMMA NextWork ==
    ASSUME ShownInv, [Next]_vars, NEW c \in Clients
    PROVE  WorkOK(c)'
  <1> USE DEF WorkOK, Writing, Creating
  <1>1. TypeInv /\ WorkOK(c)
    BY DEF ShownInv, EdgeInv, LogInv
  <1>2. CASE SameRequest(c)
    BY <1>1, <1>2 DEF SameRequest
  <1>3. CASE pc'[c] = "idle"
    BY <1>3
  <1>4. CASE Enters(c)
    <2>1. ASSUME NEW p \in Peers, NEW f \in Fields, EntityCreate(c, p, f) PROVE WorkOK(c)'
      <3>1. /\ pc'[c] = "append" /\ msg'[c].op = "entity.create" /\ stamp'[c] = clock + 1
            /\ work'[c].data = [g \in Fields |-> IF g = f THEN clock + 1 ELSE 0]
        BY <1>1, <2>1 DEF EntityCreate, Dispatch, Stamp, TypeInv, TypeOK
      <3> QED
        BY <3>1
    <2>2. ASSUME NEW p \in Peers, NEW i \in SeenEntities, NEW f \in Fields, EntityUpdate(c, p, i, f)
          PROVE  WorkOK(c)'
      BY <1>1, <2>2 DEF EntityUpdate, Dispatch, TypeInv, TypeOK
    <2>3. ASSUME NEW p \in Peers, NEW i, EntityArchive(c, p, i) \/ RelationDissolve(c, p, i)
          PROVE  WorkOK(c)'
      BY <1>1, <2>3 DEF EntityArchive, RelationDissolve, Dispatch, Stamp, TypeInv, TypeOK
    <2>4. ASSUME NEW p \in Peers, NEW from, NEW to, RelationCreate(c, p, from, to) PROVE WorkOK(c)'
      BY <1>1, <2>4 DEF RelationCreate, Dispatch, Stamp, TypeInv, TypeOK
    <2> QED
      BY <1>4, <2>1, <2>2, <2>3, <2>4 DEF Enters
  <1>5. CASE UpdateGet(c)
    BY <1>1, <1>5 DEF UpdateGet, Abandon, TypeInv, TypeOK
  <1>6. CASE UpdateMerge(c)
    <2>1. msg[c].field \in Fields /\ work[c] \in EntityRow /\ msg[c].op = "entity.update"
      BY <1>1, <1>6 DEF UpdateMerge, TypeInv, HandlerOK
    <2>2. /\ pc'[c] = "append" /\ msg'[c] = msg[c] /\ stamp'[c] = clock + 1
          /\ work'[c] = Merged(work[c], msg[c].field, clock + 1)
      BY <1>1, <1>6 DEF UpdateMerge, Stamp, TypeInv, TypeOK
    <2>3. work'[c].data[msg[c].field] = clock + 1
      BY <2>1, <2>2 DEF Merged, EntityRow
    <2> QED
      BY <2>1, <2>2, <2>3
  <1>7. CASE AppendEvent(c)
    BY <1>1, <1>7 DEF AppendEvent, TypeInv, TypeOK
  <1> QED
    BY <1>1, <1>2, <1>3, <1>4, <1>5, <1>6, <1>7, RequestStep

\* The statement that ends a request finds its own event in the log.
LEMMA ProjectShows ==
    ASSUME ShownInv, NEW c \in Clients, Projects(c), reply'[c] = "ok",
           NEW e \in events, e.ts = stamp[c]
    PROVE  EventFact(c, e)
  <1> USE DEF ShownInv, EdgeInv, LogInv, TypeInv
  <1>1. pc[c] = "project" /\ Writing(c) /\ msg[c].op \in AllOps
    BY DEF Projects, UpsertEntity, ArchiveEntity, UpsertRelation, DissolveRelation, Writing,
       HandlerOK, Request
  <1>2. e = EventOf(c)
    <2>1. EventOf(c) \in events
      BY <1>1 DEF HandlersKnow, EventOK
    <2>2. EventOf(c).ts = stamp[c]
      BY DEF EventOf
    <2> QED
      BY <2>1, <2>2
  <1>3. e.type = EventTypeOf(msg[c].op) /\ e.row = work[c] /\ e.peer = msg[c].peer /\ e.id = msg[c].id
    BY <1>2 DEF EventOf
  <1>4. ASSUME e.type = "EntityCreated" PROVE e.row.by = c
    <2>1. msg[c].op = "entity.create"
      BY <1>1, <1>3, <1>4, OpOfEventType
    <2> QED
      BY <1>1, <1>3, <2>1 DEF HandlersKnow, CreateOK, Creating
  <1>5. ASSUME e.type = "EntityUpdated" PROVE e.row.data[msg[c].field] = stamp[c]
    <2>1. msg[c].op = "entity.update"
      BY <1>1, <1>3, <1>5, OpOfEventType
    <2> QED
      BY <1>1, <1>3, <2>1 DEF WorkOK
  <1>6. ASSUME e.type = "EntityArchived"
        PROVE  \E d \in events : d.type = "EntityCreated" /\ d.peer = e.peer /\ d.id = e.id
    <2>1. msg[c].op = "entity.archive"
      BY <1>1, <1>3, <1>6, OpOfEventType
    <2>2. ArchiveEntity(c)
      BY <2>1 DEF Projects, UpsertEntity, UpsertRelation, DissolveRelation
    <2>3. GetEntity(msg[c].peer, msg[c].id) # Nil
      BY <2>2 DEF ArchiveEntity, Abandon, TypeOK
    <2>4. msg[c].id \in Ids /\ entities[msg[c].id] # Nil /\ entities[msg[c].id].peer = msg[c].peer
      BY <2>3 DEF GetEntity
    <2> QED
      BY <1>3, <2>4 DEF LoggedBeforeProjected, EntityLogged, CreatedLogged
  <1> QED
    BY <1>4, <1>5, <1>6 DEF EventFact

\* Later events are of other times than that of an acknowledged write.
LEMMA NextReplies ==
    ASSUME ShownInv, [Next]_vars, NEW c \in Clients
    PROVE  ReplyOK(c)'
  <1> SUFFICES ASSUME reply'[c] = "ok", NEW e \in events', e.ts = stamp'[c]
               PROVE  EventFact(c, e)'
    BY DEF ReplyOK
  <1> USE DEF ShownInv, EdgeInv, LogInv
  <1>1. msg'[c] = msg[c] /\ stamp'[c] = stamp[c] /\ (reply[c] = "ok" \/ Projects(c))
    BY ReplyStep
  <1>2. EventFact(c, e) => EventFact(c, e)'
    BY <1>1, EventsGrow DEF EventFact
  <1>3. CASE reply[c] = "ok"
    <2>1. e \in events
      <3>1. SUFFICES ASSUME e \notin events PROVE FALSE
        OBVIOUS
      <3>2. PICK d \in Clients : AppendEvent(d) /\ e = EventOf(d)
        BY <3>1, EventStep
      <3>3. pc[d] = "append" /\ e.ts = stamp[d]
        BY <3>2 DEF AppendEvent, EventOf
      <3>4. \E b \in events : b.ts = stamp[c]
        BY <1>3 DEF Acked, Vouched, LoggedAt
      <3> QED
        BY <1>1, <3>3, <3>4 DEF Unlogged
    <2> QED
      BY <1>1, <1>2, <1>3, <2>1 DEF ReplyOK
  <1>4. CASE Projects(c)
    <2>1. events' = events
      BY <1>4 DEF Projects, UpsertEntity, ArchiveEntity, UpsertRelation, DissolveRelation
    <2> QED
      BY <1>1, <1>2, <1>4, <2>1, ProjectShows
  <1> QED
    BY <1>1, <1>3, <1>4

LEMMA ShownInvariant == Spec => []ShownInv
  <1>1. Init => EdgeInv
    BY InitLogInv, ClockAssumption DEF Init, EdgeInv, Unborn, Named, SeenRelations, Dissolving,
       Relating, Writing, Ids, Times
  <1>2. Init => ShownInv
    BY <1>1 DEF Init, ShownInv, Acked, Unlogged, WorkOK, Creating, Writing, ReplyOK
  <1>3. ShownInv /\ [Next]_vars => EdgeInv'
    BY NextTypeInv, NextStamps, NextHandlers, NextLogged, NextUnborn DEF ShownInv, EdgeInv, LogInv
  <1>4. ShownInv /\ [Next]_vars => ShownInv'
    BY <1>3, NextAcked, NextEventFacts, NextUnlogged, NextWork, NextReplies DEF ShownInv
  <1> QED
    BY <1>2, <1>4, PTL DEF Spec

\* The turn of the loop at the rank of an event that is alone there.
LEMMA TurnAt ==
    ASSUME NEW p, NEW log, LogOK(p, log), NEW e \in log, TextRank(e.ts) \in 1 .. MaxRank,
           \A d \in log : TextRank(d.ts) = TextRank(e.ts) => d = e
    PROVE  Replay(log)[TextRank(e.ts)] = FoldEvent(Replay(log)[TextRank(e.ts) - 1], e)
  <1> DEFINE k == TextRank(e.ts)
  <1>1. At(log, k) = {e}
    BY DEF At
  <1>2. Replay(log)[k] = Turn(log, Replay(log)[k - 1], k)
    BY ReplayIs
  <1>3. (CHOOSE d \in At(log, k) : TRUE) = e
    BY <1>1
  <1> HIDE DEF k
  <1>4. Turn(log, Replay(log)[k - 1], k) = FoldEvent(Replay(log)[k - 1], e)
    BY <1>1, <1>3 DEF Turn
  <1> QED
    BY <1>2, <1>4 DEF k

\* What no later event of the log takes from an entity, the loop does not take.
LEMMA LoopKeeps ==
    ASSUME NEW p, NEW log, LogOK(p, log), NEW i \in Ids, NEW Q,
           NEW k \in 0 .. MaxRank, Replay(log)[k][i] \in Q,
           \A s \in PeerRows(p), d \in log :
              k < TextRank(d.ts) /\ s[i] \in Q => FoldEvent(s, d)[i] \in Q
    PROVE  \A m \in k .. MaxRank : Replay(log)[m][i] \in Q
  <1> DEFINE g == Replay(log)
             P == {m \in 0 .. MaxRank : k <= m => g[m][i] \in Q}
  <1>1. \A r \in 1 .. MaxRank : g[r] = Turn(log, g[r - 1], r)
    BY ReplayIs
  <1>2. \A r \in 0 .. MaxRank : g[r] \in PeerRows(p)
    BY ReplayIs
  <1>3. g[k][i] \in Q /\ k \in Nat /\ MaxRank \in Nat
    BY MaxRankType
  <1> HIDE DEF g
  <1>4. 0 \in P
    BY <1>3
  <1>5. ASSUME NEW n \in 0 .. MaxRank, n + 1 \in 0 .. MaxRank, n \in P PROVE n + 1 \in P
    <2>1. CASE k <= n
      <3>1. g[n][i] \in Q /\ g[n] \in PeerRows(p)
        BY <1>2, <1>5, <2>1
      <3>2. n + 1 \in 1 .. MaxRank /\ n + 1 - 1 = n /\ k < n + 1
        BY <1>3, <1>5, <2>1
      <3>3. g[n + 1] = Turn(log, g[n], n + 1)
        BY <1>1, <3>2
      <3>4. CASE At(log, n + 1) = {}
        BY <1>5, <3>1, <3>3, <3>4 DEF Turn
      <3>5. CASE At(log, n + 1) # {}
        <4>1. PICK d : d = CHOOSE b \in At(log, n + 1) : TRUE
          OBVIOUS
        <4>2. d \in At(log, n + 1)
          BY <3>5, <4>1
        <4>3. d \in log /\ k < TextRank(d.ts)
          BY <3>2, <4>2 DEF At
        <4>4. g[n + 1] = FoldEvent(g[n], d)
          BY <3>3, <3>5, <4>1 DEF Turn
        <4>5. FoldEvent(g[n], d)[i] \in Q
          BY <3>1, <4>3
        <4> QED
          BY <1>5, <4>4, <4>5
      <3> QED
        BY <3>4, <3>5
    <2>2. CASE ~(k <= n)
      <3>1. CASE n + 1 = k
        BY <1>3, <1>5, <3>1
      <3>2. CASE n + 1 # k
        BY <1>3, <1>5, <2>2, <3>2
      <3> QED
        BY <3>1, <3>2
    <2> QED
      BY <2>1, <2>2
  <1> HIDE DEF P
  <1>6. \A n \in 0 .. MaxRank : n \in P
    <2>1. \A n \in 0 .. MaxRank : n + 1 \in 0 .. MaxRank /\ n \in P => n + 1 \in P
      BY <1>5
    <2> QED
      BY <1>3, <1>4, <2>1, Climb
  <1>7. ASSUME NEW m \in k .. MaxRank PROVE g[m][i] \in Q
    <2>1. m \in 0 .. MaxRank /\ k <= m
      BY <1>3
    <2> QED
      BY <1>6, <2>1 DEF P
  <1> QED
    BY <1>7 DEF g

\* The list that time travel folds up to t, and an event of an earlier second on it.
LEMMA OnTheList ==
    ASSUME ShownInv, NEW t \in AsOf, NEW e \in events, SecondOf(e.ts) < SecondOf(t)
    PROVE  /\ LogOK(e.peer, ListEvents(e.peer, t))
           /\ e \in ListEvents(e.peer, t)
           /\ TextRank(e.ts) \in 1 .. MaxRank
           /\ \A d \in ListEvents(e.peer, t) :
                /\ d.ts \in Nat /\ d.peer = e.peer
                /\ TextRank(d.ts) = TextRank(e.ts) => d = e
                /\ TextRank(e.ts) < TextRank(d.ts) =>
                     d # e /\ SecondOf(e.ts) <= SecondOf(d.ts) /\ SecondOf(d.ts) <= SecondOf(t)
  <1>1. \A d \in events : d.ts \in Ids /\ d.ts \in Nat /\ d \in Event /\ RowOK(d)
    BY ClockAssumption DEF ShownInv, EdgeInv, LogInv, TypeInv, TypeOK, EventFacts, Event, Ids
  <1>2. t \in Nat /\ TextRank(t) \in Nat /\ TextRank(e.ts) \in Nat
    BY <1>1, ClockAssumption, TicksAssumption, TextRankType DEF AsOf
  <1>3. TextRank(e.ts) < TextRank(t)
    BY <1>1, <1>2, TextRankSeconds
  <1>4. ASSUME NEW d \in ListEvents(e.peer, t)
        PROVE  /\ d \in events /\ d.peer = e.peer
               /\ TextRank(d.ts) = TextRank(e.ts) => d = e
               /\ TextRank(e.ts) < TextRank(d.ts) =>
                    d # e /\ SecondOf(e.ts) <= SecondOf(d.ts) /\ SecondOf(d.ts) <= SecondOf(t)
    <2>1. d \in events /\ d.peer = e.peer /\ TextRank(d.ts) <= TextRank(t)
      BY <1>4 DEF ListEvents
    <2>2. /\ TextRank(d.ts) \in Nat /\ SecondOf(d.ts) \in Nat
          /\ SecondOf(e.ts) \in Nat /\ SecondOf(t) \in Nat
      BY <1>1, <1>2, <2>1, TextRankType
    <2>3. TextRank(d.ts) = TextRank(e.ts) => d = e
      BY <1>1, <2>1, TextRankInjective DEF ShownInv
    <2>4. SecondOf(d.ts) < SecondOf(e.ts) => TextRank(d.ts) < TextRank(e.ts)
      BY <1>1, <2>1, TextRankSeconds
    <2>5. SecondOf(t) < SecondOf(d.ts) => TextRank(t) < TextRank(d.ts)
      BY <1>1, <1>2, <2>1, TextRankSeconds
    <2> QED
      BY <1>2, <2>1, <2>2, <2>3, <2>4, <2>5
  <1> QED
    BY <1>1, <1>2, <1>3, <1>4, RankInRange DEF LogOK, ListEvents

\* The fields of a create or an update are shown until the next ones are logged.
LEMMA ContentShown ==
    ASSUME ShownInv, NEW t \in AsOf, NEW e \in events, SecondOf(e.ts) < SecondOf(t),
           e.type \in Contents, ~Overtaken(e, Contents, t)
    PROVE  LET row == TimeTravel(e.peer, t)[e.id] IN
           /\ row # Nil /\ row.data = e.row.data
           /\ e.type = "EntityCreated" => row.by = e.row.by /\ row.created = e.row.created
  <1> DEFINE p == e.peer
             i == e.id
             log == ListEvents(e.peer, t)
             k == TextRank(e.ts)
             Q == {r \in EntityRow :
                     /\ r.data = e.row.data
                     /\ e.type = "EntityCreated" => r.by = e.row.by /\ r.created = e.row.created}
  <1>1. /\ LogOK(p, log) /\ e \in log /\ k \in 1 .. MaxRank /\ MaxRank \in Nat
        /\ \A d \in log : TextRank(d.ts) = TextRank(e.ts) => d = e
    BY OnTheList, MaxRankType
  <1>2. e.row \in EntityRow /\ i \in Ids /\ e.row \in Q
    BY DEF ShownInv, EventFacts, RowOK, Contents
  <1>3. \A d \in log : k < TextRank(d.ts) /\ d.id = i => d.type \notin Contents
    <2> SUFFICES ASSUME NEW d \in log, k < TextRank(d.ts), d.id = i, d.type \in Contents
                 PROVE  FALSE
      OBVIOUS
    <2>1. d \in events
      BY DEF ListEvents
    <2>2. d # e /\ d.peer = e.peer /\ SecondOf(e.ts) <= SecondOf(d.ts) /\ SecondOf(d.ts) <= SecondOf(t)
      BY OnTheList
    <2> QED
      BY <2>1, <2>2 DEF Overtaken
  <1> HIDE DEF log, k
  <1>4. ASSUME NEW s \in PeerRows(p), NEW d \in log, k < TextRank(d.ts), s[i] \in Q
        PROVE  FoldEvent(s, d)[i] \in Q
    <2>1. d \in Event /\ d.peer = p /\ RowOK(d)
      BY <1>1 DEF LogOK
    <2>2. FoldEvent(s, d) \in PeerRows(p) /\ Folded(s, d, FoldEvent(s, d))
      BY <2>1, FoldRows
    <2>3. s[i] \in EntityRow /\ s[i] # Nil /\ d.ts \in Times /\ d.type \in EventTypes
      BY <1>4, <2>1, NilAssumption, ClockAssumption DEF Rows, Event, Ids, Times
    <2>4. CASE d.id # i
      BY <1>2, <1>4, <2>2, <2>4 DEF Folded
    <2>5. CASE d.id = i /\ d.type = "EntityArchived"
      <3>1. FoldEvent(s, d)[i] = [s[i] EXCEPT !.archived = d.ts]
        BY <1>2, <2>2, <2>3, <2>5 DEF Folded
      <3> HIDE DEF Q
      <3>2. [s[i] EXCEPT !.archived = d.ts] \in Q
        BY <1>4, <2>3 DEF Q, EntityRow
      <3> QED
        BY <3>1, <3>2
    <2>6. CASE d.type \in {"RelationCreated", "RelationDissolved"}
      BY <1>4, <2>2, <2>6 DEF Folded
    <2> QED
      BY <1>3, <1>4, <2>3, <2>4, <2>5, <2>6 DEF EventTypes, Contents
  <1>5. Replay(log)[k][i] \in Q
    <2> DEFINE s == Replay(log)[k - 1]
    <2>1. s \in PeerRows(p)
      BY <1>1, ReplayIs
    <2>2. Replay(log)[k] = FoldEvent(s, e)
      BY <1>1, TurnAt DEF k
    <2> HIDE DEF s
    <2>3. e \in Event /\ RowOK(e)
      BY <1>1 DEF LogOK
    <2>4. FoldEvent(s, e) \in PeerRows(p) /\ Folded(s, e, FoldEvent(s, e))
      BY <2>1, <2>3, FoldRows
    <2>5. CASE e.type = "EntityCreated" \/ s[i] = Nil
      BY <1>2, <2>2, <2>4, <2>5 DEF Folded, Contents
    <2>6. CASE e.type = "EntityUpdated" /\ s[i] # Nil
      <3>1. s[i] \in EntityRow /\ e.ts \in Ids /\ e.row.data \in [Fields -> Times]
        BY <1>2, <2>1, <2>3, <2>6 DEF PeerRows, Event, EntityRow
      <3>2. FoldEvent(s, e)[i] = [s[i] EXCEPT !.data = e.row.data, !.updated = e.ts]
        BY <2>4, <2>6 DEF Folded
      <3>3. [s[i] EXCEPT !.data = e.row.data, !.updated = e.ts] \in EntityRow
        BY <3>1 DEF EntityRow
      <3>4. [s[i] EXCEPT !.data = e.row.data, !.updated = e.ts].data = e.row.data
        BY <3>1 DEF EntityRow
      <3> QED
        BY <2>2, <2>6, <3>2, <3>3, <3>4
    <2> QED
      BY <2>5, <2>6 DEF Contents
  <1> HIDE DEF Q
  <1>6. \A m \in k .. MaxRank : Replay(log)[m][i] \in Q
    BY <1>1, <1>2, <1>4, <1>5, LoopKeeps
  <1>7. FoldLog(p, log) = Replay(log)[MaxRank]
    BY <1>1, FoldLogIs
  <1>8. TimeTravel(e.peer, t)[e.id] \in Q
    BY <1>1, <1>6, <1>7 DEF TimeTravel, log
  <1> QED
    BY <1>8, NilAssumption DEF Q, Rows

\* The archival of an entity created in an earlier second is shown until the next.
LEMMA ArchivalShown ==
    ASSUME ShownInv, NEW t \in AsOf, NEW e \in events, SecondOf(e.ts) < SecondOf(t),
           e.type = "EntityArchived", ~Overtaken(e, {"EntityArchived"}, t),
           SecondOf(e.id) < SecondOf(e.ts),
           NEW b \in events, b.type = "EntityCreated", b.peer = e.peer, b.id = e.id
    PROVE  LET row == TimeTravel(e.peer, t)[e.id] IN row # Nil /\ row.archived = e.ts
  <1> DEFINE p == e.peer
             i == e.id
             log == ListEvents(e.peer, t)
             k == TextRank(e.ts)
             j == TextRank(b.ts)
             Q == {r \in EntityRow : r.archived = e.ts}
  <1>1. /\ LogOK(p, log) /\ e \in log /\ k \in 1 .. MaxRank /\ MaxRank \in Nat
        /\ \A d \in log : TextRank(d.ts) = TextRank(e.ts) => d = e
    BY OnTheList, MaxRankType
  <1>2. b.ts = i /\ i \in Ids /\ i \in Nat /\ e.ts \in Nat /\ b.row \in EntityRow
    BY ClockAssumption
       DEF ShownInv, EventFacts, RowOK, EdgeInv, LogInv, TypeInv, TypeOK, Event, Ids
  <1>3. j < k /\ j \in 1 .. MaxRank /\ j \in Nat /\ k \in Nat
    BY <1>1, <1>2, TextRankSeconds, RankInRange
  <1>4. b \in log /\ \A d \in log : TextRank(d.ts) = TextRank(b.ts) => d = b
    <2>1. /\ SecondOf(b.ts) \in Nat /\ SecondOf(e.ts) \in Nat /\ SecondOf(t) \in Nat
      BY <1>2, ClockAssumption, TicksAssumption, TextRankType DEF AsOf
    <2>2. SecondOf(b.ts) < SecondOf(t)
      BY <1>2, <2>1
    <2> QED
      BY <2>2, OnTheList
  <1>5. \A d \in log : k < TextRank(d.ts) /\ d.id = i => d.type \notin {"EntityCreated", "EntityArchived"}
    <2> SUFFICES ASSUME NEW d \in log, k < TextRank(d.ts), d.id = i,
                        d.type \in {"EntityCreated", "EntityArchived"}
                 PROVE  FALSE
      OBVIOUS
    <2>1. d \in events /\ EventFacts(d)
      BY DEF ListEvents, ShownInv
    <2>2. d # e /\ d.peer = e.peer /\ SecondOf(e.ts) <= SecondOf(d.ts) /\ SecondOf(d.ts) <= SecondOf(t)
      BY OnTheList
    <2>3. CASE d.type = "EntityArchived"
      BY <2>1, <2>2, <2>3 DEF Overtaken
    <2>4. CASE d.type = "EntityCreated"
      <3>1. TextRank(d.ts) = j
        BY <1>2, <2>1, <2>4 DEF EventFacts
      <3> QED
        BY <1>3, <3>1
    <2> QED
      BY <2>3, <2>4
  <1> HIDE DEF log, k, j
  <1>6. ASSUME NEW s \in PeerRows(p), NEW d \in log, s[i] \in EntityRow
        PROVE  /\ FoldEvent(s, d)[i] \in EntityRow
               /\ d.id = i /\ d.type = "EntityArchived" => FoldEvent(s, d)[i].archived = d.ts
               /\ d.id # i \/ d.type \notin {"EntityCreated", "EntityArchived"} =>
                    FoldEvent(s, d)[i].archived = s[i].archived
    <2>1. d \in Event /\ d.peer = p /\ RowOK(d)
      BY <1>1 DEF LogOK
    <2>2. FoldEvent(s, d) \in PeerRows(p) /\ Folded(s, d, FoldEvent(s, d))
      BY <2>1, FoldRows
    <2>3. s[i] # Nil /\ d.ts \in Ids /\ d.ts \in Times /\ d.type \in EventTypes
      BY <1>6, <2>1, NilAssumption, ClockAssumption DEF Rows, Event, Ids, Times
    <2>4. CASE d.id # i
      BY <1>2, <1>6, <2>2, <2>4 DEF Folded
    <2>5. CASE d.id = i /\ d.type = "EntityArchived"
      <3>1. FoldEvent(s, d)[i] = [s[i] EXCEPT !.archived = d.ts]
        BY <1>2, <2>2, <2>3, <2>5 DEF Folded
      <3>2. /\ [s[i] EXCEPT !.archived = d.ts] \in EntityRow
            /\ [s[i] EXCEPT !.archived = d.ts].archived = d.ts
        BY <1>6, <2>3 DEF EntityRow
      <3> QED
        BY <2>5, <3>1, <3>2
    <2>6. CASE d.id = i /\ d.type = "EntityCreated"
      <3>1. FoldEvent(s, d)[i] = d.row /\ d.row \in EntityRow
        BY <2>1, <2>2, <2>6 DEF Folded, RowOK
      <3> QED
        BY <2>6, <3>1
    <2>7. CASE d.id = i /\ d.type = "EntityUpdated"
      <3>1. d.row.data \in [Fields -> Times]
        BY <2>1, <2>7 DEF RowOK, EntityRow
      <3>2. FoldEvent(s, d)[i] = [s[i] EXCEPT !.data = d.row.data, !.updated = d.ts]
        BY <2>2, <2>3, <2>7 DEF Folded
      <3>3. /\ [s[i] EXCEPT !.data = d.row.data, !.updated = d.ts] \in EntityRow
            /\ [s[i] EXCEPT !.data = d.row.data, !.updated = d.ts].archived = s[i].archived
        BY <1>6, <2>3, <3>1 DEF EntityRow
      <3> QED
        BY <2>7, <3>2, <3>3
    <2>8. CASE d.type \in {"RelationCreated", "RelationDissolved"}
      BY <1>6, <2>2, <2>8 DEF Folded
    <2> QED
      BY <2>3, <2>4, <2>5, <2>6, <2>7, <2>8 DEF EventTypes
  <1>7. Replay(log)[j][i] \in EntityRow
    <2>1. j - 1 \in 0 .. MaxRank
      BY <1>1, <1>3
    <2>2. Replay(log)[j - 1] \in PeerRows(p)
      BY <1>1, <2>1, ReplayIs
    <2>3. Replay(log)[j] = FoldEvent(Replay(log)[j - 1], b)
      BY <1>1, <1>3, <1>4, TurnAt DEF j
    <2>4. b \in Event /\ b.peer = p /\ RowOK(b)
      BY <1>1, <1>4 DEF LogOK
    <2>5. Folded(Replay(log)[j - 1], b, FoldEvent(Replay(log)[j - 1], b))
      BY <2>2, <2>4, FoldRows
    <2> QED
      BY <1>2, <2>3, <2>5 DEF Folded
  <1>8. \A m \in j .. MaxRank : Replay(log)[m][i] \in EntityRow
    <2>1. \A s \in PeerRows(p), d \in log :
             j < TextRank(d.ts) /\ s[i] \in EntityRow => FoldEvent(s, d)[i] \in EntityRow
      BY <1>6
    <2>2. j \in 0 .. MaxRank
      BY <1>1, <1>3
    <2> QED
      BY <1>1, <1>2, <1>7, <2>1, <2>2, LoopKeeps
  <1>9. Replay(log)[k][i] \in Q
    <2>1. k - 1 \in j .. MaxRank /\ k - 1 \in 0 .. MaxRank
      BY <1>1, <1>3
    <2>2. Replay(log)[k - 1][i] \in EntityRow /\ Replay(log)[k - 1] \in PeerRows(p)
      BY <1>1, <1>8, <2>1, ReplayIs
    <2>3. Replay(log)[k] = FoldEvent(Replay(log)[k - 1], e)
      BY <1>1, TurnAt DEF k
    <2> QED
      BY <1>1, <1>6, <2>2, <2>3
  <1>10. \A s \in PeerRows(p), d \in log : k < TextRank(d.ts) /\ s[i] \in Q => FoldEvent(s, d)[i] \in Q
    <2> SUFFICES ASSUME NEW s \in PeerRows(p), NEW d \in log, k < TextRank(d.ts), s[i] \in Q
                 PROVE  FoldEvent(s, d)[i] \in Q
      OBVIOUS
    <2>1. d.id # i \/ d.type \notin {"EntityCreated", "EntityArchived"}
      BY <1>5
    <2> QED
      BY <1>6, <2>1
  <1> HIDE DEF Q
  <1>11. \A m \in k .. MaxRank : Replay(log)[m][i] \in Q
    BY <1>1, <1>2, <1>9, <1>10, LoopKeeps
  <1>12. FoldLog(p, log) = Replay(log)[MaxRank]
    BY <1>1, FoldLogIs
  <1>13. TimeTravel(e.peer, t)[e.id] \in Q
    BY <1>1, <1>11, <1>12 DEF TimeTravel, log
  <1> QED
    BY <1>13, NilAssumption DEF Q, Rows

\* A write that was answered "ok" is what coggo_time_travel shows from the next
\* second on until another one of the same columns is logged, though a stale upsert
\* may have undone it in the table: AppendEvent put it in the log under a time of
\* its own, and TimeTravelEntities folds it (opEntityUpdate, sqlite.go).
THEOREM AckedShown == Spec => []AckedWritesShown
  <1>1. ShownInv => AckedWritesShown
    <2> SUFFICES ASSUME ShownInv, NEW c \in Clients, NEW t \in AsOf, reply[c] = "ok",
                        SecondOf(stamp[c]) < SecondOf(t), NEW e \in events, e.ts = stamp[c]
                 PROVE  LET row == TimeTravel(e.peer, t)[e.id] IN
                        /\ e.type \in Contents /\ ~Overtaken(e, Contents, t) =>
                             /\ row # Nil
                             /\ \E f \in Fields : row.data[f] = stamp[c]
                             /\ e.type = "EntityCreated" => row.by = c /\ row.created = e.id
                             /\ e.type = "EntityUpdated" => row.data[msg[c].field] = stamp[c]
                        /\ e.type = "EntityArchived" /\ ~Overtaken(e, {"EntityArchived"}, t)
                           /\ SecondOf(e.id) < SecondOf(e.ts) =>
                             row # Nil /\ row.archived = stamp[c]
      BY DEF AckedWritesShown
    <2> DEFINE row == TimeTravel(e.peer, t)[e.id]
    <2>1. EventFact(c, e) /\ EventFacts(e)
      BY DEF ShownInv, ReplyOK
    <2>2. ASSUME e.type \in Contents, ~Overtaken(e, Contents, t)
          PROVE  /\ row # Nil
                 /\ \E f \in Fields : row.data[f] = stamp[c]
                 /\ e.type = "EntityCreated" => row.by = c /\ row.created = e.id
                 /\ e.type = "EntityUpdated" => row.data[msg[c].field] = stamp[c]
      <3>1. /\ row # Nil /\ row.data = e.row.data
            /\ e.type = "EntityCreated" => row.by = e.row.by /\ row.created = e.row.created
        BY <2>2, ContentShown
      <3> HIDE DEF row
      <3> QED
        BY <2>1, <2>2, <3>1 DEF EventFact, EventFacts
    <2>3. ASSUME e.type = "EntityArchived", ~Overtaken(e, {"EntityArchived"}, t),
                 SecondOf(e.id) < SecondOf(e.ts)
          PROVE  row # Nil /\ row.archived = stamp[c]
      <3>1. PICK b \in events : b.type = "EntityCreated" /\ b.peer = e.peer /\ b.id = e.id
        BY <2>1, <2>3 DEF EventFact
      <3> QED
        BY <2>3, <3>1, ArchivalShown
    <2> QED
      BY <2>2, <2>3
  <1> QED
    BY <1>1, ShownInvariant, PTL

=============================================================================
