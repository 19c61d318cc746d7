---------------------------- MODULE TypeResolver ----------------------------
(***************************************************************************)
(* User-defined types.  A definition lives twice: in the resolver of the   *)
(* process that took the type.define message (internal/schema/resolver.go) *)
(* and, as an entity of type EntityTypeDefinition, in the store.  The      *)
(* handler (opTypeDefine) registers it in memory first, then appends its   *)
(* event, then writes the entity; Setup (internal/cli/runtime.go) fills a  *)
(* new process's resolver from the seeds and the stored entities.  The     *)
(* command that made the peer stores the seeds one at a time, and may fail *)
(* or be killed before, between or after them: nothing ever resumes it.    *)
(*                                                                         *)
(* One peer and one kind of type: entity and relationship types are held   *)
(* in two maps and two entity types, and treated alike.  A definition is   *)
(* named by the reading of the clock that dates it.                        *)
(***************************************************************************)
EXTENDS Naturals, FiniteSets, FiniteSetsExt

CONSTANTS
    Procs,      \* processes over the same database
    Handlers,   \* goroutines serving type.define messages
    ProcOf,     \* ProcOf[h]: the process handler h runs in
    Names,      \* type names
    Seeds,      \* the names schema.SeedEntityTypes defines
    Limit,      \* QueryEntities' default limit (50 in the code)
    Faults,     \* "statement", "query", "crash"
    MaxDefs     \* bound: how many definitions are made

ASSUME ProcOfAssumption == ProcOf \in [Handlers -> Procs]
ASSUME SeedsAssumption == Seeds \subseteq Names /\ Seeds # {} /\ IsFiniteSet(Seeds)
ASSUME LimitAssumption == Limit \in Nat \ {0}
ASSUME FaultsAssumption == Faults \subseteq {"statement", "query", "crash"}
ASSUME DefsAssumption == MaxDefs \in Nat

Undefined == 0
SeedDef == 1                    \* the built-in definition of a seed
Defs == 0 .. MaxDefs + 1        \* and the clock readings of the others

\* An EntityTypeDefinition entity: its name, its definition, its created_at.
Row == [name: Names, def: Defs, at: Defs]

VARIABLES
    clock,      \* the last reading of time.Now()
    log,        \* the EntityTypeDefined events
    rows,       \* the EntityTypeDefinition entities
    up,         \* up[p]: process p has been set up
    resolver,   \* resolver[p][n]: what p's Resolver holds for n
    pc,         \* where each handler's type.define is
    hold,       \* the row it is writing
    acked,      \* acked[n]: the last definition of n answered with success
    used,       \* the types of the entities created so far
    whole,      \* whole[p]: p's rehydration query succeeded
    failed      \* the names some type.define of which failed or was lost

vars == <<clock, log, rows, up, resolver, pc, hold, acked, used, whole, failed>>

TypeOK ==
    /\ clock \in Defs
    /\ log \subseteq Row
    /\ rows \subseteq Row
    /\ up \in [Procs -> BOOLEAN]
    /\ resolver \in [Procs -> [Names -> Defs]]
    /\ pc \in [Handlers -> {"idle", "register", "append", "upsert"}]
    /\ hold \in [Handlers -> Row]
    /\ acked \in [Names -> Defs]
    /\ used \subseteq Names
    /\ whole \in [Procs -> BOOLEAN]
    /\ failed \subseteq Names

Nothing == [n \in Names |-> Undefined]
SeedsOnly == [n \in Names |-> IF n \in Seeds THEN SeedDef ELSE Undefined]
NoHold == [name |-> CHOOSE n \in Names : TRUE, def |-> Undefined, at |-> 0]

\* The peer is in peers.json, and AddPeerToRuntime is about to store its seeds.
Init ==
    /\ clock = SeedDef
    /\ rows = {}
    /\ log = {}
    /\ up = [p \in Procs |-> FALSE]
    /\ resolver = [p \in Procs |-> Nothing]
    /\ pc = [h \in Handlers |-> "idle"]
    /\ hold = [h \in Handlers |-> NoHold]
    /\ acked = Nothing
    /\ used = {}
    /\ whole = [p \in Procs |-> FALSE]
    /\ failed = {}

-----------------------------------------------------------------------------
\* AddPeerToRuntime, in the command that made the peer, logs the next seed with a
\* time stamp of its own: the last one's entity is stored.  That it fails or is
\* killed is that no further step of it is taken.
LogSeed(n) ==
    /\ clock <= MaxDefs
    /\ \A r \in log : r.def = SeedDef => r \in rows /\ r.name # n
    /\ clock' = clock + 1
    /\ log' = log \cup {[name |-> n, def |-> SeedDef, at |-> clock + 1]}
    /\ UNCHANGED <<rows, up, resolver, pc, hold, acked, used, whole, failed>>

\* ... and stores its entity.
StoreSeed(r) ==
    /\ r.def = SeedDef /\ r \notin rows
    /\ rows' = rows \cup {r}
    /\ UNCHANGED <<clock, log, up, resolver, pc, hold, acked, used, whole, failed>>

\* QueryEntities(EntityTypeDefinition): ORDER BY created_at DESC LIMIT.
Newest == {r \in rows : Cardinality({s \in rows : s.at > r.at}) < Limit}

\* Setup registers the seeds, then each row in that order: of several rows with
\* one name the last to be registered, which is the oldest, remains.
Rehydrated ==
    [n \in Names |->
        LET mine == {r \in Newest : r.name = n}
            oldest == Min({r.at : r \in mine})
        IN  IF mine = {} THEN SeedsOnly[n]
            ELSE (CHOOSE r \in mine : r.at = oldest).def]

\* Setup.  An error of QueryEntities is ignored: the seeds are all there is.
Setup(p) ==
    /\ ~up[p]
    /\ up' = [up EXCEPT ![p] = TRUE]
    /\ \/ /\ resolver' = [resolver EXCEPT ![p] = Rehydrated]
          /\ whole' = [whole EXCEPT ![p] = TRUE]
       \/ /\ "query" \in Faults
          /\ resolver' = [resolver EXCEPT ![p] = SeedsOnly]
          /\ whole' = [whole EXCEPT ![p] = FALSE]
    /\ UNCHANGED <<clock, log, rows, pc, hold, acked, used, failed>>

\* opTypeDefine takes its time stamp.
Define(h, n) ==
    /\ up[ProcOf[h]]
    /\ pc[h] = "idle"
    /\ clock <= MaxDefs
    /\ clock' = clock + 1
    /\ hold' = [hold EXCEPT ![h] = [name |-> n, def |-> clock + 1, at |-> clock + 1]]
    /\ pc' = [pc EXCEPT ![h] = "register"]
    /\ UNCHANGED <<log, rows, up, resolver, acked, used, whole, failed>>

\* Mutant: the resolver is left for the next restart to fill.
RegisterNothing(h) ==
    /\ pc[h] = "register"
    /\ pc' = [pc EXCEPT ![h] = "append"]
    /\ UNCHANGED <<clock, log, rows, up, resolver, hold, acked, used, whole, failed>>

\* RegisterEntityType: before anything is stored.
Register(h) ==
    /\ pc[h] = "register"
    /\ resolver' = [resolver EXCEPT ![ProcOf[h]][hold[h].name] = hold[h].def]
    /\ pc' = [pc EXCEPT ![h] = "append"]
    /\ UNCHANGED <<clock, log, rows, up, hold, acked, used, whole, failed>>

\* Mutant: no event is logged.
AppendNothing(h) ==
    /\ pc[h] = "append"
    /\ pc' = [pc EXCEPT ![h] = "upsert"]
    /\ UNCHANGED <<clock, log, rows, up, resolver, hold, acked, used, whole, failed>>

\* AppendEvent(EntityTypeDefined).
Append(h) ==
    /\ pc[h] = "append"
    /\ log' = log \cup {hold[h]}
    /\ pc' = [pc EXCEPT ![h] = "upsert"]
    /\ UNCHANGED <<clock, rows, up, resolver, hold, acked, used, whole, failed>>

\* Mutant: the definition is logged and never stored.
UpsertNothing(h) ==
    /\ pc[h] = "upsert"
    /\ acked' = [acked EXCEPT ![hold[h].name] = hold[h].def]
    /\ pc' = [pc EXCEPT ![h] = "idle"]
    /\ hold' = [hold EXCEPT ![h] = NoHold]
    /\ UNCHANGED <<clock, log, rows, up, resolver, used, whole, failed>>

\* UpsertEntity, and the answer.
Upsert(h) ==
    /\ pc[h] = "upsert"
    /\ rows' = rows \cup {hold[h]}
    /\ acked' = [acked EXCEPT ![hold[h].name] = hold[h].def]
    /\ pc' = [pc EXCEPT ![h] = "idle"]
    /\ hold' = [hold EXCEPT ![h] = NoHold]
    /\ UNCHANGED <<clock, log, up, resolver, used, whole, failed>>

\* A statement fails: an error is the answer, and the resolver keeps the type.
StatementFails(h) ==
    /\ "statement" \in Faults
    /\ pc[h] \in {"append", "upsert"}
    /\ pc' = [pc EXCEPT ![h] = "idle"]
    /\ failed' = failed \cup {hold[h].name}
    /\ hold' = [hold EXCEPT ![h] = NoHold]
    /\ UNCHANGED <<clock, log, rows, up, resolver, acked, used, whole>>

\* opEntityCreate in process p: the type resolves, so the entity is stored.
CreateEntity(p, n) ==
    /\ up[p]
    /\ resolver[p][n] # Undefined
    /\ used' = used \cup {n}
    /\ UNCHANGED <<clock, log, rows, up, resolver, pc, hold, acked, whole, failed>>

\* The process ends; only a crash interrupts a handler.
Exit(p) ==
    LET mine == {h \in Handlers : ProcOf[h] = p} IN
    /\ up[p]
    /\ "crash" \in Faults \/ \A h \in mine : pc[h] = "idle"
    /\ up' = [up EXCEPT ![p] = FALSE]
    /\ resolver' = [resolver EXCEPT ![p] = Nothing]
    /\ pc' = [h \in Handlers |-> IF h \in mine THEN "idle" ELSE pc[h]]
    /\ hold' = [h \in Handlers |-> IF h \in mine THEN NoHold ELSE hold[h]]
    /\ failed' = failed \cup {hold[h].name : h \in {g \in mine : pc[g] # "idle"}}
    /\ whole' = [whole EXCEPT ![p] = FALSE]
    /\ UNCHANGED <<clock, log, rows, acked, used>>

Next ==
    \/ \E p \in Procs : \/ Setup(p) \/ Exit(p)
                        \/ \E n \in Names : CreateEntity(p, n)
    \/ \E h \in Handlers : \/ \E n \in Names : Define(h, n)
                           \/ Register(h) \/ Append(h) \/ Upsert(h)
                           \/ StatementFails(h)
    \/ \E n \in Seeds : LogSeed(n)
    \/ \E r \in log : StoreSeed(r)

Spec == Init /\ [][Next]_vars

-----------------------------------------------------------------------------
(***************************************************************************)
(* Properties.                                                             *)
(***************************************************************************)

\* The definitions of a name that are logged or being made.
Attempts(n) == {r.def : r \in {q \in log \cup {hold[h] : h \in Handlers} : q.name = n}} \ {Undefined}

\* Definitions "are rehydrated into the resolver so user-defined types survive
\* restarts" (runtime.go): every running process whose rehydration query went
\* through resolves a name to the definition acknowledged for it, as long as the
\* name was defined once (of two rows the oldest wins after a restart) and the
\* query returns every row (it asks for the default limit, newest first).
DefinitionsVisible ==
    \A p \in Procs, n \in Names :
        /\ up[p] /\ whole[p] /\ acked[n] # Undefined
        /\ Cardinality(Attempts(n)) = 1 /\ n \notin failed
        /\ Cardinality(rows) <= Limit
        => resolver[p][n] = acked[n]

\* No entity is left behind without its type: the type of every entity ever
\* created is stored, or on its way to the store, or its definition failed, and
\* whoever made it was told so or lost the connection.  The seeds are built in:
\* Setup registers them even when AddPeerToRuntime died before it stored them.
UsedTypesStored ==
    \A n \in used : \/ n \in Seeds
                    \/ \E r \in rows : r.name = n
                    \/ \E h \in Handlers : /\ pc[h] \in {"append", "upsert"}
                                           /\ hold[h].name = n
                    \/ n \in failed

\* A stored definition was logged first, with the same date.
TypeLoggedFirst == rows \subseteq log

=============================================================================
