----------------------------- MODULE StorePool -----------------------------
(***************************************************************************)
(* Requests over the one connection of the store (internal/store).         *)
(*                                                                         *)
(* New sets MaxOpenConns(1): a statement waits until the connection is     *)
(* free, an open cursor and an open transaction keep it.  SemanticSearch   *)
(* reads a cursor to its end, gives the connection back, and then looks up *)
(* each candidate with a statement of its own; UpsertEmbedding runs five   *)
(* statements in a transaction; every other operation of a handler is a    *)
(* run of single statements, here those of entity.archive and              *)
(* entity.update, each after the INSERT of its event.  A statement may     *)
(* fail, and the context of its request may be cancelled, at any point.    *)
(*                                                                         *)
(* Abstractions.  All searches use one query vector: the entities are      *)
(* numbered by distance from it (that of the vec0 table, which is declared *)
(* without a metric).  A group stands for a peer, or for a peer and a type *)
(* where a type filter is given: the loop over the candidates skips        *)
(* entities of another peer and of another type alike.  Of a row only      *)
(* archived_at is kept (the rest is Substrate's), of embedding_meta that   *)
(* there is a row, of the events which requests have logged theirs.        *)
(***************************************************************************)
EXTENDS Naturals, Sequences, FiniteSets

CONSTANTS
    Requests,       \* requests, each sent once
    Entities,       \* entity ids, by distance from the query vector: 1, 2, ...
    Groups,         \* peers, or pairs of a peer and a type
    GroupOf,        \* GroupOf[e]: where entity e belongs
    Limits,         \* the limits searches ask for; 0: none given
    DefaultLimit,   \* the limit of a search that gives none
    OverFetch,      \* candidates fetched per hit wanted
    MinFetch,       \* and at the least
    Nil             \* nobody holds the connection

ASSUME EntitiesAssumption == Entities \subseteq Nat /\ IsFiniteSet(Entities)
ASSUME GroupAssumption == GroupOf \in [Entities -> Groups]
ASSUME LimitAssumption ==
    /\ Limits \subseteq Nat /\ Limits # {}
    /\ {DefaultLimit, OverFetch, MinFetch} \subseteq Nat \ {0}
ASSUME NilAssumption == Nil \notin Requests

VARIABLES
    live,       \* entities: the ids that are not archived
    events,     \* events: the requests whose event is stored
    vectors,    \* entity_embeddings: the ids it has, committed
    meta,       \* embedding_meta: the ids it has, committed
    conn,       \* who holds the connection
    pc,         \* the next statement of each request
    arg,        \* what it asks for: the operation, a group and a limit, or an entity
    copy,       \* update: the row it has read is not archived
    cands,      \* search: candidates still to be looked up
    hits,       \* search: entities found
    txn,        \* embed: the tables as the transaction sees them
    start,      \* ghost: what was live since the search began, vectors at that moment
    quiet,      \* ghost: no row was changed since
    revived     \* ghost: entities that an update made live again

db == <<live, events, vectors, meta>>
poolVars == <<db, conn, pc, arg, copy, cands, hits, txn, start, quiet, revived>>

Ops == {"search", "embed", "archive", "update"}
Args == [op: Ops \cup {"none"}, group: Groups \cup {Nil}, limit: Limits,
         entity: Entities \cup {Nil}]
AnyLimit == CHOOSE n \in Limits : TRUE
SearchArg(g, n) == [op |-> "search", group |-> g, limit |-> n, entity |-> Nil]
EntityArg(op, e) == [op |-> op, group |-> Nil, limit |-> AnyLimit, entity |-> e]

\* A request that is at one of these has the connection.
Holding == {"scan", "delete.vector", "delete.meta", "insert.vector", "insert.meta", "commit"}

PoolTypeOK ==
    /\ live \subseteq Entities
    /\ events \subseteq Requests
    /\ vectors \subseteq Entities
    /\ meta \subseteq Entities
    /\ conn \in Requests \cup {Nil}
    /\ pc \in [Requests -> {"idle", "query", "hydrate", "begin", "get", "append", "archive",
                              "upsert", "ok", "error"} \cup Holding]
    /\ arg \in [Requests -> Args]
    /\ copy \in [Requests -> BOOLEAN]
    /\ cands \in [Requests -> Seq(Entities)]
    /\ hits \in [Requests -> Seq(Entities)]
    /\ txn \in [Requests -> [vectors: SUBSET Entities, meta: SUBSET Entities]]
    /\ start \in [Requests -> [live: SUBSET Entities, vectors: SUBSET Entities]]
    /\ quiet \in [Requests -> BOOLEAN]
    /\ revived \subseteq Entities

NoTxn == [vectors |-> {}, meta |-> {}]
NoStart == [live |-> {}, vectors |-> {}]

\* A database at rest, with any embeddings.
PoolInit ==
    /\ live = Entities
    /\ events = {}
    /\ vectors \in SUBSET Entities
    /\ meta = vectors
    /\ conn = Nil
    /\ pc = [r \in Requests |-> "idle"]
    /\ arg = [r \in Requests |-> EntityArg("none", Nil)]
    /\ copy = [r \in Requests |-> FALSE]
    /\ cands = [r \in Requests |-> <<>>]
    /\ hits = [r \in Requests |-> <<>>]
    /\ txn = [r \in Requests |-> NoTxn]
    /\ start = [r \in Requests |-> NoStart]
    /\ quiet = [r \in Requests |-> FALSE]
    /\ revived = {}

\* A request that the server has accepted and that has not come to its end.
Running(r) == pc[r] \notin {"idle", "ok", "error"}

Goto(r, where) == pc' = [pc EXCEPT ![r] = where]

\* A row that changes ends the quiet of every search.
Disturb == quiet' = [r \in Requests |-> FALSE]

Searching == {"query", "scan", "hydrate"}

-----------------------------------------------------------------------------
(***************************************************************************)
(* SemanticSearch.                                                         *)
(***************************************************************************)
Begin(r, where, a) ==
    /\ pc[r] = "idle"
    /\ Goto(r, where)
    /\ arg' = [arg EXCEPT ![r] = a]
    /\ UNCHANGED <<db, conn, copy, cands, hits, txn, revived>>

BeginSearch(r, g, n) ==
    /\ Begin(r, "query", SearchArg(g, n))
    /\ start' = [start EXCEPT ![r] = [live |-> live, vectors |-> vectors]]
    /\ quiet' = [quiet EXCEPT ![r] = TRUE]

\* if limit <= 0 { limit = 10 }
Limit(r) == IF arg[r].limit = 0 THEN DefaultLimit ELSE arg[r].limit

\* Mutant: as many candidates as hits.
FetchExact(n) == n

\* k := limit * 4; if k < 16 { k = 16 }
Fetch(n) == IF n * OverFetch < MinFetch THEN MinFetch ELSE n * OverFetch

\* The n nearest of a set of entities, nearest first: the k-th has k of the set no
\* farther than it is.
Place(e, S) == Cardinality({f \in S : f <= e})
Nearest(n, S) ==
    [k \in 1 .. (IF n < Cardinality(S) THEN n ELSE Cardinality(S)) |->
        CHOOSE e \in S : Place(e, S) = k]

\* QueryContext of the KNN query: it waits for the connection, then has the rows
\* of that moment.
Query(r) ==
    /\ pc[r] = "query"
    /\ conn = Nil
    /\ conn' = r
    /\ cands' = [cands EXCEPT ![r] = Nearest(Fetch(Limit(r)), vectors)]
    /\ Goto(r, "scan")
    /\ UNCHANGED <<db, arg, copy, hits, txn, start, quiet, revived>>

\* Mutant: the candidates are looked up inside the loop over the rows.
ScanKeeps(r) ==
    /\ pc[r] = "scan"
    /\ Goto(r, "hydrate")
    /\ UNCHANGED <<db, conn, arg, copy, cands, hits, txn, start, quiet, revived>>

\* The loop over the rows: its last Next closes them.
Scan(r) ==
    /\ pc[r] = "scan"
    /\ conn' = Nil
    /\ Goto(r, "hydrate")
    /\ UNCHANGED <<db, arg, copy, cands, hits, txn, start, quiet, revived>>

\* Mutant: archived entities are hits like any other.
WantedArchived(r, e) == GroupOf[e] = arg[r].group

\* The candidate is the peer's, of the type asked for, and not archived.
Wanted(r, e) == GroupOf[e] = arg[r].group /\ e \in live

\* GetEntity of the next candidate, a statement of its own, and the filters.
Hydrate(r) ==
    LET found == IF Wanted(r, Head(cands[r])) THEN Append(hits[r], Head(cands[r])) ELSE hits[r] IN
    /\ pc[r] = "hydrate"
    /\ \/ /\ cands[r] = <<>>
          /\ Goto(r, "ok")
          /\ UNCHANGED <<cands, hits>>
       \/ /\ cands[r] # <<>>
          /\ conn = Nil
          /\ hits' = [hits EXCEPT ![r] = found]
          /\ cands' = [cands EXCEPT ![r] = Tail(@)]
          /\ Goto(r, IF Len(found) >= Limit(r) THEN "ok" ELSE "hydrate")
    /\ UNCHANGED <<db, conn, arg, copy, txn, start, quiet, revived>>

-----------------------------------------------------------------------------
(***************************************************************************)
(* UpsertEmbedding.                                                        *)
(***************************************************************************)
BeginEmbed(r, e) ==
    /\ Begin(r, "begin", EntityArg("embed", e))
    /\ UNCHANGED <<start, quiet>>

\* BeginTx waits for the connection and keeps it until Commit or Rollback.
BeginTx(r) ==
    /\ pc[r] = "begin"
    /\ conn = Nil
    /\ conn' = r
    /\ txn' = [txn EXCEPT ![r] = [vectors |-> vectors, meta |-> meta]]
    /\ Goto(r, "delete.vector")
    /\ UNCHANGED <<db, arg, copy, cands, hits, start, quiet, revived>>

\* The statements of the transaction: what each does to the tables it sees.
Written(r) ==
    LET e == arg[r].entity t == txn[r] IN
    CASE pc[r] = "delete.vector" -> [vectors |-> t.vectors \ {e}, meta |-> t.meta]
      [] pc[r] = "delete.meta"   -> [vectors |-> t.vectors, meta |-> t.meta \ {e}]
      [] pc[r] = "insert.vector" -> [vectors |-> t.vectors \cup {e}, meta |-> t.meta]
      [] pc[r] = "insert.meta"   -> [vectors |-> t.vectors, meta |-> t.meta \cup {e}]

AfterStatement(where) ==
    CASE where = "delete.vector" -> "delete.meta"
      [] where = "delete.meta"   -> "insert.vector"
      [] where = "insert.vector" -> "insert.meta"
      [] where = "insert.meta"   -> "commit"

\* tx.ExecContext: DELETE, DELETE, INSERT, INSERT.
TxExec(r) ==
    /\ pc[r] \in Holding \ {"scan", "commit"}
    /\ txn' = [txn EXCEPT ![r] = Written(r)]
    /\ Goto(r, AfterStatement(pc[r]))
    /\ UNCHANGED <<db, conn, arg, copy, cands, hits, start, quiet, revived>>

\* Mutant: success is reported and the deferred Rollback undoes the work.
CommitForgotten(r) ==
    /\ pc[r] = "commit"
    /\ conn' = Nil
    /\ txn' = [txn EXCEPT ![r] = NoTxn]
    /\ Goto(r, "ok")
    /\ UNCHANGED <<db, arg, copy, cands, hits, start, quiet, revived>>

\* tx.Commit publishes both tables and frees the connection.
Commit(r) ==
    /\ pc[r] = "commit"
    /\ vectors' = txn[r].vectors
    /\ meta' = txn[r].meta
    /\ Disturb
    /\ conn' = Nil
    /\ txn' = [txn EXCEPT ![r] = NoTxn]
    /\ Goto(r, "ok")
    /\ UNCHANGED <<live, events, arg, copy, cands, hits, start, revived>>

-----------------------------------------------------------------------------
(***************************************************************************)
(* entity.archive and entity.update.                                       *)
(***************************************************************************)
BeginArchive(r, e) ==
    /\ Begin(r, "append", EntityArg("archive", e))
    /\ UNCHANGED <<start, quiet>>

BeginUpdate(r, e) ==
    /\ Begin(r, "get", EntityArg("update", e))
    /\ UNCHANGED <<start, quiet>>

\* QueryRowContext of GetEntity: the row with its archived_at.
GetEntity(r) ==
    /\ pc[r] = "get"
    /\ conn = Nil
    /\ copy' = [copy EXCEPT ![r] = arg[r].entity \in live]
    /\ Goto(r, "append")
    /\ UNCHANGED <<db, conn, arg, cands, hits, txn, start, quiet, revived>>

\* ExecContext of a single INSERT: takes the connection and gives it back.
AppendEvent(r) ==
    /\ pc[r] = "append"
    /\ conn = Nil
    /\ events' = events \cup {r}
    /\ Goto(r, IF arg[r].op = "archive" THEN "archive" ELSE "upsert")
    /\ UNCHANGED <<live, vectors, meta, conn, arg, copy, cands, hits, txn, start, quiet, revived>>

\* ArchiveEntity, a single UPDATE.
Archive(r) ==
    /\ pc[r] = "archive"
    /\ conn = Nil
    /\ live' = live \ {arg[r].entity}
    /\ Disturb
    /\ Goto(r, "ok")
    /\ UNCHANGED <<events, vectors, meta, conn, arg, copy, cands, hits, txn, start, revived>>

\* UpsertEntity replaces the row, archived_at too, by the copy: an archival since
\* GetEntity is undone.
Upsert(r) ==
    LET e == arg[r].entity IN
    /\ pc[r] = "upsert"
    /\ conn = Nil
    /\ live' = IF copy[r] THEN live \cup {e} ELSE live \ {e}
    /\ revived' = IF copy[r] /\ e \notin live THEN revived \cup {e} ELSE revived
    /\ start' = [s \in Requests |->
                    IF pc[s] \in Searching THEN [start[s] EXCEPT !.live = @ \cup live'] ELSE start[s]]
    /\ Disturb
    /\ Goto(r, "ok")
    /\ UNCHANGED <<events, vectors, meta, conn, arg, copy, cands, hits, txn>>

-----------------------------------------------------------------------------
(***************************************************************************)
(* Requests end.                                                           *)
(***************************************************************************)
\* The handler has returned: its variables are gone, and what the ghosts say.
Forget(R) ==
    /\ copy' = [r \in Requests |-> IF r \in R THEN FALSE ELSE copy[r]]
    /\ cands' = [r \in Requests |-> IF r \in R THEN <<>> ELSE cands[r]]
    /\ hits' = [r \in Requests |-> IF r \in R THEN <<>> ELSE hits[r]]
    /\ start' = [r \in Requests |-> IF r \in R THEN NoStart ELSE start[r]]
    /\ quiet' = [r \in Requests |-> IF r \in R THEN FALSE ELSE quiet[r]]

\* Mutant: the deferred Close and Rollback are missing.
FailLeaks(r) ==
    /\ Running(r)
    /\ Goto(r, "error")
    /\ txn' = [txn EXCEPT ![r] = NoTxn]
    /\ Forget({r})
    /\ UNCHANGED <<db, conn, arg, revived>>

\* Mutant: the deferred call commits.
FailCommits(r) ==
    /\ Running(r)
    /\ Goto(r, "error")
    /\ vectors' = IF pc[r] \in Holding \ {"scan"} THEN txn[r].vectors ELSE vectors
    /\ meta' = IF pc[r] \in Holding \ {"scan"} THEN txn[r].meta ELSE meta
    /\ txn' = [txn EXCEPT ![r] = NoTxn]
    /\ conn' = IF conn = r THEN Nil ELSE conn
    /\ Forget({r})
    /\ UNCHANGED <<live, events, arg, revived>>

\* A statement fails, or the request's context is cancelled while it runs or
\* waits: the deferred rows.Close or tx.Rollback frees the connection.
Fail(r) ==
    /\ Running(r)
    /\ Goto(r, "error")
    /\ txn' = [txn EXCEPT ![r] = NoTxn]
    /\ conn' = IF conn = r THEN Nil ELSE conn
    /\ Forget({r})
    /\ UNCHANGED <<db, arg, revived>>

\* The process is gone: what was not committed is lost.
PoolReset ==
    /\ conn' = Nil
    /\ pc' = [r \in Requests |-> IF Running(r) THEN "error" ELSE pc[r]]
    /\ txn' = [r \in Requests |-> NoTxn]
    /\ Forget(Requests)
    /\ UNCHANGED <<db, arg, revived>>

\* The answer of the handler is on its way.
Return(r) ==
    /\ pc[r] \in {"ok", "error"}
    /\ Forget({r})
    /\ UNCHANGED <<db, conn, pc, arg, txn, revived>>

\* The next statement of the request is one that waits for the connection.
NeedsConn(r) ==
    \/ pc[r] \in {"query", "begin", "get", "append", "archive", "upsert"}
    \/ pc[r] = "hydrate" /\ cands[r] # <<>>

Accept(r) ==
    \/ \E g \in Groups, n \in Limits : BeginSearch(r, g, n)
    \/ \E e \in Entities : BeginEmbed(r, e) \/ BeginArchive(r, e) \/ BeginUpdate(r, e)

Step(r) ==
    \/ Query(r) \/ Scan(r) \/ Hydrate(r)
    \/ BeginTx(r) \/ TxExec(r) \/ Commit(r)
    \/ GetEntity(r) \/ AppendEvent(r) \/ Archive(r) \/ Upsert(r)

\* The store by itself, in a process that may die at any time.
PoolNext ==
    \/ \E r \in Requests : Accept(r) \/ Step(r) \/ Fail(r) \/ Return(r)
    \/ PoolReset

PoolSpec == PoolInit /\ [][PoolNext]_poolVars

-----------------------------------------------------------------------------
(***************************************************************************)
(* Properties of the store.                                                *)
(***************************************************************************)

\* A vector has its row in embedding_meta and the other way round, whichever
\* statement of UpsertEmbedding failed, was cancelled or was the last.
EmbeddingsPaired == vectors = meta

\* What SemanticSearch returns is right, whatever is written while it looks up its
\* candidates one by one: entities of the peer it asked for, nearest first, no
\* more than the limit, and each was live at some moment since the search began
\* (an update may have brought it back).
SearchSound ==
    \A r \in Requests :
        /\ Len(hits[r]) <= Limit(r)
        /\ \A i \in DOMAIN hits[r] :
              /\ GroupOf[hits[r][i]] = arg[r].group
              /\ hits[r][i] \in start[r].live
              /\ \A j \in 1 .. i - 1 : hits[r][j] < hits[r][i]

\* What a search that no write overlaps could return, and what stands in its way.
Targets(r) == {e \in start[r].vectors \cap start[r].live : GroupOf[e] = arg[r].group}
Others(r) == start[r].vectors \ Targets(r)

Undisturbed(r) == pc[r] = "ok" /\ quiet[r]

\* A search that no write overlaps returns the nearest of its peer up to the limit, as
\* long as the vectors of others and the archived do not use up the candidates
\* fetched beyond the limit.
SearchTopLimit ==
    \A r \in Requests :
        /\ Undisturbed(r)
        /\ \/ Cardinality(Others(r)) + Limit(r) <= MinFetch
           \/ Cardinality(Others(r)) + Limit(r) <= OverFetch * Limit(r)
        => hits[r] = Nearest(Limit(r), Targets(r))

\* SemanticSearch returns what it should while other requests write and the process
\* dies, and the state it runs over keeps its types.
SearchRight == PoolTypeOK /\ SearchSound /\ SearchTopLimit

=============================================================================
