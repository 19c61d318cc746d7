--------------------------- MODULE ServingProofs ---------------------------
(***************************************************************************)
(* Proofs about Serving, for every number of requests, entities and peers. *)
(*                                                                         *)
(* The store comes first.  Its one connection is a lock: whoever scans a   *)
(* cursor or has a transaction open holds it, so a transaction sees the    *)
(* tables as they are and its commit overwrites nothing.  Then the two     *)
(* processes: a handler runs only for a request that coggo has, and coggo  *)
(* closes its store under none but those counted as struck.                *)
(* Last, the searches: what they have found and have still to look up.     *)
(***************************************************************************)
EXTENDS Serving, FiniteSetTheorems, TLAPS

InTx == Holding \ {"scan"}
Writing == {"get", "append", "archive", "upsert"}

PoolTyped ==
    /\ conn \in Requests \cup {Nil}
    /\ pc \in [Requests -> {"idle", "ok", "error", "begin"} \cup Writing \cup Searching \cup InTx]
    /\ arg \in [Requests -> Args]
    /\ copy \in [Requests -> BOOLEAN]
    /\ events \subseteq Requests /\ revived \subseteq Entities
    /\ txn \in [Requests -> [vectors: SUBSET Entities, meta: SUBSET Entities]]
    /\ vectors \subseteq Entities /\ meta \subseteq Entities

\* Who is at a statement that needs the connection kept has it, and nobody else.
Locked == \A r \in Requests : conn = r <=> pc[r] \in Holding

\* Each operation is at its own statements, with its own arguments.
ArgsOK ==
    \A r \in Requests :
        /\ pc[r] \in Searching => arg[r].op = "search"
        /\ pc[r] \in InTx \cup {"begin"} => arg[r].op = "embed"
        /\ pc[r] \in {"get", "upsert"} => arg[r].op = "update"
        /\ pc[r] = "archive" => arg[r].op = "archive"
        /\ pc[r] = "append" => arg[r].op \in {"archive", "update"}
        /\ pc[r] \in InTx \cup {"begin"} \cup Writing => arg[r].entity \in Entities
        /\ pc[r] \in {"archive", "upsert"} => r \in events

\* What a transaction has made of the tables, statement by statement.
TxnOK ==
    \A r \in Requests :
        LET e == arg[r].entity t == txn[r] IN
        /\ pc[r] = "delete.vector" => t.vectors = vectors /\ t.meta = meta
        /\ pc[r] = "delete.meta" => t.vectors = vectors \ {e} /\ t.meta = meta
        /\ pc[r] = "insert.vector" => t.vectors = vectors \ {e} /\ t.meta = meta \ {e}
        /\ pc[r] = "insert.meta" => t.vectors = vectors \cup {e} /\ t.meta = meta \ {e}
        /\ pc[r] = "commit" => t.vectors = vectors \cup {e} /\ t.meta = meta \cup {e}

\* A handler that succeeded has done what it was asked for.
DoneOK ==
    \A r \in Requests : pc[r] = "ok" =>
        LET e == arg[r].entity IN
        /\ arg[r].op \in {"archive", "update"} => r \in events
        /\ arg[r].op = "archive" => e \notin live \/ e \in revived
        /\ arg[r].op = "embed" => e \in vectors \cap meta

PoolInv == PoolTyped /\ Locked /\ ArgsOK /\ TxnOK /\ EmbeddingsPaired /\ DoneOK

-----------------------------------------------------------------------------
\* The arguments of the kinds of request.
LEMMA ArgTypes ==
    /\ \A g \in Groups, n \in Limits : SearchArg(g, n) \in Args /\ SearchArg(g, n).op = "search"
    /\ \A op \in Ops \cup {"none"}, e \in Entities \cup {Nil} :
          /\ EntityArg(op, e) \in Args
          /\ EntityArg(op, e).op = op /\ EntityArg(op, e).entity = e
  <1>1. AnyLimit \in Limits
    BY LimitAssumption DEF AnyLimit
  <1> QED
    BY <1>1 DEF SearchArg, EntityArg, Args, Ops

\* A store at rest satisfies the invariant.
LEMMA InitPoolInv == PoolInit => PoolInv
  BY ArgTypes, NilAssumption DEF PoolInit, PoolInv, PoolTyped, Locked, ArgsOK, TxnOK, DoneOK,
     EmbeddingsPaired, Holding, Searching, InTx, Writing, NoTxn, Ops

\* A request begins.
LEMMA AcceptPool ==
    ASSUME PoolInv, NEW r \in Requests, Accept(r)
    PROVE  PoolInv'
  <1>1. PICK where \in {"query", "begin", "get", "append"}, a \in Args :
          /\ pc[r] = "idle" /\ pc' = [pc EXCEPT ![r] = where]
          /\ arg' = [arg EXCEPT ![r] = a]
          /\ where = "query" => a.op = "search"
          /\ where = "begin" => a.op = "embed"
          /\ where = "get" => a.op = "update"
          /\ where = "append" => a.op = "archive"
          /\ where # "query" => a.entity \in Entities
          /\ UNCHANGED <<live, events, vectors, meta, conn, copy, txn, revived>>
    <2>1. CASE \E g \in Groups, n \in Limits : BeginSearch(r, g, n)
      <3>1. PICK g \in Groups, n \in Limits : BeginSearch(r, g, n)
        BY <2>1
      <3>2. SearchArg(g, n) \in Args /\ SearchArg(g, n).op = "search"
        BY ArgTypes DEF SearchArg
      <3>3. /\ pc[r] = "idle" /\ pc' = [pc EXCEPT ![r] = "query"]
            /\ arg' = [arg EXCEPT ![r] = SearchArg(g, n)]
            /\ UNCHANGED <<live, events, vectors, meta, conn, copy, txn, revived>>
        BY <3>1 DEF BeginSearch, Begin, Goto, db
      <3> HIDE DEF SearchArg
      <3> QED
        BY <3>2, <3>3
    <2>2. ASSUME NEW e \in Entities, BeginEmbed(r, e) \/ BeginArchive(r, e) \/ BeginUpdate(r, e)
          PROVE  \E where \in {"begin", "get", "append"}, op \in Ops :
                   /\ pc[r] = "idle" /\ pc' = [pc EXCEPT ![r] = where]
                   /\ arg' = [arg EXCEPT ![r] = EntityArg(op, e)]
                   /\ where = "begin" => op = "embed"
                   /\ where = "get" => op = "update"
                   /\ where = "append" => op = "archive"
                   /\ UNCHANGED <<live, events, vectors, meta, conn, copy, txn, revived>>
      BY <2>2 DEF BeginEmbed, BeginArchive, BeginUpdate, Begin, Goto, db, Ops
    <2> QED
      BY <2>1, <2>2, ArgTypes DEF Accept
  <1> QED
    BY <1>1 DEF PoolInv, PoolTyped, Locked, ArgsOK, TxnOK, DoneOK, EmbeddingsPaired, Holding,
       Searching, InTx, Writing

\* A search goes on.
LEMMA SearchPool ==
    ASSUME PoolInv, NEW r \in Requests, Query(r) \/ Scan(r) \/ Hydrate(r)
    PROVE  PoolInv'
  <1> USE NilAssumption
      DEF PoolInv, PoolTyped, Locked, ArgsOK, TxnOK, DoneOK, EmbeddingsPaired, Holding,
          Searching, InTx, Writing, Goto, db
  <1>1. CASE Query(r)
    BY <1>1 DEF Query
  <1>2. CASE Scan(r)
    BY <1>2 DEF Scan
  <1>3. CASE Hydrate(r)
    <2>1. PICK where \in {"ok", "hydrate"} :
            /\ pc[r] = "hydrate" /\ pc' = [pc EXCEPT ![r] = where]
            /\ UNCHANGED <<live, events, vectors, meta, conn, arg, copy, txn, revived>>
      BY <1>3 DEF Hydrate
    <2> QED
      BY <2>1
  <1> QED
    BY <1>1, <1>2, <1>3

\* A transaction begins, with the tables as they are.
LEMMA BeginTxPool ==
    ASSUME PoolInv, NEW r \in Requests, BeginTx(r)
    PROVE  PoolInv'
  BY NilAssumption DEF BeginTx, PoolInv, PoolTyped, Locked, ArgsOK, TxnOK, DoneOK,
     EmbeddingsPaired, Holding, Searching, InTx, Writing, Goto, db

\* The four statements of the transaction.
LEMMA WrittenIs ==
    ASSUME NEW r \in Requests
    PROVE  /\ pc[r] = "delete.vector" => Written(r) = [vectors |-> txn[r].vectors \ {arg[r].entity},
                                                       meta |-> txn[r].meta]
           /\ pc[r] = "delete.meta" => Written(r) = [vectors |-> txn[r].vectors,
                                                     meta |-> txn[r].meta \ {arg[r].entity}]
           /\ pc[r] = "insert.vector" => Written(r) = [vectors |-> txn[r].vectors \cup {arg[r].entity},
                                                       meta |-> txn[r].meta]
           /\ pc[r] = "insert.meta" => Written(r) = [vectors |-> txn[r].vectors,
                                                     meta |-> txn[r].meta \cup {arg[r].entity}]
           /\ AfterStatement("delete.vector") = "delete.meta"
           /\ AfterStatement("delete.meta") = "insert.vector"
           /\ AfterStatement("insert.vector") = "insert.meta"
           /\ AfterStatement("insert.meta") = "commit"
  BY Zenon DEF Written, AfterStatement

\* They change nothing that others see.
LEMMA TxExecPool ==
    ASSUME PoolInv, NEW r \in Requests, TxExec(r)
    PROVE  PoolInv'
  <1> USE DEF PoolInv, PoolTyped, Locked, ArgsOK, TxnOK, DoneOK, EmbeddingsPaired, Holding,
              Searching, InTx, Writing, Goto, db
  <1>1. /\ txn' = [txn EXCEPT ![r] = Written(r)]
        /\ pc' = [pc EXCEPT ![r] = AfterStatement(pc[r])]
        /\ UNCHANGED <<live, events, vectors, meta, conn, arg, copy, revived>>
    BY DEF TxExec
  <1>2. pc[r] \in {"delete.vector", "delete.meta", "insert.vector", "insert.meta"}
    BY DEF TxExec
  <1>3. CASE pc[r] = "delete.vector"
    BY <1>1, <1>3, WrittenIs
  <1>4. CASE pc[r] = "delete.meta"
    BY <1>1, <1>4, WrittenIs
  <1>5. CASE pc[r] = "insert.vector"
    BY <1>1, <1>5, WrittenIs
  <1>6. CASE pc[r] = "insert.meta"
    BY <1>1, <1>6, WrittenIs
  <1> QED
    BY <1>2, <1>3, <1>4, <1>5, <1>6

\* Commit adds its own vector and row and takes nobody else's away.
LEMMA CommitPool ==
    ASSUME PoolInv, NEW r \in Requests, Commit(r)
    PROVE  PoolInv'
  <1> USE NilAssumption
      DEF PoolInv, PoolTyped, Locked, ArgsOK, TxnOK, DoneOK, EmbeddingsPaired, Holding,
          Searching, InTx, Writing, Goto, NoTxn
  <1>1. /\ pc[r] = "commit" /\ conn' = Nil
        /\ pc' = [pc EXCEPT ![r] = "ok"] /\ txn' = [txn EXCEPT ![r] = [vectors |-> {}, meta |-> {}]]
        /\ UNCHANGED <<live, events, arg, copy, revived>>
    BY DEF Commit
  <1>2. vectors' = vectors \cup {arg[r].entity} /\ meta' = meta \cup {arg[r].entity}
    BY DEF Commit
  <1>3. \A s \in Requests : pc'[s] \in Holding => FALSE
    BY <1>1
  <1>4. PoolTyped' /\ Locked' /\ ArgsOK' /\ EmbeddingsPaired'
    BY <1>1, <1>2, <1>3
  <1>5. TxnOK'
    BY <1>1, <1>3
  <1>6. DoneOK'
    BY <1>1, <1>2
  <1> QED
    BY <1>4, <1>5, <1>6

\* The single statements of an archive and of an update.
LEMMA WritePool ==
    ASSUME PoolInv, NEW r \in Requests,
           GetEntity(r) \/ AppendEvent(r) \/ Archive(r) \/ Upsert(r)
    PROVE  PoolInv'
  <1> USE DEF PoolInv, PoolTyped, Locked, ArgsOK, TxnOK, DoneOK, EmbeddingsPaired, Holding,
              Searching, InTx, Writing, Goto, db
  <1>1. CASE GetEntity(r)
    BY <1>1 DEF GetEntity
  <1>2. CASE AppendEvent(r)
    <2>1. PICK where \in {"archive", "upsert"} :
            /\ pc[r] = "append" /\ pc' = [pc EXCEPT ![r] = where]
            /\ where = "archive" <=> arg[r].op = "archive"
            /\ events' = events \cup {r}
            /\ UNCHANGED <<live, vectors, meta, conn, arg, copy, txn, revived>>
      BY <1>2 DEF AppendEvent
    <2> QED
      BY <2>1
  <1>3. CASE Archive(r)
    BY <1>3 DEF Archive
  <1>4. CASE Upsert(r)
    <2>1. /\ pc[r] = "upsert" /\ pc' = [pc EXCEPT ![r] = "ok"]
          /\ arg[r].op = "update" /\ arg[r].entity \in Entities /\ r \in events
          /\ UNCHANGED <<events, vectors, meta, conn, arg, copy, txn>>
      BY <1>4 DEF Upsert
    <2>2. /\ revived' \subseteq Entities /\ revived \subseteq revived'
          /\ \A e : e \in live' => e \in live \/ e \in revived'
      BY <1>4, <2>1 DEF Upsert
    <2>3. PoolTyped' /\ Locked' /\ ArgsOK' /\ TxnOK' /\ EmbeddingsPaired'
      BY <2>1, <2>2
    <2>4. DoneOK'
      BY <2>1, <2>2
    <2> QED
      BY <2>3, <2>4
  <1> QED
    BY <1>1, <1>2, <1>3, <1>4

\* A failure, an answer, and the end of the process.
LEMMA EndPool ==
    ASSUME PoolInv
    PROVE  /\ \A r \in Requests : Fail(r) \/ Return(r) => PoolInv'
           /\ PoolReset => PoolInv'
  <1> USE NilAssumption
      DEF PoolInv, PoolTyped, Locked, ArgsOK, TxnOK, DoneOK, EmbeddingsPaired, Holding,
          Searching, InTx, Writing, Goto, db, Running, NoTxn, Forget
  <1>1. ASSUME NEW r \in Requests, Fail(r) PROVE PoolInv'
    <2>1. /\ pc' = [pc EXCEPT ![r] = "error"] /\ pc[r] # "ok"
          /\ txn' = [txn EXCEPT ![r] = [vectors |-> {}, meta |-> {}]]
          /\ conn' = IF conn = r THEN Nil ELSE conn
          /\ copy' = [s \in Requests |-> IF s \in {r} THEN FALSE ELSE copy[s]]
          /\ UNCHANGED <<live, events, vectors, meta, arg, revived>>
      BY <1>1 DEF Fail
    <2>2. PoolTyped'
      BY <2>1
    <2>3. Locked' /\ EmbeddingsPaired'
      BY <2>1
    <2>4. ArgsOK' /\ DoneOK'
      BY <2>1
    <2>5. TxnOK'
      BY <2>1
    <2> QED
      BY <2>2, <2>3, <2>4, <2>5
  <1>2. ASSUME NEW r \in Requests, Return(r) PROVE PoolInv'
    BY <1>2 DEF Return
  <1>3. ASSUME PoolReset PROVE PoolInv'
    BY <1>3 DEF PoolReset
  <1> QED
    BY <1>1, <1>2, <1>3

\* The store keeps its invariant, whatever its requests do.
LEMMA NextPoolInv == PoolInv /\ [PoolNext]_poolVars => PoolInv'
  <1>1. PoolInv /\ UNCHANGED poolVars => PoolInv'
    BY DEF poolVars, db, PoolInv, PoolTyped, Locked, ArgsOK, TxnOK, DoneOK, EmbeddingsPaired
  <1> QED
    BY <1>1, AcceptPool, SearchPool, BeginTxPool, TxExecPool, CommitPool, WritePool, EndPool
       DEF PoolNext, Step

LEMMA PoolInvariant == PoolSpec => []PoolInv
  BY InitPoolInv, NextPoolInv, PTL DEF PoolSpec

\* UpsertEmbedding's five statements are one: a vector has its row in
\* embedding_meta and the other way round, whatever fails or dies between them.
THEOREM Paired == PoolSpec => []EmbeddingsPaired
  <1>1. PoolInv => EmbeddingsPaired
    BY DEF PoolInv
  <1> QED
    BY <1>1, PoolInvariant, PTL

-----------------------------------------------------------------------------
\* What each step of the two processes does to the store (Next of Serving).
LEMMA PoolSteps == [Next]_vars => [PoolNext]_poolVars
  <1> SUFFICES ASSUME [Next]_vars PROVE [PoolNext]_poolVars
    OBVIOUS
  <1> USE DEF PoolNext
  <1>1. CASE UNCHANGED vars
    BY <1>1 DEF vars
  <1>2. ASSUME NEW r \in Requests, GateAccept(r) \/ Refuse(r) PROVE [PoolNext]_poolVars
    BY <1>2 DEF GateAccept, Refuse
  <1>3. ASSUME NEW r \in Requests, Proxy(r) \/ Direct(r) PROVE [PoolNext]_poolVars
    BY <1>3 DEF Proxy, Direct
  <1>4. ASSUME NEW r \in Requests, Serve(r) \/ Break(r) \/ Reply(r) PROVE [PoolNext]_poolVars
    BY <1>4 DEF Serve, Break, Reply
  <1>5. CASE GateStart \/ GateSignal \/ GateDrained \/ GateDies
    BY <1>5 DEF GateStart, GateSignal, GateDrained, GateDies, GateGone
  <1>6. CASE Start \/ Signal \/ Drained \/ ListenFails
    BY <1>6 DEF Start, Signal, Drained, ListenFails
  <1>7. CASE Exit \/ Crash
    BY <1>7 DEF Exit, Crash, Gone
  <1> QED
    BY <1>1, <1>2, <1>3, <1>4, <1>5, <1>6, <1>7 DEF Next, RequestStep

\* Whatever the two processes do (actionServe, Server.Start, run), the store under
\* them does what a store may do: what is proved of PoolSpec holds of it.
THEOREM ServesStore == Spec => PoolSpec
  <1>1. Init => PoolInit
    BY DEF Init
  <1> QED
    BY <1>1, PoolSteps, PTL DEF Spec, PoolSpec

-----------------------------------------------------------------------------
(***************************************************************************)
(* Where a request is, in the two processes and in the store.              *)
(***************************************************************************)
StageTyped ==
    /\ stage \in [Requests -> {"unsent", "gateway", "upstream", "direct", "orphan", "done"}]
    /\ answer \in [Requests -> {"none", "ok", "error", "refused", "unreachable", "lost"}]

RequestOK(r) ==
    /\ Running(r) => r \in InCoggo
    /\ r \in InCoggo => pc[r] # "idle"
    /\ stage[r] \in {"unsent", "gateway"} => pc[r] = "idle"
    /\ stage[r] \in {"unsent", "gateway", "upstream", "direct"} => answer[r] = "none"
    /\ stage[r] = "orphan" => r \in struck
    /\ answer[r] = "ok" => pc[r] = "ok"
    /\ pc[r] # "idle" /\ r \notin struck => answer[r] \in {"none", "ok", "error"}

\* Coggo is down without a handler, and closes its store only under those struck.
CoggoOK ==
    /\ coggo = "down" => InCoggo = {}
    /\ coggo = "closing" => InCoggo \subseteq struck

ServingInv == PoolTyped /\ StageTyped /\ (\A r \in Requests : RequestOK(r)) /\ CoggoOK

\* A statement advances its own request, which has begun and stays begun.
LEMMA StepPc ==
    ASSUME PoolTyped, NEW r \in Requests, Step(r)
    PROVE  /\ Running(r)
           /\ pc'[r] # "idle"
           /\ \A s \in Requests \ {r} : pc'[s] = pc[s]
  <1> USE DEF PoolTyped, Running, Goto, Holding
  <1>1. CASE Query(r) \/ Scan(r) \/ BeginTx(r) \/ Commit(r)
    BY <1>1 DEF Query, Scan, BeginTx, Commit
  <1>4. CASE GetEntity(r) \/ AppendEvent(r) \/ Archive(r) \/ Upsert(r)
    BY <1>4 DEF GetEntity, AppendEvent, Archive, Upsert
  <1>2. CASE Hydrate(r)
    BY <1>2 DEF Hydrate
  <1>3. CASE TxExec(r)
    <2>1. AfterStatement(pc[r]) # "idle"
      BY <1>3, WrittenIs DEF TxExec
    <2> QED
      BY <1>3, <2>1 DEF TxExec
  <1> QED
    BY <1>1, <1>2, <1>3, <1>4 DEF Step

\* A request that is accepted begins.
LEMMA AcceptPc ==
    ASSUME PoolTyped, NEW r \in Requests, Accept(r)
    PROVE  /\ pc'[r] # "idle" /\ pc'[r] # "ok"
           /\ \A s \in Requests \ {r} : pc'[s] = pc[s]
  BY DEF PoolTyped, Accept, BeginSearch, BeginEmbed, BeginArchive, BeginUpdate, Begin, Goto

\* A step of a request keeps the invariant.
LEMMA RequestServing ==
    ASSUME ServingInv, PoolTyped', NEW r \in Requests,
           GateAccept(r) \/ Direct(r) \/ RequestStep(r) \/ Break(r)
    PROVE  ServingInv'
  <1> USE DEF ServingInv, StageTyped, RequestOK, CoggoOK, InCoggo, Finish
  <1>1. CASE GateAccept(r) \/ Refuse(r)
    BY <1>1 DEF GateAccept, Refuse, poolVars, Running
  <1>2. CASE Direct(r) \/ (Proxy(r) /\ coggo = "up")
    BY <1>2, AcceptPc DEF Direct, Proxy, Running
  <1>3. CASE Proxy(r) /\ coggo # "up"
    BY <1>3 DEF Proxy, poolVars, Running
  <1>4. CASE Serve(r)
    BY <1>4, StepPc DEF Serve, Running
  <1>5. CASE Break(r)
    BY <1>5 DEF Break, Fail, Goto, Running, PoolTyped
  <1>6. CASE Reply(r)
    BY <1>6 DEF Reply, Return, Running
  <1> QED
    BY <1>1, <1>2, <1>3, <1>4, <1>5, <1>6 DEF RequestStep

\* Starts, signals, crashes and exits keep it.
LEMMA ProcessServing ==
    ASSUME ServingInv, PoolTyped',
           \/ GateStart \/ GateSignal \/ GateDrained \/ GateDies
           \/ Start \/ Signal \/ Drained \/ ListenFails \/ Exit \/ Crash
    PROVE  ServingInv'
  <1> USE DEF ServingInv, StageTyped, RequestOK, CoggoOK, InCoggo, Running
  <1>1. CASE GateStart \/ GateSignal \/ Start \/ Signal \/ Drained \/ ListenFails
    BY <1>1 DEF GateStart, GateSignal, Start, Signal, Drained, ListenFails, poolVars
  <1>2. CASE GateDrained \/ GateDies
    BY <1>2 DEF GateDrained, GateDies, GateGone, InGate, poolVars
  <1>3. ASSUME Gone, struck \subseteq struck', InCoggo \subseteq struck' PROVE ServingInv'
    <2>1. /\ coggo' = "down"
          /\ \A s \in Requests : pc'[s] = IF Running(s) THEN "error" ELSE pc[s]
          /\ stage' = [s \in Requests |-> IF s \in InCoggo THEN "done" ELSE stage[s]]
      BY <1>3 DEF Gone, PoolReset
    <2>2. /\ \A s \in Requests : stage[s] = "upstream" => answer'[s] = "unreachable"
          /\ \A s \in Requests : stage[s] = "direct" => answer'[s] = "lost"
          /\ \A s \in Requests : stage[s] \notin {"upstream", "direct"} => answer'[s] = answer[s]
          /\ answer' \in [Requests -> {"none", "ok", "error", "refused", "unreachable", "lost"}]
      BY <1>3 DEF Gone
    <2> QED
      BY <1>3, <2>1, <2>2
  <1>4. CASE Exit
    BY <1>3, <1>4 DEF Exit
  <1>5. CASE Crash
    BY <1>3, <1>5 DEF Crash
  <1> QED
    BY <1>1, <1>2, <1>4, <1>5

\* The invariant of the two processes holds in every behaviour.
LEMMA ServingInvariant == Spec => []ServingInv
  <1>1. Init => ServingInv
    BY InitPoolInv DEF Init, PoolInit, PoolInv, ServingInv, StageTyped, RequestOK, CoggoOK,
       InCoggo, Running
  <1>2. ServingInv /\ PoolTyped' /\ [Next]_vars => ServingInv'
    <2>1. ServingInv /\ UNCHANGED vars => ServingInv'
      BY DEF ServingInv, StageTyped, RequestOK, CoggoOK, InCoggo, Running, PoolTyped, vars, poolVars, db
    <2> QED
      BY <2>1, RequestServing, ProcessServing DEF Next
  <1>3. PoolInv => PoolTyped
    BY DEF PoolInv
  <1> QED
    BY <1>1, <1>2, <1>3, PoolInvariant, ServesStore, PTL DEF Spec

\* An answer "ok" means that the write is in the database and stays there,
\* through later transactions, crashes, restarts, and a store that is closed
\* under running handlers (UpsertEmbedding, ArchiveEntity, actionServe).
THEOREM Durable == Spec => []AnsweredDurable
  <1>1. PoolInv /\ ServingInv => AnsweredDurable
    BY DEF PoolInv, ServingInv, DoneOK, RequestOK, AnsweredDurable
  <1> QED
    BY <1>1, PoolInvariant, ServesStore, ServingInvariant, PTL

\* Server.Start shuts down gracefully: stopped by a signal, coggo leaves no
\* accepted request without its handler's answer.
THEOREM NoneLost == Spec => []StopLosesNone
  <1>1. ServingInv => StopLosesNone
    BY DEF ServingInv, RequestOK, StopLosesNone
  <1> QED
    BY <1>1, ServingInvariant, PTL

-----------------------------------------------------------------------------
(***************************************************************************)
(* What a search returns.  Searches read the vectors once and then look up *)
(* their candidates one by one, while others write.  Hits and candidates   *)
(* stay in the order of their distance; and as long as nobody commits, all *)
(* that the query left out is farther than all that it fetched.            *)
(***************************************************************************)
\* A sequence of entities, nearest first, and what is in it.
Ascending(s) == \A i, j \in DOMAIN s : i < j => s[i] < s[j]
Items(s) == {s[i] : i \in DOMAIN s}

\* The entities a search has before it or has found.
Fetched(r) == Items(hits[r]) \cup Items(cands[r])

\* The condition of SearchTopLimit: the others leave room for the limit.
Roomy(r) ==
    \/ Cardinality(Others(r)) + Limit(r) <= MinFetch
    \/ Cardinality(Others(r)) + Limit(r) <= OverFetch * Limit(r)

SearchTyped ==
    /\ live \subseteq Entities
    /\ cands \in [Requests -> Seq(Entities)]
    /\ hits \in [Requests -> Seq(Entities)]
    /\ start \in [Requests -> [live: SUBSET Entities, vectors: SUBSET Entities]]
    /\ quiet \in [Requests -> BOOLEAN]

\* Hits and candidates are in order, hits before candidates.
Ordered(r) ==
    /\ Ascending(cands[r])
    /\ Ascending(hits[r])
    /\ \A h \in Items(hits[r]), c \in Items(cands[r]) : h < c

\* Hits belong to the search that found them.
HitsOK(r) ==
    /\ Len(hits[r]) <= Limit(r)
    /\ pc[r] = "hydrate" => Len(hits[r]) < Limit(r)
    /\ pc[r] \notin {"hydrate", "ok"} => hits[r] = <<>>
    /\ pc[r] \notin {"scan", "hydrate", "ok"} => cands[r] = <<>>
    /\ pc[r] \in Searching => live \subseteq start[r].live
    /\ \A h \in Items(hits[r]) : GroupOf[h] = arg[r].group /\ h \in start[r].live

\* Until somebody commits, the search sees what was there when it began.
Frozen(r) ==
    quiet[r] =>
        /\ pc[r] \in Searching \cup {"ok"}
        /\ live = start[r].live
        /\ vectors = start[r].vectors

\* What it has not fetched comes after all it has, and is not needed.
Complete(r) ==
    quiet[r] /\ pc[r] \in {"scan", "hydrate", "ok"} =>
        /\ Fetched(r) \subseteq start[r].vectors
        /\ \A w \in Targets(r) \ Fetched(r) :
              /\ \A f \in Fetched(r) : f < w
              /\ Roomy(r) => Limit(r) <= Cardinality(Targets(r) \cap Fetched(r))
        /\ pc[r] = "ok" => cands[r] = <<>> \/ Len(hits[r]) = Limit(r)

SearchOK(r) == Ordered(r) /\ HitsOK(r) /\ Frozen(r) /\ Complete(r)

SearchInv == SearchTyped /\ \A r \in Requests : SearchOK(r)

\* Of a set of numbers, a nearer one has the lower place.
LEMMA PlaceOrder ==
    ASSUME NEW S \in SUBSET Nat, IsFiniteSet(S)
    PROVE  /\ \A e \in S : Place(e, S) \in 1 .. Cardinality(S)
           /\ \A e, f \in S : e < f => Place(e, S) < Place(f, S)
           /\ \A e, f \in S : Place(e, S) = Place(f, S) => e = f
  <1> DEFINE upTo(e) == {f \in S : f <= e}
  <1>1. \A e \in S : /\ IsFiniteSet(upTo(e))
                     /\ Cardinality(upTo(e)) \in Nat /\ Cardinality(upTo(e)) <= Cardinality(S)
    BY FS_Subset, FS_CardinalityType
  <1>2. ASSUME NEW e \in S PROVE Cardinality(upTo(e)) # 0
    <2>1. e \in upTo(e)
      OBVIOUS
    <2> QED
      BY <1>1, <2>1, FS_EmptySet
  <1>3. ASSUME NEW e \in S, NEW f \in S, e < f
        PROVE  Cardinality(upTo(e)) < Cardinality(upTo(f))
    <2>1. upTo(e) \subseteq upTo(f)
      <3> SUFFICES ASSUME NEW x \in S, x <= e PROVE x <= f
        OBVIOUS
      <3> x \in Nat /\ e \in Nat /\ f \in Nat
        OBVIOUS
      <3> QED
        BY <1>3
    <2>2. f \in upTo(f) /\ f \notin upTo(e)
      <3> e \in Nat /\ f \in Nat
        OBVIOUS
      <3> QED
        BY <1>3
    <2> HIDE DEF upTo
    <2> QED
      BY <1>1, <2>1, <2>2, FS_Subset
  <1>4. Cardinality(S) \in Nat
    BY FS_CardinalityType
  <1>5. \A e \in S : Place(e, S) = Cardinality(upTo(e))
    BY DEF Place
  <1>6. \A e \in S : Place(e, S) \in 1 .. Cardinality(S)
    <2> HIDE DEF upTo
    <2> QED
      BY <1>1, <1>2, <1>4, <1>5
  <1>7. \A e, f \in S : e < f => Place(e, S) < Place(f, S)
    BY <1>3, <1>5
  <1>8. \A e, f \in S : e < f \/ f < e \/ e = f
    OBVIOUS
  <1> HIDE DEF upTo
  <1>9. \A e, f \in S : Place(e, S) = Place(f, S) => e = f
    BY <1>6, <1>7, <1>8
  <1> QED
    BY <1>6, <1>7, <1>9

\* Every place is taken.
LEMMA PlaceTaken ==
    ASSUME NEW S \in SUBSET Nat, IsFiniteSet(S), NEW k \in 1 .. Cardinality(S)
    PROVE  \E e \in S : Place(e, S) = k
  <1> DEFINE place == [e \in S |-> Place(e, S)]
             places == 1 .. Cardinality(S)
  <1>1. Cardinality(S) \in Nat
    BY FS_CardinalityType
  <1>2. place \in Injection(S, places)
    <2>1. place \in [S -> places]
      BY PlaceOrder
    <2>2. \A e, f \in S : place[e] = place[f] => e = f
      BY PlaceOrder
    <2> QED
      BY <2>1, <2>2 DEF Injection, IsInjective
  <1>3. IsFiniteSet(places) /\ Cardinality(places) = Cardinality(S)
    <2> 1 \in Int /\ Cardinality(S) \in Int
      BY <1>1
    <2>1. /\ IsFiniteSet(1 .. Cardinality(S))
          /\ Cardinality(1 .. Cardinality(S)) = IF 1 > Cardinality(S) THEN 0 ELSE Cardinality(S) - 1 + 1
      BY ONLY FS_Interval, 1 \in Int, Cardinality(S) \in Int
    <2> QED
      BY <1>1, <2>1
  <1>4. place \in Surjection(S, places)
    BY <1>2, <1>3, FS_Injection
  <1> QED
    BY <1>4 DEF Surjection

\* An ascending sequence has as many elements as places.
LEMMA AscendingRange ==
    ASSUME NEW s \in Seq(Nat), Ascending(s)
    PROVE  LET R == {s[i] : i \in DOMAIN s} IN IsFiniteSet(R) /\ Cardinality(R) = Len(s)
  <1> DEFINE R == {s[i] : i \in DOMAIN s}
  <1>1. DOMAIN s = 1 .. Len(s) /\ Len(s) \in Nat
    OBVIOUS
  <1>2. IsFiniteSet(1 .. Len(s)) /\ Cardinality(1 .. Len(s)) = Len(s)
    <2> 1 \in Int /\ Len(s) \in Int
      BY <1>1
    <2>1. /\ IsFiniteSet(1 .. Len(s))
          /\ Cardinality(1 .. Len(s)) = IF 1 > Len(s) THEN 0 ELSE Len(s) - 1 + 1
      BY ONLY FS_Interval, 1 \in Int, Len(s) \in Int
    <2> QED
      BY <1>1, <2>1
  <1>3. ExistsBijection(1 .. Len(s), R)
    <2>1. s \in [1 .. Len(s) -> R]
      BY <1>1
    <2>2. \A i, j \in 1 .. Len(s) : s[i] = s[j] => i = j
      <3>1. \A i, j \in 1 .. Len(s) : s[i] \in Nat /\ (i < j \/ j < i \/ i = j)
        BY <1>1
      <3> QED
        BY <1>1, <3>1 DEF Ascending
    <2>3. \A x \in R : \E i \in 1 .. Len(s) : s[i] = x
      BY <1>1
    <2>4. s \in Bijection(1 .. Len(s), R)
      BY <2>1, <2>2, <2>3 DEF Bijection, Injection, IsInjective, Surjection
    <2> QED
      BY <2>4 DEF ExistsBijection
  <1> HIDE DEF R
  <1>4. IsFiniteSet(R) /\ Cardinality(R) = Len(s)
    BY <1>2, <1>3, FS_Bijection
  <1> QED
    BY <1>4 DEF R

\* What the query for the nearest returns.
LEMMA NearestIs ==
    ASSUME NEW S \in SUBSET Nat, IsFiniteSet(S), NEW n \in Nat
    PROVE  /\ Nearest(n, S) \in Seq(S)
           /\ Len(Nearest(n, S)) = IF n < Cardinality(S) THEN n ELSE Cardinality(S)
           /\ Ascending(Nearest(n, S))
           /\ \A e \in S : \/ \E k \in DOMAIN Nearest(n, S) : Nearest(n, S)[k] = e
                           \/ /\ Len(Nearest(n, S)) = n
                              /\ \A k \in DOMAIN Nearest(n, S) : Nearest(n, S)[k] < e
  <1> DEFINE m == IF n < Cardinality(S) THEN n ELSE Cardinality(S)
             s == Nearest(n, S)
  <1>1. Cardinality(S) \in Nat
    BY FS_CardinalityType
  <1>2. m \in Nat /\ m <= Cardinality(S) /\ (m = n \/ m = Cardinality(S))
    BY <1>1
  <1>3. s = [k \in 1 .. m |-> CHOOSE e \in S : Place(e, S) = k]
    BY DEF Nearest
  <1> HIDE DEF m, s
  <1>4. \A k \in 1 .. m : s[k] \in S /\ Place(s[k], S) = k
    <2> SUFFICES ASSUME NEW k \in 1 .. m PROVE s[k] \in S /\ Place(s[k], S) = k
      OBVIOUS
    <2>1. \E e \in S : Place(e, S) = k
      BY <1>1, <1>2, PlaceTaken
    <2>2. s[k] = CHOOSE e \in S : Place(e, S) = k
      BY <1>3
    <2> QED
      BY <2>1, <2>2, Zenon
  <1>5. s \in Seq(S) /\ Len(s) = m /\ DOMAIN s = 1 .. m
    <2>1. s \in [1 .. m -> S]
      BY <1>3, <1>4
    <2> QED
      BY <1>2, <2>1
  <1>6. \A e, f \in S : Place(e, S) < Place(f, S) => e < f
    <2>1. \A e, f \in S : e < f \/ f < e \/ e = f
      OBVIOUS
    <2>2. \A e \in S : Place(e, S) \in Nat
      BY PlaceOrder
    <2> QED
      BY <2>1, <2>2, PlaceOrder
  <1>7. Ascending(s)
    BY <1>4, <1>5, <1>6 DEF Ascending
  <1>8. ASSUME NEW e \in S, \A k \in DOMAIN s : s[k] # e
        PROVE  m = n /\ \A k \in DOMAIN s : s[k] < e
    <2>1. Place(e, S) \in 1 .. Cardinality(S)
      BY PlaceOrder
    <2>2. ASSUME NEW k \in 1 .. m PROVE Place(e, S) # k
      <3>1. s[k] \in S /\ Place(s[k], S) = k /\ s[k] # e
        BY <1>4, <1>5, <1>8
      <3> QED
        BY <3>1, PlaceOrder
    <2>3. m < Place(e, S) /\ m = n
      BY <1>1, <1>2, <2>1, <2>2
    <2>4. ASSUME NEW k \in 1 .. m PROVE s[k] < e
      <3>1. Place(s[k], S) < Place(e, S)
        BY <1>1, <1>2, <1>4, <2>1, <2>3
      <3> QED
        BY <1>4, <1>6, <3>1
    <2> QED
      BY <1>5, <2>3, <2>4
  <1>9. s = Nearest(n, S) /\ m = IF n < Cardinality(S) THEN n ELSE Cardinality(S)
    BY DEF s, m
  <1> QED
    BY <1>5, <1>7, <1>8, <1>9

\* Nothing else is the n nearest.
LEMMA NearestUnique ==
    ASSUME NEW S \in SUBSET Nat, IsFiniteSet(S), NEW n \in Nat,
           NEW s \in Seq(S), Ascending(s),
           Len(s) = IF n < Cardinality(S) THEN n ELSE Cardinality(S),
           \A e \in S : \/ \E k \in DOMAIN s : s[k] = e
                        \/ \A k \in DOMAIN s : s[k] < e
    PROVE  s = Nearest(n, S)
  <1> DEFINE m == Len(s)
  <1>1. m \in Nat /\ DOMAIN s = 1 .. m /\ \A k \in 1 .. m : s[k] \in S
    OBVIOUS
  <1>2. ASSUME NEW k \in 1 .. m PROVE Place(s[k], S) = k
    <2> DEFINE t == [i \in 1 .. k |-> s[i]]
               R == {t[i] : i \in DOMAIN t}
    <2>1. t \in Seq(Nat) /\ Len(t) = k /\ \A i \in 1 .. k : t[i] = s[i]
      <3>1. ASSUME NEW i \in 1 .. k PROVE s[i] \in Nat
        <4>1. i \in 1 .. m
          BY <1>1, <1>2
        <4> QED
          BY <1>1, <4>1
      <3>2. t \in [1 .. k -> Nat] /\ k \in Nat
        BY <1>1, <1>2, <3>1
      <3>3. \A i \in 1 .. k : t[i] = s[i]
        OBVIOUS
      <3> HIDE DEF t
      <3> QED
        BY <3>2, <3>3
    <2>2. DOMAIN t = 1 .. k
      BY <2>1
    <2> HIDE DEF t
    <2>3. Ascending(t)
      BY <1>1, <1>2, <2>1, <2>2 DEF Ascending
    <2>4. Cardinality(R) = k
      BY <2>1, <2>3, AscendingRange
    <2>5. R = {f \in S : f <= s[k]}
      <3>1. \A i \in 1 .. k : t[i] \in S /\ t[i] <= s[k]
        <4> SUFFICES ASSUME NEW i \in 1 .. k PROVE s[i] \in S /\ s[i] <= s[k]
          BY <2>1
        <4>1. i \in 1 .. m /\ k \in 1 .. m /\ (i = k \/ i < k)
          BY <1>1, <1>2
        <4>2. s[i] \in Nat /\ s[k] \in Nat
          BY <1>1, <4>1
        <4>3. i < k => s[i] < s[k]
          BY <1>1, <4>1 DEF Ascending
        <4> QED
          BY <1>1, <4>1, <4>2, <4>3
      <3>2. ASSUME NEW f \in S, f <= s[k] PROVE \E i \in 1 .. k : t[i] = f
        <4>1. s[k] \in Nat /\ k \in DOMAIN s
          BY <1>1, <1>2
        <4>2. PICK i \in DOMAIN s : s[i] = f
          BY <3>2, <4>1
        <4>3. ~(k < i)
          BY <1>1, <3>2, <4>1, <4>2 DEF Ascending
        <4> QED
          BY <1>1, <2>1, <4>2, <4>3
      <3> QED
        BY <2>2, <3>1, <3>2
    <2> QED
      BY <2>4, <2>5 DEF Place
  <1>3. ASSUME NEW k \in 1 .. m PROVE s[k] = CHOOSE e \in S : Place(e, S) = k
    <2>1. \A e \in S : Place(e, S) = k <=> e = s[k]
      BY <1>1, <1>2, PlaceOrder
    <2> QED
      BY <1>1, <2>1
  <1>4. s = [k \in 1 .. m |-> s[k]]
    BY <1>1
  <1>5. s = [k \in 1 .. m |-> CHOOSE e \in S : Place(e, S) = k]
    BY <1>3, <1>4
  <1> QED
    BY <1>5 DEF Nearest

\* The first candidate and those after it.
LEMMA HeadTail ==
    ASSUME NEW s \in Seq(Entities), s # <<>>, Ascending(s)
    PROVE  /\ Head(s) \in Entities /\ Head(s) \in Items(s)
           /\ Tail(s) \in Seq(Entities) /\ Ascending(Tail(s))
           /\ Items(s) = {Head(s)} \cup Items(Tail(s))
           /\ \A c \in Items(Tail(s)) : Head(s) < c
  <1> DEFINE t == Tail(s)
  <1>1. /\ Len(s) \in Nat /\ Len(s) > 0 /\ DOMAIN s = 1 .. Len(s)
        /\ \A i \in 1 .. Len(s) : s[i] \in Entities
    OBVIOUS
  <1>2. t \in Seq(Entities) /\ Len(t) = Len(s) - 1 /\ \A i \in 1 .. Len(t) : t[i] = s[i + 1]
    OBVIOUS
  <1>3. DOMAIN t = 1 .. Len(s) - 1
    BY <1>1, <1>2
  <1>4. Head(s) = s[1]
    OBVIOUS
  <1> HIDE DEF t
  <1>5. Ascending(t)
    <2> SUFFICES ASSUME NEW i \in 1 .. Len(s) - 1, NEW j \in 1 .. Len(s) - 1, i < j
                 PROVE  t[i] < t[j]
      BY <1>3 DEF Ascending
    <2>1. i + 1 \in DOMAIN s /\ j + 1 \in DOMAIN s /\ i + 1 < j + 1
      BY <1>1
    <2> QED
      BY <1>2, <2>1 DEF Ascending
  <1>6. \A c \in Items(t) : Head(s) < c
    BY <1>1, <1>2, <1>3, <1>4 DEF Ascending, Items
  <1>7. Items(s) = {Head(s)} \cup Items(t)
    <2>1. ASSUME NEW i \in 1 .. Len(s) PROVE s[i] \in {Head(s)} \cup Items(t)
      <3>1. CASE i = 1
        BY <1>4, <3>1
      <3>2. CASE i # 1
        <4>1. i - 1 \in 1 .. Len(s) - 1 /\ i - 1 + 1 = i
          BY <1>1, <3>2
        <4> QED
          BY <1>2, <1>3, <4>1 DEF Items
      <3> QED
        BY <3>1, <3>2
    <2>2. ASSUME NEW i \in 1 .. Len(s) - 1 PROVE t[i] \in Items(s)
      <3>1. i + 1 \in 1 .. Len(s)
        BY <1>1
      <3> QED
        BY <1>1, <1>2, <1>3, <3>1 DEF Items
    <2>3. 1 \in 1 .. Len(s)
      BY <1>1
    <2> QED
      BY <1>1, <1>3, <1>4, <2>1, <2>2, <2>3 DEF Items
  <1> QED
    BY <1>1, <1>2, <1>4, <1>5, <1>6, <1>7 DEF t

\* One hit more, later than all before it.
LEMMA OneMore ==
    ASSUME NEW s \in Seq(Entities), NEW e \in Entities, Ascending(s), \A h \in Items(s) : h < e
    PROVE  /\ Append(s, e) \in Seq(Entities) /\ Len(Append(s, e)) = Len(s) + 1
           /\ Ascending(Append(s, e))
           /\ Items(Append(s, e)) = Items(s) \cup {e}
  <1> DEFINE t == Append(s, e)
  <1>1. /\ t \in Seq(Entities) /\ Len(t) = Len(s) + 1 /\ t[Len(s) + 1] = e
        /\ \A i \in 1 .. Len(s) : t[i] = s[i]
    OBVIOUS
  <1>2. Len(s) \in Nat /\ DOMAIN s = 1 .. Len(s) /\ DOMAIN t = 1 .. Len(s) + 1
    BY <1>1
  <1> HIDE DEF t
  <1>3. \A i \in 1 .. Len(s) + 1 : i \in 1 .. Len(s) \/ i = Len(s) + 1
    BY <1>2
  <1>4. \A i \in 1 .. Len(s) : i \in 1 .. Len(s) + 1 /\ i < Len(s) + 1
    BY <1>2
  <1>5. Len(s) + 1 \in 1 .. Len(s) + 1
    BY <1>2
  <1>6. Ascending(t)
    <2> SUFFICES ASSUME NEW i \in 1 .. Len(s) + 1, NEW j \in 1 .. Len(s) + 1, i < j
                 PROVE  t[i] < t[j]
      BY <1>2 DEF Ascending
    <2>1. i \in 1 .. Len(s)
      BY <1>2
    <2>2. CASE j = Len(s) + 1
      BY <1>1, <1>2, <2>1, <2>2 DEF Items
    <2>3. CASE j \in 1 .. Len(s)
      BY <1>1, <1>2, <2>1, <2>3 DEF Ascending
    <2> QED
      BY <1>3, <2>2, <2>3
  <1>7. Items(t) = Items(s) \cup {e}
    BY <1>1, <1>2, <1>3, <1>4, <1>5 DEF Items
  <1> QED
    BY <1>1, <1>6, <1>7 DEF t

\* Enough candidates are fetched (limit * 4, 16 at the least).
LEMMA FetchRoom ==
    ASSUME NEW n \in Nat \ {0}, NEW others \in Nat,
           others + n <= MinFetch \/ others + n <= OverFetch * n
    PROVE  others + n <= Fetch(n)
  <1> DEFINE k == n * OverFetch
  <1>1. OverFetch \in Nat /\ MinFetch \in Nat
    BY LimitAssumption
  <1>2. k \in Nat /\ OverFetch * n = k
    BY <1>1
  <1>3. Fetch(n) = IF k < MinFetch THEN MinFetch ELSE k
    BY DEF Fetch
  <1> HIDE DEF k
  <1> QED
    BY <1>1, <1>2, <1>3

LEMMA LimitType ==
    ASSUME NEW r \in Requests, arg[r] \in Args
    PROVE  Limit(r) \in Nat \ {0} /\ Fetch(Limit(r)) \in Nat
  <1>1. arg[r].limit \in Nat /\ DefaultLimit \in Nat \ {0} /\ OverFetch \in Nat /\ MinFetch \in Nat
    BY LimitAssumption DEF Args
  <1>2. Limit(r) \in Nat \ {0}
    BY <1>1 DEF Limit
  <1>3. Limit(r) * OverFetch \in Nat
    BY <1>1, <1>2
  <1> QED
    BY <1>1, <1>2, <1>3 DEF Fetch

\* A search that a step does not touch, but for what others commit.
LEMMA Unmoved ==
    ASSUME NEW r \in Requests, SearchOK(r),
           arg'[r] = arg[r], pc'[r] = pc[r], cands'[r] = cands[r], hits'[r] = hits[r],
           start'[r] = start[r], live' \subseteq live,
           quiet'[r] = FALSE \/ (quiet'[r] = quiet[r] /\ live' = live /\ vectors' = vectors)
    PROVE  SearchOK(r)'
  <1>1. Ordered(r)'
    BY DEF SearchOK, Ordered, Ascending, Items
  <1>2. Limit(r)' = Limit(r)
    BY DEF Limit
  <1>3. HitsOK(r)'
    BY <1>2 DEF SearchOK, HitsOK, Items
  <1>4. Frozen(r)'
    BY DEF SearchOK, Frozen
  <1>5. Targets(r)' = Targets(r) /\ Others(r)' = Others(r) /\ Fetched(r)' = Fetched(r)
    BY DEF Targets, Others, Fetched, Items
  <1>6. Roomy(r)' = Roomy(r)
    BY <1>2, <1>5 DEF Roomy
  <1>7. Complete(r)'
    BY <1>2, <1>5, <1>6 DEF SearchOK, Complete
  <1> QED
    BY <1>1, <1>3, <1>4, <1>7 DEF SearchOK

\* A request that has found nothing, and is no search whose answer counts.
LEMMA NothingFound ==
    ASSUME NEW r \in Requests, arg'[r] \in Args,
           cands'[r] = <<>>, hits'[r] = <<>>,
           pc'[r] \in Searching => live' \subseteq start'[r].live,
           quiet'[r] => pc'[r] = "query" /\ live' = start'[r].live /\ vectors' = start'[r].vectors
    PROVE  SearchOK(r)'
  <1>1. Limit(r)' \in Nat \ {0}
    <2>1. arg'[r].limit \in Nat /\ DefaultLimit \in Nat \ {0}
      BY LimitAssumption DEF Args
    <2> QED
      BY <2>1 DEF Limit
  <1>2. Ordered(r)'
    BY DEF Ordered, Ascending, Items
  <1>3. HitsOK(r)'
    BY <1>1 DEF HitsOK, Items
  <1>4. Frozen(r)' /\ Complete(r)'
    BY DEF Frozen, Complete, Searching
  <1> QED
    BY <1>2, <1>3, <1>4 DEF SearchOK

\* A request is accepted.
LEMMA AcceptSearch ==
    ASSUME PoolTyped, PoolTyped', SearchInv, NEW r \in Requests, Accept(r)
    PROVE  SearchInv'
  <1> USE DEF SearchInv, PoolTyped
  <1>1. /\ pc[r] = "idle" /\ UNCHANGED <<live, vectors, cands, hits>>
        /\ \A s \in Requests \ {r} : /\ pc'[s] = pc[s] /\ arg'[s] = arg[s]
                                     /\ start'[s] = start[s] /\ quiet'[s] = quiet[s]
        /\ arg'[r] \in Args
    <2>1. CASE \E g \in Groups, n \in Limits : BeginSearch(r, g, n)
      BY <2>1 DEF BeginSearch, Begin, Goto, db, SearchTyped
    <2>2. CASE \E e \in Entities : BeginEmbed(r, e) \/ BeginArchive(r, e) \/ BeginUpdate(r, e)
      BY <2>2 DEF BeginEmbed, BeginArchive, BeginUpdate, Begin, Goto, db, SearchTyped
    <2> QED
      BY <2>1, <2>2 DEF Accept
  <1>2. cands[r] = <<>> /\ hits[r] = <<>> /\ quiet[r] = FALSE
    BY <1>1 DEF SearchOK, HitsOK, Frozen, Searching, SearchTyped
  <1>3. /\ start' \in [Requests -> [live: SUBSET Entities, vectors: SUBSET Entities]]
        /\ quiet' \in [Requests -> BOOLEAN]
        /\ pc'[r] \in Searching => live' \subseteq start'[r].live
        /\ quiet'[r] => pc'[r] = "query" /\ live' = start'[r].live /\ vectors' = start'[r].vectors
    <2>1. CASE \E g \in Groups, n \in Limits : BeginSearch(r, g, n)
      BY <1>1, <2>1 DEF BeginSearch, Begin, Goto, SearchTyped, Searching, db
    <2>2. CASE \E e \in Entities : BeginEmbed(r, e) \/ BeginArchive(r, e) \/ BeginUpdate(r, e)
      BY <1>1, <1>2, <2>2 DEF BeginEmbed, BeginArchive, BeginUpdate, Begin, Goto, SearchTyped, Searching, db
    <2> QED
      BY <2>1, <2>2 DEF Accept
  <1>4. SearchTyped'
    BY <1>1, <1>3 DEF SearchTyped
  <1>5. SearchOK(r)'
    BY <1>1, <1>2, <1>3, NothingFound
  <1>6. ASSUME NEW s \in Requests \ {r} PROVE SearchOK(s)'
    BY <1>1, Unmoved
  <1> QED
    BY <1>4, <1>5, <1>6

\* QueryContext fetches the nearest vectors of that moment.
LEMMA QuerySearch ==
    ASSUME PoolTyped, SearchInv, NEW r \in Requests, Query(r)
    PROVE  SearchInv'
  <1> USE DEF SearchInv, PoolTyped
  <1> DEFINE L == Limit(r) N == Nearest(Fetch(L), vectors)
  <1>1. /\ pc[r] = "query" /\ pc' = [pc EXCEPT ![r] = "scan"]
        /\ cands' = [cands EXCEPT ![r] = N]
        /\ UNCHANGED <<live, vectors, arg, hits, start, quiet>>
    BY DEF Query, Goto, db
  <1>2. vectors \in SUBSET Nat /\ IsFiniteSet(vectors)
    BY EntitiesAssumption, FS_Subset
  <1>3. L \in Nat \ {0} /\ Fetch(L) \in Nat
    BY LimitType
  <1> HIDE DEF L
  <1>4. /\ N \in Seq(vectors) /\ Ascending(N)
        /\ \A e \in vectors : \/ \E k \in DOMAIN N : N[k] = e
                              \/ Len(N) = Fetch(L) /\ \A k \in DOMAIN N : N[k] < e
    BY <1>2, <1>3, NearestIs
  <1> HIDE DEF N
  <1>5. hits[r] = <<>> /\ live \subseteq start[r].live
    BY <1>1 DEF SearchOK, HitsOK, Searching
  <1>6. cands'[r] = N /\ hits'[r] = <<>> /\ pc'[r] = "scan"
    BY <1>1, <1>5 DEF SearchTyped
  <1>7. Items(N) \subseteq vectors /\ Items(<<>>) = {}
    BY <1>4 DEF Items
  <1>8. SearchTyped'
    <2>1. N \in Seq(Entities)
      BY <1>4
    <2> QED
      BY <1>1, <2>1 DEF SearchTyped
  <1>9. Limit(r)' = L /\ Targets(r)' = Targets(r) /\ Others(r)' = Others(r) /\ Fetched(r)' = Items(N)
    <2>1. Limit(r)' = L
      BY <1>1 DEF Limit, L
    <2>2. Targets(r)' = Targets(r) /\ Others(r)' = Others(r)
      BY <1>1 DEF Targets, Others
    <2>3. Fetched(r)' = Items(N)
      BY <1>6, <1>7 DEF Fetched
    <2> QED
      BY <2>1, <2>2, <2>3
  <1>10. Ordered(r)'
    BY <1>4, <1>6, <1>7 DEF Ordered, Ascending
  <1>11. HitsOK(r)'
    BY <1>1, <1>3, <1>5, <1>6, <1>7, <1>9 DEF HitsOK
  <1>12. Frozen(r)'
    BY <1>1, <1>6 DEF SearchOK, Frozen, Searching
  <1>13. Complete(r)'
    <2> SUFFICES ASSUME quiet[r]
                 PROVE  /\ Items(N) \subseteq start[r].vectors
                        /\ \A w \in Targets(r) \ Items(N) :
                              /\ \A f \in Items(N) : f < w
                              /\ Roomy(r)' => L <= Cardinality(Targets(r) \cap Items(N))
      BY <1>1, <1>6, <1>9 DEF Complete
    <2>1. vectors = start[r].vectors
      BY DEF SearchOK, Frozen
    <2>2. ASSUME NEW w \in Targets(r) \ Items(N)
          PROVE  Len(N) = Fetch(L) /\ \A f \in Items(N) : f < w
      <3>1. w \in vectors /\ \A k \in DOMAIN N : N[k] # w
        BY <2>1 DEF Targets, Items
      <3> QED
        BY <1>4, <3>1 DEF Items
    <2>3. ASSUME Len(N) = Fetch(L), Roomy(r)' PROVE L <= Cardinality(Targets(r) \cap Items(N))
      <3> DEFINE A == Targets(r) \cap Items(N) B == Items(N) \ A C == Others(r)
      <3>1. N \in Seq(Nat)
        <4>1. N \in [1 .. Len(N) -> vectors] /\ Len(N) \in Nat
          BY <1>4
        <4>2. N \in [1 .. Len(N) -> Nat]
          BY <1>2, <4>1
        <4> QED
          BY <4>1, <4>2
      <3>2. IsFiniteSet(Items(N)) /\ Cardinality(Items(N)) = Fetch(L)
        BY <1>4, <2>3, <3>1, AscendingRange DEF Items
      <3>3. A \subseteq Items(N) /\ B \subseteq Items(N) /\ B \subseteq C /\ C \subseteq vectors
        BY <1>7, <2>1 DEF Others
      <3>4. A \cup B = Items(N) /\ A \cap B = {}
        OBVIOUS
      <3> HIDE DEF A, B, C
      <3>5. IsFiniteSet(A) /\ IsFiniteSet(B) /\ IsFiniteSet(C)
        BY <1>2, <3>2, <3>3, FS_Subset
      <3>6. Cardinality(A) \in Nat /\ Cardinality(B) \in Nat /\ Cardinality(C) \in Nat
        BY <3>5, FS_CardinalityType
      <3>7. Cardinality(B) <= Cardinality(C)
        BY <3>3, <3>5, FS_Subset
      <3>8. Cardinality(Items(N)) = Cardinality(A) + Cardinality(B)
        <4>1. Cardinality(A \cup B)
                = Cardinality(A) + Cardinality(B) - Cardinality(A \cap B)
          BY <3>5, FS_Union
        <4>2. Cardinality(A \cap B) = 0
          BY <3>4, FS_EmptySet
        <4>3. Cardinality(A \cup B) = Cardinality(A) + Cardinality(B)
          BY <3>6, <4>1, <4>2
        <4> QED
          BY <3>4, <4>3
      <3>9. Cardinality(C) + L <= Fetch(L)
        <4>1. Cardinality(C) + L <= MinFetch \/ Cardinality(C) + L <= OverFetch * L
          BY <1>9, <2>3 DEF Roomy, C
        <4> QED
          BY <1>3, <3>6, <4>1, FetchRoom
      <3>10. L <= Cardinality(A)
        BY <1>3, <3>2, <3>6, <3>7, <3>8, <3>9
      <3> QED
        BY <3>10 DEF A
    <2> QED
      BY <1>7, <2>1, <2>2, <2>3
  <1>14. SearchOK(r)'
    BY <1>10, <1>11, <1>12, <1>13 DEF SearchOK
  <1>15. ASSUME NEW s \in Requests \ {r} PROVE SearchOK(s)'
    BY <1>1, Unmoved DEF SearchTyped
  <1> QED
    BY <1>8, <1>14, <1>15

\* The rows are read to their end.
LEMMA ScanSearch ==
    ASSUME PoolTyped, SearchInv, NEW r \in Requests, Scan(r)
    PROVE  SearchInv'
  <1> USE DEF SearchInv, PoolTyped
  <1>1. /\ pc[r] = "scan" /\ pc' = [pc EXCEPT ![r] = "hydrate"]
        /\ UNCHANGED <<live, vectors, arg, cands, hits, start, quiet>>
    BY DEF Scan, Goto, db
  <1>2. SearchTyped'
    BY <1>1 DEF SearchTyped
  <1>3. Limit(r) \in Nat \ {0} /\ Limit(r)' = Limit(r) /\ pc'[r] = "hydrate" /\ hits[r] = <<>>
    BY <1>1, LimitType DEF Limit, SearchOK, HitsOK
  <1>4. /\ Targets(r)' = Targets(r) /\ Others(r)' = Others(r)
        /\ Fetched(r)' = Fetched(r) /\ Roomy(r)' = Roomy(r)
    BY <1>1, <1>3 DEF Targets, Others, Fetched, Items, Roomy
  <1>5. Ordered(r)' /\ Frozen(r)'
    BY <1>1, <1>3 DEF SearchOK, Ordered, Frozen, Ascending, Items, Searching
  <1>6. HitsOK(r)'
    BY <1>1, <1>3 DEF SearchOK, HitsOK, Items, Searching
  <1>7. Complete(r)'
    BY <1>1, <1>3, <1>4 DEF SearchOK, Complete
  <1>8. ASSUME NEW s \in Requests \ {r} PROVE SearchOK(s)'
    BY <1>1, Unmoved DEF SearchTyped
  <1> QED
    BY <1>2, <1>5, <1>6, <1>7, <1>8 DEF SearchOK

\* A candidate is looked up, is a hit or is none, and enough hits end the search.
LEMMA HydrateSearch ==
    ASSUME PoolTyped, SearchInv, NEW r \in Requests, Hydrate(r)
    PROVE  SearchInv'
  <1> USE DEF SearchInv, PoolTyped
  <1>1. /\ pc[r] = "hydrate"
        /\ UNCHANGED <<live, vectors, arg, start, quiet>>
    BY DEF Hydrate, db
  <1>2. /\ Limit(r) \in Nat \ {0} /\ Limit(r)' = Limit(r)
        /\ Targets(r)' = Targets(r) /\ Others(r)' = Others(r) /\ Roomy(r)' = Roomy(r)
    BY <1>1, LimitType DEF Limit, Targets, Others, Roomy
  <1>3. ASSUME NEW s \in Requests \ {r} PROVE SearchOK(s)'
    BY <1>1, Unmoved DEF SearchTyped, Hydrate, Goto
  <1>4. Ordered(r) /\ HitsOK(r) /\ Frozen(r) /\ Complete(r) /\ live \subseteq start[r].live
    BY <1>1 DEF SearchOK, HitsOK, Searching
  <1>5. CASE cands[r] = <<>> /\ pc' = [pc EXCEPT ![r] = "ok"] /\ UNCHANGED <<cands, hits>>
    <2>1. SearchTyped' /\ pc'[r] = "ok"
      BY <1>1, <1>5 DEF SearchTyped
    <2>2. Fetched(r)' = Fetched(r)
      BY <1>5 DEF Fetched, Items
    <2>3. Ordered(r)' /\ Frozen(r)'
      BY <1>1, <1>4, <1>5, <2>1 DEF Ordered, Frozen, Ascending, Items
    <2>4. HitsOK(r)'
      BY <1>1, <1>2, <1>4, <1>5, <2>1 DEF HitsOK, Items, Searching
    <2>5. Complete(r)'
      BY <1>1, <1>2, <1>4, <1>5, <2>1, <2>2 DEF Complete
    <2> QED
      BY <1>3, <2>1, <2>3, <2>4, <2>5 DEF SearchOK
  <1>6. CASE cands[r] # <<>> /\ ~(UNCHANGED cands)
    <2> DEFINE c == Head(cands[r]) rest == Tail(cands[r])
               found == IF Wanted(r, c) THEN Append(hits[r], c) ELSE hits[r]
               where == IF Len(found) >= Limit(r) THEN "ok" ELSE "hydrate"
    <2>1. /\ pc' = [pc EXCEPT ![r] = where]
          /\ hits' = [hits EXCEPT ![r] = found]
          /\ cands' = [cands EXCEPT ![r] = rest]
      BY <1>6 DEF Hydrate, Goto
    <2>2. cands[r] \in Seq(Entities) /\ hits[r] \in Seq(Entities) /\ Ascending(cands[r]) /\ Ascending(hits[r])
      BY <1>4 DEF SearchTyped, Ordered
    <2>3. /\ c \in Entities /\ c \in Items(cands[r])
          /\ rest \in Seq(Entities) /\ Ascending(rest)
          /\ Items(cands[r]) = {c} \cup Items(rest)
          /\ \A d \in Items(rest) : c < d
      BY <1>6, <2>2, HeadTail
    <2> HIDE DEF c, rest
    <2>4. \A h \in Items(hits[r]) : h < c /\ \A d \in Items(rest) : h < d
      BY <1>4, <2>3 DEF Ordered
    <2>5. /\ found \in Seq(Entities) /\ Ascending(found)
          /\ Wanted(r, c) => Len(found) = Len(hits[r]) + 1 /\ Items(found) = Items(hits[r]) \cup {c}
          /\ ~Wanted(r, c) => found = hits[r]
      BY <2>2, <2>3, <2>4, OneMore
    <2> HIDE DEF found
    <2>6. hits'[r] = found /\ cands'[r] = rest /\ pc'[r] = where
      BY <2>1 DEF SearchTyped
    <2>7. SearchTyped'
      BY <1>1, <2>1, <2>3, <2>5 DEF SearchTyped
    <2>8. Len(hits[r]) < Limit(r) /\ Len(hits[r]) \in Nat /\ Len(found) \in Nat
      BY <1>1, <1>4, <2>2, <2>5 DEF HitsOK
    <2>9. Len(found) <= Limit(r) /\ (where = "ok" => Len(found) = Limit(r))
          /\ (where # "ok" => where = "hydrate" /\ Len(found) < Limit(r))
      BY <1>2, <2>5, <2>8
    <2> HIDE DEF where
    <2>10. Ordered(r)'
      BY <2>3, <2>4, <2>5, <2>6 DEF Ordered
    <2>11. HitsOK(r)'
      BY <1>1, <1>2, <1>4, <2>5, <2>6, <2>9 DEF HitsOK, Wanted, Searching
    <2>12. Frozen(r)'
      BY <1>1, <1>4, <2>6, <2>9 DEF Frozen, Searching
    <2>13. Fetched(r)' = IF Wanted(r, c) THEN Fetched(r) ELSE Fetched(r) \ {c}
      <3>1. Fetched(r)' = Items(found) \cup Items(rest)
        BY <2>6 DEF Fetched
      <3>2. c \notin Items(rest) /\ c \notin Items(hits[r])
        BY <2>3, <2>4, EntitiesAssumption
      <3> QED
        BY <2>3, <2>5, <3>1, <3>2 DEF Fetched
    <2>14. Complete(r)'
      <3> SUFFICES ASSUME quiet[r]
                   PROVE  /\ Fetched(r)' \subseteq start[r].vectors
                          /\ \A w \in Targets(r) \ Fetched(r)' :
                                /\ \A f \in Fetched(r)' : f < w
                                /\ Roomy(r) => Limit(r) <= Cardinality(Targets(r) \cap Fetched(r)')
        BY <1>1, <1>2, <2>6, <2>9 DEF Complete
      <3>1. /\ Fetched(r) \subseteq start[r].vectors
            /\ \A w \in Targets(r) \ Fetched(r) :
                  /\ \A f \in Fetched(r) : f < w
                  /\ Roomy(r) => Limit(r) <= Cardinality(Targets(r) \cap Fetched(r))
        BY <1>1, <1>4 DEF Complete
      <3>2. CASE Wanted(r, c)
        BY <2>13, <3>1, <3>2
      <3>3. CASE ~Wanted(r, c)
        <4>1. c \notin Targets(r)
          BY <1>4, <3>3 DEF Targets, Wanted, Frozen
        <4>2. Fetched(r)' = Fetched(r) \ {c}
          BY <2>13, <3>3
        <4>3. Targets(r) \ Fetched(r)' = Targets(r) \ Fetched(r)
          BY <4>1, <4>2
        <4>4. Targets(r) \cap Fetched(r)' = Targets(r) \cap Fetched(r)
          BY <4>1, <4>2
        <4> QED
          BY <3>1, <4>2, <4>3, <4>4
      <3> QED
        BY <3>2, <3>3
    <2> QED
      BY <1>3, <2>7, <2>10, <2>11, <2>12, <2>14 DEF SearchOK
  <1>7. cands[r] # <<>> => Tail(cands[r]) # cands[r]
    <2> SUFFICES ASSUME cands[r] # <<>> PROVE Len(Tail(cands[r])) # Len(cands[r])
      OBVIOUS
    <2>1. cands[r] \in Seq(Entities)
      BY DEF SearchTyped
    <2>2. Len(Tail(cands[r])) = Len(cands[r]) - 1 /\ Len(cands[r]) \in Nat
      BY <2>1
    <2> QED
      BY <2>2
  <1> QED
    BY <1>1, <1>5, <1>6, <1>7 DEF Hydrate, Goto, SearchTyped

\* The statements of a transaction, of an archive and of an update are no search.
LEMMA WriteSearch ==
    ASSUME PoolTyped, SearchInv, NEW r \in Requests,
           \/ BeginTx(r) \/ TxExec(r) \/ Commit(r)
           \/ GetEntity(r) \/ AppendEvent(r) \/ Archive(r)
    PROVE  SearchInv'
  <1> USE DEF SearchInv, PoolTyped
  <1>1. /\ pc[r] \in InTx \cup Writing \cup {"begin"} /\ pc'[r] \in InTx \cup Writing \cup {"ok"}
        /\ \A s \in Requests \ {r} : pc'[s] = pc[s]
        /\ live' \subseteq live
        /\ UNCHANGED <<arg, cands, hits, start>>
        /\ quiet' = [s \in Requests |-> FALSE] \/ UNCHANGED <<live, vectors, quiet>>
    <2>1. CASE BeginTx(r) \/ Commit(r) \/ GetEntity(r) \/ AppendEvent(r) \/ Archive(r)
      BY <2>1 DEF BeginTx, Commit, GetEntity, AppendEvent, Archive, Goto, Disturb, db, InTx,
         Writing, Holding
    <2>2. CASE TxExec(r)
      <3>1. pc[r] \in {"delete.vector", "delete.meta", "insert.vector", "insert.meta"}
        BY <2>2 DEF TxExec, Holding
      <3>2. AfterStatement(pc[r]) \in {"delete.meta", "insert.vector", "insert.meta", "commit"}
        BY <3>1, WrittenIs
      <3> QED
        BY <2>2, <3>1, <3>2 DEF TxExec, Goto, db, InTx, Holding
    <2> QED
      BY <2>1, <2>2
  <1>2. cands[r] = <<>> /\ hits[r] = <<>> /\ quiet[r] = FALSE
    BY <1>1 DEF SearchOK, HitsOK, Frozen, Searching, SearchTyped, InTx, Writing, Holding
  <1>3. SearchTyped'
    BY <1>1 DEF SearchTyped
  <1>4. SearchOK(r)'
    <2>1. pc'[r] \notin Searching /\ ~quiet'[r]
      BY <1>1, <1>2 DEF Searching, InTx, Writing, Holding
    <2> QED
      BY <1>1, <1>2, <2>1, NothingFound
  <1>5. ASSUME NEW s \in Requests \ {r} PROVE SearchOK(s)'
    BY <1>1, Unmoved DEF SearchTyped
  <1> QED
    BY <1>3, <1>4, <1>5

\* An update may bring an entity back: searches under way take note of it.
LEMMA UpsertSearch ==
    ASSUME PoolTyped, SearchInv, ArgsOK, NEW r \in Requests, Upsert(r)
    PROVE  SearchInv'
  <1> USE DEF SearchInv, PoolTyped
  <1>1. /\ pc[r] = "upsert" /\ pc' = [pc EXCEPT ![r] = "ok"]
        /\ arg[r].entity \in Entities
        /\ UNCHANGED <<vectors, arg, cands, hits>>
        /\ quiet' = [s \in Requests |-> FALSE]
        /\ start' = [s \in Requests |->
                        IF pc[s] \in Searching THEN [start[s] EXCEPT !.live = @ \cup live'] ELSE start[s]]
    BY DEF Upsert, Goto, Disturb, ArgsOK, Writing
  <1>2. live' \subseteq Entities
    BY <1>1 DEF Upsert, SearchTyped
  <1>3. start' \in [Requests -> [live: SUBSET Entities, vectors: SUBSET Entities]]
    <2>1. ASSUME NEW s \in Requests PROVE start'[s] \in [live: SUBSET Entities, vectors: SUBSET Entities]
      <3>1. /\ start[s] \in [live: SUBSET Entities, vectors: SUBSET Entities]
            /\ start'[s] = IF pc[s] \in Searching
                           THEN [start[s] EXCEPT !.live = @ \cup live'] ELSE start[s]
        BY <1>1 DEF SearchTyped
      <3> QED
        BY <3>1, <1>2
    <2> QED
      BY <1>1, <2>1
  <1>4. SearchTyped'
    BY <1>1, <1>2, <1>3 DEF SearchTyped
  <1>5. cands[r] = <<>> /\ hits[r] = <<>>
    BY <1>1 DEF SearchOK, HitsOK
  <1>6. SearchOK(r)'
    <2>1. pc'[r] \notin Searching /\ ~quiet'[r]
      BY <1>1 DEF Searching
    <2> QED
      BY <1>1, <1>5, <2>1, NothingFound
  <1>7. ASSUME NEW s \in Requests \ {r} PROVE SearchOK(s)'
    <2>1. /\ pc'[s] = pc[s] /\ hits'[s] = hits[s] /\ cands'[s] = cands[s] /\ arg'[s] = arg[s]
          /\ ~quiet'[s]
      BY <1>1
    <2>2. /\ start[s].live \subseteq start'[s].live
          /\ pc[s] \in Searching => live' \subseteq start'[s].live
      BY <1>1 DEF SearchTyped
    <2>3. SearchOK(s) /\ Limit(s)' = Limit(s)
      BY <2>1 DEF Limit
    <2>4. Ordered(s)'
      BY <2>1, <2>3 DEF SearchOK, Ordered, Ascending, Items
    <2>6. HitsOK(s)'
      <3>1. HitsOK(s)
        BY <2>3 DEF SearchOK
      <3>2. \A h \in Items(hits[s])' : GroupOf[h] = arg'[s].group /\ h \in start'[s].live
        BY <2>1, <2>2, <3>1 DEF HitsOK, Items
      <3>3. /\ Len(hits'[s]) <= Limit(s)'
            /\ pc'[s] = "hydrate" => Len(hits'[s]) < Limit(s)'
            /\ pc'[s] \notin {"hydrate", "ok"} => hits'[s] = <<>>
            /\ pc'[s] \notin {"scan", "hydrate", "ok"} => cands'[s] = <<>>
            /\ pc'[s] \in Searching => live' \subseteq start'[s].live
        BY <2>1, <2>2, <2>3, <3>1 DEF HitsOK
      <3> QED
        BY <3>2, <3>3 DEF HitsOK
    <2>5. Frozen(s)' /\ Complete(s)'
      BY <2>1 DEF Frozen, Complete
    <2> QED
      BY <2>4, <2>6, <2>5 DEF SearchOK
  <1> QED
    BY <1>4, <1>6, <1>7

\* A handler that ends, or that the process takes with it, forgets what it found.
LEMMA EndSearch ==
    ASSUME PoolTyped, SearchInv, NEW R \in SUBSET Requests, Forget(R),
           UNCHANGED <<live, vectors, arg>>,
           \A s \in R : pc'[s] \notin Searching,
           \A s \in Requests \ R : pc'[s] = pc[s]
    PROVE  SearchInv'
  <1> USE DEF SearchInv, PoolTyped
  <1>1. SearchTyped'
    <2>1. <<>> \in Seq(Entities) /\ NoStart \in [live: SUBSET Entities, vectors: SUBSET Entities]
      BY DEF NoStart
    <2>2. /\ live' \subseteq Entities
          /\ cands' \in [Requests -> Seq(Entities)] /\ hits' \in [Requests -> Seq(Entities)]
      BY <2>1 DEF SearchTyped, Forget
    <2>3. /\ start' \in [Requests -> [live: SUBSET Entities, vectors: SUBSET Entities]]
          /\ quiet' \in [Requests -> BOOLEAN]
      BY <2>1 DEF SearchTyped, Forget
    <2> QED
      BY <2>2, <2>3 DEF SearchTyped
  <1>2. ASSUME NEW s \in R PROVE SearchOK(s)'
    BY <1>2, NothingFound DEF Forget
  <1>3. ASSUME NEW s \in Requests \ R PROVE SearchOK(s)'
    BY <1>3, Unmoved DEF Forget, SearchTyped
  <1> QED
    BY <1>1, <1>2, <1>3

LEMMA NextSearchInv == PoolInv /\ PoolTyped' /\ SearchInv /\ [PoolNext]_poolVars => SearchInv'
  <1> SUFFICES ASSUME PoolTyped, ArgsOK, PoolTyped', SearchInv, [PoolNext]_poolVars PROVE SearchInv'
    BY DEF PoolInv
  <1>1. ASSUME NEW r \in Requests, Fail(r) \/ Return(r) PROVE SearchInv'
    <2>1. /\ Forget({r}) /\ UNCHANGED <<live, vectors, arg>>
          /\ pc'[r] \notin Searching
          /\ \A s \in Requests \ {r} : pc'[s] = pc[s]
      BY <1>1 DEF Fail, Return, Goto, db, Searching, PoolTyped
    <2> QED
      BY <2>1, EndSearch
  <1>2. CASE PoolReset
    <2>1. /\ Forget(Requests) /\ UNCHANGED <<live, vectors, arg>>
          /\ \A s \in Requests : pc'[s] \notin Searching
      BY <1>2 DEF PoolReset, Running, db, Searching
    <2> QED
      BY <2>1, EndSearch
  <1>3. CASE UNCHANGED poolVars
    <2>1. ASSUME NEW s \in Requests PROVE SearchOK(s)'
      BY <1>3, Unmoved DEF poolVars, db, SearchInv
    <2> QED
      BY <1>3, <2>1 DEF poolVars, db, SearchInv, SearchTyped
  <1> QED
    BY <1>1, <1>2, <1>3, AcceptSearch, QuerySearch, ScanSearch, HydrateSearch, WriteSearch,
       UpsertSearch
       DEF PoolNext, Step

\* What a search that ends without a write beside it returns (SearchTopLimit).
LEMMA TopLimit ==
    ASSUME PoolTyped, SearchInv
    PROVE  SearchTopLimit
  <1> SUFFICES ASSUME NEW r \in Requests, pc[r] = "ok", quiet[r], Roomy(r)
               PROVE  hits[r] = Nearest(Limit(r), Targets(r))
    BY DEF SearchTopLimit, Undisturbed, Roomy
  <1> DEFINE W == Targets(r) L == Limit(r) H == Items(hits[r])
  <1>1. L \in Nat \ {0}
    BY LimitType DEF PoolTyped
  <1>2. /\ W \subseteq start[r].vectors /\ start[r].vectors \subseteq Entities
        /\ W \in SUBSET Nat /\ IsFiniteSet(W)
    <2>1. W \subseteq start[r].vectors /\ start[r].vectors \subseteq Entities
      BY DEF SearchInv, SearchTyped, Targets
    <2> HIDE DEF W
    <2> QED
      BY <2>1, EntitiesAssumption, FS_Subset
  <1>3. Ordered(r) /\ HitsOK(r) /\ Complete(r) /\ hits[r] \in Seq(Entities)
    BY DEF SearchInv, SearchOK, SearchTyped
  <1>4. /\ Fetched(r) \subseteq start[r].vectors
        /\ \A w \in W \ Fetched(r) : /\ \A f \in Fetched(r) : f < w
                                     /\ L <= Cardinality(W \cap Fetched(r))
        /\ cands[r] = <<>> \/ Len(hits[r]) = L
    BY <1>3 DEF Complete
  <1>5. H \subseteq W
    BY <1>3, <1>4 DEF HitsOK, Targets, Fetched
  <1>6. Ascending(hits[r]) /\ hits[r] \in Seq(W)
    <2>1. \A i \in DOMAIN hits[r] : hits[r][i] \in W
      BY <1>5 DEF Items
    <2>2. hits[r] \in [1 .. Len(hits[r]) -> W] /\ Len(hits[r]) \in Nat
      BY <1>3, <2>1
    <2> QED
      BY <1>3, <2>2 DEF Ordered
  <1> HIDE DEF W, L
  <1>7. IsFiniteSet(H) /\ Cardinality(H) = Len(hits[r])
    <2>1. hits[r] \in [1 .. Len(hits[r]) -> W] /\ Len(hits[r]) \in Nat
      BY <1>6
    <2>2. hits[r] \in [1 .. Len(hits[r]) -> Nat]
      BY <1>2, <2>1
    <2>3. hits[r] \in Seq(Nat)
      BY <2>1, <2>2
    <2> QED
      BY <1>6, <2>3, AscendingRange DEF Items
  <1>8. ASSUME NEW w \in W
        PROVE  \/ \E k \in DOMAIN hits[r] : hits[r][k] = w
               \/ \A k \in DOMAIN hits[r] : hits[r][k] < w
    <2>1. CASE w \in H
      BY <2>1 DEF Items
    <2>2. CASE w \in Items(cands[r])
      BY <1>3, <2>2 DEF Ordered, Items
    <2>3. CASE w \notin Fetched(r)
      BY <1>4, <2>3 DEF Fetched, Items
    <2> QED
      BY <2>1, <2>2, <2>3 DEF Fetched
  <1>9. Cardinality(W) \in Nat /\ Len(hits[r]) \in Nat /\ Len(hits[r]) <= L
    BY <1>2, <1>6, <1>3, FS_CardinalityType DEF HitsOK, L
  <1>10. Len(hits[r]) = IF L < Cardinality(W) THEN L ELSE Cardinality(W)
    <2>1. Cardinality(H) <= Cardinality(W)
      BY <1>2, <1>5, FS_Subset
    <2>2. CASE Len(hits[r]) = L
      BY <1>1, <1>7, <1>9, <2>1, <2>2
    <2>3. CASE cands[r] = <<>>
      <3>1. Fetched(r) = H /\ W \cap Fetched(r) = H
        BY <1>5, <2>3 DEF Fetched, Items
      <3>2. CASE W \ H = {}
        <4>1. W = H
          BY <1>5, <3>2
        <4> QED
          BY <1>1, <1>7, <1>9, <4>1
      <3>3. CASE W \ H # {}
        <4>1. L <= Cardinality(H)
          BY <1>4, <3>1, <3>3
        <4> QED
          BY <1>1, <1>7, <1>9, <2>1, <4>1
      <3> QED
        BY <3>2, <3>3
    <2> QED
      BY <1>4, <2>2, <2>3
  <1> QED
    BY <1>1, <1>2, <1>6, <1>8, <1>10, NearestUnique DEF W, L

\* The invariant of the searches holds in every behaviour.
LEMMA SearchInvariant == PoolSpec => []SearchInv
  <1>1. PoolInit => SearchInv
    <2> SUFFICES ASSUME PoolInit PROVE SearchInv
      OBVIOUS
    <2>1. SearchTyped
      <3>1. NoStart \in [live: SUBSET Entities, vectors: SUBSET Entities] /\ <<>> \in Seq(Entities)
        BY DEF NoStart
      <3> QED
        BY <3>1 DEF PoolInit, SearchTyped
    <2>2. ASSUME NEW r \in Requests PROVE SearchOK(r)
      <3>1. /\ cands[r] = <<>> /\ hits[r] = <<>> /\ quiet[r] = FALSE /\ pc[r] = "idle"
            /\ arg[r] \in Args
        BY ArgTypes DEF PoolInit
      <3>2. Limit(r) \in Nat \ {0}
        BY <3>1, LimitType
      <3>3. Ordered(r) /\ HitsOK(r)
        BY <3>1, <3>2 DEF Ordered, HitsOK, Ascending, Items, Searching
      <3>4. Frozen(r) /\ Complete(r)
        BY <3>1 DEF Frozen, Complete
      <3> QED
        BY <3>3, <3>4 DEF SearchOK
    <2> QED
      BY <2>1, <2>2 DEF SearchInv
  <1>2. PoolInv => PoolTyped
    BY DEF PoolInv
  <1> QED
    BY <1>1, <1>2, NextSearchInv, PoolInvariant, PTL DEF PoolSpec

\* SemanticSearch answers with entities of its peer and type that were live at some
\* moment since it began, nearest first and no more than the limit, whatever updates,
\* archives and embeddings are written while it looks its candidates up; and, if no
\* row changes meanwhile and the rest leaves room, with the nearest that there are.
THEOREM SearchCorrect == PoolSpec => []SearchRight
  <1>1. PoolTyped /\ SearchTyped => PoolTypeOK
    BY DEF PoolTyped, SearchTyped, PoolTypeOK, Searching, InTx, Writing, Holding
  <1>2. PoolTyped /\ SearchInv => SearchSound
    <2> SUFFICES ASSUME SearchInv, NEW r \in Requests, NEW i \in DOMAIN hits[r]
                 PROVE  /\ GroupOf[hits[r][i]] = arg[r].group
                        /\ hits[r][i] \in start[r].live
                        /\ \A j \in 1 .. i - 1 : hits[r][j] < hits[r][i]
      BY DEF SearchInv, SearchOK, HitsOK, SearchSound
    <2>1. Ascending(hits[r]) /\ HitsOK(r) /\ hits[r] \in Seq(Entities)
      BY DEF SearchInv, SearchOK, Ordered, SearchTyped
    <2>2. \A j \in 1 .. i - 1 : j \in DOMAIN hits[r] /\ j < i
      BY <2>1
    <2> QED
      BY <2>1, <2>2 DEF HitsOK, Items, Ascending
  <1>3. PoolInv /\ SearchInv => SearchRight
    BY <1>1, <1>2, TopLimit DEF PoolInv, SearchInv, SearchRight
  <1> QED
    BY <1>3, PoolInvariant, SearchInvariant, PTL

-----------------------------------------------------------------------------
\* The two processes are where they can be.
ProcessTyped ==
    /\ gate \in {"up", "draining", "down"}
    /\ coggo \in {"up", "draining", "closing", "down"}
    /\ struck \subseteq Requests

LEMMA ProcessTypes == Spec => []ProcessTyped
  <1>1. Init => ProcessTyped
    BY DEF Init, ProcessTyped
  <1>2. ProcessTyped /\ [Next]_vars => ProcessTyped'
    <2> SUFFICES ASSUME ProcessTyped, [Next]_vars PROVE ProcessTyped'
      OBVIOUS
    <2> USE DEF ProcessTyped
    <2>1. CASE UNCHANGED vars
      BY <2>1 DEF vars
    <2>2. ASSUME NEW r \in Requests, GateAccept(r) \/ Direct(r) \/ RequestStep(r) \/ Break(r)
          PROVE  ProcessTyped'
      BY <2>2 DEF GateAccept, Direct, RequestStep, Refuse, Proxy, Serve, Reply, Break
    <2>3. CASE GateStart \/ GateSignal \/ GateDrained \/ GateDies
      BY <2>3 DEF GateStart, GateSignal, GateDrained, GateDies, GateGone, InCoggo
    <2>4. CASE Start \/ Signal \/ Drained \/ ListenFails \/ Exit \/ Crash
      BY <2>4 DEF Start, Signal, Drained, ListenFails, Exit, Crash, Gone, InCoggo
    <2> QED
      BY <2>1, <2>2, <2>3, <2>4 DEF Next
  <1> QED
    BY <1>1, <1>2, PTL DEF Spec

\* The state of both processes and of the store keeps its types, whatever stops,
\* fails or crashes (main.go, serve.go, server.go).
THEOREM TypeCorrect == Spec => []TypeOK
  <1>1. PoolTyped /\ SearchInv /\ ServingInv /\ ProcessTyped => TypeOK
    BY DEF PoolTyped, SearchInv, SearchTyped, ServingInv, StageTyped, ProcessTyped, TypeOK,
       PoolTypeOK, Searching, InTx, Writing, Holding
  <1>2. PoolInv => PoolTyped
    BY DEF PoolInv
  <1> QED
    BY <1>1, <1>2, PoolInvariant, SearchInvariant, ServesStore, ServingInvariant, ProcessTypes, PTL

=============================================================================
