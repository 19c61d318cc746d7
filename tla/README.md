# coggo, modelled and verified in TLA+

coggo keeps a personal knowledge base ("substrate") for one or more *peers*. A
peer has an append-only event log and two projections of it, entities and
relations, in SQLite. Clients reach it through MCP tools, guarded by bearer
tokens; a separate OAuth gateway puts the MCP server on the network for chosen
Google accounts. The specifications here are translated from the Go code, checked
with TLC on small instances, and the most important results are proved with TLAPS
for every value of the constants.

## 1. Inventory

| component | source | state | operations |
|---|---|---|---|
| Federation write path | `internal/federation/handler.go`, `internal/store/sqlite.go` | tables `events`, `entities`, `relations` | entity create, update, archive; relation create, dissolve; queries; time travel |
| Store connection | `internal/store/sqlite.go` | one connection, a cursor or a transaction on it, the embedding tables | SemanticSearch, UpsertEmbedding, single statements |
| Type definitions | `internal/schema/resolver.go`, `handler.go` (type.define), `internal/cli/runtime.go` (Setup) | a resolver per process; definition entities in the store | define, resolve, rehydrate at start |
| Bearer tokens | `internal/auth/tokens.go`, `internal/cli/tokens.go` | a list per process, `tokens.json` | Open, Issue, Verify, touch, Revoke |
| Peer registry and identity backup | `internal/peer/registry.go`, `internal/cli/peers.go`, `init.go`, `backup.go` | two indexes per process, `peers.json`, a backup file | Add, Rename, UpdateSettings, export, import |
| MCP server, router | `internal/mcp`, `internal/federation/router.go` | the registry and tokens as read at start, handlers by DID | authorise, route, cross-peer query |
| Server processes | `internal/mcp/server.go`, `internal/cli/serve.go`, `cmd/coggo/main.go`, `cmd/coggo-oauth-gateway/main.go` | up, draining, closing, down | start, serve, drain, stop |
| Gateway: token validation | `cmd/coggo-oauth-gateway/google_validator.go` | a cache of positive answers | Validate |
| Gateway: rate limits | `cmd/coggo-oauth-gateway/ratelimit.go` | limiters by email | allow, sweep |
| Field validation, prompts, projection, briefing, queries, text search, seed ids | `internal/schema/seed.go`, `internal/cli/entities.go`, `relations.go`, `prompt.go`, `runtime.go`, `internal/mcp/projection.go`, `internal/briefing/today.go`, `internal/store/sqlite.go` | none | pure functions and queries |
| Configuration, keys, embeddings client, printing commands | the rest | files and output | no interaction worth a model |

**Interactions.** A tool call (`mcp/tools.go`) authorises with the token store and the
registry, builds an envelope and hands it to the router; the router finds the
`StoreHandler` of the peer; the handler runs SQL statements on a database that all
peers and all coggo processes share, over one connection per process. Commands
(`coggo token`, `coggo peer`, `coggo type`) are processes of their own that read the
same files at start and rewrite them; the server rewrites `tokens.json` as well. In
the gateway, requests are goroutines that share a cache and a map of limiters with
each other and with a sweep; it forwards what it lets through to coggo.

**What is hard.**

* The handlers run several statements without a transaction. Requests interleave
  between them, statements fail between them, and the process may die between them.
* A cursor and a transaction keep the only connection; whoever asks for another
  statement meanwhile waits.
* State is read once and used later: the row an update merges into, the token and
  peer lists of a process, the resolver, a cached answer, a limiter taken from a
  map, the candidates of a search.
* A token is checked by the name of a peer, and the message goes to its DID.
* Files are replaced by truncate, write and rename, through a temporary name that
  processes share.
* Two processes stop in different ways while requests pass through both.
* Timestamps are compared as text.
* Queries have limits, and what is filtered afterwards may be beyond them.
* Things must end: requests whose statements fail, flushes that lose their file,
  calls to Google that are never answered, a shutdown that waits for handlers.

Each such place is listed with its line under `hazards` in `PROJECT.json`, with the
properties that would notice it going wrong.

**What makes each component correct.** The log is ahead of the projections and
rebuilds them; acknowledged writes last and are shown; the past does not change. A search finds
the nearest, and an embedding is never half stored. A revoked token is gone and an
issued one is kept, across restarts; no token reaches a peer it was not issued
for. A defined type means the same after a restart. A peer, which is the only copy
of its keys, is never lost. A stop loses no request and comes to an end. A revoked
Google token is admitted for a bounded time only. Eviction of idle limiters gives
nobody more than one bucket.

## 2. Modules

| module | models | proofs |
|---|---|---|
| `Stamps` | times as text, and the order SQLite gives them | |
| `Substrate` | the write path of all peers of a process | `SubstrateProofs` |
| `StorePool` | requests over the one connection of the store | `ServingProofs` |
| `Serving` | coggo and the gateway as processes, over `StorePool` | `ServingProofs` |
| `McpServer` | tool calls: authorise and route, beside commands and restarts | `McpServerProofs` |
| `TypeResolver` | type definitions, in memory and stored | `TypeResolverProofs` |
| `TokenStore` | token lists, `tokens.json` and its temporary file | `TokenStoreProofs` |
| `PeerRegistry` | the registry, its router entries, identity backup | `PeerRegistryProofs` |
| `GatewayValidator` | the validator's cache, for one token | `GatewayProofs` |
| `TokenBucket` | abstract: one bucket per email, kept for ever | |
| `RateLimiter` | the limiter map and its sweep; implements `TokenBucket` | `GatewayProofs` |
| `Validation`, `Prompts` | fields of a new entity, from a message and from the terminal | `PureFunctionsProofs` |
| `Projection`, `Briefing`, `Queries`, `Search` | algorithms without state | `PureFunctionsProofs` |
| `PureFunctions` | what these promise of one input | `PureFunctionsProofs` |

`MC*` modules hold the functions and symmetries that configurations need (`MCStorePool`
and `MCServing` place the entities of a search); `MCFunctions` feeds the pure algorithms
their inputs. `GatewayProofs` is about two
components that share no state; it extends both, so the validator's names
(`ValidatorInit`, `clock`, `Calls`) differ from the limiter's. Operators commented `Mutant:`
are plausible faults, each kept beside the definition it is a variant of; nothing in
the specifications uses them.

### Substrate

`events`, `entities` and `relations` are the tables. A client is a goroutine with at
most one request: `pc` says which statement comes next, `msg` is the envelope, `work`
the row the handler holds, `stamp` the time it read, `reply` what the request came to.

| action | code |
|---|---|
| `EntityCreate`, `EntityArchive`, `RelationCreate`, `RelationDissolve` | dispatch and the handler up to `AppendEvent` (no shared state is read in between) |
| `EntityUpdate`, `UpdateGet`, `UpdateMerge` | `opEntityUpdate`: dispatch, `GetEntity`, merge and stamp. A row that is not found is a nil dereference: the request is lost (`reply = "lost"`) |
| `AppendEvent` | the INSERT in `events` |
| `UpsertEntity`, `ArchiveEntity`, `UpsertRelation`, `DissolveRelation` | the projection statement and the answer; zero rows affected is an error after the event was logged |
| `Reject` | every error before the first write |
| `StatementFails`, `Crash` | an error of any statement; the end of the process |

`ListEvents` and `TimeTravel` are operators. Time is a counter that each reading advances,
so stamps differ; an identifier is the reading of the request that made it; the value a
write stores is its own stamp, so that no two writes look alike.

`Stamps` gives the order of RFC3339Nano text. A second has `TicksPerSecond` readings, and
the zeros at the end of a fraction are dropped, a fraction of zero with its point: a text
is shorter the rounder its time, and comes after all those that go on where it ends
(`"05.51Z" < "05.5Z" < "05Z"`). `Widths` says how many readings share each prefix of the
digits; with four readings and `{1, 2, 4}` the fractions have no, one or two (binary) digits.

In this version no MCP tool or command sends `entity.archive` or `relation.dissolve`;
the handler accepts them from any federation client, and its tests send them.

### StorePool and Serving

`conn` is who holds the one connection. A search waits for it (`Query`), keeps it while it
reads its cursor (`Scan` gives it back at the last row), and then looks its candidates up
one statement at a time (`Hydrate`), between which others write. `UpsertEmbedding` is
`BeginTx`, four `TxExec` and `Commit`; `txn` is what the transaction sees. `entity.archive`
is `AppendEvent` and `Archive`; `entity.update` is `GetEntity`, `AppendEvent` and `Upsert`,
which writes the archived state of its copy back and so may make an entity live again that
was archived in between. `Fail` is a failed statement or a cancelled context, with the
deferred `Close` or `Rollback`. Entities are numbered by their distance from the query
vector (`vec0` is declared without a metric, so it is Euclidean, and not the cosine that the
comment on `SemanticSearch` speaks of; the order is all that is modelled); `start`, `quiet`
and `revived` are ghosts that say what a search and a write may be held to. In this version
nothing sends a vector, so `SemanticSearch` and `UpsertEmbedding` are reached by federation
clients and tests only.

In `Serving` a request comes from a client on the machine (`Direct`) or through the
gateway (`GateAccept`, `Proxy`), is `Serve`d statement by statement and `Reply`ed to. The two
processes stop differently. Coggo's `Shutdown` has no deadline (`Signal`, `Drained`, `Exit`),
but a failed listener makes `Start` return at once and closes the store under running
handlers (`ListenFails`). The gateway waits five seconds (`GateSignal`, `GateDrained`) and
leaves what it forwarded running in coggo, with nobody to hear the answer
(`"orphan"`). `struck` collects the requests a process died under. A GET stream of the
MCP transport, which ends only when its client goes, would keep `Shutdown`
waiting; the modelled requests are calls.

### McpServer

The server reads `peers.json`, then `tokens.json` (`OpenRegistry`, `OpenTokens`: commands may
run in between), and answers calls from those copies. A call names peers by name or
DID; `Resolve` is by name first. `Authorise` resolves, verifies the token for the peer's
*name* and leaves a touch behind; `Route` sends to the *DID*; `Deny` puts an error in
the place of that peer; `RejectCall` ends a call with an entry that is no string; `Panic` ends
one whose handler dereferences nil, without an answer. A tool
about one peer is a cross-peer query of one entry. `Touch` replaces `tokens.json` by the
server's list. A command is one step here: `TokenStore` and `PeerRegistry` have their
file operations. The MCP library is external.

### TypeResolver

`opTypeDefine` is `Define` (time stamp), `Register` (resolver), `Append` (event), `Upsert`
(entity and answer), in that order, so a failure in between leaves a type in memory
only. `Setup` registers the seeds, then the rows of a query that returns the newest
`Limit` rows, newest first; its error is ignored. `LogSeed` and `StoreSeed` are the loop of
`AddPeerToRuntime` in the command that made the peer: it may fail or be killed before, between or
after them, and nothing resumes it. Entity types and relationship types are handled
alike and modelled once.

### TokenStore

Each process has its own list and mutex (`job` is the change under the mutex). `flushLocked`
is three file operations: truncate `tokens.json.tmp`, write it, rename it. `fd` follows an
open file through renames by other processes, and writing over what another process wrote
may leave bytes of both (`Garbled`). `Verify` leaves a touch behind that runs at any later
time; it is one step, since it reads the list once, under the lock, and what follows uses
only what it found there. `Exit` is the end of a command or a crash at any step. `alone` is
a ghost: no process has opened the store while another had it open. The scope of a token is
in `McpServer`.

### PeerRegistry

`byName` and `byDID` are the two maps, which share records. `Add`, `Rename` and
`UpdateSettings` change memory and are followed by `Flush`; `Wire` is
`AddPeerToRuntime`. A failed write ends the command (`Exit` in mid-job), except for
settings, whose error `init` ignores (`Fails`). Export and import are check, copy and
rename (`Copy`, `CopyRead`, `CopyMove`). `acked` is what the user was told.

### GatewayValidator

One token, any number of requests. `CacheHit` and `CacheMiss` are the first locked
section of `Validate`, `Google` the answer, `Admit` the checks, the second locked
section and the admission, `Reject` and `TimeOut` the denials. `lastOK` is when a
request was last let through. Timing assumptions: the HTTP timeout is enforced
(time does not pass beyond it for a call in flight), and reading the clock,
inserting and letting the request through happen at one instant.

### TokenBucket and RateLimiter

`allow` is two steps, because the limiter is used after the mutex is released: `Lookup`,
then `Allow` or `TooMany`. `Sweep(t)` evicts with a tick time `t` that may lie in the past,
since the ticker's value is read before the mutex is free. `rate.Limiter` is external:
tokens at last use, accrual on demand, a cap. A request costs `Cost` units so that
fractional rates are whole. `MaxDelay` bounds the time between `Lookup` and `Allow`. The
gateway takes any settings, so none are excluded: `Refilled` says that a bucket fills before
its entry may be evicted, and `Gain` is a rate at which it would. `Level` is the refinement
mapping: what a limiter holds now, and a full bucket where the map has no entry.

### The functions

* `Validation`: `ValidateEntity` over the kinds of JSON values, and what `opEntityCreate`
  makes of its issues.
* `Prompts`: `entity new`, `entity update` and `relation new`: a question per field, the text
  of the default, `coerceField`, and the message that results, which `Validation` receives.
* `Projection`: `projectJSON` on records that stand for JSON. An object has a role, what it
  is (an entity, a type definition or neither), which the code does not see: it goes by
  shape. The recursion of `walk` goes by depth: `Met` has the values it is called with,
  level by level, and `Walks` what these calls return, from the deepest upwards.
* `Briefing`: the sections of `buildPeerSection` through queries that return the newest
  `Limit` rows of a type, or fail: that for the goals ends the briefing, the errors of the
  others are discarded.
* `Queries`: `QueryEntities`, whose filters are JSON paths and whose order is that of text,
  beside the filters by plain key, the order by time and the cut that `TimeTravelEntities`
  has in Go.
* `Search`: `SubstringSearch` with the wildcards of `LIKE`.

A loop of the code is a recursive function from the number of turns to what the loop
has made so far (`Visits`, `Filled`, and `Replay` in `Substrate`), a recursion one
from depths to the calls there (`Walks`), and the sort of a finite set is the function
from places to rows (`Sorted`), so that all of these can be proved about.
`PureFunctions` has the input of an algorithm as its one variable and states the
properties; `MCFunctions` says which inputs TLC tries.

## 3. Runs

Bounds are constants of the models: `MaxClock` (readings of the clock, hence writes),
`LastInstant`, `MaxTokens`, `MaxDefs`, `MaxPeers`, `MaxAsked`, `MaxTime`, `MaxDay`, `Depth` (of
responses), and the sets.

| run | instance | checks |
|---|---|---|
| `writes` | 2 clients, 2 peers, all operations, 3 readings of the clock, half seconds, failures and crashes | `TypeOK`, `LoggedBeforeProjected`, `AckedWritesLast`, `AckedWritesShown`, `CreationImmutable`, `NoEdgeRevival`, `HistoryStable` |
| `search` | 3 requests, 3 entities of 2 peers, limits 1 and 2, failures and deaths | `SearchRight`, `EmbeddingsPaired` |
| `serving` | 2 requests, one of them through the gateway, 1 entity, failures, stops, crashes, fairness | `TypeOK`, `AnsweredDurable`, `StopLosesNone`, `RequestsEnd`, `SignalStops` |
| `mcp` | 1 call at a time, on up to 2 of 2 peers, 2 names, 1 token, commands, restarts | `NeverBeyondGrant`, `CrossPeerComplete`, `RetiredStaysOut` |
| `tokens` | 2 processes, 2 tokens, failures, deaths, fairness | `TokensTrue`, `FileWhole`, `LockReleased` |
| `types_restart` | 1 process, 2 handlers, 2 seeds and 1 other name, 4 definitions in all, all failures | `DefinitionsVisible`, `TypeLoggedFirst`, `UsedTypesStored` |
| `registry` | one command at a time, 3 peers, 3 names, failures, deaths | `Consistent`, `PeersKept` |
| `gateway` | 3 requests, one token, fairness | `AdmissionJustified`, `Decided` |
| `rate_limit` | 2 requests, 2 emails, 8 ticks, a bucket that is refilled in time | `KeepsBuckets`, `WindowBound` |
| `functions` | one input of one of seven algorithms | `ValidationSound`, `PromptsFaithful`, `ProjectionExact`, `BriefingComplete`, `QueriesAgree`, `SearchContains` |

These state what a comment of the repository says, and are violated:

| run | instance | property |
|---|---|---|
| `update_race` | 2 clients on one peer, 2 fields | `ReplayAgrees` |
| `mcp_revoked` | 1 call, 1 peer, 1 token | `RevokedForGood` |

Some properties are conjunctions of named parts: `SearchRight` of the type invariant of the
store, `SearchSound` and `SearchTopLimit`; `TokensTrue` of the type invariant, `RevokedGone` and
`IssuedKept`; `Consistent` of the type invariant, `IndexesAgree` and `ResolvedRouted`; those
of `functions` of the statements in the modules of the algorithms. The type invariants
of `McpServer`, `GatewayValidator`, `RateLimiter` and `TypeResolver` are proved
(`McpTyped`, `CacheTyped`, `LimiterTyped`, `TypesTyped`) and not part of a run.

### Why the bounds are enough

Every race in this code is between two parties, so two clients, processes, handlers or
requests meet.

* `writes`: three writes are a create and two overlapping changes of what it made, or an
  edge, its dissolution and a request that comes late; two peers keep each other's rows
  apart. Half seconds give stamps on the whole second and stamps that are not, two of one
  second, and a second that is over while a request of its own is under way. Seconds of four
  readings, with fractions of two lengths, are in `functions`.
* `search`: with one stranger's vector that is the nearest and two of its own, limits of 1 and
  2 and a fetch of 2 or 4, a search meets a stranger before its own, has two hits to put in
  order, and one more candidate than it wants. Three requests are a search beside an
  update and the archiving that the update's stale copy undoes.
* `serving`: the search itself is in `search`; here one entity is enough for every kind of
  request to hold, wait for and lose the connection. One request is local and one comes
  through the gateway; both processes may be started any number of times.
* `mcp`: two peers and two names are enough for a rename that gives a name to another
  peer, a token that has one of two names, a registry older than the token list, and a
  call in which one peer is denied or fails before the other answers.
* `tokens`: the server and a command race for one temporary file. One token is enough to be
  revoked and touched; a second shows that others are kept. Deadlock is not checked for:
  two processes can leave a `tokens.json` that does not parse, after which no process
  starts.
* `types_restart`: two seeds can be stored, half stored or not at all; they may be defined
  again, before or after; four rows reach the limit of 3 and pass it. What is claimed of
  visibility is claimed up to the limit.
* `gateway`: the token outlives two cache periods and the clock runs past its expiry.
* `rate_limit`: a bucket can be emptied, evicted and used again within the eight ticks,
  and a tick of the sweep may be late. At a rate of 2 a burst of 5 comes back in the three
  ticks that an entry stays for certain (`Idle - MaxDelay`), and `Gain` is the rate; slower
  buckets are in the theorem `Bounded`.
* `functions`: two field definitions that may have one name, answers of every kind to
  two questions, responses three levels deep (an entity in a hit in a list), with and
  without data and fields, with and without truncation, three rows against a limit of 2
  and each query failing or not, two rows against a query limit of 1 with filters by
  name and by a name with a dot, stamps of one second with fractions of each length,
  texts with wildcards and letters of both cases. A behaviour picks one input and stops,
  hence no check for deadlock.

### What the violated properties show

* `update_race`. `opEntityUpdate` reads a row, logs a snapshot of its merged copy and
  replaces the whole row (`handler.go:282`). Two updates can log in one order and write in
  the other: one field is lost from the table, and replaying the log gives a different
  entity. `handler.go:26-28` promises that "time travel can rebuild state from it".
* `mcp_revoked`. "Revoke removes the token" (`tokens.go:117`), and the next touch of a running
  server, with the list it read at start, writes it back (`tokens.go:136`).

### Limits the properties name

The other properties hold with the premises they state. These are the cases outside of
them. Most are behaviours of the same modules, which a counterexample shows when the premise
is dropped or a constant changed as said.

The log and time:

* `ArchiveEntity` moves `updated_at` (`sqlite.go:336`), the fold does not: with
  `"entity.archive"` in `Ops`, one client is enough to violate `ReplayAgrees`.
* An update within the second of its create sorts before it where the create's fraction is
  a prefix of its own (`sqlite.go:913`), and the fold ends with the create's fields: with
  `TicksPerSecond = 4` and `Widths = {1, 2, 4}`, one client violates `ReplayAgrees` too.
* For the same reason "events in [since, until]" (`sqlite.go:232`) includes later ones when
  `until` is a text that comes after those that go on where it ends. `HistoryStable` and
  `AckedWritesShown` speak of whole seconds, whose order the text keeps.
* An upsert that fails after its event was logged leaves an event that the table does not
  show: time travel has a write of which the client was told that it failed.
* An update of an unknown id dereferences nil (`handler.go:261`). The request ends as `"lost"`
  in `Substrate` and by `Panic` in `McpServer`, without the `FedMsgError` reply that
  `router.go:47-48` speaks of; no property claims that every request has an answer.

Files read once and rewritten whole:

* A token issued by a command while a server runs is dropped by the server's next touch,
  by the mechanism of `mcp_revoked`. `alone` in `TokensTrue`, and `retired` in
  `RetiredStaysOut`, leave both out.
* Two commands that add one name both find it free, each in its own copy of `peers.json`
  (`registry.go:97`), and the later flush drops the first one's peer. The import "refuses to
  overwrite an existing local registry" (`docs/backup.md:88`) but looks for one before it copies
  (`backup.go:141`): one that is made meanwhile is overwritten. Both are behaviours of
  `PeerRegistry` with two `Procs`, and violate `PeersKept`.
* A name that a rename has given up takes tokens along to whoever gets it next (`freed`).

Types and identifiers:

* A type defined twice: `type.define` stores a new entity each time and rehydration registers
  the newest first, so that after a restart the oldest definition wins (`runtime.go:82`).
  Beyond `Limit` rows (50 in the code, and the seeds count) a restart loses the oldest
  definitions. A process does not see what another one defines after it started.
* `newULID` of the commands is "a fresh ULID string" (`runtime.go:414`) from a generator that
  starts at the same seed in every process: two commands in one millisecond can make the
  same ones. The modules take identifiers to be fresh.

Answers:

* The nearest vectors of all peers are fetched before the peer is looked at
  (`sqlite.go:616`), so the "top-`limit` entities ... restricted to the given peer" may be fewer
  than there are; `SearchTopLimit` says from when on.
* For a message without `fields` defaults are put into a map of the validator's own
  (`seed.go:150`) and not stored; it is still refused for a required field without a default.
* At the prompt, the text of a list shown as a default becomes a list of that one text.
* An object whose data is null, and a definition without fields, are not taken for results
  by `projectJSON` (`projection.go:116`) and keep all their metadata, against
  `projection.go:15-16`; `ProjectionExact` says that nothing asked for is lost from them.
* SQL and Go filters differ on names with a dot (a path in SQL, one key in Go), on null, on
  lists and objects, on booleans against numbers, and on the order of rows of one second, in
  which the text puts the whole second last (`PlainFilters`, `PlainData`, `PlainTimes`), so that
  time travel is not quite "same as `coggo_entity_query`" (`docs/api.md:192`). A filter with an
  object for its value is an error of the driver in SQL and a comparison in Go.
* `%` and `_` in a search text are wildcards, and letters match without regard to case.
* "Stale entities ... across all types" (`today.go:96`) is across the newest rows of five
  types; and a section whose query failed reads as one with nothing in it (`today.go:88`,
  `101`, `114`, `125`): only the query for the goals reports its error.

Elsewhere:

* Where a bucket takes longer to refill than the idle time (`RATE_PER_EMAIL_RPM=1` with the
  default burst), it is forgotten before it is full and its successor starts full
  (`ratelimit.go:110`): an email gets more than the "requests per minute" and the "burst" of
  `main.go:84-86`, up to `WindowBound` with a `Gain` above the rate.
* `--peer` with a name that does not resolve falls through to another peer
  (`runtime.go:354`); no module has it.

### Fairness

Nothing is assumed of clients, users, failures or crashes.

* `Serving!FairSpec`: `WF(RequestStep(r))` for each request: a goroutine runs, and
  `database/sql` hands the connection to those that wait. A weak condition per request
  is enough since the requests that compete are finitely many. `WF(Drained)` and
  `WF(Exit)`: coggo stops once it may; `WF(GateDrained)`: the gateway's timer runs out.

* `TokenStore!FairSpec`: `WF(Flush(p))`, since file operations return.
* `GatewayValidator!FairValidatorSpec`: time passes and `net/http` ends a call whose timeout has
  struck (`Overdue`); nothing makes Google answer.

`Substrate`, `McpServer` and the rest claim no liveness and assume nothing.

## 4. Proofs

All constants are arbitrary, subject to the named assumptions of the modules.

**Substrate.** `TypeCorrect` rests on `TypeInv = TypeOK /\ HandlerOK` (what a request
at each `pc` must hold). `LogFirst` (`LoggedBeforeProjected`) and `CreationKept`
(`CreationImmutable`) rest on

    LogInv = TypeInv /\ StampsFresh /\ HandlersKnow /\ LoggedBeforeProjected

`LoggedBeforeProjected` is not inductive: the step that writes a row must know that the row
in the handler's hand is backed by the log. `HandlersKnow` says so for each kind of request:
an update's copy agrees with the log on everything but the field it adds, a create's row is
its own, and at `"project"` the request's event is in the log. `StampsFresh` (stamps in
flight are distinct and not beyond the clock) keeps two creations from sharing an
identifier. The log only grows (`EventsGrow`), so facts about it stay true (`LogMonotone`);
the proof then goes action by action. `AckedLast` (`AckedWritesLast`) adds what each
successful answer vouches for: it is true at the step that ends the request and only grows.
It does not say that the fields of an acknowledged update stay in the table, which
`update_race` refutes; `AckedShown` (`AckedWritesShown`) says what does hold, that time
travel shows it. Its invariant `ShownInv` adds that no two events have one stamp, that an
update's event comes after the create's of its entity, and what the event of an answered
request says; then it is a matter of the fold: the event of a finished second is listed,
what sorts before it cannot undo it, and what sorts after it and touches the same columns is
the other write that the property excuses. The loop of the fold is a function of the events'
ranks, and what holds from one turn on is proved by way of a least turn at which it could
fail, since the library's induction theorems take an operator as a parameter.

`NoRevival` (`NoEdgeRevival`) rests on `EdgeInv = LogInv /\ Unborn`: an insert of a relation
that is under way is known to nobody yet, in no event and in no request to dissolve it.
`PastSettled` (`HistoryStable`): once no request of a past second is under way, no step
changes the events that `ListEvents` returns for it, and `TimeTravel` is a function of those.

**Serving.** `Paired` (`EmbeddingsPaired`) rests on `PoolInv`: the connection is a lock
(`Locked`: `conn = r` exactly at the statements that hold it), therefore a transaction sees
the tables as they are, and `TxnOK` says what it has made of them statement by
statement. This and `SearchCorrect` are proved of `PoolSpec`, a store by itself;
`ServesStore` shows that every behaviour of `Serving` is one of that specification, so that
they hold of the two processes as well, and `TypeCorrect` puts the type invariants together.
`Durable` (`AnsweredDurable`) adds `DoneOK`, that a handler at `"ok"` has done its
work, and `NoneLost` (`StopLosesNone`) rests on `ServingInv`, where a request is in the two
processes and in the store (`RequestOK`), with `CoggoOK`: the store is closed only under
requests that are counted as struck. `SearchCorrect` (`SearchRight`, type invariant included)
rests on `SearchInv`. Hits, then candidates, are in order of distance (`Ordered`); hits are of
the peer and were live at some moment since the start, at which an update may have
brought them back (`HitsOK`); while `quiet` holds the tables are what they
were at the start (`Frozen`), and what the query did not fetch is farther than all it did and, if
the strangers leave room, is not needed (`Complete`). That the hits of an undisturbed search are
the `Limit` nearest wanted ones is then a matter of places: `Place(e, S)` counts the members of
`S` up to `e`, and an ascending sequence whose members are the nearest of a set is `Nearest` of it.

**McpServer.** `WithinGrant` (`NeverBeyondGrant`) rests on `McpInv`. A token is granted
for peers and checked by name; `NamesStay` says that a name no rename has given up
is still where a registry, read at any time, has it, and `ScopesOK` that a scope's names
of that kind stand for peers the token was granted for. `MaySee` carries it from
`Authorise` to `Route`. `StaysOut` (`RetiredStaysOut`) and `CrossPeer` (`CrossPeerComplete`)
follow from the same invariant and from what a call's results say of the peers asked for.

**TypeResolver.** `TypesInv` says of each handler what it holds, of the tables that rows are
logged, and that a name which a resolver knows is `Accounted` for: stored, on its way, or
given up with an error. It gives `Logged` (`TypeLoggedFirst`) and `NoneTypeless`
(`UsedTypesStored`) for any number of processes; the seeds are built in and may be stored or
not. `Visible` (`DefinitionsVisible`) is for one process (`SoleProcess`) and adds
`VisibleOK`, what rehydration makes of rows of a `Single` definition, and `SourcedOK`, that
every row and every event is a seed's, which is logged once, or some handler's.

**TokenStore.** `Truthful` (`TokensTrue`) and `Whole` (`FileWhole`) rest on `TokenInv =
TypeOK /\ LocalOK /\ (alone => FlushOK /\ TokensOK)`. While one process at a time has the
store open it has the temporary file to itself (`FlushOK`), and its list and the file both
have what was issued and nothing that was revoked (`Reported`).

**PeerRegistry.** `Consistency` (`Consistent`) holds for any number of processes and rests on
`RegistryInv`: the lists in files, in a copy under way and in memory, and what a process in
mid-job relies on. `NoneForgotten` (`PeersKept`) is for commands one after the other
(`OneAtATime`; of two at once it does not hold) and adds `CommandOK`,
which ties a command's memory and its pending import to the file.

**GatewayValidator.** `Justified` (`AdmissionJustified`): `GatewayInv` adds that calls in
flight are no older than the timeout, that a positive answer was asked for before the
revocation, and that the cache entry ends by the token's expiry and by the
revocation plus timeout plus TTL.

**RateLimiter.** `EntryStays` (`EntryHeld`), `Implements` (`KeepsBuckets`, the refinement) and
`Bounded` (`WindowBound`). `LimiterInv` ties a bucket's `last` and `lastSeen` to the clock and
each request to an entry seen since its lookup. The core is `StaleIsFull`: an entry that
the sweep may evict has accrued a full bucket, so that forgetting it changes nothing.
That needs `Refilled`, `Burst <= Rate * (Idle - MaxDelay)`, which the code does not check;
the default limits (10 per minute, burst 30, idle 10 minutes) satisfy it, and `Implements`
assumes it. `Bounded` assumes nothing of the settings: `WindowBound` follows from an account of what
a bucket can have paid out (`Account`), kept at the rate `Gain`, at which every bucket fills
within the idle time; where the bucket is `Refilled` that is the `Rate`.

**The functions.** The theorems of `PureFunctionsProofs` are about one input of any size.
Each assumes of it what a program value has: a finite set of rows with distinct
identifiers (`QueryOK`, `SearchOK`, `BriefedRow`) or a definition that is a sequence of fields (`IsDef`).

* `PastAnswersAsPresent` (`QueriesAgree`): on filters by plain names the two ways keep the same
  rows, and `LaterText` and `Later` agree on them where no two rows of one second have
  fractions of different length, so that the two sorts, which count the rows before each,
  give one sequence.
* `SearchByText` (`SearchContains`): with `LaterText` a total order on rows of distinct identifiers,
  `Sorted` is a bijection from places to rows, and the cut leaves out the last ones; a text
  without wildcards is matched by `Like` exactly where it stands in the other.
* `BriefingMissesNone` (`BriefingComplete`) compares what a query of `Limit` rows leaves out
  with the rows that are as new, for any set of queries that fail.
* `ValidationKeeps` (`ValidationSound`) and `PromptsKeep` (`PromptsFaithful`): invariants of
  the loops `Visits` and `Filled`, among them that what is in the map stays as it is, that each
  field has been seen to, and that a second pass over what was stored changes nothing.
* `ProjectsExactly` (`ProjectionExact`): by induction on the depth, what a response and its
  projection have at one place are a value `walk` was called with and what that call returned
  (`AnswersPaired`); so the statement is about one call (`TurnRight`). There `Selections` decides
  the names and the numbers (`NumberIs`), and what an entity shows afterwards is the union of
  what was picked at the top and in the data. What an object is (its role) is not what the code
  goes by; of an entity without data and a definition without fields, which the code does not
  recognise, the theorem says only that none of the names asked for is lost.

The induction over a loop is by `Climb`: what holds before the first turn and is kept by
each turn holds after the last.

Attempting these proofs put four statements right. The arms of the CASE in `Created`
overlapped, so that TLA+ did not determine its value; it follows the early returns of
`opEntityCreate` now. A filter by a name that a row lacks needs no premise on the value
(`PlainData`). A recent observation is never a stale one only because `RecentDays <=
StaleDays`, which is in `BriefingAssumption` now (7 and 14 days in the code). A default of a
type the schema does not know, and one that is a list of a text, do not pass through the
prompt unchanged; the premises of `BlankMeansAbsent` name both.

**Only model-checked.** Liveness (`RequestsEnd`, `SignalStops`, `LockReleased`, `Decided`) is out of
the prover's reach. `HistoryStable` and `AckedWritesShown` are proved for the `Substrate` as it
is, with one type of rows folded; that the Go filters applied afterwards agree with SQLite's
is `QueriesAgree`, on rows at rest. That the log does not rebuild the table, and that a revoked
token comes back, are shown by the counterexamples of their runs.

## 5. Not modelled

* The commands that list and print, `coggo status` (probes of the machine, pid files and
  endpoints), `coggo type add` (free text into one `type.define`), configuration, DIDs and
  keys (cryptography and encoding; DIDs are fresh values), the embeddings client (a
  stub), and the gateway's configuration and OAuth endpoints (environment variables and a
  library). They have no state whose interleaving matters.
* Text: wording, logging, JSON escapes in searched text, titles and excerpts of the briefing,
  its two extra sections for the peer called coggo.
* The global limiter of the gateway is a bare `rate.Limiter`; in `Serving` it may refuse
  any request. `Ping` of the router has no caller.
* Parsing of time text is the inverse of writing it. Names in filters have at most one dot,
  and no brackets or quotes. The generators of identifiers that draw on `crypto/rand` are
  taken to be fresh, and so is the one of the commands, which does not.
* SQLite's durability, `net/http` and `database/sql` are taken to work: a committed
  statement survives the process.

## 6. Plan

Done: everything in section 2. What is left, most useful first:

1. The cut and the order of `QueryEntities` in `Substrate`, so that a query runs beside writes.
2. A federation of two servers over one database: `TypeResolver` with two processes and
   `Substrate` together.
3. The briefing's sections for the coggo peer.
