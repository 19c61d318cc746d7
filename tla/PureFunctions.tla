--------------------------- MODULE PureFunctions ---------------------------
(***************************************************************************)
(* What the pure algorithms promise of any one input: a record whose `of'  *)
(* names the algorithm and whose other fields are its arguments.           *)
(***************************************************************************)
EXTENDS Prompts, Projection, Briefing, Search

VARIABLE input

\* entity.create (seed.go, handler.go): what is required is stored, what the caller
\* sent is stored or refused for a reason, and what was stored is accepted as it is.
ValidationSound ==
    input.of = "validation" =>
        /\ RequiredStored(input.def, input.fields)
        /\ CallerKept(input.def, input.fields)
        /\ CreatedAgain(input.def, input.fields)

\* coggo entity new and update (entities.go): answers become values of the declared
\* type, and a question left blank leaves a field out or leaves it as it was.
PromptsFaithful ==
    /\ input.of = "prompt" =>
         /\ TypedAsDeclared(input.def, input.answers)
         /\ BlankMeansAbsent(input.def, input.answers)
    /\ input.of = "update" => OnlyAnswersChange(input.def, input.data, input.answers)

\* projectJSON (projection.go): in every entity and type definition of a response the
\* fields asked for, all of them and no others.
ProjectionExact ==
    input.of = "projection" => ProjectedEverywhere(input.response, input.fields)

\* buildPeerSection (today.go of briefing): no open goal is missed within the limit of
\* the query, and no active project, stale entity or recent observation unless its
\* query failed.
BriefingComplete ==
    input.of = "briefing" =>
        /\ NothingOpenMissed(input.store, input.failed, input.now)
        /\ StaleMeansUntouched(input.store, input.failed, input.now)
        /\ RecentListed(input.store, input.failed, input.now)

\* entity.query and time.travel (sqlite.go): the one answers about the present what
\* the other answers about the past, for the questions both take alike.
QueriesAgree == input.of = "query" => PlainlyAskedAlike(input.rows, input.query)

\* semantic.search without a vector.
SearchContains == input.of = "search" => ContainingFound(input.rows, input.search)

=============================================================================
