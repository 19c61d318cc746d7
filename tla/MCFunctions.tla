---------------------------- MODULE MCFunctions ----------------------------
(***************************************************************************)
(* The pure algorithms over bounded inputs: each behaviour picks one input *)
(* for one of them and stops.                                              *)
(***************************************************************************)
EXTENDS PureFunctions, TLC

CONSTANTS MaxDay    \* bound: the last day

Blank == [of |-> "none"]

\* Message maps and definitions of up to two fields, which may have one name.
FieldDefs == [name : {"a", "b"}, type : {"string", "number"}, required : BOOLEAN,
              default : {"nil", "string"}]
Definitions == {<<f>> : f \in FieldDefs} \cup {<<f, g>> : f, g \in FieldDefs}
Maps == {NoMap} \cup UNION {[S -> {"string", "number", "nil"}] : S \in SUBSET {"a", "b"}}

\* Types of two fields, and the answers at the terminal.
PromptFields(name) ==
    [name : {name}, type : {"string", "number", "boolean", "timestamp", "list_of"},
     required : BOOLEAN, default : {"nil", "string", "number", "boolean", "list"}]
PromptAnswers == [1 .. 2 -> {"", "word", "digits", "time", "nan"}]
StoredData == UNION {[S -> {"string", "number", "list", "nil"}] : S \in SUBSET {"a", "b", "other"}}

\* Responses: an entity with `id' at the top and in its data, which may look like an
\* entity or be null, alone, in a list, and as a hit of a search; lists of definitions,
\* with and without fields.
Texts == {Str(1), Str(3), Num}
Null == [kind |-> "null"]
Inner == Obj("none", "data" :> Obj("none", "title" :> Str(3)))
EntityObjects ==
    {Obj("entity", "id" :> t @@ "kind" :> Num @@ "data" :> d) :
        t \in Texts,
        d \in {Null} \cup {Obj("none", f) :
                 f \in UNION {[S -> Texts \cup {Inner}] : S \in SUBSET {"id", "title"}}}}
BareType(n, t) == Obj("type", "name" :> Str(n) @@ "title" :> t)
FieldedType(n, t) ==
    Obj("type", "name" :> Str(n) @@ "fields" :> Arr(<<Obj("none", "title" :> t)>>) @@ "title" :> t)
Responses ==
    EntityObjects
    \cup {Arr(<<e>>) : e \in EntityObjects}
    \cup {Arr(<<Obj("none", "entity" :> e @@ "score" :> Num)>>) : e \in EntityObjects}
    \cup {Obj("none", "entity_types" :> Arr(<<FieldedType(n, t)>>)
               @@ "relationship_types" :> Arr(<<BareType(n, t)>>)) : n \in {1, 3}, t \in Texts}
FieldLists == UNION {[1 .. n -> [name : {"", "id", "title", "name"}, n : {0, 1}]] : n \in 0 .. 2}

\* Stores of three rows.
Row(id, type, status, created, age) ==
    [id |-> id, type |-> type, status |-> status, created |-> created, updated |-> created + age]
RowsOf(id) ==
    {Row(id, k[1], k[2], c, a) :
        k \in {<<"Goal", "">>, <<"Goal", "done">>, <<"Project", "active">>,
              <<"Observation", "">>, <<"Task", "">>},
        c \in 0 .. MaxDay, a \in {0, 2}}
Stores == {s \in {{e, f, g} : e \in RowsOf(1), f \in RowsOf(2), g \in RowsOf(3)} :
               \A e \in s : e.updated <= MaxDay + 1}
Failures == {{}, {"goals"}, {"projects", "Project"}, {"observations"}, {"Goal", "Observation"}}

\* Two rows, and every question about their one field or what it has under "in".
Status == <<"status">>
StatusIn == <<"status", "in">>
JsonValues == {[kind |-> k, is |-> "1"] : k \in {"text", "number", "boolean"}}
                 \cup {[kind |-> k, is |-> k] : k \in {"null", "list"}}
                 \cup {[kind |-> "text", is |-> "object"],
                       [kind |-> "object", is |-> "object",
                        data |-> <<"in">> :> [kind |-> "text", is |-> "1"]]}
Filters == {Status :> v : v \in JsonValues}
              \cup {<<>>, StatusIn :> [kind |-> "text", is |-> "1"]}
QueriedRows(i, types, times) ==
    [id : {i}, type : types, at : times, archived : BOOLEAN, data : Filters]
EntityQueries ==
    [type : {"", "Goal"}, filters : Filters, archived : BOOLEAN, limit : {0, 2}]

\* Two rows, and texts with letters of both cases and wildcards.
SearchedRows(i, types) ==
    [id : {i}, type : types, at : {0, 2, 3, 4}, archived : BOOLEAN,
     text : {<<"a", "b">>, <<"b", "A">>, <<"b", "%">>, <<"b">>}]
SearchTexts == UNION {[1 .. n -> {"a", "A", "%", "_"}] : n \in 0 .. 2}
Searches == [text : SearchTexts, type : {"", "Goal"}, limit : {0, 2}]

Init == input = Blank

PickValidation ==
    \E d \in Definitions, m \in Maps : input' = [of |-> "validation", def |-> d, fields |-> m]
PickPrompt ==
    \E f \in PromptFields("a"), g \in PromptFields("b"), a \in PromptAnswers :
        input' = [of |-> "prompt", def |-> <<f, g>>, answers |-> a]
PickUpdate ==
    \E f \in PromptFields("a"), g \in PromptFields("b"), m \in StoredData, a \in PromptAnswers :
        /\ ~f.required /\ ~g.required /\ f.default = "nil" /\ g.default = "nil"
        /\ input' = [of |-> "update", def |-> <<f, g>>, data |-> m, answers |-> a]
PickProjection ==
    \E v \in Responses, f \in FieldLists :
        input' = [of |-> "projection", response |-> v, fields |-> f]
PickBriefing ==
    \E s \in Stores, f \in Failures :
        input' = [of |-> "briefing", store |-> s, failed |-> f, now |-> MaxDay + 1]
PickQuery ==
    \E r \in QueriedRows(1, {"Goal"}, {0, 2, 4}),
       s \in QueriedRows(2, {"Goal", "Project"}, {2, 3}), q \in EntityQueries :
        input' = [of |-> "query", rows |-> {r, s}, query |-> q]
PickSearch ==
    \E r \in SearchedRows(1, {"Goal"}), s \in SearchedRows(2, {"Goal", "Project"}), q \in Searches :
        input' = [of |-> "search", rows |-> {r, s}, search |-> q]

Next ==
    /\ input = Blank
    /\ \/ PickValidation \/ PickPrompt \/ PickUpdate \/ PickProjection
       \/ PickBriefing \/ PickQuery \/ PickSearch

Spec == Init /\ [][Next]_input

=============================================================================
