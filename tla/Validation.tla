---------------------------- MODULE Validation ----------------------------
(***************************************************************************)
(* Validation of the fields of a new entity: schema.ValidateEntity         *)
(* (internal/schema/seed.go) and what opEntityCreate makes of its answer   *)
(* (internal/federation/handler.go).                                       *)
(*                                                                         *)
(* A value is the kind of JSON value it is; "time" is a string that parses *)
(* as RFC 3339, "nil" the JSON null.  A map of fields is a function from   *)
(* the names it has; NoMap is the nil map of a message without `fields'.   *)
(***************************************************************************)
EXTENDS Naturals, Sequences, FiniteSets

\* Kinds of values: string, time, number, boolean, list, object, nil, and "relisted",
\* a list whose one element is the text of another (Prompts).  Types: string,
\* reference, number, boolean, timestamp, list_of, and any other name.

NoMap == [none |-> "no map"]
NoFields == [x \in {} |-> "nil"]

\* checkType: any nil is well typed, and so is anything of an unknown type.
WellTyped(kind, type) ==
    \/ kind = "nil"
    \/ type \in {"string", "reference"} /\ kind \in {"string", "time"}
    \/ type = "number" /\ kind = "number"
    \/ type = "boolean" /\ kind = "boolean"
    \/ type = "timestamp" /\ kind = "time"
    \/ type = "list_of" /\ kind \in {"list", "relisted"}
    \/ type = "other"

With(fields, name, kind) ==
    [x \in DOMAIN fields \cup {name} |-> IF x = name THEN kind ELSE fields[x]]

\* Mutant: a default replaces what the caller sent.
VisitOverwrites(acc, f) ==
    IF f.default # "nil"
    THEN [acc EXCEPT !.fields = With(acc.fields, f.name, f.default)]
    ELSE IF f.name \notin DOMAIN acc.fields /\ f.required
         THEN [acc EXCEPT !.issues = @ \cup {[field |-> f.name, severity |-> "error"]}]
         ELSE acc

\* One turn of the loop over def.Fields: a missing field gets its default, or is
\* an error if it is required; a present one of the wrong type is a warning.
Visit(acc, f) ==
    CASE f.name \notin DOMAIN acc.fields /\ f.default # "nil" ->
            [acc EXCEPT !.fields = With(acc.fields, f.name, f.default)]
      [] f.name \notin DOMAIN acc.fields /\ f.default = "nil" /\ f.required ->
            [acc EXCEPT !.issues = @ \cup {[field |-> f.name, severity |-> "error"]}]
      [] f.name \in DOMAIN acc.fields /\ ~WellTyped(acc.fields[f.name], f.type) ->
            [acc EXCEPT !.issues = @ \cup {[field |-> f.name, severity |-> "warning"]}]
      [] OTHER -> acc

\* The loop: the map and the issues after each field.
Visits(def, given) ==
    LET after[i \in 0 .. Len(def)] ==
            IF i = 0 THEN [fields |-> given, issues |-> {}] ELSE Visit(after[i - 1], def[i])
    IN  after

Given(fields) == IF fields = NoMap THEN NoFields ELSE fields

\* ValidateEntity: the issues, and the map as the defaults leave it.
ValidateEntity(def, fields) ==
    LET given == Given(fields)
        loop  == Visits(def, given)[Len(def)]
        known == {def[i].name : i \in DOMAIN def}
    IN  [loop EXCEPT !.issues =
            @ \cup {[field |-> n, severity |-> "warning"] : n \in DOMAIN given \ known}]

\* Mutant: a warning blocks the write as well.
HasErrorsOrWarnings(issues) == issues # {}

HasErrors(issues) == \E i \in issues : i.severity = "error"

\* Mutant: issues are logged, none blocks the write.
CreatedAnyway(def, fields) == ValidateEntity(def, fields).fields

Rejected == [none |-> "rejected"]

\* opEntityCreate: what the entity's data will be, or Rejected.  ValidateEntity
\* changes the map it was given; the map it makes for a nil one is its own, so
\* that the entity is stored without data (UpsertEntity writes {}).
Created(def, fields) ==
    LET v == ValidateEntity(def, fields)
    IN  IF HasErrors(v.issues) THEN Rejected
        ELSE IF fields = NoMap THEN NoFields ELSE v.fields

-----------------------------------------------------------------------------
\* An entity that entity.create accepts has each field its type requires, given or
\* by default; of a message without fields it has none, so that only a field
\* without a default is sure not to be missing.
RequiredStored(def, fields) ==
    LET e == Created(def, fields)
        defaulted == {def[i].name : i \in {j \in DOMAIN def : def[j].default # "nil"}}
    IN  e # Rejected =>
            \A i \in DOMAIN def :
                def[i].required /\ (fields = NoMap => def[i].name \notin defaulted)
                    => def[i].name \in DOMAIN e

\* Nothing the caller sent is dropped or changed on the way to the entity, and a
\* message is only refused for want of a required field that has no default.
CallerKept(def, fields) ==
    LET e == Created(def, fields)
        given == Given(fields)
    IN  IF e = Rejected
        THEN \E i \in DOMAIN def : /\ def[i].required /\ def[i].default = "nil"
                                   /\ def[i].name \notin DOMAIN given
        ELSE \A n \in DOMAIN given : n \in DOMAIN e /\ e[n] = given[n]

\* A message made from a stored entity creates that entity again: validation
\* accepts what it stored and adds nothing.
CreatedAgain(def, fields) ==
    LET e == Created(def, fields)
    IN  e # Rejected /\ fields # NoMap => Created(def, e) = e

=============================================================================
