------------------------------ MODULE Prompts ------------------------------
(***************************************************************************)
(* Entities and relations typed in at the terminal: runEntityNew,          *)
(* actionEntityUpdate, actionRelationNew and coerceField (internal/cli)    *)
(* over prompter.ask (internal/cli/prompt.go).  For each field of the type *)
(* the command asks a question, shows the text of the default or of the    *)
(* present value, and makes a value of the declared type of the answer;    *)
(* the message then goes the way of every other.                           *)
(*                                                                         *)
(* An answer is the kind of text it is: Nothing (return, or the input has  *)
(* ended), "word", "digits", "time", "nan" (a float that JSON cannot       *)
(* carry), and "bracketed", which is how a list shows.  No default has an   *)
(* empty text.                                                             *)
(***************************************************************************)
EXTENDS Validation

Nothing == ""

\* defaultStr: the text of a default.
TextOf(default) ==
    CASE default = "nil"     -> Nothing
      [] default = "number"  -> "digits"
      [] default = "time"    -> "time"
      [] default \in {"list", "relisted"} -> "bracketed"
      [] OTHER               -> "word"

\* ask: nothing typed is the default.
Ask(answer, default) == IF answer = Nothing THEN TextOf(default) ELSE answer

\* Mutant: what is not a number is kept as it is.
CoerceFieldLoosely(raw, type) ==
    CASE type = "number" /\ raw = "digits"         -> "number"
      [] type = "boolean"                          -> "boolean"
      [] type = "list_of" /\ raw = "bracketed"     -> "relisted"
      [] type = "list_of" /\ raw # "bracketed"     -> "list"
      [] OTHER                                     -> "string"

\* coerceField: the text as a value of the type, or Rejected.
CoerceField(raw, type) ==
    CASE type = "number" /\ raw \in {"digits", "nan"} -> IF raw = "nan" THEN "nan" ELSE "number"
      [] type = "number" /\ raw \notin {"digits", "nan"} -> "rejected"
      [] type = "boolean"                          -> "boolean"
      [] type = "list_of" /\ raw = "bracketed"     -> "relisted"
      [] type = "list_of" /\ raw # "bracketed"     -> "list"
      [] OTHER                                     -> IF raw = "time" THEN "time" ELSE "string"

\* Mutant: what is left blank is sent as it is.
AnsweredBlank(fields, f, raw) == With(fields, f.name, CoerceField(raw, f.type))

\* One question that leaves this text: nothing is sent for no text.
Answered(fields, f, raw) ==
    IF raw = Nothing THEN fields ELSE With(fields, f.name, CoerceField(raw, f.type))

\* The loop over the questions: the map after each.
Filled(def, raws) ==
    LET after[i \in 0 .. Len(def)] ==
            IF i = 0 THEN NoFields ELSE Answered(after[i - 1], def[i], raws[i])
    IN  after

\* Without an answer and a default a field is left out.
Fields(def, answers) ==
    Filled(def, [i \in DOMAIN def |-> Ask(answers[i], def[i].default)])[Len(def)]

\* An answer that is no number ends the command, and so does a message that
\* JSON cannot carry.
Unsendable(fields) == \E n \in DOMAIN fields : fields[n] \in {"rejected", "nan"}

\* runEntityNew: the entity that the answers make, or Rejected.
Prompted(def, answers) ==
    LET fields == Fields(def, answers)
    IN  IF Unsendable(fields) THEN Rejected ELSE Created(def, fields)

\* actionRelationNew: the data of the relation; nothing validates it.
PromptedRelation(def, answers) ==
    LET fields == Fields(def, answers) IN IF Unsendable(fields) THEN Rejected ELSE fields

\* The text of the value an entity has, which nobody types in but by chance; to
\* type it in is to answer nothing.
Displayed(data, name) == IF name \in DOMAIN data THEN "shown" ELSE Nothing

\* Mutant: the text shown is sent back as if it had been typed in.
ChangedAnyway(data, f, answer) ==
    IF answer = Nothing /\ f.name \in DOMAIN data THEN TextOf(data[f.name]) ELSE answer

\* actionEntityUpdate asks with that text, and goes on if it is what comes back.
Changed(data, f, answer) ==
    IF answer = Displayed(data, f.name) THEN Nothing ELSE answer

Updates(def, data, answers) ==
    Filled(def, [i \in DOMAIN def |-> Changed(data, def[i], answers[i])])[Len(def)]

\* The entity's data after the command; without a change nothing is sent.
PromptedUpdate(def, data, answers) ==
    LET updates == Updates(def, data, answers)
    IN  IF Unsendable(updates) THEN Rejected
        ELSE [n \in DOMAIN data \cup DOMAIN updates |->
                 IF n \in DOMAIN updates THEN updates[n] ELSE data[n]]

-----------------------------------------------------------------------------
OneFieldPerName(def) == \A i, j \in DOMAIN def : def[i].name = def[j].name => i = j

\* What is typed in is stored as a value of the type declared, or refused; only
\* times are taken as they come.
TypedAsDeclared(def, answers) ==
    \A e \in {Prompted(def, answers), PromptedRelation(def, answers)} \ {Rejected} :
        OneFieldPerName(def) =>
            \A i \in DOMAIN def :
                answers[i] # Nothing /\ def[i].type # "timestamp" =>
                    WellTyped(e[def[i].name], def[i].type)

\* Leaving a question blank, or ending the input before it, is leaving the field
\* out of a message: the default that the prompt sends as text is the default
\* that validation would have filled in, if it is of a type the schema knows, and
\* no list.
BlankMeansAbsent(def, answers) ==
    LET answered == {i \in DOMAIN def : answers[i] # Nothing}
        message == [n \in {def[i].name : i \in answered} |->
                        LET i == CHOOSE j \in answered : def[j].name = n
                        IN  CoerceField(answers[i], def[i].type)]
    IN  /\ OneFieldPerName(def)
        /\ \A i \in DOMAIN def :
              /\ WellTyped(def[i].default, def[i].type)
              /\ def[i].default \notin {"list", "relisted"} /\ def[i].type # "other"
        /\ \A n \in DOMAIN message : message[n] \notin {"rejected", "nan"}
        => Prompted(def, answers) = Created(def, message)

\* An update changes what was typed in and nothing else: a list, a null, a field
\* the type does not know go through the prompts untouched, and what was typed in
\* becomes a value of its type.  If one answer is no good nothing is changed.
OnlyAnswersChange(def, data, answers) ==
    LET e == PromptedUpdate(def, data, answers)
        typed == {def[i].name : i \in {j \in DOMAIN def : answers[j] # Nothing}}
    IN  OneFieldPerName(def) /\ e # Rejected =>
            /\ DOMAIN e = DOMAIN data \cup typed
            /\ \A n \in DOMAIN data \ typed : e[n] = data[n]
            /\ \A i \in DOMAIN def :
                  answers[i] # Nothing /\ def[i].type # "timestamp" =>
                      WellTyped(e[def[i].name], def[i].type)

=============================================================================
