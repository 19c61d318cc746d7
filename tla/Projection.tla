---------------------------- MODULE Projection ----------------------------
(***************************************************************************)
(* The `fields' parameter of the read tools (internal/mcp/projection.go):  *)
(* projectJSON reduces every entity and type definition in a response to   *)
(* the names asked for, and cuts strings to the length given with a name.  *)
(*                                                                         *)
(* A JSON value is a record whose kind says what else it has: a string its *)
(* length and whether it ends in the ellipsis of a cut, an array its       *)
(* sequence, an object its function from keys and its role, which is what  *)
(* it was made from: "entity" (an entity or a relation), "type" (a type    *)
(* definition) or "none".  projectJSON does not see the role and goes by   *)
(* the shape.  A field is a name and the number after its colon, 0 where   *)
(* there is none above zero.                                               *)
(***************************************************************************)
EXTENDS Naturals, Sequences, FiniteSets

CONSTANT Depth      \* bound: how deep walk descends in a response

ASSUME DepthAssumption == Depth \in Nat

Str(n) == [kind |-> "string", len |-> n, cut |-> FALSE]
Obj(role, f) == [kind |-> "object", role |-> role, at |-> f]
Arr(s) == [kind |-> "array", el |-> s]
Num == [kind |-> "number"]

Has(v, k) == v.kind = "object" /\ k \in DOMAIN v.at

LastOf(S) == CHOOSE i \in S : \A j \in S : j <= i

\* Mutant: the last mention of a name decides, with or without a number.
SelectionsReset(fields) ==
    LET names == {fields[i].name : i \in DOMAIN fields} \ {""}
    IN  [keep     |-> names,
         truncate |-> [n \in names |->
                        fields[LastOf({i \in DOMAIN fields : fields[i].name = n})].n]]

\* parseSelections: blank names are skipped; of several numbers for one name the
\* last counts, and a mention without one does not take it back.
Selections(fields) ==
    LET names == {fields[i].name : i \in DOMAIN fields} \ {""}
        numbered(n) == {i \in DOMAIN fields : fields[i].name = n /\ fields[i].n > 0}
    IN  [keep     |-> names,
         truncate |-> [n \in names |->
                        IF numbered(n) = {} THEN 0 ELSE fields[LastOf(numbered(n))].n]]

\* applyTruncate: the first n characters and an ellipsis.
Truncated(v, name, sel) ==
    LET n == sel.truncate[name]
    IN  IF n = 0 \/ v.kind # "string" THEN v
        ELSE IF v.len <= n THEN v
        ELSE [v EXCEPT !.len = n + 1, !.cut = TRUE]

Is(v, k, kind) == Has(v, k) /\ v.at[k].kind = kind

\* isEntityLike and isTypeDefLike.
EntityLike(v) == Is(v, "data", "object")
TypeDefLike(v) == Is(v, "name", "string") /\ Is(v, "fields", "array")

\* projectFlat, and the top level of projectEntity, which leaves out `data'.
Pick(v, names, sel) == [k \in DOMAIN v.at \cap names |-> Truncated(v.at[k], k, sel)]

\* Mutant: the data is looked at only for an entity with no name at the top.
ProjectEntityEither(v, sel) ==
    LET top == Pick(v, sel.keep \ {"data"}, sel)
    IN  IF DOMAIN top # {} THEN Obj(v.role, top)
        ELSE Obj(v.role, [k \in {"data"} |-> Obj("none", Pick(v.at["data"], sel.keep, sel))])

\* projectEntity: a name is looked for at the top, then in the data.  Without a
\* name from the data the result has none.
ProjectEntity(v, sel) ==
    LET top  == Pick(v, sel.keep \ {"data"}, sel)
        data == Pick(v.at["data"], sel.keep \ DOMAIN top, sel)
    IN  IF DOMAIN data = {} THEN Obj(v.role, top)
        ELSE Obj(v.role, [k \in DOMAIN top \cup {"data"} |->
                            IF k = "data" THEN Obj("none", data) ELSE top[k]])

\* What walk projects as a whole, and the places of anything else it descends to.
Item(v) == EntityLike(v) \/ TypeDefLike(v)

Places(v) ==
    IF v.kind = "array" THEN DOMAIN v.el
    ELSE IF v.kind = "object" /\ ~Item(v) THEN DOMAIN v.at
    ELSE {}

At(v, k) == IF v.kind = "array" THEN v.el[k] ELSE v.at[k]

\* The values that walk meets, by depth.
Beneath(S) == UNION {{At(x, k) : k \in Places(x)} : x \in S}

Met(v) ==
    LET met[d \in 0 .. Depth] == IF d = 0 THEN {v} ELSE Beneath(met[d - 1])
    IN  met

\* One call of walk, where `below' says what its calls for the places in v make.
Turn(v, sel, below) ==
    IF v.kind = "array" THEN Arr([i \in DOMAIN v.el |-> below[v.el[i]]])
    ELSE IF v.kind # "object" THEN v
    ELSE IF EntityLike(v) THEN ProjectEntity(v, sel)
    ELSE IF TypeDefLike(v) THEN Obj(v.role, Pick(v, sel.keep, sel))
    ELSE Obj(v.role, [k \in DOMAIN v.at |-> below[v.at[k]]])

\* walk, from the deepest calls upwards.
Calls(S, sel, below) == [x \in S |-> Turn(x, sel, below)]

Walks(v, sel) ==
    LET walk[d \in 0 .. Depth] ==
            IF d = 0 THEN Calls(Met(v)[Depth], sel, <<>>)
            ELSE Calls(Met(v)[Depth - d], sel, walk[d - 1])
    IN  walk

Walk(v, sel) == Walks(v, sel)[Depth][v]

\* projectJSON: no field, or only blank ones, is the full payload.
ProjectJSON(v, fields) ==
    IF Selections(fields).keep = {} THEN v ELSE Walk(v, Selections(fields))

-----------------------------------------------------------------------------
\* What a response and its projection have at one place, by depth.
BeneathBoth(P) == UNION {{<<At(p[1], k), At(p[2], k)>> : k \in Places(p[1])} : p \in P}

Paired(v, w) ==
    LET paired[d \in 0 .. Depth] == IF d = 0 THEN {<<v, w>>} ELSE BeneathBoth(paired[d - 1])
    IN  paired

\* The names an entity or a type definition shows, with their values.
Shown(v) ==
    LET pairs(o, names) == {<<k, o.at[k]>> : k \in names} IN
    IF v.role # "entity" THEN pairs(v, DOMAIN v.at)
    ELSE IF ~Is(v, "data", "object") THEN pairs(v, DOMAIN v.at \ {"data"})
    ELSE pairs(v, DOMAIN v.at \ {"data"}) \cup pairs(v.at["data"], DOMAIN v.at["data"].at)

Longest(v) == IF v.kind = "string" THEN v.len ELSE 0

\* A projection of an item: nothing shows but the names asked for, with the values they had or a cut of them, no string
\* longer than the last number given for its name and its ellipsis.
OnlySelected(item, projected, fields) ==
    \A p \in Shown(projected) :
        /\ p[1] \in Selections(fields).keep
        /\ \E q \in Shown(item) : q[1] = p[1] /\ (p[2] # q[2] => p[2].cut)
        /\ \A i \in DOMAIN fields :
              /\ fields[i].name = p[1] /\ fields[i].n > 0
              /\ \A j \in DOMAIN fields : j > i => fields[j].name # p[1] \/ fields[j].n = 0
              => Longest(p[2]) <= fields[i].n + 1

\* A name that was asked for and that the item has, at the top or in its data, is
\* in the answer.
SelectedKept(item, projected, fields) ==
    {p[1] : p \in {q \in Shown(item) : q[1] \in Selections(fields).keep}}
        \subseteq {p[1] : p \in Shown(projected)}

\* Around the items the response stays what it was.
SameAround(v, w) ==
    /\ w.kind = v.kind
    /\ v.kind = "array" => DOMAIN w.el = DOMAIN v.el
    /\ v.kind = "object" => DOMAIN w.at = DOMAIN v.at
    /\ v.kind \notin {"array", "object"} => w = v

\* A result object, and one that has the parts its kind is known by: an entity made
\* without data has null there in the log, a definition may be without fields.
Result(v) == v.kind = "object" /\ v.role \in {"entity", "type"}
Recognised(v) == IF v.role = "entity" THEN Is(v, "data", "object") ELSE Is(v, "fields", "array")

\* What the structs of types.go are marshalled to: definitions have a name and no
\* data, entities and relations no fields, and what is neither looks like neither.
Marshalled(v) ==
    CASE v.kind # "object" -> TRUE
      [] v.kind = "object" /\ v.role = "entity" -> ~Has(v, "fields")
      [] v.kind = "object" /\ v.role = "type" -> Is(v, "name", "string") /\ ~Has(v, "data")
      [] OTHER -> ~Item(v)

\* Every result object of a response is projected, wherever it is, and nothing else;
\* one that is not recognised keeps what was asked for along with the rest.
ProjectedEverywhere(v, fields) ==
    /\ Selections(fields).keep # {}
    /\ \A d \in 0 .. Depth : \A x \in Met(v)[d] : Marshalled(x)
    => \A d \in 0 .. Depth : \A p \in Paired(v, ProjectJSON(v, fields))[d] :
            IF Result(p[1])
            THEN /\ SelectedKept(p[1], p[2], fields)
                 /\ Recognised(p[1]) => OnlySelected(p[1], p[2], fields)
            ELSE SameAround(p[1], p[2])

=============================================================================
