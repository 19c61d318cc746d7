------------------------------ MODULE Search ------------------------------
(***************************************************************************)
(* Search without a vector: opSemanticSearch (internal/federation) falls   *)
(* back on SubstringSearch (internal/store/sqlite.go), a LIKE on the JSON  *)
(* text of the data.                                                       *)
(*                                                                         *)
(* A text is a sequence of characters, of which only the two wildcards of  *)
(* LIKE and the case of letters matter.  A row has an id, a type, whether  *)
(* it is archived, when it was updated, and the text of its data; a search *)
(* has a text, a type ("" for any) and a limit (0 for none given).         *)
(***************************************************************************)
EXTENDS Queries

CONSTANT SearchLimit    \* the default limit (10 in the code)

ASSUME SearchAssumption == SearchLimit \in Nat \ {0}

\* The wildcards: any text, and any one character.
AnyText == "%"
AnyChar == "_"

Lower(char) == IF char = "A" THEN "a" ELSE char

\* text LIKE '%' || wanted || '%': a way through `wanted' that says how much of
\* the text has been used up after each character of it.
Like(text, wanted) ==
    \E from \in 0 .. Len(text) : \E used \in [1 .. Len(wanted) -> 0 .. Len(text)] :
        \A k \in DOMAIN wanted :
            LET before == IF k = 1 THEN from ELSE used[k - 1] IN
            IF wanted[k] = AnyText THEN used[k] >= before
            ELSE /\ used[k] = before + 1
                 /\ wanted[k] = AnyChar \/ Lower(wanted[k]) = Lower(text[used[k]])

\* Mutant: archived entities are found.
FoundArchived(row, search) == Like(row.text, search.text) /\ search.type \in {AnyType, row.type}

\* The conditions of the statement.
Found(row, search) ==
    /\ ~row.archived
    /\ Like(row.text, search.text)
    /\ search.type \in {AnyType, row.type}

\* SubstringSearch: the rows found, ordered by the text of updated_at.
SubstringSearch(rows, search) ==
    LET limit == IF search.limit = 0 THEN SearchLimit ELSE search.limit
    IN  IF search.text = <<>> THEN <<>>
        ELSE FirstOf(Sorted({r \in rows : Found(r, search)}, LaterText), limit)

-----------------------------------------------------------------------------
ContainsText(text, wanted) ==
    \E from \in 0 .. Len(text) - Len(wanted) :
        \A k \in DOMAIN wanted : Lower(text[from + k]) = Lower(wanted[k])

\* SubstringSearch "returns entities whose JSON data contains the given query
\* substring" (sqlite.go), for a text without wildcards and but for case: none
\* that is archived or of another type, and none is left out for want of room
\* while one that was updated in an earlier second is returned.
ContainingFound(rows, search) ==
    LET found  == SubstringSearch(rows, search)
        listed == {found[i] : i \in DOMAIN found}
        wanted == {r \in rows : /\ ~r.archived
                                /\ ContainsText(r.text, search.text)
                                /\ search.type \in {AnyType, r.type}}
    IN  search.text # <<>> /\ (\A k \in DOMAIN search.text : search.text[k] \notin {AnyText, AnyChar}) =>
            /\ listed \subseteq wanted
            /\ \A r \in wanted \ listed :
                  /\ Len(found) >= (IF search.limit = 0 THEN SearchLimit ELSE search.limit)
                  /\ \A s \in listed : SecondOf(s.at) >= SecondOf(r.at)

=============================================================================
