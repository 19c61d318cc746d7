--------------------------- MODULE MCTypeResolver ---------------------------
(***************************************************************************)
(* Small instances of TypeResolver: where the handlers run.                *)
(***************************************************************************)
EXTENDS TypeResolver, TLC

CONSTANTS p1, p2, h1, h2

\* The handlers of one process are alike.
Symmetry == Permutations(Handlers)

OneProcess == [h \in Handlers |-> p1]

=============================================================================
