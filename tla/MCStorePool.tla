---------------------------- MODULE MCStorePool ----------------------------
(***************************************************************************)
(* StorePool for TLC: entities of two groups, the nearest of the other.    *)
(***************************************************************************)
EXTENDS StorePool, TLC

CONSTANTS mine, theirs

MCGroups == {mine, theirs}
MCGroupOf == <<theirs, mine, mine>>

Symmetry == Permutations(Requests)

=============================================================================
