--------------------------- MODULE MCPeerRegistry ---------------------------
(***************************************************************************)
(* Small instances of PeerRegistry.                                        *)
(***************************************************************************)
EXTENDS PeerRegistry, TLC

Symmetry == Permutations(Names)

=============================================================================
