---------------------------- MODULE MCSubstrate ----------------------------
(***************************************************************************)
(* Small instances of Substrate: every client writes to every peer.        *)
(***************************************************************************)
EXTENDS Substrate, TLC

CONSTANTS c1, c2, p1, p2

\* Every client writes to every peer.
SharedPeers == [c \in Clients |-> Peers]

\* Clients are interchangeable, and so are the peers, when all are shared.
Symmetry == Permutations(Clients) \cup Permutations(Peers)

=============================================================================
