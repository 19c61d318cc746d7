----------------------------- MODULE MCServing -----------------------------
(***************************************************************************)
(* Serving for TLC: all requests are about one entity.                     *)
(***************************************************************************)
EXTENDS Serving

CONSTANTS mine

MCGroups == {mine}
MCGroupOf == <<mine>>

=============================================================================
