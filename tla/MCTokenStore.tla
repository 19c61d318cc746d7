---------------------------- MODULE MCTokenStore ----------------------------
(***************************************************************************)
(* TokenStore for TLC: the server and a command.                           *)
(***************************************************************************)
EXTENDS TokenStore

CONSTANTS server, command

=============================================================================
