------------------------- MODULE MCPrefixDirectory -------------------------
(***************************************************************************)
(* Two workers that cache two blocks under one key; one of them may        *)
(* restart.                                                                *)
(***************************************************************************)
EXTENDS PrefixDirectory

CONSTANTS d1, d2

MCOrder == <<d1, d2>>

=============================================================================
