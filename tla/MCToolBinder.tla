----------------------------- MODULE MCToolBinder -----------------------------
(***************************************************************************)
(* McpToolBinder with the values each MCToolBinder*.cfg gives its          *)
(* constants.  Two chains of each kind suffice: AtMostTwoChains bounds the *)
(* first, the number of notifications the second.                          *)
(***************************************************************************)
EXTENDS McpToolBinder
=============================================================================
