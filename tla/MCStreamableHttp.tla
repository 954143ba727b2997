--------------------------- MODULE MCStreamableHttp ---------------------------
(***************************************************************************)
(* McpStreamableHttp with the values MCStreamableHttp.cfg gives its        *)
(* constants.                                                              *)
(***************************************************************************)
EXTENDS McpStreamableHttp
=============================================================================
