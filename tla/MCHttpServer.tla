----------------------------- MODULE MCHttpServer -----------------------------
(***************************************************************************)
(* McpHttpServerTransport with the values MCHttpServer.cfg gives its       *)
(* constants.                                                              *)
(***************************************************************************)
EXTENDS McpHttpServerTransport
=============================================================================
