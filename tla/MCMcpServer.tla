------------------------------ MODULE MCMcpServer -------------------------------
(***************************************************************************)
(* McpServer with the values MCMcpServer.cfg gives its constants.          *)
(***************************************************************************)
EXTENDS McpServer
=============================================================================
