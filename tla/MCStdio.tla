-------------------------------- MODULE MCStdio --------------------------------
(***************************************************************************)
(* StdioTransports with the values MCStdio.cfg gives its constants.        *)
(***************************************************************************)
EXTENDS StdioTransports
=============================================================================
