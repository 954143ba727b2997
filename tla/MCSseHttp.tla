------------------------------ MODULE MCSseHttp -------------------------------
(***************************************************************************)
(* McpSseHttp with the values MCSseHttp.cfg gives its constants.           *)
(* Events are too long in a line behind which comes nothing or another, in *)
(* their last line, or only in the sum of their lines.                     *)
(***************************************************************************)
EXTENDS McpSseHttp
LengthyEvents ==
  { << MaxBuffer + 1 >>, << MaxBuffer + 1, 1 >>, << 1, MaxBuffer + 1 >>, << 1, 1, 1 >> }
=============================================================================
