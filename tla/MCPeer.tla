-------------------------------- MODULE MCPeer --------------------------------
(***************************************************************************)
(* ProtocolPeer with a client that connects and makes tracked calls, and a *)
(* server that sends one request of its own.  Equal ids are the point: the *)
(* first request of both sides is number 1.                                *)
(***************************************************************************)
EXTENDS ProtocolPeer

MCMaxCalls  == [p \in Sides |-> IF p = "client" THEN 3 ELSE 1]
MCMaxStarts == [p \in Sides |-> 2]
MCSends     == [p \in Sides |-> IF p = "client" THEN {"tracked"} ELSE {"call"}]
=============================================================================
