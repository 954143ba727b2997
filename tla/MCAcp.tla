-------------------------------- MODULE MCAcp ---------------------------------
(***************************************************************************)
(* AcpClient with the values MCAcp.cfg gives its constants.                *)
(***************************************************************************)
EXTENDS AcpClient

\* Much talk of tool calls over two prompts, many requests without a prompt, or some of both.
MCBudgets ==
  { [prompts |-> 2, sets |-> 0, updates |-> 4, asks |-> 0],
    [prompts |-> 0, sets |-> 1, updates |-> 0, asks |-> 3],
    [prompts |-> 1, sets |-> 1, updates |-> 1, asks |-> 1] }
=============================================================================
