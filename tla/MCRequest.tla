------------------------------ MODULE MCRequest ------------------------------
(***************************************************************************)
(* RequestLifecycle with the values each MCRequest*.cfg gives its          *)
(* constants.  One request is enough: requests share the tool registry and *)
(* the client's destruction, and no action reads another request's record. *)
(***************************************************************************)
EXTENDS RequestLifecycle
=============================================================================
