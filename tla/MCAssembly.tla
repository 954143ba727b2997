----------------------------- MODULE MCAssembly ------------------------------
(***************************************************************************)
(* Every provider, up to four items over two rounds, two pieces each.      *)
(***************************************************************************)
EXTENDS MessageAssembly

MCProviders == AllProviders
MCLooks == AllLooks
=============================================================================
