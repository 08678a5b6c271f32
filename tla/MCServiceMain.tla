----------------------------- MODULE MCServiceMain -----------------------------
(* Every service of the repository, each with up to two RPCs in flight.       *)
EXTENDS ServiceMain
=============================================================================
