----------------------------- MODULE MCMpmcQueue -----------------------------
(* MpmcQueue on small instances. *)
EXTENDS MpmcQueue
=============================================================================
