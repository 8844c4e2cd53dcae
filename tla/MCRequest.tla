------------------------------ MODULE MCRequest ------------------------------
(* Request on small instances. *)
EXTENDS Request
=============================================================================
