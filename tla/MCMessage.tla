------------------------------ MODULE MCMessage ------------------------------
(* Message on small instances. *)
EXTENDS Message
=============================================================================
