--------------------------- MODULE MCSSLConnection ---------------------------
(* SSLConnection on small instances. *)
EXTENDS SSLConnection
=============================================================================
