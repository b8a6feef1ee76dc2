--------------------------- MODULE MCDevTransport ---------------------------
(* Small instances of DevTransport for TLC. *)
EXTENDS DevTransport
=============================================================================
