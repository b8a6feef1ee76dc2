----------------------------- MODULE MCDevServer -----------------------------
(* Small instances of DevServer for TLC.                                     *)
EXTENDS DevServer

CONSTANT m1

OneModule == {m1}
=============================================================================
