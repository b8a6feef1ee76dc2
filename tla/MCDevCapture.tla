---------------------------- MODULE MCDevCapture ----------------------------
(* A small instance of DevCapture for TLC. *)
EXTENDS DevCapture, TLC

Symmetry == Permutations(Invocation) \cup Permutations(Effect) \cup Permutations(Generation)
=============================================================================
