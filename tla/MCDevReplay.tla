----------------------------- MODULE MCDevReplay -----------------------------
(* Small programs for DevReplay: two branches of at most MaxLength effects. *)
EXTENDS DevReplay, SequencesExt

CONSTANT MaxLength

AllPrograms == [1 .. 2 -> SeqOf(Operation, MaxLength)]

(* The programs whose concurrent branches only perform asynchronous effects *)
(* and the sequential programs, whose single branch may do anything.        *)
JoinedOrSequential ==
  {p \in AllPrograms :
     \/ p[2] = <<>>
     \/ \A b \in 1 .. 2 : \A n \in DOMAIN p[b] : p[b][n] \in AsyncOperation}
=============================================================================
