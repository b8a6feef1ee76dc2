------------------------------- MODULE MCValues -------------------------------
(* Two objects; the first argument is the first object or a leaf. *)
EXTENDS Values

MCInit == /\ ValuesInit
          /\ heap[0].at[0] = Ref(1)
          /\ heap[0].at[1] \in {Missing, Ref(1), Ref(2)}
MCSpec == MCInit /\ [][ValuesNext]_valuesVars
=============================================================================
