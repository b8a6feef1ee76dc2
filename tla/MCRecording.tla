----------------------------- MODULE MCRecording -----------------------------
(* Three inputs, two of them in one module; earlier sessions and reviews left a
   case of the first one at most, and a candidate of the second or the third. *)
EXTENDS Recording, TLC

MCFileOf == <<"a.ts", "a.ts", "b.ts">>
MCInit == /\ Init
          /\ cases[2] = Absent /\ cases[3] = Absent
          /\ pending[2] = Absent \/ pending[3] = Absent
MCSpec == MCInit /\ [][Next]_vars
MCSymmetry == Permutations(Calls) \cup Permutations(Completions)
=============================================================================
