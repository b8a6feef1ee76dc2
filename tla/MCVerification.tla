---------------------------- MODULE MCVerification ----------------------------
(* Two V1 cases and two V2 cases of different profiles, one of each version with
   an adapted value.  A store with a malformed case has nothing else wrong. *)
EXTENDS Verification

MCVersion == <<1, 2, 1, 2>>
MCProfile == <<"none", "p", "none", "q">>
MCAdapted == {2, 3}
MCInit ==
  /\ Init
  /\ malformed # {} => \A c \in Cases : source[c] = "same"
  /\ Cardinality({c \in Cases : source[c] # "same"}) <= 2
  /\ \A c \in Cases \ stored : source[c] = "same"
MCSpec == MCInit /\ [][Next]_vars /\ Fairness
=============================================================================
