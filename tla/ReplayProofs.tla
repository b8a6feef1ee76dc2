------------------------------ MODULE ReplayProofs ------------------------------
(***************************************************************************)
(* Proofs about what replays a recording: the verify command of            *)
(* Verification, for any store of cases of both versions, any profiles and *)
(* adapted values, and any number of edits and failing processes; and the  *)
(* replay of DevReplay, for any program, of any number of branches.        *)
(***************************************************************************)
EXTENDS Verification, DevReplay, FiniteSetTheorems, SequenceTheorems, WellFoundedInduction, TLAPS

-----------------------------------------------------------------------------
(* The strengthening: what each phase may rely on.                          *)

Phases1 == {"adapters1", "replay1"}
Running == {"replay1"} \cup Phases2

(* The groups a phase of V2 has still to do, the running one among them.    *)
Left2 == (UNION todo) \cup (IF child = Absent THEN {} ELSE child.group)

Typed ==
  /\ stored \subseteq Cases
  /\ source \in [Cases -> Sources]
  /\ outcome \in [Cases -> {"not run", "same", "different"}]
  /\ status \in {0, 1, 2}
  /\ qualified \subseteq stored /\ validated \subseteq stored
  /\ phase # "done" => exit = Absent

(* A child runs only in the phases that have children, over stored cases.   *)
ChildPlaced ==
  child # Absent => /\ phase \in Running /\ child \in Child /\ child.group \subseteq stored
                    /\ child.decoded \subseteq child.group

Reproduced(s) == \A c \in s : outcome[c] = "same"
Differs(s) == \E c \in s : outcome[c] = "different"
TakenForDifferent(s) == \E c \in s : outcome[c] = "different" \/ c \in died

(* What is left to do is of the version the phase is about.                 *)
TodoPlaced ==
  /\ phase \in {"prepare1"} \cup Phases1 => todo \subseteq Of(1)
  /\ phase \in {"preflight2", "recheck2"} => todo \subseteq Of(2)
  /\ phase \in Phases2 => \A g \in todo : g \subseteq Of(2)
  /\ phase = "replay2" =>
       /\ \A g \in todo : \E c \in Of(2) : g = {c}
       /\ child # Absent => \E c \in Of(2) : child.group = {c} /\ {c} \notin todo

(* Nothing is validated before all is qualified, nothing replayed before    *)
(* all is validated.                                                        *)
Prepared1 ==
  /\ phase = "preflight2" => Of(1) \cup (Of(2) \ todo) \subseteq qualified
  /\ phase \in {"recheck2"} \cup Running \cup Phases1 => qualified = stored
  /\ phase = "adapters1" /\ ~refused => Of(1) \ todo \subseteq validated
  /\ phase \in {"recheck2"} \cup Phases2 => Of(1) \subseteq validated
  /\ phase \in {"adapters2", "readapt2"} /\ status = 0 => Of(2) \ Left2 \subseteq validated
  /\ phase \in {"replay1", "replay2"} => validated = stored

(* The replays that are over ended as the marker and the status tell.       *)
Told ==
  /\ phase \notin {"replay1", "recheck2", "readapt2", "replay2", "done"} => ~marker
  /\ phase = "replay1" /\ marker => Differs(Of(1) \ todo)
  /\ phase = "replay1" /\ status = 0 => Reproduced(Of(1) \ todo)
  /\ phase \in {"recheck2", "readapt2", "replay2"} => Reproduced(Of(1))
  /\ phase = "replay2" /\ status = 0 => Reproduced(Of(2) \ Left2)
  /\ phase = "replay2" /\ status = 1 => TakenForDifferent(Of(2) \ Left2)

IInv == Typed /\ ChildPlaced /\ TodoPlaced /\ Prepared1 /\ Told /\ ExitContract

-----------------------------------------------------------------------------
(* Every stored case is of one version or the other. *)
LEMMA EitherVersion ==
  ASSUME stored \subseteq Cases
  PROVE  stored = Of(1) \cup Of(2) /\ Of(1) \cap Of(2) = {}
<1>1. \A c \in Cases : Version[c] \in {1, 2}
  <2>1. Version \in Seq({1, 2})
    BY VerificationAssumption
  <2>2. Version \in [1 .. Len(Version) -> {1, 2}] /\ Cases = 1 .. Len(Version)
    BY <2>1 DEF Cases
  <2> QED
    BY <2>2
<1> QED
  BY <1>1 DEF Of

(* A verify that has not ended has no exit status, and no child is absent. *)
LEMMA AbsentIsAbsent == Absent # 0 /\ Absent # 1 /\ Absent \notin Child
<1>1. 0 \in Nat /\ 1 \in Nat
  OBVIOUS
<1>2. Absent \notin Nat \cup Child
  BY VerificationAssumption
<1> QED
  BY <1>1, <1>2, Zenon

LEMMA ExitKept ==
  ASSUME ExitContract, stored' = stored, outcome' = outcome, died \subseteq died',
         exit' \in {exit, 2}
  PROVE  ExitContract'
BY DEF ExitContract

LEMMA OfKept ==
  ASSUME stored' = stored
  PROVE  Of(1)' = Of(1) /\ Of(2)' = Of(2)
BY DEF Of

(* Together the groups are the V2 cases. *)
LEMMA GroupsCover ==
  ASSUME NEW by
  PROVE  UNION Groups(by) = Of(2) /\ \A g \in Groups(by) : g \subseteq Of(2)
BY DEF Groups

LEMMA InitOK == Init => IInv
<1> SUFFICES ASSUME Init
             PROVE  IInv
  OBVIOUS
<1>1. Typed
  BY DEF Init, Typed, Cases
<1>2. ChildPlaced /\ TodoPlaced /\ Prepared1 /\ Told
  BY DEF Init, ChildPlaced, TodoPlaced, Prepared1, Told, Phases1, Phases2, Running
<1>3. ExitContract
  BY AbsentIsAbsent DEF Init, ExitContract
<1> QED
  BY <1>1, <1>2, <1>3 DEF IInv

-----------------------------------------------------------------------------
(* The preflights *)

LEMMA ParseStep ==
  ASSUME IInv, Parse, UNCHANGED projectVars
  PROVE  IInv'
<1> USE DEF Parse, Leave, Enter, projectVars, historyVars, childVars
<1>1. Typed' /\ ChildPlaced'
  BY DEF IInv, Typed, ChildPlaced, Running, Phases2
<1>2. TodoPlaced' /\ Prepared1'
  <2>1. \/ phase' = "done"
        \/ phase' = "prepare1" /\ todo' = Of(1)
        \/ phase' = "preflight2" /\ todo' = Of(2) /\ Of(1) = {}
    OBVIOUS
  <2> QED
    BY <2>1, OfKept DEF TodoPlaced, Prepared1, Phases1, Phases2, Running
<1>3. Told'
  BY DEF IInv, Told
<1>4. ExitContract'
  <2>1. CASE stored = {}
    BY <2>1 DEF ExitContract
  <2>2. CASE stored # {}
    BY <2>2, ExitKept DEF IInv
  <2> QED
    BY <2>1, <2>2
<1> QED
  BY <1>1, <1>2, <1>3, <1>4 DEF IInv

LEMMA PrepareStep ==
  ASSUME IInv, Prepare, UNCHANGED projectVars
  PROVE  IInv'
<1> USE DEF Prepare, Leave, Enter, projectVars, historyVars, childVars
<1>1. Typed' /\ ChildPlaced'
  BY DEF IInv, Typed, ChildPlaced, Running, Phases2
<1>2. TodoPlaced' /\ Prepared1'
  BY OfKept DEF IInv, TodoPlaced, Prepared1, Phases1, Phases2, Running
<1>3. Told'
  BY DEF IInv, Told
<1>4. ExitContract'
  BY ExitKept DEF IInv
<1> QED
  BY <1>1, <1>2, <1>3, <1>4 DEF IInv

LEMMA JudgeStep ==
  ASSUME IInv, Judge, UNCHANGED projectVars
  PROVE  IInv'
<1> USE DEF Judge, Leave, Enter, projectVars, childVars
<1>1. Typed' /\ ChildPlaced'
  BY DEF IInv, Typed, ChildPlaced, Running, Phases2, Of
<1>2. TodoPlaced'
  BY OfKept DEF IInv, TodoPlaced, Phases1, Phases2
<1>3. Prepared1'
  <2>1. Of(2) = {} => stored = Of(1)
    BY EitherVersion DEF IInv, Typed
  <2> QED
    BY <1>1, <2>1, OfKept DEF IInv, Prepared1, Typed, Phases1, Phases2, Running
<1>4. Told'
  BY DEF IInv, Told
<1>5. ExitContract'
  BY ExitKept DEF IInv
<1> QED
  BY <1>1, <1>2, <1>3, <1>4, <1>5 DEF IInv

(* A preflight of V2 goes on to the next case, to the next phase or ends.   *)
LEMMA Preflight2Step ==
  ASSUME IInv, UNCHANGED projectVars,
         \/ Preflight2("preflight2", IF Of(1) # {} THEN "adapters1" ELSE "recheck2",
                       IF Of(1) # {} THEN Of(1) ELSE Of(2))
         \/ Preflight2("recheck2", "readapt2", Groups("readapt2"))
  PROVE  IInv'
<1> USE DEF projectVars
<1>1. /\ phase \in {"preflight2", "recheck2"}
      /\ UNCHANGED <<validated, outcome, died, prepared, refused, child, marker, status, faults>>
  BY DEF Preflight2, childVars
<1>2. CASE phase' = "done" /\ exit' = 2 /\ UNCHANGED <<todo, qualified>>
  <2>1. Typed' /\ ChildPlaced' /\ TodoPlaced' /\ Prepared1' /\ Told'
    BY <1>1, <1>2 DEF IInv, Typed, ChildPlaced, TodoPlaced, Prepared1, Told,
       Running, Phases1, Phases2
  <2> QED
    BY <1>1, <1>2, <2>1, ExitKept DEF IInv
<1>3. ASSUME NEW c \in todo, UNCHANGED <<phase, exit>>,
             qualified' = qualified \cup {c}, todo' = todo \ {c}
      PROVE  IInv'
  <2>1. c \in Of(2) /\ c \in stored
    BY <1>1, <1>3 DEF IInv, TodoPlaced, Of
  <2>2. Typed' /\ ChildPlaced'
    BY <1>1, <1>3, <2>1 DEF IInv, Typed, ChildPlaced
  <2>3. TodoPlaced'
    BY <1>1, <1>3, <2>1, OfKept DEF IInv, TodoPlaced, Phases1, Phases2
  <2>4. Prepared1'
    <3>1. phase = "recheck2" => qualified' = qualified
      BY <1>3, <2>1 DEF IInv, Prepared1
    <3> QED
      BY <1>1, <1>3, <3>1, OfKept DEF IInv, Prepared1, Phases1, Phases2, Running
  <2>5. Told'
    BY <1>1, <1>3, OfKept DEF IInv, Told, Reproduced
  <2> QED
    BY <1>1, <1>3, <2>2, <2>3, <2>4, <2>5, ExitKept DEF IInv
<1>4. ASSUME phase = "preflight2", todo = {}, UNCHANGED <<exit, qualified>>,
             \/ Of(1) # {} /\ phase' = "adapters1" /\ todo' = Of(1)
             \/ Of(1) = {} /\ phase' = "recheck2" /\ todo' = Of(2)
      PROVE  IInv'
  <2>1. qualified = stored
    BY <1>4, EitherVersion DEF IInv, Typed, Prepared1
  <2>2. Typed' /\ ChildPlaced'
    BY <1>1, <1>4 DEF IInv, Typed, ChildPlaced, Running, Phases2
  <2>3. TodoPlaced' /\ Prepared1'
    BY <1>1, <1>4, <2>1, OfKept DEF TodoPlaced, Prepared1, Phases1, Phases2, Running
  <2>4. Told'
    BY <1>1, <1>4, OfKept DEF IInv, Told, Reproduced
  <2> QED
    BY <1>1, <1>4, <2>2, <2>3, <2>4, ExitKept DEF IInv
<1>5. ASSUME phase = "recheck2", todo = {}, UNCHANGED <<exit, qualified>>,
             phase' = "readapt2", todo' = Groups("readapt2")
      PROVE  IInv'
  <2>1. Typed' /\ ChildPlaced'
    BY <1>1, <1>5 DEF IInv, Typed, ChildPlaced, Running, Phases2
  <2>2. Of(2)' \subseteq Left2'
    BY <1>5, GroupsCover, OfKept DEF Left2
  <2>3. TodoPlaced'
    BY <1>5, GroupsCover, OfKept DEF TodoPlaced, Phases1, Phases2
  <2>4. Prepared1'
    BY <1>1, <1>5, <2>2, OfKept DEF IInv, Prepared1, Phases1, Phases2, Running
  <2>5. Told'
    BY <1>1, <1>5, OfKept DEF IInv, Told, Reproduced
  <2> QED
    BY <1>1, <1>5, <2>1, <2>3, <2>4, <2>5, ExitKept DEF IInv
<1>6. CASE Preflight2("preflight2", IF Of(1) # {} THEN "adapters1" ELSE "recheck2",
                      IF Of(1) # {} THEN Of(1) ELSE Of(2))
  BY <1>2, <1>3, <1>4, <1>6 DEF Preflight2, Leave, Enter, IsFirst
<1>7. CASE Preflight2("recheck2", "readapt2", Groups("readapt2"))
  BY <1>2, <1>3, <1>5, <1>7 DEF Preflight2, Leave, Enter, IsFirst
<1> QED
  BY <1>6, <1>7

-----------------------------------------------------------------------------
(* The V1 cases: their adapters and their replay *)

LEMMA Validate1Step ==
  ASSUME IInv, NEW c \in Cases, Validate1(c), UNCHANGED projectVars
  PROVE  IInv'
<1> USE DEF Validate1, Fault, projectVars, childVars
<1>1. phase = "adapters1" /\ c \in todo /\ todo' = todo \ {c} /\ c \in Of(1) /\ c \in stored
  BY DEF IInv, TodoPlaced, Phases1, Of
<1>2. \/ validated' = validated \cup {c} /\ refused' = refused
      \/ validated' = validated /\ refused' = TRUE
  OBVIOUS
<1>3. Typed' /\ ChildPlaced'
  BY <1>1, <1>2 DEF IInv, Typed, ChildPlaced, Running, Phases2
<1>4. TodoPlaced'
  BY <1>1, OfKept DEF IInv, TodoPlaced, Phases1, Phases2
<1>5. Prepared1'
  BY <1>1, <1>2, OfKept DEF IInv, Prepared1, Phases1, Phases2, Running
<1>6. Told'
  BY <1>1 DEF IInv, Told
<1>7. ExitContract'
  BY ExitKept DEF IInv
<1> QED
  BY <1>3, <1>4, <1>5, <1>6, <1>7 DEF IInv

LEMMA EndValidate1Step ==
  ASSUME IInv, EndValidate1, UNCHANGED projectVars
  PROVE  IInv'
<1> USE DEF EndValidate1, projectVars, historyVars, childVars
<1>1. \/ phase' = "done" /\ exit' = 2
      \/ /\ ~refused /\ Of(2) # {} /\ exit' = exit
         /\ phase' = "adapters2" /\ todo' = Groups("adapters2")
      \/ ~refused /\ Of(2) = {} /\ exit' = exit /\ phase' = "replay1" /\ todo' = Of(1)
  BY DEF Leave, Enter, ReplayNextOrValidate
<1>2. ~refused => Of(1) \subseteq validated
  BY DEF IInv, Prepared1
<1>3. Of(2) = {} => stored = Of(1)
  BY EitherVersion DEF IInv, Typed
<1>4. Typed' /\ ChildPlaced'
  BY <1>1 DEF IInv, Typed, ChildPlaced, Running, Phases2
<1>5. TodoPlaced'
  BY <1>1, OfKept, GroupsCover DEF TodoPlaced, Phases1, Phases2
<1>6. Prepared1'
  <2>1. phase' = "adapters2" => Of(2)' \subseteq Left2'
    BY <1>1, OfKept, GroupsCover DEF Left2
  <2>2. qualified = stored /\ validated \subseteq stored
    BY DEF IInv, Prepared1, Typed, Phases1
  <2> QED
    BY <1>1, <1>2, <1>3, <2>1, <2>2, OfKept DEF Prepared1, Phases1, Phases2, Running
<1>7. Told'
  BY <1>1, OfKept DEF IInv, Told, Reproduced, Differs
<1>8. ExitContract'
  BY <1>1, ExitKept DEF IInv
<1> QED
  BY <1>4, <1>5, <1>6, <1>7, <1>8 DEF IInv

LEMMA Start1Step ==
  ASSUME IInv, Start1, UNCHANGED projectVars
  PROVE  IInv'
<1> USE DEF Start1, Leave, projectVars, historyVars, childVars
<1>1. Typed'
  BY DEF IInv, Typed
<1>2. ChildPlaced'
  <2>1. Of(1) \subseteq stored /\ stored \subseteq Cases /\ source \in [Cases -> Sources]
    BY DEF IInv, Typed, Of
  <2> DEFINE started == [group |-> Of(1), decoded |-> {c \in Of(1) : Accepts(c)},
                         loaded |-> [c \in Cases |-> {source[c]}]]
  <2>2. started \in Child /\ started.group = Of(1) /\ started.decoded \subseteq Of(1)
    BY <2>1 DEF Child
  <2>3. child' = child \/ child' = started
    BY <2>1
  <2> QED
    BY <2>1, <2>2, <2>3 DEF IInv, ChildPlaced, Running
<1>3. TodoPlaced' /\ Prepared1'
  BY OfKept DEF IInv, TodoPlaced, Prepared1, Phases1, Phases2, Running
<1>4. Told'
  BY OfKept DEF IInv, Told, Reproduced, Differs
<1>5. ExitContract'
  BY ExitKept DEF IInv
<1> QED
  BY <1>1, <1>2, <1>3, <1>4, <1>5 DEF IInv

(* A replay that ends has reproduced its completion or not. *)
LEMMA OutcomeKinds == \A loaded : Outcomes(loaded) \subseteq {"same", "different"}
BY DEF Outcomes

LEMMA Test1Step ==
  ASSUME IInv, Test1, UNCHANGED projectVars
  PROVE  IInv'
<1> USE DEF projectVars
<1>1. PICK c \in Cases :
        /\ c \in todo /\ todo' = todo \ {c}
        /\ \/ status' = 2 /\ UNCHANGED <<outcome, marker>>
           \/ \E o \in {"same", "different"} :
                /\ outcome' = [outcome EXCEPT ![c] = o]
                /\ marker' = (marker \/ o = "different")
                /\ status' = IF o = "different" THEN 2 ELSE status
  <2>1. \A loaded : Outcomes(loaded) \subseteq {"same", "different"}
    BY OutcomeKinds
  <2> QED
    BY <2>1 DEF Test1, IsFirst
<1>2. /\ phase = "replay1" /\ phase' = phase /\ exit' = exit /\ child' = child
      /\ UNCHANGED <<qualified, validated, died>>
  BY DEF Test1, childVars
<1>3. c \in Of(1) /\ c \in stored /\ outcome \in [Cases -> {"not run", "same", "different"}]
  BY <1>1, <1>2 DEF IInv, Typed, TodoPlaced, Phases1, Of
<1>4. Typed'
  BY <1>1, <1>2 DEF IInv, Typed
<1>5. ChildPlaced' /\ TodoPlaced' /\ Prepared1'
  BY <1>1, <1>2, OfKept
     DEF IInv, ChildPlaced, TodoPlaced, Prepared1, Phases1, Phases2, Running
<1>6. Told'
  <2>1. \A d \in Of(1) \ todo : d \in Cases /\ d # c /\ outcome'[d] = outcome[d]
    BY <1>1, <1>3 DEF IInv, Typed, Of
  <2>2. Of(1) \ todo' = (Of(1) \ todo) \cup {c}
    BY <1>1, <1>3
  <2>3. CASE status' = 2 /\ UNCHANGED <<outcome, marker>>
    BY <1>1, <1>2, <2>2, <2>3, OfKept DEF IInv, Told, Differs
  <2>4. ASSUME NEW o \in {"same", "different"}, outcome' = [outcome EXCEPT ![c] = o],
               marker' = (marker \/ o = "different"),
               status' = IF o = "different" THEN 2 ELSE status
        PROVE  Told'
    <3>1. outcome'[c] = o
      BY <1>3, <2>4
    <3>2. marker' => Differs(Of(1) \ todo)'
      BY <1>2, <2>1, <2>2, <2>4, <3>1, OfKept DEF IInv, Told, Differs
    <3>3. status' = 0 => Reproduced(Of(1) \ todo)'
      BY <1>2, <2>1, <2>2, <2>4, <3>1, OfKept DEF IInv, Told, Reproduced
    <3> QED
      BY <1>2, <3>2, <3>3 DEF Told
  <2> QED
    BY <1>1, <2>3, <2>4
<1>7. ExitContract'
  BY <1>2, AbsentIsAbsent DEF IInv, Typed, ExitContract
<1> QED
  BY <1>4, <1>5, <1>6, <1>7 DEF IInv

LEMMA End1Step ==
  ASSUME IInv, End1, UNCHANGED projectVars
  PROVE  IInv'
<1> USE DEF projectVars, historyVars, childVars
<1>1. /\ phase = "replay1" /\ child' = Absent
      /\ UNCHANGED <<qualified, validated, outcome, died, refused, marker, status>>
      /\ \/ todo = {} /\ status # 0 /\ marker /\ phase' = "done" /\ exit' = 1 /\ todo' = todo
         \/ phase' = "done" /\ exit' = 2 /\ todo' = todo
         \/ marker /\ phase' = "done" /\ exit' = 1 /\ todo' = todo
         \/ /\ todo = {} /\ status = 0 /\ Of(2) # {}
            /\ phase' = "recheck2" /\ todo' = Of(2) /\ exit' = exit
         \/ /\ todo = {} /\ status = 0 /\ Of(2) = {}
            /\ phase' = "done" /\ exit' = 0 /\ todo' = todo
  BY DEF End1, Leave, Enter, Mismatched, Fault
<1>2. todo = {} /\ status = 0 => Reproduced(Of(1))
  BY <1>1 DEF IInv, Told
<1>3. marker => Differs(Of(1))
  BY <1>1 DEF IInv, Told, Differs
<1>4. Typed' /\ ChildPlaced'
  BY <1>1 DEF IInv, Typed, ChildPlaced
<1>5. TodoPlaced' /\ Prepared1'
  <2>1. qualified = stored /\ Of(1) \subseteq validated
    BY <1>1 DEF IInv, Prepared1, Running, Of
  <2> QED
    BY <1>1, <2>1, OfKept DEF TodoPlaced, Prepared1, Phases1, Phases2, Running
<1>6. Told'
  BY <1>1, <1>2, OfKept DEF Told, Reproduced
<1>7. ExitContract'
  <2>1. Of(2) = {} => stored = Of(1)
    BY EitherVersion DEF IInv, Typed
  <2>2. Of(1) \subseteq stored
    BY DEF Of
  <2> QED
    BY <1>1, <1>2, <1>3, <2>1, <2>2, ExitKept DEF IInv, ExitContract, Reproduced, Differs
<1> QED
  BY <1>4, <1>5, <1>6, <1>7 DEF IInv

-----------------------------------------------------------------------------
(* The children of V2 *)

LEMMA LeftIs ==
  /\ child = Absent => Left2 = UNION todo
  /\ child # Absent => Left2 = (UNION todo) \cup child.group
  /\ child' = Absent => Left2' = UNION todo'
  /\ child' # Absent => Left2' = (UNION todo') \cup child'.group
BY DEF Left2

(* The worst exit of the children so far. *)
LEMMA CloseKeeps ==
  ASSUME status \in {0, 1, 2}, NEW result \in {0, 1, 2}, Close(result)
  PROVE  /\ child' = Absent /\ status' \in {status, result}
         /\ result = 0 => status' = status
         /\ result = 1 => status' \in {1, 2}
         /\ result = 2 => status' = 2
BY DEF Close

(* A child that has read nothing yet. *)
Spawned(g) == [group |-> g, decoded |-> {}, loaded |-> [c \in Cases |-> {}]]

LEMMA Spawn2Step ==
  ASSUME IInv, Spawn2, UNCHANGED projectVars
  PROVE  IInv'
<1> USE DEF projectVars, historyVars, childVars
<1>1. PICK g \in todo :
        /\ todo' = todo \ {g}
        /\ \/ child' = Spawned(g) /\ status' = status
           \/ child' = child /\ status' = 2
  BY DEF Spawn2, Spawned
<1>2. /\ phase \in Phases2 /\ child = Absent /\ phase' = phase /\ exit' = exit
      /\ UNCHANGED <<qualified, validated, outcome, died, refused, marker>>
  BY DEF Spawn2
<1>3. /\ g \subseteq Of(2) /\ Spawned(g) \in Child
      /\ Spawned(g).group = g /\ Spawned(g).decoded = {}
  <2>1. g \subseteq Of(2) /\ stored \subseteq Cases
    BY <1>2 DEF IInv, TodoPlaced, Typed
  <2> QED
    BY <2>1 DEF Of, Child, Spawned
<1>4. \/ status' = 2 /\ child' = Absent
      \/ status' = status /\ child' # Absent /\ child'.group = g /\ Left2' = Left2
  <2>1. CASE child' = child /\ status' = 2
    BY <1>2, <2>1
  <2>2. CASE child' = Spawned(g) /\ status' = status
    <3>1. child' # Absent /\ child'.group = g
      BY <1>3, <2>2, AbsentIsAbsent
    <3>2. UNION todo = (UNION todo') \cup g
      BY <1>1
    <3> QED
      BY <1>2, <2>2, <3>1, <3>2, LeftIs
  <2> QED
    BY <1>1, <2>1, <2>2
<1>5. Typed'
  BY <1>2, <1>4 DEF IInv, Typed
<1>6. ChildPlaced'
  BY <1>1, <1>2, <1>3 DEF ChildPlaced, Running, Of
<1>7. TodoPlaced'
  BY <1>1, <1>2, <1>4, OfKept DEF IInv, TodoPlaced, Phases1, Phases2
<1>8. Prepared1'
  BY <1>1, <1>2, <1>4, OfKept DEF IInv, Prepared1, Phases1, Phases2, Running
<1>9. Told'
  BY <1>1, <1>2, <1>4, OfKept DEF IInv, Told, Reproduced, TakenForDifferent, Phases2
<1>10. ExitContract'
  BY <1>2, ExitKept DEF IInv
<1> QED
  BY <1>5, <1>6, <1>7, <1>8, <1>9, <1>10 DEF IInv

(* A child that fails makes the exit status 2.                              *)
LEMMA ClosedWith2 ==
  ASSUME IInv, phase \in Phases2, child # Absent, Close(2), UNCHANGED projectVars,
         UNCHANGED <<phase, todo, exit, qualified, validated, outcome, died, refused, marker>>
  PROVE  IInv'
<1> USE DEF projectVars
<1>1. child' = Absent /\ status' = 2
  BY CloseKeeps DEF IInv, Typed
<1>2. Typed' /\ ChildPlaced'
  BY <1>1 DEF IInv, Typed, ChildPlaced
<1>3. TodoPlaced' /\ Prepared1'
  BY <1>1, OfKept DEF IInv, TodoPlaced, Prepared1, Phases1, Phases2, Running
<1>4. Told'
  BY <1>1, OfKept DEF IInv, Told, Reproduced, Phases2
<1>5. ExitContract'
  BY ExitKept DEF IInv
<1> QED
  BY <1>2, <1>3, <1>4, <1>5 DEF IInv

(* A replaying child that reads on stays the child it was.                  *)
LEMMA ChildReads ==
  ASSUME IInv, phase = "replay2", child # Absent, child' \in Child,
         child'.group = child.group, child'.decoded \subseteq child.group,
         validated \subseteq validated', validated' \subseteq stored, UNCHANGED projectVars,
         UNCHANGED <<phase, todo, exit, qualified, outcome, died, refused, marker, status>>
  PROVE  IInv'
<1> USE DEF projectVars
<1>1. child' # Absent
  BY AbsentIsAbsent
<1>2. Left2' = Left2
  BY <1>1 DEF Left2
<1>3. Typed' /\ ChildPlaced'
  BY <1>1 DEF IInv, Typed, ChildPlaced
<1>4. TodoPlaced'
  BY <1>1, OfKept DEF IInv, TodoPlaced, Phases1, Phases2
<1>5. Prepared1'
  BY <1>2, OfKept DEF IInv, Prepared1, Phases1, Phases2, Running
<1>6. Told'
  BY <1>2, OfKept DEF IInv, Told, Reproduced, TakenForDifferent
<1>7. ExitContract'
  BY ExitKept DEF IInv
<1> QED
  BY <1>3, <1>4, <1>5, <1>6, <1>7 DEF IInv

LEMMA Validated2Step ==
  ASSUME IInv, Validated2, UNCHANGED projectVars
  PROVE  IInv'
<1> USE DEF projectVars, childVars
<1>1. /\ phase \in Phases2 /\ child # Absent /\ phase' = phase /\ todo' = todo /\ exit' = exit
      /\ UNCHANGED <<qualified, outcome, died, refused, marker>>
  BY DEF Validated2
<1>2. child \in Child /\ child.group \subseteq stored
  BY <1>1 DEF IInv, ChildPlaced
<1>3. CASE Close(2) /\ UNCHANGED validated
  BY <1>1, <1>3, ClosedWith2
<1>4. ASSUME validated' = validated \cup child.group, phase = "replay2", UNCHANGED status,
             child' = [child EXCEPT !.decoded = child.group]
      PROVE  IInv'
  <2>1. child' \in Child /\ child'.group = child.group /\ child'.decoded = child.group
    BY <1>2, <1>4 DEF Child
  <2>2. validated' \subseteq stored
    BY <1>2, <1>4 DEF IInv, Typed
  <2> QED
    BY <1>1, <1>4, <2>1, <2>2, ChildReads
<1>5. ASSUME validated' = validated \cup child.group, phase # "replay2", Close(0)
      PROVE  IInv'
  <2>1. child' = Absent /\ status' = status
    BY <1>5, CloseKeeps DEF IInv, Typed
  <2>2. Typed' /\ ChildPlaced'
    BY <1>1, <1>2, <1>5, <2>1 DEF IInv, Typed, ChildPlaced
  <2>3. TodoPlaced'
    BY <1>1, <1>5, <2>1, OfKept DEF IInv, TodoPlaced, Phases1, Phases2
  <2>4. Prepared1'
    <3>1. Left2 = Left2' \cup child.group
      BY <1>1, <2>1, LeftIs
    <3> QED
      BY <1>1, <1>5, <2>1, <3>1, OfKept DEF IInv, Prepared1, Phases1, Phases2, Running
  <2>5. Told'
    BY <1>1, <1>5, <2>1, OfKept DEF IInv, Told, Reproduced, Phases2
  <2>6. ExitContract'
    BY <1>1, ExitKept DEF IInv
  <2> QED
    BY <2>2, <2>3, <2>4, <2>5, <2>6 DEF IInv
<1> QED
  BY <1>3, <1>4, <1>5 DEF Validated2

(* The target, and after it the modules of its graph, are read.             *)
LEMMA Reading2Step ==
  ASSUME IInv, Import2 \/ Load2, UNCHANGED projectVars
  PROVE  IInv'
<1> USE DEF projectVars, historyVars, childVars
<1>1. /\ phase = "replay2" /\ child # Absent /\ phase' = phase /\ todo' = todo /\ exit' = exit
      /\ UNCHANGED <<qualified, validated, outcome, died, refused, marker>>
  BY DEF Import2, Load2
<1>2. child \in Child /\ child.decoded \subseteq child.group /\ child.decoded \subseteq Cases
  BY <1>1 DEF IInv, ChildPlaced, Typed
<1>3. CASE Close(2)
  BY <1>1, <1>3, ClosedWith2 DEF Phases2
<1>4. ASSUME UNCHANGED status, NEW c \in child.decoded, NEW read \in SUBSET Sources,
             child' = [child EXCEPT !.loaded[c] = read]
      PROVE  IInv'
  <2>1. /\ child' \in Child /\ child'.group = child.group
        /\ child'.decoded = child.decoded
    BY <1>2, <1>4 DEF Child
  <2> QED
    BY <1>1, <1>2, <1>4, <2>1, ChildReads DEF IInv, Typed
<1>5. ASSUME NEW c \in child.decoded
      PROVE  {source[c]} \in SUBSET Sources /\ child.loaded[c] \cup {source[c]} \in SUBSET Sources
  BY <1>2 DEF IInv, Typed, Child
<1>6. CASE Import2
  BY <1>3, <1>4, <1>5, <1>6 DEF Import2
<1>7. CASE Load2
  BY <1>3, <1>4, <1>5, <1>7 DEF Load2
<1> QED
  BY <1>6, <1>7

(* What is left once the child of a case is gone. *)
LEMMA OneLess ==
  ASSUME IInv, phase = "replay2", child # Absent, child' = Absent, todo' = todo,
         NEW c \in Of(2), child.group = {c}, {c} \notin todo
  PROVE  c \in Left2 /\ Of(2) \ Left2' = (Of(2) \ Left2) \cup {c}
<1>1. ASSUME NEW g \in todo
      PROVE  c \notin g
  <2>1. PICK d \in Of(2) : g = {d}
    BY DEF IInv, TodoPlaced
  <2>2. d # c
    BY <2>1
  <2> QED
    BY <2>1, <2>2
<1>2. Left2 = Left2' \cup {c} /\ c \notin Left2'
  BY <1>1, LeftIs
<1> QED
  BY <1>2

LEMMA Replayed2Step ==
  ASSUME IInv, Replayed2, UNCHANGED projectVars
  PROVE  IInv'
<1> USE DEF projectVars
<1>1. /\ phase = "replay2" /\ child # Absent /\ child' = Absent
      /\ phase' = phase /\ todo' = todo /\ exit' = exit
      /\ UNCHANGED <<qualified, validated, died, refused, marker>>
  BY DEF Replayed2, Close
<1>2. PICK c \in Of(2) : child.group = {c} /\ {c} \notin todo
  BY <1>1 DEF IInv, TodoPlaced
<1>3. PICK o \in {"same", "different"} :
        outcome' = [outcome EXCEPT ![c] = o] /\ Close(IF o = "same" THEN 0 ELSE 1)
  <2>1. child.decoded \subseteq {c}
    BY <1>1, <1>2 DEF IInv, ChildPlaced
  <2> QED
    BY <2>1, OutcomeKinds DEF Replayed2
<1>4. /\ o = "same" => status' = status
      /\ o = "different" => status' \in {1, 2}
  BY <1>3, CloseKeeps DEF IInv, Typed
<1>5. c \in stored /\ c \in Cases /\ outcome \in [Cases -> {"not run", "same", "different"}]
  BY DEF IInv, Typed, Of
<1>6. Typed' /\ ChildPlaced'
  BY <1>1, <1>3, <1>4, <1>5 DEF IInv, Typed, ChildPlaced
<1>7. TodoPlaced' /\ Prepared1'
  BY <1>1, OfKept DEF IInv, TodoPlaced, Prepared1, Phases1, Phases2, Running
<1>8. Told'
  <2>1. c \in Left2 /\ Of(2) \ Left2' = (Of(2) \ Left2) \cup {c}
    BY <1>1, <1>2, OneLess
  <2>2. \A d \in Of(1) \cup (Of(2) \ Left2) : outcome'[d] = outcome[d]
    <3>1. \A d \in Of(1) \cup (Of(2) \ Left2) : d # c /\ d \in Cases
      BY <2>1, EitherVersion DEF IInv, Typed
    <3> QED
      BY <1>3, <1>5, <3>1
  <2>3. outcome'[c] = o
    BY <1>3, <1>5
  <2>4. Reproduced(Of(1))'
    BY <1>1, <2>2, OfKept DEF IInv, Told, Reproduced
  <2>5. status' = 0 => Reproduced(Of(2) \ Left2)'
    BY <1>1, <1>4, <2>1, <2>2, <2>3, OfKept DEF IInv, Told, Reproduced
  <2>6. status' = 1 => TakenForDifferent(Of(2) \ Left2)'
    BY <1>1, <1>4, <2>1, <2>2, <2>3, OfKept DEF IInv, Told, TakenForDifferent
  <2> QED
    BY <1>1, <2>4, <2>5, <2>6 DEF Told
<1>9. ExitContract'
  BY <1>1, AbsentIsAbsent DEF IInv, Typed, ExitContract
<1> QED
  BY <1>6, <1>7, <1>8, <1>9 DEF IInv

(* A child that dies with exit code 1 is taken for one that compared.       *)
LEMMA Failing2Step ==
  ASSUME IInv, Failed2 \/ Timeout2, UNCHANGED projectVars
  PROVE  IInv'
<1> USE DEF projectVars
<1>1. /\ phase \in Phases2 /\ child # Absent
      /\ phase' = phase /\ todo' = todo /\ exit' = exit
      /\ UNCHANGED <<qualified, validated, outcome, refused, marker>>
  BY DEF Failed2, Timeout2
<1>2. CASE Close(2) /\ UNCHANGED died
  BY <1>1, <1>2, ClosedWith2
<1>3. ASSUME Close(1),
             died' = IF phase = "replay2" THEN died \cup child.group ELSE died
      PROVE  IInv'
  <2>1. child' = Absent /\ status' \in {1, 2}
    BY <1>3, CloseKeeps DEF IInv, Typed
  <2>2. Typed' /\ ChildPlaced'
    BY <1>1, <2>1 DEF IInv, Typed, ChildPlaced
  <2>3. TodoPlaced' /\ Prepared1'
    BY <1>1, <2>1, OfKept DEF IInv, TodoPlaced, Prepared1, Phases1, Phases2, Running
  <2>4. Told'
    <3>1. CASE phase = "replay2"
      <4>1. PICK c \in Of(2) : child.group = {c} /\ {c} \notin todo
        BY <1>1, <3>1 DEF IInv, TodoPlaced
      <4>2. Of(2) \ Left2' = (Of(2) \ Left2) \cup {c} /\ c \in died'
        BY <1>1, <1>3, <2>1, <3>1, <4>1, OneLess
      <4>3. TakenForDifferent(Of(2) \ Left2)'
        BY <4>2, OfKept DEF TakenForDifferent
      <4> QED
        BY <1>1, <2>1, <3>1, <4>3, OfKept DEF IInv, Told, Reproduced
    <3>2. CASE phase # "replay2"
      BY <1>1, <2>1, <3>2, OfKept DEF IInv, Told, Reproduced, Phases2
    <3> QED
      BY <3>1, <3>2
  <2>5. ExitContract'
    BY <1>1, <1>3, ExitKept DEF IInv
  <2> QED
    BY <2>2, <2>3, <2>4, <2>5 DEF IInv
<1> QED
  BY <1>2, <1>3 DEF Failed2, Timeout2

LEMMA End2Step ==
  ASSUME IInv, End2, UNCHANGED projectVars
  PROVE  IInv'
<1> USE DEF projectVars, historyVars, childVars
<1>1. /\ phase \in Phases2 /\ child = Absent /\ todo = {} /\ child' = child
      /\ UNCHANGED <<qualified, validated, outcome, died, refused, marker, status>>
      /\ \/ phase = "replay2" /\ phase' = "done" /\ exit' = status /\ todo' = todo
         \/ phase' = "done" /\ exit' = 2 /\ todo' = todo
         \/ /\ phase = "adapters2" /\ status = 0
            /\ phase' = "replay1" /\ todo' = Of(1) /\ exit' = exit
         \/ /\ phase = "readapt2" /\ status = 0
            /\ phase' = "replay2" /\ todo' = Groups("replay2") /\ exit' = exit
  BY DEF End2, Leave, Enter, Phases2
<1>2. Left2 = {}
  BY <1>1 DEF Left2
<1>3. stored = Of(1) \cup Of(2) /\ Of(2) \ Left2 = Of(2)
  BY <1>2, EitherVersion DEF IInv, Typed
<1>4. Typed' /\ ChildPlaced'
  BY <1>1 DEF IInv, Typed, ChildPlaced
<1>5. TodoPlaced'
  BY <1>1, OfKept DEF Groups, TodoPlaced, Phases1, Phases2
<1>6. Prepared1'
  BY <1>1, <1>3, OfKept DEF IInv, Typed, Prepared1, Phases1, Phases2, Running
<1>7. Told'
  <2>1. phase' = "replay2" => Of(2)' \subseteq Left2'
    BY <1>1, GroupsCover, OfKept DEF Left2
  <2> QED
    BY <1>1, <2>1, OfKept DEF IInv, Told, Reproduced
<1>8. ExitContract'
  <2>1. CASE phase = "replay2" /\ exit' = status
    BY <1>1, <1>3, <2>1 DEF IInv, Told, Reproduced, TakenForDifferent, ExitContract
  <2> QED
    BY <1>1, <2>1, ExitKept DEF IInv
<1> QED
  BY <1>4, <1>5, <1>6, <1>7, <1>8 DEF IInv

-----------------------------------------------------------------------------
(* The project is edited, or nothing happens *)

LEMMA EditStep == IInv /\ Edit => IInv'
<1> SUFFICES ASSUME IInv, Edit
             PROVE  IInv'
  OBVIOUS
<1>1. UNCHANGED <<stored, historyVars, workVars, phase, exit>>
  BY DEF Edit
<1>2. source' \in [Cases -> Sources]
  BY DEF Edit, IInv, Typed
<1> USE <1>1 DEF historyVars, childVars, workVars
<1>3. Typed' /\ ChildPlaced'
  BY <1>2 DEF IInv, Typed, ChildPlaced
<1>4. TodoPlaced' /\ Prepared1'
  BY OfKept DEF IInv, TodoPlaced, Prepared1, Left2
<1>5. Told' /\ ExitContract'
  BY OfKept DEF IInv, Told, Reproduced, Differs, TakenForDifferent, Left2, ExitContract
<1> QED
  BY <1>3, <1>4, <1>5 DEF IInv

LEMMA StutterStep == IInv /\ UNCHANGED vars => IInv'
<1> SUFFICES ASSUME IInv, UNCHANGED vars
             PROVE  IInv'
  OBVIOUS
<1> USE DEF vars, projectVars, historyVars, childVars, workVars
<1>1. Typed' /\ ChildPlaced'
  BY DEF IInv, Typed, ChildPlaced
<1>2. TodoPlaced' /\ Prepared1'
  BY OfKept DEF IInv, TodoPlaced, Prepared1, Left2
<1>3. Told' /\ ExitContract'
  BY OfKept DEF IInv, Told, Reproduced, Differs, TakenForDifferent, Left2, ExitContract
<1> QED
  BY <1>1, <1>2, <1>3 DEF IInv

LEMMA NextStep == IInv /\ [Next]_vars => IInv'
<1> SUFFICES ASSUME IInv, [Next]_vars
             PROVE  IInv'
  OBVIOUS
<1>1. CASE Verify
  <2>1. UNCHANGED projectVars
    BY <1>1 DEF Verify
  <2>2. CASE Preflight
    BY <2>1, <2>2, ParseStep, PrepareStep, JudgeStep, Preflight2Step DEF Preflight
  <2>3. CASE \/ \E c \in Cases : Validate1(c)
             \/ EndValidate1
    BY <2>1, <2>3, Validate1Step, EndValidate1Step
  <2>4. CASE Replay1
    BY <2>1, <2>4, Start1Step, Test1Step, End1Step DEF Replay1
  <2>5. CASE Children2
    BY <2>1, <2>5, Spawn2Step, Validated2Step, Reading2Step, Replayed2Step, Failing2Step,
       End2Step
       DEF Children2
  <2> QED
    BY <1>1, <2>2, <2>3, <2>4, <2>5 DEF Verify
<1>2. CASE Edit
  BY <1>2, EditStep
<1>3. CASE UNCHANGED vars
  BY <1>3, StutterStep
<1> QED
  BY <1>1, <1>2, <1>3 DEF Next

-----------------------------------------------------------------------------
(* The theorems *)

(* The strengthening holds in every reachable state, for every store.       *)
THEOREM Inductive == Spec => []IInv
<1> QED
  BY InitOK, NextStep, PTL DEF Spec

(* Exit status 0 is given only when every accepted case was replayed and    *)
(* reproduced, 1 only when some case behaved differently or the process of  *)
(* a V2 replay died with exit code 1: however the project is edited         *)
(* meanwhile and whichever processes fail.                                  *)
THEOREM StatusMeans == Spec => []ExitContract
<1>1. IInv => ExitContract
  BY DEF IInv
<1> QED
  BY <1>1, Inductive, PTL

(* A target of either version ends its replay only after every accepted     *)
(* case of both was requalified and had its adapters validated.             *)
THEOREM ReplayIsLast == Spec => NothingRunsEarly
<1> DEFINE Early == outcome' # outcome => qualified = stored /\ validated = stored
<1>1. IInv /\ [Next]_vars => [Early]_vars
  <2> SUFFICES ASSUME IInv, Next, outcome' # outcome
               PROVE  qualified = stored /\ validated = stored
    OBVIOUS
  <2>1. Test1 \/ Replayed2
    <3>1. ~Edit
      BY DEF Edit, historyVars
    <3>2. CASE Preflight
      BY <3>2 DEF Preflight, Parse, Prepare, Judge, Preflight2, historyVars
    <3>3. CASE \/ \E c \in Cases : Validate1(c)
               \/ EndValidate1
      BY <3>3 DEF Validate1, EndValidate1, historyVars
    <3>4. CASE Replay1
      BY <3>4 DEF Replay1, Start1, End1, historyVars
    <3>5. CASE Children2
      BY <3>5 DEF Children2, Spawn2, Validated2, Import2, Load2, Failed2, Timeout2, End2, historyVars
    <3> QED
      BY <3>1, <3>2, <3>3, <3>4, <3>5 DEF Next, Verify
  <2>2. phase \in {"replay1", "replay2"}
    BY <2>1 DEF Test1, Replayed2
  <2> QED
    BY <2>2 DEF IInv, Prepared1, Running, Phases2
<1> QED
  BY <1>1, Inductive, PTL DEF Spec, NothingRunsEarly

-----------------------------------------------------------------------------
(* The verdict on a project that holds still                                *)

Undisturbed == edits = 0 /\ faults = 0 /\ ~killed

Counted ==
  /\ edits \in Nat /\ faults \in Nat
  /\ malformed \subseteq stored
  /\ prepared \in [Cases -> Sources \cup {Absent}]

Wanting == \E c \in stored : ~Eligible(c) \/ ~Accepts(c)

(* What was checked of the project is so.                                   *)
Checked ==
  /\ phase \notin {"parse", "done"} => malformed = {}
  /\ \A c \in qualified : Eligible(c)
  /\ \A c \in validated : Accepts(c)
  /\ refused => Wanting
  /\ phase \in {"prepare1", "eligible1"} =>
       \A c \in Of(1) : phase = "eligible1" \/ c \notin todo =>
         prepared[c] = source[c] /\ source[c] # "gone"

(* A child has read what is there.                                          *)
ReadTrue ==
  /\ phase = "replay1" /\ child # Absent =>
       /\ child.decoded = {c \in Of(1) : Accepts(c)}
       /\ \A c \in Cases : child.loaded[c] = {source[c]}
  /\ phase = "replay2" /\ child # Absent =>
       \A c \in Cases : child.loaded[c] \subseteq {source[c]}

(* Replays ended as their sources make them end.                            *)
OutcomesTrue ==
  /\ died = {}
  /\ \A c \in Cases : /\ outcome[c] = "same" => source[c] = "same"
                      /\ outcome[c] = "different" => source[c] = "changed"

(* A status other than 0 has its reason.                                    *)
StatusTrue ==
  /\ phase \notin Running \cup {"done"} => status = 0
  /\ phase \in {"adapters2", "readapt2"} /\ status # 0 => Wanting
  /\ phase = "replay1" /\ status # 0 => marker
  /\ phase = "replay2" => status # 2

Ended == phase = "done" => exit = Deserved

Still == Checked /\ ReadTrue /\ OutcomesTrue /\ StatusTrue /\ Ended

StillInv == IInv /\ Counted /\ (Undisturbed => Still)

(* What is wrong with the project does not change while it holds still.     *)
LEMMA ProjectKept ==
  ASSUME UNCHANGED projectVars
  PROVE  /\ stored' = stored /\ malformed' = malformed /\ source' = source
         /\ adapters' = adapters
         /\ \A c : Eligible(c)' = Eligible(c) /\ Accepts(c)' = Accepts(c)
         /\ Of(1)' = Of(1) /\ Of(2)' = Of(2)
         /\ Wanting' = Wanting /\ Deserved' = Deserved
BY DEF projectVars, Eligible, Accepts, Of, Wanting, Deserved

LEMMA DeservedIs ==
  /\ Wanting => Deserved = 2
  /\ malformed # {} => Deserved = 2
  /\ malformed = {} /\ ~Wanting /\ Differs(stored) /\ OutcomesTrue /\ stored \subseteq Cases
     => Deserved = 1
  /\ malformed = {} /\ ~Wanting /\ Reproduced(stored) /\ OutcomesTrue /\ stored \subseteq Cases
     => Deserved = 0
BY DEF Deserved, Wanting, Differs, Reproduced, OutcomesTrue

(* Once all is requalified and validated, nothing is wanting.               *)
LEMMA AllChecked ==
  ASSUME Checked, qualified = stored, validated = stored
  PROVE  ~Wanting /\ \A c \in stored : Eligible(c) /\ Accepts(c)
BY DEF Checked, Wanting

LEMMA StillPreflight ==
  ASSUME IInv, Counted, Still, Parse \/ Prepare \/ Judge, UNCHANGED projectVars
  PROVE  Still'
<1> USE ProjectKept DEF childVars, historyVars, Leave, Enter
<1>1. UNCHANGED <<validated, outcome, died, refused, child, marker, status>>
  BY DEF Parse, Prepare, Judge
<1>2. phase \in {"parse", "prepare1", "eligible1"}
      /\ phase' \in {"done", "prepare1", "eligible1", "preflight2", "adapters1"}
  BY DEF Parse, Prepare, Judge
<1>3. ReadTrue' /\ OutcomesTrue' /\ StatusTrue'
  BY <1>1, <1>2 DEF Still, ReadTrue, OutcomesTrue, StatusTrue, Running, Phases2
<1>4. CASE Parse
  <2>1. Checked'
    BY <1>1, <1>4 DEF Parse, Still, Checked
  <2>2. Ended'
    <3>1. CASE stored = {}
      BY <3>1, <1>4 DEF Parse, Ended, Deserved, Counted
    <3>2. CASE stored # {} /\ malformed # {}
      BY <3>2, <1>4, DeservedIs DEF Parse, Ended
    <3>3. CASE stored # {} /\ malformed = {}
      BY <3>3, <1>4 DEF Parse, Ended
    <3> QED
      BY <3>1, <3>2, <3>3
  <2> QED
    BY <1>3, <2>1, <2>2 DEF Still
<1>5. CASE Prepare
  <2>1. CASE todo = {} /\ phase' = "eligible1" /\ UNCHANGED prepared
    BY <1>1, <1>3, <1>5, <2>1 DEF Prepare, Still, Checked, Ended
  <2>2. ASSUME NEW c \in Cases, IsFirst(c, todo), source[c] = "gone",
               phase' = "done", exit' = 2, UNCHANGED <<todo, prepared>>
        PROVE  Still'
    <3>1. c \in stored /\ Wanting
      BY <1>5, <2>2 DEF Prepare, IInv, TodoPlaced, IsFirst, Of, Wanting, Eligible
    <3> QED
      BY <1>1, <1>3, <1>5, <2>2, <3>1, DeservedIs DEF Prepare, Still, Checked, Ended
  <2>3. ASSUME NEW c \in Cases, IsFirst(c, todo), source[c] # "gone",
               prepared' = [prepared EXCEPT ![c] = source[c]], todo' = todo \ {c},
               UNCHANGED <<phase, exit>>
        PROVE  Still'
    <3>1. \A d \in Cases : prepared'[d] = IF d = c THEN source[c] ELSE prepared[d]
      BY <2>3 DEF Counted
    <3>2. Of(1) \subseteq Cases
      BY DEF Of, IInv, Typed
    <3>3. Checked'
      BY <1>1, <1>5, <2>3, <3>1, <3>2 DEF Prepare, Still, Checked
    <3> QED
      BY <1>3, <1>5, <2>3, <3>3 DEF Prepare, Still, Ended
  <2> QED
    BY <1>5, <2>1, <2>2, <2>3 DEF Prepare
<1>6. CASE Judge
  <2>1. CASE \E c \in Of(1) : prepared[c] = "ineligible"
    <3>1. Wanting
      BY <1>6, <2>1 DEF Judge, Still, Checked, Wanting, Eligible, Of
    <3> QED
      BY <1>1, <1>3, <1>6, <2>1, <3>1, DeservedIs DEF Judge, Still, Checked, Ended
  <2>2. CASE ~ \E c \in Of(1) : prepared[c] = "ineligible"
    <3>1. \A c \in Of(1) : Eligible(c)
      BY <1>6, <2>2 DEF Judge, Still, Checked, Eligible
    <3> QED
      BY <1>1, <1>3, <1>6, <2>2, <3>1 DEF Judge, Still, Checked, Ended
  <2> QED
    BY <2>1, <2>2
<1> QED
  BY <1>4, <1>5, <1>6

LEMMA StillPreflight2 ==
  ASSUME IInv, Still, UNCHANGED projectVars,
         \/ Preflight2("preflight2", IF Of(1) # {} THEN "adapters1" ELSE "recheck2",
                       IF Of(1) # {} THEN Of(1) ELSE Of(2))
         \/ Preflight2("recheck2", "readapt2", Groups("readapt2"))
  PROVE  Still'
<1> USE ProjectKept DEF childVars
<1>1. /\ phase \in {"preflight2", "recheck2"}
      /\ UNCHANGED <<validated, outcome, died, prepared, refused, child, marker, status>>
      /\ \/ qualified' = qualified /\ exit' = exit
            /\ phase' \in {"adapters1", "recheck2", "readapt2"}
         \/ \E c \in todo : /\ ~Eligible(c)
                            /\ qualified' = qualified /\ phase' = "done" /\ exit' = 2
         \/ \E c \in todo : /\ Eligible(c)
                            /\ qualified' = qualified \cup {c} /\ phase' = phase /\ exit' = exit
  BY DEF Preflight2, Leave, Enter, IsFirst
<1>2. todo \subseteq stored
  BY <1>1 DEF IInv, TodoPlaced, Of
<1>3. ReadTrue' /\ OutcomesTrue' /\ StatusTrue'
  BY <1>1 DEF Still, ReadTrue, OutcomesTrue, StatusTrue, Running, Phases2
<1>4. Checked'
  BY <1>1 DEF Still, Checked
<1>5. Ended'
  BY <1>1, <1>2, DeservedIs DEF Ended, Wanting
<1> QED
  BY <1>3, <1>4, <1>5 DEF Still

LEMMA StillValidates1 ==
  ASSUME IInv, Still, UNCHANGED projectVars, Undisturbed',
         (\E c \in Cases : Validate1(c)) \/ EndValidate1, Counted
  PROVE  Still'
<1> USE ProjectKept DEF childVars, historyVars
<1>1. CASE EndValidate1
  <2>1. /\ phase = "adapters1"
        /\ UNCHANGED <<qualified, validated, outcome, died, prepared, refused, child, marker, status>>
        /\ \/ refused /\ phase' = "done" /\ exit' = 2
           \/ phase' \in {"adapters2", "replay1"}
    BY <1>1 DEF EndValidate1, ReplayNextOrValidate, Leave, Enter
  <2>2. child = Absent /\ status = 0
    BY <2>1 DEF IInv, ChildPlaced, Running, Phases2, Still, StatusTrue
  <2>3. ReadTrue' /\ OutcomesTrue' /\ StatusTrue'
    BY <2>1, <2>2 DEF Still, ReadTrue, OutcomesTrue, StatusTrue, Running, Phases2
  <2>4. Checked' /\ Ended'
    BY <2>1, DeservedIs DEF Still, Checked, Ended
  <2> QED
    BY <2>3, <2>4 DEF Still
<1>2. ASSUME NEW c \in Cases, Validate1(c)
      PROVE  Still'
  <2>1. c \in stored
    BY <1>2 DEF Validate1, IInv, TodoPlaced, Phases1, Of
  <2>2. /\ phase = "adapters1"
        /\ UNCHANGED <<phase, exit, qualified, outcome, died, prepared, child, marker, status>>
        /\ \/ Accepts(c) /\ validated' = validated \cup {c} /\ refused' = refused
           \/ ~Accepts(c) /\ validated' = validated
    BY <1>2 DEF Validate1, Fault, Undisturbed, Counted
  <2>3. ReadTrue' /\ OutcomesTrue' /\ StatusTrue' /\ Ended'
    BY <2>2 DEF Still, ReadTrue, OutcomesTrue, StatusTrue, Running, Phases2, Ended
  <2>4. Checked'
    BY <2>1, <2>2 DEF Still, Checked, Wanting
  <2> QED
    BY <2>3, <2>4 DEF Still
<1> QED
  BY <1>1, <1>2

(* A callable loaded from one eligible source does what the source says.    *)
LEMMA OutcomeTrue ==
  ASSUME NEW c, Eligible(c), NEW o \in Outcomes({source[c]}), source[c] \in Sources
  PROVE  /\ o = "same" => source[c] = "same"
         /\ o = "different" => source[c] = "changed"
<1>1. source[c] \in {"same", "changed", "hangs"}
  BY DEF Eligible, Sources
<1> QED
  BY <1>1 DEF Outcomes

LEMMA StillReplays1 ==
  ASSUME IInv, Counted, Still, UNCHANGED projectVars, Undisturbed', Replay1
  PROVE  Still'
<1> USE ProjectKept DEF childVars, historyVars, Leave, Enter
<1>1. phase = "replay1" /\ qualified = stored /\ validated = stored
  BY DEF Replay1, Start1, Test1, End1, IInv, Prepared1, Running
<1>2. ~Wanting /\ \A c \in stored : Eligible(c) /\ Accepts(c)
  BY <1>1, AllChecked DEF Still
<1>3. stored \subseteq Cases /\ Of(1) \subseteq stored
  BY DEF IInv, Typed, Of
<1>4. CASE Start1
  <2>1. \A c \in Of(1) : source[c] # "gone"
    BY <1>2, <1>3 DEF Eligible
  <2>2. /\ UNCHANGED <<phase, exit, todo, qualified, validated, outcome, died, prepared, refused,
                       marker, status>>
        /\ child' = [group |-> Of(1), decoded |-> {c \in Of(1) : Accepts(c)},
                     loaded |-> [c \in Cases |-> {source[c]}]]
    BY <1>4, <2>1 DEF Start1
  <2>3. ReadTrue'
    BY <1>1, <2>2 DEF ReadTrue
  <2> QED
    BY <1>1, <2>2, <2>3 DEF Still, Checked, OutcomesTrue, StatusTrue, Running, Ended
<1>5. CASE Test1
  <2>1. PICK c \in Cases :
          /\ c \in todo
          /\ IF c \notin child.decoded THEN status' = 2 /\ UNCHANGED <<outcome, marker>>
             ELSE \E o \in Outcomes(child.loaded[c]) :
               /\ outcome' = [outcome EXCEPT ![c] = o]
               /\ marker' = (marker \/ o = "different")
               /\ status' = IF o = "different" THEN 2 ELSE status
    BY <1>5 DEF Test1, IsFirst
  <2>2. /\ child # Absent /\ child' = child
        /\ UNCHANGED <<phase, exit, qualified, validated, died, prepared, refused>>
    BY <1>5 DEF Test1
  <2>3. c \in Of(1) /\ Eligible(c) /\ Accepts(c)
    BY <1>1, <1>2, <1>3, <2>1 DEF IInv, TodoPlaced, Phases1
  <2>4. c \in child.decoded /\ child.loaded[c] = {source[c]}
    BY <1>1, <2>2, <2>3 DEF Still, ReadTrue
  <2>5. PICK o \in Outcomes({source[c]}) :
          /\ outcome' = [outcome EXCEPT ![c] = o]
          /\ marker' = (marker \/ o = "different")
          /\ status' = IF o = "different" THEN 2 ELSE status
    BY <2>1, <2>4
  <2>6. OutcomesTrue'
    <3>1. source[c] \in Sources /\ outcome \in [Cases -> {"not run", "same", "different"}]
      BY DEF IInv, Typed
    <3> QED
      BY <2>2, <2>3, <2>5, <3>1, OutcomeTrue DEF Still, OutcomesTrue
  <2>7. StatusTrue'
    BY <1>1, <2>2, <2>5 DEF Still, StatusTrue, Running
  <2> QED
    BY <1>1, <2>2, <2>6, <2>7 DEF Still, Checked, ReadTrue, Ended
<1>6. CASE End1
  <2>1. /\ todo = {} /\ child' = Absent
        /\ UNCHANGED <<qualified, validated, outcome, died, prepared, refused, marker, status>>
        /\ \/ marker /\ phase' = "done" /\ exit' = 1
           \/ status # 0 /\ ~marker
           \/ status = 0 /\ phase' = "recheck2" /\ exit' = exit
           \/ status = 0 /\ Of(2) = {} /\ phase' = "done" /\ exit' = 0
    BY <1>6 DEF End1, Fault, Mismatched, Undisturbed, Counted
  <2>2. status # 0 => marker
    BY <1>1 DEF Still, StatusTrue
  <2>3. marker => Differs(stored)
    BY <1>1, <1>3 DEF IInv, Told, Differs
  <2>4. status = 0 /\ Of(2) = {} => Reproduced(stored)
    BY <1>1, <2>1, EitherVersion DEF IInv, Typed, Told, Reproduced
  <2>5. OutcomesTrue' /\ ReadTrue' /\ Checked' /\ StatusTrue'
    BY <1>1, <2>1, <2>2 DEF Still, OutcomesTrue, ReadTrue, Checked, StatusTrue, Running, Phases2
  <2>6. Ended'
    BY <1>1, <1>2, <1>3, <2>1, <2>2, <2>3, <2>4, DeservedIs DEF Ended, Still, Checked
  <2> QED
    BY <2>5, <2>6 DEF Still
<1> QED
  BY <1>4, <1>5, <1>6 DEF Replay1

LEMMA StillChildren2 ==
  ASSUME IInv, Counted, Still, UNCHANGED projectVars, Undisturbed', Children2
  PROVE  Still'
<1> USE ProjectKept DEF childVars, historyVars
<1>1. phase \in Phases2 /\ qualified = stored
  BY DEF Children2, Spawn2, Validated2, Import2, Load2, Replayed2, Failed2, Timeout2, End2,
         Phases2, IInv, Prepared1, Running
<1>2. \A c \in stored : Eligible(c)
  BY <1>1 DEF Still, Checked
<1>3. phase = "replay2" => ~Wanting /\ \A c \in stored : Accepts(c)
  BY <1>1, AllChecked DEF Still, IInv, Prepared1
<1>4. child # Absent => child \in Child /\ child.group \subseteq stored
                        /\ child.decoded \subseteq child.group
  BY DEF IInv, ChildPlaced
<1>5. stored \subseteq Cases /\ status \in {0, 1, 2}
  BY DEF IInv, Typed
<1>6. Children2 => ~Failed2 /\ ~Timeout2
  BY DEF Failed2, Timeout2, Fault, Undisturbed, Counted
<1>7. CASE Spawn2
  <2>1. PICK g \in todo :
          /\ todo' = todo \ {g}
          /\ IF \A c \in g : Eligible(c)
             THEN child' = Spawned(g) /\ UNCHANGED status
             ELSE status' = 2 /\ UNCHANGED child
    BY <1>7 DEF Spawn2, Spawned
  <2>2. \A c \in g : Eligible(c)
    BY <1>1, <1>2 DEF IInv, TodoPlaced, Of
  <2>3. \A c \in Cases : Spawned(g).loaded[c] = {}
    BY DEF Spawned
  <2>4. /\ child' = Spawned(g)
        /\ UNCHANGED <<phase, exit, qualified, validated, outcome, died, prepared, refused, marker,
                       status>>
    BY <1>7, <2>1, <2>2 DEF Spawn2
  <2>5. ReadTrue'
    BY <1>1, <2>3, <2>4 DEF ReadTrue, Phases2
  <2> QED
    BY <1>1, <2>4, <2>5 DEF Still, Checked, OutcomesTrue, StatusTrue, Running, Phases2, Ended
<1>8. CASE Validated2
  <2>1. /\ child # Absent
        /\ UNCHANGED <<phase, exit, qualified, outcome, died, prepared, refused, marker>>
    BY <1>8 DEF Validated2
  <2>2. CASE \E c \in child.group : ~Accepts(c)
    <3>1. Wanting /\ phase # "replay2"
      BY <1>3, <1>4, <2>1, <2>2 DEF Wanting
    <3>2. child' = Absent /\ status' = 2 /\ UNCHANGED validated
      BY <1>5, <1>8, <2>2, CloseKeeps DEF Validated2
    <3> QED
      BY <1>1, <2>1, <3>1, <3>2
         DEF Still, Checked, ReadTrue, OutcomesTrue, StatusTrue, Running, Phases2, Ended
  <2>3. CASE \A c \in child.group : Accepts(c)
    <3>1. /\ validated' = validated \cup child.group
          /\ IF phase = "replay2"
             THEN child' = [child EXCEPT !.decoded = child.group] /\ UNCHANGED status
             ELSE Close(0)
      BY <1>8, <2>3 DEF Validated2
    <3>2. status' = status
      BY <1>5, <3>1, CloseKeeps
    <3>3. ReadTrue'
      <4>1. CASE phase = "replay2"
        <5>1. child'.loaded = child.loaded
          BY <1>4, <2>1, <3>1, <4>1 DEF Child
        <5> QED
          BY <2>1, <4>1, <5>1 DEF Still, ReadTrue
      <4>2. CASE phase # "replay2"
        BY <1>1, <2>1, <4>2 DEF ReadTrue, Phases2
      <4> QED
        BY <4>1, <4>2
    <3> QED
      BY <1>1, <2>1, <2>3, <3>1, <3>2, <3>3
         DEF Still, Checked, OutcomesTrue, StatusTrue, Running, Phases2, Ended
  <2> QED
    BY <2>2, <2>3
<1>9. CASE Import2 \/ Load2
  <2>1. /\ phase = "replay2" /\ child # Absent
        /\ UNCHANGED <<phase, exit, qualified, validated, outcome, died, prepared, refused, marker>>
    BY <1>9 DEF Import2, Load2
  <2>2. PICK c \in child.decoded :
          child' = [child EXCEPT !.loaded[c] = {source[c]}] /\ UNCHANGED status
    <3>1. ~Load2
      BY <1>4, <1>5, <2>1 DEF Load2, Still, ReadTrue
    <3>2. \A c \in child.decoded : Eligible(c)
      BY <1>2, <1>4, <2>1
    <3> QED
      BY <1>9, <3>1, <3>2 DEF Import2
  <2>3. \A d \in Cases : child'.loaded[d] = IF d = c THEN {source[c]} ELSE child.loaded[d]
    BY <1>4, <2>1, <2>2 DEF Child
  <2>4. ReadTrue'
    BY <2>1, <2>3 DEF Still, ReadTrue
  <2> QED
    BY <2>1, <2>2, <2>4 DEF Still, Checked, OutcomesTrue, StatusTrue, Running, Ended
<1>10. CASE Replayed2
  <2>1. /\ phase = "replay2" /\ child # Absent
        /\ UNCHANGED <<phase, exit, qualified, validated, died, prepared, refused, marker>>
    BY <1>10 DEF Replayed2
  <2>2. PICK c \in child.decoded :
          /\ child.loaded[c] # {}
          /\ \E o \in Outcomes(child.loaded[c]) :
               /\ outcome' = [outcome EXCEPT ![c] = o]
               /\ Close(IF o = "same" THEN 0 ELSE 1)
    BY <1>10 DEF Replayed2
  <2>3. c \in Cases /\ Eligible(c)
    BY <1>2, <1>4, <1>5, <2>1
  <2>4. child.loaded[c] = {source[c]}
    BY <2>1, <2>2, <2>3 DEF Still, ReadTrue
  <2>5. PICK o \in Outcomes({source[c]}) :
          outcome' = [outcome EXCEPT ![c] = o] /\ Close(IF o = "same" THEN 0 ELSE 1)
    BY <2>2, <2>4
  <2>6. OutcomesTrue'
    <3>1. source[c] \in Sources /\ outcome \in [Cases -> {"not run", "same", "different"}]
      BY <2>3 DEF IInv, Typed
    <3> QED
      BY <2>1, <2>3, <2>5, <3>1, OutcomeTrue DEF Still, OutcomesTrue
  <2>7. child' = Absent /\ status' # 2
    <3>1. status \in {0, 1}
      BY <1>5, <2>1 DEF Still, StatusTrue
    <3> QED
      BY <2>5, <3>1 DEF Close
  <2> QED
    BY <2>1, <2>6, <2>7 DEF Still, Checked, ReadTrue, StatusTrue, Running, Phases2, Ended
<1>11. CASE End2
  <2>1. /\ child = Absent /\ child' = child /\ todo = {}
        /\ UNCHANGED <<qualified, validated, outcome, died, prepared, refused, marker, status>>
        /\ \/ phase = "replay2" /\ phase' = "done" /\ exit' = status
           \/ phase # "replay2" /\ status # 0 /\ phase' = "done" /\ exit' = 2
           \/ /\ phase # "replay2" /\ status = 0 /\ exit' = exit
              /\ phase' \in {"replay1", "replay2"}
    BY <1>11 DEF End2, Leave, Enter
  <2>2. Checked' /\ ReadTrue' /\ OutcomesTrue' /\ StatusTrue'
    BY <1>1, <2>1 DEF Still, Checked, ReadTrue, OutcomesTrue, StatusTrue, Running, Phases2
  <2>3. Ended'
    <3>1. CASE phase # "replay2"
      BY <1>1, <2>1, <3>1, DeservedIs DEF Still, StatusTrue, Ended, Phases2
    <3>2. CASE phase = "replay2"
      <4>1. status \in {0, 1} /\ malformed = {} /\ died = {}
        BY <1>5, <3>2 DEF Still, StatusTrue, Checked, OutcomesTrue
      <4>2. Left2 = {} /\ stored = Of(1) \cup Of(2)
        BY <1>5, <2>1, EitherVersion DEF Left2
      <4>3. status = 0 => Reproduced(stored)
        BY <3>2, <4>2 DEF IInv, Told, Reproduced
      <4>4. status = 1 => Differs(stored)
        BY <3>2, <4>1, <4>2 DEF IInv, Told, TakenForDifferent, Differs
      <4> QED
        BY <1>3, <1>5, <2>1, <3>2, <4>1, <4>3, <4>4, DeservedIs DEF Still, Ended
    <3> QED
      BY <3>1, <3>2
  <2> QED
    BY <2>2, <2>3 DEF Still
<1> QED
  BY <1>6, <1>7, <1>8, <1>9, <1>10, <1>11 DEF Children2

LEMMA CountedKept == IInv /\ Counted /\ [Next]_vars => Counted'
<1> SUFFICES ASSUME IInv, Counted, [Next]_vars
             PROVE  Counted'
  OBVIOUS
<1> USE DEF projectVars, vars, workVars
<1>1. UNCHANGED <<stored, malformed>>
  BY DEF Next, Verify, Edit
<1>2. edits' \in Nat
  BY DEF Next, Verify, Edit, Counted
<1>3. faults' = faults \/ faults' = faults + 1
  <2>1. CASE Verify
    BY <2>1 DEF Verify, Preflight, Parse, Prepare, Judge, Preflight2, Validate1, EndValidate1,
       Replay1, Start1, Test1, End1, Children2, Spawn2, Validated2, Import2, Load2, Replayed2,
       Failed2, Timeout2, End2, Fault
  <2> QED
    BY <2>1 DEF Next, Edit
<1>4. prepared' \in [Cases -> Sources \cup {Absent}]
  <2>1. CASE Prepare
    BY <2>1 DEF Prepare, Counted, IInv, Typed
  <2>2. CASE Verify /\ ~Prepare
    BY <2>2 DEF Verify, Preflight, Parse, Judge, Preflight2, Validate1, EndValidate1,
       Replay1, Start1, Test1, End1, Children2, Spawn2, Validated2, Import2, Load2, Replayed2,
       Failed2, Timeout2, End2, Counted
  <2> QED
    BY <2>1, <2>2 DEF Next, Edit, Counted
<1> QED
  BY <1>1, <1>2, <1>3, <1>4 DEF Counted

(* A disturbance is not undone. *)
LEMMA StillDisturbed == Counted /\ [Next]_vars /\ Undisturbed' => Undisturbed
<1> SUFFICES ASSUME Counted, [Next]_vars, Undisturbed'
             PROVE  Undisturbed
  OBVIOUS
<1> USE DEF Undisturbed, Counted, projectVars, historyVars, childVars
<1>1. CASE Verify
  <2>1. edits' = edits
    BY <1>1 DEF Verify
  <2>2. faults' \in {faults, faults + 1}
    BY <1>1 DEF Verify, Preflight, Parse, Prepare, Judge, Preflight2, Validate1, EndValidate1,
       Replay1, Start1, Test1, End1, Children2, Spawn2, Validated2, Import2, Load2, Replayed2,
       Failed2, Timeout2, End2, Fault
  <2>3. ~killed' => ~killed
    BY <1>1 DEF Verify, Preflight, Parse, Prepare, Judge, Preflight2, Validate1, EndValidate1,
       Replay1, Start1, Test1, End1, Children2, Spawn2, Validated2, Import2, Load2, Replayed2,
       Failed2, Timeout2, End2, Fault
  <2>4. edits = 0 /\ faults = 0
    BY <2>1, <2>2
  <2> QED
    BY <2>3, <2>4
<1>2. CASE Edit
  BY <1>2 DEF Edit
<1>3. CASE UNCHANGED vars
  BY <1>3 DEF vars
<1> QED
  BY <1>1, <1>2, <1>3 DEF Next

LEMMA StillInit == Init => StillInv
<1> SUFFICES ASSUME Init
             PROVE  StillInv
  OBVIOUS
<1>1. Counted
  BY DEF Init, Counted
<1>2. Checked /\ ReadTrue /\ StatusTrue /\ Ended
  BY DEF Init, Checked, ReadTrue, StatusTrue, Ended
<1>3. OutcomesTrue
  BY DEF Init, OutcomesTrue
<1> QED
  BY <1>1, <1>2, <1>3, InitOK DEF StillInv, Still

LEMMA StillStep == StillInv /\ [Next]_vars => StillInv'
<1> SUFFICES ASSUME StillInv, [Next]_vars
             PROVE  StillInv'
  OBVIOUS
<1>1. IInv /\ Counted /\ IInv' /\ Counted'
  BY NextStep, CountedKept DEF StillInv
<1>2. ASSUME Undisturbed'
      PROVE  Still'
  <2>1. Still /\ Undisturbed
    BY <1>1, <1>2, StillDisturbed DEF StillInv
  <2>2. ~Edit
    BY <1>2, <2>1 DEF Edit, Undisturbed
  <2>3. CASE Verify
    <3>1. UNCHANGED projectVars
      BY <2>3 DEF Verify
    <3> QED
      BY <1>1, <1>2, <2>1, <2>3, <3>1, StillPreflight, StillPreflight2, StillValidates1,
         StillReplays1, StillChildren2 DEF Verify, Preflight
  <2>4. CASE UNCHANGED vars
    <3>1. UNCHANGED projectVars
      BY <2>4 DEF vars
    <3> QED
      BY <2>1, <2>4, <3>1, ProjectKept
         DEF vars, workVars, historyVars, childVars, Still, Checked, ReadTrue, OutcomesTrue,
             StatusTrue, Ended
  <2> QED
    BY <2>2, <2>3, <2>4 DEF Next
<1> QED
  BY <1>1, <1>2 DEF StillInv

(* A verify that no edit, failing process or timer disturbed exits with the *)
(* status its project deserves, for any store and any order of its cases:   *)
(* 2 before 1 before 0, whichever version the case is of that decides.      *)
THEOREM StillDeserves == Spec => []VerdictDeserved
<1>1. StillInv => VerdictDeserved
  BY DEF StillInv, Still, Ended, Undisturbed, VerdictDeserved
<1> QED
  BY <1>1, StillInit, StillStep, PTL DEF Spec

-----------------------------------------------------------------------------
(* What a recording is *)

(* Concurrent branches perform only asynchronous effects: a branch that    *)
(* performs another is the only one with any.                              *)
Joined(p) ==
  \A b, c \in Branch : \A n \in DOMAIN p[b] :
    p[b][n] \notin AsyncOperation /\ b # c => p[c] = <<>>

TraceEvent == [kind : {"call"}, id : Nat, operation : Operation]
                \cup [kind : {"return", "throw"}, id : Nat]

(* C[b][n] is where the trace t has the n-th call of branch b, S[b][n] where*)
(* it has its settlement; 0 where it has none.                             *)
Index == Nat \ {0}
Places == [Branch -> [Index -> Nat]]

Calls(C, p, t) ==
  \A b \in Branch : \A n \in Index : C[b][n] # 0 =>
    /\ C[b][n] <= Len(t) /\ n <= Len(p[b])
    /\ t[C[b][n]].kind = "call" /\ t[C[b][n]].operation = p[b][n]

Immediate(C, S, p) ==
  \A b \in Branch : \A n \in Index :
    C[b][n] # 0 /\ p[b][n] \notin AsyncOperation => S[b][n] = C[b][n] + 1

Answers(C, S, t) ==
  \A b \in Branch : \A n \in Index : S[b][n] # 0 =>
    /\ C[b][n] # 0 /\ C[b][n] < S[b][n] /\ S[b][n] <= Len(t)
    /\ t[S[b][n]].kind \in {"return", "throw"} /\ t[S[b][n]].id = t[C[b][n]].id

Whole(C, S, t) ==
  \A k \in 1 .. Len(t) :
    /\ t[k].kind = "call" => \E b \in Branch : \E n \in Index : C[b][n] = k
    /\ t[k].kind # "call" => \E b \in Branch : \E n \in Index : S[b][n] = k

Numbered(C, t) ==
  \A b, c \in Branch : \A n, m \in Index :
    C[b][n] # 0 /\ C[c][m] # 0 /\ t[C[b][n]].id = t[C[c][m]].id => b = c /\ n = m

(* A branch awaits what it called before it goes on,                       *)
Follows(C, S, t) ==
  \A b \in Branch : \A n \in Index : C[b][n + 1] # 0 =>
    S[b][n] # 0 /\ t[S[b][n]].kind = "return" /\ S[b][n] < C[b][n + 1]

(* and the branches go on in the order their effects were settled.         *)
InTurn(C, S) ==
  /\ \A b, c \in Branch : \A n, m \in Index :
       C[b][n + 1] # 0 /\ C[b][n + 1] < C[c][m + 1] => S[b][n] < S[c][m]
  /\ \A b, c \in Branch : C[b][1] # 0 /\ C[b][1] < C[c][1] => b < c
  /\ \A b, c \in Branch : \A m \in Index : C[b][1] # 0 /\ S[c][m] # 0 => C[b][1] < S[c][m]

(* What is called after an error has decided the invocation is not settled.*)
Final(C, S, t) ==
  \A b, c \in Branch : \A n, m \in Index :
    S[b][n] # 0 /\ t[S[b][n]].kind = "throw" /\ C[c][m + 1] # 0 /\ S[b][n] < S[c][m]
      => S[c][m + 1] = 0

Recorded(C, S, p, t) ==
  /\ C \in Places /\ S \in Places /\ t \in Seq(TraceEvent)
  /\ Calls(C, p, t) /\ Answers(C, S, t) /\ Whole(C, S, t) /\ Numbered(C, t)
  /\ Follows(C, S, t) /\ InTurn(C, S) /\ Final(C, S, t)

(* Every call is settled, and every branch has come to its end.            *)
Complete(C, S, p, t) ==
  \A b \in Branch :
    /\ \A n \in Index : C[b][n] # 0 => S[b][n] # 0
    /\ p[b] # <<>> => C[b][1] # 0
    /\ \A n \in Index :
         S[b][n] # 0 /\ t[S[b][n]].kind = "return" /\ n < Len(p[b]) => C[b][n + 1] # 0

-----------------------------------------------------------------------------
(* Where the program is when the events before cur have happened *)

Past(x, cur) == x # 0 /\ x < cur

(* The place of the last effect of b.                                      *)
Now(X, br, b) == X[b][br[b].done]

Consumed(br, b, n) == n < br[b].done \/ (n = br[b].done /\ br[b].status # "waiting")
Due(S, cur, br, b) == br[b].status = "waiting" /\ Past(Now(S, br, b), cur)
YetToCall(br, b) == br[b].status = "fresh" \/ (br[b].status = "running" /\ br[b].done = 0)

BranchState == [status : {"fresh", "running", "waiting", "finished", "failed"}, done : Nat, awaits : Int]

Standing(C, S, p, t, cur, br) ==
  /\ br \in [Branch -> BranchState]
  /\ \A b \in Branch : \A n \in Index : n <= br[b].done <=> Past(C[b][n], cur)
  /\ \A b \in Branch :
       /\ br[b].status = "fresh" => br[b].done = 0
       /\ br[b].status \in {"running", "finished"} /\ br[b].done # 0 =>
            Past(Now(S, br, b), cur) /\ t[Now(S, br, b)].kind = "return"
       /\ br[b].status = "finished" => br[b].done = Len(p[b])
       /\ br[b].status = "waiting" =>
            br[b].done # 0 /\ Now(p, br, b) \in AsyncOperation /\ br[b].awaits = t[Now(C, br, b)].id
       /\ br[b].status = "failed" =>
            br[b].done # 0 /\ Past(Now(S, br, b), cur) /\ t[Now(S, br, b)].kind = "throw"

Sequenced(S, p, cur, br) ==
  /\ \A b, c \in Branch : \A n \in Index :
       Consumed(br, b, n) /\ Due(S, cur, br, c) => S[b][n] < Now(S, br, c)
  /\ \A b, c \in Branch : \A n \in Index :
       Consumed(br, b, n) /\ br[c].status = "running" /\ br[c].done # 0 => S[b][n] <= Now(S, br, c)
  /\ \A b, c \in Branch : br[b].status = "running" /\ br[c].status = "running" => b = c
  /\ \A b, c \in Branch : YetToCall(br, b) /\ b < c => br[c].status = "fresh"
  /\ \A b, c \in Branch : \A n \in Index :
       YetToCall(br, b) /\ Past(S[c][n], cur) => p[c][n] \notin AsyncOperation
  /\ \A b, c \in Branch :
       br[b].status = "running" /\ br[b].done # 0 /\ Now(p, br, b) \in AsyncOperation => br[c].status # "fresh"

Job == {End, Pump} \cup {Resume(b, result) : b \in Branch, result \in Result}

Jobs(S, t, cur, br, q) ==
  /\ q \in Seq(Job)
  /\ \A i \in 1 .. Len(q) : q[i].kind = "resume" =>
       /\ q[i].branch \in Branch /\ Due(S, cur, br, q[i].branch)
       /\ q[i].result = t[Now(S, br, q[i].branch)].kind
  /\ \A b \in Branch : Due(S, cur, br, b) =>
       \E i \in 1 .. Len(q) : q[i].kind = "resume" /\ q[i].branch = b
  /\ \A i, j \in 1 .. Len(q) : i < j /\ q[i].kind = "resume" /\ q[j].kind = "resume" =>
       Now(S, br, q[i].branch) < Now(S, br, q[j].branch)
  /\ \A i \in 1 .. Len(q) : q[i].kind = "end" => Over(br)
  /\ \A i, j \in 1 .. Len(q) : i < j /\ q[i].kind = "end" => q[j].kind # "pump"

Underway(C, S, p, t, cur, br, q) ==
  Standing(C, S, p, t, cur, br) /\ Sequenced(S, p, cur, br) /\ Jobs(S, t, cur, br, q)

-----------------------------------------------------------------------------
(* The pure part: what follows from a recording and a point in it *)

(* The kinds of jobs, and what a job that resumes a branch holds.          *)
LEMMA JobKinds ==
  /\ End.kind = "end" /\ Pump.kind = "pump"
  /\ \A b, r : Resume(b, r).kind = "resume" /\ Resume(b, r).branch = b /\ Resume(b, r).result = r
BY DEF End, Pump, Resume

(* What a microtask is.                                                    *)
LEMMA JobSorts ==
  /\ End \in Job /\ Pump \in Job
  /\ \A b \in Branch : \A r \in Result : Resume(b, r) \in Job
  /\ \A j \in Job : j.kind \in {"end", "pump", "resume"}
  /\ \A j \in Job : j.kind = "end" <=> j = End
  /\ \A j \in Job : j.kind = "pump" <=> j = Pump
<1> DEFINE R == {Resume(b, result) : b \in Branch, result \in Result}
<1>1. Job = {End, Pump} \cup R
  BY DEF Job
<1>2. \A b \in Branch : \A r \in Result : Resume(b, r) \in R
  OBVIOUS
<1>3. \A j \in R : j.kind = "resume"
  BY JobKinds
<1> HIDE DEF R
<1> QED
  BY <1>1, <1>2, <1>3, JobKinds

(* The places of a recording are numbers, and its events are of two sorts. *)
LEMMA RecordedTypes ==
  ASSUME NEW C, NEW S, NEW p, NEW t, Recorded(C, S, p, t)
  PROVE  /\ \A b \in Branch : \A n \in Index : C[b][n] \in Nat /\ S[b][n] \in Nat
         /\ Len(t) \in Nat
         /\ \A k \in 1 .. Len(t) :
              t[k].kind \in {"call", "return", "throw"} /\ t[k].id \in Nat
<1>1. C \in Places /\ S \in Places /\ t \in Seq(TraceEvent)
  BY DEF Recorded
<1>2. \A b \in Branch : \A n \in Index : C[b][n] \in Nat /\ S[b][n] \in Nat
  BY <1>1 DEF Places
<1>3. \A k \in 1 .. Len(t) : t[k] \in TraceEvent
  BY <1>1
<1>4. \A e \in TraceEvent : e.kind \in {"call", "return", "throw"} /\ e.id \in Nat
  BY DEF TraceEvent
<1> QED
  BY <1>1, <1>2, <1>3, <1>4

(* No event is the call, or the settlement, of two effects.                *)
LEMMA PlacesApart ==
  ASSUME NEW C, NEW S, NEW p, NEW t, Recorded(C, S, p, t),
         NEW b \in Branch, NEW c \in Branch, NEW n \in Index, NEW m \in Index,
         \/ C[b][n] # 0 /\ C[b][n] = C[c][m]
         \/ S[b][n] # 0 /\ S[b][n] = S[c][m]
  PROVE  b = c /\ n = m
<1>1. CASE C[b][n] # 0 /\ C[b][n] = C[c][m]
  BY <1>1 DEF Recorded, Numbered
<1>2. CASE S[b][n] # 0 /\ S[b][n] = S[c][m]
  BY <1>2 DEF Recorded, Answers, Numbered
<1> QED
  BY <1>1, <1>2

(* A call is no settlement.                                                *)
LEMMA CallsApart ==
  ASSUME NEW C, NEW S, NEW p, NEW t, Recorded(C, S, p, t),
         NEW b \in Branch, NEW n \in Index, S[b][n] # 0
  PROVE  /\ t[S[b][n]].kind # "call" /\ S[b][n] \in 1 .. Len(t)
         /\ C[b][n] \in 1 .. Len(t) /\ C[b][n] < S[b][n]
BY RecordedTypes DEF Recorded, Answers

(* The invocation stays decided.                                           *)
LEMMA StaysOver ==
  ASSUME NEW br, NEW br2, Over(br),
         \A b \in Branch : br[b].status \in {"finished", "failed"} => br2[b].status = br[b].status
  PROVE  Over(br2)
BY DEF Over

(* The type of what Standing speaks of.                                    *)
LEMMA BranchTypes ==
  ASSUME NEW C, NEW S, NEW p, NEW t, NEW cur, NEW br, Standing(C, S, p, t, cur, br),
         NEW b \in Branch
  PROVE  /\ br[b].status \in {"fresh", "running", "waiting", "finished", "failed"}
         /\ br[b].done \in Nat /\ br[b].awaits \in Int
         /\ br[b].done # 0 => br[b].done \in Index
BY DEF Standing, BranchState, Index

(* What a branch has consumed has been settled; all but the last returned.  *)
LEMMA ConsumedIsPast ==
  ASSUME NEW C, NEW S, NEW p, NEW t, NEW cur \in Nat, NEW br,
         Recorded(C, S, p, t), Standing(C, S, p, t, cur, br),
         NEW b \in Branch, NEW n \in Index, n <= br[b].done
  PROVE  /\ Past(C[b][n], cur)
         /\ Consumed(br, b, n) => Past(S[b][n], cur)
         /\ n < br[b].done => t[S[b][n]].kind = "return" /\ S[b][n] < C[b][n + 1]
<1>1. br[b].done \in Nat /\ n + 1 \in Index /\ n \in Nat /\ n >= 1
  BY BranchTypes DEF Index
<1>2. Past(C[b][n], cur)
  BY DEF Standing
<1>3. CASE n < br[b].done
  <2>1. Past(C[b][n + 1], cur)
    BY <1>1, <1>3 DEF Standing
  <2>2. S[b][n] # 0 /\ t[S[b][n]].kind = "return" /\ S[b][n] < C[b][n + 1]
    BY <2>1 DEF Recorded, Follows, Past
  <2>3. C[b][n + 1] \in Nat /\ S[b][n] \in Nat
    BY <1>1, RecordedTypes
  <2> QED
    BY <1>2, <1>3, <2>1, <2>2, <2>3 DEF Past
<1>4. CASE n = br[b].done
  <2>1. Consumed(br, b, n) => br[b].status # "waiting"
    BY <1>1, <1>4 DEF Consumed
  <2>2. br[b].done # 0 /\ br[b].status \in {"fresh", "running", "waiting", "finished", "failed"}
    BY <1>1, <1>4, BranchTypes
  <2>3. br[b].status # "waiting" => Past(S[b][br[b].done], cur)
    BY <2>2 DEF Standing, Now
  <2> QED
    BY <1>1, <1>2, <1>4, <2>1, <2>3
<1> QED
  BY <1>1, <1>3, <1>4

(* The state of the program depends on what has happened only.              *)
LEMMA Extending ==
  ASSUME NEW C, NEW S, NEW p, NEW t, NEW cur \in Nat, NEW br, NEW q,
         Recorded(C, S, p, t), Underway(C, S, p, t, cur, br, q),
         NEW C2, NEW S2, NEW t2,
         \A b \in Branch : \A n \in Index :
           /\ C[b][n] \in Nat /\ S[b][n] \in Nat /\ C2[b][n] \in Nat /\ S2[b][n] \in Nat
           /\ C2[b][n] = C[b][n] \/ (C[b][n] = 0 /\ C2[b][n] >= cur)
           /\ S2[b][n] = S[b][n] \/ (S[b][n] = 0 /\ S2[b][n] >= cur),
         \A k \in 1 .. cur - 1 : t2[k] = t[k]
  PROVE  Underway(C2, S2, p, t2, cur, br, q)
<1>1. Standing(C, S, p, t, cur, br) /\ Sequenced(S, p, cur, br) /\ Jobs(S, t, cur, br, q)
  BY DEF Underway
<1>2. \A b \in Branch : \A n \in Index :
        /\ Past(C2[b][n], cur) <=> Past(C[b][n], cur)
        /\ Past(S2[b][n], cur) <=> Past(S[b][n], cur)
        /\ Past(C[b][n], cur) => C2[b][n] = C[b][n] /\ t2[C[b][n]] = t[C[b][n]]
        /\ Past(S[b][n], cur) => S2[b][n] = S[b][n] /\ t2[S[b][n]] = t[S[b][n]]
  BY DEF Past
<1>3. \A b \in Branch :
        /\ br[b].status \in {"fresh", "running", "waiting", "finished", "failed"}
        /\ br[b].done \in Nat /\ (br[b].done # 0 => br[b].done \in Index)
  BY <1>1, BranchTypes
<1>4. \A b \in Branch : br[b].done # 0 =>
        /\ Past(Now(C, br, b), cur) /\ Now(C2, br, b) = Now(C, br, b)
        /\ t2[Now(C, br, b)] = t[Now(C, br, b)]
        /\ Past(Now(S2, br, b), cur) <=> Past(Now(S, br, b), cur)
        /\ Past(Now(S, br, b), cur) => Now(S2, br, b) = Now(S, br, b) /\ t2[Now(S, br, b)] = t[Now(S, br, b)]
  BY <1>1, <1>2, <1>3 DEF Now, Standing
<1>5. Standing(C2, S2, p, t2, cur, br)
  <2>1. \A b \in Branch : \A n \in Index : n <= br[b].done <=> Past(C2[b][n], cur)
    BY <1>1, <1>2 DEF Standing
  <2>2. ASSUME NEW b \in Branch
        PROVE  /\ br[b].status = "fresh" => br[b].done = 0
               /\ br[b].status \in {"running", "finished"} /\ br[b].done # 0 =>
                    Past(Now(S2, br, b), cur) /\ t2[Now(S2, br, b)].kind = "return"
               /\ br[b].status = "finished" => br[b].done = Len(p[b])
               /\ br[b].status = "waiting" =>
                    br[b].done # 0 /\ Now(p, br, b) \in AsyncOperation /\ br[b].awaits = t2[Now(C2, br, b)].id
               /\ br[b].status = "failed" =>
                    br[b].done # 0 /\ Past(Now(S2, br, b), cur) /\ t2[Now(S2, br, b)].kind = "throw"
    BY <1>1, <1>4 DEF Standing
  <2> QED
    BY <1>1, <2>1, <2>2 DEF Standing
<1>6. \A b \in Branch : \A n \in Index : Consumed(br, b, n) => S2[b][n] = S[b][n]
  <2> SUFFICES ASSUME NEW b \in Branch, NEW n \in Index, Consumed(br, b, n)
               PROVE  S2[b][n] = S[b][n]
    OBVIOUS
  <2>1. n <= br[b].done
    BY <1>3 DEF Consumed, Index
  <2>2. Past(S[b][n], cur)
    BY <1>1, <2>1, ConsumedIsPast
  <2> QED
    BY <1>2, <2>2
<1>7. \A b \in Branch : Due(S2, cur, br, b) <=> Due(S, cur, br, b)
  BY <1>1, <1>4 DEF Due, Standing
<1>8. \A b \in Branch : Due(S, cur, br, b) => Now(S2, br, b) = Now(S, br, b) /\ t2[Now(S, br, b)] = t[Now(S, br, b)]
  BY <1>1, <1>4 DEF Due, Standing
<1>9. Sequenced(S2, p, cur, br)
  <2>1. \A b, c \in Branch : \A n \in Index :
          Consumed(br, b, n) /\ Due(S2, cur, br, c) => S2[b][n] < Now(S2, br, c)
    BY <1>1, <1>6, <1>7, <1>8 DEF Sequenced
  <2>2. \A b, c \in Branch : \A n \in Index :
          Consumed(br, b, n) /\ br[c].status = "running" /\ br[c].done # 0 => S2[b][n] <= Now(S2, br, c)
    BY <1>1, <1>4, <1>6 DEF Sequenced, Standing
  <2>3. \A b, c \in Branch : \A n \in Index :
          YetToCall(br, b) /\ Past(S2[c][n], cur) => p[c][n] \notin AsyncOperation
    BY <1>1, <1>2 DEF Sequenced
  <2> QED
    BY <1>1, <2>1, <2>2, <2>3 DEF Sequenced
<1>10. Jobs(S2, t2, cur, br, q)
  BY <1>1, <1>7, <1>8 DEF Jobs
<1> QED
  BY <1>5, <1>9, <1>10 DEF Underway

(* Nothing has happened yet.                                               *)
LEMMA Beginning ==
  ASSUME NEW C, NEW S, NEW p, NEW t,
         \A b \in Branch : \A n \in Index : C[b][n] \in Nat /\ S[b][n] \in Nat
  PROVE  Underway(C, S, p, t, 1, FreshBranches, <<>>)
<1> DEFINE br == FreshBranches
<1>1. br \in [Branch -> BranchState]
  BY DEF FreshBranches, BranchState
<1>2. \A b \in Branch : br[b].status = "fresh" /\ br[b].done = 0
  BY DEF FreshBranches
<1> HIDE DEF br
<1>3. \A x \in Nat : ~Past(x, 1)
  BY DEF Past
<1>4. \A n \in Index : n \in Nat /\ n > 0
  BY DEF Index
<1>5. Standing(C, S, p, t, 1, br)
  BY <1>1, <1>2, <1>3, <1>4 DEF Standing
<1>6. \A b \in Branch : ~Due(S, 1, br, b) /\ br[b].status # "running"
  BY <1>2 DEF Due
<1>7. Sequenced(S, p, 1, br)
  BY <1>2, <1>3, <1>6 DEF Sequenced
<1>8. Jobs(S, t, 1, br, <<>>)
  BY <1>6 DEF Jobs
<1> QED
  BY <1>5, <1>7, <1>8 DEF Underway, br

-----------------------------------------------------------------------------
(* The steps of the program itself *)

(* The queue does not care for steps that leave what is due alone.          *)
LEMMA QueueKept ==
  ASSUME NEW S, NEW t, NEW cur, NEW br, NEW q, NEW cur2, NEW br2,
         Jobs(S, t, cur, br, q),
         \A b \in Branch : Due(S, cur2, br2, b) <=> Due(S, cur, br, b),
         \A b \in Branch : Due(S, cur, br, b) => br2[b].done = br[b].done,
         Over(br) => Over(br2)
  PROVE  Jobs(S, t, cur2, br2, q)
<1>1. \A b \in Branch : Due(S, cur, br, b) => Now(S, br2, b) = Now(S, br, b)
  BY DEF Now
<1>2. q \in Seq(Job)
  BY DEF Jobs
<1>3. ASSUME NEW i \in 1 .. Len(q), q[i].kind = "resume"
      PROVE  /\ q[i].branch \in Branch /\ Due(S, cur2, br2, q[i].branch)
             /\ Now(S, br2, q[i].branch) = Now(S, br, q[i].branch)
             /\ q[i].result = t[Now(S, br2, q[i].branch)].kind
  BY <1>1, <1>3 DEF Jobs
<1>4. \A i, j \in 1 .. Len(q) : i < j /\ q[i].kind = "resume" /\ q[j].kind = "resume" =>
        Now(S, br2, q[i].branch) < Now(S, br2, q[j].branch)
  BY <1>3 DEF Jobs
<1> QED
  BY <1>2, <1>3, <1>4 DEF Jobs

(* The end may be queued once the invocation is decided.                    *)
LEMMA EndQueued ==
  ASSUME NEW S, NEW t, NEW cur, NEW br, NEW q, Jobs(S, t, cur, br, q), Over(br)
  PROVE  Jobs(S, t, cur, br, Append(q, End))
<1>1. q \in Seq(Job) /\ End \in Job /\ End.kind = "end"
  BY JobKinds, JobSorts DEF Jobs
<1> DEFINE r == Append(q, End)
<1>2. /\ r \in Seq(Job) /\ Len(r) = Len(q) + 1 /\ Len(q) \in Nat
      /\ \A i \in 1 .. Len(q) : r[i] = q[i]
      /\ r[Len(q) + 1] = End
  BY <1>1
<1> HIDE DEF r
<1>3. \A i \in 1 .. Len(r) : i \in 1 .. Len(q) \/ (i = Len(q) + 1 /\ r[i].kind = "end")
  BY <1>1, <1>2
<1>4. \A i \in 1 .. Len(r) : r[i].kind # "end" => i \in 1 .. Len(q) /\ r[i] = q[i]
  BY <1>2, <1>3
<1>5. \A i \in 1 .. Len(r) : r[i].kind = "resume" =>
       /\ r[i].branch \in Branch /\ Due(S, cur, br, r[i].branch)
       /\ r[i].result = t[Now(S, br, r[i].branch)].kind
  BY <1>4 DEF Jobs
<1>6. \A b \in Branch : Due(S, cur, br, b) =>
       \E i \in 1 .. Len(r) : r[i].kind = "resume" /\ r[i].branch = b
  <2> SUFFICES ASSUME NEW b \in Branch, Due(S, cur, br, b)
               PROVE  \E i \in 1 .. Len(r) : r[i].kind = "resume" /\ r[i].branch = b
    OBVIOUS
  <2>1. PICK i \in 1 .. Len(q) : q[i].kind = "resume" /\ q[i].branch = b
    BY DEF Jobs
  <2>2. i \in 1 .. Len(r) /\ r[i] = q[i]
    BY <1>2
  <2> QED
    BY <2>1, <2>2
<1>7. \A i, j \in 1 .. Len(r) : i < j /\ r[i].kind = "resume" /\ r[j].kind = "resume" =>
       Now(S, br, r[i].branch) < Now(S, br, r[j].branch)
  BY <1>4 DEF Jobs
<1>8. \A i, j \in 1 .. Len(r) : i < j /\ r[i].kind = "end" => r[j].kind # "pump"
  BY <1>2, <1>3, <1>4 DEF Jobs
<1> QED
  BY <1>2, <1>5, <1>6, <1>7, <1>8 DEF Jobs, r

(* A job that resumes nobody can leave the queue.                           *)
LEMMA Dequeued ==
  ASSUME NEW S, NEW t, NEW cur, NEW br, NEW q, Jobs(S, t, cur, br, q),
         q # <<>>, q[1].kind # "resume"
  PROVE  Jobs(S, t, cur, br, Tail(q))
<1> DEFINE r == Tail(q)
<1>1. /\ q \in Seq(Job) /\ r \in Seq(Job) /\ Len(q) \in Nat /\ Len(q) > 0 /\ Len(r) = Len(q) - 1
      /\ \A i \in 1 .. Len(r) : r[i] = q[i + 1] /\ i + 1 \in 1 .. Len(q)
  BY DEF Jobs
<1> HIDE DEF r
<1>2. \A i \in 1 .. Len(q) : i # 1 => i - 1 \in 1 .. Len(r) /\ r[i - 1] = q[i]
  BY <1>1
<1>3. \A b \in Branch : Due(S, cur, br, b) =>
       \E i \in 1 .. Len(r) : r[i].kind = "resume" /\ r[i].branch = b
  <2> SUFFICES ASSUME NEW b \in Branch, Due(S, cur, br, b)
               PROVE  \E i \in 1 .. Len(r) : r[i].kind = "resume" /\ r[i].branch = b
    OBVIOUS
  <2>1. PICK i \in 1 .. Len(q) : q[i].kind = "resume" /\ q[i].branch = b
    BY DEF Jobs
  <2> QED
    BY <1>2, <2>1
<1>4. \A i, j \in 1 .. Len(r) : i < j => i + 1 < j + 1
  OBVIOUS
<1>5. \A i, j \in 1 .. Len(r) : i < j /\ r[i].kind = "resume" /\ r[j].kind = "resume" =>
       Now(S, br, r[i].branch) < Now(S, br, r[j].branch)
  BY <1>1, <1>4 DEF Jobs
<1>6. \A i, j \in 1 .. Len(r) : i < j /\ r[i].kind = "end" => r[j].kind # "pump"
  BY <1>1, <1>4 DEF Jobs
<1> QED
  BY <1>1, <1>3, <1>5, <1>6 DEF Jobs, r

(* Linger: the end goes to the back of the queue.                           *)
LEMMA Lingering ==
  ASSUME NEW S, NEW t, NEW cur, NEW br, NEW q, Jobs(S, t, cur, br, q),
         q # <<>>, q[1].kind = "end"
  PROVE  Jobs(S, t, cur, br, Append(Tail(q), End))
<1>1. Jobs(S, t, cur, br, Tail(q))
  BY Dequeued
<1>2. q \in Seq(Job) /\ 1 \in 1 .. Len(q)
  BY DEF Jobs
<1>3. Over(br)
  BY <1>2 DEF Jobs
<1> QED
  BY <1>1, <1>3, EndQueued

(* StartBranch.                                                            *)
LEMMA Starting ==
  ASSUME NEW C, NEW S, NEW p, NEW t, NEW cur \in Nat, NEW br, NEW q,
         Underway(C, S, p, t, cur, br, q),
         NEW b \in Branch, br[b].status = "fresh",
         \A c \in Branch : br[c].status # "running",
         \A c \in Branch : c < b => br[c].status # "fresh"
  PROVE  Underway(C, S, p, t, cur, [br EXCEPT ![b].status = "running"], q)
<1> DEFINE br2 == [br EXCEPT ![b].status = "running"]
<1>1. Standing(C, S, p, t, cur, br) /\ Sequenced(S, p, cur, br) /\ Jobs(S, t, cur, br, q)
  BY DEF Underway
<1>2. br \in [Branch -> BranchState] /\ br[b].done = 0
  BY <1>1 DEF Standing
<1>3. /\ br2 \in [Branch -> BranchState]
      /\ br2[b].status = "running" /\ br2[b].done = 0
      /\ \A c \in Branch : c # b => br2[c] = br[c]
      /\ \A c \in Branch : br2[c].done = br[c].done /\ br2[c].awaits = br[c].awaits
  BY <1>2 DEF BranchState
<1> HIDE DEF br2
<1>4. \A X : \A c \in Branch : Now(X, br2, c) = Now(X, br, c)
  BY <1>3 DEF Now
<1>5. Standing(C, S, p, t, cur, br2)
  BY <1>1, <1>3, <1>4 DEF Standing
<1>6. \A c \in Branch : Due(S, cur, br2, c) <=> Due(S, cur, br, c)
  BY <1>3, <1>4 DEF Due
<1>7. \A c \in Branch : \A n \in Index : Consumed(br2, c, n) <=> Consumed(br, c, n)
  BY <1>2, <1>3 DEF Consumed, Index
<1>8. \A c \in Branch : YetToCall(br2, c) <=> YetToCall(br, c)
  BY <1>2, <1>3 DEF YetToCall
<1>9. Sequenced(S, p, cur, br2)
  <2>1. \A c, d \in Branch : br2[c].status = "running" /\ br2[d].status = "running" => c = d
    BY <1>3
  <2>2. \A c, d \in Branch : YetToCall(br2, c) /\ c < d => br2[d].status = "fresh"
    <3> SUFFICES ASSUME NEW c \in Branch, NEW d \in Branch, YetToCall(br, c), c < d
                 PROVE  br2[d].status = "fresh"
      BY <1>8
    <3>1. br[d].status = "fresh" /\ br[c].status = "fresh"
      BY <1>1 DEF Sequenced, YetToCall
    <3> QED
      BY <1>3, <3>1
  <2>3. \A c \in Branch : br2[c].status = "running" => br2[c].done = 0
    BY <1>3
  <2> QED
    BY <1>1, <1>4, <1>6, <1>7, <1>8, <2>1, <2>2, <2>3 DEF Sequenced
<1>10. Over(br) => Over(br2)
  BY <1>3 DEF Over
<1>11. Jobs(S, t, cur, br2, q)
  BY <1>1, <1>3, <1>6, <1>10, QueueKept
<1> QED
  BY <1>5, <1>9, <1>11 DEF Underway, br2

(* EndBranch.                                                              *)
LEMMA Ending ==
  ASSUME NEW C, NEW S, NEW p, NEW t, NEW cur \in Nat, NEW br, NEW q,
         Underway(C, S, p, t, cur, br, q),
         NEW b \in Branch, br[b].status = "running", br[b].done = Len(p[b])
  PROVE  LET br2 == [br EXCEPT ![b].status = "finished"]
         IN  Underway(C, S, p, t, cur, br2,
                      IF Over(br2) /\ ~Over(br) THEN Append(q, End) ELSE q)
<1> DEFINE br2 == [br EXCEPT ![b].status = "finished"]
<1>1. Standing(C, S, p, t, cur, br) /\ Sequenced(S, p, cur, br) /\ Jobs(S, t, cur, br, q)
  BY DEF Underway
<1>2. br \in [Branch -> BranchState]
  BY <1>1 DEF Standing
<1>3. /\ br2 \in [Branch -> BranchState]
      /\ br2[b].status = "finished"
      /\ \A c \in Branch : c # b => br2[c] = br[c]
      /\ \A c \in Branch : br2[c].done = br[c].done /\ br2[c].awaits = br[c].awaits
  BY <1>2 DEF BranchState
<1> HIDE DEF br2
<1>4. \A X : \A c \in Branch : Now(X, br2, c) = Now(X, br, c)
  BY <1>3 DEF Now
<1>5. Standing(C, S, p, t, cur, br2)
  BY <1>1, <1>3, <1>4 DEF Standing
<1>6. \A c \in Branch : Due(S, cur, br2, c) <=> Due(S, cur, br, c)
  BY <1>3, <1>4 DEF Due
<1>7. \A c \in Branch : \A n \in Index : Consumed(br2, c, n) <=> Consumed(br, c, n)
  BY <1>2, <1>3 DEF Consumed, Index
<1>8. \A c \in Branch : YetToCall(br2, c) => YetToCall(br, c) /\ c # b
  BY <1>3 DEF YetToCall
<1>9. Sequenced(S, p, cur, br2)
  <2>1. \A c, d \in Branch : YetToCall(br2, c) /\ c < d => br2[d].status = "fresh"
    BY <1>1, <1>3, <1>8 DEF Sequenced
  <2>2. \A c \in Branch : br2[c].status = "running" => br[c].status = "running"
    BY <1>3
  <2>3. \A c, d \in Branch :
       br2[c].status = "running" /\ br2[c].done # 0 /\ Now(p, br2, c) \in AsyncOperation => br2[d].status # "fresh"
    BY <1>1, <1>3, <1>4, <2>2 DEF Sequenced
  <2> QED
    BY <1>1, <1>3, <1>4, <1>6, <1>7, <1>8, <2>1, <2>2, <2>3 DEF Sequenced
<1>10. Over(br) => Over(br2)
  BY <1>3 DEF Over
<1>11. Jobs(S, t, cur, br2, q)
  BY <1>1, <1>3, <1>6, <1>10, QueueKept
<1>12. Jobs(S, t, cur, br2, IF Over(br2) /\ ~Over(br) THEN Append(q, End) ELSE q)
  <2>1. Jobs(S, t, cur, br2, Append(q, End)) \/ ~Over(br2)
    BY <1>11, EndQueued
  <2> QED
    BY <1>11, <2>1
<1> QED
  BY <1>5, <1>9, <1>12 DEF Underway, br2

(* ResumeJob: whoever waits longest for the queue goes on.                  *)
LEMMA Resuming ==
  ASSUME NEW C, NEW S, NEW p, NEW t, NEW cur \in Nat, NEW br, NEW q,
         Recorded(C, S, p, t), Underway(C, S, p, t, cur, br, q),
         \A c \in Branch : br[c].status \notin {"fresh", "running"},
         NEW b \in Branch, NEW result, q # <<>>, q[1] = Resume(b, result)
  PROVE  /\ result \in {"return", "throw"}
         /\ LET br2 == [br EXCEPT ![b].status = IF result = "return" THEN "running" ELSE "failed"]
            IN  Underway(C, S, p, t, cur, br2,
                         IF Over(br2) /\ ~Over(br) THEN Append(Tail(q), End) ELSE Tail(q))
<1> DEFINE br2 == [br EXCEPT ![b].status = IF result = "return" THEN "running" ELSE "failed"]
           r == Tail(q)
<1>1. Standing(C, S, p, t, cur, br) /\ Sequenced(S, p, cur, br) /\ Jobs(S, t, cur, br, q)
  BY DEF Underway
<1>2. br \in [Branch -> BranchState] /\ br[b].done \in Nat
  BY <1>1 DEF Standing, BranchState
<1>3. /\ q \in Seq(Job) /\ r \in Seq(Job) /\ Len(q) \in Nat /\ Len(q) > 0 /\ Len(r) = Len(q) - 1
      /\ \A i \in 1 .. Len(r) : r[i] = q[i + 1] /\ i + 1 \in 1 .. Len(q)
  BY <1>1 DEF Jobs
<1>4. q[1].kind = "resume" /\ q[1].branch = b /\ q[1].result = result /\ 1 \in 1 .. Len(q)
  BY <1>3, JobKinds
<1>5. Due(S, cur, br, b) /\ result = t[Now(S, br, b)].kind
  BY <1>1, <1>4 DEF Jobs
<1>6. br[b].status = "waiting" /\ br[b].done # 0 /\ br[b].done \in Index /\ Past(Now(S, br, b), cur)
  BY <1>1, <1>2, <1>5 DEF Due, Standing, Index
<1>7. result \in {"return", "throw"}
  BY <1>5, <1>6 DEF Recorded, Answers, Now, Past
<1>8. /\ br2 \in [Branch -> BranchState]
      /\ br2[b].status = IF result = "return" THEN "running" ELSE "failed"
      /\ \A c \in Branch : c # b => br2[c] = br[c]
      /\ \A c \in Branch : br2[c].done = br[c].done /\ br2[c].awaits = br[c].awaits
  BY <1>2 DEF BranchState
<1> HIDE DEF br2, r
<1>9. \A X : \A c \in Branch : Now(X, br2, c) = Now(X, br, c)
  BY <1>8 DEF Now
<1>10. Standing(C, S, p, t, cur, br2)
  <2>1. ASSUME NEW c \in Branch
        PROVE  /\ br2[c].status = "fresh" => br2[c].done = 0
               /\ br2[c].status \in {"running", "finished"} /\ br2[c].done # 0 =>
                    Past(Now(S, br2, c), cur) /\ t[Now(S, br2, c)].kind = "return"
               /\ br2[c].status = "finished" => br2[c].done = Len(p[c])
               /\ br2[c].status = "waiting" =>
                    br2[c].done # 0 /\ Now(p, br2, c) \in AsyncOperation /\ br2[c].awaits = t[Now(C, br2, c)].id
               /\ br2[c].status = "failed" =>
                    br2[c].done # 0 /\ Past(Now(S, br2, c), cur) /\ t[Now(S, br2, c)].kind = "throw"
    <3>1. CASE c = b
      BY <1>5, <1>6, <1>7, <1>8, <1>9, <3>1
    <3>2. CASE c # b
      BY <1>1, <1>8, <1>9, <3>2 DEF Standing
    <3> QED
      BY <3>1, <3>2
  <2>2. \A c \in Branch : \A n \in Index : n <= br2[c].done <=> Past(C[c][n], cur)
    BY <1>1, <1>8 DEF Standing
  <2> QED
    BY <1>8, <2>1, <2>2 DEF Standing
<1>11. \A c \in Branch : Due(S, cur, br2, c) <=> c # b /\ Due(S, cur, br, c)
  BY <1>7, <1>8, <1>9 DEF Due
<1>12. \A c \in Branch : \A n \in Index :
         Consumed(br2, c, n) <=> Consumed(br, c, n) \/ (c = b /\ n = br[b].done)
  BY <1>2, <1>6, <1>7, <1>8 DEF Consumed, Index
<1>13. \A c \in Branch : ~YetToCall(br2, c)
  BY <1>6, <1>7, <1>8 DEF YetToCall
<1>14. \A c \in Branch : br2[c].status # "fresh" /\ (br2[c].status = "running" => c = b)
  BY <1>7, <1>8
<1>15. ASSUME NEW c \in Branch, c # b, Due(S, cur, br, c)
       PROVE  /\ Now(S, br, b) < Now(S, br, c)
              /\ \E i \in 1 .. Len(r) : r[i].kind = "resume" /\ r[i].branch = c
  <2>1. PICK i \in 1 .. Len(q) : q[i].kind = "resume" /\ q[i].branch = c
    BY <1>1, <1>15 DEF Jobs
  <2>2. i # 1 /\ 1 < i /\ i - 1 \in 1 .. Len(r) /\ r[i - 1] = q[i]
    BY <1>3, <1>4, <1>15, <2>1
  <2>3. Now(S, br, q[1].branch) < Now(S, br, q[i].branch)
    BY <1>1, <1>4, <2>1, <2>2 DEF Jobs
  <2> QED
    BY <1>4, <2>1, <2>2, <2>3
<1>16. Sequenced(S, p, cur, br2)
  <2>1. \A c, d \in Branch : \A n \in Index :
          Consumed(br2, c, n) /\ Due(S, cur, br2, d) => S[c][n] < Now(S, br2, d)
    <3> SUFFICES ASSUME NEW c \in Branch, NEW d \in Branch, NEW n \in Index,
                        Consumed(br2, c, n), d # b, Due(S, cur, br, d)
                 PROVE  S[c][n] < Now(S, br, d)
      BY <1>9, <1>11
    <3>1. CASE Consumed(br, c, n)
      BY <1>1, <3>1 DEF Sequenced
    <3>2. CASE c = b /\ n = br[b].done
      BY <1>15, <3>2 DEF Now
    <3> QED
      BY <1>12, <3>1, <3>2
  <2>2. \A c, d \in Branch : \A n \in Index :
          Consumed(br2, c, n) /\ br2[d].status = "running" /\ br2[d].done # 0 => S[c][n] <= Now(S, br2, d)
    <3> SUFFICES ASSUME NEW c \in Branch, NEW n \in Index, Consumed(br2, c, n)
                 PROVE  S[c][n] <= Now(S, br, b)
      BY <1>9, <1>14
    <3>0. S[c][n] \in Nat /\ Now(S, br, b) \in Nat
      BY <1>6, RecordedTypes DEF Now
    <3>1. CASE Consumed(br, c, n)
      BY <1>1, <1>5, <3>0, <3>1 DEF Sequenced
    <3>2. CASE c = b /\ n = br[b].done
      BY <3>0, <3>2 DEF Now
    <3> QED
      BY <1>12, <3>1, <3>2
  <2> QED
    BY <1>13, <1>14, <2>1, <2>2 DEF Sequenced
<1>17. Over(br) => Over(br2)
  BY <1>6, <1>8 DEF Over
<1>18. Jobs(S, t, cur, br2, r)
  <2>1. ASSUME NEW i \in 1 .. Len(r), r[i].kind = "resume"
        PROVE  /\ r[i].branch \in Branch /\ r[i].branch # b /\ Due(S, cur, br, r[i].branch)
               /\ r[i].result = t[Now(S, br, r[i].branch)].kind
    <3>1. /\ q[i + 1].branch \in Branch /\ Due(S, cur, br, q[i + 1].branch)
          /\ q[i + 1].result = t[Now(S, br, q[i + 1].branch)].kind
          /\ i + 1 \in 1 .. Len(q) /\ 1 < i + 1 /\ q[i + 1] = r[i]
      BY <1>1, <1>3, <2>1 DEF Jobs
    <3>2. Now(S, br, q[1].branch) < Now(S, br, q[i + 1].branch)
      BY <1>1, <1>4, <2>1, <3>1 DEF Jobs
    <3>3. r[i].branch # b
      <4> SUFFICES ASSUME r[i].branch = b
                   PROVE  FALSE
        OBVIOUS
      <4>1. Now(S, br, b) \in Nat
        BY <1>6, RecordedTypes DEF Now
      <4> QED
        BY <1>4, <3>1, <3>2, <4>1
    <3> QED
      BY <3>1, <3>3
  <2>2. ASSUME NEW i \in 1 .. Len(r), NEW j \in 1 .. Len(r), i < j
        PROVE  /\ i + 1 \in 1 .. Len(q) /\ j + 1 \in 1 .. Len(q) /\ i + 1 < j + 1
               /\ r[i] = q[i + 1] /\ r[j] = q[j + 1]
    BY <1>3, <2>2
  <2>3. ASSUME NEW i \in 1 .. Len(r), NEW j \in 1 .. Len(r), i < j
        PROVE  /\ r[i].kind = "resume" /\ r[j].kind = "resume" =>
                    Now(S, br2, r[i].branch) < Now(S, br2, r[j].branch)
               /\ r[i].kind = "end" => r[j].kind # "pump"
    <3>1. /\ q[i + 1].kind = "resume" /\ q[j + 1].kind = "resume" =>
               Now(S, br, q[i + 1].branch) < Now(S, br, q[j + 1].branch)
          /\ q[i + 1].kind = "end" => q[j + 1].kind # "pump"
      BY <1>1, <2>2, <2>3 DEF Jobs
    <3> QED
      BY <1>9, <2>1, <2>2, <2>3, <3>1
  <2>5. \A i \in 1 .. Len(r) : r[i].kind = "end" => Over(br2)
    BY <1>1, <1>3, <1>17 DEF Jobs
  <2>6. \A i \in 1 .. Len(r) : r[i].kind = "resume" =>
          /\ r[i].branch \in Branch /\ Due(S, cur, br2, r[i].branch)
          /\ r[i].result = t[Now(S, br2, r[i].branch)].kind
    BY <1>9, <1>11, <2>1
  <2>7. \A c \in Branch : Due(S, cur, br2, c) =>
          \E i \in 1 .. Len(r) : r[i].kind = "resume" /\ r[i].branch = c
    BY <1>11, <1>15
  <2> QED
    BY <1>3, <2>3, <2>5, <2>6, <2>7 DEF Jobs
<1>19. Jobs(S, t, cur, br2, Append(r, End)) \/ ~Over(br2)
  BY <1>18, EndQueued
<1>20. Underway(C, S, p, t, cur, br2, IF Over(br2) /\ ~Over(br) THEN Append(r, End) ELSE r)
  BY <1>10, <1>16, <1>18, <1>19 DEF Underway
<1> QED
  BY <1>7, <1>20 DEF br2, r

(* A pump may be queued as long as the end is not.                         *)
LEMMA PumpQueued ==
  ASSUME NEW S, NEW t, NEW cur, NEW br, NEW q, Jobs(S, t, cur, br, q),
         \A i \in 1 .. Len(q) : q[i].kind # "end"
  PROVE  Jobs(S, t, cur, br, Append(q, Pump))
<1>1. q \in Seq(Job) /\ Pump \in Job /\ Pump.kind = "pump"
  BY JobKinds, JobSorts DEF Jobs
<1> DEFINE r == Append(q, Pump)
<1>2. /\ r \in Seq(Job) /\ Len(r) = Len(q) + 1 /\ Len(q) \in Nat
      /\ \A i \in 1 .. Len(q) : r[i] = q[i]
      /\ r[Len(q) + 1] = Pump
  BY <1>1
<1> HIDE DEF r
<1>3. \A i \in 1 .. Len(r) : r[i].kind # "end"
  BY <1>1, <1>2
<1>4. \A i \in 1 .. Len(r) : r[i].kind = "resume" => i \in 1 .. Len(q) /\ r[i] = q[i]
  BY <1>1, <1>2
<1>5. \A i \in 1 .. Len(r) : r[i].kind = "resume" =>
       /\ r[i].branch \in Branch /\ Due(S, cur, br, r[i].branch)
       /\ r[i].result = t[Now(S, br, r[i].branch)].kind
  BY <1>4 DEF Jobs
<1>6. \A b \in Branch : Due(S, cur, br, b) =>
       \E i \in 1 .. Len(r) : r[i].kind = "resume" /\ r[i].branch = b
  <2> SUFFICES ASSUME NEW b \in Branch, Due(S, cur, br, b)
               PROVE  \E i \in 1 .. Len(r) : r[i].kind = "resume" /\ r[i].branch = b
    OBVIOUS
  <2>1. PICK i \in 1 .. Len(q) : q[i].kind = "resume" /\ q[i].branch = b
    BY DEF Jobs
  <2>2. i \in 1 .. Len(r) /\ r[i] = q[i]
    BY <1>2
  <2> QED
    BY <2>1, <2>2
<1>7. \A i, j \in 1 .. Len(r) : i < j /\ r[i].kind = "resume" /\ r[j].kind = "resume" =>
       Now(S, br, r[i].branch) < Now(S, br, r[j].branch)
  BY <1>4 DEF Jobs
<1> QED
  BY <1>2, <1>3, <1>5, <1>6, <1>7 DEF Jobs, r

(* What a call makes of the branch.                                        *)
LEMMA AwaitingState ==
  ASSUME NEW br \in [Branch -> BranchState], NEW b \in Branch, NEW id \in Int
  PROVE  /\ Awaiting(br, b, id) \in [Branch -> BranchState]
         /\ Awaiting(br, b, id)[b].status = "waiting"
         /\ Awaiting(br, b, id)[b].done = br[b].done + 1
         /\ Awaiting(br, b, id)[b].awaits = id
         /\ \A c \in Branch : c # b => Awaiting(br, b, id)[c] = br[c]
<1> DEFINE new == [status |-> "waiting", done |-> br[b].done + 1, awaits |-> id]
<1>1. br[b] \in BranchState /\ br[b].done \in Nat
  BY DEF BranchState
<1>2. new \in BranchState
  BY <1>1 DEF BranchState
<1>3. Awaiting(br, b, id)[b] = new
  BY <1>1 DEF Awaiting, BranchState
<1>4. \A c \in Branch : c # b => Awaiting(br, b, id)[c] = br[c]
  BY DEF Awaiting
<1>5. Awaiting(br, b, id) = [c \in Branch |-> Awaiting(br, b, id)[c]]
  BY DEF Awaiting
<1>6. \A c \in Branch : Awaiting(br, b, id)[c] \in BranchState
  BY <1>2, <1>3, <1>4
<1> QED
  BY <1>3, <1>4, <1>5, <1>6

(* RecordAsync and ReplayAsync: the call at cur.                            *)
LEMMA CallingAsync ==
  ASSUME NEW C, NEW S, NEW p, NEW t, NEW cur \in Nat, NEW br, NEW q,
         Recorded(C, S, p, t), Underway(C, S, p, t, cur, br, q),
         NEW b \in Branch, br[b].status = "running",
         C[b][br[b].done + 1] = cur, cur # 0, p[b][br[b].done + 1] \in AsyncOperation
  PROVE  Underway(C, S, p, t, cur + 1, Awaiting(br, b, t[cur].id), q)
<1> DEFINE id == t[cur].id
           br2 == Awaiting(br, b, id)
           last == br[b].done + 1
<1>1. Standing(C, S, p, t, cur, br) /\ Sequenced(S, p, cur, br) /\ Jobs(S, t, cur, br, q)
  BY DEF Underway
<1>2. br \in [Branch -> BranchState] /\ br[b].done \in Nat /\ last \in Index /\ last # 0
  BY <1>1 DEF Standing, BranchState, Index
<1>3. t[cur].kind = "call" /\ cur \in 1 .. Len(t)
  BY <1>2, RecordedTypes DEF Recorded, Calls
<1>4. id \in Int
  BY <1>3, RecordedTypes
<1>5. /\ br2 \in [Branch -> BranchState]
      /\ br2[b].status = "waiting" /\ br2[b].done = last /\ br2[b].awaits = id
      /\ \A c \in Branch : c # b => br2[c] = br[c]
  BY <1>2, <1>4, AwaitingState
<1> HIDE DEF br2, id, last
<1>6. \A X : \A c \in Branch : c # b => Now(X, br2, c) = Now(X, br, c)
  BY <1>5 DEF Now
<1>7. \A X : Now(X, br2, b) = X[b][last]
  BY <1>5 DEF Now
<1>8. \A c \in Branch : \A n \in Index : S[c][n] # cur /\ (C[c][n] = cur <=> c = b /\ n = last)
  <2>1. \A c \in Branch : \A n \in Index : S[c][n] # cur
    BY <1>3, CallsApart
  <2>2. C[b][last] = cur
    BY DEF last
  <2>3. \A c \in Branch : \A n \in Index : C[c][n] = cur => c = b /\ n = last
    BY <1>2, <2>2, PlacesApart
  <2> QED
    BY <2>1, <2>2, <2>3
<1>9. \A c \in Branch : \A n \in Index :
        /\ Past(S[c][n], cur + 1) <=> Past(S[c][n], cur)
        /\ Past(C[c][n], cur + 1) <=> Past(C[c][n], cur) \/ (c = b /\ n = last)
  BY <1>8, RecordedTypes DEF Past
<1>10. ~Past(S[b][last], cur + 1)
  <2>1. S[b][last] # 0 => C[b][last] < S[b][last]
    BY <1>2 DEF Recorded, Answers
  <2> QED
    BY <1>2, <1>8, <2>1, RecordedTypes DEF Past
<1>11. Standing(C, S, p, t, cur + 1, br2)
  <2>1. ASSUME NEW c \in Branch
        PROVE  /\ br2[c].status = "fresh" => br2[c].done = 0
               /\ br2[c].status \in {"running", "finished"} /\ br2[c].done # 0 =>
                    Past(Now(S, br2, c), cur + 1) /\ t[Now(S, br2, c)].kind = "return"
               /\ br2[c].status = "finished" => br2[c].done = Len(p[c])
               /\ br2[c].status = "waiting" =>
                    br2[c].done # 0 /\ Now(p, br2, c) \in AsyncOperation /\ br2[c].awaits = t[Now(C, br2, c)].id
               /\ br2[c].status = "failed" =>
                    br2[c].done # 0 /\ Past(Now(S, br2, c), cur + 1) /\ t[Now(S, br2, c)].kind = "throw"
    <3>1. CASE c = b
      <4>1. Now(p, br2, b) \in AsyncOperation /\ t[Now(C, br2, b)].id = id
        BY <1>7 DEF last, id
      <4> QED
        BY <1>2, <1>5, <3>1, <4>1
    <3>2. CASE c # b
      <4>1. br[c].done # 0 => br[c].done \in Index
        BY <1>1, BranchTypes
      <4>2. br[c].done # 0 => (Past(Now(S, br, c), cur + 1) <=> Past(Now(S, br, c), cur))
        BY <1>9, <4>1 DEF Now
      <4> QED
        BY <1>1, <1>5, <1>6, <3>2, <4>2 DEF Standing
    <3> QED
      BY <3>1, <3>2
  <2>2. \A c \in Branch : \A n \in Index : n <= br2[c].done <=> Past(C[c][n], cur + 1)
    <3>1. \A n \in Index : n <= last <=> n <= br[b].done \/ n = last
      BY <1>2 DEF Index, last
    <3> QED
      BY <1>1, <1>5, <1>9, <3>1 DEF Standing
  <2> QED
    BY <1>5, <2>1, <2>2 DEF Standing
<1>12. \A c \in Branch : Due(S, cur + 1, br2, c) <=> Due(S, cur, br, c)
  <2> SUFFICES ASSUME NEW c \in Branch
               PROVE  Due(S, cur + 1, br2, c) <=> Due(S, cur, br, c)
    OBVIOUS
  <2>1. CASE c = b
    BY <1>7, <1>10, <2>1 DEF Due
  <2>2. CASE c # b
    <3>1. br[c].status = "waiting" => br[c].done # 0
      BY <1>1 DEF Standing
    <3>2. br[c].done # 0 => br[c].done \in Index
      BY <1>1, BranchTypes
    <3> QED
      BY <1>5, <1>6, <1>9, <2>2, <3>1, <3>2 DEF Due, Now
  <2> QED
    BY <2>1, <2>2
<1>13. \A c \in Branch : Due(S, cur, br, c) => c # b /\ br2[c] = br[c] /\ Now(S, br2, c) = Now(S, br, c)
  BY <1>5, <1>6 DEF Due
<1>14. \A c \in Branch : \A n \in Index : Consumed(br2, c, n) <=> Consumed(br, c, n)
  BY <1>2, <1>5 DEF Consumed, Index, last
<1>15. \A c \in Branch : YetToCall(br2, c) => YetToCall(br, c) /\ c # b /\ br[c].status = "fresh"
  BY <1>1, <1>5 DEF YetToCall, Sequenced
<1>16. \A c \in Branch : br2[c].status # "running"
  BY <1>1, <1>5 DEF Sequenced
<1>17. Sequenced(S, p, cur + 1, br2)
  <2>1. \A c, d \in Branch : YetToCall(br2, c) /\ c < d => br2[d].status = "fresh"
    <3> SUFFICES ASSUME NEW c \in Branch, NEW d \in Branch, YetToCall(br2, c), c < d
                 PROVE  br2[d].status = "fresh"
      OBVIOUS
    <3>1. br[d].status = "fresh"
      BY <1>1, <1>15 DEF Sequenced
    <3> QED
      BY <1>5, <3>1
  <2>2. \A c, d \in Branch : \A n \in Index :
          Consumed(br2, c, n) /\ Due(S, cur + 1, br2, d) => S[c][n] < Now(S, br2, d)
    BY <1>1, <1>12, <1>13, <1>14 DEF Sequenced
  <2>3. \A c, d \in Branch : \A n \in Index :
          YetToCall(br2, c) /\ Past(S[d][n], cur + 1) => p[d][n] \notin AsyncOperation
    BY <1>1, <1>9, <1>15 DEF Sequenced
  <2> QED
    BY <1>16, <2>1, <2>2, <2>3 DEF Sequenced
<1>18. Over(br) => Over(br2)
  BY <1>5 DEF Over
<1>19. Jobs(S, t, cur + 1, br2, q)
  BY <1>1, <1>12, <1>13, <1>18, QueueKept
<1> QED
  BY <1>11, <1>17, <1>19 DEF Underway, br2, id

(* A branch that performs a synchronous effect is the only one with any.    *)
LEMMA Alone ==
  ASSUME NEW p \in [Branch -> Seq(Operation)], Joined(p),
         NEW b \in Branch, NEW n \in 1 .. Len(p[b]), p[b][n] \notin AsyncOperation,
         NEW c \in Branch, c # b
  PROVE  Len(p[c]) = 0
<1>1. p[b] \in Seq(Operation)
  OBVIOUS
<1>2. n \in DOMAIN p[b]
  BY <1>1
<1>3. p[c] = <<>>
  BY <1>2 DEF Joined
<1> QED
  BY <1>3

(* What the answer of a synchronous effect makes of the branch.            *)
LEMMA AnsweredState ==
  ASSUME NEW br \in [Branch -> BranchState], NEW b \in Branch, NEW result
  PROVE  /\ Answered(br, b, result) \in [Branch -> BranchState]
         /\ Answered(br, b, result)[b].status = IF result = "return" THEN "running" ELSE "failed"
         /\ Answered(br, b, result)[b].done = br[b].done + 1
         /\ \A c \in Branch : c # b => Answered(br, b, result)[c] = br[c]
<1> DEFINE new == [status |-> IF result = "return" THEN "running" ELSE "failed",
                   done |-> br[b].done + 1, awaits |-> br[b].awaits]
<1>1. br[b] \in BranchState /\ br[b].done \in Nat /\ br[b].awaits \in Int
  BY DEF BranchState
<1>2. new \in BranchState
  BY <1>1 DEF BranchState
<1>3. Answered(br, b, result)[b] = new
  BY <1>1 DEF Answered, BranchState
<1>4. \A c \in Branch : c # b => Answered(br, b, result)[c] = br[c]
  BY DEF Answered
<1>5. Answered(br, b, result) = [c \in Branch |-> Answered(br, b, result)[c]]
  BY DEF Answered
<1>6. \A c \in Branch : Answered(br, b, result)[c] \in BranchState
  BY <1>2, <1>3, <1>4
<1> QED
  BY <1>3, <1>4, <1>5, <1>6

(* RecordSync and ReplaySync: the call at cur and its settlement.           *)
LEMMA CallingSync ==
  ASSUME NEW C, NEW S, NEW p, NEW t, NEW cur \in Nat, NEW br, NEW q,
         Recorded(C, S, p, t), Underway(C, S, p, t, cur, br, q),
         NEW b \in Branch, br[b].status = "running",
         C[b][br[b].done + 1] = cur, cur # 0, S[b][br[b].done + 1] = cur + 1,
         p[b][br[b].done + 1] \notin AsyncOperation,
         \A c \in Branch : c # b => Len(p[c]) = 0
  PROVE  LET br2 == Answered(br, b, t[cur + 1].kind)
         IN  Underway(C, S, p, t, cur + 2, br2,
                      IF Over(br2) /\ ~Over(br) THEN Append(q, End) ELSE q)
<1> DEFINE result == t[cur + 1].kind
           br2 == Answered(br, b, result)
           last == br[b].done + 1
<1>1. Standing(C, S, p, t, cur, br) /\ Sequenced(S, p, cur, br) /\ Jobs(S, t, cur, br, q)
  BY DEF Underway
<1>2. br \in [Branch -> BranchState] /\ br[b].done \in Nat /\ last \in Index /\ last # 0
  BY <1>1 DEF Standing, BranchState, Index
<1>3. result \in {"return", "throw"}
  BY <1>2 DEF Recorded, Answers
<1>4. /\ br2 \in [Branch -> BranchState]
      /\ br2[b].status = IF result = "return" THEN "running" ELSE "failed"
      /\ br2[b].done = last
      /\ \A c \in Branch : c # b => br2[c] = br[c]
  BY <1>2, AnsweredState
<1>5. C[b][last] = cur /\ S[b][last] = cur + 1 /\ p[b][last] \notin AsyncOperation
  BY DEF last
<1> HIDE DEF br2, last
<1>6. \A X : \A c \in Branch : c # b => Now(X, br2, c) = Now(X, br, c)
  BY <1>4 DEF Now
<1>7. \A X : Now(X, br2, b) = X[b][last]
  BY <1>4 DEF Now
<1>8. \A c \in Branch : \A n \in Index : c # b => C[c][n] = 0 /\ S[c][n] = 0
  BY DEF Recorded, Calls, Answers, Index
<1>9. \A c \in Branch : c # b => br[c].done = 0
  <2> SUFFICES ASSUME NEW c \in Branch, c # b, br[c].done # 0
               PROVE  FALSE
    OBVIOUS
  <2>1. br[c].done \in Index
    BY <1>1, BranchTypes
  <2>2. br[c].done <= br[c].done
    BY <2>1 DEF Index
  <2>3. Past(C[c][br[c].done], cur)
    BY <1>1, <2>1, <2>2 DEF Standing
  <2> QED
    BY <1>8, <2>1, <2>3 DEF Past
<1>10. \A c \in Branch : c # b => br2[c].done = 0 /\ br2[c].status \notin {"waiting", "failed", "running"}
  BY <1>1, <1>4, <1>9 DEF Standing, Sequenced
<1>11. \A c \in Branch : ~Due(S, cur, br, c) /\ ~Due(S, cur + 2, br2, c)
  BY <1>3, <1>4, <1>9, <1>10 DEF Due
<1>12. \A n \in Index : S[b][n] # cur /\ (C[b][n] = cur + 1 => FALSE) /\ (C[b][n] = cur <=> n = last)
  <2>1. t[cur].kind = "call" /\ t[cur + 1].kind # "call"
    BY <1>2, <1>3, <1>5 DEF Recorded, Calls
  <2>2. \A n \in Index : C[b][n] = cur => n = last
    BY <1>2, <1>5, PlacesApart
  <2> QED
    BY <1>5, <2>1, <2>2, CallsApart DEF Recorded, Calls
<1>13. \A n \in Index : Past(C[b][n], cur + 2) <=> Past(C[b][n], cur) \/ n = last
  BY <1>12, RecordedTypes DEF Past
<1>14. Standing(C, S, p, t, cur + 2, br2)
  <2>1. ASSUME NEW c \in Branch
        PROVE  /\ br2[c].status = "fresh" => br2[c].done = 0
               /\ br2[c].status \in {"running", "finished"} /\ br2[c].done # 0 =>
                    Past(Now(S, br2, c), cur + 2) /\ t[Now(S, br2, c)].kind = "return"
               /\ br2[c].status = "finished" => br2[c].done = Len(p[c])
               /\ br2[c].status = "waiting" =>
                    br2[c].done # 0 /\ Now(p, br2, c) \in AsyncOperation /\ br2[c].awaits = t[Now(C, br2, c)].id
               /\ br2[c].status = "failed" =>
                    br2[c].done # 0 /\ Past(Now(S, br2, c), cur + 2) /\ t[Now(S, br2, c)].kind = "throw"
    <3>1. CASE c = b
      <4>1. Past(Now(S, br2, b), cur + 2) /\ t[Now(S, br2, b)].kind = result
        BY <1>5, <1>7 DEF Past
      <4> QED
        BY <1>2, <1>3, <1>4, <3>1, <4>1
    <3>2. CASE c # b
      BY <1>1, <1>4, <1>9, <1>10, <3>2 DEF Standing
    <3> QED
      BY <3>1, <3>2
  <2>2. \A n \in Index : n <= br2[b].done <=> Past(C[b][n], cur + 2)
    <3>1. \A n \in Index : n <= last <=> n <= br[b].done \/ n = last
      BY <1>2 DEF Index, last
    <3> QED
      BY <1>1, <1>4, <1>13, <3>1 DEF Standing
  <2>3. \A c \in Branch : \A n \in Index : c # b => ~(n <= br2[c].done) /\ ~Past(C[c][n], cur + 2)
    BY <1>8, <1>10 DEF Index, Past
  <2> QED
    BY <1>4, <2>1, <2>2, <2>3 DEF Standing
<1>15. \A c \in Branch : \A n \in Index : Consumed(br2, c, n) => c = b /\ n <= last
  BY <1>2, <1>4, <1>10 DEF Consumed, Index
<1>16. ASSUME NEW n \in Index, n <= last
       PROVE  S[b][n] <= cur + 1
  <2>1. CASE n = last
    BY <1>5, <2>1
  <2>2. CASE n < last
    <3>1. n <= br[b].done /\ Consumed(br, b, n)
      BY <1>2, <2>2 DEF Index, Consumed, last
    <3>2. Past(S[b][n], cur)
      BY <1>1, <3>1, ConsumedIsPast
    <3> QED
      BY <3>2, RecordedTypes DEF Past
  <2> QED
    BY <1>2, <1>16, <2>1, <2>2 DEF Index
<1>17. \A c \in Branch : YetToCall(br2, c) => YetToCall(br, c) /\ c # b /\ br2[c].status = "fresh"
  BY <1>2, <1>4, <1>10 DEF YetToCall
<1>18. Sequenced(S, p, cur + 2, br2)
  <2>1. \A c, d \in Branch : YetToCall(br2, c) /\ c < d => br2[d].status = "fresh"
    <3> SUFFICES ASSUME NEW c \in Branch, NEW d \in Branch, YetToCall(br2, c), c < d
                 PROVE  br2[d].status = "fresh"
      OBVIOUS
    <3>1. br[d].status = "fresh"
      BY <1>1, <1>17 DEF Sequenced
    <3> QED
      BY <1>4, <3>1
  <2>2. \A c, d \in Branch : \A n \in Index :
          Consumed(br2, c, n) /\ br2[d].status = "running" /\ br2[d].done # 0 => S[c][n] <= Now(S, br2, d)
    BY <1>5, <1>7, <1>10, <1>15, <1>16
  <2>3. ASSUME NEW c \in Branch, NEW d \in Branch, NEW n \in Index,
               YetToCall(br2, c), Past(S[d][n], cur + 2)
        PROVE  p[d][n] \notin AsyncOperation
    <3>1. d = b
      BY <1>8, <2>3 DEF Past
    <3>2. CASE n = last
      BY <1>5, <3>1, <3>2
    <3>3. CASE n # last
      <4>1. C[b][n] # 0 /\ C[b][n] < S[b][n]
        BY <2>3, <3>1 DEF Recorded, Answers, Past
      <4>2. S[b][n] # cur + 1
        BY <1>2, <1>5, <3>3, PlacesApart
      <4>3. Past(S[b][n], cur)
        <5>1. S[b][n] \in Nat
          BY RecordedTypes
        <5>2. S[b][n] # cur
          BY <1>12
        <5>3. S[b][n] # 0 /\ S[b][n] < cur + 2
          BY <2>3, <3>1 DEF Past
        <5> QED
          BY <4>2, <5>1, <5>2, <5>3 DEF Past
      <4> QED
        BY <1>1, <1>17, <2>3, <3>1, <4>3 DEF Sequenced
    <3> QED
      BY <3>2, <3>3
  <2>4. \A c, d \in Branch : br2[c].status = "running" /\ br2[d].status = "running" => c = d
    BY <1>10
  <2>5. \A c, d \in Branch : br2[c].status = "running" /\ br2[c].done # 0 /\ Now(p, br2, c) \in AsyncOperation =>
          br2[d].status # "fresh"
    BY <1>5, <1>7, <1>10
  <2> QED
    BY <1>11, <2>1, <2>2, <2>3, <2>4, <2>5 DEF Sequenced
<1>19. Over(br) => Over(br2)
  <2> SUFFICES ASSUME Over(br) PROVE Over(br2)
    OBVIOUS
  <2> QED
    BY <1>4 DEF Over
<1>20. Jobs(S, t, cur + 2, br2, q)
  BY <1>1, <1>11, <1>19, QueueKept
<1>21. Jobs(S, t, cur + 2, br2, Append(q, End)) \/ ~Over(br2)
  BY <1>20, EndQueued
<1>22. Underway(C, S, p, t, cur + 2, br2, IF Over(br2) /\ ~Over(br) THEN Append(q, End) ELSE q)
  BY <1>14, <1>18, <1>20, <1>21 DEF Underway
<1> QED
  BY <1>22 DEF br2

(* Settle, and what pump delivers: the D settlements from cur on make as    *)
(* many branches due, in that order.                                       *)
LEMMA Delivering ==
  ASSUME NEW C, NEW S, NEW p, NEW t, NEW cur \in Nat, NEW br, NEW q,
         Recorded(C, S, p, t), Underway(C, S, p, t, cur, br, q), cur # 0,
         NEW D \in Nat, NEW r \in Seq(Job),
         Len(r) = Len(q) + D,
         \A i \in 1 .. Len(q) : r[i] = q[i],
         \A i \in 1 .. D :
           /\ r[Len(q) + i].kind = "resume" /\ r[Len(q) + i].branch \in Branch
           /\ r[Len(q) + i].result = t[cur + i - 1].kind
           /\ br[r[Len(q) + i].branch].status = "waiting"
           /\ Now(S, br, r[Len(q) + i].branch) = cur + i - 1,
         D # 0 => \A b \in Branch : ~YetToCall(br, b)
  PROVE  Underway(C, S, p, t, cur + D, br, r)
<1> DEFINE l == Len(q)
           B(i) == r[l + i].branch
<1>1. Standing(C, S, p, t, cur, br) /\ Sequenced(S, p, cur, br) /\ Jobs(S, t, cur, br, q)
  BY DEF Underway
<1>2. l \in Nat /\ q \in Seq(Job) /\ Len(r) = l + D /\ \A i \in 1 .. l : r[i] = q[i]
  BY <1>1 DEF Jobs
<1>3. \A i \in 1 .. D :
        /\ r[l + i].kind = "resume" /\ B(i) \in Branch /\ r[l + i].result = t[cur + i - 1].kind
        /\ br[B(i)].status = "waiting" /\ Now(S, br, B(i)) = cur + i - 1
  OBVIOUS
<1>4. \A b \in Branch : br[b].done # 0 => br[b].done \in Index
  BY <1>1, BranchTypes
<1>5. \A b \in Branch : br[b].status = "waiting" => br[b].done \in Index
  BY <1>1, <1>4 DEF Standing
<1>6. \A k \in cur .. cur + D - 1 : \E b \in Branch :
        br[b].status = "waiting" /\ Now(S, br, b) = k /\ r[l + (k - cur + 1)].branch = b /\ k - cur + 1 \in 1 .. D
  <2> SUFFICES ASSUME NEW k \in cur .. cur + D - 1
               PROVE  \E b \in Branch :
                        br[b].status = "waiting" /\ Now(S, br, b) = k /\ r[l + (k - cur + 1)].branch = b /\ k - cur + 1 \in 1 .. D
    OBVIOUS
  <2> DEFINE i == k - cur + 1
  <2>1. i \in 1 .. D /\ k = cur + i - 1
    OBVIOUS
  <2> HIDE DEF i
  <2>2. B(i) \in Branch /\ br[B(i)].status = "waiting" /\ Now(S, br, B(i)) = k
    BY <1>3, <2>1
  <2>3. \E b \in Branch : br[b].status = "waiting" /\ Now(S, br, b) = k /\ r[l + i].branch = b /\ i \in 1 .. D
    BY <2>1, <2>2
  <2> QED
    BY <2>3 DEF i
<1>7. \A b \in Branch : \A n \in Index : ~(C[b][n] \in cur .. cur + D - 1)
  <2> SUFFICES ASSUME NEW b \in Branch, NEW n \in Index, C[b][n] \in cur .. cur + D - 1
               PROVE  FALSE
    OBVIOUS
  <2>1. PICK c \in Branch : br[c].status = "waiting" /\ Now(S, br, c) = C[b][n]
    BY <1>6
  <2>2. S[c][br[c].done] = C[b][n] /\ br[c].done \in Index /\ C[b][n] # 0
    BY <1>5, <2>1 DEF Now
  <2>3. t[C[b][n]].kind # "call"
    BY <2>2, CallsApart
  <2> QED
    BY <2>2, <2>3 DEF Recorded, Calls
<1>8. \A b \in Branch : \A n \in Index :
        /\ Past(C[b][n], cur + D) <=> Past(C[b][n], cur)
        /\ Past(S[b][n], cur) => Past(S[b][n], cur + D)
        /\ Past(S[b][n], cur + D) => Past(S[b][n], cur) \/ S[b][n] \in cur .. cur + D - 1
  BY <1>7, RecordedTypes DEF Past
<1>9. Standing(C, S, p, t, cur + D, br)
  <2>1. \A b \in Branch : br[b].done # 0 => (Past(Now(S, br, b), cur) => Past(Now(S, br, b), cur + D))
    BY <1>4, <1>8 DEF Now
  <2>2. \A b \in Branch : br[b].status = "failed" => br[b].done # 0
    BY <1>1 DEF Standing
  <2> QED
    BY <1>1, <1>8, <2>1, <2>2 DEF Standing
<1>10. \A b \in Branch : Due(S, cur, br, b) => Due(S, cur + D, br, b)
  BY <1>5, <1>8 DEF Due, Now
<1>11. ASSUME NEW b \in Branch, Due(S, cur + D, br, b), ~Due(S, cur, br, b)
       PROVE  /\ Now(S, br, b) \in cur .. cur + D - 1
              /\ \E i \in 1 .. Len(r) : r[i].kind = "resume" /\ r[i].branch = b
  <2>1. br[b].status = "waiting" /\ br[b].done \in Index /\ Now(S, br, b) = S[b][br[b].done]
    BY <1>5, <1>11 DEF Due, Now
  <2>2. Now(S, br, b) \in cur .. cur + D - 1 /\ Now(S, br, b) # 0
    BY <1>8, <1>11, <2>1 DEF Due, Past
  <2> DEFINE k == Now(S, br, b)
  <2>3. PICK c \in Branch :
          br[c].status = "waiting" /\ Now(S, br, c) = k /\ r[l + (k - cur + 1)].branch = c /\ k - cur + 1 \in 1 .. D
    BY <1>6, <2>2
  <2>4. S[c][br[c].done] = S[b][br[b].done] /\ S[b][br[b].done] # 0 /\ br[c].done \in Index
    BY <1>5, <2>1, <2>2, <2>3 DEF Now
  <2>5. c = b
    BY <2>1, <2>4, PlacesApart
  <2>6. l + (k - cur + 1) \in 1 .. Len(r) /\ r[l + (k - cur + 1)].kind = "resume"
    <3> DEFINE i == k - cur + 1
    <3>1. i \in 1 .. D
      BY <2>3
    <3> HIDE DEF i
    <3>2. l + i \in 1 .. Len(r)
      BY <1>2, <3>1
    <3>3. r[l + i].kind = "resume"
      BY <1>3, <3>1
    <3> QED
      BY <3>2, <3>3 DEF i
  <2> QED
    BY <2>2, <2>3, <2>5, <2>6
<1>12. Sequenced(S, p, cur + D, br)
  <2>1. ASSUME NEW b \in Branch, NEW c \in Branch, NEW n \in Index,
               Consumed(br, b, n), Due(S, cur + D, br, c)
        PROVE  S[b][n] < Now(S, br, c)
    <3>1. CASE Due(S, cur, br, c)
      BY <1>1, <2>1, <3>1 DEF Sequenced
    <3>2. CASE ~Due(S, cur, br, c)
      <4>1. Now(S, br, c) \in cur .. cur + D - 1
        BY <1>11, <2>1, <3>2
      <4>2. br[b].done \in Nat /\ n \in Nat
        BY <1>1, BranchTypes DEF Index
      <4>3. n <= br[b].done
        BY <2>1, <4>2 DEF Consumed
      <4>4. Past(S[b][n], cur) /\ S[b][n] \in Nat
        BY <1>1, <2>1, <4>3, ConsumedIsPast, RecordedTypes
      <4> QED
        BY <4>1, <4>4 DEF Past
    <3> QED
      BY <3>1, <3>2
  <2>2. \A b, c \in Branch : \A n \in Index :
          YetToCall(br, b) /\ Past(S[c][n], cur + D) => p[c][n] \notin AsyncOperation
    <3>1. CASE D = 0
      <4>1. cur + D = cur
        BY <3>1
      <4> QED
        BY <1>1, <4>1 DEF Sequenced
    <3>2. CASE D # 0
      BY <3>2
    <3> QED
      BY <3>1, <3>2
  <2> QED
    BY <1>1, <2>1, <2>2 DEF Sequenced
<1>13. \A i \in 1 .. Len(r) : i \in 1 .. l \/ (i - l \in 1 .. D /\ i = l + (i - l) /\ l < i)
  BY <1>2
<1>14. ASSUME NEW i \in 1 .. Len(r), r[i].kind = "resume"
       PROVE  /\ r[i].branch \in Branch /\ Due(S, cur + D, br, r[i].branch)
              /\ r[i].result = t[Now(S, br, r[i].branch)].kind
              /\ i \in 1 .. l => Now(S, br, r[i].branch) < cur
              /\ i \notin 1 .. l => Now(S, br, r[i].branch) = cur + (i - l) - 1
  <2>1. CASE i \in 1 .. l
    <3>1. /\ q[i].branch \in Branch /\ Due(S, cur, br, q[i].branch)
          /\ q[i].result = t[Now(S, br, q[i].branch)].kind /\ r[i] = q[i]
      BY <1>1, <1>2, <1>14, <2>1 DEF Jobs
    <3> QED
      BY <1>10, <2>1, <3>1 DEF Due, Past
  <2>2. CASE i \notin 1 .. l
    <3> DEFINE j == i - l
    <3>1. j \in 1 .. D /\ i = l + j
      BY <1>13, <2>2
    <3> HIDE DEF j
    <3>2. /\ B(j) \in Branch /\ r[i].result = t[cur + j - 1].kind
          /\ br[B(j)].status = "waiting" /\ Now(S, br, B(j)) = cur + j - 1 /\ r[i].branch = B(j)
      BY <1>3, <3>1
    <3>3. Past(cur + j - 1, cur + D)
      BY <3>1 DEF Past
    <3>4. Due(S, cur + D, br, r[i].branch)
      BY <3>2, <3>3 DEF Due
    <3> QED
      BY <2>2, <3>1, <3>2, <3>4 DEF j
  <2> QED
    BY <2>1, <2>2
<1>15. \A i, j \in 1 .. Len(r) : i < j /\ r[i].kind = "resume" /\ r[j].kind = "resume" =>
         Now(S, br, r[i].branch) < Now(S, br, r[j].branch)
  <2> SUFFICES ASSUME NEW i \in 1 .. Len(r), NEW j \in 1 .. Len(r), i < j,
                      r[i].kind = "resume", r[j].kind = "resume"
               PROVE  Now(S, br, r[i].branch) < Now(S, br, r[j].branch)
    OBVIOUS
  <2>1. CASE j \in 1 .. l
    <3>1. i \in 1 .. l
      BY <2>1
    <3>2. r[i] = q[i] /\ r[j] = q[j]
      BY <1>2, <2>1, <3>1
    <3> QED
      BY <1>1, <2>1, <3>1, <3>2 DEF Jobs
  <2>2. CASE i \in 1 .. l /\ j \notin 1 .. l
    <3>1. j - l \in 1 .. D
      BY <1>13, <2>2
    <3>2. Now(S, br, r[i].branch) < cur /\ Now(S, br, r[j].branch) = cur + (j - l) - 1
      BY <1>14, <2>2
    <3>3. Now(S, br, r[i].branch) \in Nat
      BY <1>5, <1>14, RecordedTypes DEF Due, Now
    <3> QED
      BY <1>2, <3>1, <3>2, <3>3
  <2>3. CASE i \notin 1 .. l /\ j \notin 1 .. l
    <3>1. Now(S, br, r[i].branch) = cur + (i - l) - 1 /\ Now(S, br, r[j].branch) = cur + (j - l) - 1
      BY <1>14, <2>3
    <3> QED
      BY <1>2, <3>1
  <2> QED
    BY <1>2, <2>1, <2>2, <2>3
<1>16. \A i \in 1 .. Len(r) : r[i].kind # "resume" => i \in 1 .. l /\ r[i] = q[i]
  <2> SUFFICES ASSUME NEW i \in 1 .. Len(r), i \notin 1 .. l
               PROVE  r[i].kind = "resume"
    BY <1>2
  <2> DEFINE j == i - l
  <2>1. j \in 1 .. D /\ i = l + j
    BY <1>13
  <2> HIDE DEF j
  <2> QED
    BY <1>3, <2>1
<1>17. /\ \A i \in 1 .. Len(r) : r[i].kind = "end" => Over(br)
       /\ \A i, j \in 1 .. Len(r) : i < j /\ r[i].kind = "end" => r[j].kind # "pump"
  BY <1>1, <1>16 DEF Jobs
<1>18. \A b \in Branch : Due(S, cur + D, br, b) =>
         \E i \in 1 .. Len(r) : r[i].kind = "resume" /\ r[i].branch = b
  <2> SUFFICES ASSUME NEW b \in Branch, Due(S, cur + D, br, b)
               PROVE  \E i \in 1 .. Len(r) : r[i].kind = "resume" /\ r[i].branch = b
    OBVIOUS
  <2>1. CASE Due(S, cur, br, b)
    <3>1. PICK i \in 1 .. l : q[i].kind = "resume" /\ q[i].branch = b
      BY <1>1, <2>1 DEF Jobs
    <3>2. i \in 1 .. Len(r) /\ r[i] = q[i]
      BY <1>2
    <3> QED
      BY <3>1, <3>2
  <2>2. CASE ~Due(S, cur, br, b)
    BY <1>11, <2>2
  <2> QED
    BY <2>1, <2>2
<1>19. \A i \in 1 .. Len(r) : r[i].kind = "resume" =>
         /\ r[i].branch \in Branch /\ Due(S, cur + D, br, r[i].branch)
         /\ r[i].result = t[Now(S, br, r[i].branch)].kind
  BY <1>14
<1>20. Jobs(S, t, cur + D, br, r)
  BY <1>15, <1>17, <1>18, <1>19 DEF Jobs
<1> QED
  BY <1>9, <1>12, <1>20 DEF Underway

-----------------------------------------------------------------------------
(* A recording grows *)

(* A place is noted for one effect and no other.                           *)
LEMMA PlaceSet ==
  ASSUME NEW X \in Places, NEW b \in Branch, NEW n \in Index, NEW k \in Nat
  PROVE  /\ [X EXCEPT ![b][n] = k] \in Places
         /\ [X EXCEPT ![b][n] = k][b][n] = k
         /\ \A c \in Branch : \A m \in Index :
              c # b \/ m # n => [X EXCEPT ![b][n] = k][c][m] = X[c][m]
<1>1. X[b] \in [Index -> Nat]
  BY DEF Places
<1> DEFINE y == [X[b] EXCEPT ![n] = k]
<1>2. y \in [Index -> Nat] /\ y[n] = k /\ \A m \in Index : m # n => y[m] = X[b][m]
  BY <1>1
<1>3. [X EXCEPT ![b][n] = k] = [X EXCEPT ![b] = y]
  OBVIOUS
<1> HIDE DEF y
<1>4. [X EXCEPT ![b] = y] \in Places /\ [X EXCEPT ![b] = y][b] = y
      /\ \A c \in Branch : c # b => [X EXCEPT ![b] = y][c] = X[c]
  BY <1>2 DEF Places
<1> QED
  BY <1>2, <1>3, <1>4

(* What has been recorded when all of it has happened.                      *)
LEMMA AllPast ==
  ASSUME NEW C, NEW S, NEW p, NEW t, NEW br,
         Recorded(C, S, p, t), Standing(C, S, p, t, Len(t) + 1, br),
         NEW b \in Branch, NEW n \in Index
  PROVE  /\ C[b][n] # 0 <=> n <= br[b].done
         /\ C[b][n] <= Len(t) /\ S[b][n] <= Len(t)
         /\ S[b][n] # 0 => n <= br[b].done
         /\ S[b][n] # 0 => Past(S[b][n], Len(t) + 1)
<1>1. C[b][n] \in Nat /\ S[b][n] \in Nat /\ Len(t) \in Nat
  BY RecordedTypes
<1>2. C[b][n] <= Len(t) /\ S[b][n] <= Len(t) /\ (S[b][n] # 0 => C[b][n] # 0)
  BY <1>1 DEF Recorded, Calls, Answers
<1>3. C[b][n] # 0 <=> Past(C[b][n], Len(t) + 1)
  BY <1>1, <1>2 DEF Past
<1> QED
  BY <1>1, <1>2, <1>3 DEF Standing, Past

(* A call recorded at the end of the trace.                                *)
LEMMA RecordedCall ==
  ASSUME NEW C, NEW S, NEW p \in [Branch -> Seq(Operation)], NEW t, NEW br, NEW q,
         Recorded(C, S, p, t), Underway(C, S, p, t, Len(t) + 1, br, q), Joined(p),
         NEW b \in Branch, br[b].status = "running", br[b].done < Len(p[b]),
         NEW e \in TraceEvent, e.kind = "call", e.operation = p[b][br[b].done + 1],
         \A k \in 1 .. Len(t) : t[k].kind = "call" => t[k].id # e.id
  PROVE  Recorded([C EXCEPT ![b][br[b].done + 1] = Len(t) + 1], S, p, Append(t, e))
<1> DEFINE n == br[b].done + 1
           L == Len(t)
           C2 == [C EXCEPT ![b][n] = L + 1]
           u == Append(t, e)
<1>1. /\ C \in Places /\ S \in Places /\ t \in Seq(TraceEvent)
      /\ Calls(C, p, t) /\ Answers(C, S, t) /\ Whole(C, S, t) /\ Numbered(C, t)
      /\ Follows(C, S, t) /\ InTurn(C, S) /\ Final(C, S, t)
  BY DEF Recorded
<1>2. Standing(C, S, p, t, L + 1, br) /\ Sequenced(S, p, L + 1, br)
  BY DEF Underway
<1>3. L \in Nat /\ L + 1 \in Nat /\ br[b].done \in Nat /\ n \in Index /\ n - 1 = br[b].done
  <2>1. L \in Nat
    BY RecordedTypes
  <2>2. br[b].done \in Nat
    BY <1>2, BranchTypes
  <2> QED
    BY <2>1, <2>2 DEF Index
<1>4. /\ C2 \in Places /\ C2[b][n] = L + 1
      /\ \A c \in Branch : \A m \in Index : c # b \/ m # n => C2[c][m] = C[c][m]
  <2> DEFINE k == L + 1
  <2>1. k \in Nat
    BY <1>3
  <2>2. C2 = [C EXCEPT ![b][n] = k]
    OBVIOUS
  <2> HIDE DEF k, n, C2
  <2>3. /\ C2 \in Places /\ C2[b][n] = k
        /\ \A c \in Branch : \A m \in Index : c # b \/ m # n => C2[c][m] = C[c][m]
    <3>1. C \in Places /\ n \in Index
      BY <1>1, <1>3
    <3>2. /\ [C EXCEPT ![b][n] = k] \in Places
          /\ [C EXCEPT ![b][n] = k][b][n] = k
          /\ \A c \in Branch : \A m \in Index :
               c # b \/ m # n => [C EXCEPT ![b][n] = k][c][m] = C[c][m]
      BY <2>1, <3>1, PlaceSet
    <3> QED
      BY <2>2, <3>2
  <2> QED
    BY <2>3 DEF k
<1>5. u \in Seq(TraceEvent) /\ Len(u) = L + 1 /\ u[L + 1] = e /\ \A k \in 1 .. L : u[k] = t[k]
  BY <1>1
<1>6. \A c \in Branch : \A m \in Index :
        /\ C[c][m] \in Nat /\ S[c][m] \in Nat /\ C[c][m] <= L /\ S[c][m] <= L
        /\ C[c][m] # 0 <=> m <= br[c].done
        /\ S[c][m] # 0 => m <= br[c].done
        /\ S[c][m] # 0 => Past(S[c][m], L + 1)
        /\ C[c][m] # 0 => C[c][m] \in 1 .. L
        /\ S[c][m] # 0 => S[c][m] \in 1 .. L
  BY <1>2, AllPast, RecordedTypes
<1>7. C[b][n] = 0 /\ S[b][n] = 0
  BY <1>3, <1>6
<1>8. n <= Len(p[b]) /\ e.operation = p[b][n]
  <2>1. p[b] \in Seq(Operation)
    OBVIOUS
  <2> QED
    BY <1>3, <2>1
<1> HIDE DEF C2, u, n, L
<1>9. Calls(C2, p, u)
  <2> SUFFICES ASSUME NEW c \in Branch, NEW m \in Index, C2[c][m] # 0
               PROVE  /\ C2[c][m] <= Len(u) /\ m <= Len(p[c])
                      /\ u[C2[c][m]].kind = "call" /\ u[C2[c][m]].operation = p[c][m]
    BY DEF Calls
  <2>1. CASE c = b /\ m = n
    BY <1>3, <1>4, <1>5, <1>8, <2>1
  <2>2. CASE c # b \/ m # n
    BY <1>1, <1>3, <1>4, <1>5, <1>6, <2>2 DEF Calls, L
  <2> QED
    BY <2>1, <2>2
<1>10. Answers(C2, S, u)
  <2> SUFFICES ASSUME NEW c \in Branch, NEW m \in Index, S[c][m] # 0
               PROVE  /\ C2[c][m] # 0 /\ C2[c][m] < S[c][m] /\ S[c][m] <= Len(u)
                      /\ u[S[c][m]].kind \in {"return", "throw"} /\ u[S[c][m]].id = u[C2[c][m]].id
    BY DEF Answers
  <2>1. C2[c][m] = C[c][m]
    BY <1>4, <1>7
  <2>2. /\ C[c][m] # 0 /\ C[c][m] < S[c][m]
        /\ t[S[c][m]].kind \in {"return", "throw"} /\ t[S[c][m]].id = t[C[c][m]].id
    BY <1>1 DEF Answers
  <2>3. C[c][m] \in 1 .. L /\ S[c][m] \in 1 .. L
    BY <1>6, <2>2
  <2>4. u[S[c][m]] = t[S[c][m]] /\ u[C[c][m]] = t[C[c][m]] /\ S[c][m] <= Len(u)
    BY <1>3, <1>5, <2>3
  <2> QED
    BY <2>1, <2>2, <2>4
<1>11. Whole(C2, S, u)
  <2> SUFFICES ASSUME NEW k \in 1 .. Len(u)
               PROVE  /\ u[k].kind = "call" => \E c \in Branch : \E m \in Index : C2[c][m] = k
                      /\ u[k].kind # "call" => \E c \in Branch : \E m \in Index : S[c][m] = k
    BY DEF Whole
  <2>1. CASE k = L + 1
    BY <1>3, <1>4, <1>5, <2>1
  <2>2. CASE k # L + 1
    <3>1. k \in 1 .. L /\ u[k] = t[k]
      BY <1>3, <1>5, <2>2
    <3>2. ASSUME t[k].kind = "call"
          PROVE  \E c \in Branch : \E m \in Index : C2[c][m] = k
      <4>1. PICK c \in Branch, m \in Index : C[c][m] = k
        BY <1>1, <3>1, <3>2 DEF Whole, L
      <4>2. C2[c][m] = k
        BY <1>4, <1>7, <3>1, <4>1
      <4> QED
        BY <4>2
    <3> QED
      BY <1>1, <3>1, <3>2 DEF Whole, L
  <2> QED
    BY <2>1, <2>2
<1>12. Numbered(C2, u)
  <2>1. \A c \in Branch : \A m \in Index : (c # b \/ m # n) /\ C2[c][m] # 0 =>
          C2[c][m] = C[c][m] /\ u[C2[c][m]] = t[C[c][m]] /\ u[C2[c][m]].id # e.id
    <3> SUFFICES ASSUME NEW c \in Branch, NEW m \in Index, c # b \/ m # n, C2[c][m] # 0
                 PROVE  C2[c][m] = C[c][m] /\ u[C2[c][m]] = t[C[c][m]] /\ u[C2[c][m]].id # e.id
      OBVIOUS
    <3>1. C2[c][m] = C[c][m] /\ C[c][m] # 0
      BY <1>4
    <3>2. C[c][m] \in 1 .. L /\ t[C[c][m]].kind = "call"
      BY <1>1, <1>6, <3>1 DEF Calls
    <3>3. u[C[c][m]] = t[C[c][m]] /\ t[C[c][m]].id # e.id
      BY <1>1, <1>4, <1>5, <1>6, <3>2 DEF L
    <3> QED
      BY <3>1, <3>3
  <2>2. u[C2[b][n]].id = e.id
    BY <1>4, <1>5
  <2> SUFFICES ASSUME NEW c \in Branch, NEW d \in Branch, NEW m \in Index, NEW k \in Index,
                      C2[c][m] # 0, C2[d][k] # 0, u[C2[c][m]].id = u[C2[d][k]].id
               PROVE  c = d /\ m = k
    BY DEF Numbered
  <2>3. CASE c = b /\ m = n
    BY <2>1, <2>2, <2>3
  <2>4. CASE d = b /\ k = n
    BY <2>1, <2>2, <2>4
  <2>5. CASE (c # b \/ m # n) /\ (d # b \/ k # n)
    <3>1. C[c][m] # 0 /\ C[d][k] # 0 /\ t[C[c][m]].id = t[C[d][k]].id
      BY <2>1, <2>5
    <3> QED
      BY <1>1, <3>1 DEF Numbered
  <2> QED
    BY <2>3, <2>4, <2>5
<1>13. ASSUME NEW m \in Index, n = m + 1
       PROVE  /\ S[b][m] # 0 /\ t[S[b][m]].kind = "return"
              /\ \A c \in Branch : \A k \in Index : C[c][k + 1] # 0 => S[c][k] <= S[b][m]
  <2>1. m = br[b].done /\ m # 0
    BY <1>3, <1>13 DEF Index
  <2>2. Past(S[b][m], L + 1) /\ t[S[b][m]].kind = "return" /\ Now(S, br, b) = S[b][m]
    BY <1>2, <2>1 DEF Standing, Now
  <2>3. ASSUME NEW c \in Branch, NEW k \in Index, C[c][k + 1] # 0
        PROVE  S[c][k] <= S[b][m]
    <3>1. k + 1 \in Index /\ k \in Nat
      BY DEF Index
    <3>2. k + 1 <= br[c].done /\ br[c].done \in Nat
      BY <1>2, <1>6, <2>3, <3>1, BranchTypes
    <3>3. Consumed(br, c, k)
      BY <3>1, <3>2 DEF Consumed
    <3> QED
      BY <1>2, <2>1, <2>2, <3>3 DEF Sequenced
  <2> QED
    BY <2>2, <2>3 DEF Past
<1>14. Follows(C2, S, u)
  <2> SUFFICES ASSUME NEW c \in Branch, NEW m \in Index, C2[c][m + 1] # 0
               PROVE  S[c][m] # 0 /\ u[S[c][m]].kind = "return" /\ S[c][m] < C2[c][m + 1]
    BY DEF Follows
  <2>0. m + 1 \in Index
    BY DEF Index
  <2>1. CASE c = b /\ m + 1 = n
    BY <1>3, <1>4, <1>5, <1>6, <1>13, <2>1
  <2>2. CASE c # b \/ m + 1 # n
    <3>1. C2[c][m + 1] = C[c][m + 1]
      BY <1>4, <2>0, <2>2
    <3>2. S[c][m] # 0 /\ t[S[c][m]].kind = "return" /\ S[c][m] < C[c][m + 1]
      BY <1>1, <3>1 DEF Follows
    <3> QED
      BY <1>5, <1>6, <3>1, <3>2
  <2> QED
    BY <2>1, <2>2
<1>15. InTurn(C2, S)
  <2>1. ASSUME NEW c \in Branch, NEW d \in Branch, NEW m \in Index, NEW k \in Index,
               C2[c][m + 1] # 0, C2[c][m + 1] < C2[d][k + 1]
        PROVE  S[c][m] < S[d][k]
    <3>0. m + 1 \in Index /\ k + 1 \in Index
      BY DEF Index
    <3>1. c # b \/ m + 1 # n
      <4> SUFFICES ASSUME c = b, m + 1 = n
                   PROVE  FALSE
        OBVIOUS
      <4>1. C2[d][k + 1] > L + 1
        BY <1>4, <2>1
      <4>2. C2[d][k + 1] \in Nat /\ (C2[d][k + 1] = L + 1 \/ C2[d][k + 1] <= L)
        BY <1>3, <1>4, <1>6, <3>0
      <4> QED
        BY <1>3, <4>1, <4>2
    <3>2. C2[c][m + 1] = C[c][m + 1]
      BY <1>4, <3>0, <3>1
    <3>3. CASE d = b /\ k + 1 = n
      <4>1. S[c][m] <= S[b][k]
        BY <1>13, <2>1, <3>2, <3>3
      <4>2. c # b \/ m # k
        BY <3>1, <3>3
      <4>3. S[b][k] # 0 /\ S[b][k] \in Nat /\ S[c][m] \in Nat
        BY <1>6, <1>13, <3>3
      <4>4. S[c][m] # S[b][k]
        BY <4>2, <4>3, PlacesApart
      <4> QED
        BY <3>3, <4>1, <4>3, <4>4
    <3>4. CASE d # b \/ k + 1 # n
      <4>1. C2[d][k + 1] = C[d][k + 1]
        BY <1>4, <3>0, <3>4
      <4> QED
        BY <1>1, <2>1, <3>2, <4>1 DEF InTurn
    <3> QED
      BY <3>3, <3>4
  <2>2. 1 \in Index
    BY DEF Index
  <2>3. CASE n # 1
    <3>1. \A c \in Branch : C2[c][1] = C[c][1]
      BY <1>4, <2>2, <2>3
    <3> QED
      BY <1>1, <2>1, <3>1 DEF InTurn
  <2>4. CASE n = 1
    <3>1. br[b].done = 0 /\ YetToCall(br, b)
      BY <1>3, <2>4 DEF YetToCall
    <3>2. \A c \in Branch : C[c][1] # 0 => c < b
      <4> SUFFICES ASSUME NEW c \in Branch, C[c][1] # 0
                   PROVE  c < b
        OBVIOUS
      <4>1. 1 <= br[c].done
        BY <1>6, <2>2
      <4>2. br[c].status # "fresh" /\ c # b
        BY <1>2, <3>1, <4>1 DEF Standing
      <4>3. ~(b < c)
        BY <1>2, <3>1, <4>2 DEF Sequenced
      <4> QED
        BY <4>2, <4>3, ReplayAssumption DEF Branch
    <3>3. \A c \in Branch : \A m \in Index : S[c][m] = 0
      <4> SUFFICES ASSUME NEW c \in Branch, NEW m \in Index, S[c][m] # 0
                   PROVE  FALSE
        OBVIOUS
      <4>1. p[c][m] \notin AsyncOperation
        BY <1>2, <1>6, <3>1 DEF Sequenced
      <4>2. m <= br[c].done /\ m \in Nat /\ m >= 1
        BY <1>6 DEF Index
      <4>3. c # b
        BY <3>1, <4>2
      <4>4. C[c][m] # 0 /\ m <= Len(p[c]) /\ p[c] \in Seq(Operation)
        BY <1>1 DEF Answers, Calls
      <4>5. m \in 1 .. Len(p[c])
        BY <4>2, <4>4
      <4>6. Len(p[b]) = 0
        BY <4>1, <4>3, <4>5, Alone
      <4> QED
        BY <1>3, <1>8, <2>4, <4>6
    <3>4. \A c \in Branch : c # b => C2[c][1] = C[c][1]
      BY <1>4, <2>2
    <3>5. \A c, d \in Branch : C2[c][1] # 0 /\ C2[c][1] < C2[d][1] => c < d
      <4> SUFFICES ASSUME NEW c \in Branch, NEW d \in Branch, C2[c][1] # 0, C2[c][1] < C2[d][1]
                   PROVE  c < d
        OBVIOUS
      <4>1. C2[c][1] = L + 1 \/ C2[c][1] <= L
        BY <1>4, <1>6, <2>2
      <4>2. C2[d][1] \in Nat /\ (C2[d][1] = L + 1 \/ C2[d][1] <= L)
        BY <1>3, <1>4, <1>6, <2>2
      <4>3. c # b
        <5> SUFFICES ASSUME c = b PROVE FALSE
          OBVIOUS
        <5>1. C2[c][1] = L + 1
          BY <1>4, <2>4
        <5> QED
          BY <1>3, <4>2, <5>1
      <4>4. CASE d = b
        BY <3>2, <3>4, <4>3, <4>4
      <4>5. CASE d # b
        BY <1>1, <3>4, <4>3, <4>5 DEF InTurn
      <4> QED
        BY <4>4, <4>5
    <3> QED
      BY <2>1, <3>3, <3>5 DEF InTurn
  <2> QED
    BY <2>3, <2>4
<1>16. Final(C2, S, u)
  <2> SUFFICES ASSUME NEW c \in Branch, NEW d \in Branch, NEW m \in Index, NEW k \in Index,
                      S[c][m] # 0, u[S[c][m]].kind = "throw", C2[d][k + 1] # 0, S[c][m] < S[d][k]
               PROVE  S[d][k + 1] = 0
    BY DEF Final
  <2>0. k + 1 \in Index /\ t[S[c][m]].kind = "throw"
    BY <1>5, <1>6 DEF Index
  <2>1. CASE d = b /\ k + 1 = n
    BY <1>7, <2>1
  <2>2. CASE d # b \/ k + 1 # n
    <3>1. C2[d][k + 1] = C[d][k + 1]
      BY <1>4, <2>0, <2>2
    <3> QED
      BY <1>1, <2>0, <3>1 DEF Final
  <2> QED
    BY <2>1, <2>2
<1>17. Recorded(C2, S, p, u)
  BY <1>1, <1>4, <1>5, <1>9, <1>10, <1>11, <1>12, <1>14, <1>15, <1>16 DEF Recorded
<1> QED
  BY <1>17 DEF C2, u, n, L

(* A settlement recorded at the end of the trace.                          *)
LEMMA RecordedSettlement ==
  ASSUME NEW C, NEW S, NEW p, NEW t, Recorded(C, S, p, t),
         NEW b \in Branch, NEW n \in Index,
         C[b][n] # 0, C[b][n + 1] = 0, S[b][n] = 0,
         NEW e \in TraceEvent, e.kind # "call", e.id = t[C[b][n]].id,
         \A c \in Branch : \A m, k \in Index :
           S[c][m] # 0 /\ t[S[c][m]].kind = "throw" /\ n = k + 1 => ~(S[c][m] < S[b][k])
  PROVE  Recorded(C, [S EXCEPT ![b][n] = Len(t) + 1], p, Append(t, e))
<1> DEFINE L == Len(t)
           S2 == [S EXCEPT ![b][n] = L + 1]
           u == Append(t, e)
<1>1. /\ C \in Places /\ S \in Places /\ t \in Seq(TraceEvent)
      /\ Calls(C, p, t) /\ Answers(C, S, t) /\ Whole(C, S, t) /\ Numbered(C, t)
      /\ Follows(C, S, t) /\ InTurn(C, S) /\ Final(C, S, t)
  BY DEF Recorded
<1>3. L \in Nat /\ L + 1 \in Nat
  BY RecordedTypes
<1>4. /\ S2 \in Places /\ S2[b][n] = L + 1
      /\ \A c \in Branch : \A m \in Index : c # b \/ m # n => S2[c][m] = S[c][m]
  <2> DEFINE k == L + 1
  <2>1. k \in Nat
    BY <1>3
  <2>2. S2 = [S EXCEPT ![b][n] = k]
    OBVIOUS
  <2> HIDE DEF k, S2
  <2>3. S \in Places
    BY <1>1
  <2>4. /\ [S EXCEPT ![b][n] = k] \in Places
        /\ [S EXCEPT ![b][n] = k][b][n] = k
        /\ \A c \in Branch : \A m \in Index :
             c # b \/ m # n => [S EXCEPT ![b][n] = k][c][m] = S[c][m]
    BY <2>1, <2>3, PlaceSet
  <2>5. /\ S2 \in Places /\ S2[b][n] = k
        /\ \A c \in Branch : \A m \in Index : c # b \/ m # n => S2[c][m] = S[c][m]
    BY <2>2, <2>4
  <2> QED
    BY <2>5 DEF k
<1>5. u \in Seq(TraceEvent) /\ Len(u) = L + 1 /\ u[L + 1] = e /\ \A k \in 1 .. L : u[k] = t[k]
  BY <1>1
<1>6. \A c \in Branch : \A m \in Index :
        /\ C[c][m] \in Nat /\ S[c][m] \in Nat /\ C[c][m] <= L /\ S[c][m] <= L
        /\ C[c][m] # 0 => C[c][m] \in 1 .. L
        /\ S[c][m] # 0 => S[c][m] \in 1 .. L
  <2> SUFFICES ASSUME NEW c \in Branch, NEW m \in Index
               PROVE  /\ C[c][m] \in Nat /\ S[c][m] \in Nat /\ C[c][m] <= L /\ S[c][m] <= L
                      /\ C[c][m] # 0 => C[c][m] \in 1 .. L
                      /\ S[c][m] # 0 => S[c][m] \in 1 .. L
    OBVIOUS
  <2>1. C[c][m] \in Nat /\ S[c][m] \in Nat
    BY RecordedTypes
  <2> QED
    BY <1>1, <1>3, <2>1 DEF Calls, Answers
<1>7. e.kind \in {"return", "throw"}
  BY DEF TraceEvent
<1> HIDE DEF S2, u, L
<1>8. \A c \in Branch : \A m \in Index : S[c][m] # 0 => S2[c][m] = S[c][m] /\ u[S2[c][m]] = t[S[c][m]]
  BY <1>4, <1>5, <1>6
<1>9. Calls(C, p, u)
  BY <1>1, <1>3, <1>5, <1>6 DEF Calls, L
<1>10. Answers(C, S2, u)
  <2> SUFFICES ASSUME NEW c \in Branch, NEW m \in Index, S2[c][m] # 0
               PROVE  /\ C[c][m] # 0 /\ C[c][m] < S2[c][m] /\ S2[c][m] <= Len(u)
                      /\ u[S2[c][m]].kind \in {"return", "throw"} /\ u[S2[c][m]].id = u[C[c][m]].id
    BY DEF Answers
  <2>1. CASE c = b /\ m = n
    BY <1>3, <1>4, <1>5, <1>6, <1>7, <2>1
  <2>2. CASE c # b \/ m # n
    <3>1. S2[c][m] = S[c][m]
      BY <1>4, <2>2
    <3>2. /\ C[c][m] # 0 /\ C[c][m] < S[c][m]
          /\ t[S[c][m]].kind \in {"return", "throw"} /\ t[S[c][m]].id = t[C[c][m]].id
      BY <1>1, <3>1 DEF Answers
    <3> QED
      BY <1>3, <1>5, <1>6, <3>1, <3>2
  <2> QED
    BY <2>1, <2>2
<1>11. Whole(C, S2, u)
  <2> SUFFICES ASSUME NEW k \in 1 .. Len(u)
               PROVE  /\ u[k].kind = "call" => \E c \in Branch : \E m \in Index : C[c][m] = k
                      /\ u[k].kind # "call" => \E c \in Branch : \E m \in Index : S2[c][m] = k
    BY DEF Whole
  <2>1. CASE k = L + 1
    BY <1>3, <1>4, <1>5, <2>1
  <2>2. CASE k # L + 1
    <3>1. k \in 1 .. L /\ u[k] = t[k]
      BY <1>3, <1>5, <2>2
    <3>2. ASSUME t[k].kind # "call"
          PROVE  \E c \in Branch : \E m \in Index : S2[c][m] = k
      <4>1. PICK c \in Branch, m \in Index : S[c][m] = k
        BY <1>1, <3>1, <3>2 DEF Whole, L
      <4>2. S2[c][m] = k
        BY <1>8, <3>1, <4>1
      <4> QED
        BY <4>2
    <3> QED
      BY <1>1, <3>1, <3>2 DEF Whole, L
  <2> QED
    BY <2>1, <2>2
<1>12. Numbered(C, u)
  <2>1. \A c \in Branch : \A m \in Index : C[c][m] # 0 => u[C[c][m]] = t[C[c][m]]
    BY <1>5, <1>6
  <2> QED
    BY <1>1, <2>1 DEF Numbered
<1>13. \A c \in Branch : \A m \in Index : C[c][m + 1] # 0 => (c # b \/ m # n) /\ S2[c][m] = S[c][m]
  BY <1>4
<1>14. Follows(C, S2, u)
  BY <1>1, <1>8, <1>13 DEF Follows
<1>15. InTurn(C, S2)
  <2>1. \A c, d \in Branch : \A m, k \in Index :
          C[c][m + 1] # 0 /\ C[c][m + 1] < C[d][k + 1] => S2[c][m] < S2[d][k]
    <3> SUFFICES ASSUME NEW c \in Branch, NEW d \in Branch, NEW m \in Index, NEW k \in Index,
                        C[c][m + 1] # 0, C[c][m + 1] < C[d][k + 1]
                 PROVE  S2[c][m] < S2[d][k]
      OBVIOUS
    <3>1. m + 1 \in Index /\ k + 1 \in Index
      BY DEF Index
    <3>2. C[d][k + 1] # 0
      BY <1>6, <3>1
    <3>3. S[c][m] < S[d][k]
      BY <1>1 DEF InTurn
    <3> QED
      BY <1>13, <3>2, <3>3
  <2>2. \A c, d \in Branch : \A m \in Index : C[c][1] # 0 /\ S2[d][m] # 0 => C[c][1] < S2[d][m]
    <3> SUFFICES ASSUME NEW c \in Branch, NEW d \in Branch, NEW m \in Index,
                        C[c][1] # 0, S2[d][m] # 0
                 PROVE  C[c][1] < S2[d][m]
      OBVIOUS
    <3>1. CASE d = b /\ m = n
      <4>1. 1 \in Index
        BY DEF Index
      <4>2. C[c][1] <= L /\ C[c][1] \in Nat
        BY <1>6, <4>1
      <4> QED
        BY <1>3, <1>4, <3>1, <4>2
    <3>2. CASE d # b \/ m # n
      BY <1>1, <1>4, <3>2 DEF InTurn
    <3> QED
      BY <3>1, <3>2
  <2> QED
    BY <1>1, <2>1, <2>2 DEF InTurn
<1>16. Final(C, S2, u)
  <2> SUFFICES ASSUME NEW c \in Branch, NEW d \in Branch, NEW m \in Index, NEW k \in Index,
                      S2[c][m] # 0, u[S2[c][m]].kind = "throw", C[d][k + 1] # 0, S2[c][m] < S2[d][k]
               PROVE  S2[d][k + 1] = 0
    BY DEF Final
  <2>0. k + 1 \in Index
    BY DEF Index
  <2>1. S2[d][k] = S[d][k] /\ S[d][k] <= L /\ S[d][k] \in Nat
    BY <1>6, <1>13
  <2>2. c # b \/ m # n
    BY <1>3, <1>4, <2>1
  <2>3. S2[c][m] = S[c][m]
    BY <1>4, <2>2
  <2>4. S[c][m] # 0 /\ t[S[c][m]].kind = "throw" /\ S[c][m] < S[d][k]
    BY <1>8, <2>1, <2>3
  <2>5. S[d][k + 1] = 0
    BY <1>1, <2>4 DEF Final
  <2>6. d # b \/ k + 1 # n
    BY <2>4
  <2> QED
    BY <1>4, <2>0, <2>5, <2>6
<1>17. Recorded(C, S2, p, u)
  BY <1>1, <1>4, <1>5, <1>9, <1>10, <1>11, <1>12, <1>14, <1>15, <1>16 DEF Recorded
<1> QED
  BY <1>17 DEF S2, u, L

-----------------------------------------------------------------------------
(* The recording *)

CallCount(t) == Cardinality({n \in DOMAIN t : t[n].kind = "call"})

Numbers(t) == \A k \in 1 .. Len(t) : t[k].kind = "call" => t[k].id < CallCount(t)

HasPump(q) == \E i \in 1 .. Len(q) : q[i] = Pump

OnRecord(C, S, p, t, br, q) ==
  /\ Recorded(C, S, p, t) /\ Immediate(C, S, p)
  /\ Underway(C, S, p, t, Len(t) + 1, br, q)
  /\ Numbers(t) /\ ~HasPump(q)

(* The next id is the number of the calls so far.                          *)
LEMMA CallCounted ==
  ASSUME NEW t \in Seq(TraceEvent), NEW e \in TraceEvent
  PROVE  /\ CallCount(t) \in Nat
         /\ CallCount(Append(t, e)) = CallCount(t) + IF e.kind = "call" THEN 1 ELSE 0
<1> DEFINE u == Append(t, e)
           T == {n \in DOMAIN t : t[n].kind = "call"}
           U == {n \in DOMAIN u : u[n].kind = "call"}
<1>1. DOMAIN t = 1 .. Len(t) /\ Len(t) \in Nat
  BY LenProperties
<1>2. u \in Seq(TraceEvent) /\ Len(u) = Len(t) + 1 /\ u[Len(t) + 1] = e /\ \A k \in 1 .. Len(t) : u[k] = t[k]
  BY <1>1
<1>3. DOMAIN u = 1 .. Len(t) + 1
  BY <1>1, <1>2
<1> HIDE DEF u
<1>4. U = IF e.kind = "call" THEN T \cup {Len(t) + 1} ELSE T
  BY <1>1, <1>2, <1>3
<1>5. IsFiniteSet(T)
  <2>1. IsFiniteSet(1 .. Len(t))
    BY <1>1, FS_Interval
  <2>2. T \in SUBSET (1 .. Len(t))
    BY <1>1
  <2> HIDE DEF T
  <2> QED
    BY <2>1, <2>2, FS_Subset
<1>6. Len(t) + 1 \notin T
  BY <1>1
<1> HIDE DEF T, U
<1>7. Cardinality(T) \in Nat
  BY <1>5, FS_CardinalityType
<1>8. Cardinality(T \cup {Len(t) + 1}) = Cardinality(T) + 1
  BY <1>5, <1>6, FS_AddElement
<1>9. Cardinality(U) = Cardinality(T) + IF e.kind = "call" THEN 1 ELSE 0
  BY <1>4, <1>7, <1>8
<1> QED
  BY <1>7, <1>9 DEF CallCount, T, U, u

(* No call has an id that is still to be given.                            *)
LEMMA NumbersKept ==
  ASSUME NEW t \in Seq(TraceEvent), NEW e \in TraceEvent, Numbers(t),
         e.kind = "call" => e.id = CallCount(t)
  PROVE  Numbers(Append(t, e))
<1> DEFINE u == Append(t, e)
<1>1. /\ Len(t) \in Nat /\ Len(u) = Len(t) + 1 /\ u[Len(t) + 1] = e /\ \A k \in 1 .. Len(t) : u[k] = t[k]
      /\ \A k \in 1 .. Len(t) : t[k] \in TraceEvent
  OBVIOUS
<1>2. CallCount(t) \in Nat /\ CallCount(u) = CallCount(t) + IF e.kind = "call" THEN 1 ELSE 0
  BY CallCounted
<1>3. \A k \in 1 .. Len(t) : t[k].id \in Nat
  BY <1>1 DEF TraceEvent
<1> HIDE DEF u
<1>4. ASSUME NEW k \in 1 .. Len(u), u[k].kind = "call"
      PROVE  u[k].id < CallCount(u)
  <2>1. CASE k = Len(t) + 1
    BY <1>1, <1>2, <1>4, <2>1
  <2>2. CASE k # Len(t) + 1
    <3>1. k \in 1 .. Len(t) /\ u[k] = t[k]
      BY <1>1, <2>2
    <3> QED
      BY <1>2, <1>3, <1>4, <3>1 DEF Numbers
  <2> QED
    BY <2>1, <2>2
<1> QED
  BY <1>4 DEF Numbers, u

(* A pump is queued until it is run.                                       *)
LEMMA PumpAppended ==
  ASSUME NEW q \in Seq(Job), NEW j \in Job
  PROVE  HasPump(Append(q, j)) <=> HasPump(q) \/ j = Pump
<1> DEFINE r == Append(q, j)
<1>1. Len(q) \in Nat /\ Len(r) = Len(q) + 1 /\ r[Len(q) + 1] = j /\ \A i \in 1 .. Len(q) : r[i] = q[i]
  OBVIOUS
<1> HIDE DEF r
<1>2. HasPump(r) => HasPump(q) \/ j = Pump
  <2> SUFFICES ASSUME NEW i \in 1 .. Len(r), r[i] = Pump, j # Pump
               PROVE  HasPump(q)
    BY DEF HasPump
  <2> QED
    BY <1>1 DEF HasPump
<1>3. HasPump(q) => HasPump(r)
  <2> SUFFICES ASSUME NEW i \in 1 .. Len(q), q[i] = Pump
               PROVE  HasPump(r)
    BY DEF HasPump
  <2>1. i \in 1 .. Len(r)
    BY <1>1
  <2> QED
    BY <1>1, <2>1 DEF HasPump
<1>4. j = Pump => HasPump(r)
  <2>1. Len(q) + 1 \in 1 .. Len(r)
    BY <1>1
  <2> QED
    BY <1>1, <2>1 DEF HasPump
<1> QED
  BY <1>2, <1>3, <1>4 DEF r

(* Another microtask that is run leaves it queued.                         *)
LEMMA PumpBehind ==
  ASSUME NEW q \in Seq(Job), q # <<>>, q[1] # Pump
  PROVE  HasPump(Tail(q)) <=> HasPump(q)
<1> DEFINE r == Tail(q)
<1>1. Len(q) \in Nat /\ Len(q) > 0 /\ Len(r) = Len(q) - 1 /\ \A i \in 1 .. Len(r) : r[i] = q[i + 1]
  OBVIOUS
<1> HIDE DEF r
<1>2. HasPump(r) => HasPump(q)
  <2> SUFFICES ASSUME NEW i \in 1 .. Len(r), r[i] = Pump
               PROVE  HasPump(q)
    BY DEF HasPump
  <2>1. i + 1 \in 1 .. Len(q) /\ q[i + 1] = Pump
    BY <1>1
  <2> QED
    BY <2>1 DEF HasPump
<1>3. HasPump(q) => HasPump(r)
  <2> SUFFICES ASSUME NEW i \in 1 .. Len(q), q[i] = Pump
               PROVE  HasPump(r)
    BY DEF HasPump
  <2>1. i - 1 \in 1 .. Len(r) /\ q[(i - 1) + 1] = Pump
    BY <1>1
  <2> QED
    BY <1>1, <2>1 DEF HasPump
<1> QED
  BY <1>2, <1>3 DEF r

(* The call of b has not been recorded, nor have any that follow it.        *)
LEMMA NotYetCalled ==
  ASSUME NEW C, NEW S, NEW p, NEW t, NEW br, NEW q,
         Recorded(C, S, p, t), Underway(C, S, p, t, Len(t) + 1, br, q),
         NEW b \in Branch
  PROVE  /\ br \in [Branch -> BranchState] /\ br[b].done \in Nat
         /\ br[b].done + 1 \in Index /\ br[b].done + 2 \in Index
         /\ C[b][br[b].done + 1] = 0 /\ S[b][br[b].done + 1] = 0 /\ C[b][br[b].done + 2] = 0
<1>1. Standing(C, S, p, t, Len(t) + 1, br)
  BY DEF Underway
<1>2. br[b].done \in Nat /\ br[b].done + 1 \in Index /\ br[b].done + 2 \in Index
  <2>1. br[b].done \in Nat
    BY <1>1, BranchTypes
  <2> QED
    BY <2>1 DEF Index
<1>3. ASSUME NEW n \in Index, n > br[b].done
      PROVE  C[b][n] = 0 /\ S[b][n] = 0
  <2>1. ~(n <= br[b].done)
    BY <1>2, <1>3 DEF Index
  <2> QED
    BY <1>1, <2>1, AllPast
<1>4. br[b].done + 1 > br[b].done /\ br[b].done + 2 > br[b].done
  BY <1>2
<1> QED
  BY <1>1, <1>2, <1>3, <1>4 DEF Standing

(* RecordAsync: the call of b is noted.                                    *)
LEMMA RecordingAsync ==
  ASSUME NEW C, NEW S, NEW p \in [Branch -> Seq(Operation)], NEW t, NEW br, NEW q,
         OnRecord(C, S, p, t, br, q), Joined(p),
         NEW b \in Branch, br[b].status = "running", br[b].done < Len(p[b]),
         p[b][br[b].done + 1] \in AsyncOperation
  PROVE  \E C2, S2 \in Places :
           OnRecord(C2, S2, p, Append(t, CallEvent(CallCount(t), p[b][br[b].done + 1])),
                    Awaiting(br, b, CallCount(t)), q)
<1> DEFINE n == br[b].done + 1
           L == Len(t)
           id == CallCount(t)
           e == CallEvent(id, p[b][n])
           u == Append(t, e)
           C2 == [C EXCEPT ![b][n] = L + 1]
<1>1. /\ Recorded(C, S, p, t) /\ Immediate(C, S, p) /\ Underway(C, S, p, t, L + 1, br, q)
      /\ Numbers(t) /\ ~HasPump(q)
  BY DEF OnRecord
<1>2. /\ br \in [Branch -> BranchState] /\ br[b].done \in Nat /\ n \in Index
      /\ C[b][n] = 0 /\ S[b][n] = 0
  BY <1>1, NotYetCalled
<1>3. t \in Seq(TraceEvent) /\ C \in Places /\ S \in Places /\ L \in Nat /\ L + 1 \in Nat
  BY <1>1, RecordedTypes DEF Recorded
<1>4. id \in Nat
  <2>1. \E x : x \in TraceEvent
    <3>1. [kind |-> "return", id |-> 0] \in TraceEvent
      BY DEF TraceEvent
    <3> QED
      BY <3>1
  <2> QED
    BY <1>3, <2>1, CallCounted
<1>5. p[b][n] \in Operation
  <2>1. p[b] \in Seq(Operation) /\ n \in 1 .. Len(p[b])
    BY <1>2
  <2> QED
    BY <2>1
<1>6. e \in TraceEvent /\ e.kind = "call" /\ e.id = id /\ e.operation = p[b][n]
  BY <1>4, <1>5 DEF CallEvent, TraceEvent
<1>7. u \in Seq(TraceEvent) /\ Len(u) = L + 1 /\ u[L + 1] = e /\ \A k \in 1 .. L : u[k] = t[k]
  BY <1>3, <1>6
<1>8. \A k \in 1 .. L : t[k].kind = "call" => t[k].id # id
  <2>1. \A k \in 1 .. L : t[k].id \in Nat
    BY <1>1, RecordedTypes
  <2> QED
    BY <1>1, <1>4, <2>1 DEF Numbers
<1>9. Recorded(C2, S, p, u)
  <2> HIDE DEF e, id, u
  <2>1. \A k \in 1 .. L : t[k].kind = "call" => t[k].id # e.id
    BY <1>6, <1>8
  <2> QED
    BY <1>1, <1>6, <2>1, RecordedCall DEF u
<1>10. /\ C2 \in Places /\ C2[b][n] = L + 1
       /\ \A c \in Branch : \A m \in Index : c # b \/ m # n => C2[c][m] = C[c][m]
  <2> DEFINE k == L + 1
  <2>1. k \in Nat
    BY <1>3
  <2>2. C2 = [C EXCEPT ![b][n] = k]
    OBVIOUS
  <2> HIDE DEF k, C2, n, L
  <2>3. /\ [C EXCEPT ![b][n] = k] \in Places
        /\ [C EXCEPT ![b][n] = k][b][n] = k
        /\ \A c \in Branch : \A m \in Index :
             c # b \/ m # n => [C EXCEPT ![b][n] = k][c][m] = C[c][m]
    <3>1. C \in Places /\ n \in Index
      BY <1>2, <1>3
    <3> QED
      BY <2>1, <3>1, PlaceSet
  <2> QED
    BY <2>2, <2>3 DEF k
<1> HIDE DEF C2, u, e, id, n
<1>11. Immediate(C2, S, p)
  <2> SUFFICES ASSUME NEW c \in Branch, NEW m \in Index, C2[c][m] # 0, p[c][m] \notin AsyncOperation
               PROVE  S[c][m] = C2[c][m] + 1
    BY DEF Immediate
  <2>1. c # b \/ m # n
    BY DEF n
  <2> QED
    BY <1>1, <1>10, <2>1 DEF Immediate
<1>12. Underway(C2, S, p, u, L + 1, br, q)
  <2>1. \A c \in Branch : \A m \in Index :
          /\ C[c][m] \in Nat /\ S[c][m] \in Nat /\ C2[c][m] \in Nat
          /\ C2[c][m] = C[c][m] \/ (C[c][m] = 0 /\ C2[c][m] >= L + 1)
    BY <1>1, <1>2, <1>3, <1>10, RecordedTypes
  <2>2. \A k \in 1 .. (L + 1) - 1 : u[k] = t[k]
    BY <1>3, <1>7
  <2> QED
    BY <1>1, <1>3, <2>1, <2>2, Extending
<1>13. Underway(C2, S, p, u, L + 2, Awaiting(br, b, id), q)
  <2>1. u[L + 1].id = id /\ L + 1 # 0 /\ (L + 1) + 1 = L + 2
    BY <1>3, <1>6, <1>7
  <2>2. C2[b][br[b].done + 1] = L + 1
    BY <1>10 DEF n
  <2>3. Underway(C2, S, p, u, (L + 1) + 1, Awaiting(br, b, u[L + 1].id), q)
    BY <1>3, <1>9, <1>12, <2>1, <2>2, CallingAsync
  <2> QED
    BY <2>1, <2>3
<1>14. Numbers(u)
  BY <1>1, <1>3, <1>6, NumbersKept DEF u, id
<1>15. Len(u) + 1 = L + 2
  BY <1>3, <1>7
<1>16. OnRecord(C2, S, p, u, Awaiting(br, b, id), q)
  BY <1>1, <1>9, <1>11, <1>13, <1>14, <1>15 DEF OnRecord
<1> QED
  BY <1>3, <1>10, <1>16 DEF u, e, id, n

(* RecordSync: the call of b is noted, and its settlement.                 *)
LEMMA RecordingSync ==
  ASSUME NEW C, NEW S, NEW p \in [Branch -> Seq(Operation)], NEW t, NEW br, NEW q,
         OnRecord(C, S, p, t, br, q), Joined(p),
         NEW b \in Branch, br[b].status = "running", br[b].done < Len(p[b]),
         p[b][br[b].done + 1] \notin AsyncOperation, NEW result \in {"return", "throw"}
  PROVE  LET id == CallCount(t)
             br2 == Answered(br, b, result)
         IN  \E C2, S2 \in Places :
               OnRecord(C2, S2, p,
                        t \o <<CallEvent(id, p[b][br[b].done + 1]), Settlement(result, id)>>, br2,
                        IF Over(br2) /\ ~Over(br) THEN Append(q, End) ELSE q)
<1> DEFINE n == br[b].done + 1
           L == Len(t)
           id == CallCount(t)
           e == CallEvent(id, p[b][n])
           u == Append(t, e)
           f == Settlement(result, id)
           v == Append(u, f)
           C2 == [C EXCEPT ![b][n] = L + 1]
           S2 == [S EXCEPT ![b][n] = Len(u) + 1]
           br2 == Answered(br, b, result)
           r == IF Over(br2) /\ ~Over(br) THEN Append(q, End) ELSE q
<1>1. /\ Recorded(C, S, p, t) /\ Immediate(C, S, p) /\ Underway(C, S, p, t, L + 1, br, q)
      /\ Numbers(t) /\ ~HasPump(q)
  BY DEF OnRecord
<1>2. /\ br \in [Branch -> BranchState] /\ br[b].done \in Nat /\ n \in Index /\ n + 1 \in Index
      /\ C[b][n] = 0 /\ S[b][n] = 0 /\ C[b][n + 1] = 0
  BY <1>1, NotYetCalled
<1>3. t \in Seq(TraceEvent) /\ C \in Places /\ S \in Places /\ L \in Nat /\ L + 1 \in Nat
  BY <1>1, RecordedTypes DEF Recorded
<1>5. p[b][n] \in Operation /\ n \in 1 .. Len(p[b])
  <2>1. p[b] \in Seq(Operation) /\ n \in 1 .. Len(p[b])
    BY <1>2
  <2> QED
    BY <2>1
<1>4. id \in Nat
  <2>1. \E x : x \in TraceEvent
    <3>1. [kind |-> "return", id |-> 0] \in TraceEvent
      BY DEF TraceEvent
    <3> QED
      BY <3>1
  <2> QED
    BY <1>3, <2>1, CallCounted
<1>6. e \in TraceEvent /\ e.kind = "call" /\ e.id = id /\ e.operation = p[b][n]
  BY <1>4, <1>5 DEF CallEvent, TraceEvent
<1>7. f \in TraceEvent /\ f.kind = result /\ f.kind # "call" /\ f.id = id
  BY <1>4 DEF Settlement, TraceEvent
<1>8. u \in Seq(TraceEvent) /\ Len(u) = L + 1 /\ u[L + 1] = e /\ \A k \in 1 .. L : u[k] = t[k]
  BY <1>3, <1>6
<1> HIDE DEF e, f, id, r, br2
<1>9. v \in Seq(TraceEvent) /\ Len(v) = L + 2 /\ v[L + 1] = e /\ v[L + 2] = f /\ \A k \in 1 .. L : v[k] = t[k]
  <2> HIDE DEF u
  <2>1. v \in Seq(TraceEvent) /\ Len(v) = Len(u) + 1 /\ v[Len(u) + 1] = f /\ \A k \in 1 .. Len(u) : v[k] = u[k]
    BY <1>7, <1>8
  <2> QED
    BY <1>3, <1>8, <2>1
<1>10. v = t \o <<e, f>>
  BY <1>3, <1>6, <1>7
<1>11. \A k \in 1 .. L : t[k].kind = "call" => t[k].id # e.id
  <2>1. \A k \in 1 .. L : t[k].id \in Nat
    BY <1>1, RecordedTypes
  <2> QED
    BY <1>1, <1>4, <1>6, <2>1 DEF Numbers, id
<1>12. Recorded(C2, S, p, u)
  <2> HIDE DEF u
  <2> QED
    BY <1>1, <1>6, <1>11, RecordedCall DEF u
<1>13. /\ C2 \in Places /\ C2[b][n] = L + 1
       /\ \A c \in Branch : \A m \in Index : c # b \/ m # n => C2[c][m] = C[c][m]
  <2> DEFINE k == L + 1
  <2>1. k \in Nat
    BY <1>3
  <2>2. C2 = [C EXCEPT ![b][n] = k]
    OBVIOUS
  <2> HIDE DEF k, C2, n, L
  <2>3. C \in Places /\ n \in Index
    BY <1>2, <1>3
  <2>4. /\ [C EXCEPT ![b][n] = k] \in Places
        /\ [C EXCEPT ![b][n] = k][b][n] = k
        /\ \A c \in Branch : \A m \in Index :
             c # b \/ m # n => [C EXCEPT ![b][n] = k][c][m] = C[c][m]
    BY <2>1, <2>3, PlaceSet
  <2> QED
    BY <2>2, <2>4 DEF k
<1>14. /\ S2 \in Places /\ S2[b][n] = L + 2
       /\ \A c \in Branch : \A m \in Index : c # b \/ m # n => S2[c][m] = S[c][m]
  <2> DEFINE k == L + 2
  <2>1. k \in Nat
    BY <1>3
  <2>2. S2 = [S EXCEPT ![b][n] = k]
    BY <1>3, <1>8
  <2> HIDE DEF k, S2, n, L
  <2>3. S \in Places /\ n \in Index
    BY <1>2, <1>3
  <2>4. /\ [S EXCEPT ![b][n] = k] \in Places
        /\ [S EXCEPT ![b][n] = k][b][n] = k
        /\ \A c \in Branch : \A m \in Index :
             c # b \/ m # n => [S EXCEPT ![b][n] = k][c][m] = S[c][m]
    BY <2>1, <2>3, PlaceSet
  <2> QED
    BY <2>2, <2>4 DEF k
<1>15. \A c \in Branch : c # b => Len(p[c]) = 0
  BY <1>5, Alone
<1>16. Recorded(C2, S2, p, v)
  <2> HIDE DEF u, C2, n
  <2>1. C2[b][n] # 0 /\ C2[b][n + 1] = 0 /\ S[b][n] = 0 /\ f.id = u[C2[b][n]].id
    <3>1. n + 1 # n
      BY <1>2 DEF Index
    <3> QED
      BY <1>2, <1>3, <1>6, <1>7, <1>8, <1>13, <3>1
  <2>2. ASSUME NEW c \in Branch, NEW m \in Index, NEW k \in Index,
               S[c][m] # 0, u[S[c][m]].kind = "throw", n = k + 1, S[c][m] < S[b][k]
        PROVE  FALSE
    <3>1. Standing(C, S, p, t, L + 1, br)
      BY <1>1 DEF Underway
    <3>2. m <= br[c].done /\ C[c][m] # 0 /\ S[c][m] <= L /\ S[c][m] \in Nat /\ m \in Nat /\ m >= 1
      BY <1>1, <2>2, <3>1, AllPast, RecordedTypes DEF Index
    <3>3. t[S[c][m]].kind = "throw"
      BY <1>3, <1>8, <2>2, <3>2
    <3>4. m <= Len(p[c])
      BY <1>1, <3>2 DEF Recorded, Calls
    <3>5. c = b
      BY <1>15, <3>2, <3>4
    <3>6. k = br[b].done
      BY <1>2, <2>2 DEF n, Index
    <3>7. m # k
      BY <2>2, <3>2, <3>5
    <3>8. m < br[b].done /\ m <= br[b].done
      BY <1>2, <3>2, <3>5, <3>6, <3>7
    <3>9. t[S[b][m]].kind = "return"
      BY <1>1, <1>3, <3>1, <3>8, ConsumedIsPast
    <3> QED
      BY <3>3, <3>5, <3>9
  <2>3. Recorded(C2, [S EXCEPT ![b][n] = Len(u) + 1], p, Append(u, f))
    <3>1. \A c \in Branch : \A m, k \in Index :
            S[c][m] # 0 /\ u[S[c][m]].kind = "throw" /\ n = k + 1 => ~(S[c][m] < S[b][k])
      BY <2>2
    <3> QED
      BY <1>2, <1>7, <1>12, <2>1, <3>1, RecordedSettlement
  <2> QED
    BY <2>3
<1> HIDE DEF C2, S2, u, v, n
<1>17. Immediate(C2, S2, p)
  <2> SUFFICES ASSUME NEW c \in Branch, NEW m \in Index, C2[c][m] # 0, p[c][m] \notin AsyncOperation
               PROVE  S2[c][m] = C2[c][m] + 1
    BY DEF Immediate
  <2>1. CASE c = b /\ m = n
    BY <1>3, <1>13, <1>14, <2>1
  <2>2. CASE c # b \/ m # n
    BY <1>1, <1>13, <1>14, <2>2 DEF Immediate
  <2> QED
    BY <2>1, <2>2
<1>18. Underway(C2, S2, p, v, L + 1, br, q)
  <2>1. \A c \in Branch : \A m \in Index :
          /\ C[c][m] \in Nat /\ S[c][m] \in Nat /\ C2[c][m] \in Nat /\ S2[c][m] \in Nat
          /\ C2[c][m] = C[c][m] \/ (C[c][m] = 0 /\ C2[c][m] >= L + 1)
          /\ S2[c][m] = S[c][m] \/ (S[c][m] = 0 /\ S2[c][m] >= L + 1)
    <3> SUFFICES ASSUME NEW c \in Branch, NEW m \in Index
                 PROVE  /\ C[c][m] \in Nat /\ S[c][m] \in Nat /\ C2[c][m] \in Nat /\ S2[c][m] \in Nat
                        /\ C2[c][m] = C[c][m] \/ (C[c][m] = 0 /\ C2[c][m] >= L + 1)
                        /\ S2[c][m] = S[c][m] \/ (S[c][m] = 0 /\ S2[c][m] >= L + 1)
      OBVIOUS
    <3>1. C[c][m] \in Nat /\ S[c][m] \in Nat
      BY <1>1, RecordedTypes
    <3> QED
      BY <1>2, <1>3, <1>13, <1>14, <3>1
  <2>2. \A k \in 1 .. (L + 1) - 1 : v[k] = t[k]
    BY <1>3, <1>9
  <2> QED
    BY <1>1, <1>3, <2>1, <2>2, Extending
<1>19. Underway(C2, S2, p, v, L + 3, br2, r)
  <2> DEFINE cur == L + 1
  <2>1. cur \in Nat /\ cur # 0 /\ cur + 2 = L + 3 /\ cur + 1 = L + 2
    BY <1>3
  <2>2. C2[b][br[b].done + 1] = cur /\ S2[b][br[b].done + 1] = cur + 1
    BY <1>13, <1>14, <2>1 DEF n
  <2>3. v[cur + 1].kind = result
    BY <1>7, <1>9, <2>1
  <2> HIDE DEF cur
  <2>4. Underway(C2, S2, p, v, cur, br, q)
    BY <1>18 DEF cur
  <2> DEFINE B == Answered(br, b, v[cur + 1].kind)
  <2>5. Underway(C2, S2, p, v, cur + 2, B, IF Over(B) /\ ~Over(br) THEN Append(q, End) ELSE q)
    BY <1>15, <1>16, <2>1, <2>2, <2>4, CallingSync
  <2>6. B = br2
    BY <2>3 DEF br2
  <2> QED
    BY <2>1, <2>5, <2>6 DEF r
<1>20. Numbers(v)
  <2>1. Numbers(u)
    BY <1>1, <1>3, <1>6, NumbersKept DEF u, id
  <2> QED
    BY <1>7, <1>8, <2>1, NumbersKept DEF v
<1>21. ~HasPump(r)
  <2>1. q \in Seq(Job) /\ End \in Job /\ End # Pump
    BY <1>1, JobSorts, JobKinds DEF Underway, Jobs
  <2> QED
    BY <1>1, <2>1, PumpAppended DEF r
<1>22. Len(v) + 1 = L + 3
  BY <1>3, <1>9
<1>23. OnRecord(C2, S2, p, v, br2, r)
  BY <1>16, <1>17, <1>19, <1>20, <1>21, <1>22 DEF OnRecord
<1>24. \E A, B \in Places : OnRecord(A, B, p, t \o <<e, f>>, br2, r)
  BY <1>10, <1>13, <1>14, <1>23
<1> QED
  BY <1>24 DEF e, f, id, n, br2, r

(* Settle: the settlement of what b awaits is noted.                       *)
LEMMA RecordingSettle ==
  ASSUME NEW C, NEW S, NEW p \in [Branch -> Seq(Operation)], NEW t, NEW br, NEW q,
         OnRecord(C, S, p, t, br, q),
         \A c \in Branch : br[c].status \notin {"fresh", "running"}, ~Over(br),
         NEW b \in Branch, br[b].status = "waiting",
         \A i \in 1 .. Len(q) : ~(q[i].kind = "resume" /\ q[i].branch = b),
         NEW result \in {"return", "throw"}
  PROVE  \E C2, S2 \in Places :
           OnRecord(C2, S2, p, Append(t, Settlement(result, br[b].awaits)), br,
                    Append(q, Resume(b, result)))
<1> DEFINE n == br[b].done
           L == Len(t)
           f == Settlement(result, br[b].awaits)
           u == Append(t, f)
           S2 == [S EXCEPT ![b][n] = L + 1]
           j == Resume(b, result)
           r == Append(q, j)
<1>1. /\ Recorded(C, S, p, t) /\ Immediate(C, S, p) /\ Underway(C, S, p, t, L + 1, br, q)
      /\ Numbers(t) /\ ~HasPump(q)
  BY DEF OnRecord
<1>2. Standing(C, S, p, t, L + 1, br) /\ Sequenced(S, p, L + 1, br) /\ Jobs(S, t, L + 1, br, q)
  BY <1>1 DEF Underway
<1>3. t \in Seq(TraceEvent) /\ C \in Places /\ S \in Places /\ L \in Nat /\ L + 1 \in Nat
  BY <1>1, RecordedTypes DEF Recorded
<1>4. n # 0 /\ n \in Index /\ n \in Nat /\ br[b].awaits = t[C[b][n]].id /\ p[b][n] \in AsyncOperation
  <2>1. n # 0 /\ br[b].awaits = t[C[b][n]].id /\ p[b][n] \in AsyncOperation
    BY <1>2 DEF Standing, Now
  <2>2. n \in Index
    BY <1>2, <2>1, BranchTypes
  <2> QED
    BY <2>1, <2>2 DEF Index
<1>5. C[b][n] # 0 /\ C[b][n] \in 1 .. L /\ C[b][n + 1] = 0
  <2>1. n <= br[b].done
    BY <1>4
  <2>2. C[b][n] # 0 /\ C[b][n] <= L /\ C[b][n] \in Nat
    BY <1>1, <1>2, <1>4, <2>1, AllPast, RecordedTypes
  <2> QED
    BY <1>1, <1>3, <2>2, NotYetCalled
<1>6. S[b][n] = 0
  <2>1. ~Due(S, L + 1, br, b)
    BY <1>2 DEF Jobs
  <2>2. ~Past(S[b][n], L + 1)
    BY <2>1 DEF Due, Now
  <2> QED
    BY <1>1, <1>2, <1>4, <2>2, AllPast
<1>7. f \in TraceEvent /\ f.kind = result /\ f.kind # "call" /\ f.id = t[C[b][n]].id
  <2>1. t[C[b][n]].id \in Nat
    BY <1>1, <1>5, RecordedTypes
  <2> QED
    BY <1>4, <2>1 DEF Settlement, TraceEvent
<1>8. u \in Seq(TraceEvent) /\ Len(u) = L + 1 /\ u[L + 1] = f /\ \A k \in 1 .. L : u[k] = t[k]
  BY <1>3, <1>7
<1>9. /\ S2 \in Places /\ S2[b][n] = L + 1
      /\ \A c \in Branch : \A m \in Index : c # b \/ m # n => S2[c][m] = S[c][m]
  <2> DEFINE k == L + 1
  <2>1. k \in Nat
    BY <1>3
  <2>2. S2 = [S EXCEPT ![b][n] = k]
    OBVIOUS
  <2> HIDE DEF k, S2, n, L
  <2>3. S \in Places /\ n \in Index
    BY <1>3, <1>4
  <2>4. /\ [S EXCEPT ![b][n] = k] \in Places
        /\ [S EXCEPT ![b][n] = k][b][n] = k
        /\ \A c \in Branch : \A m \in Index :
             c # b \/ m # n => [S EXCEPT ![b][n] = k][c][m] = S[c][m]
    BY <2>1, <2>3, PlaceSet
  <2> QED
    BY <2>2, <2>4 DEF k
<1> HIDE DEF n, f, j
<1>10. ASSUME NEW c \in Branch, NEW m \in Index, NEW k \in Index,
              S[c][m] # 0, t[S[c][m]].kind = "throw", n = k + 1, S[c][m] < S[b][k]
       PROVE  FALSE
  <2>1. m <= br[c].done /\ Past(S[c][m], L + 1) /\ br[c].done \in Nat /\ m \in Nat /\ m >= 1
    BY <1>1, <1>2, <1>10, AllPast, BranchTypes DEF Index
  <2>2. m = br[c].done
    <3> SUFFICES ASSUME m # br[c].done PROVE FALSE
      OBVIOUS
    <3>1. m < br[c].done
      BY <2>1
    <3>2. t[S[c][m]].kind = "return"
      BY <1>1, <1>2, <1>3, <2>1, <3>1, ConsumedIsPast
    <3> QED
      BY <1>10, <3>2
  <2>3. Now(S, br, c) = S[c][m] /\ br[c].done # 0
    BY <2>1, <2>2 DEF Now
  <2>4. br[c].status # "finished"
    BY <1>2, <1>10, <2>3 DEF Standing
  <2>5. br[c].status # "failed"
    BY DEF Over
  <2>6. br[c].status = "waiting"
    BY <1>2, <2>4, <2>5, BranchTypes
  <2>7. Due(S, L + 1, br, c)
    BY <2>1, <2>3, <2>6 DEF Due
  <2>8. Consumed(br, b, k)
    BY <1>4, <1>10 DEF Consumed, Index, n
  <2>9. S[b][k] < S[c][m]
    BY <1>2, <2>3, <2>7, <2>8 DEF Sequenced
  <2> QED
    BY <1>1, <1>10, <2>9, RecordedTypes
<1>11. Recorded(C, S2, p, u)
  <2>1. \A c \in Branch : \A m, k \in Index :
          S[c][m] # 0 /\ t[S[c][m]].kind = "throw" /\ n = k + 1 => ~(S[c][m] < S[b][k])
    BY <1>10
  <2> QED
    BY <1>1, <1>4, <1>5, <1>6, <1>7, <2>1, RecordedSettlement
<1> HIDE DEF S2, u
<1>12. Immediate(C, S2, p)
  BY <1>1, <1>4, <1>9 DEF Immediate
<1>13. Underway(C, S2, p, u, L + 1, br, q)
  <2>1. \A c \in Branch : \A m \in Index :
          /\ C[c][m] \in Nat /\ S[c][m] \in Nat /\ S2[c][m] \in Nat
          /\ S2[c][m] = S[c][m] \/ (S[c][m] = 0 /\ S2[c][m] >= L + 1)
    <3> SUFFICES ASSUME NEW c \in Branch, NEW m \in Index
                 PROVE  /\ C[c][m] \in Nat /\ S[c][m] \in Nat /\ S2[c][m] \in Nat
                        /\ S2[c][m] = S[c][m] \/ (S[c][m] = 0 /\ S2[c][m] >= L + 1)
      OBVIOUS
    <3>1. C[c][m] \in Nat /\ S[c][m] \in Nat
      BY <1>1, RecordedTypes
    <3> QED
      BY <1>3, <1>6, <1>9, <3>1
  <2>2. \A k \in 1 .. (L + 1) - 1 : u[k] = t[k]
    BY <1>3, <1>8
  <2> QED
    BY <1>1, <1>3, <2>1, <2>2, Extending
<1>14. /\ r \in Seq(Job) /\ Len(r) = Len(q) + 1 /\ Len(q) \in Nat /\ r[Len(q) + 1] = j
       /\ \A i \in 1 .. Len(q) : r[i] = q[i]
       /\ j.kind = "resume" /\ j.branch = b /\ j.result = result /\ j \in Job /\ q \in Seq(Job)
  <2>1. q \in Seq(Job)
    BY <1>2 DEF Jobs
  <2>2. j \in Job /\ j.kind = "resume" /\ j.branch = b /\ j.result = result
    BY JobSorts, JobKinds DEF j, Result
  <2> QED
    BY <2>1, <2>2
<1> HIDE DEF r
<1>15. Underway(C, S2, p, u, L + 2, br, r)
  <2> DEFINE cur == L + 1
             D == 1
  <2>1. cur \in Nat /\ cur # 0 /\ cur + D = L + 2 /\ D \in Nat
    BY <1>3
  <2>2. Now(S2, br, b) = cur /\ u[cur].kind = result
    BY <1>7, <1>8, <1>9 DEF Now, n
  <2> HIDE DEF cur
  <2>3. Underway(C, S2, p, u, cur, br, q)
    BY <1>13 DEF cur
  <2>4. \A i \in 1 .. D :
          /\ r[Len(q) + i].kind = "resume" /\ r[Len(q) + i].branch \in Branch
          /\ r[Len(q) + i].result = u[cur + i - 1].kind
          /\ br[r[Len(q) + i].branch].status = "waiting"
          /\ Now(S2, br, r[Len(q) + i].branch) = cur + i - 1
    BY <1>14, <2>1, <2>2
  <2>5. \A c \in Branch : ~YetToCall(br, c)
    BY DEF YetToCall
  <2> HIDE DEF D
  <2>6. Len(r) = Len(q) + D
    BY <1>14 DEF D
  <2>7. Underway(C, S2, p, u, cur + D, br, r)
    BY <1>11, <1>14, <2>1, <2>3, <2>4, <2>5, <2>6, Delivering, ZenonT(30)
  <2> QED
    BY <2>1, <2>7
<1>16. Numbers(u)
  BY <1>1, <1>3, <1>7, NumbersKept DEF u
<1>17. ~HasPump(r)
  <2>1. j # Pump
    BY <1>14, JobKinds
  <2> QED
    BY <1>1, <1>14, <2>1, PumpAppended DEF r
<1>18. Len(u) + 1 = L + 2
  BY <1>3, <1>8
<1>19. OnRecord(C, S2, p, u, br, r)
  BY <1>11, <1>12, <1>15, <1>16, <1>17, <1>18 DEF OnRecord
<1> QED
  BY <1>3, <1>9, <1>19 DEF u, f, r, j

(* RecordEnds: a recording without an open branch is complete.              *)
LEMMA RecordingEnds ==
  ASSUME NEW C, NEW S, NEW p \in [Branch -> Seq(Operation)], NEW t, NEW br, NEW q,
         OnRecord(C, S, p, t, br, q),
         \A b \in Branch : br[b].status \in {"finished", "failed"}
  PROVE  Complete(C, S, p, t)
<1>1. Recorded(C, S, p, t) /\ Standing(C, S, p, t, Len(t) + 1, br) /\ Len(t) + 1 \in Nat
  BY RecordedTypes DEF OnRecord, Underway
<1> SUFFICES ASSUME NEW b \in Branch
             PROVE  /\ \A n \in Index : C[b][n] # 0 => S[b][n] # 0
                    /\ p[b] # <<>> => C[b][1] # 0
                    /\ \A n \in Index :
                         S[b][n] # 0 /\ t[S[b][n]].kind = "return" /\ n < Len(p[b]) => C[b][n + 1] # 0
  BY DEF Complete
<1>2. br[b].done \in Nat /\ (br[b].done # 0 => br[b].done \in Index)
  BY <1>1, BranchTypes
<1>3. \A n \in Index : C[b][n] # 0 <=> n <= br[b].done
  BY <1>1, AllPast
<1>4. ASSUME NEW n \in Index, C[b][n] # 0
      PROVE  S[b][n] # 0
  <2>1. n <= br[b].done
    BY <1>3, <1>4
  <2>2. Consumed(br, b, n)
    BY <1>2, <2>1 DEF Consumed, Index
  <2> QED
    BY <1>1, <2>1, <2>2, ConsumedIsPast DEF Past
<1>5. ASSUME p[b] # <<>>
      PROVE  C[b][1] # 0
  <2>1. p[b] \in Seq(Operation)
    OBVIOUS
  <2>2. Len(p[b]) # 0 /\ Len(p[b]) \in Nat
    BY <1>5, <2>1
  <2>3. br[b].done # 0
    BY <1>1, <2>2 DEF Standing
  <2>4. 1 <= br[b].done /\ 1 \in Index
    BY <1>2, <2>3 DEF Index
  <2> QED
    BY <1>3, <2>4
<1>6. ASSUME NEW n \in Index, S[b][n] # 0, t[S[b][n]].kind = "return", n < Len(p[b])
      PROVE  C[b][n + 1] # 0
  <2>1. n <= br[b].done /\ n \in Nat /\ n + 1 \in Index
    BY <1>1, <1>6, AllPast DEF Index
  <2>2. n # br[b].done
    <3> SUFFICES ASSUME n = br[b].done PROVE FALSE
      OBVIOUS
    <3>1. n # Len(p[b])
      BY <1>6
    <3> QED
      BY <1>1, <1>6, <3>1 DEF Standing, Now
  <2>3. n + 1 <= br[b].done
    BY <1>2, <2>1, <2>2
  <2> QED
    BY <1>3, <2>1, <2>3
<1> QED
  BY <1>4, <1>5, <1>6

-----------------------------------------------------------------------------
(* The steps of the program keep its place in the recording.                *)

(* The steps that neither record nor replay.                               *)
LEMMA ProgramStep ==
  ASSUME NEW C, NEW S, NEW cur \in Nat,
         Recorded(C, S, Code, trace), Underway(C, S, Code, trace, cur, branch, queue), Run
  PROVE  /\ Underway(C, S, Code, trace, cur, branch', queue')
         /\ HasPump(queue') <=> HasPump(queue)
         /\ UNCHANGED <<stage, program, candidate, trace, cursor, pending, mismatch>>
<1>1. queue \in Seq(Job) /\ Jobs(S, trace, cur, branch, queue)
      /\ Standing(C, S, Code, trace, cur, branch) /\ Sequenced(S, Code, cur, branch)
  BY DEF Underway, Jobs
<1>2. End \in Job /\ End # Pump /\ End.kind = "end" /\ \A b, result : Resume(b, result) # Pump
  BY JobSorts, JobKinds
<1>3. ASSUME Linger
      PROVE  /\ Underway(C, S, Code, trace, cur, branch', queue')
             /\ HasPump(queue') <=> HasPump(queue)
             /\ UNCHANGED <<stage, program, candidate, trace, cursor, pending, mismatch>>
  <2>1. queue # <<>> /\ queue[1] = End /\ queue' = Append(Tail(queue), End)
        /\ UNCHANGED <<stage, program, candidate, trace, branch, cursor, pending, mismatch>>
    BY <1>1, <1>3 DEF Linger, EndIsDue, codeVars
  <2>2. Jobs(S, trace, cur, branch, queue')
    BY <1>1, <1>2, <2>1, Lingering
  <2>3. Tail(queue) \in Seq(Job)
    BY <1>1, <2>1
  <2>4. HasPump(queue') <=> HasPump(queue)
    BY <1>1, <1>2, <2>1, <2>3, PumpAppended, PumpBehind
  <2>5. Underway(C, S, Code, trace, cur, branch, queue')
    BY <1>1, <2>2 DEF Underway
  <2> QED
    BY <2>1, <2>4, <2>5
<1>4. ASSUME NEW b \in Branch, StartBranch(b)
      PROVE  /\ Underway(C, S, Code, trace, cur, branch', queue')
             /\ HasPump(queue') <=> HasPump(queue)
             /\ UNCHANGED <<stage, program, candidate, trace, cursor, pending, mismatch>>
  <2>1. /\ branch[b].status = "fresh"
        /\ \A c \in Branch : branch[c].status # "running"
        /\ \A c \in Branch : c < b => branch[c].status # "fresh"
        /\ branch' = [branch EXCEPT ![b].status = "running"]
        /\ UNCHANGED <<stage, program, candidate, trace, queue, cursor, pending, mismatch>>
    BY <1>4 DEF StartBranch, Idle, codeVars
  <2>2. Underway(C, S, Code, trace, cur, [branch EXCEPT ![b].status = "running"], queue)
    BY <2>1, Starting
  <2> QED
    BY <2>1, <2>2
<1>5. ASSUME NEW b \in Branch, EndBranch(b)
      PROVE  /\ Underway(C, S, Code, trace, cur, branch', queue')
             /\ HasPump(queue') <=> HasPump(queue)
             /\ UNCHANGED <<stage, program, candidate, trace, cursor, pending, mismatch>>
  <2> DEFINE br2 == [branch EXCEPT ![b].status = "finished"]
             q2 == IF Over(br2) /\ ~Over(branch) THEN Append(queue, End) ELSE queue
  <2>1. /\ branch[b].status = "running" /\ branch[b].done = Len(Code[b])
        /\ branch' = br2 /\ queue' = q2
        /\ UNCHANGED <<stage, program, candidate, trace, cursor, pending, mismatch>>
    BY <1>5 DEF EndBranch, AdvanceTo, codeVars
  <2>2. Underway(C, S, Code, trace, cur, br2, q2)
    BY <2>1, Ending
  <2>3. HasPump(q2) <=> HasPump(queue)
    BY <1>1, <1>2, PumpAppended
  <2> HIDE DEF br2, q2
  <2> QED
    BY <2>1, <2>2, <2>3
<1>6. ASSUME NEW b \in Branch, NEW result \in Result, ResumeJob(b, result)
      PROVE  /\ Underway(C, S, Code, trace, cur, branch', queue')
             /\ HasPump(queue') <=> HasPump(queue)
             /\ UNCHANGED <<stage, program, candidate, trace, cursor, pending, mismatch>>
  <2> DEFINE br2 == [branch EXCEPT ![b].status = IF result = "return" THEN "running" ELSE "failed"]
             r == Tail(queue)
             q2 == IF Over(br2) /\ ~Over(branch) THEN Append(r, End) ELSE r
  <2>1. /\ \A c \in Branch : branch[c].status \notin {"fresh", "running"}
        /\ queue # <<>> /\ queue[1] = Resume(b, result)
        /\ UNCHANGED <<stage, program, candidate, trace, cursor, pending, mismatch>>
    BY <1>1, <1>6 DEF ResumeJob, Idle, Started, codeVars
  <2>2. result \in {"return", "throw"} /\ Underway(C, S, Code, trace, cur, br2, q2)
    BY <2>1, Resuming
  <2>3. branch' = br2 /\ queue' = q2
    <3>1. PICK handled \in BOOLEAN :
            /\ handled => result # "throw"
            /\ result = "return" => handled
            /\ AdvanceTo([branch EXCEPT ![b].status = IF handled THEN "running" ELSE "failed"], Tail(queue))
      BY <1>6 DEF ResumeJob
    <3>2. handled <=> result = "return"
      BY <2>2, <3>1
    <3>3. branch' = br2
      BY <3>1, <3>2 DEF AdvanceTo
    <3> QED
      BY <3>1, <3>2, <3>3 DEF AdvanceTo
  <2>4. r \in Seq(Job) /\ (HasPump(r) <=> HasPump(queue))
    BY <1>1, <1>2, <2>1, PumpBehind
  <2> HIDE DEF r, br2
  <2>5. HasPump(q2) <=> HasPump(queue)
    BY <1>2, <2>4, PumpAppended
  <2> HIDE DEF q2
  <2> QED
    BY <2>1, <2>2, <2>3, <2>5
<1> QED
  BY <1>3, <1>4, <1>5, <1>6 DEF Run

-----------------------------------------------------------------------------
(* The replay *)

Awaited(C, S, t, cur, pend) ==
  \A id : id \in pend <=>
    \E b \in Branch : \E n \in Index : Past(C[b][n], cur) /\ S[b][n] >= cur /\ id = t[C[b][n]].id

OnReplay(C, S, p, t, cur, br, q, pend) ==
  /\ Recorded(C, S, p, t) /\ Immediate(C, S, p) /\ Complete(C, S, p, t)
  /\ Underway(C, S, p, t, cur, br, q) /\ cur \in 1 .. Len(t) + 1
  /\ Awaited(C, S, t, cur, pend)
  /\ cur <= Len(t) /\ t[cur].kind # "call" => HasPump(q)

(* A set of numbers has a least one,                                       *)
LEMMA Least ==
  ASSUME NEW T, T \subseteq Nat, T # {}
  PROVE  \E x \in T : \A y \in T : x <= y
<1>1. IsWellFoundedOn(OpToRel(<, Nat), Nat)
  BY NatLessThanWellFounded
<1>2. PICK x \in T : \A y \in T : ~(<<y, x>> \in OpToRel(<, Nat))
  BY <1>1, WFMin
<1>3. \A y \in T : ~(y < x)
  BY <1>2 DEF OpToRel
<1> QED
  BY <1>3

(* A call no call precedes from cur on is the next one of its branch.       *)
CallBy(C, t, cur, br, last) ==
  \E k \in cur .. last : \E c \in Branch :
    /\ t[k].kind = "call" /\ \A j \in cur .. k - 1 : t[j].kind # "call"
    /\ br[c].done \in Nat /\ br[c].done + 1 \in Index /\ C[c][br[c].done + 1] = k
    /\ br[c].status \notin {"finished", "failed"}

(* There is one if there is a call at all.                                  *)
LEMMA FirstCall ==
  ASSUME NEW C, NEW S, NEW p, NEW t, NEW cur \in Nat, NEW br,
         Recorded(C, S, p, t), Standing(C, S, p, t, cur, br), cur # 0,
         NEW last \in cur .. Len(t), t[last].kind = "call"
  PROVE  CallBy(C, t, cur, br, last)
<1> DEFINE T == {k \in cur .. last : t[k].kind = "call"}
<1>0. Len(t) \in Nat
  BY RecordedTypes
<1>1. PICK k \in T : \A j \in T : k <= j
  <2>1. T \subseteq Nat /\ last \in T
    BY <1>0
  <2> HIDE DEF T
  <2> QED
    BY <2>1, Least
<1>2. k \in cur .. last /\ k \in 1 .. Len(t) /\ k \in Nat /\ k # 0 /\ t[k].kind = "call"
  BY <1>0, <1>1
<1>3. ASSUME NEW j \in cur .. k - 1
      PROVE  t[j].kind # "call"
  <2> SUFFICES ASSUME t[j].kind = "call" PROVE FALSE
    OBVIOUS
  <2>1. j \in T
    BY <1>0, <1>2
  <2> HIDE DEF T
  <2>2. k <= j
    BY <1>1, <2>1
  <2> QED
    BY <1>2, <2>2
<1> HIDE DEF T
<1>4. PICK c \in Branch, m \in Index : C[c][m] = k
  BY <1>2 DEF Recorded, Whole
<1>5. br[c].done \in Nat /\ br[c].done + 1 \in Index
  <2>1. br[c].done \in Nat
    BY BranchTypes
  <2> QED
    BY <2>1 DEF Index
<1>6. m \in Nat /\ m >= 1 /\ m > br[c].done
  <2>1. ~Past(C[c][m], cur)
    BY <1>2, <1>4 DEF Past
  <2>2. ~(m <= br[c].done)
    BY <2>1 DEF Standing
  <2> QED
    BY <1>5, <2>2 DEF Index
<1>7. m = br[c].done + 1
  <2> SUFFICES ASSUME m # br[c].done + 1 PROVE FALSE
    OBVIOUS
  <2> DEFINE n == m - 1
  <2>1. n \in Index /\ n + 1 = m /\ ~(n <= br[c].done)
    BY <1>5, <1>6 DEF Index
  <2> HIDE DEF n
  <2>2. S[c][n] # 0 /\ S[c][n] < k
    BY <1>2, <1>4, <2>1 DEF Recorded, Follows
  <2>3. C[c][n] # 0 /\ C[c][n] < S[c][n] /\ t[C[c][n]].kind = "call"
    BY <2>1, <2>2 DEF Recorded, Answers, Calls
  <2>4. ~Past(C[c][n], cur)
    BY <2>1 DEF Standing
  <2>5. C[c][n] \in Nat /\ S[c][n] \in Nat
    BY <2>1, RecordedTypes
  <2>6. C[c][n] \in cur .. k - 1
    BY <1>2, <2>2, <2>3, <2>4, <2>5 DEF Past
  <2> QED
    BY <1>3, <2>3, <2>6
<1>8. br[c].status # "finished"
  <2> SUFFICES ASSUME br[c].status = "finished" PROVE FALSE
    OBVIOUS
  <2>1. br[c].done = Len(p[c])
    BY DEF Standing
  <2>2. m <= Len(p[c])
    BY <1>2, <1>4 DEF Recorded, Calls
  <2> QED
    BY <1>5, <1>7, <2>1, <2>2
<1>9. br[c].status # "failed"
  <2> SUFFICES ASSUME br[c].status = "failed" PROVE FALSE
    OBVIOUS
  <2>1. br[c].done # 0 /\ t[S[c][br[c].done]].kind = "throw"
    BY DEF Standing, Now
  <2>2. br[c].done \in Index
    BY <2>1, BranchTypes
  <2>3. t[S[c][br[c].done]].kind = "return"
    BY <1>2, <1>4, <1>7, <2>2 DEF Recorded, Follows
  <2> QED
    BY <2>1, <2>3
<1> QED
  BY <1>2, <1>3, <1>4, <1>5, <1>7, <1>8, <1>9 DEF CallBy

(* A settlement with no call between cur and itself is one pump can deliver.*)
Unblocked(t, cur, pend) ==
  \A k \in cur .. Len(t) : (\A j \in cur .. k : t[j].kind # "call") => t[k].id \in pend

(* What is settled before the next call is awaited.                        *)
LEMMA SettlesAwaited ==
  ASSUME NEW C, NEW S, NEW p, NEW t, NEW cur \in Nat, NEW br, NEW q, NEW pend,
         OnReplay(C, S, p, t, cur, br, q, pend)
  PROVE  Unblocked(t, cur, pend)
<1> SUFFICES ASSUME NEW k \in cur .. Len(t), \A j \in cur .. k : t[j].kind # "call"
             PROVE  t[k].id \in pend
  BY DEF Unblocked
<1>1. Recorded(C, S, p, t) /\ cur # 0 /\ Awaited(C, S, t, cur, pend)
  BY DEF OnReplay
<1>2. Len(t) \in Nat
  BY <1>1, RecordedTypes
<1>3. k \in 1 .. Len(t) /\ k \in cur .. k /\ k # 0 /\ k \in Nat
  BY <1>1, <1>2
<1>4. PICK c \in Branch, m \in Index : S[c][m] = k
  BY <1>1, <1>3 DEF Recorded, Whole
<1>5. C[c][m] # 0 /\ C[c][m] < k /\ C[c][m] \in Nat /\ t[C[c][m]].kind = "call" /\ t[k].id = t[C[c][m]].id
  BY <1>1, <1>3, <1>4, RecordedTypes DEF Recorded, Answers, Calls
<1>6. C[c][m] < cur
  <2> SUFFICES ASSUME ~(C[c][m] < cur) PROVE FALSE
    OBVIOUS
  <2>1. C[c][m] \in cur .. k
    BY <1>3, <1>5
  <2> QED
    BY <1>5, <2>1
<1>7. Past(C[c][m], cur) /\ S[c][m] >= cur
  BY <1>3, <1>4, <1>5, <1>6 DEF Past
<1> QED
  BY <1>1, <1>5, <1>7 DEF Awaited

(* The call of b lies behind settlements that can be delivered, and behind  *)
(* nothing else.                                                           *)
CallAhead(C, t, cur, br, pend, b) ==
  /\ br[b].done \in Nat /\ br[b].done + 1 \in Index
  /\ C[b][br[b].done + 1] \in cur .. Len(t) /\ t[C[b][br[b].done + 1]].kind = "call"
  /\ \A j \in cur .. C[b][br[b].done + 1] - 1 : t[j].kind # "call" /\ t[j].id \in pend
  /\ C[b][br[b].done + 1] # cur => \A c \in Branch : ~YetToCall(br, c)

(* There a branch that runs and goes on has its call.                       *)
LEMMA NextInLine ==
  ASSUME NEW C, NEW S, NEW p \in [Branch -> Seq(Operation)], NEW t, NEW cur \in Nat, NEW br, NEW q, NEW pend,
         OnReplay(C, S, p, t, cur, br, q, pend), Joined(p),
         NEW b \in Branch, br[b].status = "running", br[b].done < Len(p[b])
  PROVE  CallAhead(C, t, cur, br, pend, b)
<1> DEFINE n == br[b].done + 1
           it == C[b][n]
<1>1. /\ Recorded(C, S, p, t) /\ Immediate(C, S, p) /\ Complete(C, S, p, t)
      /\ Standing(C, S, p, t, cur, br) /\ Sequenced(S, p, cur, br) /\ cur # 0
  BY DEF OnReplay, Underway
<1>2. br[b].done \in Nat /\ n \in Index
  <2>1. br[b].done \in Nat
    BY <1>1, BranchTypes
  <2> QED
    BY <2>1 DEF Index
<1>3. br[b].done # 0 =>
        /\ br[b].done \in Index /\ Past(S[b][br[b].done], cur) /\ Now(S, br, b) = S[b][br[b].done]
        /\ t[S[b][br[b].done]].kind = "return"
  <2>1. br[b].done # 0 => br[b].done \in Index
    BY <1>1, BranchTypes
  <2> QED
    BY <1>1, <2>1 DEF Standing, Now
<1>4. it # 0
  <2>1. CASE br[b].done = 0
    <3>1. p[b] \in Seq(Operation)
      OBVIOUS
    <3>2. p[b] # <<>>
      BY <2>1, <3>1
    <3> QED
      BY <1>1, <2>1, <3>2 DEF Complete
  <2>2. CASE br[b].done # 0
    BY <1>1, <1>3, <2>2 DEF Complete, Past
  <2> QED
    BY <2>1, <2>2
<1>5. it \in cur .. Len(t) /\ t[it].kind = "call"
  <2>1. ~(n <= br[b].done)
    BY <1>2
  <2>2. ~Past(it, cur)
    BY <1>1, <1>2, <2>1 DEF Standing
  <2>3. it \in Nat /\ it <= Len(t) /\ t[it].kind = "call" /\ Len(t) \in Nat
    BY <1>1, <1>2, <1>4, RecordedTypes DEF Recorded, Calls
  <2> QED
    BY <1>4, <2>2, <2>3 DEF Past
<1> HIDE DEF it
<1>6. PICK k \in cur .. it, c \in Branch :
           /\ t[k].kind = "call" /\ \A j \in cur .. k - 1 : t[j].kind # "call"
           /\ br[c].done \in Nat /\ br[c].done + 1 \in Index /\ C[c][br[c].done + 1] = k
           /\ br[c].status \notin {"finished", "failed"}
  <2>1. CallBy(C, t, cur, br, it)
    BY <1>1, <1>5, FirstCall
  <2> QED
    BY <2>1 DEF CallBy
<1>7. Len(t) \in Nat /\ it \in Nat /\ k \in Nat /\ k # 0
  BY <1>1, <1>5, RecordedTypes
<1>8. k = it
  <2> SUFFICES ASSUME k # it PROVE FALSE
    OBVIOUS
  <2>1. k < it /\ c # b
    BY <1>6, <1>7 DEF it
  <2>2. br[c].status # "running"
    BY <1>1, <2>1 DEF Sequenced
  <2>3. /\ br[c].done # 0 => br[c].done \in Index
        /\ br[c].status \in {"fresh", "waiting"}
    BY <1>1, <1>6, <2>2, BranchTypes
  <2>4. CASE br[b].done # 0 /\ br[c].done # 0
    <3>1. S[c][br[c].done] < S[b][br[b].done]
      BY <1>1, <1>3, <1>6, <1>7, <2>1, <2>3, <2>4 DEF Recorded, InTurn, it
    <3>2. br[c].status = "waiting"
      BY <1>1, <2>3, <2>4 DEF Standing
    <3>3. S[c][br[c].done] # 0
      BY <1>1, <1>6, <1>7, <2>3, <2>4 DEF Recorded, Follows
    <3>4. S[c][br[c].done] \in Nat /\ S[b][br[b].done] \in Nat
      BY <1>1, <1>3, <2>3, <2>4, RecordedTypes
    <3>5. Due(S, cur, br, c) /\ Now(S, br, c) = S[c][br[c].done]
      BY <1>3, <2>4, <3>1, <3>2, <3>3, <3>4 DEF Due, Now, Past
    <3>6. Consumed(br, b, br[b].done)
      BY DEF Consumed
    <3>7. S[b][br[b].done] < S[c][br[c].done]
      BY <1>1, <1>3, <2>4, <3>5, <3>6 DEF Sequenced
    <3> QED
      BY <3>1, <3>4, <3>7
  <2>5. CASE br[b].done = 0 /\ br[c].done # 0
    <3>1. S[c][br[c].done] # 0 /\ S[c][br[c].done] < k
      BY <1>1, <1>6, <1>7, <2>3, <2>5 DEF Recorded, Follows
    <3>2. it = C[b][1]
      BY <2>5 DEF it
    <3>3. C[b][1] < S[c][br[c].done]
      BY <1>1, <1>4, <2>3, <2>5, <3>1, <3>2 DEF Recorded, InTurn, it
    <3>4. S[c][br[c].done] \in Nat
      BY <1>1, <2>3, <2>5, RecordedTypes
    <3> QED
      BY <1>7, <2>1, <3>1, <3>2, <3>3, <3>4
  <2>6. CASE br[b].done # 0 /\ br[c].done = 0
    <3>1. C[c][1] = k
      BY <1>6, <2>6
    <3>2. C[c][1] < S[b][br[b].done]
      BY <1>1, <1>3, <1>7, <2>6, <3>1 DEF Recorded, InTurn, Past
    <3>3. S[b][br[b].done] \in Nat
      BY <1>1, <1>3, <2>6, RecordedTypes
    <3> QED
      BY <1>3, <1>6, <1>7, <2>6, <3>1, <3>2, <3>3 DEF Past
  <2>7. CASE br[b].done = 0 /\ br[c].done = 0
    <3>1. C[c][1] = k /\ C[b][1] = it
      BY <1>6, <2>7 DEF it
    <3>2. c < b
      BY <1>1, <1>7, <2>1, <3>1 DEF Recorded, InTurn
    <3>3. br[c].status = "fresh"
      BY <1>1, <2>3, <2>7 DEF Standing
    <3> QED
      BY <1>1, <3>2, <3>3 DEF Sequenced, YetToCall
  <2> QED
    BY <2>4, <2>5, <2>6, <2>7
<1>9. ASSUME NEW j \in cur .. it - 1
      PROVE  t[j].kind # "call" /\ t[j].id \in pend
  <2>1. j \in cur .. Len(t)
    BY <1>5, <1>7
  <2>2. \A i \in cur .. j : t[i].kind # "call"
    BY <1>6, <1>7, <1>8
  <2>3. j \in cur .. j
    BY <1>7
  <2>4. t[j].id \in pend
    <3>1. Unblocked(t, cur, pend)
      BY SettlesAwaited
    <3> QED
      BY <2>1, <2>2, <3>1 DEF Unblocked
  <2> QED
    BY <2>2, <2>3, <2>4
<1>10. ASSUME it # cur, NEW d \in Branch, YetToCall(br, d)
       PROVE  FALSE
  <2>1. cur \in 1 .. Len(t) /\ t[cur].kind # "call" /\ cur <= it - 1
    BY <1>1, <1>5, <1>6, <1>7, <1>8, <1>10
  <2>2. PICK e \in Branch, m \in Index : S[e][m] = cur
    BY <1>1, <2>1 DEF Recorded, Whole
  <2>3. C[e][m] # 0 /\ m <= Len(p[e])
    BY <1>1, <2>2 DEF Recorded, Answers, Calls
  <2>4. br[b].done # 0
    <3> SUFFICES ASSUME br[b].done = 0 PROVE FALSE
      OBVIOUS
    <3>1. it = C[b][1]
      BY DEF it
    <3>2. C[b][1] < S[e][m]
      BY <1>1, <1>4, <2>2, <3>1 DEF Recorded, InTurn, it
    <3> QED
      BY <1>5, <2>2, <3>1, <3>2
  <2>5. d # b /\ br[d].status = "fresh"
    BY <1>1, <1>10, <2>4 DEF YetToCall, Sequenced
  <2>6. p[b][br[b].done] \notin AsyncOperation
    BY <1>1, <2>4, <2>5 DEF Sequenced, Now
  <2>7. br[b].done \in 1 .. Len(p[b])
    <3>1. p[b] \in Seq(Operation)
      OBVIOUS
    <3> QED
      BY <1>2, <2>4, <3>1
  <2>8. e = b
    <3> SUFFICES ASSUME e # b PROVE FALSE
      OBVIOUS
    <3>1. Len(p[e]) = 0
      BY <2>6, <2>7, Alone
    <3> QED
      BY <2>3, <3>1 DEF Index
  <2>9. m <= br[b].done
    <3>1. C[b][m] < cur /\ C[b][m] # 0
      BY <1>1, <2>2, <2>3, <2>8 DEF Recorded, Answers
    <3> QED
      BY <1>1, <3>1 DEF Standing, Past
  <2>10. Past(S[b][m], cur)
    <3>1. Consumed(br, b, m)
      BY <1>2, <2>9 DEF Consumed, Index
    <3> QED
      BY <1>1, <2>9, <3>1, ConsumedIsPast
  <2> QED
    BY <2>2, <2>8, <2>10 DEF Past
<1>11. /\ n \in Index /\ it \in cur .. Len(t) /\ t[it].kind = "call"
       /\ \A j \in cur .. it - 1 : t[j].kind # "call" /\ t[j].id \in pend
       /\ it # cur => \A a \in Branch : ~YetToCall(br, a)
  BY <1>2, <1>5, <1>9, <1>10 DEF it
<1> QED
  BY <1>2, <1>11 DEF CallAhead, it

(* Between the jobs, what comes next is called by a branch that is due, and *)
(* the invocation is not decided.                                          *)
LEMMA CallDue ==
  ASSUME NEW C, NEW S, NEW p, NEW t, NEW cur \in Nat, NEW br, NEW q, NEW pend,
         OnReplay(C, S, p, t, cur, br, q, pend),
         \A c \in Branch : br[c].status \notin {"fresh", "running"},
         cur <= Len(t), t[cur].kind = "call"
  PROVE  ~Over(br) /\ \E c \in Branch : Due(S, cur, br, c)
<1>1. /\ Recorded(C, S, p, t) /\ Complete(C, S, p, t)
      /\ Standing(C, S, p, t, cur, br) /\ Sequenced(S, p, cur, br) /\ cur # 0
  BY DEF OnReplay, Underway
<1>2. Len(t) \in Nat
  BY <1>1, RecordedTypes
<1>3. cur \in cur .. Len(t)
  BY <1>2
<1>4. PICK k \in cur .. cur, c \in Branch :
           /\ br[c].done \in Nat /\ br[c].done + 1 \in Index /\ C[c][br[c].done + 1] = k
           /\ br[c].status \notin {"finished", "failed"}
  <2>1. CallBy(C, t, cur, br, cur)
    BY <1>1, <1>3, FirstCall
  <2> QED
    BY <2>1 DEF CallBy
<1>5. C[c][br[c].done + 1] = cur /\ br[c].status = "waiting"
  <2>1. br[c].status \in {"fresh", "running", "waiting", "finished", "failed"}
    BY <1>1, BranchTypes
  <2> QED
    BY <1>4, <2>1
<1>6. br[c].done \in Index
  <2>1. br[c].done # 0
    BY <1>1, <1>5 DEF Standing
  <2> QED
    BY <1>4, <2>1 DEF Index
<1>7. S[c][br[c].done] # 0 /\ S[c][br[c].done] < cur
  BY <1>1, <1>5, <1>6 DEF Recorded, Follows
<1>8. Due(S, cur, br, c) /\ Now(S, br, c) = S[c][br[c].done]
  BY <1>5, <1>7 DEF Due, Now, Past
<1>9. ~Over(br)
  <2> SUFFICES ASSUME Over(br) PROVE FALSE
    OBVIOUS
  <2>1. PICK f \in Branch : br[f].status = "failed"
    BY <1>4 DEF Over
  <2>2. br[f].done # 0 /\ Past(S[f][br[f].done], cur) /\ t[S[f][br[f].done]].kind = "throw"
    BY <1>1, <2>1 DEF Standing, Now
  <2>3. br[f].done \in Index
    BY <1>1, <2>2, BranchTypes
  <2>4. Consumed(br, f, br[f].done)
    BY <2>1 DEF Consumed
  <2>5. S[f][br[f].done] < S[c][br[c].done]
    BY <1>1, <1>8, <2>3, <2>4 DEF Sequenced
  <2>6. S[c][br[c].done + 1] = 0
    BY <1>1, <1>5, <1>6, <2>2, <2>3, <2>5 DEF Recorded, Final, Past
  <2>7. S[c][br[c].done + 1] # 0
    BY <1>1, <1>4, <1>5 DEF Complete
  <2> QED
    BY <2>6, <2>7
<1> QED
  BY <1>8, <1>9

(* Once the invocation is decided, no branch calls again: in a complete     *)
(* recording none did.                                                     *)
LEMMA NothingAfter ==
  ASSUME NEW C, NEW S, NEW p \in [Branch -> Seq(Operation)], NEW t, NEW cur \in Nat, NEW br, NEW q, NEW pend,
         OnReplay(C, S, p, t, cur, br, q, pend), Joined(p), Over(br),
         NEW b \in Branch, br[b].status = "running", br[b].done < Len(p[b])
  PROVE  FALSE
<1>1. /\ Recorded(C, S, p, t) /\ Complete(C, S, p, t)
      /\ Standing(C, S, p, t, cur, br) /\ Sequenced(S, p, cur, br) /\ cur # 0
  BY DEF OnReplay, Underway
<1>2. PICK f \in Branch : br[f].status = "failed" /\ f # b
  BY DEF Over
<1>3. br[f].done # 0 /\ Past(S[f][br[f].done], cur) /\ t[S[f][br[f].done]].kind = "throw"
  BY <1>1, <1>2 DEF Standing, Now
<1>4. br[f].done \in Index /\ br[b].done \in Nat
  BY <1>1, <1>3, BranchTypes
<1>5. Consumed(br, f, br[f].done)
  BY <1>2 DEF Consumed
<1>6. CASE br[b].done = 0
  <2>1. p[f][br[f].done] \notin AsyncOperation
    BY <1>1, <1>3, <1>4, <1>6 DEF Sequenced, YetToCall
  <2>2. C[f][br[f].done] # 0
    BY <1>1, <1>3, <1>4 DEF Recorded, Answers, Past
  <2>3. br[f].done \in 1 .. Len(p[f])
    <3>1. p[f] \in Seq(Operation)
      OBVIOUS
    <3>2. br[f].done <= Len(p[f])
      BY <1>1, <1>4, <2>2 DEF Recorded, Calls
    <3> QED
      BY <1>4, <3>1, <3>2 DEF Index
  <2>4. Len(p[b]) = 0
    BY <1>2, <2>1, <2>3, Alone
  <2> QED
    BY <1>6, <2>4
<1>7. CASE br[b].done # 0
  <2>1. br[b].done \in Index /\ br[b].done + 1 \in Index
    BY <1>4, <1>7 DEF Index
  <2>2. Past(S[b][br[b].done], cur) /\ t[S[b][br[b].done]].kind = "return" /\ Now(S, br, b) = S[b][br[b].done]
    BY <1>1, <1>7 DEF Standing, Now
  <2>3. S[f][br[f].done] <= S[b][br[b].done]
    BY <1>1, <1>4, <1>5, <1>7, <2>2 DEF Sequenced
  <2>4. S[f][br[f].done] # S[b][br[b].done]
    BY <1>3, <2>2
  <2>5. S[f][br[f].done] \in Nat /\ S[b][br[b].done] \in Nat
    BY <1>1, <1>4, <2>1, RecordedTypes
  <2>6. S[f][br[f].done] < S[b][br[b].done]
    BY <2>3, <2>4, <2>5
  <2>7. C[b][br[b].done + 1] # 0
    BY <1>1, <2>1, <2>2 DEF Complete, Past
  <2>8. S[b][br[b].done + 1] # 0
    BY <1>1, <2>1, <2>7 DEF Complete
  <2>9. S[b][br[b].done + 1] = 0
    BY <1>1, <1>3, <1>4, <2>1, <2>6, <2>7 DEF Recorded, Final, Past
  <2> QED
    BY <2>8, <2>9
<1> QED
  BY <1>6, <1>7

(* ReplayEnds: when the end is due the whole trace has been consumed.       *)
LEMMA NothingMissing ==
  ASSUME NEW C, NEW S, NEW p, NEW t, NEW cur \in Nat, NEW br, NEW q, NEW pend,
         OnReplay(C, S, p, t, cur, br, q, pend),
         \A c \in Branch : br[c].status \notin {"fresh", "running"},
         q # <<>>, q[1] = End
  PROVE  cur = Len(t) + 1 /\ pend = {}
<1>1. /\ Recorded(C, S, p, t) /\ Complete(C, S, p, t) /\ Jobs(S, t, cur, br, q)
      /\ Awaited(C, S, t, cur, pend) /\ cur \in 1 .. Len(t) + 1
      /\ cur <= Len(t) /\ t[cur].kind # "call" => HasPump(q)
  BY DEF OnReplay, Underway
<1>2. Len(t) \in Nat
  BY <1>1, RecordedTypes
<1>3. q \in Seq(Job) /\ Len(q) \in Nat /\ 1 \in 1 .. Len(q) /\ q[1].kind = "end" /\ q[1] # Pump
  BY <1>1, JobKinds DEF Jobs
<1>4. Over(br)
  BY <1>1, <1>3 DEF Jobs
<1>5. ~HasPump(q)
  <2> SUFFICES ASSUME NEW i \in 1 .. Len(q), q[i] = Pump
               PROVE  FALSE
    BY DEF HasPump
  <2>1. 1 < i
    BY <1>3
  <2>2. q[i].kind # "pump"
    BY <1>1, <1>3, <2>1 DEF Jobs
  <2> QED
    BY <2>2, JobKinds
<1>6. cur = Len(t) + 1
  <2> SUFFICES ASSUME cur <= Len(t) PROVE FALSE
    BY <1>1, <1>2
  <2>1. t[cur].kind = "call"
    BY <1>1, <1>5
  <2> QED
    BY <1>4, <2>1, CallDue
<1>7. ASSUME NEW id, id \in pend
      PROVE  FALSE
  <2>1. PICK b \in Branch, n \in Index : S[b][n] >= cur
    BY <1>1, <1>7 DEF Awaited
  <2>2. S[b][n] \in Nat /\ S[b][n] # 0
    BY <1>1, <1>6, <1>2, <2>1, RecordedTypes
  <2>3. S[b][n] <= Len(t)
    BY <1>1, <2>2 DEF Recorded, Answers
  <2> QED
    BY <1>2, <1>6, <2>1, <2>2, <2>3
<1> QED
  BY <1>6, <1>7

(* Stall: the replay of a complete recording never waits for nothing.       *)
LEMMA NeverStalls ==
  ASSUME NEW C, NEW S, NEW p, NEW t, NEW cur \in Nat, NEW br, NEW q, NEW pend,
         OnReplay(C, S, p, t, cur, br, q, pend),
         \A c \in Branch : br[c].status \notin {"fresh", "running"},
         q = <<>>, ~Over(br)
  PROVE  FALSE
<1>1. /\ Recorded(C, S, p, t) /\ Complete(C, S, p, t) /\ Jobs(S, t, cur, br, q)
      /\ Standing(C, S, p, t, cur, br) /\ cur \in 1 .. Len(t) + 1
      /\ cur <= Len(t) /\ t[cur].kind # "call" => HasPump(q)
  BY DEF OnReplay, Underway
<1>2. Len(t) \in Nat
  BY <1>1, RecordedTypes
<1>3. ~HasPump(q) /\ \A c \in Branch : ~Due(S, cur, br, c)
  BY <1>1 DEF Jobs, HasPump
<1>4. cur = Len(t) + 1
  <2> SUFFICES ASSUME cur <= Len(t) PROVE FALSE
    BY <1>1, <1>2
  <2>1. t[cur].kind = "call"
    BY <1>1, <1>3
  <2> QED
    BY <1>3, <2>1, CallDue
<1>5. PICK b \in Branch : br[b].status \notin {"finished", "failed"}
  BY DEF Over
<1>6. br[b].status = "waiting"
  BY <1>1, <1>5, BranchTypes
<1>7. br[b].done # 0
  BY <1>1, <1>6 DEF Standing
<1>8. br[b].done \in Index /\ br[b].done <= br[b].done
  BY <1>1, <1>7, BranchTypes DEF Index
<1>9. C[b][br[b].done] # 0
  BY <1>1, <1>8 DEF Standing, Past
<1>10. S[b][br[b].done] # 0
  BY <1>1, <1>8, <1>9 DEF Complete
<1>11. S[b][br[b].done] <= Len(t) /\ S[b][br[b].done] \in Nat
  BY <1>1, <1>8, <1>10, RecordedTypes DEF Recorded, Answers
<1>12. Due(S, cur, br, b)
  BY <1>2, <1>4, <1>6, <1>10, <1>11 DEF Due, Now, Past
<1> QED
  BY <1>3, <1>12

(* and a greatest one if it is bounded.                                    *)
LEMMA Greatest ==
  ASSUME NEW T, T \subseteq Nat, T # {}, NEW K \in Nat, \A x \in T : x <= K
  PROVE  \E x \in T : \A y \in T : y <= x
<1> DEFINE U == {K - x : x \in T}
<1>1. U \subseteq Nat /\ U # {}
  <2>1. ASSUME NEW x \in T
        PROVE  K - x \in Nat /\ K - x \in U
    <3>1. x \in Nat /\ x <= K
      OBVIOUS
    <3> QED
      BY <3>1
  <2>2. PICK x \in T : TRUE
    OBVIOUS
  <2> QED
    BY <2>1, <2>2
<1>2. PICK u \in U : \A v \in U : u <= v
  <2> HIDE DEF U
  <2> QED
    BY <1>1, Least
<1>3. PICK x \in T : u = K - x
  OBVIOUS
<1>4. ASSUME NEW y \in T
      PROVE  y <= x
  <2>1. K - y \in U
    OBVIOUS
  <2>2. K - x <= K - y
    BY <1>2, <1>3, <2>1
  <2>3. x \in Nat /\ y \in Nat
    OBVIOUS
  <2> QED
    BY <2>2, <2>3
<1> QED
  BY <1>4

(* What pump delivers: all the settlements from the cursor on that it may.  *)
LEMMA DeliverableRun ==
  ASSUME ~mismatch, Len(trace) \in Nat, cursor \in 1 .. Len(trace) + 1
  PROVE  /\ Deliverable \in Nat /\ cursor + Deliverable <= Len(trace) + 1
         /\ \A k \in cursor .. cursor + Deliverable - 1 : trace[k].kind # "call" /\ trace[k].id \in pending
         /\ cursor + Deliverable <= Len(trace) =>
              ~(trace[cursor + Deliverable].kind # "call" /\ trace[cursor + Deliverable].id \in pending)
<1> DEFINE K == Len(trace) - cursor + 1
           Settles(m) == trace[cursor + m].kind # "call" /\ trace[cursor + m].id \in pending
           runs == {n \in 0 .. K : \A m \in 0 .. n - 1 : Settles(m)}
           D == CHOOSE n \in runs : \A m \in runs : m <= n
<1>1. Deliverable = D
  BY DEF Deliverable
<1>2. K \in Nat /\ cursor \in Nat
  OBVIOUS
<1>3. \E n \in runs : \A m \in runs : m <= n
  <2>1. runs \subseteq Nat /\ (\A n \in runs : n <= K)
    BY <1>2
  <2>2. 0 \in runs
    BY <1>2
  <2> HIDE DEF runs, K
  <2> QED
    BY <1>2, <2>1, <2>2, Greatest
<1>4. D \in runs /\ \A m \in runs : m <= D
  BY <1>3
<1> HIDE DEF D
<1>5. D \in 0 .. K /\ \A m \in 0 .. D - 1 : Settles(m)
  BY <1>4
<1>6. ASSUME D < K, Settles(D)
      PROVE  FALSE
  <2>1. D + 1 \in 0 .. K
    BY <1>2, <1>5, <1>6
  <2>2. \A m \in 0 .. (D + 1) - 1 : m \in 0 .. D - 1 \/ m = D
    BY <1>2, <1>5
  <2> HIDE DEF Settles
  <2>3. D + 1 \in runs
    BY <1>5, <1>6, <2>1, <2>2
  <2>4. D + 1 <= D
    BY <1>4, <2>3
  <2> QED
    BY <1>2, <1>5, <2>4
<1>7. ASSUME NEW k \in cursor .. cursor + D - 1
      PROVE  trace[k].kind # "call" /\ trace[k].id \in pending
  <2> DEFINE m == k - cursor
  <2>1. m \in 0 .. D - 1 /\ cursor + m = k
    BY <1>2, <1>5
  <2>2. Settles(m)
    BY <1>5, <2>1
  <2> QED
    BY <2>1, <2>2
<1>8. D \in Nat /\ cursor + D <= Len(trace) + 1 /\ (cursor + D <= Len(trace) => D < K)
  BY <1>2, <1>5
<1> QED
  BY <1>1, <1>6, <1>7, <1>8

WaiterIn(br, id) == CHOOSE b \in Branch : br[b].status = "waiting" /\ br[b].awaits = id

(* An effect that is pending is awaited by one branch.                      *)
LEMMA Awaiter ==
  ASSUME NEW C, NEW S, NEW p, NEW t, NEW cur \in Nat, NEW br, NEW pend,
         Recorded(C, S, p, t), Standing(C, S, p, t, cur, br), Awaited(C, S, t, cur, pend),
         NEW id \in pend
  PROVE  \E b \in Branch :
           /\ WaiterIn(br, id) = b /\ br[b].status = "waiting" /\ br[b].done \in Index
           /\ C[b][br[b].done] # 0 /\ t[C[b][br[b].done]].id = id /\ S[b][br[b].done] >= cur
<1>1. PICK b \in Branch, n \in Index : Past(C[b][n], cur) /\ S[b][n] >= cur /\ id = t[C[b][n]].id
  BY DEF Awaited
<1>2. n <= br[b].done /\ S[b][n] \in Nat
  BY <1>1, RecordedTypes DEF Standing
<1>3. ~Consumed(br, b, n)
  <2>1. Consumed(br, b, n) => Past(S[b][n], cur)
    BY <1>2, ConsumedIsPast
  <2> QED
    BY <1>1, <1>2, <2>1 DEF Past
<1>4. br[b].done \in Nat /\ n \in Nat
  BY BranchTypes DEF Index
<1>5. n = br[b].done /\ br[b].status = "waiting"
  BY <1>2, <1>3, <1>4 DEF Consumed
<1>6. br[b].awaits = id
  BY <1>1, <1>5 DEF Standing, Now
<1>7. ASSUME NEW c \in Branch, br[c].status = "waiting", br[c].awaits = id
      PROVE  c = b
  <2>1. br[c].done # 0 /\ t[C[c][br[c].done]].id = id
    BY <1>7 DEF Standing, Now
  <2>2. br[c].done \in Index /\ br[c].done <= br[c].done
    BY <2>1, BranchTypes DEF Index
  <2>3. C[c][br[c].done] # 0
    BY <2>2 DEF Standing, Past
  <2> QED
    BY <1>1, <1>5, <2>1, <2>2, <2>3 DEF Recorded, Numbered, Past
<1>8. WaiterIn(br, id) = b
  BY <1>5, <1>6, <1>7 DEF WaiterIn
<1> QED
  BY <1>1, <1>5, <1>8 DEF Past

DeliveriesIn(t, cur, br, D) ==
  [n \in 1 .. D |-> LET event == t[cur + n - 1] IN Resume(WaiterIn(br, event.id), event.kind)]

DeliveredIn(t, cur, D) == {t[m].id : m \in cur .. cur + D - 1}

(* What pump does.                                                         *)
LEMMA Delivery ==
  ASSUME NEW C, NEW S, NEW p, NEW t, NEW cur \in Nat, NEW br, NEW q, NEW pend,
         Recorded(C, S, p, t), Underway(C, S, p, t, cur, br, q), Awaited(C, S, t, cur, pend), cur # 0,
         NEW D \in Nat, cur + D <= Len(t) + 1,
         \A k \in cur .. cur + D - 1 : t[k].kind # "call" /\ t[k].id \in pend,
         D # 0 => \A b \in Branch : ~YetToCall(br, b)
  PROVE  LET r == q \o DeliveriesIn(t, cur, br, D)
         IN  /\ Underway(C, S, p, t, cur + D, br, r) /\ r \in Seq(Job)
             /\ Awaited(C, S, t, cur + D, pend \ DeliveredIn(t, cur, D))
             /\ HasPump(q) => HasPump(r)
             /\ (\A i \in 1 .. Len(q) : q[i].kind # "end") => \A i \in 1 .. Len(r) : r[i].kind # "end"
<1> DEFINE d == DeliveriesIn(t, cur, br, D)
           r == q \o d
<1>1. /\ Recorded(C, S, p, t) /\ Underway(C, S, p, t, cur, br, q) /\ Standing(C, S, p, t, cur, br)
      /\ Awaited(C, S, t, cur, pend) /\ cur # 0 /\ q \in Seq(Job)
  BY DEF Underway, Jobs
<1>2. Len(t) \in Nat
  BY <1>1, RecordedTypes
<1>3. ASSUME NEW i \in 1 .. D
      PROVE  /\ d[i].kind = "resume" /\ d[i].branch \in Branch /\ d[i].result = t[cur + i - 1].kind
             /\ br[d[i].branch].status = "waiting" /\ Now(S, br, d[i].branch) = cur + i - 1
             /\ d[i] \in Job
  <2> DEFINE k == cur + i - 1
  <2>1. k \in cur .. cur + D - 1 /\ k \in 1 .. Len(t) /\ k # 0
    BY <1>1, <1>2
  <2> HIDE DEF k
  <2>2. t[k].kind \in {"return", "throw"} /\ t[k].id \in pend
    BY <1>1, <2>1, RecordedTypes
  <2>3. PICK b \in Branch :
          /\ WaiterIn(br, t[k].id) = b /\ br[b].status = "waiting" /\ br[b].done \in Index
          /\ C[b][br[b].done] # 0 /\ t[C[b][br[b].done]].id = t[k].id
    BY <1>1, <2>2, Awaiter
  <2>4. PICK c \in Branch, m \in Index : S[c][m] = k
    BY <1>1, <2>1, <2>2 DEF Recorded, Whole
  <2>5. C[c][m] # 0 /\ t[C[c][m]].id = t[k].id
    BY <1>1, <2>1, <2>4 DEF Recorded, Answers
  <2>6. c = b /\ m = br[b].done
    BY <1>1, <2>3, <2>5 DEF Recorded, Numbered
  <2>7. d[i] = Resume(b, t[k].kind)
    BY <2>3 DEF DeliveriesIn, k
  <2>8. d[i].kind = "resume" /\ d[i].branch = b /\ d[i].result = t[k].kind /\ d[i] \in Job
    BY <2>2, <2>7, JobKinds, JobSorts DEF Result
  <2>9. Now(S, br, b) = k
    BY <2>4, <2>6 DEF Now
  <2> QED
    BY <2>3, <2>8, <2>9 DEF k
<1>4. d \in Seq(Job) /\ Len(d) = D
  <2>1. d = [i \in 1 .. D |-> d[i]]
    BY DEF DeliveriesIn
  <2>2. \A i \in 1 .. D : d[i] \in Job
    BY <1>3
  <2> HIDE DEF d
  <2>3. [i \in 1 .. D |-> d[i]] \in Seq(Job) /\ Len([i \in 1 .. D |-> d[i]]) = D
    BY <2>2
  <2> QED
    BY <2>1, <2>3
<1> HIDE DEF d
<1>5. /\ r \in Seq(Job) /\ Len(q) \in Nat /\ Len(r) = Len(q) + D
      /\ \A i \in 1 .. Len(q) : r[i] = q[i]
      /\ \A i \in 1 .. D : r[Len(q) + i] = d[i]
  BY <1>1, <1>4
<1> HIDE DEF r
<1>6. Underway(C, S, p, t, cur + D, br, r)
  <2>1. \A i \in 1 .. D :
          /\ r[Len(q) + i].kind = "resume" /\ r[Len(q) + i].branch \in Branch
          /\ r[Len(q) + i].result = t[cur + i - 1].kind
          /\ br[r[Len(q) + i].branch].status = "waiting"
          /\ Now(S, br, r[Len(q) + i].branch) = cur + i - 1
    BY <1>3, <1>5
  <2> QED
    BY <1>1, <1>5, <2>1, Delivering
<1>7. HasPump(q) => HasPump(r)
  <2> SUFFICES ASSUME NEW i \in 1 .. Len(q), q[i] = Pump
               PROVE  HasPump(r)
    BY DEF HasPump
  <2>1. i \in 1 .. Len(r)
    BY <1>5
  <2> QED
    BY <1>5, <2>1 DEF HasPump
<1>8. ASSUME \A i \in 1 .. Len(q) : q[i].kind # "end", NEW i \in 1 .. Len(r)
      PROVE  r[i].kind # "end"
  <2>1. CASE i \in 1 .. Len(q)
    BY <1>5, <1>8, <2>1
  <2>2. CASE i \notin 1 .. Len(q)
    <3> DEFINE j == i - Len(q)
    <3>1. j \in 1 .. D /\ i = Len(q) + j
      BY <1>5, <2>2
    <3> HIDE DEF j
    <3> QED
      BY <1>3, <1>5, <3>1
  <2> QED
    BY <2>1, <2>2
<1>9. ASSUME NEW id
      PROVE  id \in pend \ DeliveredIn(t, cur, D) <=>
               \E b \in Branch : \E n \in Index :
                 Past(C[b][n], cur + D) /\ S[b][n] >= cur + D /\ id = t[C[b][n]].id
  <2>1. \A b \in Branch : \A n \in Index : C[b][n] \in Nat /\ S[b][n] \in Nat
    BY <1>1, RecordedTypes
  <2>2. ASSUME id \in pend, id \notin DeliveredIn(t, cur, D)
        PROVE  \E b \in Branch : \E n \in Index :
                 Past(C[b][n], cur + D) /\ S[b][n] >= cur + D /\ id = t[C[b][n]].id
    <3>1. PICK b \in Branch, n \in Index : Past(C[b][n], cur) /\ S[b][n] >= cur /\ id = t[C[b][n]].id
      BY <1>1, <2>2 DEF Awaited
    <3>2. S[b][n] # 0
      BY <1>1, <3>1
    <3>3. t[S[b][n]].id = id
      BY <1>1, <3>1, <3>2 DEF Recorded, Answers
    <3>4. S[b][n] \notin cur .. cur + D - 1
      BY <2>2, <3>3 DEF DeliveredIn
    <3>5. Past(C[b][n], cur + D) /\ S[b][n] >= cur + D
      BY <2>1, <3>1, <3>4 DEF Past
    <3> QED
      BY <3>1, <3>5
  <2>3. ASSUME NEW b \in Branch, NEW n \in Index,
               Past(C[b][n], cur + D), S[b][n] >= cur + D, id = t[C[b][n]].id
        PROVE  id \in pend /\ id \notin DeliveredIn(t, cur, D)
    <3>1. C[b][n] # 0 /\ t[C[b][n]].kind = "call" /\ C[b][n] \in Nat
      BY <1>1, <2>1, <2>3 DEF Recorded, Calls, Past
    <3>2. C[b][n] \notin cur .. cur + D - 1
      BY <3>1
    <3>3. Past(C[b][n], cur) /\ S[b][n] >= cur
      BY <2>1, <2>3, <3>1, <3>2 DEF Past
    <3>4. id \in pend
      BY <1>1, <2>3, <3>3 DEF Awaited
    <3>5. ASSUME NEW k \in cur .. cur + D - 1, t[k].id = id
          PROVE  FALSE
      <4>1. k \in 1 .. Len(t) /\ k # 0 /\ t[k].kind # "call"
        BY <1>1, <1>2
      <4>2. PICK c \in Branch, m \in Index : S[c][m] = k
        BY <1>1, <4>1 DEF Recorded, Whole
      <4>3. C[c][m] # 0 /\ t[C[c][m]].id = id
        BY <1>1, <3>5, <4>1, <4>2 DEF Recorded, Answers
      <4>4. c = b /\ m = n
        BY <1>1, <2>3, <3>1, <4>3 DEF Recorded, Numbered
      <4> QED
        BY <2>3, <4>2, <4>4
    <3> QED
      BY <3>4, <3>5 DEF DeliveredIn
  <2> QED
    BY <2>2, <2>3
<1>10. Awaited(C, S, t, cur + D, pend \ DeliveredIn(t, cur, D))
  BY <1>9 DEF Awaited
<1> QED
  BY <1>5, <1>6, <1>7, <1>8, <1>10 DEF r, d

-----------------------------------------------------------------------------
(* The steps of the replay keep the program's place in the recording.       *)

(* The same over the state of the replay.                                  *)
LEMMA StateDeliveries ==
  /\ Deliveries = DeliveriesIn(trace, cursor, branch, Deliverable)
  /\ Delivered = DeliveredIn(trace, cursor, Deliverable)
BY DEF Deliveries, DeliveriesIn, Delivered, DeliveredIn, Waiter, WaiterIn

(* What the replay rests on.                                               *)
LEMMA ReplayTypes ==
  ASSUME NEW C, NEW S, NEW p, OnReplay(C, S, p, trace, cursor, branch, queue, pending)
  PROVE  /\ Len(trace) \in Nat /\ cursor \in 1 .. Len(trace) + 1 /\ cursor \in Nat /\ cursor # 0
         /\ Recorded(C, S, p, trace) /\ Immediate(C, S, p) /\ Complete(C, S, p, trace)
         /\ Underway(C, S, p, trace, cursor, branch, queue)
         /\ Standing(C, S, p, trace, cursor, branch) /\ Jobs(S, trace, cursor, branch, queue)
         /\ queue \in Seq(Job) /\ Awaited(C, S, trace, cursor, pending)
<1>1. Recorded(C, S, p, trace) /\ cursor \in 1 .. Len(trace) + 1
  BY DEF OnReplay
<1>2. Len(trace) \in Nat
  BY <1>1, RecordedTypes
<1> QED
  BY <1>1, <1>2 DEF OnReplay, Underway, Jobs

(* PumpJob: what is delivered is what the recording has settled next.      *)
LEMMA PumpStep ==
  ASSUME NEW C, NEW S, NEW p,
         OnReplay(C, S, p, trace, cursor, branch, queue, pending), ~mismatch, PumpJob
  PROVE  OnReplay(C, S, p, trace, cursor', branch, queue', pending')
<1> DEFINE D == Deliverable
           q == Tail(queue)
           r == q \o DeliveriesIn(trace, cursor, branch, D)
           pend == pending \ DeliveredIn(trace, cursor, D)
<1>1. /\ Len(trace) \in Nat /\ cursor \in 1 .. Len(trace) + 1 /\ cursor \in Nat /\ cursor # 0
      /\ Recorded(C, S, p, trace) /\ Immediate(C, S, p) /\ Complete(C, S, p, trace)
      /\ Underway(C, S, p, trace, cursor, branch, queue)
      /\ Jobs(S, trace, cursor, branch, queue) /\ queue \in Seq(Job)
      /\ Awaited(C, S, trace, cursor, pending)
  BY ReplayTypes
<1>2. /\ \A b \in Branch : ~YetToCall(branch, b)
      /\ queue # <<>> /\ queue[1] = Pump
      /\ queue' = r /\ cursor' = cursor + D /\ pending' = pend
  BY <1>1, StateDeliveries DEF PumpJob, Idle, Started, YetToCall
<1>3. /\ D \in Nat /\ cursor + D <= Len(trace) + 1
      /\ \A k \in cursor .. cursor + D - 1 : trace[k].kind # "call" /\ trace[k].id \in pending
      /\ cursor + D <= Len(trace) => ~(trace[cursor + D].kind # "call" /\ trace[cursor + D].id \in pending)
  BY <1>1, DeliverableRun
<1> HIDE DEF D
<1>4. Underway(C, S, p, trace, cursor, branch, q)
  <2>1. queue[1].kind # "resume"
    BY <1>2, JobKinds
  <2>2. Jobs(S, trace, cursor, branch, q)
    BY <1>1, <1>2, <2>1, Dequeued
  <2> QED
    BY <1>1, <2>2 DEF Underway
<1>5. Underway(C, S, p, trace, cursor + D, branch, r) /\ Awaited(C, S, trace, cursor + D, pend)
  <2> HIDE DEF q
  <2> QED
    BY <1>1, <1>2, <1>3, <1>4, Delivery
<1>6. cursor + D <= Len(trace) => trace[cursor + D].kind = "call"
  <2> SUFFICES ASSUME cursor + D <= Len(trace), trace[cursor + D].kind # "call"
               PROVE  FALSE
    OBVIOUS
  <2>1. Unblocked(trace, cursor, pending)
    BY <1>1, SettlesAwaited
  <2> DEFINE k == cursor + D
  <2>2. k \in cursor .. Len(trace) /\ \A j \in cursor .. k : j \in cursor .. cursor + D - 1 \/ j = k
    BY <1>1, <1>3
  <2>3. \A j \in cursor .. k : trace[j].kind # "call"
    BY <1>3, <2>2
  <2> HIDE DEF k
  <2>4. trace[k].id \in pending
    BY <2>1, <2>2, <2>3 DEF Unblocked
  <2> QED
    BY <1>3, <2>4 DEF k
<1>7. cursor + D \in 1 .. Len(trace) + 1
  BY <1>1, <1>3
<1> HIDE DEF r, pend
<1>8. OnReplay(C, S, p, trace, cursor + D, branch, r, pend)
  BY <1>1, <1>5, <1>6, <1>7 DEF OnReplay
<1> QED
  BY <1>2, <1>8

(* What a branch that goes on finds in the trace.                          *)
CallFound(C, S, p, b) ==
  LET n == branch[b].done + 1
      it == C[b][n]
      r == queue \o Deliveries
  IN  /\ branch[b].done \in Nat /\ n \in Index /\ it \in Nat /\ it # 0 /\ it \in 1 .. Len(trace)
      /\ cursor + Deliverable = it
      /\ Expected = {trace[it]} /\ Answerable(p[b][n])
      /\ S[b][n] # 0
      /\ p[b][n] \notin AsyncOperation =>
           /\ S[b][n] = it + 1 /\ it + 1 <= Len(trace) /\ trace[it + 1].kind # "call"
           /\ \A c \in Branch : c # b => Len(p[c]) = 0
      /\ Underway(C, S, p, trace, it, branch, r) /\ r \in Seq(Job)
      /\ Awaited(C, S, trace, it, pending \ Delivered)
      /\ HasPump(queue) => HasPump(r)
      /\ \A i \in 1 .. Len(r) : r[i].kind # "end"

(* A branch that goes on finds its own call.                               *)
LEMMA CallMet ==
  ASSUME NEW C, NEW S, NEW p \in [Branch -> Seq(Operation)],
         OnReplay(C, S, p, trace, cursor, branch, queue, pending), ~mismatch, Joined(p),
         NEW b \in Branch, branch[b].status = "running", branch[b].done < Len(p[b])
  PROVE  CallFound(C, S, p, b)
<1> DEFINE n == branch[b].done + 1
           it == C[b][n]
           r == queue \o Deliveries
           D == Deliverable
<1>1. /\ Len(trace) \in Nat /\ cursor \in 1 .. Len(trace) + 1 /\ cursor \in Nat /\ cursor # 0
      /\ Recorded(C, S, p, trace) /\ Immediate(C, S, p) /\ Complete(C, S, p, trace)
      /\ Underway(C, S, p, trace, cursor, branch, queue)
      /\ Jobs(S, trace, cursor, branch, queue) /\ queue \in Seq(Job)
      /\ Awaited(C, S, trace, cursor, pending)
  BY ReplayTypes
<1>2. /\ branch[b].done \in Nat /\ n \in Index /\ it \in cursor .. Len(trace) /\ trace[it].kind = "call"
      /\ \A j \in cursor .. it - 1 : trace[j].kind # "call" /\ trace[j].id \in pending
      /\ it # cursor => \A c \in Branch : ~YetToCall(branch, c)
  <2>1. CallAhead(C, trace, cursor, branch, pending, b)
    BY <1>1, NextInLine
  <2> QED
    BY <2>1 DEF CallAhead
<1>3. /\ D \in Nat /\ cursor + D <= Len(trace) + 1
      /\ \A k \in cursor .. cursor + D - 1 : trace[k].kind # "call" /\ trace[k].id \in pending
      /\ cursor + D <= Len(trace) => ~(trace[cursor + D].kind # "call" /\ trace[cursor + D].id \in pending)
  BY <1>1, DeliverableRun
<1> HIDE DEF D, it, r, n
<1>4. it \in Nat /\ it # 0 /\ it \in 1 .. Len(trace) /\ cursor <= it
  BY <1>1, <1>2
<1>5. cursor + D = it
  <2>1. ~(cursor + D < it)
    <3> SUFFICES ASSUME cursor + D < it PROVE FALSE
      OBVIOUS
    <3>1. cursor + D \in cursor .. it - 1 /\ cursor + D <= Len(trace)
      BY <1>1, <1>3, <1>4
    <3> QED
      BY <1>2, <1>3, <3>1
  <2>2. ~(cursor + D > it)
    <3> SUFFICES ASSUME cursor + D > it PROVE FALSE
      OBVIOUS
    <3>1. it \in cursor .. cursor + D - 1
      BY <1>1, <1>3, <1>4
    <3> QED
      BY <1>2, <1>3, <3>1
  <2> QED
    BY <1>1, <1>3, <1>4, <2>1, <2>2
<1>6. Expected = {trace[it]}
  BY <1>4, <1>5 DEF Expected, D
<1>7. trace[it].operation = p[b][n] /\ n <= Len(p[b])
  BY <1>1, <1>2, <1>4 DEF Recorded, Calls, it
<1>8. Matches(p[b][n])
  BY <1>2, <1>6, <1>7 DEF Matches
<1>9. S[b][n] # 0
  BY <1>1, <1>2, <1>4 DEF Complete, it
<1>10. ASSUME p[b][n] \notin AsyncOperation
       PROVE  /\ S[b][n] = it + 1 /\ it + 1 <= Len(trace) /\ trace[it + 1].kind # "call"
              /\ trace[it + 1].id = trace[it].id
              /\ \A c \in Branch : c # b => Len(p[c]) = 0
  <2>1. S[b][n] = it + 1
    BY <1>1, <1>2, <1>4, <1>10 DEF Immediate, it
  <2>2. it + 1 <= Len(trace) /\ trace[it + 1].kind # "call" /\ trace[it + 1].id = trace[it].id
    BY <1>1, <1>2, <1>9, <2>1 DEF Recorded, Answers, it
  <2>3. n \in 1 .. Len(p[b])
    <3>1. p[b] \in Seq(Operation)
      OBVIOUS
    <3> QED
      BY <1>2, <1>7, <3>1 DEF Index
  <2>4. \A c \in Branch : c # b => Len(p[c]) = 0
    BY <1>10, <2>3, Alone
  <2> QED
    BY <2>1, <2>2, <2>4
<1>11. Answerable(p[b][n])
  BY <1>4, <1>5, <1>6, <1>8, <1>10 DEF Answerable, D
<1>12. ~Over(branch)
  BY <1>1, NothingAfter
<1>13. \A i \in 1 .. Len(queue) : queue[i].kind # "end"
  BY <1>1, <1>12 DEF Jobs
<1>14. /\ Underway(C, S, p, trace, cursor + D, branch, r) /\ r \in Seq(Job)
       /\ Awaited(C, S, trace, cursor + D, pending \ Delivered)
       /\ HasPump(queue) => HasPump(r)
       /\ \A i \in 1 .. Len(r) : r[i].kind # "end"
  <2>1. D # 0 => \A c \in Branch : ~YetToCall(branch, c)
    BY <1>1, <1>2, <1>3, <1>5
  <2> DEFINE R == queue \o DeliveriesIn(trace, cursor, branch, D)
  <2>2. /\ Underway(C, S, p, trace, cursor + D, branch, R) /\ R \in Seq(Job)
        /\ Awaited(C, S, trace, cursor + D, pending \ DeliveredIn(trace, cursor, D))
        /\ HasPump(queue) => HasPump(R)
        /\ (\A i \in 1 .. Len(queue) : queue[i].kind # "end") => \A i \in 1 .. Len(R) : R[i].kind # "end"
    BY <1>1, <1>3, <2>1, Delivery
  <2>3. R = r /\ DeliveredIn(trace, cursor, D) = Delivered
    BY StateDeliveries DEF r, D
  <2> HIDE DEF R
  <2> QED
    BY <1>13, <2>2, <2>3
<1> QED
  BY <1>2, <1>4, <1>5, <1>6, <1>9, <1>10, <1>11, <1>14 DEF n, it, r, D, CallFound

(* The settlements of the call at it are what is awaited next.              *)
LEMMA AwaitedAfter ==
  ASSUME NEW C, NEW S, NEW p, NEW t, NEW it \in Nat, it # 0, NEW pend,
         Recorded(C, S, p, t), Awaited(C, S, t, it, pend),
         NEW b \in Branch, NEW n \in Index, C[b][n] = it, S[b][n] # 0
  PROVE  Awaited(C, S, t, it + 1, pend \cup {t[it].id})
<1>1. \A c \in Branch : \A m \in Index : C[c][m] \in Nat /\ S[c][m] \in Nat
  BY RecordedTypes
<1>2. t[it].kind = "call" /\ it < S[b][n]
  BY DEF Recorded, Calls, Answers
<1>3. ASSUME NEW c \in Branch, NEW m \in Index, S[c][m] # 0
      PROVE  S[c][m] # it
  BY <1>2, <1>3 DEF Recorded, Answers
<1>4. ASSUME NEW c \in Branch, NEW m \in Index, C[c][m] = it
      PROVE  c = b /\ m = n
  BY <1>4 DEF Recorded, Numbered
<1>5. ASSUME NEW id, id \in pend \cup {t[it].id}
      PROVE  \E c \in Branch : \E m \in Index :
               Past(C[c][m], it + 1) /\ S[c][m] >= it + 1 /\ id = t[C[c][m]].id
  <2>1. CASE id \in pend
    <3>1. PICK c \in Branch, m \in Index : Past(C[c][m], it) /\ S[c][m] >= it /\ id = t[C[c][m]].id
      BY <2>1 DEF Awaited
    <3>2. S[c][m] \in Nat /\ S[c][m] # 0 /\ C[c][m] \in Nat
      BY <1>1, <3>1
    <3>3. S[c][m] # it
      BY <1>3, <3>2
    <3>4. Past(C[c][m], it + 1) /\ S[c][m] >= it + 1
      BY <3>1, <3>2, <3>3 DEF Past
    <3> QED
      BY <3>1, <3>4
  <2>2. CASE id = t[it].id
    <3>1. Past(C[b][n], it + 1) /\ S[b][n] >= it + 1 /\ id = t[C[b][n]].id
      BY <1>1, <1>2, <2>2 DEF Past
    <3> QED
      BY <3>1
  <2> QED
    BY <1>5, <2>1, <2>2
<1>6. ASSUME NEW id, NEW c \in Branch, NEW m \in Index,
             Past(C[c][m], it + 1), S[c][m] >= it + 1, id = t[C[c][m]].id
      PROVE  id \in pend \cup {t[it].id}
  <2>1. C[c][m] \in Nat /\ S[c][m] \in Nat /\ C[c][m] # 0 /\ C[c][m] <= it
    BY <1>1, <1>6 DEF Past
  <2>2. CASE C[c][m] = it
    BY <1>6, <2>2
  <2>3. CASE C[c][m] # it
    <3>1. Past(C[c][m], it) /\ S[c][m] >= it
      BY <1>6, <2>1, <2>3 DEF Past
    <3> QED
      BY <1>6, <3>1 DEF Awaited
  <2> QED
    BY <2>2, <2>3
<1>7. ASSUME NEW id
      PROVE  id \in pend \cup {t[it].id} <=>
               \E c \in Branch : \E m \in Index :
                 Past(C[c][m], it + 1) /\ S[c][m] >= it + 1 /\ id = t[C[c][m]].id
  <2> DEFINE next == pend \cup {t[it].id}
             Awaits(c, m) == Past(C[c][m], it + 1) /\ S[c][m] >= it + 1 /\ id = t[C[c][m]].id
  <2>1. id \in next => \E c \in Branch : \E m \in Index : Awaits(c, m)
    BY <1>5
  <2>2. \A c \in Branch : \A m \in Index : Awaits(c, m) => id \in next
    BY <1>6
  <2> HIDE DEF next, Awaits
  <2>3. id \in next <=> \E c \in Branch : \E m \in Index : Awaits(c, m)
    BY <2>1, <2>2, Zenon
  <2> QED
    BY <2>3 DEF next, Awaits
<1> QED
  BY <1>7 DEF Awaited

(* ReplayAsync: the call of b is answered.                                 *)
LEMMA AsyncStep ==
  ASSUME NEW C, NEW S, NEW p \in [Branch -> Seq(Operation)],
         OnReplay(C, S, p, trace, cursor, branch, queue, pending), ~mismatch, Joined(p),
         Code = p, NEW b \in Branch, ReplayAsync(b)
  PROVE  OnReplay(C, S, p, trace, cursor', branch', queue', pending')
<1> DEFINE n == branch[b].done + 1
           it == C[b][n]
           r == queue \o Deliveries
           pend == pending \ Delivered
           id == trace[it].id
<1>1. /\ Len(trace) \in Nat /\ cursor \in Nat
      /\ Recorded(C, S, p, trace) /\ Immediate(C, S, p) /\ Complete(C, S, p, trace)
  BY ReplayTypes
<1>2. branch[b].status = "running" /\ branch[b].done < Len(p[b]) /\ p[b][n] \in AsyncOperation
  BY DEF ReplayAsync, Performs, NextEffect
<1>3. CallFound(C, S, p, b)
  BY <1>2, CallMet
<1>4. /\ n \in Index /\ it \in Nat /\ it # 0 /\ it \in 1 .. Len(trace)
      /\ cursor + Deliverable = it /\ Expected = {trace[it]} /\ S[b][n] # 0
      /\ Underway(C, S, p, trace, it, branch, r) /\ r \in Seq(Job)
      /\ Awaited(C, S, trace, it, pend)
      /\ \A i \in 1 .. Len(r) : r[i].kind # "end"
  BY <1>3 DEF CallFound
<1>5. /\ pending' = pend \cup {id} /\ branch' = Awaiting(branch, b, id)
      /\ cursor' = it + 1 /\ queue' = Append(r, Pump)
  BY <1>4 DEF ReplayAsync
<1> HIDE DEF r, pend
<1>6. Underway(C, S, p, trace, it + 1, Awaiting(branch, b, id), r)
  BY <1>1, <1>2, <1>4, CallingAsync
<1> DEFINE br2 == Awaiting(branch, b, id)
<1> HIDE DEF br2
<1>7. Underway(C, S, p, trace, it + 1, br2, r)
  BY <1>6 DEF br2
<1>8. Jobs(S, trace, it + 1, br2, r)
  BY <1>7 DEF Underway
<1>9. Jobs(S, trace, it + 1, br2, Append(r, Pump))
  BY <1>4, <1>8, PumpQueued
<1>10. Underway(C, S, p, trace, it + 1, br2, Append(r, Pump))
  BY <1>7, <1>9 DEF Underway
<1>11. HasPump(Append(r, Pump))
  BY <1>4, PumpAppended, JobSorts
<1>12. Awaited(C, S, trace, it + 1, pend \cup {id})
  <2> HIDE DEF n
  <2> QED
    BY <1>1, <1>4, AwaitedAfter
<1>13. it + 1 \in 1 .. Len(trace) + 1
  BY <1>1, <1>4
<1>14. OnReplay(C, S, p, trace, it + 1, br2, Append(r, Pump), pend \cup {id})
  <2> HIDE DEF it, n, id
  <2> QED
    BY <1>1, <1>10, <1>11, <1>12, <1>13 DEF OnReplay
<1> QED
  BY <1>5, <1>14 DEF br2

(* A synchronous effect is settled by the event behind its call.            *)
LEMMA AwaitedAfterSync ==
  ASSUME NEW C, NEW S, NEW p, NEW t, NEW it \in Nat, it # 0, NEW pend,
         Recorded(C, S, p, t), Awaited(C, S, t, it, pend),
         NEW b \in Branch, NEW n \in Index, C[b][n] = it, S[b][n] = it + 1
  PROVE  Awaited(C, S, t, it + 2, pend)
<1>1. \A c \in Branch : \A m \in Index : C[c][m] \in Nat /\ S[c][m] \in Nat
  BY RecordedTypes
<1>2. t[it].kind = "call" /\ t[it + 1].kind # "call" /\ t[it + 1].id = t[it].id
  BY DEF Recorded, Calls, Answers
<1>3. ASSUME NEW c \in Branch, NEW m \in Index, S[c][m] # 0
      PROVE  S[c][m] # it /\ (S[c][m] = it + 1 => c = b /\ m = n)
  <2>1. t[S[c][m]].kind # "call" /\ C[c][m] # 0 /\ t[S[c][m]].id = t[C[c][m]].id
    BY <1>3 DEF Recorded, Answers
  <2> QED
    BY <1>2, <2>1 DEF Recorded, Numbered
<1>4. ASSUME NEW c \in Branch, NEW m \in Index, C[c][m] = it
      PROVE  c = b /\ m = n
  BY <1>4 DEF Recorded, Numbered
<1>5. ASSUME NEW c \in Branch, NEW m \in Index
      PROVE  (Past(C[c][m], it) /\ S[c][m] >= it) <=> (Past(C[c][m], it + 2) /\ S[c][m] >= it + 2)
  <2>1. C[c][m] \in Nat /\ S[c][m] \in Nat
    BY <1>1
  <2>2. ASSUME Past(C[c][m], it), S[c][m] >= it
        PROVE  Past(C[c][m], it + 2) /\ S[c][m] >= it + 2
    <3>1. S[c][m] # 0
      BY <2>1, <2>2
    <3>2. S[c][m] # it /\ (S[c][m] = it + 1 => c = b /\ m = n)
      BY <1>3, <3>1
    <3>3. C[c][m] < it /\ C[c][m] # 0
      BY <2>2 DEF Past
    <3> QED
      BY <2>1, <2>2, <3>2, <3>3 DEF Past
  <2>3. ASSUME Past(C[c][m], it + 2), S[c][m] >= it + 2
        PROVE  Past(C[c][m], it) /\ S[c][m] >= it
    <3>1. C[c][m] # 0 /\ C[c][m] < it + 2
      BY <2>3 DEF Past
    <3>2. t[C[c][m]].kind = "call"
      BY <3>1 DEF Recorded, Calls
    <3>3. C[c][m] # it + 1
      BY <1>2, <3>2
    <3>4. C[c][m] # it
      BY <1>4, <2>1, <2>3
    <3> QED
      BY <2>1, <2>3, <3>1, <3>3, <3>4 DEF Past
  <2> QED
    BY <2>2, <2>3
<1>6. \A id : id \in pend <=>
        \E c \in Branch : \E m \in Index :
          Past(C[c][m], it + 2) /\ S[c][m] >= it + 2 /\ id = t[C[c][m]].id
  BY <1>5 DEF Awaited
<1> QED
  BY <1>6 DEF Awaited

(* Behind it there is no settlement for pump to deliver.                    *)
LEMMA CallNext ==
  ASSUME NEW C, NEW S, NEW p, NEW t, NEW it \in Nat, it # 0, NEW br,
         Recorded(C, S, p, t), Standing(C, S, p, t, it, br),
         NEW b \in Branch, NEW n \in Index, C[b][n] = it, S[b][n] = it + 1, br[b].status = "running",
         \A c \in Branch : c # b => Len(p[c]) = 0,
         it + 2 <= Len(t)
  PROVE  t[it + 2].kind = "call"
<1> SUFFICES ASSUME t[it + 2].kind # "call"
             PROVE  FALSE
  OBVIOUS
<1>1. \A c \in Branch : \A m \in Index : C[c][m] \in Nat /\ S[c][m] \in Nat
  BY RecordedTypes
<1>2. Len(t) \in Nat
  BY RecordedTypes
<1>3. it + 2 \in 1 .. Len(t)
  BY <1>2
<1>4. PICK c \in Branch, m \in Index : S[c][m] = it + 2
  BY <1>3 DEF Recorded, Whole
<1>5. C[c][m] # 0 /\ C[c][m] < it + 2
  BY <1>4 DEF Recorded, Answers
<1>6. m <= Len(p[c]) /\ t[C[c][m]].kind = "call"
  BY <1>5 DEF Recorded, Calls
<1>7. c = b
  BY <1>6 DEF Index
<1>8. t[it + 1].kind # "call"
  BY DEF Recorded, Answers
<1>9. C[c][m] # it + 1
  BY <1>6, <1>8
<1>10. C[c][m] # it
  <2> SUFFICES ASSUME C[c][m] = it PROVE FALSE
    OBVIOUS
  <2>1. m = n
    BY <1>7 DEF Recorded, Numbered
  <2> QED
    BY <1>4, <1>7, <2>1
<1>11. Past(C[b][m], it)
  BY <1>1, <1>5, <1>7, <1>9, <1>10 DEF Past
<1>12. m <= br[b].done
  BY <1>11 DEF Standing
<1>13. br[b].done \in Nat
  BY BranchTypes
<1>14. Consumed(br, b, m)
  BY <1>12, <1>13 DEF Consumed, Index
<1>15. Past(S[b][m], it)
  BY <1>12, <1>14, ConsumedIsPast
<1> QED
  BY <1>4, <1>7, <1>15 DEF Past

(* ReplaySync: the call of b is answered with its settlement.              *)
LEMMA SyncStep ==
  ASSUME NEW C, NEW S, NEW p \in [Branch -> Seq(Operation)],
         OnReplay(C, S, p, trace, cursor, branch, queue, pending), ~mismatch, Joined(p),
         Code = p, NEW b \in Branch, ReplaySync(b)
  PROVE  OnReplay(C, S, p, trace, cursor', branch', queue', pending')
<1> DEFINE n == branch[b].done + 1
           it == C[b][n]
           r == queue \o Deliveries
           pend == pending \ Delivered
           br2 == Answered(branch, b, trace[it + 1].kind)
           q2 == IF Over(br2) /\ ~Over(branch) THEN Append(r, End) ELSE r
<1>1. /\ Len(trace) \in Nat /\ cursor \in Nat
      /\ Recorded(C, S, p, trace) /\ Immediate(C, S, p) /\ Complete(C, S, p, trace)
  BY ReplayTypes
<1>2. branch[b].status = "running" /\ branch[b].done < Len(p[b]) /\ p[b][n] \notin AsyncOperation
  BY DEF ReplaySync, Performs, NextEffect
<1>3. CallFound(C, S, p, b)
  BY <1>2, CallMet
<1>4. /\ n \in Index /\ it \in Nat /\ it # 0 /\ it \in 1 .. Len(trace)
      /\ cursor + Deliverable = it /\ Expected = {trace[it]} /\ S[b][n] # 0
      /\ S[b][n] = it + 1 /\ it + 1 <= Len(trace)
      /\ \A c \in Branch : c # b => Len(p[c]) = 0
      /\ Underway(C, S, p, trace, it, branch, r) /\ r \in Seq(Job)
      /\ Awaited(C, S, trace, it, pend)
  BY <1>2, <1>3 DEF CallFound
<1>5. /\ pending' = pend /\ branch' = br2 /\ cursor' = it + 2 /\ queue' = q2
  BY <1>4 DEF ReplaySync, AdvanceTo
<1> HIDE DEF r, pend
<1>6. Underway(C, S, p, trace, it + 2, br2, q2)
  BY <1>1, <1>2, <1>4, CallingSync
<1>7. Standing(C, S, p, trace, it, branch)
  BY <1>4 DEF Underway
<1> HIDE DEF br2, q2
<1>8. Awaited(C, S, trace, it + 2, pend)
  <2> HIDE DEF n
  <2> QED
    BY <1>1, <1>4, AwaitedAfterSync
<1>9. it + 2 <= Len(trace) => trace[it + 2].kind = "call"
  <2> HIDE DEF n
  <2> QED
    BY <1>1, <1>2, <1>4, <1>7, CallNext
<1>10. it + 2 \in 1 .. Len(trace) + 1
  BY <1>1, <1>4
<1>11. OnReplay(C, S, p, trace, it + 2, br2, q2, pend)
  <2> HIDE DEF it, n
  <2> QED
    BY <1>1, <1>6, <1>8, <1>9, <1>10 DEF OnReplay
<1> QED
  BY <1>5, <1>11

-----------------------------------------------------------------------------
(* The invariant *)

Kept ==
  /\ stage \in {"record", "discarded", "replay", "done"}
  /\ program \in Programs
  /\ stage = "record" =>
       /\ \E C, S \in Places : OnRecord(C, S, program, trace, branch, queue)
       /\ cursor = 1 /\ pending = {} /\ ~mismatch
  /\ stage = "replay" /\ candidate = program =>
       /\ \E C, S \in Places : OnReplay(C, S, program, trace, cursor, branch, queue, pending)
       /\ ~mismatch
  /\ stage = "done" /\ candidate = program => ~mismatch

(* The empty recording.                                                    *)
LEMMA Nothing ==
  ASSUME NEW p
  PROVE  \E C, S \in Places : OnRecord(C, S, p, <<>>, FreshBranches, <<>>)
<1> DEFINE C == [b \in Branch |-> [n \in Index |-> 0]]
           t == <<>>
<1>1. C \in Places /\ \A b \in Branch : \A n \in Index : C[b][n] = 0 /\ C[b][n + 1] = 0
  <2>1. C \in Places
    BY DEF Places
  <2>2. \A n \in Index : n + 1 \in Index
    BY DEF Index
  <2> QED
    BY <2>1, <2>2
<1>2. t \in Seq(TraceEvent) /\ Len(t) = 0
  OBVIOUS
<1>3. \A b \in Branch : 1 \in Index
  BY DEF Index
<1> HIDE DEF C, t
<1>4. Calls(C, p, t) /\ Answers(C, C, t) /\ Immediate(C, C, p)
  BY <1>1 DEF Calls, Answers, Immediate
<1>5. Whole(C, C, t)
  BY <1>2 DEF Whole
<1>6. Numbered(C, t) /\ Follows(C, C, t) /\ InTurn(C, C) /\ Final(C, C, t)
  BY <1>1, <1>3 DEF Numbered, Follows, InTurn, Final
<1>7. Recorded(C, C, p, t)
  BY <1>1, <1>2, <1>4, <1>5, <1>6 DEF Recorded
<1>8. Underway(C, C, p, t, 1, FreshBranches, <<>>)
  <2>1. \A b \in Branch : \A n \in Index : C[b][n] \in Nat
    BY <1>1
  <2> QED
    BY <2>1, Beginning
<1>9. Numbers(t) /\ ~HasPump(<<>>)
  BY <1>2 DEF Numbers, HasPump
<1>10. OnRecord(C, C, p, t, FreshBranches, <<>>)
  BY <1>2, <1>4, <1>7, <1>8, <1>9 DEF OnRecord
<1> QED
  BY <1>1, <1>10 DEF t

(* Nothing is recorded at first.                                           *)
LEMMA KeptInit ==
  ReplayInit => Kept
<1> SUFFICES ASSUME ReplayInit
             PROVE  Kept
  OBVIOUS
<1>1. \E C, S \in Places : OnRecord(C, S, program, trace, branch, queue)
  BY Nothing DEF ReplayInit
<1> QED
  BY <1>1 DEF ReplayInit, Kept

(* The start of the replay: the recording is complete and nothing awaited.  *)
LEMMA ReplayBegins ==
  ASSUME NEW C \in Places, NEW S \in Places, NEW p \in [Branch -> Seq(Operation)], NEW t, NEW br, NEW q,
         OnRecord(C, S, p, t, br, q),
         \A b \in Branch : br[b].status \in {"finished", "failed"}
  PROVE  OnReplay(C, S, p, t, 1, FreshBranches, <<>>, {})
<1>1. Recorded(C, S, p, t) /\ Immediate(C, S, p) /\ Complete(C, S, p, t)
  BY RecordingEnds DEF OnRecord
<1>2. Len(t) \in Nat /\ \A b \in Branch : \A n \in Index : C[b][n] \in Nat /\ S[b][n] \in Nat
  BY <1>1, RecordedTypes
<1>3. Underway(C, S, p, t, 1, FreshBranches, <<>>)
  BY <1>2, Beginning
<1>4. Awaited(C, S, t, 1, {})
  BY <1>2 DEF Awaited, Past
<1>5. 1 <= Len(t) => t[1].kind = "call"
  <2> SUFFICES ASSUME 1 <= Len(t), t[1].kind # "call" PROVE FALSE
    OBVIOUS
  <2>1. 1 \in 1 .. Len(t)
    BY <1>2
  <2>2. PICK b \in Branch, n \in Index : S[b][n] = 1
    BY <1>1, <2>1 DEF Recorded, Whole
  <2>3. C[b][n] # 0 /\ C[b][n] < 1
    BY <1>1, <2>2 DEF Recorded, Answers
  <2> QED
    BY <1>2, <2>3
<1> QED
  BY <1>1, <1>2, <1>3, <1>4, <1>5 DEF OnReplay

(* Recording keeps the places of what is recorded.                         *)
LEMMA RecordKeeps ==
  ASSUME \A p \in Programs : Joined(p), Kept, Record
  PROVE  Kept'
<1>1. /\ stage = "record" /\ program \in Programs /\ Code = program
      /\ cursor = 1 /\ pending = {} /\ ~mismatch
      /\ UNCHANGED <<program, candidate, cursor, pending, mismatch>>
  BY DEF Kept, Code, Record, RecordEnds, RecordAsync, RecordSync, Settle, codeVars
<1>2. program \in [Branch -> Seq(Operation)] /\ Joined(program)
  BY <1>1, ReplayAssumption
<1>3. PICK C \in Places, S \in Places : OnRecord(C, S, program, trace, branch, queue)
  BY <1>1 DEF Kept
<1>4. NextId = CallCount(trace)
  BY DEF NextId, CallCount
<1>5. CASE RecordEnds
  <2>1. CASE stage' = "discarded"
    BY <1>1, <2>1 DEF Kept
  <2>2. CASE stage' # "discarded"
    <3>1. /\ \A b \in Branch : branch[b].status \in {"finished", "failed"}
          /\ stage' = "replay" /\ branch' = FreshBranches /\ queue' = <<>> /\ trace' = trace
      BY <1>5, <2>2 DEF RecordEnds
    <3>2. OnReplay(C, S, program, trace, 1, FreshBranches, <<>>, {})
      BY <1>2, <1>3, <3>1, ReplayBegins
    <3>3. \E C2, S2 \in Places : OnReplay(C2, S2, program', trace', cursor', branch', queue', pending')
      BY <1>1, <3>1, <3>2
    <3> QED
      BY <1>1, <3>1, <3>3 DEF Kept
  <2> QED
    BY <2>1, <2>2
<1>6. ASSUME stage' = stage,
             \E C2, S2 \in Places : OnRecord(C2, S2, program', trace', branch', queue')
      PROVE  Kept'
  BY <1>1, <1>6 DEF Kept
<1>7. ASSUME NEW b \in Branch, RecordAsync(b)
      PROVE  Kept'
  <2>1. /\ branch[b].status = "running" /\ branch[b].done < Len(program[b])
        /\ program[b][branch[b].done + 1] \in AsyncOperation
        /\ trace' = Append(trace, CallEvent(CallCount(trace), program[b][branch[b].done + 1]))
        /\ branch' = Awaiting(branch, b, CallCount(trace)) /\ queue' = queue /\ stage' = stage
    BY <1>1, <1>4, <1>7 DEF RecordAsync, Performs, NextEffect
  <2>2. \E C2, S2 \in Places :
          OnRecord(C2, S2, program,
                   Append(trace, CallEvent(CallCount(trace), program[b][branch[b].done + 1])),
                   Awaiting(branch, b, CallCount(trace)), queue)
    BY <1>2, <1>3, <2>1, RecordingAsync
  <2>3. \E C2, S2 \in Places : OnRecord(C2, S2, program', trace', branch', queue')
    BY <1>1, <2>1, <2>2
  <2> QED
    BY <1>6, <2>1, <2>3
<1>8. ASSUME NEW b \in Branch, NEW result \in {"return", "throw"}, RecordSync(b, result)
      PROVE  Kept'
  <2> DEFINE id == CallCount(trace)
             br2 == Answered(branch, b, result)
             t2 == trace \o <<CallEvent(id, program[b][branch[b].done + 1]), Settlement(result, id)>>
             q2 == IF Over(br2) /\ ~Over(branch) THEN Append(queue, End) ELSE queue
  <2>1. /\ branch[b].status = "running" /\ branch[b].done < Len(program[b])
        /\ program[b][branch[b].done + 1] \notin AsyncOperation
        /\ trace' = t2 /\ branch' = br2 /\ queue' = q2 /\ stage' = stage
    BY <1>1, <1>4, <1>8 DEF RecordSync, Performs, NextEffect, AdvanceTo
  <2>2. \E C2, S2 \in Places : OnRecord(C2, S2, program, t2, br2, q2)
    BY <1>2, <1>3, <2>1, RecordingSync
  <2> HIDE DEF t2, br2, q2
  <2>3. \E C2, S2 \in Places : OnRecord(C2, S2, program', trace', branch', queue')
    BY <1>1, <2>1, <2>2
  <2> QED
    BY <1>6, <2>1, <2>3
<1>9. ASSUME NEW b \in Branch, NEW result \in {"return", "throw"}, Settle(b, result)
      PROVE  Kept'
  <2>1. Underway(C, S, program, trace, Len(trace) + 1, branch, queue)
    BY <1>3 DEF OnRecord
  <2>2. queue \in Seq(Job)
    BY <2>1 DEF Underway, Jobs
  <2>3. /\ \A c \in Branch : branch[c].status \notin {"fresh", "running"}
        /\ ~Over(branch) /\ branch[b].status = "waiting"
        /\ \A i \in 1 .. Len(queue) : ~(queue[i].kind = "resume" /\ queue[i].branch = b)
        /\ trace' = Append(trace, Settlement(result, branch[b].awaits))
        /\ queue' = Append(queue, Resume(b, result)) /\ branch' = branch /\ stage' = stage
    BY <1>9, <2>2 DEF Settle, Idle, Started, Queued
  <2>4. \E C2, S2 \in Places :
          OnRecord(C2, S2, program, Append(trace, Settlement(result, branch[b].awaits)), branch,
                   Append(queue, Resume(b, result)))
    BY <1>2, <1>3, <2>3, RecordingSettle
  <2>5. \E C2, S2 \in Places : OnRecord(C2, S2, program', trace', branch', queue')
    BY <1>1, <2>3, <2>4
  <2> QED
    BY <1>6, <2>3, <2>5
<1> QED
  BY <1>5, <1>7, <1>8, <1>9 DEF Record

(* The program runs between its effects,                                   *)
LEMMA RunKeeps ==
  ASSUME Kept, Run
  PROVE  Kept'
<1>1. stage \in {"record", "replay"}
  BY DEF Run, Linger, StartBranch, EndBranch, ResumeJob
<1>2. UNCHANGED <<stage, program, candidate, trace, cursor, pending, mismatch>>
  BY DEF Run, Linger, StartBranch, EndBranch, ResumeJob, codeVars
<1>3. CASE stage = "record"
  <2>1. PICK C \in Places, S \in Places : OnRecord(C, S, program, trace, branch, queue)
    BY <1>3 DEF Kept
  <2>2. Code = program
    BY <1>3 DEF Code
  <2>3. Recorded(C, S, Code, trace) /\ Underway(C, S, Code, trace, Len(trace) + 1, branch, queue)
    BY <2>1, <2>2 DEF OnRecord
  <2>4. Len(trace) \in Nat
    BY <2>3, RecordedTypes
  <2>5. /\ Underway(C, S, Code, trace, Len(trace) + 1, branch', queue')
        /\ HasPump(queue') <=> HasPump(queue)
    BY <2>3, <2>4, ProgramStep
  <2>6. OnRecord(C, S, program, trace, branch', queue')
    BY <2>1, <2>2, <2>5 DEF OnRecord
  <2>7. \E C2, S2 \in Places : OnRecord(C2, S2, program', trace', branch', queue')
    BY <1>2, <2>6
  <2> QED
    BY <1>2, <1>3, <2>7 DEF Kept
<1>4. CASE stage = "replay" /\ candidate = program
  <2>1. PICK C \in Places, S \in Places : OnReplay(C, S, program, trace, cursor, branch, queue, pending)
    BY <1>4 DEF Kept
  <2>2. Code = program
    BY <1>4 DEF Code
  <2>3. /\ Recorded(C, S, Code, trace) /\ Underway(C, S, Code, trace, cursor, branch, queue)
        /\ cursor \in Nat
    BY <2>1, <2>2, ReplayTypes
  <2>4. /\ Underway(C, S, Code, trace, cursor, branch', queue')
        /\ HasPump(queue') <=> HasPump(queue)
    BY <2>3, ProgramStep
  <2>5. OnReplay(C, S, program, trace, cursor, branch', queue', pending)
    BY <2>1, <2>2, <2>4 DEF OnReplay
  <2>6. \E C2, S2 \in Places : OnReplay(C2, S2, program', trace', cursor', branch', queue', pending')
    BY <1>2, <2>5
  <2> QED
    BY <1>2, <1>4, <2>6 DEF Kept
<1>5. CASE stage = "replay" /\ candidate # program
  BY <1>2, <1>5 DEF Kept
<1> QED
  BY <1>1, <1>3, <1>4, <1>5

(* and its replay follows the recording.                                   *)
LEMMA ReplayKeeps ==
  ASSUME \A p \in Programs : Joined(p), Kept, Replay
  PROVE  Kept'
<1>1. stage = "replay" /\ stage' \in {"replay", "done"} /\ UNCHANGED <<program, candidate, trace>>
  BY DEF Replay, PumpJob, Stall, ReplayEnds, ReplayAsync, ReplaySync, ReplayDiverges, codeVars
<1>2. program \in Programs
  BY DEF Kept
<1>3. CASE candidate # program
  BY <1>1, <1>2, <1>3 DEF Kept
<1>4. CASE candidate = program
  <2>1. Code = program /\ program \in [Branch -> Seq(Operation)] /\ Joined(program)
    BY <1>1, <1>2, <1>4, ReplayAssumption DEF Code
  <2>2. PICK C \in Places, S \in Places : OnReplay(C, S, program, trace, cursor, branch, queue, pending)
    BY <1>1, <1>4 DEF Kept
  <2>3. ~mismatch
    BY <1>1, <1>4 DEF Kept
  <2>4. /\ cursor \in Nat
        /\ Standing(C, S, program, trace, cursor, branch) /\ queue \in Seq(Job)
    BY <2>2, ReplayTypes
  <2>5. Idle /\ Started => \A b \in Branch : branch[b].status \notin {"fresh", "running"}
    BY DEF Idle, Started
  <2>6. ASSUME OnReplay(C, S, program, trace, cursor', branch', queue', pending'),
               stage' = "replay", mismatch' = mismatch
        PROVE  Kept'
    <3>1. \E C2, S2 \in Places : OnReplay(C2, S2, program', trace', cursor', branch', queue', pending')
      BY <1>1, <2>6
    <3> QED
      BY <1>1, <1>2, <2>3, <2>6, <3>1 DEF Kept
  <2>7. CASE PumpJob
    <3>1. OnReplay(C, S, program, trace, cursor', branch', queue', pending')
      <4>1. OnReplay(C, S, program, trace, cursor', branch, queue', pending')
        BY <2>2, <2>3, <2>7, PumpStep
      <4>2. branch' = branch
        BY <2>7 DEF PumpJob
      <4> QED
        BY <4>1, <4>2
    <3>2. stage' = "replay" /\ mismatch' = mismatch
      BY <2>7 DEF PumpJob
    <3> QED
      BY <2>6, <3>1, <3>2
  <2>8. ~Stall
    <3> SUFFICES ASSUME Stall PROVE FALSE
      OBVIOUS
    <3>1. queue = <<>> /\ ~Over(branch) /\ \A b \in Branch : branch[b].status \notin {"fresh", "running"}
      BY <2>5 DEF Stall, Stalled
    <3> QED
      BY <2>2, <2>4, <3>1, NeverStalls
  <2>9. CASE ReplayEnds
    <3>1. queue # <<>> /\ queue[1] = End /\ \A b \in Branch : branch[b].status \notin {"fresh", "running"}
      BY <2>4, <2>5, <2>9 DEF ReplayEnds, EndIsDue
    <3>2. cursor = Len(trace) + 1 /\ pending = {}
      BY <2>2, <2>4, <3>1, NothingMissing
    <3>3. ~mismatch' /\ stage' = "done"
      BY <2>3, <2>9, <3>2 DEF ReplayEnds, Missing
    <3> QED
      BY <1>1, <1>2, <3>3 DEF Kept
  <2>10. ASSUME NEW b \in Branch, ReplayAsync(b)
         PROVE  Kept'
    <3>1. OnReplay(C, S, program, trace, cursor', branch', queue', pending')
      BY <2>1, <2>2, <2>3, <2>10, AsyncStep
    <3>2. stage' = "replay" /\ mismatch' = mismatch
      BY <2>10 DEF ReplayAsync
    <3> QED
      BY <2>6, <3>1, <3>2
  <2>11. ASSUME NEW b \in Branch, ReplaySync(b)
         PROVE  Kept'
    <3>1. OnReplay(C, S, program, trace, cursor', branch', queue', pending')
      BY <2>1, <2>2, <2>3, <2>11, SyncStep
    <3>2. stage' = "replay" /\ mismatch' = mismatch
      BY <2>11 DEF ReplaySync
    <3> QED
      BY <2>6, <3>1, <3>2
  <2>12. ASSUME NEW b \in Branch, ReplayDiverges(b)
         PROVE  FALSE
    <3>1. /\ branch[b].status = "running" /\ branch[b].done < Len(program[b])
          /\ ~Answerable(program[b][branch[b].done + 1])
      BY <2>1, <2>12 DEF ReplayDiverges, Performs, NextEffect
    <3>2. CallFound(C, S, program, b)
      BY <2>1, <2>2, <2>3, <3>1, CallMet
    <3> QED
      BY <3>1, <3>2 DEF CallFound
  <2> QED
    BY <2>7, <2>8, <2>9, <2>10, <2>11, <2>12 DEF Replay
<1> QED
  BY <1>3, <1>4

(* The replay of a program that did not change never ends in a mismatch, if *)
(* the branches that run side by side perform only asynchronous effects:    *)
(* whatever the order in which the outside world settled them.              *)
THEOREM UnchangedReproduces ==
  ASSUME \A p \in Programs : Joined(p)
  PROVE  ReplaySpec => []Reproduces
<1>1. ReplayInit => Kept
  BY KeptInit
<1>2. Kept /\ [ReplayStep]_replayVars => Kept'
  <2> SUFFICES ASSUME Kept, [ReplayStep]_replayVars
               PROVE  Kept'
    OBVIOUS
  <2>1. CASE Record
    BY <2>1, RecordKeeps
  <2>2. CASE Replay
    BY <2>2, ReplayKeeps
  <2>3. CASE Run
    BY <2>3, RunKeeps
  <2>4. CASE UNCHANGED replayVars
    BY <2>4 DEF Kept, replayVars
  <2> QED
    BY <2>1, <2>2, <2>3, <2>4 DEF ReplayStep
<1>3. Kept => Reproduces
  BY DEF Kept, Reproduces
<1> QED
  BY <1>1, <1>2, <1>3, PTL DEF ReplaySpec

-----------------------------------------------------------------------------
(* The effects of a replay that passes *)

(* What has been replayed: the calls before the cursor,                     *)
CallsBefore(t, cur, operation) ==
  {k \in 1 .. cur - 1 : t[k].kind = "call" /\ t[k].operation = operation}

(* and what the program has done.                                          *)
EffectsDone(t, p, br, operation) ==
  {x \in Branch \X (1 .. Len(t)) : x[2] <= br[x[1]].done /\ p[x[1]][x[2]] = operation}

Paired(t, p, cur, br) ==
  \A operation \in Operation :
    Cardinality(CallsBefore(t, cur, operation)) = Cardinality(EffectsDone(t, p, br, operation))

(* No branch has done more effects than there are events before the cursor. *)
Within(cur, br) == \A b \in Branch : br[b].done < cur

(* Settlements are passed over.                                            *)
LEMMA NoCallBetween ==
  ASSUME NEW t, NEW cur \in Nat, cur # 0, NEW next \in Nat, cur <= next,
         \A k \in cur .. next - 1 : t[k].kind # "call", NEW operation
  PROVE  CallsBefore(t, next, operation) = CallsBefore(t, cur, operation)
<1>1. ASSUME NEW k
      PROVE  k \in CallsBefore(t, next, operation) <=> k \in CallsBefore(t, cur, operation)
  <2>1. k \in 1 .. next - 1 <=> k \in 1 .. cur - 1 \/ k \in cur .. next - 1
    OBVIOUS
  <2> QED
    BY <2>1 DEF CallsBefore
<1> QED
  BY <1>1

(* Both are finite.                                                        *)
LEMMA CountsFinite ==
  ASSUME NEW t, Len(t) \in Nat, NEW p, NEW cur \in Nat, NEW br, NEW operation
  PROVE  /\ IsFiniteSet(CallsBefore(t, cur, operation))
         /\ IsFiniteSet(EffectsDone(t, p, br, operation))
<1>1. IsFiniteSet(1 .. cur - 1) /\ IsFiniteSet(1 .. Len(t)) /\ IsFiniteSet(Branch)
  BY FS_Interval, ReplayAssumption DEF Branch
<1>2. IsFiniteSet(Branch \X (1 .. Len(t)))
  BY <1>1, FS_Product
<1>3. /\ CallsBefore(t, cur, operation) \subseteq 1 .. cur - 1
      /\ EffectsDone(t, p, br, operation) \subseteq Branch \X (1 .. Len(t))
  BY DEF CallsBefore, EffectsDone
<1> QED
  BY <1>1, <1>2, <1>3, FS_Subset

(* A call that is replayed is one of each.                                 *)
LEMMA CallReplayed ==
  ASSUME NEW t, NEW p, NEW cur \in Nat, NEW br, NEW br2, NEW it, NEW next, NEW b \in Branch,
         Paired(t, p, cur, br), Within(cur, br), \A c \in Branch : br[c].done \in Nat,
         Len(t) \in Nat, cur # 0, it \in cur .. Len(t), next = it + 1, t[it].kind = "call",
         \A k \in cur .. it - 1 : t[k].kind # "call",
         t[it].operation = p[b][br[b].done + 1],
         br2[b].done = br[b].done + 1, \A c \in Branch : c # b => br2[c].done = br[c].done
  PROVE  Paired(t, p, next, br2) /\ Within(next, br2)
<1> DEFINE n == br[b].done + 1
<1>1. n \in 1 .. Len(t) /\ n <= it /\ it \in Nat /\ it # 0 /\ br[b].done \in Nat
  BY DEF Within
<1>2. Within(it + 1, br2)
  <2> SUFFICES ASSUME NEW c \in Branch
               PROVE  br2[c].done < it + 1
    BY DEF Within
  <2>1. br[c].done < cur /\ br[c].done \in Nat
    BY DEF Within
  <2>2. CASE c = b
    BY <1>1, <2>2
  <2>3. CASE c # b
    BY <1>1, <2>1, <2>3
  <2> QED
    BY <2>2, <2>3
<1>3. ASSUME NEW operation \in Operation
      PROVE  Cardinality(CallsBefore(t, it + 1, operation)) = Cardinality(EffectsDone(t, p, br2, operation))
  <2> DEFINE calls == CallsBefore(t, cur, operation)
             done == EffectsDone(t, p, br, operation)
  <2>1. IsFiniteSet(calls) /\ IsFiniteSet(done) /\ Cardinality(calls) = Cardinality(done)
    BY CountsFinite DEF Paired
  <2>2. CallsBefore(t, it, operation) = calls
    BY <1>1, NoCallBetween
  <2>3. /\ it \notin calls
        /\ CallsBefore(t, it + 1, operation) = IF t[it].operation = operation THEN calls \cup {it} ELSE calls
    <3>1. it \notin CallsBefore(t, it, operation)
      BY <1>1 DEF CallsBefore
    <3>2. ASSUME NEW k
          PROVE  k \in CallsBefore(t, it + 1, operation) <=>
                   k \in CallsBefore(t, it, operation) \/ (k = it /\ t[it].operation = operation)
      <4>1. k \in 1 .. (it + 1) - 1 <=> k \in 1 .. it - 1 \/ k = it
        BY <1>1
      <4> QED
        BY <4>1 DEF CallsBefore
    <3>3. it \notin calls
      BY <2>2, <3>1
    <3>4. \A k : k \in CallsBefore(t, it + 1, operation) <=>
                  k \in calls \/ (k = it /\ t[it].operation = operation)
      BY <2>2, <3>2
    <3> HIDE DEF calls
    <3>5. CASE t[it].operation = operation
      BY <3>3, <3>4, <3>5
    <3>6. CASE t[it].operation # operation
      BY <3>3, <3>4, <3>6
    <3> QED
      BY <3>5, <3>6
  <2>4. /\ <<b, n>> \notin done
        /\ EffectsDone(t, p, br2, operation) =
             IF t[it].operation = operation THEN done \cup {<<b, n>>} ELSE done
    <3>1. <<b, n>> \notin done
      BY <1>1 DEF EffectsDone
    <3>2. ASSUME NEW x \in Branch \X (1 .. Len(t))
          PROVE  x \in EffectsDone(t, p, br2, operation) <=>
                   x \in done \/ (x = <<b, n>> /\ t[it].operation = operation)
      <4>1. x[1] \in Branch /\ x[2] \in 1 .. Len(t) /\ x = <<x[1], x[2]>>
        OBVIOUS
      <4>2. CASE x[1] = b
        <5>1. x[2] <= br2[x[1]].done <=> x[2] <= br[x[1]].done \/ x[2] = n
          BY <1>1, <4>1, <4>2
        <5>2. x[2] = n <=> x = <<b, n>>
          BY <4>1, <4>2
        <5>3. x[2] = n => p[x[1]][x[2]] = t[it].operation
          BY <4>2
        <5> HIDE DEF n
        <5> QED
          BY <5>1, <5>2, <5>3 DEF EffectsDone
      <4>3. CASE x[1] # b
        <5>1. br2[x[1]].done = br[x[1]].done /\ x # <<b, n>>
          BY <4>1, <4>3
        <5> QED
          BY <5>1 DEF EffectsDone
      <4> QED
        BY <4>2, <4>3
    <3>3. /\ done \subseteq Branch \X (1 .. Len(t)) /\ <<b, n>> \in Branch \X (1 .. Len(t))
          /\ EffectsDone(t, p, br2, operation) \subseteq Branch \X (1 .. Len(t))
      BY <1>1 DEF EffectsDone
    <3> HIDE DEF done, n
    <3> QED
      BY <3>1, <3>2, <3>3
  <2> HIDE DEF calls, done, n
  <2>5. /\ Cardinality(calls \cup {it}) = Cardinality(calls) + 1
        /\ Cardinality(done \cup {<<b, n>>}) = Cardinality(done) + 1
    BY <2>1, <2>3, <2>4, FS_AddElement
  <2> QED
    BY <2>1, <2>3, <2>4, <2>5
<1>4. Paired(t, p, it + 1, br2)
  BY <1>3 DEF Paired
<1> QED
  BY <1>2, <1>4

(* The invariant *)

ReplayedEvent == [kind : {"call"}, id : Int, operation : Operation]
                   \cup [kind : {"return", "throw"}, id : Int]

Reckoned ==
  /\ stage \in {"record", "discarded", "replay", "done"}
  /\ program \in Programs /\ candidate \in Programs /\ mismatch \in BOOLEAN
  /\ trace \in Seq(ReplayedEvent) /\ branch \in [Branch -> BranchState]
  /\ stage = "record" => cursor = 1
  /\ stage = "replay" /\ ~mismatch =>
       /\ cursor \in 1 .. Len(trace) + 1
       /\ Within(cursor, branch) /\ Paired(trace, candidate, cursor, branch)
  /\ stage = "done" /\ ~mismatch =>
       cursor = Len(trace) + 1 /\ Paired(trace, candidate, cursor, branch)

(* What is performed is an effect.                                         *)
LEMMA EffectsAre ==
  ASSUME Reckoned, NEW b \in Branch, Performs(b)
  PROVE  NextEffect(b) \in Operation
<1>1. Code \in [Branch -> Seq(Operation)] /\ branch[b].done \in Nat
  BY ReplayAssumption DEF Reckoned, Code, BranchState
<1>2. Code[b] \in Seq(Operation) /\ branch[b].done + 1 \in 1 .. Len(Code[b])
  BY <1>1 DEF Performs
<1> QED
  BY <1>2 DEF NextEffect

(* Nothing is paired with nothing.                                         *)
LEMMA NothingPaired ==
  ASSUME NEW t, Len(t) \in Nat, NEW p
  PROVE  Paired(t, p, 1, FreshBranches) /\ Within(1, FreshBranches)
<1>1. \A b \in Branch : FreshBranches[b].done = 0
  BY DEF FreshBranches
<1>2. ASSUME NEW operation
      PROVE  CallsBefore(t, 1, operation) = {} /\ EffectsDone(t, p, FreshBranches, operation) = {}
  <2>1. \A x \in Branch \X (1 .. Len(t)) : ~(x[2] <= FreshBranches[x[1]].done)
    <3> SUFFICES ASSUME NEW x \in Branch \X (1 .. Len(t))
                 PROVE  ~(x[2] <= FreshBranches[x[1]].done)
      OBVIOUS
    <3>1. x[1] \in Branch /\ x[2] \in 1 .. Len(t)
      OBVIOUS
    <3> QED
      BY <1>1, <3>1
  <2> QED
    BY <2>1 DEF CallsBefore, EffectsDone
<1>3. Within(1, FreshBranches)
  BY <1>1 DEF Within
<1> QED
  BY <1>2, <1>3 DEF Paired

(* Nothing is replayed at first.                                           *)
LEMMA ReckonedInit ==
  ReplayInit => Reckoned
<1> SUFFICES ASSUME ReplayInit
             PROVE  Reckoned
  OBVIOUS
<1>1. candidate \in Programs
  BY DEF ReplayInit
<1>2. FreshBranches \in [Branch -> BranchState]
  BY DEF FreshBranches, BranchState
<1>3. <<>> \in Seq(ReplayedEvent)
  OBVIOUS
<1> QED
  BY <1>1, <1>2, <1>3 DEF ReplayInit, Reckoned

(* Ids are numbers.                                                        *)
LEMMA NextIdIs ==
  ASSUME Len(trace) \in Nat, DOMAIN trace = 1 .. Len(trace)
  PROVE  NextId \in Nat
<1> DEFINE calls == {n \in DOMAIN trace : trace[n].kind = "call"}
<1>1. calls \subseteq 1 .. Len(trace) /\ IsFiniteSet(1 .. Len(trace))
  BY FS_Interval
<1>2. Cardinality(calls) \in Nat
  <2> HIDE DEF calls
  <2> QED
    BY <1>1, FS_Subset, FS_CardinalityType
<1> QED
  BY <1>2 DEF NextId

(* The replay begins with nothing done and nothing replayed.               *)
LEMMA RecordReckoned ==
  ASSUME Reckoned, Record
  PROVE  Reckoned'
<1>1. /\ stage = "record" /\ cursor = 1 /\ Len(trace) \in Nat
      /\ trace \in Seq(ReplayedEvent) /\ branch \in [Branch -> BranchState]
      /\ program \in Programs /\ candidate \in Programs /\ mismatch \in BOOLEAN
      /\ UNCHANGED <<program, candidate, cursor, mismatch>>
  <2>1. stage = "record" /\ UNCHANGED <<program, candidate, cursor, mismatch>>
    BY DEF Record, RecordEnds, RecordAsync, RecordSync, Settle, codeVars
  <2> QED
    BY <2>1 DEF Reckoned
<1>2. ASSUME trace' \in Seq(ReplayedEvent), branch' \in [Branch -> BranchState], stage' = stage
      PROVE  Reckoned'
  BY <1>1, <1>2 DEF Reckoned
<1>3. NextId \in Nat
  BY <1>1, NextIdIs
<1>4. CASE RecordEnds
  <2>1. CASE stage' = "discarded"
    <3>1. trace' = trace /\ branch' = branch
      BY <1>4, <2>1 DEF RecordEnds
    <3> QED
      BY <1>1, <2>1, <3>1 DEF Reckoned
  <2>2. CASE stage' # "discarded"
    <3>1. stage' = "replay" /\ branch' = FreshBranches /\ trace' = trace
      BY <1>4, <2>2 DEF RecordEnds
    <3>2. Paired(trace, candidate, 1, FreshBranches) /\ Within(1, FreshBranches)
      BY <1>1, NothingPaired
    <3>3. Paired(trace', candidate', cursor', branch') /\ Within(cursor', branch')
      BY <1>1, <3>1, <3>2
    <3>4. FreshBranches \in [Branch -> BranchState] /\ 1 \in 1 .. Len(trace) + 1
      BY <1>1 DEF FreshBranches, BranchState
    <3> QED
      BY <1>1, <3>1, <3>3, <3>4 DEF Reckoned
  <2> QED
    BY <2>1, <2>2
<1>5. ASSUME NEW b \in Branch, RecordAsync(b)
      PROVE  Reckoned'
  <2>1. NextEffect(b) \in Operation
    BY <1>5, EffectsAre DEF RecordAsync
  <2>2. CallEvent(NextId, NextEffect(b)) \in ReplayedEvent
    BY <1>3, <2>1 DEF CallEvent, ReplayedEvent
  <2>3. trace' \in Seq(ReplayedEvent)
    BY <1>1, <1>5, <2>2 DEF RecordAsync
  <2>4. branch' \in [Branch -> BranchState]
    <3>1. NextId \in Int
      BY <1>3
    <3>2. Awaiting(branch, b, NextId) \in [Branch -> BranchState]
      BY <1>1, <3>1, AwaitingState
    <3> QED
      BY <1>5, <3>2 DEF RecordAsync
  <2> QED
    BY <1>2, <1>5, <2>3, <2>4 DEF RecordAsync
<1>6. ASSUME NEW b \in Branch, NEW result \in {"return", "throw"}, RecordSync(b, result)
      PROVE  Reckoned'
  <2>1. NextEffect(b) \in Operation
    BY <1>6, EffectsAre DEF RecordSync
  <2>2. CallEvent(NextId, NextEffect(b)) \in ReplayedEvent /\ Settlement(result, NextId) \in ReplayedEvent
    BY <1>3, <2>1 DEF CallEvent, Settlement, ReplayedEvent
  <2>3. trace' \in Seq(ReplayedEvent)
    BY <1>1, <1>6, <2>2 DEF RecordSync
  <2>4. Answered(branch, b, result) \in [Branch -> BranchState]
    BY <1>1, AnsweredState
  <2> QED
    BY <1>2, <1>6, <2>3, <2>4 DEF RecordSync, AdvanceTo
<1>7. ASSUME NEW b \in Branch, NEW result \in {"return", "throw"}, Settle(b, result)
      PROVE  Reckoned'
  <2>1. branch[b].awaits \in Int
    BY <1>1 DEF BranchState
  <2>2. Settlement(result, branch[b].awaits) \in ReplayedEvent
    BY <2>1 DEF Settlement, ReplayedEvent
  <2>3. trace' \in Seq(ReplayedEvent)
    BY <1>1, <1>7, <2>2 DEF Settle
  <2> QED
    BY <1>1, <1>2, <1>7, <2>3 DEF Settle
<1> QED
  BY <1>4, <1>5, <1>6, <1>7 DEF Record

LEMMA RunReckoned ==
  ASSUME Reckoned, Run
  PROVE  Reckoned'
<1>1. /\ stage \in {"record", "replay"} /\ Len(trace) \in Nat
      /\ UNCHANGED <<stage, program, candidate, trace, cursor, mismatch>>
  <2>1. /\ stage \in {"record", "replay"}
        /\ UNCHANGED <<stage, program, candidate, trace, cursor, mismatch>>
    BY DEF Run, Linger, StartBranch, EndBranch, ResumeJob, codeVars
  <2> QED
    BY <2>1 DEF Reckoned
<1>2. branch \in [Branch -> BranchState]
  BY DEF Reckoned
<1>3. /\ branch' \in [Branch -> BranchState]
      /\ \A b \in Branch : branch'[b].done = branch[b].done
  <2>1. CASE Linger
    BY <1>2, <2>1 DEF Linger
  <2>2. ASSUME NEW b \in Branch,
               NEW to \in {"fresh", "running", "waiting", "finished", "failed"},
               branch' = [branch EXCEPT ![b].status = to]
        PROVE  /\ branch' \in [Branch -> BranchState]
               /\ \A c \in Branch : branch'[c].done = branch[c].done
    BY <1>2, <2>2 DEF BranchState
  <2>3. ASSUME NEW b \in Branch, StartBranch(b)
        PROVE  branch' = [branch EXCEPT ![b].status = "running"]
    BY <2>3 DEF StartBranch
  <2>4. ASSUME NEW b \in Branch, EndBranch(b)
        PROVE  branch' = [branch EXCEPT ![b].status = "finished"]
    BY <2>4 DEF EndBranch, AdvanceTo
  <2>5. ASSUME NEW b \in Branch, NEW result, ResumeJob(b, result)
        PROVE  \E to \in {"running", "failed"} : branch' = [branch EXCEPT ![b].status = to]
    BY <2>5 DEF ResumeJob, AdvanceTo
  <2> QED
    BY <2>1, <2>2, <2>3, <2>4, <2>5 DEF Run
<1>4. ASSUME Within(cursor, branch), Paired(trace, candidate, cursor, branch)
      PROVE  Within(cursor', branch') /\ Paired(trace', candidate', cursor', branch')
  <2>1. Within(cursor', branch')
    BY <1>1, <1>3, <1>4 DEF Within
  <2>2. ASSUME NEW operation
        PROVE  EffectsDone(trace, candidate, branch', operation) = EffectsDone(trace, candidate, branch, operation)
    <3>1. \A x \in Branch \X (1 .. Len(trace)) : branch'[x[1]].done = branch[x[1]].done
      BY <1>3
    <3> QED
      BY <3>1 DEF EffectsDone
  <2>3. Paired(trace, candidate, cursor, branch')
    BY <1>4, <2>2 DEF Paired
  <2> QED
    BY <1>1, <2>1, <2>3
<1> QED
  BY <1>1, <1>3, <1>4 DEF Reckoned

(* What the replay answers is paired.                                      *)
LEMMA ReplayReckoned ==
  ASSUME Reckoned, Replay
  PROVE  Reckoned'
<1>1. /\ stage = "replay" /\ stage' \in {"replay", "done"} /\ Len(trace) \in Nat
      /\ trace \in Seq(ReplayedEvent) /\ branch \in [Branch -> BranchState]
      /\ program \in Programs /\ candidate \in Programs /\ mismatch \in BOOLEAN
      /\ UNCHANGED <<program, candidate, trace>>
  <2>1. /\ stage = "replay" /\ stage' \in {"replay", "done"}
        /\ UNCHANGED <<program, candidate, trace>>
    BY DEF Replay, PumpJob, Stall, ReplayEnds, ReplayAsync, ReplaySync, ReplayDiverges, codeVars
  <2> QED
    BY <2>1 DEF Reckoned
<1>2. ~mismatch =>
        /\ cursor \in 1 .. Len(trace) + 1 /\ cursor \in Nat /\ cursor # 0
        /\ Within(cursor, branch) /\ Paired(trace, candidate, cursor, branch)
  BY <1>1 DEF Reckoned
<1>3. ASSUME branch' \in [Branch -> BranchState], mismatch' \in BOOLEAN, stage' = "replay",
             ~mismatch' =>
               /\ cursor' \in 1 .. Len(trace) + 1
               /\ Within(cursor', branch') /\ Paired(trace, candidate, cursor', branch')
      PROVE  Reckoned'
  BY <1>1, <1>3 DEF Reckoned
<1>4. CASE PumpJob
  <2>1. branch' = branch /\ mismatch' = mismatch /\ stage' = "replay" /\ cursor' = cursor + Deliverable
    BY <1>1, <1>4 DEF PumpJob
  <2>2. ASSUME ~mismatch
        PROVE  /\ cursor' \in 1 .. Len(trace) + 1
               /\ Within(cursor', branch) /\ Paired(trace, candidate, cursor', branch)
    <3>1. /\ Deliverable \in Nat /\ cursor + Deliverable <= Len(trace) + 1
          /\ \A k \in cursor .. cursor + Deliverable - 1 : trace[k].kind # "call"
      BY <1>1, <1>2, <2>2, DeliverableRun
    <3>2. PICK next \in 1 .. Len(trace) + 1 :
            /\ next = cursor + Deliverable /\ next \in Nat /\ cursor <= next
            /\ \A k \in cursor .. next - 1 : trace[k].kind # "call"
      BY <1>1, <1>2, <2>2, <3>1
    <3>3. \A operation : CallsBefore(trace, next, operation) = CallsBefore(trace, cursor, operation)
      BY <1>2, <2>2, <3>2, NoCallBetween
    <3>4. Paired(trace, candidate, next, branch)
      BY <1>2, <2>2, <3>3 DEF Paired
    <3>5. Within(next, branch)
      <4>1. \A b \in Branch : branch[b].done \in Nat /\ branch[b].done < cursor
        BY <1>1, <1>2, <2>2 DEF Within, BranchState
      <4> QED
        BY <1>2, <2>2, <3>2, <4>1 DEF Within
    <3> QED
      BY <2>1, <3>2, <3>4, <3>5
  <2> QED
    BY <1>1, <1>3, <2>1, <2>2
<1>5. CASE Stall
  <2>1. stage' = "done" /\ mismatch' = TRUE /\ branch' = branch
    BY <1>5 DEF Stall
  <2> QED
    BY <1>1, <2>1 DEF Reckoned
<1>6. CASE ReplayEnds
  <2>1. /\ stage' = "done" /\ branch' = branch /\ cursor' = cursor
        /\ mismatch' \in BOOLEAN
        /\ ~mismatch' => ~mismatch /\ cursor = Len(trace) + 1
    BY <1>1, <1>6 DEF ReplayEnds, Missing
  <2> QED
    BY <1>1, <1>2, <2>1 DEF Reckoned
<1>7. ASSUME NEW b \in Branch, ReplayDiverges(b)
      PROVE  Reckoned'
  <2>1. stage' = "replay" /\ mismatch' = TRUE
    BY <1>1, <1>7 DEF ReplayDiverges
  <2>2. PICK result \in {"return", "throw"} : branch' = Answered(branch, b, result)
    BY <1>7 DEF ReplayDiverges, AdvanceTo
  <2>3. Answered(branch, b, result) \in [Branch -> BranchState]
    BY <1>1, AnsweredState
  <2> QED
    BY <1>3, <2>1, <2>2, <2>3
<1>8. ASSUME NEW b \in Branch, Performs(b), Matches(NextEffect(b))
      PROVE  LET it == cursor + Deliverable
             IN  /\ ~mismatch /\ it \in cursor .. Len(trace) /\ Expected = {trace[it]}
                 /\ trace[it] \in ReplayedEvent /\ trace[it].kind = "call"
                 /\ \A k \in cursor .. it - 1 : trace[k].kind # "call"
                 /\ trace[it].operation = candidate[b][branch[b].done + 1]
  <2> DEFINE it == cursor + Deliverable
  <2>1. ~mismatch /\ \E event \in Expected : event.kind = "call" /\ event.operation = NextEffect(b)
    BY <1>8 DEF Matches
  <2>2. /\ Deliverable \in Nat /\ it <= Len(trace) + 1
        /\ \A k \in cursor .. it - 1 : trace[k].kind # "call"
    BY <1>1, <1>2, <2>1, DeliverableRun
  <2>3. it <= Len(trace) /\ Expected = {trace[it]}
    BY <2>1 DEF Expected
  <2>4. it \in cursor .. Len(trace) /\ it \in 1 .. Len(trace)
    BY <1>1, <1>2, <2>1, <2>2, <2>3
  <2>5. NextEffect(b) = candidate[b][branch[b].done + 1]
    BY <1>1 DEF NextEffect, Code
  <2> HIDE DEF it
  <2>6. trace[it] \in ReplayedEvent
    BY <1>1, <2>4
  <2>7. trace[it].kind = "call" /\ trace[it].operation = NextEffect(b)
    BY <2>1, <2>3
  <2> QED
    BY <2>1, <2>2, <2>3, <2>4, <2>5, <2>6, <2>7 DEF it
<1>9. \A c \in Branch : branch[c].done \in Nat
  BY <1>1 DEF BranchState
<1>10. ASSUME NEW b \in Branch, ReplayAsync(b)
       PROVE  Reckoned'
  <2> DEFINE it == cursor + Deliverable
             after == it + 1
             br2 == Awaiting(branch, b, trace[it].id)
  <2>1. /\ ~mismatch /\ it \in cursor .. Len(trace) /\ Expected = {trace[it]}
        /\ trace[it] \in ReplayedEvent /\ trace[it].kind = "call"
        /\ \A k \in cursor .. it - 1 : trace[k].kind # "call"
        /\ trace[it].operation = candidate[b][branch[b].done + 1]
    BY <1>8, <1>10 DEF ReplayAsync
  <2>2. branch' = br2 /\ mismatch' = mismatch /\ stage' = "replay" /\ cursor' = after
    BY <1>1, <1>10, <2>1 DEF ReplayAsync
  <2> HIDE DEF it
  <2>3. trace[it].id \in Int
    BY <2>1 DEF ReplayedEvent
  <2>4. /\ br2 \in [Branch -> BranchState] /\ br2[b].done = branch[b].done + 1
        /\ \A c \in Branch : c # b => br2[c].done = branch[c].done
    BY <1>1, <2>3, AwaitingState
  <2>5. after = it + 1 /\ after \in 1 .. Len(trace) + 1
    BY <1>1, <1>2, <2>1
  <2> HIDE DEF br2, after
  <2>6. Paired(trace, candidate, after, br2) /\ Within(after, br2)
    <3>1. /\ Len(trace) \in Nat /\ cursor \in Nat /\ cursor # 0
          /\ Paired(trace, candidate, cursor, branch) /\ Within(cursor, branch)
          /\ \A c \in Branch : branch[c].done \in Nat
      BY <1>1, <1>2, <1>9, <2>1
    <3>2. /\ it \in cursor .. Len(trace) /\ trace[it].kind = "call"
          /\ \A k \in cursor .. it - 1 : trace[k].kind # "call"
          /\ trace[it].operation = candidate[b][branch[b].done + 1]
      BY <2>1
    <3>3. br2[b].done = branch[b].done + 1 /\ \A c \in Branch : c # b => br2[c].done = branch[c].done
      BY <2>4
    <3> QED
      BY <2>5, <3>1, <3>2, <3>3, CallReplayed, ZenonT(30)
  <2> QED
    BY <1>1, <1>3, <2>2, <2>4, <2>5, <2>6
<1>11. ASSUME NEW b \in Branch, ReplaySync(b)
       PROVE  Reckoned'
  <2> DEFINE it == cursor + Deliverable
             after == it + 1
             next == it + 2
             br2 == Answered(branch, b, trace[it + 1].kind)
  <2>1. /\ ~mismatch /\ it \in cursor .. Len(trace) /\ Expected = {trace[it]}
        /\ trace[it] \in ReplayedEvent /\ trace[it].kind = "call"
        /\ \A k \in cursor .. it - 1 : trace[k].kind # "call"
        /\ trace[it].operation = candidate[b][branch[b].done + 1]
    BY <1>8, <1>11 DEF ReplaySync
  <2>2. /\ branch' = br2 /\ mismatch' = mismatch /\ stage' = "replay" /\ cursor' = next
        /\ it + 1 <= Len(trace) /\ trace[it + 1].kind # "call"
    BY <1>1, <1>11, <2>1 DEF ReplaySync, AdvanceTo
  <2> HIDE DEF it
  <2>3. /\ br2 \in [Branch -> BranchState] /\ br2[b].done = branch[b].done + 1
        /\ \A c \in Branch : c # b => br2[c].done = branch[c].done
    BY <1>1, AnsweredState
  <2>4. Paired(trace, candidate, after, br2) /\ Within(after, br2)
    <3> HIDE DEF br2, after
    <3>0. after = it + 1
      BY DEF after
    <3>1. /\ Len(trace) \in Nat /\ cursor \in Nat /\ cursor # 0
          /\ Paired(trace, candidate, cursor, branch) /\ Within(cursor, branch)
          /\ \A c \in Branch : branch[c].done \in Nat
      BY <1>1, <1>2, <1>9, <2>1
    <3>2. /\ it \in cursor .. Len(trace) /\ trace[it].kind = "call"
          /\ \A k \in cursor .. it - 1 : trace[k].kind # "call"
          /\ trace[it].operation = candidate[b][branch[b].done + 1]
      BY <2>1
    <3>3. br2[b].done = branch[b].done + 1 /\ \A c \in Branch : c # b => br2[c].done = branch[c].done
      BY <2>3
    <3> QED
      BY <3>0, <3>1, <3>2, <3>3, CallReplayed, ZenonT(30)
  <2>5. /\ after \in Nat /\ after # 0 /\ next \in Nat /\ after <= next
        /\ next \in 1 .. Len(trace) + 1 /\ \A k \in after .. next - 1 : k = after
        /\ trace[after].kind # "call"
    BY <1>1, <1>2, <2>1, <2>2
  <2> HIDE DEF br2, next, after
  <2>6. \A operation : CallsBefore(trace, next, operation) = CallsBefore(trace, after, operation)
    BY <2>5, NoCallBetween, ZenonT(30)
  <2>7. Paired(trace, candidate, next, br2)
    BY <2>4, <2>6 DEF Paired
  <2>8. Within(next, br2)
    <3>1. \A c \in Branch : br2[c].done \in Nat /\ br2[c].done < after
      BY <2>3, <2>4 DEF Within, BranchState
    <3> QED
      BY <2>5, <3>1 DEF Within
  <2> QED
    BY <1>1, <1>3, <2>2, <2>3, <2>5, <2>7, <2>8
<1> QED
  BY <1>4, <1>5, <1>6, <1>7, <1>10, <1>11 DEF Replay

(* A replay that passes has performed each effect as often as the trace has *)
(* calls of it: for any programs, whether joined or not, and also if the    *)
(* code that is replayed catches what the engine throws.                    *)
THEOREM PassedIsSame == ReplaySpec => []SameEffects
<1>1. ReplayInit => Reckoned
  BY ReckonedInit
<1>2. Reckoned /\ [ReplayStep]_replayVars => Reckoned'
  <2> SUFFICES ASSUME Reckoned, [ReplayStep]_replayVars
               PROVE  Reckoned'
    OBVIOUS
  <2>1. CASE Record
    BY <2>1, RecordReckoned
  <2>2. CASE Replay
    BY <2>2, ReplayReckoned
  <2>3. CASE Run
    BY <2>3, RunReckoned
  <2>4. CASE UNCHANGED replayVars
    BY <2>4 DEF Reckoned, replayVars
  <2> QED
    BY <2>1, <2>2, <2>3, <2>4 DEF ReplayStep
<1>3. Reckoned => SameEffects
  <2> SUFFICES ASSUME Reckoned, stage = "done", ~mismatch, NEW operation \in Operation
               PROVE  Cardinality({n \in DOMAIN trace :
                                     trace[n].kind = "call" /\ trace[n].operation = operation})
                      = Cardinality({x \in Branch \X (1 .. Len(trace)) :
                                       x[2] <= branch[x[1]].done /\ candidate[x[1]][x[2]] = operation})
    BY DEF SameEffects
  <2>1. Len(trace) \in Nat /\ DOMAIN trace = 1 .. Len(trace) /\ cursor = Len(trace) + 1
    BY DEF Reckoned
  <2>2. 1 .. cursor - 1 = DOMAIN trace
    BY <2>1
  <2>3. Paired(trace, candidate, cursor, branch)
    BY DEF Reckoned
  <2> QED
    BY <2>2, <2>3 DEF Paired, CallsBefore, EffectsDone
<1> QED
  BY <1>1, <1>2, <1>3, PTL DEF ReplaySpec
=============================================================================
