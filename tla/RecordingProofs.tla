---------------------------- MODULE RecordingProofs ----------------------------
(***************************************************************************)
(* Proofs about what is recorded.  Of Recording: for any calls and inputs, *)
(* and however many sessions, reviews and faults there are, a record       *)
(* command that exits 0 has counted what completed, an input that behaved  *)
(* in two ways keeps no candidate, and cases change as decided.            *)
(* Of Values: whatever the objects of a call and the limits are, what is   *)
(* accepted says all that its objects say, its arguments decode to objects *)
(* that encode to them again, and the verdict of a replay is true.         *)
(***************************************************************************)
EXTENDS Recording, Values, FiniteSetTheorems, SequenceTheorems, WellFoundedInduction, TLAPS

-----------------------------------------------------------------------------
(* The strengthening: its vocabulary                                        *)

Stages == {"idle", "skipped", "writing", "reporting", "sealed", "reported", "lost"}
Phases == {"idle", "child", "listing", "reading", "writing", "exiting"}
Readings == [writer : Calls, chunks : {0, 1}]
Candidates == [completion : Completions, assumption : BOOLEAN, captured : {"complete", "partial"}]
Cases == [completion : Completions, assumption : BOOLEAN, comparison : {"exact", "tolerance"}]
Shown == [input : Inputs, candidate : Candidates]

Typed ==
  /\ stage \in [Calls -> Stages] /\ disk \in [Calls -> 0 .. 4]
  /\ phase \in Phases
  /\ reading \in {Absent} \cup Readings
  /\ counted \subseteq Calls
  /\ writing \in [Inputs -> {Absent} \cup Candidates]
  /\ pending \in [Inputs -> {Absent} \cup Candidates]
  /\ cases \in [Inputs -> {Absent} \cup Cases]
  /\ queue \in Seq(Shown)
  /\ accepted \in [inputs : SUBSET Inputs, files : SUBSET STRING]

(* What a call has reached can be told from the session's directory.        *)
Written ==
  \A c \in Calls :
    /\ stage[c] \in {"idle", "skipped"} => disk[c] = 0
    /\ stage[c] = "writing" => disk[c] <= 3
    /\ stage[c] = "sealed" => disk[c] = 4
    /\ stage[c] = "reported" => c \in markers

(* Calls whose recording left no trace the listing had to find.             *)
Untraced(c) == stage[c] \in {"idle", "skipped", "lost"} \/ c \in late

(* After the child, only the writers that were at work go on.               *)
Outlived ==
  phase \in {"listing", "reading"} =>
    \A c \in Calls : Untraced(c) \/ stage[c] \in {"sealed", "reported"}

(* As long as there is nothing to report, a writer was found unless it left *)
(* no trace, and one that was found is still to be read, or counted, or is  *)
(* about to be reported for a record it does not have.                      *)
Tallied ==
  phase = "reading" /\ failures = {} =>
    /\ \A c \in Calls \ listed : Untraced(c)
    /\ \A c \in listed :
         \/ c \in unread \cup counted
         \/ reading # Absent /\ reading.writer = c /\ reading.chunks = 0

Early == {"idle", "child", "listing", "reading"}
Nondeterministic(i) == Cardinality(Seen(i, made)) > 1

(* A nondeterministic input has its block still to come, or is blocked with *)
(* neither a candidate nor one still to be written.                         *)
Dropping ==
  /\ phase \in Early => made = <<>>
  /\ phase = "writing" =>
       \A i \in Inputs :
         Nondeterministic(i) =>
           \/ i \in blocking
           \/ writing[i] = Absent /\ pending[i] = Absent /\ i \in blocked

(* What is unlinked or accepted in a row was accepted with its module.      *)
Asked ==
  /\ asking # "no" => queue # <<>>
  /\ asking \in {"unlink-all", "all"} => FileOf[Current] \in accepted.files

IInv == /\ Typed /\ Written /\ Outlived /\ Tallied
        /\ Dropping /\ NondeterministicDropped
        /\ Asked

-----------------------------------------------------------------------------
(* Facts about the definitions of the model                                 *)

(* The inputs are finite in number, so that sets of them can be counted. *)
LEMMA InputsFinite ==
  /\ Inputs = 1 .. Len(FileOf)
  /\ IsFiniteSet(Inputs)
  /\ Valueless \notin Inputs
<1>1. Inputs = 1 .. Len(FileOf) /\ Len(FileOf) \in Nat
  BY RecordingAssumption DEF Inputs
<1> QED  BY <1>1, FS_Interval DEF Valueless

(* Nothing is seen in no records.                                           *)
LEMMA NothingSeen ==
  ASSUME NEW i
  PROVE  ~(Cardinality(Seen(i, <<>>)) > 1)
<1>1. DOMAIN <<>> = {}
  OBVIOUS
<1>2. Seen(i, <<>>) = {}
  BY <1>1 DEF Seen
<1> QED  BY <1>2, FS_EmptySet

(* A candidate formed for an input carries a completion that can be one.    *)
LEMMA FormedTyped ==
  ASSUME Typed, NEW i \in Inputs, NEW seen \in SUBSET Completions,
         NEW assumption \in BOOLEAN, NEW captured \in {"complete", "partial"}
  PROVE  Formed(i, seen, assumption, captured) \in {Absent} \cup Candidates
<1>1. ASSUME NEW v \in Completions
      PROVE  Candidate(v, assumption, captured) \in Candidates
  BY DEF Candidate, Candidates
<1>2. CASE Changed(i, seen)
  <2>1. seen # {}
    BY <1>2, FS_EmptySet DEF Changed
  <2>2. (CHOOSE v \in seen : TRUE) \in Completions
    BY <2>1
  <2> QED  BY <1>1, <1>2, <2>2 DEF Formed
<1>3. CASE ~Changed(i, seen) /\ Refreshed(i, seen, assumption)
  <2>1. cases[i].completion \in Completions
    BY <1>3 DEF Refreshed
  <2> QED  BY <1>1, <1>3, <2>1 DEF Formed
<1>4. CASE ~Changed(i, seen) /\ ~Refreshed(i, seen, assumption)
  BY <1>4 DEF Formed
<1> QED  BY <1>2, <1>3, <1>4

(* A case made of a candidate is one.                                       *)
LEMMA CaseTyped ==
  ASSUME NEW candidate \in Candidates, NEW comparison \in {"exact", "tolerance"}
  PROVE  /\ Case(candidate, comparison) \in Cases
         /\ Case(candidate, comparison).completion = candidate.completion
BY DEF Case, Cases, Candidates

(* An answer compares exactly or with a tolerance.                          *)
LEMMA AnswersTyped ==
  ASSUME NEW a \in Answers
  PROVE  a.comparison \in {"exact", "tolerance"}
<1>1. CASE a \in [comparison : {"exact", "tolerance"}, all : {FALSE}]
  BY <1>1
<1>2. CASE a = [comparison |-> "exact", all |-> TRUE]
  <2>1. a.comparison = "exact"
    BY <1>2
  <2> QED  BY <2>1
<1> QED  BY <1>1, <1>2 DEF Answers

(* The order of a review lists inputs.                                      *)
LEMMA OrdersAreSequences ==
  ASSUME NEW S \in SUBSET Inputs, S # {}, NEW shown \in Orders(S)
  PROVE  shown \in Seq(S) /\ shown # <<>>
<1>1. IsFiniteSet(S)
  BY InputsFinite, FS_Subset
<1>2. Cardinality(S) \in Nat /\ Cardinality(S) # 0
  BY <1>1, FS_CardinalityType, FS_EmptySet
<1>3. shown \in [1 .. Cardinality(S) -> S]
  BY DEF Orders
<1> QED  BY <1>2, <1>3

(* What is not of the recording and of the store leaves its facts alone.    *)
LEMMA CommandUntouched ==
  ASSUME Written, Outlived, Tallied, UNCHANGED <<stage, disk, markers, late, phase, failures>>,
         UNCHANGED <<listed, unread, reading, counted>>
  PROVE  Written' /\ Outlived' /\ Tallied'
BY DEF Written, Outlived, Tallied, Untraced

(* Outside of the writing, the drop of a nondeterministic input lasts as    *)
(* long as no candidate is written.                                         *)
LEMMA StaysDropped ==
  ASSUME Typed, Dropping, NondeterministicDropped,
         UNCHANGED <<phase, failures, made, blocking, blocked, writing>>,
         \A i \in Inputs : pending[i] = Absent => pending'[i] = Absent
  PROVE  Dropping' /\ NondeterministicDropped'
<1>1. \A i \in Inputs : Nondeterministic(i)' = Nondeterministic(i)
  BY DEF Nondeterministic, Seen
<1> QED  BY <1>1 DEF Dropping, NondeterministicDropped, Nondeterministic, Seen

(* A step or a fault of a writer preserves the invariant. *)
LEMMA RuntimePreserves ==
  ASSUME IInv, Runtime
  PROVE  IInv'
<1> USE RecordingAssumption
<1>1. Typed'
  <2>1. stage' \in [Calls -> Stages]
    BY DEF IInv, Typed, Stages, Runtime, Complete, WriteStep, WriteFault, ReportFailure, Lose
  <2>2. disk' \in [Calls -> 0 .. 4]
    BY DEF IInv, Typed, Written, Runtime, Complete, WriteStep, WriteFault, ReportFailure, Lose
  <2>3. UNCHANGED <<phase, reading, counted, writing, storeVars, queue, accepted>>
    BY DEF Runtime, commandVars, aggregateVars, formVars, reviewVars
  <2> QED  BY <2>1, <2>2, <2>3 DEF IInv, Typed, storeVars
<1>2. Written'
  BY DEF IInv, Runtime, Complete, WriteStep, WriteFault, ReportFailure, Lose, Fault, Typed,
     Written, runtimeVars, commandVars, aggregateVars, formVars, storeVars, reviewVars
<1>3. Outlived'
  BY DEF IInv, Runtime, Complete, WriteStep, WriteFault, ReportFailure, Lose, Fault, Typed,
     Written, Outlived, Untraced, runtimeVars, commandVars, aggregateVars, formVars, storeVars,
     reviewVars
<1>4. Tallied'
  BY DEF IInv, Runtime, Complete, WriteStep, WriteFault, ReportFailure, Lose, Fault, Typed,
     Written, Outlived, Tallied, Untraced, runtimeVars, commandVars, aggregateVars, formVars,
     storeVars, reviewVars
<1>5. Dropping'
  BY DEF IInv, Runtime, Complete, WriteStep, WriteFault, ReportFailure, Lose, Fault, Dropping,
     Early, Nondeterministic, Seen, runtimeVars, commandVars, aggregateVars, formVars,
     storeVars, reviewVars
<1>6. NondeterministicDropped'
  BY DEF IInv, Runtime, Complete, WriteStep, WriteFault, ReportFailure, Lose, Fault, Dropping,
     Early, Nondeterministic, NondeterministicDropped, Seen, runtimeVars, commandVars,
     aggregateVars, formVars, storeVars, reviewVars
<1>7. Asked'
  BY DEF IInv, Runtime, Complete, WriteStep, WriteFault, ReportFailure, Lose, Fault, Asked,
     Current, runtimeVars, commandVars, aggregateVars, formVars, storeVars, reviewVars
<1> QED  BY <1>1, <1>2, <1>3, <1>4, <1>5, <1>6, <1>7 DEF IInv

(* The start of the command preserves it: nothing is listed yet. *)
LEMMA BeginPreserves ==
  ASSUME IInv, Begin
  PROVE  IInv'
<1> USE RecordingAssumption
<1>1. Typed'
  BY DEF IInv, Begin, Typed, Stages, Phases, runtimeVars, commandVars, aggregateVars, formVars,
     storeVars, reviewVars
<1>2. Written'
  BY DEF IInv, Begin, Typed, Written, runtimeVars, commandVars, aggregateVars, formVars,
     storeVars, reviewVars
<1>3. Outlived'
  BY DEF IInv, Begin, Typed, Written, Outlived, Untraced, runtimeVars, commandVars,
     aggregateVars, formVars, storeVars, reviewVars
<1>4. Tallied'
  BY DEF IInv, Begin, Typed, Written, Outlived, Tallied, Untraced, runtimeVars, commandVars,
     aggregateVars, formVars, storeVars, reviewVars
<1>5. Dropping'
  BY DEF IInv, Begin, Dropping, Early, Nondeterministic, Seen, runtimeVars, commandVars,
     aggregateVars, formVars, storeVars, reviewVars
<1>6. NondeterministicDropped'
  BY DEF IInv, Begin, Dropping, Early, Nondeterministic, NondeterministicDropped, Seen,
     runtimeVars, commandVars, aggregateVars, formVars, storeVars, reviewVars
<1>7. Asked'
  BY DEF IInv, Begin, Asked, Current, runtimeVars, commandVars, aggregateVars, formVars,
     storeVars, reviewVars
<1> QED  BY <1>1, <1>2, <1>3, <1>4, <1>5, <1>6, <1>7 DEF IInv

(* The end of the child preserves it: the writers still at work are the late ones. *)
LEMMA ChildExitsPreserves ==
  ASSUME IInv, ChildExits
  PROVE  IInv'
<1> USE RecordingAssumption
<1>1. Typed'
  BY DEF IInv, ChildExits, Typed, Stages, Phases, runtimeVars, commandVars, aggregateVars,
     formVars, storeVars, reviewVars
<1>2. Written'
  BY DEF IInv, ChildExits, Typed, Written, runtimeVars, commandVars, aggregateVars, formVars,
     storeVars, reviewVars
<1>3. Outlived'
  <2>1. SUFFICES ASSUME NEW c \in Calls, phase' = "listing"
                 PROVE  Untraced(c)' \/ stage'[c] \in {"sealed", "reported"}
    BY DEF Outlived, ChildExits
  <2>2. stage[c] \in Stages /\ stage' = stage
    BY DEF IInv, Typed, ChildExits
  <2>3. stage[c] \in {"writing", "reporting"} => c \in late'
    BY DEF ChildExits
  <2> QED  BY <2>2, <2>3 DEF Stages, Untraced
<1>4. Tallied'
  BY DEF IInv, ChildExits, Typed, Written, Outlived, Tallied, Untraced, runtimeVars,
     commandVars, aggregateVars, formVars, storeVars, reviewVars
<1>5. Dropping'
  BY NothingSeen DEF IInv, ChildExits, Dropping, Early, Nondeterministic, Seen, runtimeVars,
     commandVars, aggregateVars, formVars, storeVars, reviewVars
<1>6. NondeterministicDropped'
  BY NothingSeen DEF IInv, ChildExits, Dropping, Early, Nondeterministic,
     NondeterministicDropped, Seen, runtimeVars, commandVars, aggregateVars, formVars,
     storeVars, reviewVars
<1>7. Asked'
  BY DEF IInv, ChildExits, Asked, Current, runtimeVars, commandVars, aggregateVars, formVars,
     storeVars, reviewVars
<1> QED  BY <1>1, <1>2, <1>3, <1>4, <1>5, <1>6, <1>7 DEF IInv

(* The forming of candidates preserves it: no input with two completions gets one. *)
LEMMA FormPreserves ==
  ASSUME IInv, Form
  PROVE  IInv'
<1> USE RecordingAssumption
<1>1. Typed'
  <2>1. stage' \in [Calls -> Stages] /\ disk' \in [Calls -> 0 .. 4]
    <3>1. stage' = [c \in Calls |-> "idle"] /\ disk' = [c \in Calls |-> 0]
      BY DEF Form
    <3> QED  BY <3>1 DEF Stages
  <2>2. \A i \in Inputs : Seen(i, made') \in SUBSET Completions
    BY DEF Form, Record, Seen
  <2>3. writing' \in [Inputs -> {Absent} \cup Candidates]
    <3>1. PICK assumption \in BOOLEAN, captured \in {"complete", "partial"} :
            writing' = [i \in Inputs |-> Formed(i, Seen(i, made'), assumption, captured)]
      BY DEF Form
    <3>2. \A i \in Inputs : Formed(i, Seen(i, made'), assumption, captured) \in {Absent} \cup Candidates
      BY <2>2, FormedTyped DEF IInv
    <3> QED  BY <3>1, <3>2
  <2>4. phase' = "writing" /\ UNCHANGED <<reading, counted, storeVars, queue, accepted>>
    BY DEF Form, aggregateVars, reviewVars
  <2> QED  BY <2>1, <2>3, <2>4 DEF IInv, Typed, Phases, storeVars
<1>2. Written'
  BY DEF IInv, Form, Aggregated, Blocks, Typed, Written, runtimeVars, commandVars,
     aggregateVars, formVars, storeVars, reviewVars
<1>3. Outlived'
  BY DEF IInv, Form, Aggregated, Blocks, Typed, Written, Outlived, Untraced, runtimeVars,
     commandVars, aggregateVars, formVars, storeVars, reviewVars
<1>4. Tallied'
  BY DEF IInv, Form, Aggregated, Blocks, Typed, Written, Outlived, Tallied, Untraced,
     runtimeVars, commandVars, aggregateVars, formVars, storeVars, reviewVars
<1>5. Dropping'
  BY DEF IInv, Form, Aggregated, Blocks, Dropping, Early, Nondeterministic, Seen, runtimeVars,
     commandVars, aggregateVars, formVars, storeVars, reviewVars
<1>6. NondeterministicDropped'
  BY DEF IInv, Form, Aggregated, Blocks, Dropping, Early, Nondeterministic,
     NondeterministicDropped, Seen, runtimeVars, commandVars, aggregateVars, formVars,
     storeVars, reviewVars
<1>7. Asked'
  BY DEF IInv, Form, Aggregated, Blocks, Asked, Current, runtimeVars, commandVars,
     aggregateVars, formVars, storeVars, reviewVars
<1> QED  BY <1>1, <1>2, <1>3, <1>4, <1>5, <1>6, <1>7 DEF IInv

(* The end of the command, or its death while it writes, preserves the invariant. *)
LEMMA EndPreserves ==
  ASSUME IInv, End
  PROVE  IInv'
<1> USE RecordingAssumption
<1>1. Typed'
  BY DEF IInv, End, Fault, Typed, Stages, Phases, runtimeVars, commandVars, aggregateVars,
     formVars, storeVars, reviewVars
<1>2. Written'
  BY DEF IInv, End, Fault, Typed, Written, runtimeVars, commandVars, aggregateVars, formVars,
     storeVars, reviewVars
<1>3. Outlived'
  BY DEF IInv, End, Fault, Typed, Written, Outlived, Untraced, runtimeVars, commandVars,
     aggregateVars, formVars, storeVars, reviewVars
<1>4. Tallied'
  BY DEF IInv, End, Fault, Typed, Written, Outlived, Tallied, Untraced, runtimeVars,
     commandVars, aggregateVars, formVars, storeVars, reviewVars
<1>5. Dropping'
  BY DEF IInv, End, Fault, Dropping, Early, Nondeterministic, Seen, runtimeVars, commandVars,
     aggregateVars, formVars, storeVars, reviewVars
<1>6. NondeterministicDropped'
  BY DEF IInv, End, Fault, Dropping, Early, Nondeterministic, NondeterministicDropped, Seen,
     runtimeVars, commandVars, aggregateVars, formVars, storeVars, reviewVars
<1>7. Asked'
  BY DEF IInv, End, Fault, Asked, Current, runtimeVars, commandVars, aggregateVars, formVars,
     storeVars, reviewVars
<1> QED  BY <1>1, <1>2, <1>3, <1>4, <1>5, <1>6, <1>7 DEF IInv

(* The listing finds every writer that left a trace. *)
LEMMA ListSessionPreserves ==
  ASSUME IInv, ListSession, UNCHANGED <<runtimeVars, storeVars, reviewVars>>
  PROVE  IInv'
<1> USE RecordingAssumption
<1>1. Typed'
  BY DEF IInv, ListSession, Writers, Typed, Stages, Phases, runtimeVars, commandVars,
     aggregateVars, formVars, storeVars, reviewVars
<1>2. Written'
  BY DEF IInv, ListSession, Writers, Typed, Written, runtimeVars, commandVars, aggregateVars,
     formVars, storeVars, reviewVars
<1>3. Outlived'
  BY DEF IInv, ListSession, Writers, Typed, Written, Outlived, Untraced, runtimeVars,
     commandVars, aggregateVars, formVars, storeVars, reviewVars
<1>4. Tallied'
  <2>1. SUFFICES ASSUME failures' = {}
                 PROVE  Tallied'
    BY DEF Tallied
  <2>2. markers = {} /\ listed' = Writers /\ unread' = Writers
        /\ phase = "listing" /\ UNCHANGED <<stage, disk, late>>
    BY <2>1 DEF ListSession, runtimeVars
  <2>3. ASSUME NEW c \in Calls \ Writers
        PROVE  Untraced(c)
    <3>1. disk[c] = 0
      <4>1. disk[c] \in 0 .. 4 /\ ~(disk[c] >= 1)
        BY <2>3 DEF IInv, Typed, Writers
      <4> QED  BY <4>1
    <3>2. stage[c] \notin {"sealed", "reported"}
      BY <2>2, <2>3, <3>1 DEF IInv, Written
    <3> QED  BY <2>2, <2>3, <3>2 DEF IInv, Outlived
  <2>4. \A c \in Calls \ listed' : Untraced(c)'
    BY <2>2, <2>3 DEF Untraced
  <2> QED  BY <2>2, <2>4 DEF Tallied
<1>5. Dropping'
  BY DEF IInv, ListSession, Writers, Dropping, Early, Nondeterministic, Seen, runtimeVars,
     commandVars, aggregateVars, formVars, storeVars, reviewVars
<1>6. NondeterministicDropped'
  BY DEF IInv, ListSession, Writers, Dropping, Early, Nondeterministic, NondeterministicDropped,
     Seen, runtimeVars, commandVars, aggregateVars, formVars, storeVars, reviewVars
<1>7. Asked'
  BY DEF IInv, ListSession, Writers, Asked, Current, runtimeVars, commandVars, aggregateVars,
     formVars, storeVars, reviewVars
<1> QED  BY <1>1, <1>2, <1>3, <1>4, <1>5, <1>6, <1>7 DEF IInv

(* A directory that cannot be read is a failure that is kept. *)
LEMMA ListFaultPreserves ==
  ASSUME IInv, ListFault, UNCHANGED <<runtimeVars, storeVars, reviewVars>>
  PROVE  IInv'
<1> USE RecordingAssumption
<1>1. Typed'
  BY DEF IInv, ListFault, Writers, Fault, Typed, Stages, Phases, runtimeVars, commandVars,
     aggregateVars, formVars, storeVars, reviewVars
<1>2. Written'
  BY DEF IInv, ListFault, Writers, Fault, Typed, Written, runtimeVars, commandVars,
     aggregateVars, formVars, storeVars, reviewVars
<1>3. Outlived'
  BY DEF IInv, ListFault, Writers, Fault, Typed, Written, Outlived, Untraced, runtimeVars,
     commandVars, aggregateVars, formVars, storeVars, reviewVars
<1>4. Tallied'
  BY DEF IInv, ListFault, Writers, Fault, Typed, Written, Outlived, Tallied, Untraced,
     runtimeVars, commandVars, aggregateVars, formVars, storeVars, reviewVars
<1>5. Dropping'
  BY DEF IInv, ListFault, Writers, Fault, Dropping, Early, Nondeterministic, Seen, runtimeVars,
     commandVars, aggregateVars, formVars, storeVars, reviewVars
<1>6. NondeterministicDropped'
  BY DEF IInv, ListFault, Writers, Fault, Dropping, Early, Nondeterministic,
     NondeterministicDropped, Seen, runtimeVars, commandVars, aggregateVars, formVars,
     storeVars, reviewVars
<1>7. Asked'
  BY DEF IInv, ListFault, Writers, Fault, Asked, Current, runtimeVars, commandVars,
     aggregateVars, formVars, storeVars, reviewVars
<1> QED  BY <1>1, <1>2, <1>3, <1>4, <1>5, <1>6, <1>7 DEF IInv

(* A writer whose chunk is read is counted; one without is left to ReadClose. *)
LEMMA ReadChunksPreserves ==
  ASSUME IInv, NEW c \in Calls, ReadChunks(c), UNCHANGED <<runtimeVars, storeVars, reviewVars>>
  PROVE  IInv'
<1> USE RecordingAssumption
<1>1. Typed'
  BY DEF IInv, ReadChunks, Readings, Typed, Stages, Phases, runtimeVars, commandVars,
     aggregateVars, formVars, storeVars, reviewVars
<1>2. Written'
  BY DEF IInv, ReadChunks, Readings, Typed, Written, runtimeVars, commandVars, aggregateVars,
     formVars, storeVars, reviewVars
<1>3. Outlived'
  BY DEF IInv, ReadChunks, Readings, Typed, Written, Outlived, Untraced, runtimeVars,
     commandVars, aggregateVars, formVars, storeVars, reviewVars
<1>4. Tallied'
  BY DEF IInv, ReadChunks, Readings, Typed, Written, Outlived, Tallied, Untraced, runtimeVars,
     commandVars, aggregateVars, formVars, storeVars, reviewVars
<1>5. Dropping'
  BY DEF IInv, ReadChunks, Readings, Dropping, Early, Nondeterministic, Seen, runtimeVars,
     commandVars, aggregateVars, formVars, storeVars, reviewVars
<1>6. NondeterministicDropped'
  BY DEF IInv, ReadChunks, Readings, Dropping, Early, Nondeterministic, NondeterministicDropped,
     Seen, runtimeVars, commandVars, aggregateVars, formVars, storeVars, reviewVars
<1>7. Asked'
  BY DEF IInv, ReadChunks, Readings, Asked, Current, runtimeVars, commandVars, aggregateVars,
     formVars, storeVars, reviewVars
<1> QED  BY <1>1, <1>2, <1>3, <1>4, <1>5, <1>6, <1>7 DEF IInv

(* A writer without the record its close should count is a failure that is kept. *)
LEMMA ReadClosePreserves ==
  ASSUME IInv, ReadClose, UNCHANGED <<runtimeVars, storeVars, reviewVars>>
  PROVE  IInv'
<1> USE RecordingAssumption
<1>1. Typed'
  BY DEF IInv, ReadClose, Readings, Typed, Stages, Phases, runtimeVars, commandVars,
     aggregateVars, formVars, storeVars, reviewVars
<1>2. Written'
  BY DEF IInv, ReadClose, Readings, Typed, Written, runtimeVars, commandVars, aggregateVars,
     formVars, storeVars, reviewVars
<1>3. Outlived'
  BY DEF IInv, ReadClose, Readings, Typed, Written, Outlived, Untraced, runtimeVars,
     commandVars, aggregateVars, formVars, storeVars, reviewVars
<1>4. Tallied'
  <2>1. SUFFICES ASSUME phase' = "reading", failures' = {}
                 PROVE  Tallied'
    BY DEF Tallied
  <2>2. reading # Absent /\ reading.chunks = 1 /\ failures = {} /\ phase = "reading"
    BY <2>1 DEF ReadClose
  <2>3. UNCHANGED <<stage, late, listed, unread, counted>>
    BY DEF ReadClose, runtimeVars
  <2> QED  BY <2>2, <2>3 DEF IInv, Tallied, Untraced
<1>5. Dropping'
  BY DEF IInv, ReadClose, Readings, Dropping, Early, Nondeterministic, Seen, runtimeVars,
     commandVars, aggregateVars, formVars, storeVars, reviewVars
<1>6. NondeterministicDropped'
  BY DEF IInv, ReadClose, Readings, Dropping, Early, Nondeterministic, NondeterministicDropped,
     Seen, runtimeVars, commandVars, aggregateVars, formVars, storeVars, reviewVars
<1>7. Asked'
  BY DEF IInv, ReadClose, Readings, Asked, Current, runtimeVars, commandVars, aggregateVars,
     formVars, storeVars, reviewVars
<1> QED  BY <1>1, <1>2, <1>3, <1>4, <1>5, <1>6, <1>7 DEF IInv

(* A write that fails ends the persistence and preserves the invariant. *)
LEMMA PersistFaultPreserves ==
  ASSUME IInv, PersistFault, UNCHANGED <<runtimeVars, storeVars, reviewVars>>
  PROVE  IInv'
<1> USE RecordingAssumption
<1>1. Typed'
  BY DEF IInv, PersistFault, Fault, Typed, Stages, Phases, runtimeVars, commandVars,
     aggregateVars, formVars, storeVars, reviewVars
<1>2. Written'
  BY DEF IInv, PersistFault, Fault, Typed, Written, runtimeVars, commandVars, aggregateVars,
     formVars, storeVars, reviewVars
<1>3. Outlived'
  BY DEF IInv, PersistFault, Fault, Typed, Written, Outlived, Untraced, runtimeVars,
     commandVars, aggregateVars, formVars, storeVars, reviewVars
<1>4. Tallied'
  BY DEF IInv, PersistFault, Fault, Typed, Written, Outlived, Tallied, Untraced, runtimeVars,
     commandVars, aggregateVars, formVars, storeVars, reviewVars
<1>5. Dropping'
  BY DEF IInv, PersistFault, Fault, Dropping, Early, Nondeterministic, Seen, runtimeVars,
     commandVars, aggregateVars, formVars, storeVars, reviewVars
<1>6. NondeterministicDropped'
  BY DEF IInv, PersistFault, Fault, Dropping, Early, Nondeterministic, NondeterministicDropped,
     Seen, runtimeVars, commandVars, aggregateVars, formVars, storeVars, reviewVars
<1>7. Asked'
  BY DEF IInv, PersistFault, Fault, Asked, Current, runtimeVars, commandVars, aggregateVars,
     formVars, storeVars, reviewVars
<1> QED  BY <1>1, <1>2, <1>3, <1>4, <1>5, <1>6, <1>7 DEF IInv

(* The end of the persistence preserves the invariant. *)
LEMMA PersistedPreserves ==
  ASSUME IInv, Persisted, UNCHANGED <<runtimeVars, storeVars, reviewVars>>
  PROVE  IInv'
<1> USE RecordingAssumption
<1>1. Typed'
  BY DEF IInv, Persisted, Typed, Stages, Phases, runtimeVars, commandVars, aggregateVars,
     formVars, storeVars, reviewVars
<1>2. Written'
  BY DEF IInv, Persisted, Typed, Written, runtimeVars, commandVars, aggregateVars, formVars,
     storeVars, reviewVars
<1>3. Outlived'
  BY DEF IInv, Persisted, Typed, Written, Outlived, Untraced, runtimeVars, commandVars,
     aggregateVars, formVars, storeVars, reviewVars
<1>4. Tallied'
  BY DEF IInv, Persisted, Typed, Written, Outlived, Tallied, Untraced, runtimeVars, commandVars,
     aggregateVars, formVars, storeVars, reviewVars
<1>5. Dropping'
  BY DEF IInv, Persisted, Dropping, Early, Nondeterministic, Seen, runtimeVars, commandVars,
     aggregateVars, formVars, storeVars, reviewVars
<1>6. NondeterministicDropped'
  BY DEF IInv, Persisted, Dropping, Early, Nondeterministic, NondeterministicDropped, Seen,
     runtimeVars, commandVars, aggregateVars, formVars, storeVars, reviewVars
<1>7. Asked'
  BY DEF IInv, Persisted, Asked, Current, runtimeVars, commandVars, aggregateVars, formVars,
     storeVars, reviewVars
<1> QED  BY <1>1, <1>2, <1>3, <1>4, <1>5, <1>6, <1>7 DEF IInv

(* Writing one candidate touches no input whose observations disagree. *)
LEMMA WriteCandidatePreserves ==
  ASSUME IInv, NEW i \in Inputs, WriteCandidate(i), UNCHANGED <<runtimeVars, reviewVars>>
  PROVE  IInv'
<1> USE RecordingAssumption
<1>1. Typed'
  BY DEF IInv, WriteCandidate, Typed, Stages, Phases, runtimeVars, commandVars, aggregateVars,
     formVars, storeVars, reviewVars
<1>2. Written'
  BY DEF IInv, WriteCandidate, Typed, Written, runtimeVars, commandVars, aggregateVars,
     formVars, storeVars, reviewVars
<1>3. Outlived'
  BY DEF IInv, WriteCandidate, Typed, Written, Outlived, Untraced, runtimeVars, commandVars,
     aggregateVars, formVars, storeVars, reviewVars
<1>4. Tallied'
  BY DEF IInv, WriteCandidate, Typed, Written, Outlived, Tallied, Untraced, runtimeVars,
     commandVars, aggregateVars, formVars, storeVars, reviewVars
<1>5. Dropping'
  BY DEF IInv, WriteCandidate, Dropping, Early, Nondeterministic, Seen, runtimeVars,
     commandVars, aggregateVars, formVars, storeVars, reviewVars
<1>6. NondeterministicDropped'
  BY DEF IInv, WriteCandidate, Dropping, Early, Nondeterministic, NondeterministicDropped, Seen,
     runtimeVars, commandVars, aggregateVars, formVars, storeVars, reviewVars
<1>7. Asked'
  BY DEF IInv, WriteCandidate, Asked, Current, runtimeVars, commandVars, aggregateVars,
     formVars, storeVars, reviewVars
<1> QED  BY <1>1, <1>2, <1>3, <1>4, <1>5, <1>6, <1>7 DEF IInv

(* Writing the block of an input drops its pending candidate with it. *)
LEMMA WriteBlockPreserves ==
  ASSUME IInv, NEW b \in blocking, WriteBlock(b), UNCHANGED <<runtimeVars, reviewVars>>
  PROVE  IInv'
<1> USE RecordingAssumption
<1>1. Typed'
  BY DEF IInv, WriteBlock, Typed, Stages, Phases, runtimeVars, commandVars, aggregateVars,
     formVars, storeVars, reviewVars
<1>2. Written'
  BY DEF IInv, WriteBlock, Typed, Written, runtimeVars, commandVars, aggregateVars, formVars,
     storeVars, reviewVars
<1>3. Outlived'
  BY DEF IInv, WriteBlock, Typed, Written, Outlived, Untraced, runtimeVars, commandVars,
     aggregateVars, formVars, storeVars, reviewVars
<1>4. Tallied'
  BY DEF IInv, WriteBlock, Typed, Written, Outlived, Tallied, Untraced, runtimeVars,
     commandVars, aggregateVars, formVars, storeVars, reviewVars
<1>5. Dropping'
  <2>1. UNCHANGED <<made, writing>> /\ phase = "writing" /\ phase' = "writing"
        /\ blocking' = blocking \ {b} /\ blocked' = blocked \cup {b}
        /\ \A i \in Inputs : writing[i] = Absent
    BY DEF WriteBlock
  <2>2. \A i \in Inputs : pending'[i] = IF i = b THEN Absent ELSE pending[i]
    BY DEF IInv, Typed, WriteBlock
  <2>3. \A i \in Inputs : Nondeterministic(i)' = Nondeterministic(i)
    BY <2>1 DEF Nondeterministic, Seen
  <2> QED  BY <2>1, <2>2, <2>3 DEF IInv, Dropping, Early
<1>6. NondeterministicDropped'
  BY DEF IInv, WriteBlock, Dropping, Early, Nondeterministic, NondeterministicDropped, Seen,
     runtimeVars, commandVars, aggregateVars, formVars, storeVars, reviewVars
<1>7. Asked'
  BY DEF IInv, WriteBlock, Asked, Current, runtimeVars, commandVars, aggregateVars, formVars,
     storeVars, reviewVars
<1> QED  BY <1>1, <1>2, <1>3, <1>4, <1>5, <1>6, <1>7 DEF IInv

(* A review orders the candidates that are pending when it begins. *)
LEMMA BeginReviewPreserves ==
  ASSUME IInv, BeginReview, UNCHANGED <<runtimeVars, commandVars>>
  PROVE  IInv'
<1>1. Typed'
  <2>1. queue' \in Seq(Shown)
    <3>1. PICK shown \in Orders(Awaiting) :
            queue' = [n \in DOMAIN shown |-> [input |-> shown[n], candidate |-> pending[shown[n]]]]
      BY DEF BeginReview
    <3>2. shown \in Seq(Awaiting)
      BY OrdersAreSequences DEF BeginReview, Awaiting
    <3>3. \A i \in Awaiting : [input |-> i, candidate |-> pending[i]] \in Shown
      BY DEF IInv, Typed, Awaiting, Shown
    <3> QED  BY <3>1, <3>2, <3>3
  <2>2. accepted' \in [inputs : SUBSET Inputs, files : SUBSET STRING]
    BY DEF BeginReview
  <2> QED  BY <2>1, <2>2 DEF IInv, Typed, BeginReview, runtimeVars, commandVars, aggregateVars,
              formVars, storeVars
<1>2. Written' /\ Outlived' /\ Tallied'
  BY CommandUntouched DEF IInv, runtimeVars, commandVars, aggregateVars
<1>3. Dropping' /\ NondeterministicDropped'
  BY StaysDropped DEF IInv, BeginReview, runtimeVars, commandVars, aggregateVars, formVars,
     storeVars, reviewVars, Typed
<1>4. Asked'
  <2>1. PICK shown \in Orders(Awaiting) :
          queue' = [n \in DOMAIN shown |-> [input |-> shown[n], candidate |-> pending[shown[n]]]]
    BY DEF BeginReview
  <2>2. shown \in Seq(Awaiting) /\ shown # <<>>
    BY OrdersAreSequences DEF BeginReview, Awaiting
  <2>3. queue' # <<>>
    BY <2>1, <2>2
  <2> QED  BY <2>3 DEF Asked, BeginReview
<1> QED  BY <1>1, <1>2, <1>3, <1>4 DEF IInv

(* Quitting ends the review and changes no case. *)
LEMMA QuitPreserves ==
  ASSUME IInv, Quit, UNCHANGED <<runtimeVars, commandVars>>
  PROVE  IInv'
<1>1. Typed'
  BY DEF IInv, Quit, Typed, Stages, Phases, Shown, runtimeVars, commandVars, aggregateVars,
     formVars, storeVars, reviewVars
<1>2. Written' /\ Outlived' /\ Tallied'
  BY CommandUntouched DEF IInv, runtimeVars, commandVars, aggregateVars
<1>3. Dropping' /\ NondeterministicDropped'
  BY StaysDropped DEF IInv, Quit, runtimeVars, commandVars, aggregateVars, formVars, storeVars,
     reviewVars, Typed
<1>4. Asked'
  BY DEF IInv, Quit, Asked, Current, Typed, Shown, storeVars
<1> QED  BY <1>1, <1>2, <1>3, <1>4 DEF IInv

(* Skipping goes to the next candidate and changes no case. *)
LEMMA SkipPreserves ==
  ASSUME IInv, Skip, UNCHANGED <<runtimeVars, commandVars>>
  PROVE  IInv'
<1>1. Typed'
  <2>1. Head(queue) \in Shown /\ Tail(queue) \in Seq(Shown)
    BY DEF IInv, Typed, Asked, Skip
  <2>2. queue' \in Seq(Shown)
    BY <2>1 DEF Skip, Proceed
  <2> QED  BY <2>2 DEF IInv, Typed, Skip, runtimeVars, commandVars, aggregateVars, formVars,
              storeVars
<1>2. Written' /\ Outlived' /\ Tallied'
  BY CommandUntouched DEF IInv, runtimeVars, commandVars, aggregateVars
<1>3. Dropping' /\ NondeterministicDropped'
  BY StaysDropped DEF IInv, Skip, Proceed, runtimeVars, commandVars, aggregateVars, formVars,
     storeVars, reviewVars, Typed
<1>4. Asked'
  BY DEF IInv, Skip, Proceed, Asked, Current, Typed, Shown, storeVars
<1> QED  BY <1>1, <1>2, <1>3, <1>4 DEF IInv

(* A rejection unlinks the candidate and changes no case. *)
LEMMA RejectPreserves ==
  ASSUME IInv, Reject, UNCHANGED <<runtimeVars, commandVars>>
  PROVE  IInv'
<1>1. Typed'
  <2>1. Head(queue) \in Shown /\ Tail(queue) \in Seq(Shown)
    BY DEF IInv, Typed, Asked, Reject
  <2>2. queue' \in Seq(Shown)
    <3>1. queue' = <<>> \/ queue' = Tail(queue)
      BY DEF Reject, Unlink, Proceed
    <3>2. <<>> \in Seq(Shown)
      OBVIOUS
    <3> QED  BY <2>1, <3>1, <3>2
  <2>3. pending' \in [Inputs -> {Absent} \cup Candidates]
    BY DEF IInv, Typed, Reject, Unlink
  <2> QED  BY <2>2, <2>3 DEF IInv, Typed, Reject, runtimeVars, commandVars, aggregateVars,
              formVars, storeVars
<1>2. Written' /\ Outlived' /\ Tallied'
  BY CommandUntouched DEF IInv, runtimeVars, commandVars, aggregateVars
<1>3. Dropping' /\ NondeterministicDropped'
  BY StaysDropped DEF IInv, Reject, Unlink, Proceed, Current, runtimeVars, commandVars,
     aggregateVars, formVars, storeVars, reviewVars, Typed
<1>4. Asked'
  BY DEF IInv, Reject, Unlink, Proceed, Current, Asked, Typed, Shown, storeVars
<1> QED  BY <1>1, <1>2, <1>3, <1>4 DEF IInv

(* An acceptance writes the case of the candidate that was shown. *)
LEMMA AcceptPreserves ==
  ASSUME IInv, Accept, UNCHANGED <<runtimeVars, commandVars>>
  PROVE  IInv'
<1>1. Typed'
  <2>1. Head(queue) \in Shown
    BY DEF IInv, Typed, Asked, Accept
  <2>2. cases' \in [Inputs -> {Absent} \cup Cases]
    <3>1. PICK comparison \in {"exact", "tolerance"} : Promote(comparison)
      BY AnswersTyped DEF Accept
    <3>2. Case(Head(queue).candidate, comparison) \in Cases
      BY <2>1, CaseTyped DEF Shown
    <3> QED  BY <3>1, <3>2 DEF IInv, Typed, Promote
  <2>3. accepted' \in [inputs : SUBSET Inputs, files : SUBSET STRING]
    <3>1. FileOf[Current] \in STRING /\ Current \in Inputs
      BY <2>1, RecordingAssumption DEF Current, Shown, Inputs
    <3> QED  BY <3>1 DEF IInv, Typed, Accept
  <2> QED  BY <2>2, <2>3 DEF IInv, Typed, Accept, runtimeVars, commandVars, aggregateVars,
              formVars, storeVars
<1>2. Written' /\ Outlived' /\ Tallied'
  BY CommandUntouched DEF IInv, runtimeVars, commandVars, aggregateVars
<1>3. Dropping' /\ NondeterministicDropped'
  BY StaysDropped DEF IInv, Accept, Promote, Current, Answers, runtimeVars, commandVars,
     aggregateVars, formVars, storeVars, reviewVars, Typed
<1>4. Asked'
  BY DEF IInv, Accept, Promote, Current, Answers, Asked, Typed, Shown, storeVars
<1> QED  BY <1>1, <1>2, <1>3, <1>4 DEF IInv

(* The unlink that follows an acceptance, or its failure, changes no case. *)
LEMMA UnlinkedPreserves ==
  ASSUME IInv, Unlinked, UNCHANGED <<runtimeVars, commandVars>>
  PROVE  IInv'
<1>1. Typed'
  <2>1. Head(queue) \in Shown /\ Tail(queue) \in Seq(Shown)
    BY DEF IInv, Typed, Asked, Unlinked
  <2>2. queue' \in Seq(Shown)
    <3>1. queue' = <<>> \/ queue' = Tail(queue)
      BY DEF Unlinked, Unlink, Proceed
    <3>2. <<>> \in Seq(Shown)
      OBVIOUS
    <3> QED  BY <2>1, <3>1, <3>2
  <2>3. pending' \in [Inputs -> {Absent} \cup Candidates]
    BY DEF IInv, Typed, Unlinked, Unlink
  <2> QED  BY <2>2, <2>3 DEF IInv, Typed, Unlinked, runtimeVars, commandVars, aggregateVars,
              formVars, storeVars
<1>2. Written' /\ Outlived' /\ Tallied'
  BY CommandUntouched DEF IInv, runtimeVars, commandVars, aggregateVars
<1>3. Dropping' /\ NondeterministicDropped'
  BY StaysDropped DEF IInv, Unlinked, Unlink, Proceed, SameFile, Current, runtimeVars,
     commandVars, aggregateVars, formVars, storeVars, reviewVars, Typed
<1>4. Asked'
  <2>1. CASE queue' = <<>> /\ asking' = "no"
    BY <2>1 DEF Asked
  <2>2. CASE Proceed(IF asking = "unlink-all" /\ SameFile THEN "all" ELSE "one")
    <3>1. asking' # "no" => queue' # <<>>
      BY <2>2 DEF Proceed
    <3>2. accepted' = accepted /\ queue' = Tail(queue) /\ queue # <<>> /\ queue \in Seq(Shown)
      BY <2>2 DEF Proceed, Unlinked, IInv, Asked, Typed
    <3>3. ASSUME asking' \in {"unlink-all", "all"}
          PROVE  (FileOf[Current] \in accepted.files)'
      <4>1. asking = "unlink-all" /\ Len(queue) > 1 /\ FileOf[queue[2].input] = FileOf[Current]
        BY <2>2, <3>3 DEF Proceed, SameFile
      <4>2. Head(queue') = queue[2]
        BY <3>2, <4>1
      <4> QED  BY <3>2, <4>1, <4>2 DEF IInv, Asked, Current
    <3> QED  BY <3>1, <3>3 DEF Asked
  <2> QED  BY <2>1, <2>2 DEF Unlinked, Unlink
<1> QED  BY <1>1, <1>2, <1>3, <1>4 DEF IInv

(* Going on after an acceptance changes neither candidates nor cases. *)
LEMMA AcceptNextPreserves ==
  ASSUME IInv, AcceptNext, UNCHANGED <<runtimeVars, commandVars>>
  PROVE  IInv'
<1>1. Typed'
  <2>1. Head(queue) \in Shown
    BY DEF IInv, Typed, Asked, AcceptNext
  <2>2. cases' \in [Inputs -> {Absent} \cup Cases]
    <3>1. PICK comparison \in {"exact", "tolerance"} : Promote(comparison)
      BY AnswersTyped DEF AcceptNext
    <3>2. Case(Head(queue).candidate, comparison) \in Cases
      BY <2>1, CaseTyped DEF Shown
    <3> QED  BY <3>1, <3>2 DEF IInv, Typed, Promote
  <2>3. accepted' = accepted
    BY DEF AcceptNext
  <2> QED  BY <2>2, <2>3 DEF IInv, Typed, AcceptNext, runtimeVars, commandVars, aggregateVars,
              formVars, storeVars
<1>2. Written' /\ Outlived' /\ Tallied'
  BY CommandUntouched DEF IInv, runtimeVars, commandVars, aggregateVars
<1>3. Dropping' /\ NondeterministicDropped'
  BY StaysDropped DEF IInv, AcceptNext, Promote, Current, runtimeVars, commandVars,
     aggregateVars, formVars, storeVars, reviewVars, Typed
<1>4. Asked'
  BY DEF IInv, AcceptNext, Promote, Current, Asked, Typed, Shown, storeVars
<1> QED  BY <1>1, <1>2, <1>3, <1>4 DEF IInv

-----------------------------------------------------------------------------
(* The theorems                                                             *)

(* Every step of the specification preserves the invariant. *)
LEMMA NextPreserves ==
  ASSUME IInv, Next
  PROVE  IInv'
<1>1. CASE Runtime
  BY <1>1, RuntimePreserves
<1>2. CASE Command
  <2>1. CASE Begin \/ ChildExits \/ Form \/ End
    BY <2>1, BeginPreserves, ChildExitsPreserves, FormPreserves, EndPreserves
  <2>2. ASSUME \/ ListSession \/ ListFault \/ (\E c \in Calls : ReadChunks(c)) \/ ReadClose
               \/ PersistFault \/ Persisted,
               UNCHANGED <<runtimeVars, storeVars, reviewVars, sessions, reviews>>
        PROVE  IInv'
    BY <2>2, ListSessionPreserves, ListFaultPreserves, ReadChunksPreserves, ReadClosePreserves,
       PersistFaultPreserves, PersistedPreserves
  <2>3. ASSUME (\E i \in Inputs : WriteCandidate(i)) \/ (\E b \in blocking : WriteBlock(b)),
               UNCHANGED <<runtimeVars, reviewVars, sessions, reviews>>
        PROVE  IInv'
    BY <2>3, WriteCandidatePreserves, WriteBlockPreserves
  <2> QED  BY <1>2, <2>1, <2>2, <2>3 DEF Command
<1>3. CASE Review
  BY <1>3, BeginReviewPreserves, QuitPreserves, SkipPreserves, RejectPreserves, AcceptPreserves,
     UnlinkedPreserves, AcceptNextPreserves DEF Review
<1> QED  BY <1>1, <1>2, <1>3 DEF Next

(* The invariant holds when nothing has been recorded. *)
LEMMA Initially ==
  ASSUME Init
  PROVE  IInv
<1>1. Typed
  <2>1. stage \in [Calls -> Stages] /\ disk \in [Calls -> 0 .. 4]
    BY DEF Init, Stages
  <2>2. pending \in [Inputs -> {Absent} \cup Candidates] /\ cases \in [Inputs -> {Absent} \cup Cases]
    <3>1. LeftCandidates \subseteq Candidates /\ LeftCases \subseteq Cases
      BY DEF LeftCandidates, LeftCases, Candidates, Cases
    <3>2. pending \in [Inputs -> {Absent} \cup LeftCandidates]
          /\ cases \in [Inputs -> {Absent} \cup LeftCases]
      BY DEF Init
    <3> QED  BY <3>1, <3>2
  <2>3. writing \in [Inputs -> {Absent} \cup Candidates]
    BY DEF Init
  <2>4. queue \in Seq(Shown) /\ accepted \in [inputs : SUBSET Inputs, files : SUBSET STRING]
    BY DEF Init
  <2> QED  BY <2>1, <2>2, <2>3, <2>4 DEF Init, Typed, Phases
<1>2. Written /\ Outlived /\ Tallied
  BY DEF Init, Written, Outlived, Tallied
<1>3. Dropping /\ NondeterministicDropped
  BY DEF Init, Dropping, NondeterministicDropped
<1>4. Asked
  BY DEF Init, Asked
<1> QED  BY <1>1, <1>2, <1>3, <1>4 DEF IInv

(* The strengthening holds in every state that record and review reach.     *)
THEOREM Inductive == Spec => []IInv
<1>1. ASSUME IInv, UNCHANGED vars
      PROVE  IInv'
  <2>1. UNCHANGED <<runtimeVars, commandVars, storeVars, reviewVars>>
    BY <1>1 DEF vars
  <2>2. Typed'
    BY <1>1, <2>1 DEF IInv, Typed, runtimeVars, commandVars, aggregateVars, formVars, storeVars,
       reviewVars
  <2>3. Written' /\ Outlived' /\ Tallied'
    BY <1>1, <2>1, CommandUntouched DEF IInv, runtimeVars, commandVars, aggregateVars
  <2>4. Dropping' /\ NondeterministicDropped'
    BY <1>1, <2>1, StaysDropped DEF IInv, commandVars, formVars, storeVars
  <2>5. Asked'
    BY <1>1, <2>1 DEF IInv, Asked, Current, reviewVars
  <2> QED  BY <2>2, <2>3, <2>4, <2>5 DEF IInv
<1>2. IInv /\ [Next]_vars => IInv'
  BY <1>1, NextPreserves
<1> QED  BY <1>2, Initially, PTL DEF Spec

(* A record command that exits 0 has counted every call that completed, but *)
(* for those that left nothing on disk when the writers were listed.        *)
THEOREM CountsAll == Spec => []Accounted
<1>1. ASSUME IInv, Aggregated, ExitStatus = 0, NEW c \in Calls
      PROVE  \/ stage[c] \in {"idle", "skipped"}
             \/ c \in counted
             \/ c \notin listed /\ (c \in late \/ stage[c] = "lost")
  <2>1. failures = {} /\ phase = "reading" /\ unread = {} /\ reading = Absent
    BY <1>1 DEF Aggregated, ExitStatus
  <2> QED  BY <1>1, <2>1 DEF IInv, Tallied, Untraced
<1>2. IInv => Accounted
  BY <1>1 DEF Accounted
<1> QED  BY <1>2, Inductive, PTL

(* When a session's results are on disk, an input that behaved in two ways  *)
(* is blocked and has no pending candidate.                                 *)
THEOREM DropsNondeterministic == Spec => []NondeterministicDropped
<1>1. IInv => NondeterministicDropped
  BY DEF IInv
<1> QED  BY <1>1, Inductive, PTL

(* An accepted case changes only into the candidate shown, and only when    *)
(* this candidate or the rest of its module was accepted.                   *)
THEOREM DecidedByReviewer == Spec => OnlyAsDecided
<1> DEFINE Decided == \A i \in Inputs : cases'[i] # cases[i] =>
                        /\ queue # <<>> /\ i = Current
                        /\ cases'[i].completion = Head(queue).candidate.completion
                        /\ i \in accepted'.inputs \/ FileOf[i] \in accepted'.files
<1>1. ASSUME IInv, NEW comparison \in {"exact", "tolerance"}, Promote(comparison), queue # <<>>,
             NEW i \in Inputs, cases'[i] # cases[i]
      PROVE  i = Current /\ cases'[i].completion = Head(queue).candidate.completion
  <2>1. Head(queue) \in Shown
    BY <1>1 DEF IInv, Typed
  <2>2. Case(Head(queue).candidate, comparison).completion = Head(queue).candidate.completion
    BY <2>1, CaseTyped DEF Shown
  <2> QED  BY <1>1, <2>2 DEF IInv, Typed, Promote
<1>2. ASSUME IInv, Accept
      PROVE  Decided
  <2>1. PICK a \in Answers :
          /\ Promote(a.comparison)
          /\ accepted' = IF a.all THEN [accepted EXCEPT !.files = @ \cup {FileOf[Current]}]
                                  ELSE [accepted EXCEPT !.inputs = @ \cup {Current}]
    BY <1>2 DEF Accept
  <2>2. a.comparison \in {"exact", "tolerance"} /\ queue # <<>>
    <3>1. a.comparison \in {"exact", "tolerance"}
      BY AnswersTyped
    <3> QED  BY <1>2, <3>1 DEF IInv, Asked, Accept
  <2>3. Current \in accepted'.inputs \/ FileOf[Current] \in accepted'.files
    BY <1>2, <2>1 DEF IInv, Typed
  <2> QED  BY <1>1, <1>2, <2>1, <2>2, <2>3
<1>3. ASSUME IInv, AcceptNext
      PROVE  Decided
  <2>1. Promote("exact") /\ queue # <<>> /\ FileOf[Current] \in accepted'.files
    BY <1>3 DEF IInv, Asked, AcceptNext
  <2> QED  BY <1>1, <1>3, <2>1
<1>4. ASSUME UNCHANGED cases
      PROVE  Decided
  BY <1>4
<1>5. ASSUME IInv, Next
      PROVE  Decided
  <2>1. Accept \/ AcceptNext \/ UNCHANGED cases
    BY <1>5 DEF Next, Runtime, Command, Begin, ChildExits, Form, End, WriteCandidate,
       WriteBlock, Review, BeginReview, Quit, Skip, Reject, Unlinked, storeVars
  <2> QED  BY <1>2, <1>3, <1>4, <1>5, <2>1
<1>6. IInv /\ [Next]_vars => [Decided]_vars
  BY <1>5
<1> QED  BY <1>6, Inductive, PTL DEF Spec, OnlyAsDecided

-----------------------------------------------------------------------------
(* Values: induction over the naturals and over paths *)

(* A set of numbers that holds 0 and each successor holds them all.         *)
LEMMA NaturalInduction ==
  ASSUME NEW S \in SUBSET Nat, 0 \in S, \A n \in S : n + 1 \in S
  PROVE  S = Nat
<1> SUFFICES ASSUME Nat \ S # {}
             PROVE  FALSE
  OBVIOUS
<1>1. PICK n \in Nat \ S : \A m \in Nat \ S : ~ (<<m, n>> \in OpToRel(<, Nat))
  BY NatLessThanWellFounded, WFMin
<1>2. n # 0 /\ n \in Nat /\ n \notin S
  OBVIOUS
<1>3. n - 1 \in S
  <2> SUFFICES ASSUME n - 1 \in Nat \ S
               PROVE  FALSE
    BY <1>2, n - 1 \in Nat
  <2>1. <<n - 1, n>> \in OpToRel(<, Nat)
    BY <1>2 DEF OpToRel
  <2> QED
    BY <1>1, <2>1
<1>4. n = (n - 1) + 1
  BY <1>2
<1> QED
  BY <1>2, <1>3, <1>4

(* Paths grow by a key at their end.                                        *)
LEMMA PathFacts ==
  /\ <<>> \in Paths
  /\ \A p \in Paths : Len(p) \in Nat /\ (Len(p) = 0 => p = <<>>)
  /\ \A p \in Paths, k \in Keys :
       /\ Append(p, k) \in Paths /\ Len(Append(p, k)) = Len(p) + 1
       /\ Append(p, k)[Len(p) + 1] = k
       /\ \A i \in 1 .. Len(p) : Append(p, k)[i] = p[i]
BY DEF Paths

(* A path that is not empty has a last key.                                 *)
LEMMA PathParts ==
  ASSUME NEW p \in Paths, p # <<>>
  PROVE  \E q \in Paths, k \in Keys : p = Append(q, k)
BY SequenceEmptyOrAppend DEF Paths

(* What holds of the root and of each child holds of every path.            *)
LEMMA PathInduction ==
  ASSUME NEW S \in SUBSET Paths, <<>> \in S, \A p \in S, k \in Keys : Append(p, k) \in S
  PROVE  S = Paths
<1> DEFINE Able == {n \in Nat : \A p \in Paths : Len(p) = n => p \in S}
<1>1. 0 \in Able
  BY PathFacts
<1>2. ASSUME NEW n \in Able
      PROVE  n + 1 \in Able
  <2>1. SUFFICES ASSUME NEW p \in Paths, Len(p) = n + 1
                 PROVE  p \in S
    BY <1>2
  <2>2. p # <<>>
    BY <1>2, <2>1
  <2>3. PICK q \in Paths, k \in Keys : p = Append(q, k)
    BY <2>2, PathParts
  <2>4. Len(q) = n
    BY <1>2, <2>1, <2>3, PathFacts
  <2> QED
    BY <1>2, <2>3, <2>4
<1> HIDE DEF Able
<1>3. Able \in SUBSET Nat
  BY DEF Able
<1>4. Able = Nat
  BY <1>1, <1>2, <1>3, NaturalInduction
<1>5. ASSUME NEW p \in Paths
      PROVE  p \in S
  <2>1. Len(p) \in Able
    BY <1>4, PathFacts
  <2> QED
    BY <2>1 DEF Able
<1> QED
  BY <1>5
-----------------------------------------------------------------------------
(* Values: reading a tree, and following properties, along a path *)

BelowFrom(node, p, c, i) == IF i = 0 THEN node ELSE Child(c[i - 1], p[i])
BelowReads(node, p, c) == c = [i \in 0 .. Len(p) |-> BelowFrom(node, p, c, i)]
BelowReading(node, p) == CHOOSE c : BelowReads(node, p, c)

(* Reading along a path is a function by recursion over its prefixes. *)
LEMMA BelowIs ==
  ASSUME NEW node, NEW p
  PROVE  Below(node, p) = BelowReading(node, p)[Len(p)]
BY DEF Below, BelowReading, BelowReads, BelowFrom

(* That function exists, since it is given prefix by prefix.                *)
LEMMA BelowExists ==
  ASSUME NEW node, NEW p, Len(p) \in Nat
  PROVE  BelowReads(node, p, BelowReading(node, p))
<1> DEFINE Able == {n \in Nat : \E c : c = [i \in 0 .. n |-> BelowFrom(node, p, c, i)]}
<1>1. 0 \in Able
  <2> DEFINE g == [i \in 0 .. 0 |-> node]
  <2>1. \A i \in 0 .. 0 : BelowFrom(node, p, g, i) = node
    BY DEF BelowFrom
  <2>2. g = [i \in 0 .. 0 |-> BelowFrom(node, p, g, i)]
    BY <2>1
  <2> QED
    BY <2>2
<1>2. ASSUME NEW n \in Able
      PROVE  n + 1 \in Able
  <2>1. PICK c : c = [i \in 0 .. n |-> BelowFrom(node, p, c, i)]
    BY <1>2
  <2> DEFINE g == [i \in 0 .. n + 1 |-> IF i = n + 1 THEN BelowFrom(node, p, c, n + 1) ELSE c[i]]
  <2>2. \A i \in 0 .. n : g[i] = c[i]
    OBVIOUS
  <2>3. g[n + 1] = BelowFrom(node, p, c, n + 1)
    OBVIOUS
  <2>4. g = [i \in 0 .. n + 1 |-> g[i]]
    OBVIOUS
  <2> HIDE DEF g
  <2>5. ASSUME NEW i \in 0 .. n + 1
        PROVE  BelowFrom(node, p, g, i) = BelowFrom(node, p, c, i)
    <3>1. i # 0 => g[i - 1] = c[i - 1]
      BY <2>2
    <3> QED
      BY <3>1 DEF BelowFrom
  <2>6. ASSUME NEW i \in 0 .. n + 1
        PROVE  g[i] = BelowFrom(node, p, c, i)
    <3>1. CASE i = n + 1
      BY <2>3, <3>1
    <3>2. CASE i \in 0 .. n
      <4>1. c[i] = BelowFrom(node, p, c, i)
        BY <2>1, <3>2
      <4> QED
        BY <2>2, <3>2, <4>1
    <3> QED
      BY <3>1, <3>2
  <2>7. g = [i \in 0 .. n + 1 |-> BelowFrom(node, p, g, i)]
    BY <2>4, <2>5, <2>6
  <2> QED
    BY <2>7
<1> HIDE DEF Able
<1>3. Able = Nat
  <2>1. Able \in SUBSET Nat
    BY DEF Able
  <2> QED
    BY <1>1, <1>2, <2>1, NaturalInduction
<1>4. \E c : BelowReads(node, p, c)
  BY <1>3 DEF Able, BelowReads
<1> QED
  BY <1>4 DEF BelowReading

(* The node at the root is the tree.                                        *)
LEMMA BelowHere ==
  ASSUME NEW node
  PROVE  Below(node, <<>>) = node
<1>1. Len(<<>>) = 0
  OBVIOUS
<1>2. BelowReads(node, <<>>, BelowReading(node, <<>>))
  BY <1>1, BelowExists
<1> QED
  BY <1>1, <1>2, BelowIs DEF BelowReads, BelowFrom

(* The node of a longer path is a child of the shorter one's.               *)
LEMMA BelowNext ==
  ASSUME NEW node, NEW p \in Paths, NEW k \in Keys
  PROVE  Below(node, Append(p, k)) = Child(Below(node, p), k)
<1> DEFINE b == BelowReading(node, p)
           c == BelowReading(node, Append(p, k))
           n == Len(p)
           Same == {i \in Nat : i <= n => c[i] = b[i]}
<1>1. /\ n \in Nat /\ Len(Append(p, k)) = n + 1 /\ Append(p, k)[n + 1] = k
      /\ \A i \in 1 .. n : Append(p, k)[i] = p[i]
  BY PathFacts
<1>2. b = [i \in 0 .. n |-> BelowFrom(node, p, b, i)]
  BY <1>1, BelowExists DEF BelowReads
<1>3. c = [i \in 0 .. n + 1 |-> BelowFrom(node, Append(p, k), c, i)]
  <2>1. Len(Append(p, k)) \in Nat
    BY <1>1
  <2>2. BelowReads(node, Append(p, k), c)
    BY <2>1, BelowExists
  <2> QED
    BY <1>1, <2>2 DEF BelowReads
<1>4. Below(node, p) = b[n] /\ Below(node, Append(p, k)) = c[n + 1]
  BY <1>1, BelowIs
<1> HIDE DEF b, c, n
<1>5. 0 \in Same
  BY <1>1, <1>2, <1>3 DEF BelowFrom
<1>6. ASSUME NEW i \in Same
      PROVE  i + 1 \in Same
  <2>1. SUFFICES ASSUME i + 1 <= n
                 PROVE  c[i + 1] = b[i + 1]
    BY <1>6
  <2>2. /\ i + 1 \in 0 .. n /\ i + 1 \in 0 .. n + 1 /\ i + 1 # 0 /\ (i + 1) - 1 = i
        /\ Append(p, k)[i + 1] = p[i + 1] /\ c[i] = b[i]
    BY <1>1, <1>6, <2>1
  <2>3. c[i + 1] = BelowFrom(node, Append(p, k), c, i + 1) /\ b[i + 1] = BelowFrom(node, p, b, i + 1)
    BY <1>2, <1>3, <2>2
  <2> QED
    BY <2>2, <2>3 DEF BelowFrom
<1> HIDE DEF Same
<1>7. Same = Nat
  <2>1. Same \in SUBSET Nat
    BY DEF Same
  <2> QED
    BY <1>5, <1>6, <2>1, NaturalInduction
<1>8. c[n] = b[n]
  BY <1>1, <1>7 DEF Same
<1>9. n + 1 \in 0 .. n + 1 /\ n + 1 # 0 /\ (n + 1) - 1 = n
  BY <1>1
<1>10. c[n + 1] = BelowFrom(node, Append(p, k), c, n + 1)
  BY <1>3, <1>9
<1> QED
  BY <1>1, <1>4, <1>8, <1>9, <1>10 DEF BelowFrom

(* Reading on from a node is reading the tree that is there.                *)
LEMMA BelowMore ==
  ASSUME NEW node, NEW p \in Paths, NEW q \in Paths
  PROVE  p \o q \in Paths /\ Below(node, p \o q) = Below(Below(node, p), q)
<1> DEFINE Good == {s \in Paths : p \o s \in Paths /\ Below(node, p \o s) = Below(Below(node, p), s)}
<1>1. <<>> \in Good
  <2>1. p \o <<>> = p
    BY ConcatEmptySeq DEF Paths
  <2> QED
    BY <2>1, BelowHere, PathFacts
<1>2. ASSUME NEW s \in Good, NEW k \in Keys
      PROVE  Append(s, k) \in Good
  <2>1. p \o s \in Paths /\ Below(node, p \o s) = Below(Below(node, p), s)
    BY <1>2
  <2>2. p \o Append(s, k) = Append(p \o s, k)
    BY <1>2 DEF Paths
  <2>3. Append(p \o s, k) \in Paths /\ Append(s, k) \in Paths
    BY <1>2, <2>1, PathFacts
  <2>4. Below(node, Append(p \o s, k)) = Child(Below(node, p \o s), k)
    BY <2>1, BelowNext
  <2>5. Below(Below(node, p), Append(s, k)) = Child(Below(Below(node, p), s), k)
    BY <1>2, BelowNext
  <2> QED
    BY <2>1, <2>2, <2>3, <2>4, <2>5
<1> HIDE DEF Good
<1>3. Good \in SUBSET Paths
  BY DEF Good
<1>4. Good = Paths
  BY <1>1, <1>2, <1>3, PathInduction
<1> QED
  BY <1>4 DEF Good

FollowFrom(h, v, p, c, i) == IF i = 0 THEN v ELSE Step(h, c[i - 1], p[i])
FollowReads(h, v, p, c) == c = [i \in 0 .. Len(p) |-> FollowFrom(h, v, p, c, i)]
FollowReading(h, v, p) == CHOOSE c : FollowReads(h, v, p, c)

(* Reading along a path is a function by recursion over its prefixes. *)
LEMMA FollowIs ==
  ASSUME NEW h, NEW v, NEW p
  PROVE  Follow(h, v, p) = FollowReading(h, v, p)[Len(p)]
BY DEF Follow, FollowReading, FollowReads, FollowFrom

(* That function exists, since it is given prefix by prefix.                *)
LEMMA FollowExists ==
  ASSUME NEW h, NEW v, NEW p, Len(p) \in Nat
  PROVE  FollowReads(h, v, p, FollowReading(h, v, p))
<1> DEFINE Able == {n \in Nat : \E c : c = [i \in 0 .. n |-> FollowFrom(h, v, p, c, i)]}
<1>1. 0 \in Able
  <2> DEFINE g == [i \in 0 .. 0 |-> v]
  <2>1. \A i \in 0 .. 0 : FollowFrom(h, v, p, g, i) = v
    BY DEF FollowFrom
  <2>2. g = [i \in 0 .. 0 |-> FollowFrom(h, v, p, g, i)]
    BY <2>1
  <2> QED
    BY <2>2
<1>2. ASSUME NEW n \in Able
      PROVE  n + 1 \in Able
  <2>1. PICK c : c = [i \in 0 .. n |-> FollowFrom(h, v, p, c, i)]
    BY <1>2
  <2> DEFINE g == [i \in 0 .. n + 1 |-> IF i = n + 1 THEN FollowFrom(h, v, p, c, n + 1) ELSE c[i]]
  <2>2. \A i \in 0 .. n : g[i] = c[i]
    OBVIOUS
  <2>3. g[n + 1] = FollowFrom(h, v, p, c, n + 1)
    OBVIOUS
  <2>4. g = [i \in 0 .. n + 1 |-> g[i]]
    OBVIOUS
  <2> HIDE DEF g
  <2>5. ASSUME NEW i \in 0 .. n + 1
        PROVE  FollowFrom(h, v, p, g, i) = FollowFrom(h, v, p, c, i)
    <3>1. i # 0 => g[i - 1] = c[i - 1]
      BY <2>2
    <3> QED
      BY <3>1 DEF FollowFrom
  <2>6. ASSUME NEW i \in 0 .. n + 1
        PROVE  g[i] = FollowFrom(h, v, p, c, i)
    <3>1. CASE i = n + 1
      BY <2>3, <3>1
    <3>2. CASE i \in 0 .. n
      <4>1. c[i] = FollowFrom(h, v, p, c, i)
        BY <2>1, <3>2
      <4> QED
        BY <2>2, <3>2, <4>1
    <3> QED
      BY <3>1, <3>2
  <2>7. g = [i \in 0 .. n + 1 |-> FollowFrom(h, v, p, g, i)]
    BY <2>4, <2>5, <2>6
  <2> QED
    BY <2>7
<1> HIDE DEF Able
<1>3. Able = Nat
  <2>1. Able \in SUBSET Nat
    BY DEF Able
  <2> QED
    BY <1>1, <1>2, <2>1, NaturalInduction
<1>4. \E c : FollowReads(h, v, p, c)
  BY <1>3 DEF Able, FollowReads
<1> QED
  BY <1>4 DEF FollowReading

(* No property followed is the value itself.                                *)
LEMMA FollowHere ==
  ASSUME NEW h, NEW v
  PROVE  Follow(h, v, <<>>) = v
<1>1. Len(<<>>) = 0
  OBVIOUS
<1>2. FollowReads(h, v, <<>>, FollowReading(h, v, <<>>))
  BY <1>1, FollowExists
<1> QED
  BY <1>1, <1>2, FollowIs DEF FollowReads, FollowFrom

(* One more property is one more step.                                      *)
LEMMA FollowNext ==
  ASSUME NEW h, NEW v, NEW p \in Paths, NEW k \in Keys
  PROVE  Follow(h, v, Append(p, k)) = Step(h, Follow(h, v, p), k)
<1> DEFINE b == FollowReading(h, v, p)
           c == FollowReading(h, v, Append(p, k))
           n == Len(p)
           Same == {i \in Nat : i <= n => c[i] = b[i]}
<1>1. /\ n \in Nat /\ Len(Append(p, k)) = n + 1 /\ Append(p, k)[n + 1] = k
      /\ \A i \in 1 .. n : Append(p, k)[i] = p[i]
  BY PathFacts
<1>2. b = [i \in 0 .. n |-> FollowFrom(h, v, p, b, i)]
  BY <1>1, FollowExists DEF FollowReads
<1>3. c = [i \in 0 .. n + 1 |-> FollowFrom(h, v, Append(p, k), c, i)]
  <2>1. Len(Append(p, k)) \in Nat
    BY <1>1
  <2>2. FollowReads(h, v, Append(p, k), c)
    BY <2>1, FollowExists
  <2> QED
    BY <1>1, <2>2 DEF FollowReads
<1>4. Follow(h, v, p) = b[n] /\ Follow(h, v, Append(p, k)) = c[n + 1]
  BY <1>1, FollowIs
<1> HIDE DEF b, c, n
<1>5. 0 \in Same
  BY <1>1, <1>2, <1>3 DEF FollowFrom
<1>6. ASSUME NEW i \in Same
      PROVE  i + 1 \in Same
  <2>1. SUFFICES ASSUME i + 1 <= n
                 PROVE  c[i + 1] = b[i + 1]
    BY <1>6
  <2>2. /\ i + 1 \in 0 .. n /\ i + 1 \in 0 .. n + 1 /\ i + 1 # 0 /\ (i + 1) - 1 = i
        /\ Append(p, k)[i + 1] = p[i + 1] /\ c[i] = b[i]
    BY <1>1, <1>6, <2>1
  <2>3. c[i + 1] = FollowFrom(h, v, Append(p, k), c, i + 1) /\ b[i + 1] = FollowFrom(h, v, p, b, i + 1)
    BY <1>2, <1>3, <2>2
  <2> QED
    BY <2>2, <2>3 DEF FollowFrom
<1> HIDE DEF Same
<1>7. Same = Nat
  <2>1. Same \in SUBSET Nat
    BY DEF Same
  <2> QED
    BY <1>5, <1>6, <2>1, NaturalInduction
<1>8. c[n] = b[n]
  BY <1>1, <1>7 DEF Same
<1>9. n + 1 \in 0 .. n + 1 /\ n + 1 # 0 /\ (n + 1) - 1 = n
  BY <1>1
<1>10. c[n + 1] = FollowFrom(h, v, Append(p, k), c, n + 1)
  BY <1>3, <1>9
<1> QED
  BY <1>1, <1>4, <1>8, <1>9, <1>10 DEF FollowFrom

(* Following on from a value is following from what is there.               *)
LEMMA FollowMore ==
  ASSUME NEW h, NEW v, NEW p \in Paths, NEW q \in Paths
  PROVE  p \o q \in Paths /\ Follow(h, v, p \o q) = Follow(h, Follow(h, v, p), q)
<1> DEFINE Good == {s \in Paths : p \o s \in Paths /\ Follow(h, v, p \o s) = Follow(h, Follow(h, v, p), s)}
<1>1. <<>> \in Good
  <2>1. p \o <<>> = p
    BY ConcatEmptySeq DEF Paths
  <2> QED
    BY <2>1, FollowHere, PathFacts
<1>2. ASSUME NEW s \in Good, NEW k \in Keys
      PROVE  Append(s, k) \in Good
  <2>1. p \o s \in Paths /\ Follow(h, v, p \o s) = Follow(h, Follow(h, v, p), s)
    BY <1>2
  <2>2. p \o Append(s, k) = Append(p \o s, k)
    BY <1>2 DEF Paths
  <2>3. Append(p \o s, k) \in Paths /\ Append(s, k) \in Paths
    BY <1>2, <2>1, PathFacts
  <2>4. Follow(h, v, Append(p \o s, k)) = Step(h, Follow(h, v, p \o s), k)
    BY <2>1, FollowNext
  <2>5. Follow(h, Follow(h, v, p), Append(s, k)) = Step(h, Follow(h, Follow(h, v, p), s), k)
    BY <1>2, FollowNext
  <2> QED
    BY <2>1, <2>2, <2>3, <2>4, <2>5
<1> HIDE DEF Good
<1>3. Good \in SUBSET Paths
  BY DEF Good
<1>4. Good = Paths
  BY <1>1, <1>2, <1>3, PathInduction
<1> QED
  BY <1>4 DEF Good

-----------------------------------------------------------------------------
(* Values: canonical trees *)

(* A path that is not empty has a first key.                                *)
LEMMA PathHead ==
  ASSUME NEW p \in Paths, p # <<>>
  PROVE  \E k \in Keys, q \in Paths : p = <<k>> \o q
<1>1. p = <<Head(p)>> \o Tail(p) /\ Head(p) \in Keys /\ Tail(p) \in Paths
  BY HeadTailProperties DEF Paths
<1> QED
  BY <1>1

(* Paths are joined at either end.                                          *)
LEMMA PathJoin ==
  ASSUME NEW p \in Paths, NEW k \in Keys, NEW q \in Paths
  PROVE  /\ <<k>> \in Paths /\ <<k>> \o q \in Paths
         /\ <<k>> = Append(<<>>, k)
         /\ Append(p, k) \o q = p \o (<<k>> \o q)
<1>1. <<k>> \in Seq(Keys) /\ p \in Seq(Keys) /\ q \in Seq(Keys)
  BY DEF Paths
<1>2. <<k>> \o q \in Seq(Keys)
  BY <1>1, ConcatProperties
<1>3. Append(p, k) = p \o <<k>>
  BY <1>1, AppendIsConcat
<1>4. (p \o <<k>>) \o q = p \o (<<k>> \o q)
  BY <1>1, ConcatAssociative
<1> QED
  BY <1>1, <1>2, <1>3, <1>4 DEF Paths

(* What holds below a depth, and of a node when it does of its children,    *)
(* holds everywhere.                                                        *)
LEMMA PathDescent ==
  ASSUME NEW H \in Nat, NEW S \in SUBSET Paths,
         \A p \in Paths : Len(p) > H => p \in S,
         \A p \in Paths : (\A k \in Keys : Append(p, k) \in S) => p \in S
  PROVE  S = Paths
<1> DEFINE Able == {n \in Nat : \A p \in Paths : Len(p) + n > H => p \in S}
<1>1. 0 \in Able
  BY PathFacts
<1>2. ASSUME NEW n \in Able
      PROVE  n + 1 \in Able
  <2>1. SUFFICES ASSUME NEW p \in Paths, Len(p) + (n + 1) > H
                 PROVE  p \in S
    BY <1>2
  <2>2. ASSUME NEW k \in Keys
        PROVE  Append(p, k) \in S
    <3>1. Append(p, k) \in Paths /\ Len(Append(p, k)) + n > H
      BY <1>2, <2>1, PathFacts
    <3> QED
      BY <1>2, <3>1
  <2> QED
    BY <2>2
<1> HIDE DEF Able
<1>3. Able \in SUBSET Nat
  BY DEF Able
<1>4. Able = Nat
  BY <1>1, <1>2, <1>3, NaturalInduction
<1>5. ASSUME NEW p \in Paths
      PROVE  p \in S
  <2>1. H + 1 \in Able /\ Len(p) + (H + 1) > H
    BY <1>4, PathFacts
  <2> QED
    BY <2>1 DEF Able
<1> QED
  BY <1>5

Composites == {"array", "record", "error", "adapted"}
Leaf(a) == \/ a = Missing \/ a = Secret \/ a = StandardError
           \/ \E n \in Int : a = Number(n)
Composite(a) ==
  \E kind \in Composites, ks \in SUBSET Keys :
    /\ a = [kind |-> kind, at |-> [k \in ks |-> a.at[k]]]
    /\ \A k \in ks : a.at[k] # Missing
Grown(a) == Leaf(a) \/ Composite(a)
Tree(node, H) ==
  \A p \in Paths : Grown(Below(node, p)) /\ (Len(p) > H => Below(node, p) = Missing)

(* A leaf has no children, and its kind tells it from the others.           *)
LEMMA Leafs ==
  ASSUME NEW a, Leaf(a)
  PROVE  /\ ~Inner(a) /\ \A k : Child(a, k) = Missing
         /\ a.kind \in {"missing", "secret", "standard-error", "number"}
         /\ a.kind = "missing" <=> a = Missing
         /\ a.kind = "secret" <=> a = Secret
         /\ a.kind = "standard-error" <=> a = StandardError
         /\ a.kind = "number" => a.value \in Int /\ a = Number(a.value)
<1>1. CASE a = Missing
  BY <1>1 DEF Missing, Secret, StandardError, Inner, Child
<1>2. CASE a = Secret
  BY <1>2 DEF Missing, Secret, StandardError, Inner, Child
<1>3. CASE a = StandardError
  BY <1>3 DEF Missing, Secret, StandardError, Inner, Child
<1>4. ASSUME NEW n \in Int, a = Number(n)
      PROVE  /\ ~Inner(a) /\ \A k : Child(a, k) = Missing
             /\ a.kind = "number" /\ a.value \in Int /\ a = Number(a.value)
             /\ a # Missing /\ a # Secret /\ a # StandardError
  BY <1>4 DEF Missing, Secret, StandardError, Inner, Child, Number
<1> QED
  BY <1>1, <1>2, <1>3, <1>4 DEF Leaf

(* A branch has the children of its domain, and none is missing.            *)
LEMMA Branches ==
  ASSUME NEW a, Composite(a)
  PROVE  /\ Inner(a) /\ a.kind \in Composites /\ DOMAIN a.at \subseteq Keys
         /\ a = [kind |-> a.kind, at |-> [k \in DOMAIN a.at |-> a.at[k]]]
         /\ \A k \in DOMAIN a.at : a.at[k] # Missing /\ Child(a, k) = a.at[k]
         /\ \A k : k \notin DOMAIN a.at => Child(a, k) = Missing
         /\ ~Leaf(a) /\ a # Missing /\ a # Secret
<1>1. PICK kind \in Composites, ks \in SUBSET Keys :
        /\ a = [kind |-> kind, at |-> [k \in ks |-> a.at[k]]]
        /\ \A k \in ks : a.at[k] # Missing
  BY DEF Composite
<1>2. Inner(a) /\ a.kind = kind
  BY <1>1 DEF Inner
<1>3. a.at = [k \in ks |-> a.at[k]]
  BY <1>1
<1>4. DOMAIN a.at = ks
  BY <1>3
<1>5. ~Leaf(a)
  BY <1>2, Leafs
<1>6. a # Missing /\ a # Secret
  BY <1>5 DEF Leaf
<1>7. a = [kind |-> a.kind, at |-> [k \in DOMAIN a.at |-> a.at[k]]]
  BY <1>1, <1>2, <1>4
<1> QED
  BY <1>1, <1>2, <1>4, <1>5, <1>6, <1>7 DEF Child

(* Branches with the same kind and children are the same.                   *)
LEMMA SameBranches ==
  ASSUME NEW a, NEW b, Composite(a), Composite(b), a.kind = b.kind,
         \A k \in Keys : Child(a, k) = Child(b, k)
  PROVE  a = b
<1>1. DOMAIN a.at = DOMAIN b.at
  <2>1. ASSUME NEW k \in Keys
        PROVE  k \in DOMAIN a.at <=> k \in DOMAIN b.at
    BY Branches
  <2>2. DOMAIN a.at \subseteq Keys /\ DOMAIN b.at \subseteq Keys
    BY Branches
  <2> QED
    BY <2>1, <2>2
<1>2. [k \in DOMAIN a.at |-> a.at[k]] = [k \in DOMAIN b.at |-> b.at[k]]
  <2>1. \A k \in DOMAIN a.at : a.at[k] = b.at[k]
    BY <1>1, Branches
  <2> QED
    BY <1>1, <2>1
<1> QED
  BY <1>2, Branches

(* Nothing is below a leaf.                                                 *)
LEMMA NothingBelow ==
  ASSUME NEW a, Leaf(a), NEW p \in Paths, p # <<>>
  PROVE  Below(a, p) = Missing
<1> DEFINE Good == {q \in Paths : q # <<>> => Below(a, q) = Missing}
<1>1. <<>> \in Good
  BY PathFacts
<1>2. ASSUME NEW q \in Good, NEW k \in Keys
      PROVE  Append(q, k) \in Good
  <2>1. Append(q, k) \in Paths /\ Below(a, Append(q, k)) = Child(Below(a, q), k)
    BY <1>2, BelowNext, PathFacts
  <2>2. Leaf(Below(a, q))
    BY <1>2, BelowHere DEF Leaf
  <2> QED
    BY <2>1, <2>2, Leafs
<1> HIDE DEF Good
<1>3. Good \in SUBSET Paths
  BY DEF Good
<1>4. Good = Paths
  BY <1>1, <1>2, <1>3, PathInduction
<1> QED
  BY <1>4 DEF Good

(* Reading may begin with the child of the first key.                       *)
LEMMA BelowFirst ==
  ASSUME NEW node, NEW k \in Keys, NEW q \in Paths
  PROVE  <<k>> \o q \in Paths /\ Below(node, <<k>> \o q) = Below(Child(node, k), q)
<1>1. <<>> \in Paths /\ <<k>> \in Paths /\ <<k>> = Append(<<>>, k)
  BY PathJoin, PathFacts
<1>2. Below(node, <<k>>) = Child(node, k)
  <2>1. Below(node, Append(<<>>, k)) = Child(Below(node, <<>>), k)
    BY <1>1, BelowNext
  <2> QED
    BY <1>1, <2>1, BelowHere
<1> QED
  BY <1>1, <1>2, BelowMore

(* A leaf is a tree of any depth.                                           *)
LEMMA LeafTree ==
  ASSUME NEW a, Leaf(a), NEW H \in Nat
  PROVE  Tree(a, H)
<1> SUFFICES ASSUME NEW p \in Paths
             PROVE  Grown(Below(a, p)) /\ (Len(p) > H => Below(a, p) = Missing)
  BY DEF Tree
<1>1. CASE p = <<>>
  BY <1>1, BelowHere DEF Grown
<1>2. CASE p # <<>>
  BY <1>2, NothingBelow DEF Grown, Leaf
<1> QED
  BY <1>1, <1>2

(* Nothing is a tree of any depth.                                          *)
LEMMA NoTree ==
  ASSUME NEW H
  PROVE  Tree(Missing, H)
<1> SUFFICES ASSUME NEW p \in Paths
             PROVE  Below(Missing, p) = Missing /\ Grown(Missing)
  BY DEF Tree
<1>1. Leaf(Missing)
  BY DEF Leaf
<1> QED
  BY <1>1, BelowHere, NothingBelow DEF Grown

(* A branch of trees is a tree one deeper.                                  *)
LEMMA BranchTree ==
  ASSUME NEW a, NEW H \in Int, NEW I \in Nat, I = H + 1, Composite(a),
         \A k \in DOMAIN a.at : Tree(a.at[k], H)
  PROVE  Tree(a, I)
<1> SUFFICES ASSUME NEW p \in Paths
             PROVE  Grown(Below(a, p)) /\ (Len(p) > I => Below(a, p) = Missing)
  BY DEF Tree
<1>1. CASE p = <<>>
  BY <1>1, BelowHere DEF Grown
<1>2. CASE p # <<>>
  <2>1. PICK k \in Keys, q \in Paths : p = <<k>> \o q
    BY <1>2, PathHead
  <2>2. Below(a, p) = Below(Child(a, k), q)
    BY <2>1, BelowFirst
  <2>3. Len(p) = Len(q) + 1 /\ Len(q) \in Nat
    BY <2>1 DEF Paths
  <2>4. Tree(Child(a, k), H)
    <3>1. CASE k \in DOMAIN a.at
      BY <3>1, Branches
    <3>2. CASE k \notin DOMAIN a.at
      BY <3>2, NoTree, Branches
    <3> QED
      BY <3>1, <3>2
  <2> QED
    BY <2>2, <2>3, <2>4 DEF Tree
<1> QED
  BY <1>1, <1>2

-----------------------------------------------------------------------------
(* Values: recursion over the paths of a tree *)

Yields(f, p) == [k \in Keys |-> f[Append(p, k)]]
Follows(f, step) == f = [p \in Paths |-> step[p][Yields(f, p)]]

(* Below a given length nothing asks its children, so there is one answer.  *)
LEMMA PathRecursion ==
  ASSUME NEW D, NEW d \in D, NEW H \in Nat, NEW step \in [Paths -> [[Keys -> D] -> D]],
         \A p \in Paths : Len(p) > H => \A b, c \in [Keys -> D] : step[p][b] = step[p][c]
  PROVE  \E f \in [Paths -> D] : Follows(f, step)
<1> DEFINE Right(f, p) == f[p] = step[p][Yields(f, p)]
           Able == {n \in Nat : \E f \in [Paths -> D] :
                                  \A p \in Paths : Len(p) + n > H => Right(f, p)}
<1>1. ASSUME NEW f \in [Paths -> D], NEW p \in Paths
      PROVE  Yields(f, p) \in [Keys -> D]
  BY PathFacts DEF Yields
<1>2. ASSUME NEW c \in [Keys -> D], NEW p \in Paths
      PROVE  step[p][c] \in D
  OBVIOUS
<1>3. 0 \in Able
  <2> DEFINE none == [k \in Keys |-> d]
             f == [p \in Paths |-> step[p][none]]
  <2>1. none \in [Keys -> D]
    OBVIOUS
  <2>2. f \in [Paths -> D]
    BY <1>2, <2>1
  <2> HIDE DEF none
  <2>3. ASSUME NEW p \in Paths, Len(p) + 0 > H
        PROVE  Right(f, p)
    <3>1. f[p] = step[p][none]
      OBVIOUS
    <3>2. Yields(f, p) \in [Keys -> D]
      BY <1>1, <2>2
    <3>3. Len(p) > H
      BY <2>3, PathFacts
    <3> HIDE DEF f
    <3> QED
      BY <2>1, <3>1, <3>2, <3>3
  <2> QED
    BY <2>2, <2>3
<1>4. ASSUME NEW n \in Able
      PROVE  n + 1 \in Able
  <2>1. PICK f \in [Paths -> D] : \A p \in Paths : Len(p) + n > H => Right(f, p)
    BY <1>4
  <2> DEFINE g == [p \in Paths |-> step[p][Yields(f, p)]]
  <2>2. g \in [Paths -> D]
    BY <1>1, <1>2
  <2>3. \A p \in Paths : g[p] = step[p][Yields(f, p)]
    OBVIOUS
  <2> HIDE DEF g
  <2>4. \A p \in Paths : Len(p) + n > H => g[p] = f[p]
    BY <2>1, <2>3
  <2>5. ASSUME NEW p \in Paths, Len(p) + (n + 1) > H
        PROVE  Right(g, p)
    <3>1. \A k \in Keys : g[Append(p, k)] = f[Append(p, k)]
      <4>1. SUFFICES ASSUME NEW k \in Keys
                     PROVE  g[Append(p, k)] = f[Append(p, k)]
        OBVIOUS
      <4>2. Append(p, k) \in Paths /\ Len(Append(p, k)) + n > H
        BY <1>4, <2>5, PathFacts
      <4> QED
        BY <2>4, <4>2
    <3>2. Yields(g, p) = Yields(f, p)
      BY <3>1 DEF Yields
    <3> QED
      BY <2>3, <3>2
  <2> QED
    BY <1>4, <2>2, <2>5
<1> HIDE DEF Able
<1>5. Able \in SUBSET Nat
  BY DEF Able
<1>6. Able = Nat
  BY <1>3, <1>4, <1>5, NaturalInduction
<1>7. PICK f \in [Paths -> D] : \A p \in Paths : Len(p) + (H + 1) > H => Right(f, p)
  <2>1. H + 1 \in Able
    BY <1>6
  <2> QED
    BY <2>1 DEF Able
<1>8. \A p \in Paths : f[p] = step[p][Yields(f, p)]
  BY <1>7, PathFacts
<1>9. f = [p \in Paths |-> f[p]]
  OBVIOUS
<1>10. f = [p \in Paths |-> step[p][Yields(f, p)]]
  BY <1>8, <1>9
<1> QED
  BY <1>10 DEF Follows

-----------------------------------------------------------------------------
(* Values: what it means that two trees are alike *)

AllAlike(l, r, p) == \A s \in Paths : LeafAlike(l, r, p \o s)
Exact(l, r, p) == /\ Below(l, p).kind = Below(r, p).kind
                  /\ Below(l, p).kind = "number" => Below(l, p) = Below(r, p)
AllExact(l, r, p) == \A s \in Paths : Exact(l, r, p \o s)
Gone(l, r, p) == Below(l, p) = Missing /\ Below(r, p) = Missing

(* Two trees are alike below a path when its leaves and its children are.   *)
LEMMA AlikeStep ==
  ASSUME NEW l, NEW r, NEW p \in Paths
  PROVE  AllAlike(l, r, p) <=> /\ LeafAlike(l, r, p)
                               /\ \A k \in Keys : AllAlike(l, r, Append(p, k))
<1>1. p \o <<>> = p
  BY ConcatEmptySeq DEF Paths
<1>2. ASSUME AllAlike(l, r, p)
      PROVE  LeafAlike(l, r, p) /\ \A k \in Keys : AllAlike(l, r, Append(p, k))
  <2>1. LeafAlike(l, r, p)
    BY <1>1, <1>2, PathFacts DEF AllAlike
  <2>2. ASSUME NEW k \in Keys, NEW q \in Paths
        PROVE  LeafAlike(l, r, Append(p, k) \o q)
    <3>1. <<k>> \o q \in Paths /\ Append(p, k) \o q = p \o (<<k>> \o q)
      BY PathJoin
    <3> QED
      BY <1>2, <3>1 DEF AllAlike
  <2> QED
    BY <2>1, <2>2 DEF AllAlike
<1>3. ASSUME LeafAlike(l, r, p), \A k \in Keys : AllAlike(l, r, Append(p, k)), NEW s \in Paths
      PROVE  LeafAlike(l, r, p \o s)
  <2>1. CASE s = <<>>
    BY <1>1, <1>3, <2>1
  <2>2. CASE s # <<>>
    <3>1. PICK k \in Keys, q \in Paths : s = <<k>> \o q
      BY <2>2, PathHead
    <3>2. Append(p, k) \o q = p \o s
      BY <3>1, PathJoin
    <3>3. LeafAlike(l, r, Append(p, k) \o q)
      BY <1>3 DEF AllAlike
    <3> QED
      BY <3>2, <3>3
  <2> QED
    BY <2>1, <2>2
<1> QED
  BY <1>2, <1>3 DEF AllAlike

(* Where there is no node, nothing differs.                                 *)
LEMMA GoneIsAlike ==
  ASSUME NEW l, NEW r, NEW p \in Paths, Gone(l, r, p)
  PROVE  AllAlike(l, r, p)
<1> SUFFICES ASSUME NEW s \in Paths
             PROVE  LeafAlike(l, r, p \o s)
  BY DEF AllAlike
<1>1. Below(Missing, s) = Missing
  <2>1. Leaf(Missing)
    BY DEF Leaf
  <2> QED
    BY <2>1, BelowHere, NothingBelow
<1>2. Below(l, p \o s) = Missing /\ Below(r, p \o s) = Missing
  BY <1>1, BelowMore DEF Gone
<1> QED
  BY <1>2 DEF LeafAlike, Missing

(* The kind of a node tells leaves from branches.                           *)
LEMMA KindsAre ==
  ASSUME NEW a, Grown(a)
  PROVE  /\ a.kind \in {"missing", "secret", "standard-error", "number"} \cup Composites
         /\ a.kind = "missing" <=> a = Missing
         /\ a.kind \in Composites <=> Composite(a)
         /\ a.kind \notin Composites <=> Leaf(a)
         /\ Inner(a) <=> Composite(a)
<1>1. CASE Leaf(a)
  BY <1>1, Leafs, Branches DEF Composites
<1>2. CASE Composite(a)
  <2>1. a.kind \in Composites /\ Inner(a) /\ ~Leaf(a) /\ a # Missing
    BY <1>2, Branches
  <2> QED
    BY <1>2, <2>1 DEF Composites
<1> QED
  BY <1>1, <1>2 DEF Grown

(* Leaves of the same kind, and the same number, are the same.              *)
LEMMA SameLeafs ==
  ASSUME NEW a, NEW b, Leaf(a), Grown(b), a.kind = b.kind, a.kind = "number" => a = b
  PROVE  a = b
<1>1. a.kind \in {"missing", "secret", "standard-error", "number"}
  BY Leafs
<1>2. Leaf(b)
  BY <1>1, KindsAre DEF Composites
<1> QED
  BY <1>1, <1>2, Leafs

(* Trees that agree in every leaf are the same.                             *)
LEMMA SameTrees ==
  ASSUME NEW l, NEW r, NEW H \in Nat, NEW I \in Nat, Tree(l, H), Tree(r, I),
         NEW p \in Paths, AllExact(l, r, p)
  PROVE  Below(l, p) = Below(r, p)
<1> DEFINE Good == {q \in Paths : AllExact(l, r, q) => Below(l, q) = Below(r, q)}
<1>1. ASSUME NEW q \in Paths
      PROVE  Grown(Below(l, q)) /\ Grown(Below(r, q))
  BY DEF Tree
<1>2. ASSUME NEW q \in Paths, AllExact(l, r, q)
      PROVE  Exact(l, r, q) /\ \A k \in Keys : AllExact(l, r, Append(q, k))
  <2>1. q \o <<>> = q
    BY ConcatEmptySeq DEF Paths
  <2>2. Exact(l, r, q)
    BY <1>2, <2>1, PathFacts DEF AllExact
  <2>3. ASSUME NEW k \in Keys, NEW s \in Paths
        PROVE  Exact(l, r, Append(q, k) \o s)
    <3>1. <<k>> \o s \in Paths /\ Append(q, k) \o s = q \o (<<k>> \o s)
      BY PathJoin
    <3> QED
      BY <1>2, <3>1 DEF AllExact
  <2> QED
    BY <2>2, <2>3 DEF AllExact
<1>3. ASSUME NEW q \in Paths, Leaf(Below(l, q)), AllExact(l, r, q)
      PROVE  Below(l, q) = Below(r, q)
  BY <1>1, <1>2, <1>3, SameLeafs DEF Exact
<1>4. ASSUME NEW q \in Paths, Len(q) > H
      PROVE  q \in Good
  <2>1. Leaf(Below(l, q))
    BY <1>4 DEF Tree, Leaf
  <2> QED
    BY <1>3, <2>1
<1>5. ASSUME NEW q \in Paths, \A k \in Keys : Append(q, k) \in Good
      PROVE  q \in Good
  <2> SUFFICES ASSUME AllExact(l, r, q)
               PROVE  Below(l, q) = Below(r, q)
    OBVIOUS
  <2>1. CASE Leaf(Below(l, q))
    BY <1>3, <2>1
  <2>2. CASE Composite(Below(l, q))
    <3>1. Below(l, q).kind = Below(r, q).kind
      BY <1>2 DEF Exact
    <3>2. Composite(Below(r, q))
      BY <1>1, <2>2, <3>1, KindsAre
    <3>3. ASSUME NEW k \in Keys
          PROVE  Child(Below(l, q), k) = Child(Below(r, q), k)
      <4>1. AllExact(l, r, Append(q, k))
        BY <1>2
      <4>2. Below(l, Append(q, k)) = Below(r, Append(q, k))
        BY <1>5, <4>1
      <4> QED
        BY <4>2, BelowNext
    <3> QED
      BY <2>2, <3>1, <3>2, <3>3, SameBranches
  <2> QED
    BY <1>1, <2>1, <2>2 DEF Grown
<1> HIDE DEF Good
<1>6. Good \in SUBSET Paths
  BY DEF Good
<1>7. Good = Paths
  BY <1>4, <1>5, <1>6, PathDescent
<1> QED
  BY <1>7 DEF Good

(* What an adapter gave is compared exactly.                               *)
LEMMA OpaqueBelow ==
  ASSUME NEW l, NEW p \in Paths, Below(l, p).kind = "adapted", NEW s \in Paths, s # <<>>
  PROVE  Opaque(l, p \o s)
<1>1. /\ Len(p) \in Nat /\ Len(s) \in Nat /\ Len(s) # 0
      /\ Len(p \o s) = Len(p) + Len(s)
  BY PathFacts, ConcatProperties DEF Paths
<1>2. SubSeq(p \o s, 1, Len(p)) = p
  <2>1. p \in Seq(Keys) /\ s \in Seq(Keys)
    BY DEF Paths
  <2>2. SubSeq(p \o s, 1, Len(p)) = SubSeq(p, 1, Len(p))
    BY <1>1, <2>1, SubSeqOfConcat1
  <2> QED
    BY <2>1, <2>2, SubSeqFull
<1>3. Len(p) \in 0 .. (Len(p \o s) - 1)
  BY <1>1
<1> QED
  BY <1>2, <1>3 DEF Opaque

Tolerable(l) == \A p \in Paths : p \in tolerated => ~Opaque(l, p)

(* No leaf of a payload is tolerated, so that alike there is equal.         *)
LEMMA AdaptedIsExact ==
  ASSUME NEW l, NEW r, Tolerable(l), NEW p \in Paths,
         Below(l, p).kind = "adapted", AllAlike(l, r, p)
  PROVE  AllExact(l, r, p)
<1> SUFFICES ASSUME NEW s \in Paths
             PROVE  Exact(l, r, p \o s)
  BY DEF AllExact
<1>1. LeafAlike(l, r, p \o s)
  BY DEF AllAlike
<1>2. CASE s = <<>>
  <2>1. p \o s = p
    BY <1>2, ConcatEmptySeq DEF Paths
  <2> QED
    BY <1>1, <2>1 DEF LeafAlike, Exact
<1>3. CASE s # <<>>
  <2>1. Opaque(l, p \o s) /\ p \o s \in Paths
    BY <1>3, OpaqueBelow, BelowMore
  <2>2. p \o s \notin tolerated
    BY <2>1 DEF Tolerable
  <2> QED
    BY <1>1, <2>2 DEF LeafAlike, Exact
<1> QED
  BY <1>2, <1>3

-----------------------------------------------------------------------------
(* Values: the three comparisons are functions by recursion over paths *)

MatchBody(l, r, f, p) ==
  LET a == Below(l, p)
      b == Below(r, p)
  IN IF a.kind = "number" /\ b.kind = "number" THEN a = b \/ Near(a, b, p)
     ELSE IF a.kind = b.kind /\ a.kind \in {"array", "record"}
          THEN /\ DOMAIN a.at = DOMAIN b.at
               /\ \A k \in DOMAIN a.at : f[Append(p, k)]
     ELSE a = b
MatchNode(l, r, p, c) ==
  LET a == Below(l, p)
      b == Below(r, p)
  IN IF a.kind = "number" /\ b.kind = "number" THEN a = b \/ Near(a, b, p)
     ELSE IF a.kind = b.kind /\ a.kind \in {"array", "record"}
          THEN /\ DOMAIN a.at = DOMAIN b.at
               /\ \A k \in DOMAIN a.at : c[k]
     ELSE a = b
DifferenceBody(l, r, f, p) ==
  LET a == Below(l, p)
      b == Below(r, p)
      unlike == {k \in DOMAIN a.at \cup DOMAIN b.at :
                   ~(k \in DOMAIN a.at \cap DOMAIN b.at /\ Match(l, r)[Append(p, k)])}
      expected == unlike \cap DOMAIN a.at
      first == Least(IF expected = {} THEN unlike ELSE expected)
  IN IF a.kind # b.kind \/ a.kind \notin {"array", "record", "adapted"} THEN p
     ELSE IF unlike = {} THEN None
     ELSE IF first \in DOMAIN a.at \cap DOMAIN b.at THEN f[Append(p, first)]
     ELSE Append(p, first)
DifferenceNode(l, r, p, c) ==
  LET a == Below(l, p)
      b == Below(r, p)
      unlike == {k \in DOMAIN a.at \cup DOMAIN b.at :
                   ~(k \in DOMAIN a.at \cap DOMAIN b.at /\ Match(l, r)[Append(p, k)])}
      expected == unlike \cap DOMAIN a.at
      first == Least(IF expected = {} THEN unlike ELSE expected)
  IN IF a.kind # b.kind \/ a.kind \notin {"array", "record", "adapted"} THEN p
     ELSE IF unlike = {} THEN None
     ELSE IF first \in DOMAIN a.at \cap DOMAIN b.at THEN c[first]
     ELSE Append(p, first)
FirstBody(l, r, f, p) ==
  LET a == Below(l, p)
      b == Below(r, p)
      unlike == {k \in DOMAIN a.at \cup DOMAIN b.at : f[Append(p, k)] # None}
  IN IF a.kind # b.kind THEN p
     ELSE IF a.kind = "number"
          THEN IF a = b \/ (~Opaque(l, p) /\ Near(a, b, p)) THEN None ELSE p
     ELSE IF ~Inner(a) THEN IF a = b THEN None ELSE p
     ELSE IF unlike = {} THEN None ELSE f[Append(p, Least(unlike))]
FirstNode(l, r, p, c) ==
  LET a == Below(l, p)
      b == Below(r, p)
      unlike == {k \in DOMAIN a.at \cup DOMAIN b.at : c[k] # None}
  IN IF a.kind # b.kind THEN p
     ELSE IF a.kind = "number"
          THEN IF a = b \/ (~Opaque(l, p) /\ Near(a, b, p)) THEN None ELSE p
     ELSE IF ~Inner(a) THEN IF a = b THEN None ELSE p
     ELSE IF unlike = {} THEN None ELSE c[Least(unlike)]

(* Match is a function by recursion over paths.                             *)
LEMMA MatchIs ==
  ASSUME NEW l, NEW r
  PROVE  Match(l, r) = CHOOSE f : f = [p \in Paths |-> MatchBody(l, r, f, p)]
BY DEF Match, MatchBody

(* Difference is a function by recursion over paths.                        *)
LEMMA DifferenceIs ==
  ASSUME NEW l, NEW r
  PROVE  Difference(l, r) = CHOOSE f : f = [p \in Paths |-> DifferenceBody(l, r, f, p)]
BY DEF Difference, DifferenceBody

(* First is a function by recursion over paths.                             *)
LEMMA FirstIs ==
  ASSUME NEW l, NEW r
  PROVE  First(l, r) = CHOOSE f : f = [p \in Paths |-> FirstBody(l, r, f, p)]
BY DEF First, FirstBody

(* A set of keys that is not empty has a least one.                         *)
LEMMA LeastIs ==
  ASSUME NEW ks \in SUBSET Keys, ks # {}
  PROVE  Least(ks) \in ks /\ Least(ks) \in Keys
<1>1. \E k \in ks : \A j \in ks : k <= j
  <2>1. \A j \in ks : j = 0 \/ j = 1
    BY DEF Keys
  <2>2. CASE 0 \in ks
    BY <2>1, <2>2
  <2>3. CASE 0 \notin ks
    BY <2>1, <2>3
  <2> QED
    BY <2>2, <2>3
<1> QED
  BY <1>1 DEF Least

(* The trees that are compared, and their nodes of one path.               *)
Pair(l, r, H) == /\ H \in Nat /\ Tree(l, H) /\ \E i \in Nat : Tree(r, i)

(* The nodes of two trees that are compared, and how deep the first goes.   *)
LEMMA PairOfNodes ==
  ASSUME NEW l, NEW r, NEW H, Pair(l, r, H), NEW p \in Paths
  PROVE  /\ Grown(Below(l, p)) /\ Grown(Below(r, p))
         /\ Len(p) > H => Below(l, p) = Missing
         /\ Below(l, p).kind \in Composites => /\ Len(p) <= H
                                               /\ DOMAIN Below(l, p).at \subseteq Keys
         /\ Below(r, p).kind \in Composites => DOMAIN Below(r, p).at \subseteq Keys
<1>1. Grown(Below(l, p)) /\ Grown(Below(r, p)) /\ (Len(p) > H => Below(l, p) = Missing)
  BY DEF Pair, Tree
<1>2. Below(l, p) = Missing => Below(l, p).kind \notin Composites
  BY DEF Missing, Composites
<1>3. Len(p) \in Nat /\ H \in Nat
  BY PathFacts DEF Pair
<1> QED
  BY <1>1, <1>2, <1>3, KindsAre, Branches

(* That function exists: below the first tree it needs no recursion.        *)
LEMMA MatchExists ==
  ASSUME NEW l, NEW r, NEW H, Pair(l, r, H)
  PROVE  \A p \in Paths : Match(l, r)[p] = MatchBody(l, r, Match(l, r), p)
<1> DEFINE step == [p \in Paths |-> [c \in [Keys -> BOOLEAN] |-> MatchNode(l, r, p, c)]]
<1>1. step \in [Paths -> [[Keys -> BOOLEAN] -> BOOLEAN]]
  BY DEF MatchNode, Near
<1>2. \A p \in Paths : \A c \in [Keys -> BOOLEAN] : step[p][c] = MatchNode(l, r, p, c)
  OBVIOUS
<1> HIDE DEF step
<1>3. ASSUME NEW p \in Paths, Len(p) > H, NEW b \in [Keys -> BOOLEAN], NEW c \in [Keys -> BOOLEAN]
      PROVE  step[p][b] = step[p][c]
  <2>1. Below(l, p).kind = "missing"
    BY <1>3, PairOfNodes DEF Missing
  <2> QED
    BY <1>2, <2>1 DEF MatchNode
<1>4. H \in Nat
  BY DEF Pair
<1>5. PICK f \in [Paths -> BOOLEAN] : Follows(f, step)
  BY <1>1, <1>3, <1>4, PathRecursion
<1>6. ASSUME NEW p \in Paths
      PROVE  step[p][Yields(f, p)] = MatchBody(l, r, f, p)
  <2>1. Yields(f, p) \in [Keys -> BOOLEAN]
    BY PathFacts DEF Yields
  <2>2. step[p][Yields(f, p)] = MatchNode(l, r, p, Yields(f, p))
    BY <1>2, <2>1
  <2>3. Below(l, p).kind \in {"array", "record"} => DOMAIN Below(l, p).at \subseteq Keys
    BY PairOfNodes DEF Composites
  <2>4. \A k \in Keys : Yields(f, p)[k] = f[Append(p, k)]
    BY DEF Yields
  <2>5. MatchNode(l, r, p, Yields(f, p)) = MatchBody(l, r, f, p)
    BY <2>3, <2>4 DEF MatchNode, MatchBody
  <2> QED
    BY <2>2, <2>5
<1>7. f = [p \in Paths |-> MatchBody(l, r, f, p)]
  BY <1>5, <1>6 DEF Follows
<1>8. Match(l, r) = [p \in Paths |-> MatchBody(l, r, Match(l, r), p)]
  BY <1>7, MatchIs
<1> HIDE DEF MatchBody
<1> QED
  BY <1>8

(* That function exists: below the first tree it needs no recursion.        *)
LEMMA DifferenceExists ==
  ASSUME NEW l, NEW r, NEW H, Pair(l, r, H)
  PROVE  \A p \in Paths : Difference(l, r)[p] = DifferenceBody(l, r, Difference(l, r), p)
<1> DEFINE D == Paths \cup {None}
           step == [p \in Paths |-> [c \in [Keys -> D] |-> DifferenceNode(l, r, p, c)]]
           unlike(p) == {k \in DOMAIN Below(l, p).at \cup DOMAIN Below(r, p).at :
                           ~(k \in DOMAIN Below(l, p).at \cap DOMAIN Below(r, p).at
                               /\ Match(l, r)[Append(p, k)])}
           first(p) == Least(IF unlike(p) \cap DOMAIN Below(l, p).at = {} THEN unlike(p)
                             ELSE unlike(p) \cap DOMAIN Below(l, p).at)
<1>0. ASSUME NEW p \in Paths, Below(l, p).kind = Below(r, p).kind,
             Below(l, p).kind \in {"array", "record", "adapted"}, unlike(p) # {}
      PROVE  first(p) \in Keys
  <2>1. DOMAIN Below(l, p).at \subseteq Keys /\ DOMAIN Below(r, p).at \subseteq Keys
    BY <1>0, PairOfNodes DEF Composites
  <2>2. unlike(p) \in SUBSET Keys
    BY <2>1
  <2> HIDE DEF unlike
  <2> QED
    BY <1>0, <2>2, LeastIs
<1>1. ASSUME NEW p \in Paths, NEW c \in [Keys -> D]
      PROVE  DifferenceNode(l, r, p, c) \in D
  <2>1. first(p) \in Keys => c[first(p)] \in D /\ Append(p, first(p)) \in D
    BY PathFacts
  <2> HIDE DEF D
  <2>2. p \in D /\ None \in D
    BY DEF D
  <2> QED
    BY <1>0, <2>1, <2>2 DEF DifferenceNode
<1>2. \A p \in Paths : \A c \in [Keys -> D] : step[p][c] = DifferenceNode(l, r, p, c)
  OBVIOUS
<1>3. step \in [Paths -> [[Keys -> D] -> D]]
  BY <1>1
<1> HIDE DEF step
<1>4. ASSUME NEW p \in Paths, Len(p) > H, NEW b \in [Keys -> D], NEW c \in [Keys -> D]
      PROVE  step[p][b] = step[p][c]
  <2>1. Below(l, p).kind = "missing"
    BY <1>4, PairOfNodes DEF Missing
  <2> QED
    BY <1>2, <2>1 DEF DifferenceNode
<1>5. H \in Nat /\ None \in D
  BY DEF Pair
<1> HIDE DEF D
<1>6. PICK f \in [Paths -> D] : Follows(f, step)
  BY <1>3, <1>4, <1>5, PathRecursion
<1>7. ASSUME NEW p \in Paths
      PROVE  step[p][Yields(f, p)] = DifferenceBody(l, r, f, p)
  <2>1. Yields(f, p) \in [Keys -> D]
    BY PathFacts DEF Yields
  <2>2. step[p][Yields(f, p)] = DifferenceNode(l, r, p, Yields(f, p))
    BY <1>2, <2>1
  <2>3. first(p) \in Keys => Yields(f, p)[first(p)] = f[Append(p, first(p))]
    BY DEF Yields
  <2>4. DifferenceNode(l, r, p, Yields(f, p)) = DifferenceBody(l, r, f, p)
    BY <1>0, <2>3 DEF DifferenceNode, DifferenceBody
  <2> QED
    BY <2>2, <2>4
<1>8. f = [p \in Paths |-> DifferenceBody(l, r, f, p)]
  BY <1>6, <1>7 DEF Follows
<1>9. Difference(l, r) = [p \in Paths |-> DifferenceBody(l, r, Difference(l, r), p)]
  BY <1>8, DifferenceIs
<1> QED
  BY <1>9

(* That function exists: below the first tree it needs no recursion.        *)
LEMMA FirstExists ==
  ASSUME NEW l, NEW r, NEW H, Pair(l, r, H)
  PROVE  \A p \in Paths : First(l, r)[p] = FirstBody(l, r, First(l, r), p)
<1> DEFINE D == Paths \cup {None}
           step == [p \in Paths |-> [c \in [Keys -> D] |-> FirstNode(l, r, p, c)]]
           kept(p, c) == {k \in DOMAIN Below(l, p).at \cup DOMAIN Below(r, p).at : c[k] # None}
<1>0. ASSUME NEW p \in Paths, Below(l, p).kind = Below(r, p).kind, Inner(Below(l, p))
      PROVE  DOMAIN Below(l, p).at \subseteq Keys /\ DOMAIN Below(r, p).at \subseteq Keys
  BY <1>0, PairOfNodes, KindsAre
<1>1. ASSUME NEW p \in Paths, NEW c \in [Keys -> D]
      PROVE  FirstNode(l, r, p, c) \in D
  <2>1. ASSUME Below(l, p).kind = Below(r, p).kind, Inner(Below(l, p)), kept(p, c) # {}
        PROVE  c[Least(kept(p, c))] \in D
    <3>1. kept(p, c) \in SUBSET Keys
      BY <1>0, <2>1
    <3> HIDE DEF kept
    <3> QED
      BY <2>1, <3>1, LeastIs
  <2> HIDE DEF D
  <2>2. p \in D /\ None \in D
    BY DEF D
  <2> QED
    BY <2>1, <2>2 DEF FirstNode
<1>2. \A p \in Paths : \A c \in [Keys -> D] : step[p][c] = FirstNode(l, r, p, c)
  OBVIOUS
<1>3. step \in [Paths -> [[Keys -> D] -> D]]
  BY <1>1
<1> HIDE DEF step
<1>4. ASSUME NEW p \in Paths, Len(p) > H, NEW b \in [Keys -> D], NEW c \in [Keys -> D]
      PROVE  step[p][b] = step[p][c]
  <2>1. Below(l, p) = Missing /\ ~Inner(Missing)
    BY <1>4, PairOfNodes DEF Missing, Inner
  <2> QED
    BY <1>2, <2>1 DEF FirstNode
<1>5. H \in Nat /\ None \in D
  BY DEF Pair
<1> HIDE DEF D
<1>6. PICK f \in [Paths -> D] : Follows(f, step)
  BY <1>3, <1>4, <1>5, PathRecursion
<1>7. ASSUME NEW p \in Paths
      PROVE  step[p][Yields(f, p)] = FirstBody(l, r, f, p)
  <2>1. Yields(f, p) \in [Keys -> D]
    BY PathFacts DEF Yields
  <2>2. step[p][Yields(f, p)] = FirstNode(l, r, p, Yields(f, p))
    BY <1>2, <2>1
  <2>3. \A k \in Keys : Yields(f, p)[k] = f[Append(p, k)]
    BY DEF Yields
  <2>4. FirstNode(l, r, p, Yields(f, p)) = FirstBody(l, r, f, p)
    <3>1. CASE Below(l, p).kind = Below(r, p).kind /\ Inner(Below(l, p))
      <4> DEFINE of(p_) == {k \in DOMAIN Below(l, p).at \cup DOMAIN Below(r, p).at : f[Append(p, k)] # None}
      <4>1. kept(p, Yields(f, p)) = of(p) /\ of(p) \in SUBSET Keys
        BY <1>0, <2>3, <3>1
      <4>2. of(p) # {} => Yields(f, p)[Least(of(p))] = f[Append(p, Least(of(p)))]
        <5> HIDE DEF of
        <5> QED
          BY <2>3, <4>1, LeastIs
      <4> QED
        BY <4>1, <4>2 DEF FirstNode, FirstBody
    <3>2. CASE ~(Below(l, p).kind = Below(r, p).kind /\ Inner(Below(l, p)))
      BY <3>2 DEF FirstNode, FirstBody
    <3> QED
      BY <3>1, <3>2
  <2> QED
    BY <2>2, <2>4
<1>8. f = [p \in Paths |-> FirstBody(l, r, f, p)]
  BY <1>6, <1>7 DEF Follows
<1>9. First(l, r) = [p \in Paths |-> FirstBody(l, r, First(l, r), p)]
  BY <1>8, FirstIs
<1> QED
  BY <1>9

-----------------------------------------------------------------------------
(* Values: what the comparisons decide and tell *)

WithoutErrors(l) == \A p \in Paths : Below(l, p).kind # "error"
Compared(l, r, H) == Pair(l, r, H) /\ Tolerable(l)

(* A difference is told that is there, and not too deep.                    *)
Tells(l, r, H, d) ==
  /\ d \in Paths /\ Len(d) <= H + 1 /\ ~Gone(l, r, d)
  /\ \E s \in Paths : Len(d \o s) <= H + 1 /\ ~LeafAlike(l, r, d \o s)

(* Leaves that are alike have one kind, and are missing together.           *)
LEMMA AlikeNodes ==
  ASSUME NEW l, NEW r, NEW H, Pair(l, r, H), NEW p \in Paths, LeafAlike(l, r, p)
  PROVE  /\ Below(l, p).kind = Below(r, p).kind
         /\ Below(l, p) = Missing <=> Below(r, p) = Missing
BY PairOfNodes, KindsAre DEF LeafAlike

(* Below a leaf there is nothing to differ.                                 *)
LEMMA LeafsAlike ==
  ASSUME NEW l, NEW r, NEW H, Pair(l, r, H), NEW p \in Paths, Leaf(Below(l, p)),
         LeafAlike(l, r, p)
  PROVE  AllAlike(l, r, p)
<1>1. Leaf(Below(r, p))
  BY PairOfNodes, Leafs, KindsAre DEF LeafAlike
<1>2. ASSUME NEW k \in Keys
      PROVE  AllAlike(l, r, Append(p, k))
  <2>1. Below(l, Append(p, k)) = Missing /\ Below(r, Append(p, k)) = Missing
    BY <1>1, BelowNext, Leafs
  <2>2. Append(p, k) \in Paths
    BY PathFacts
  <2> QED
    BY <2>1, <2>2, GoneIsAlike DEF Gone
<1> QED
  BY <1>2, AlikeStep

(* A branch is alike when its children are: those that one tree has alone   *)
(* are not, and those that both lack are.                                   *)
LEMMA BranchesAlike ==
  ASSUME NEW l, NEW r, NEW H, Pair(l, r, H), NEW p \in Paths,
         Composite(Below(l, p)), Below(l, p).kind = Below(r, p).kind
  PROVE  /\ AllAlike(l, r, p) <=>
              \A k \in DOMAIN Below(l, p).at \cup DOMAIN Below(r, p).at :
                AllAlike(l, r, Append(p, k))
         /\ \A k \in DOMAIN Below(l, p).at \cup DOMAIN Below(r, p).at :
              /\ k \in Keys
              /\ k \notin DOMAIN Below(l, p).at \cap DOMAIN Below(r, p).at =>
                   ~LeafAlike(l, r, Append(p, k)) /\ ~Gone(l, r, Append(p, k))
<1> DEFINE a == Below(l, p)
           b == Below(r, p)
<1>1. Composite(a) /\ Composite(b) /\ a.kind \in Composites
  <2>1. a.kind \in Composites
    BY Branches
  <2> QED
    BY <2>1, PairOfNodes, KindsAre
<1>2. DOMAIN a.at \subseteq Keys /\ DOMAIN b.at \subseteq Keys
  BY <1>1, Branches
<1>3. ASSUME NEW k \in Keys
      PROVE  /\ Append(p, k) \in Paths
             /\ Below(l, Append(p, k)) = Missing <=> k \notin DOMAIN a.at
             /\ Below(r, Append(p, k)) = Missing <=> k \notin DOMAIN b.at
  BY <1>1, BelowNext, Branches, PathFacts
<1>4. ASSUME NEW k \in Keys, k \notin DOMAIN a.at \cup DOMAIN b.at
      PROVE  AllAlike(l, r, Append(p, k))
  BY <1>3, <1>4, GoneIsAlike DEF Gone
<1>5. LeafAlike(l, r, p)
  BY <1>1 DEF LeafAlike, Composites
<1>6. ASSUME NEW k \in Keys, k \in DOMAIN a.at \cup DOMAIN b.at, k \notin DOMAIN a.at \cap DOMAIN b.at
      PROVE  ~LeafAlike(l, r, Append(p, k)) /\ ~Gone(l, r, Append(p, k))
  BY <1>3, <1>6, AlikeNodes DEF Gone
<1> HIDE DEF a, b
<1>7. AllAlike(l, r, p) <=> \A k \in DOMAIN a.at \cup DOMAIN b.at : AllAlike(l, r, Append(p, k))
  BY <1>2, <1>4, <1>5, AlikeStep
<1>8. \A k \in DOMAIN a.at \cup DOMAIN b.at :
        /\ k \in Keys
        /\ k \notin DOMAIN a.at \cap DOMAIN b.at =>
             ~LeafAlike(l, r, Append(p, k)) /\ ~Gone(l, r, Append(p, k))
  BY <1>2, <1>6
<1> QED
  BY <1>7, <1>8 DEF a, b

(* Where two trees are not alike, a leaf at or below differs.               *)
LEMMA NotAlikeTells ==
  ASSUME NEW l, NEW r, NEW H, Pair(l, r, H), NEW p \in Paths, Len(p) <= H + 1,
         ~AllAlike(l, r, p)
  PROVE  Tells(l, r, H, p)
<1> DEFINE Good == {q \in Paths : Len(q) <= H + 1 /\ ~AllAlike(l, r, q) =>
                      \E s \in Paths : Len(q \o s) <= H + 1 /\ ~LeafAlike(l, r, q \o s)}
<1>1. H \in Nat /\ H + 1 \in Nat
  BY DEF Pair
<1>2. ASSUME NEW q \in Paths
      PROVE  q \o <<>> = q
  BY ConcatEmptySeq DEF Paths
<1>3. ASSUME NEW q \in Paths, Len(q) > H + 1
      PROVE  q \in Good
  BY <1>1, <1>3, PathFacts
<1>4. ASSUME NEW q \in Paths, \A k \in Keys : Append(q, k) \in Good
      PROVE  q \in Good
  <2> SUFFICES ASSUME Len(q) <= H + 1, ~AllAlike(l, r, q)
               PROVE  \E s \in Paths : Len(q \o s) <= H + 1 /\ ~LeafAlike(l, r, q \o s)
    OBVIOUS
  <2>1. CASE ~LeafAlike(l, r, q)
    BY <1>2, <2>1, PathFacts
  <2>2. CASE LeafAlike(l, r, q)
    <3>1. Composite(Below(l, q))
      BY <2>2, LeafsAlike, PairOfNodes DEF Grown
    <3>2. Len(q) <= H
      BY <3>1, PairOfNodes, Branches
    <3>3. PICK k \in Keys : ~AllAlike(l, r, Append(q, k))
      BY <2>2, AlikeStep
    <3>4. Append(q, k) \in Paths /\ Len(Append(q, k)) <= H + 1
      BY <1>1, <3>2, PathFacts
    <3>5. PICK s \in Paths : /\ Len(Append(q, k) \o s) <= H + 1
                             /\ ~LeafAlike(l, r, Append(q, k) \o s)
      BY <1>4, <3>3, <3>4
    <3>6. <<k>> \o s \in Paths /\ Append(q, k) \o s = q \o (<<k>> \o s)
      BY PathJoin
    <3> QED
      BY <3>5, <3>6
  <2> QED
    BY <2>1, <2>2
<1> HIDE DEF Good
<1>5. Good \in SUBSET Paths
  BY DEF Good
<1>6. Good = Paths
  BY <1>1, <1>3, <1>4, <1>5, PathDescent
<1>7. ~Gone(l, r, p)
  BY GoneIsAlike
<1>8. \E s \in Paths : Len(p \o s) <= H + 1 /\ ~LeafAlike(l, r, p \o s)
  BY <1>6 DEF Good
<1> QED
  BY <1>7, <1>8 DEF Tells

(* Exact equality is what is left to compare of a payload.                  *)
LEMMA EqualOrNot ==
  ASSUME NEW l, NEW r, NEW H, Compared(l, r, H), NEW p \in Paths,
         Below(l, p).kind \notin {"array", "record", "error", "number"}
  PROVE  Below(l, p) = Below(r, p) <=> AllAlike(l, r, p)
<1>0. Pair(l, r, H) /\ Tolerable(l)
  BY DEF Compared
<1>1. ASSUME Below(l, p) = Below(r, p)
      PROVE  AllAlike(l, r, p)
  <2>1. ASSUME NEW s \in Paths
        PROVE  Below(l, p \o s) = Below(r, p \o s)
    BY <1>1, BelowMore
  <2> QED
    BY <2>1 DEF AllAlike, LeafAlike
<1>2. ASSUME AllAlike(l, r, p), Leaf(Below(l, p))
      PROVE  Below(l, p) = Below(r, p)
  <2>1. LeafAlike(l, r, p)
    BY <1>2, AlikeStep
  <2>2. Grown(Below(r, p))
    BY <1>0, PairOfNodes
  <2>3. Below(l, p).kind = Below(r, p).kind
    BY <2>1 DEF LeafAlike
  <2> QED
    BY <1>2, <2>2, <2>3, SameLeafs
<1>3. ASSUME AllAlike(l, r, p), Composite(Below(l, p))
      PROVE  Below(l, p) = Below(r, p)
  <2>1. Below(l, p).kind = "adapted"
    BY <1>3, Branches DEF Composites
  <2>2. AllExact(l, r, p)
    BY <1>0, <1>3, <2>1, AdaptedIsExact
  <2>3. PICK I \in Nat : Tree(r, I)
    BY <1>0 DEF Pair
  <2>4. H \in Nat /\ Tree(l, H)
    BY <1>0 DEF Pair
  <2> QED
    BY <2>2, <2>3, <2>4, SameTrees
<1> QED
  BY <1>0, <1>1, <1>2, <1>3, PairOfNodes DEF Grown

(* V1 matches exactly what is alike.                                        *)
LEMMA MatchMeans ==
  ASSUME NEW l, NEW r, NEW H, Compared(l, r, H), WithoutErrors(l), NEW p \in Paths
  PROVE  Match(l, r)[p] <=> AllAlike(l, r, p)
<1> DEFINE f == Match(l, r)
           Good == {q \in Paths : f[q] <=> AllAlike(l, r, q)}
<1>1. Pair(l, r, H) /\ H \in Nat
  BY DEF Compared, Pair
<1>2. \A q \in Paths : f[q] = MatchBody(l, r, f, q)
  BY <1>1, MatchExists
<1> HIDE DEF f
<1>3. ASSUME NEW q \in Paths, Below(l, q).kind \notin {"array", "record"}
      PROVE  q \in Good
  <2>1. CASE Below(l, q).kind = "number" /\ Below(r, q).kind = "number"
    <3>1. Leaf(Below(l, q))
      BY <1>1, <2>1, PairOfNodes, KindsAre DEF Composites
    <3>2. AllAlike(l, r, q) <=> LeafAlike(l, r, q)
      BY <1>1, <3>1, LeafsAlike, AlikeStep
    <3>3. f[q] <=> LeafAlike(l, r, q)
      BY <1>2, <2>1 DEF MatchBody, LeafAlike, Near
    <3> QED
      BY <3>2, <3>3
  <2>2. CASE Below(l, q).kind = "number" /\ Below(r, q).kind # "number"
    <3>1. ~f[q]
      BY <1>2, <2>2 DEF MatchBody
    <3>2. ~LeafAlike(l, r, q)
      BY <2>2 DEF LeafAlike
    <3> QED
      BY <3>1, <3>2, AlikeStep
  <2>3. CASE Below(l, q).kind # "number"
    <3>1. f[q] <=> Below(l, q) = Below(r, q)
      BY <1>2, <1>3, <2>3 DEF MatchBody
    <3>2. Below(l, q).kind # "error"
      BY DEF WithoutErrors
    <3> QED
      BY <1>3, <2>3, <3>1, <3>2, EqualOrNot
  <2> QED
    BY <2>1, <2>2, <2>3
<1>4. ASSUME NEW q \in Paths, Len(q) > H
      PROVE  q \in Good
  BY <1>1, <1>3, <1>4, PairOfNodes DEF Missing
<1>5. ASSUME NEW q \in Paths, \A k \in Keys : Append(q, k) \in Good,
             Below(l, q).kind \in {"array", "record"}
      PROVE  q \in Good
  <2>1. CASE Below(l, q).kind # Below(r, q).kind
    <3>1. ~f[q]
      BY <1>2, <1>5, <2>1 DEF MatchBody
    <3>2. ~LeafAlike(l, r, q)
      BY <2>1 DEF LeafAlike
    <3> QED
      BY <3>1, <3>2, AlikeStep
  <2>2. CASE Below(l, q).kind = Below(r, q).kind
    <3> DEFINE ks == DOMAIN Below(l, q).at
               js == DOMAIN Below(r, q).at
    <3>1. Composite(Below(l, q))
      BY <1>1, <1>5, PairOfNodes, KindsAre DEF Composites
    <3>2. f[q] <=> ks = js /\ \A k \in ks : f[Append(q, k)]
      BY <1>2, <1>5, <2>2 DEF MatchBody
    <3>3. /\ AllAlike(l, r, q) <=> \A k \in ks \cup js : AllAlike(l, r, Append(q, k))
          /\ \A k \in ks \cup js :
               k \in Keys /\ (k \notin ks \cap js => ~LeafAlike(l, r, Append(q, k)))
      BY <1>1, <2>2, <3>1, BranchesAlike
    <3> HIDE DEF ks, js
    <3>4. \A k \in ks \cup js : Append(q, k) \in Paths /\ (f[Append(q, k)] <=> AllAlike(l, r, Append(q, k)))
      BY <1>5, <3>3
    <3>5. \A k \in ks \cup js : k \notin ks \cap js => ~AllAlike(l, r, Append(q, k))
      BY <3>3, <3>4, AlikeStep
    <3>6. AllAlike(l, r, q) => ks = js
      BY <3>3, <3>5
    <3>7. f[q] <=> AllAlike(l, r, q)
      BY <3>2, <3>3, <3>4, <3>6
    <3> QED
      BY <3>7
  <2> QED
    BY <2>1, <2>2
<1>6. ASSUME NEW q \in Paths, \A k \in Keys : Append(q, k) \in Good
      PROVE  q \in Good
  BY <1>3, <1>5, <1>6
<1> HIDE DEF Good
<1>7. Good \in SUBSET Paths
  BY DEF Good
<1>8. Good = Paths
  BY <1>1, <1>4, <1>6, <1>7, PathDescent
<1> QED
  BY <1>8 DEF Good, f

(* V1 tells the path of a difference where two trees are not alike.         *)
LEMMA DifferenceMeans ==
  ASSUME NEW l, NEW r, NEW H, Compared(l, r, H), WithoutErrors(l), NEW p \in Paths,
         Len(p) <= H + 1, ~AllAlike(l, r, p)
  PROVE  Tells(l, r, H, Difference(l, r)[p])
<1> DEFINE f == Difference(l, r)
           Good == {q \in Paths : Len(q) <= H + 1 /\ ~AllAlike(l, r, q) => Tells(l, r, H, f[q])}
<1>1. Pair(l, r, H) /\ H \in Nat
  BY DEF Compared, Pair
<1>2. \A q \in Paths : f[q] = DifferenceBody(l, r, f, q)
  BY <1>1, DifferenceExists
<1> HIDE DEF f
<1>3. ASSUME NEW q \in Paths, Len(q) > H + 1
      PROVE  q \in Good
  BY <1>1, <1>3, PathFacts
<1>4. ASSUME NEW q \in Paths, \A k \in Keys : Append(q, k) \in Good
      PROVE  q \in Good
  <2> SUFFICES ASSUME Len(q) <= H + 1, ~AllAlike(l, r, q)
               PROVE  Tells(l, r, H, f[q])
    OBVIOUS
  <2>1. CASE Below(l, q).kind # Below(r, q).kind \/ Below(l, q).kind \notin {"array", "record", "adapted"}
    <3>1. f[q] = q
      BY <1>2, <2>1 DEF DifferenceBody
    <3> QED
      BY <1>1, <3>1, NotAlikeTells
  <2>2. CASE Below(l, q).kind = Below(r, q).kind /\ Below(l, q).kind \in {"array", "record", "adapted"}
    <3> DEFINE ks == DOMAIN Below(l, q).at
               js == DOMAIN Below(r, q).at
               unlike == {k \in ks \cup js : ~(k \in ks \cap js /\ Match(l, r)[Append(q, k)])}
               expected == unlike \cap ks
               first == Least(IF expected = {} THEN unlike ELSE expected)
    <3>1. Composite(Below(l, q)) /\ Len(q) <= H
      BY <1>1, <2>2, PairOfNodes, KindsAre DEF Composites
    <3>2. f[q] = IF unlike = {} THEN None
                 ELSE IF first \in ks \cap js THEN f[Append(q, first)] ELSE Append(q, first)
      BY <1>2, <2>2 DEF DifferenceBody
    <3>3. /\ AllAlike(l, r, q) <=> \A k \in ks \cup js : AllAlike(l, r, Append(q, k))
          /\ \A k \in ks \cup js :
               /\ k \in Keys
               /\ k \notin ks \cap js => ~LeafAlike(l, r, Append(q, k))
      BY <1>1, <2>2, <3>1, BranchesAlike
    <3> HIDE DEF ks, js
    <3>4. \A k \in ks \cup js : /\ Append(q, k) \in Paths /\ Len(Append(q, k)) <= H + 1
                                /\ Match(l, r)[Append(q, k)] <=> AllAlike(l, r, Append(q, k))
      <4>1. \A k \in ks \cup js : Append(q, k) \in Paths /\ Len(Append(q, k)) <= H + 1
        BY <1>1, <3>1, <3>3, PathFacts
      <4> QED
        BY <4>1, MatchMeans
    <3>5. unlike # {} /\ unlike \in SUBSET Keys
      BY <3>3, <3>4
    <3>6. \A k \in unlike : k \in ks \cup js /\ ~AllAlike(l, r, Append(q, k))
      BY <3>3, <3>4, AlikeStep
    <3> HIDE DEF unlike
    <3>7. first \in unlike
      <4>1. expected \in SUBSET Keys
        BY <3>5
      <4>2. CASE expected = {}
        BY <3>5, <4>2, LeastIs
      <4>3. CASE expected # {}
        BY <4>1, <4>3, LeastIs
      <4> QED
        BY <4>2, <4>3
    <3> HIDE DEF first
    <3>8. Append(q, first) \in Paths /\ Len(Append(q, first)) <= H + 1
            /\ ~AllAlike(l, r, Append(q, first)) /\ first \in Keys
      BY <3>3, <3>4, <3>6, <3>7
    <3>9. CASE first \in ks \cap js
      <4>1. f[q] = f[Append(q, first)]
        BY <3>2, <3>5, <3>9
      <4>2. Append(q, first) \in Good
        BY <1>4, <3>8
      <4> QED
        BY <3>8, <4>1, <4>2
    <3>10. CASE first \notin ks \cap js
      <4>1. f[q] = Append(q, first)
        BY <3>2, <3>5, <3>10
      <4> QED
        BY <1>1, <3>8, <4>1, NotAlikeTells
    <3> QED
      BY <3>9, <3>10
  <2> QED
    BY <2>1, <2>2
<1> HIDE DEF Good
<1>5. Good \in SUBSET Paths
  BY DEF Good
<1>6. Good = Paths
  <2>1. H + 1 \in Nat
    BY <1>1
  <2> QED
    BY <1>3, <1>4, <1>5, <2>1, PathDescent
<1> QED
  BY <1>6 DEF Good, f

(* V2 finds nothing where two trees are alike, and tells the path of a      *)
(* difference elsewhere.                                                    *)
LEMMA FirstMeans ==
  ASSUME NEW l, NEW r, NEW H, Compared(l, r, H), NEW p \in Paths, Len(p) <= H + 1
  PROVE  IF AllAlike(l, r, p) THEN First(l, r)[p] = None ELSE Tells(l, r, H, First(l, r)[p])
<1> DEFINE f == First(l, r)
           Right(q) == IF AllAlike(l, r, q) THEN f[q] = None ELSE Tells(l, r, H, f[q])
           Good == {q \in Paths : Len(q) <= H + 1 => Right(q)}
<1>1. Pair(l, r, H) /\ H \in Nat
  BY DEF Compared, Pair
<1>2. \A q \in Paths : f[q] = FirstBody(l, r, f, q)
  BY <1>1, FirstExists
<1> HIDE DEF f
<1>3. ASSUME NEW q \in Paths, Len(q) > H + 1
      PROVE  q \in Good
  BY <1>1, <1>3, PathFacts
<1>4. ASSUME NEW q \in Paths, \A k \in Keys : Append(q, k) \in Good
      PROVE  q \in Good
  <2> SUFFICES ASSUME Len(q) <= H + 1
               PROVE  Right(q)
    OBVIOUS
  <2>1. CASE Below(l, q).kind # Below(r, q).kind
    <3>1. f[q] = q
      BY <1>2, <2>1 DEF FirstBody
    <3>2. ~AllAlike(l, r, q)
      BY <2>1, AlikeStep DEF LeafAlike
    <3> QED
      BY <1>1, <3>1, <3>2, NotAlikeTells
  <2>2. CASE Below(l, q).kind = Below(r, q).kind /\ Leaf(Below(l, q))
    <3>1. AllAlike(l, r, q) <=> LeafAlike(l, r, q)
      BY <1>1, <2>2, LeafsAlike, AlikeStep
    <3>2. ~Inner(Below(l, q))
      BY <2>2, Leafs
    <3>3. f[q] = IF LeafAlike(l, r, q) THEN None ELSE q
      <4>1. CASE Below(l, q).kind = "number"
        <5>1. q \in tolerated => ~Opaque(l, q)
          BY DEF Compared, Tolerable
        <5>2. f[q] = IF \/ Below(l, q) = Below(r, q)
                        \/ ~Opaque(l, q) /\ Near(Below(l, q), Below(r, q), q) THEN None ELSE q
          BY <1>2, <2>2, <4>1 DEF FirstBody
        <5> QED
          BY <2>2, <4>1, <5>1, <5>2 DEF Near, LeafAlike
      <4>2. CASE Below(l, q).kind # "number"
        <5>1. Below(l, q) = Below(r, q)
          BY <1>1, <2>2, <4>2, SameLeafs, PairOfNodes
        <5>2. f[q] = None
          BY <1>2, <2>2, <3>2, <4>2, <5>1 DEF FirstBody
        <5> QED
          BY <4>2, <5>1, <5>2 DEF LeafAlike
      <4> QED
        BY <4>1, <4>2
    <3> QED
      BY <1>1, <3>1, <3>3, NotAlikeTells
  <2>3. CASE Below(l, q).kind = Below(r, q).kind /\ Composite(Below(l, q))
    <3> DEFINE ks == DOMAIN Below(l, q).at
               js == DOMAIN Below(r, q).at
               unlike == {k \in ks \cup js : f[Append(q, k)] # None}
    <3>1. /\ Inner(Below(l, q)) /\ Below(l, q).kind # "number" /\ Below(l, q).kind \in Composites
          /\ Len(q) <= H
      <4>1. Inner(Below(l, q)) /\ Below(l, q).kind \in Composites
        BY <2>3, Branches
      <4> QED
        BY <1>1, <4>1, PairOfNodes DEF Composites
    <3>2. f[q] = IF unlike = {} THEN None ELSE f[Append(q, Least(unlike))]
      BY <1>2, <2>3, <3>1 DEF FirstBody
    <3>3. /\ AllAlike(l, r, q) <=> \A k \in ks \cup js : AllAlike(l, r, Append(q, k))
          /\ \A k \in ks \cup js : k \in Keys
      BY <1>1, <2>3, BranchesAlike
    <3> HIDE DEF ks, js
    <3>4. \A k \in ks \cup js : Append(q, k) \in Paths /\ Len(Append(q, k)) <= H + 1
      BY <1>1, <3>1, <3>3, PathFacts
    <3>5. \A k \in ks \cup js : Right(Append(q, k))
      BY <1>4, <3>3, <3>4
    <3>6. \A k \in ks \cup js : k \in unlike <=> ~AllAlike(l, r, Append(q, k))
      <4>1. None \notin Paths
        BY DEF None, Paths, Keys
      <4>2. ~Tells(l, r, H, None)
        BY <4>1 DEF Tells
      <4> QED
        BY <3>5, <4>2
    <3>7. unlike \in SUBSET (ks \cup js) /\ unlike \in SUBSET Keys
      BY <3>3
    <3> HIDE DEF unlike
    <3>8. CASE unlike = {}
      BY <3>2, <3>3, <3>6, <3>8
    <3>9. CASE unlike # {}
      <4>1. PICK k \in unlike : k = Least(unlike)
        BY <3>7, <3>9, LeastIs
      <4>2. f[q] = f[Append(q, k)]
        BY <3>2, <3>9, <4>1
      <4>3. ~AllAlike(l, r, Append(q, k)) /\ Right(Append(q, k)) /\ ~AllAlike(l, r, q)
        BY <3>3, <3>5, <3>6, <3>7
      <4> QED
        BY <4>2, <4>3
    <3> QED
      BY <3>8, <3>9
  <2> QED
    BY <1>1, <2>1, <2>2, <2>3, PairOfNodes DEF Grown
<1> HIDE DEF Good
<1>5. Good \in SUBSET Paths
  BY DEF Good
<1>6. Good = Paths
  <2>1. H + 1 \in Nat
    BY <1>1
  <2> QED
    BY <1>3, <1>4, <1>5, <2>1, PathDescent
<1> QED
  BY <1>6 DEF Good, f

-----------------------------------------------------------------------------
(* Values: a walk is a function by recursion over the depth *)

Kind(h, g) == KindOf(h[g.value.to], g.allow)
Keep(h, g) == Visible(h[g.value.to], Kind(h, g))
Made(g) == [seen |-> g.seen, nodes |-> g.nodes + 1, node |-> g.value, code |-> "ok"]
Entered(g) == [Made(g) EXCEPT !.seen = @ \cup {g.value.to}]
Inward(h, g, s, k) ==
  [value |-> h[g.value.to].at[k], depth |-> g.depth + 1,
   allow |-> g.allow /\ Kind(h, g) # "adapted", seen |-> s.seen, nodes |-> s.nodes]
PropertyOf(h, f, g, s, k) ==
  IF s.code # "ok" \/ k \notin Keep(h, g) THEN s ELSE f[Inward(h, g, s, k)]
FirstOf(h, f, g) == PropertyOf(h, f, g, Entered(g), 0)
SecondOf(h, f, g) == PropertyOf(h, f, g, FirstOf(h, f, g), 1)
BranchOf(h, f, g) ==
  [kind |-> Kind(h, g),
   at |-> [k \in Keep(h, g) |-> IF k = 0 THEN FirstOf(h, f, g).node
                                ELSE SecondOf(h, f, g).node]]
EncodeBody(h, f, g) ==
  IF g.depth > MaxDepth \/ Made(g).nodes > MaxNodes
  THEN Refused("limit")
  ELSE IF g.value.kind # "ref"
       THEN IF g.value = Secret /\ version = 2 THEN Refused("secret")
            ELSE Made(g)
  ELSE IF Met(h, g.seen, g.value.to) \/ Kind(h, g) = "unsupported" THEN Refused("unsupported")
  ELSE IF Kind(h, g) = "adapted" /\ h[g.value.to].at[0] = Missing THEN Refused("serialize")
  ELSE IF SecondOf(h, f, g).code # "ok"
       THEN Refused(IF Kind(h, g) = "adapted" /\ SecondOf(h, f, g).code = "unsupported"
                    THEN "payload" ELSE SecondOf(h, f, g).code)
  ELSE [Made(g) EXCEPT !.seen = SecondOf(h, f, g).seen, !.nodes = SecondOf(h, f, g).nodes,
                       !.node = BranchOf(h, f, g)]

(* A walk is what its body makes of the walks of its properties.            *)
LEMMA EncodeIs ==
  ASSUME NEW h
  PROVE  Encode(h) = CHOOSE f : f = [g \in Starts(h) |-> EncodeBody(h, f, g)]
BY DEF Encode, EncodeBody, BranchOf, Made, FirstOf, SecondOf, PropertyOf, Inward, Entered, Keep, Kind

(* What a heap holds.                                                       *)
Heap(h) ==
  \A o \in DOMAIN h : \A k \in Keys : h[o].at[k] \in Values(DOMAIN h) \cup {Missing}
Result(h, x) == x.seen \in SUBSET DOMAIN h /\ x.nodes \in Nat

(* A value that is a reference names an object.                             *)
LEMMA RefersTo ==
  ASSUME NEW os, NEW v \in Values(os) \cup {Missing}, v.kind = "ref"
  PROVE  v.to \in os /\ v = Ref(v.to)
BY DEF Values, Ref, Number, Secret, Missing

(* A value that is not a reference is a leaf.                               *)
LEMMA LeafValues ==
  ASSUME NEW os, NEW v \in Values(os) \cup {Missing}, v.kind # "ref"
  PROVE  Leaf(v) /\ v \in Values({}) \cup {Missing}
<1>1. v \in {Number(n) : n \in Recorded} \/ v = Secret \/ v = Missing
  BY DEF Values, Ref
<1>2. ASSUME NEW n \in Recorded, v = Number(n)
      PROVE  Leaf(v) /\ v \in Values({})
  BY <1>2, ValuesAssumption DEF Leaf, Values
<1>3. Secret \in Values({}) /\ Leaf(Secret) /\ Leaf(Missing)
  BY DEF Values, Leaf
<1> QED
  BY <1>1, <1>2, <1>3

(* The properties an object shows are there.                                *)
LEMMA ShownIs ==
  ASSUME NEW h, NEW g
  PROVE  /\ Keep(h, g) \subseteq Keys
         /\ \A k \in Keep(h, g) : h[g.value.to].at[k] # Missing
BY DEF Keep, Visible, Keys

(* The walk of a property starts as a walk does.                            *)
LEMMA InwardStarts ==
  ASSUME NEW h, Heap(h), NEW g \in Starts(h), g.value.kind = "ref",
         NEW s, Result(h, s), NEW k \in Keep(h, g)
  PROVE  Inward(h, g, s, k) \in Starts(h)
<1>1. g.value \in Values(DOMAIN h) /\ g.depth \in Nat /\ g.allow \in BOOLEAN
  BY DEF Starts
<1>2. g.value.to \in DOMAIN h
  BY <1>1, RefersTo
<1>3. h[g.value.to].at[k] \in Values(DOMAIN h)
  BY <1>2, ShownIs DEF Heap
<1>4. (g.allow /\ Kind(h, g) # "adapted") \in BOOLEAN
  OBVIOUS
<1> QED
  BY <1>1, <1>3, <1>4 DEF Inward, Starts, Result

(* Entering an object adds it to what was met.                              *)
LEMMA EnteredResult ==
  ASSUME NEW h, NEW g \in Starts(h), g.value.kind = "ref"
  PROVE  /\ Result(h, Entered(g)) /\ Entered(g).code = "ok"
         /\ Entered(g).seen = g.seen \cup {g.value.to} /\ Entered(g).nodes = g.nodes + 1
<1>1. g.value \in Values(DOMAIN h) /\ g.seen \in SUBSET DOMAIN h /\ g.nodes \in Nat
  BY DEF Starts
<1>2. g.value.to \in DOMAIN h
  BY <1>1, RefersTo
<1>3. /\ Entered(g).code = "ok"
      /\ Entered(g).seen = g.seen \cup {g.value.to} /\ Entered(g).nodes = g.nodes + 1
  BY DEF Entered, Made
<1> QED
  BY <1>1, <1>2, <1>3 DEF Result

(* Functions that agree one level deeper give the same, and keep the type.  *)
LEMMA SameWalks ==
  ASSUME NEW h, Heap(h), NEW g \in Starts(h), NEW d, NEW e,
         \A x \in Starts(h) : Result(h, e[x]),
         \A x \in Starts(h) : x.depth = g.depth + 1 => d[x] = e[x]
  PROVE  EncodeBody(h, d, g) = EncodeBody(h, e, g) /\ Result(h, EncodeBody(h, e, g))
<1>1. /\ g.value \in Values(DOMAIN h) /\ g.seen \in SUBSET DOMAIN h /\ g.nodes \in Nat
      /\ g.depth \in Nat
  BY DEF Starts
<1>2. \A c : Result(h, Refused(c))
  BY DEF Result, Refused
<1>3. Result(h, Made(g))
  BY <1>1 DEF Result, Made
<1>4. ASSUME NEW s, Result(h, s), NEW k \in Keys, g.value.kind = "ref"
      PROVE  /\ PropertyOf(h, d, g, s, k) = PropertyOf(h, e, g, s, k)
             /\ Result(h, PropertyOf(h, e, g, s, k))
  <2>1. CASE s.code # "ok" \/ k \notin Keep(h, g)
    BY <1>4, <2>1 DEF PropertyOf
  <2>2. CASE ~(s.code # "ok" \/ k \notin Keep(h, g))
    <3>1. Inward(h, g, s, k) \in Starts(h)
      BY <1>4, <2>2, InwardStarts
    <3>2. Inward(h, g, s, k).depth = g.depth + 1
      BY DEF Inward
    <3> QED
      BY <2>2, <3>1, <3>2 DEF PropertyOf
  <2> QED
    BY <2>1, <2>2
<1>5. CASE g.value.kind # "ref"
  BY <1>2, <1>3, <1>5 DEF EncodeBody
<1>6. CASE g.value.kind = "ref"
  <2>1. FirstOf(h, d, g) = FirstOf(h, e, g) /\ Result(h, FirstOf(h, e, g))
    BY <1>4, <1>6, EnteredResult DEF FirstOf, Keys
  <2>2. SecondOf(h, d, g) = SecondOf(h, e, g) /\ Result(h, SecondOf(h, e, g))
    BY <1>4, <1>6, <2>1 DEF SecondOf, Keys
  <2>3. \A n : Result(h, [Made(g) EXCEPT !.seen = SecondOf(h, e, g).seen,
                                       !.nodes = SecondOf(h, e, g).nodes, !.node = n])
    BY <2>2 DEF Result, Made
  <2>4. EncodeBody(h, d, g) = EncodeBody(h, e, g)
    BY <2>1, <2>2 DEF EncodeBody, BranchOf
  <2>5. Result(h, EncodeBody(h, e, g))
    BY <1>2, <1>6, <2>3 DEF EncodeBody
  <2> QED
    BY <2>4, <2>5
<1> QED
  BY <1>5, <1>6

(* That function exists, since every walk is shallower by one, and keeps    *)
(* its type.                                                                *)
LEMMA EncodeExists ==
  ASSUME NEW h, Heap(h)
  PROVE  \A g \in Starts(h) : /\ Encode(h)[g] = EncodeBody(h, Encode(h), g)
                              /\ Result(h, Encode(h)[g])
<1> DEFINE Able(n) == \E f : /\ \A g \in Starts(h) : Result(h, f[g])
                             /\ \A g \in Starts(h) : g.depth + n > MaxDepth =>
                                  f[g] = EncodeBody(h, f, g)
           Ables == {n \in Nat : Able(n)}
<1>1. \A g \in Starts(h) : g.depth \in Nat /\ MaxDepth \in Nat
  BY ValuesAssumption DEF Starts
<1>2. ASSUME NEW n \in Nat, NEW f, \A g \in Starts(h) : Result(h, f[g]),
             \A g \in Starts(h) : g.depth + n > MaxDepth => f[g] = EncodeBody(h, f, g)
      PROVE  Able(n + 1)
  <2> DEFINE e == [g \in Starts(h) |-> EncodeBody(h, f, g)]
  <2>1. \A g \in Starts(h) : e[g] = EncodeBody(h, f, g)
    OBVIOUS
  <2> HIDE DEF e
  <2>2. \A g \in Starts(h) : Result(h, e[g])
    <3>1. \A x \in Starts(h) : Result(h, f[x])
      BY <1>2
    <3> QED
      BY <2>1, <3>1, SameWalks
  <2>3. \A g \in Starts(h) : g.depth + n > MaxDepth => f[g] = e[g]
    BY <1>2, <2>1
  <2>4. ASSUME NEW g \in Starts(h), g.depth + (n + 1) > MaxDepth
        PROVE  e[g] = EncodeBody(h, e, g)
    <3>1. \A x \in Starts(h) : x.depth = g.depth + 1 => f[x] = e[x]
      BY <1>1, <1>2, <2>3, <2>4
    <3>2. EncodeBody(h, f, g) = EncodeBody(h, e, g)
      BY <2>2, <3>1, SameWalks
    <3> QED
      BY <2>1, <3>2
  <2> QED
    BY <2>2, <2>4
<1>3. 0 \in Ables
  <2> DEFINE none == [g \in Starts(h) |-> Refused("limit")]
  <2>1. \A g \in Starts(h) : none[g] = Refused("limit")
    OBVIOUS
  <2>2. \A g \in Starts(h) : Result(h, none[g])
    BY <2>1 DEF Result, Refused
  <2> HIDE DEF none
  <2>3. ASSUME NEW g \in Starts(h), g.depth + 0 > MaxDepth
        PROVE  none[g] = EncodeBody(h, none, g)
    <3>1. g.depth > MaxDepth
      BY <1>1, <2>3
    <3> QED
      BY <2>1, <3>1 DEF EncodeBody
  <2> QED
    BY <2>2, <2>3
<1>4. ASSUME NEW n \in Ables
      PROVE  n + 1 \in Ables
  BY <1>2, <1>4
<1> HIDE DEF Ables
<1>5. Ables \in SUBSET Nat
  BY DEF Ables
<1>6. Ables = Nat
  BY <1>3, <1>4, <1>5, NaturalInduction
<1>7. Able(MaxDepth + 1)
  <2>1. MaxDepth + 1 \in Ables
    BY <1>6, ValuesAssumption
  <2> QED
    BY <2>1 DEF Ables
<1>8. PICK f : /\ \A g \in Starts(h) : Result(h, f[g])
               /\ \A g \in Starts(h) : g.depth + (MaxDepth + 1) > MaxDepth =>
                    f[g] = EncodeBody(h, f, g)
  BY <1>7
<1>9. \A g \in Starts(h) : f[g] = EncodeBody(h, f, g)
  BY <1>1, <1>8
<1> DEFINE e == [g \in Starts(h) |-> f[g]]
<1>10. \A g \in Starts(h) : e[g] = f[g]
  OBVIOUS
<1>11. \A g \in Starts(h) : EncodeBody(h, f, g) = EncodeBody(h, e, g)
  <2> HIDE DEF e
  <2>1. \A g \in Starts(h) : Result(h, e[g])
    BY <1>8, <1>10
  <2> QED
    BY <1>10, <2>1, SameWalks
<1>12. e = [g \in Starts(h) |-> EncodeBody(h, e, g)]
  BY <1>9, <1>11
<1> HIDE DEF e
<1>13. Encode(h) = [g \in Starts(h) |-> EncodeBody(h, Encode(h), g)]
  BY <1>12, EncodeIs
<1> HIDE DEF Able
<1>14. \A g \in Starts(h) : Encode(h)[g] = EncodeBody(h, Encode(h), g)
  BY <1>13
<1> DEFINE Fit == {n \in Nat : \A g \in Starts(h) : g.depth + n > MaxDepth => Result(h, Encode(h)[g])}
<1>15. 0 \in Fit
  <2>1. ASSUME NEW g \in Starts(h), g.depth + 0 > MaxDepth
        PROVE  Result(h, Encode(h)[g])
    <3>1. g.depth > MaxDepth
      BY <1>1, <2>1
    <3>2. Encode(h)[g] = Refused("limit")
      BY <1>14, <3>1 DEF EncodeBody
    <3> QED
      BY <3>2 DEF Result, Refused
  <2> QED
    BY <2>1
<1>16. ASSUME NEW n \in Fit
       PROVE  n + 1 \in Fit
  <2>1. SUFFICES ASSUME NEW g \in Starts(h), g.depth + (n + 1) > MaxDepth
                 PROVE  Result(h, Encode(h)[g])
    BY <1>16
  <2> DEFINE b == [x \in Starts(h) |-> IF x.depth = g.depth + 1 THEN Encode(h)[x] ELSE Refused("limit")]
  <2>2. \A x \in Starts(h) : x.depth = g.depth + 1 => Encode(h)[x] = b[x]
    OBVIOUS
  <2>3. \A x \in Starts(h) : Result(h, b[x])
    <3>1. \A x \in Starts(h) : x.depth = g.depth + 1 => Result(h, Encode(h)[x])
      BY <1>1, <1>16, <2>1
    <3>2. Result(h, Refused("limit"))
      BY DEF Result, Refused
    <3> QED
      BY <3>1, <3>2
  <2> HIDE DEF b
  <2>4. EncodeBody(h, Encode(h), g) = EncodeBody(h, b, g) /\ Result(h, EncodeBody(h, b, g))
    BY <2>2, <2>3, SameWalks
  <2> QED
    BY <1>14, <2>4
<1> HIDE DEF Fit
<1>17. Fit \in SUBSET Nat
  BY DEF Fit
<1>18. Fit = Nat
  BY <1>15, <1>16, <1>17, NaturalInduction
<1>19. \A g \in Starts(h) : Result(h, Encode(h)[g])
  <2>1. MaxDepth + 1 \in Fit
    BY <1>18, ValuesAssumption
  <2> QED
    BY <1>1, <2>1 DEF Fit
<1> QED
  BY <1>14, <1>19

-----------------------------------------------------------------------------
(* Values: what an accepted walk says of the objects it met *)

(* No property follows a leaf.                                              *)
LEMMA NothingFollows ==
  ASSUME NEW h, NEW v, v.kind # "ref", NEW p \in Paths, p # <<>>
  PROVE  Follow(h, v, p) = Missing
<1> DEFINE Good == {q \in Paths : Follow(h, v, q).kind # "ref" /\ (q # <<>> => Follow(h, v, q) = Missing)}
<1>1. <<>> \in Good
  BY PathFacts, FollowHere
<1>2. ASSUME NEW q \in Good, NEW k \in Keys
      PROVE  Append(q, k) \in Good
  <2>1. Append(q, k) \in Paths /\ Follow(h, v, Append(q, k)) = Step(h, Follow(h, v, q), k)
    BY <1>2, FollowNext, PathFacts
  <2>2. Follow(h, v, q).kind # "ref"
    BY <1>2
  <2>3. Follow(h, v, Append(q, k)) = Missing
    BY <2>1, <2>2 DEF Step
  <2>4. Missing.kind # "ref"
    BY DEF Missing
  <2> QED
    BY <2>1, <2>3, <2>4
<1> HIDE DEF Good
<1>3. Good \in SUBSET Paths
  BY DEF Good
<1>4. Good = Paths
  BY <1>1, <1>2, <1>3, PathInduction
<1> QED
  BY <1>4 DEF Good

(* Following may begin with the first property.                             *)
LEMMA FollowFirst ==
  ASSUME NEW h, NEW v, NEW k \in Keys, NEW q \in Paths
  PROVE  <<k>> \o q \in Paths /\ Follow(h, v, <<k>> \o q) = Follow(h, Step(h, v, k), q)
<1>1. <<>> \in Paths /\ <<k>> \in Paths /\ <<k>> = Append(<<>>, k)
  BY PathJoin, PathFacts
<1>2. Follow(h, v, <<k>>) = Step(h, v, k)
  <2>1. Follow(h, v, Append(<<>>, k)) = Step(h, Follow(h, v, <<>>), k)
    BY <1>1, FollowNext
  <2> QED
    BY <1>1, <2>1, FollowHere
<1> QED
  BY <1>1, <1>2, FollowMore

Agrees(v, node) == IF v.kind = "ref" THEN Inner(node) ELSE node = v
Says(h, v, node) == \A p \in Paths : Agrees(Follow(h, v, p), Below(node, p))
Meets(h, v, os) == \A p \in Paths : Follow(h, v, p).kind = "ref" => Follow(h, v, p).to \in os
MeetsOnce(h, v) == \A p, q \in Paths : Follow(h, v, p).kind = "ref" /\ Follow(h, v, p) = Follow(h, v, q)
                                         => p = q
Sound(h, v, before, after, node, H) ==
  /\ node # Missing /\ Tree(node, H)
  /\ version = 1 => WithoutErrors(node)
  /\ before \subseteq after
  /\ Says(h, v, node) /\ Meets(h, v, after \ before) /\ MeetsOnce(h, v)

(* A leaf is said as it is.                                                 *)
LEMMA LeafSound ==
  ASSUME NEW h, NEW os, NEW v \in Values(os), v.kind # "ref", NEW seen, NEW H \in Nat
  PROVE  Sound(h, v, seen, seen, v, H)
<1>1. Leaf(v) /\ v # Missing
  BY LeafValues DEF Values, Missing, Ref, Number, Secret
<1>2. Tree(v, H)
  BY <1>1, LeafTree
<1>3. ASSUME NEW p \in Paths
      PROVE  /\ p = <<>> => Follow(h, v, p) = v /\ Below(v, p) = v
             /\ p # <<>> => Follow(h, v, p) = Missing /\ Below(v, p) = Missing
  BY <1>1, FollowHere, BelowHere, NothingFollows, NothingBelow
<1>4. Missing.kind # "ref" /\ Missing.kind # "error"
  BY DEF Missing
<1>5. v.kind # "error"
  BY <1>1, Leafs
<1>6. WithoutErrors(v)
  BY <1>3, <1>4, <1>5 DEF WithoutErrors
<1>7. Says(h, v, v)
  BY <1>3, <1>4 DEF Says, Agrees
<1>8. \A p \in Paths : Follow(h, v, p).kind # "ref"
  BY <1>3, <1>4
<1>9. Meets(h, v, seen \ seen) /\ MeetsOnce(h, v)
  BY <1>8 DEF Meets, MeetsOnce
<1> QED
  BY <1>1, <1>2, <1>6, <1>7, <1>9 DEF Sound

(* The properties of an object, each with what was met before and after it. *)
LEMMA BranchSound ==
  ASSUME NEW h, NEW v, v.kind = "ref", NEW seen, NEW after, v.to \notin seen, v.to \in after,
         seen \subseteq after,
         NEW node, NEW kind \in Composites, version = 1 => kind # "error",
         NEW ks \in SUBSET Keys, node = [kind |-> kind, at |-> [k \in ks |-> node.at[k]]],
         \A k \in Keys \ ks : Step(h, v, k) = Missing,
         NEW a, NEW b, NEW H \in Int, NEW I \in Nat, I = H + 1,
         \A k \in ks : Sound(h, Step(h, v, k), a[k], b[k], node.at[k], H),
         \A k \in ks : seen \subseteq a[k] /\ v.to \in a[k] /\ b[k] \subseteq after,
         \A j, k \in ks : j # k => b[j] \subseteq a[k] \/ b[k] \subseteq a[j]
  PROVE  Sound(h, v, seen, after, node, I)
<1>1. DOMAIN node.at = ks /\ node.kind = kind
  BY node.at = [k \in ks |-> node.at[k]]
<1>2. Composite(node)
  <2>1. \A k \in ks : node.at[k] # Missing
    BY DEF Sound
  <2> QED
    BY <2>1 DEF Composite
<1>3. Tree(node, I)
  <2>1. \A k \in DOMAIN node.at : Tree(node.at[k], H)
    BY <1>1 DEF Sound
  <2> QED
    BY <1>2, <2>1, BranchTree
<1>4. ASSUME NEW k \in ks, NEW q \in Paths
      PROVE  /\ Follow(h, v, <<k>> \o q) = Follow(h, Step(h, v, k), q)
             /\ Below(node, <<k>> \o q) = Below(node.at[k], q)
  <2>1. k \in Keys /\ Child(node, k) = node.at[k]
    BY <1>1, <1>2, Branches
  <2> QED
    BY <2>1, FollowFirst, BelowFirst
<1>5. ASSUME NEW k \in Keys \ ks, NEW q \in Paths
      PROVE  Follow(h, v, <<k>> \o q) = Missing /\ Below(node, <<k>> \o q) = Missing
  <2>1. Child(node, k) = Missing /\ Step(h, v, k) = Missing
    BY <1>1, <1>2, Branches
  <2>2. Follow(h, Missing, q) = Missing
    <3>1. Missing.kind # "ref"
      BY DEF Missing
    <3> QED
      BY <3>1, FollowHere, NothingFollows
  <2>3. Below(Missing, q) = Missing
    <3>1. Leaf(Missing)
      BY DEF Leaf
    <3> QED
      BY <3>1, BelowHere, NothingBelow
  <2> QED
    BY <2>1, <2>2, <2>3, FollowFirst, BelowFirst
<1>6. Follow(h, v, <<>>) = v /\ Below(node, <<>>) = node
  BY FollowHere, BelowHere
<1>7. Missing.kind # "ref" /\ Missing.kind # "error"
  BY DEF Missing
(* Every path is empty, or begins with a property that is shown or is not.  *)
<1>8. ASSUME NEW p \in Paths
      PROVE  \/ p = <<>>
             \/ \E k \in ks, q \in Paths : p = <<k>> \o q
             \/ Follow(h, v, p) = Missing /\ Below(node, p) = Missing
  <2>1. ASSUME p # <<>>
        PROVE  \E k \in Keys, q \in Paths : p = <<k>> \o q
    BY <2>1, PathHead
  <2> QED
    BY <1>5, <2>1
<1>9. version = 1 => WithoutErrors(node)
  <2>1. SUFFICES ASSUME version = 1, NEW p \in Paths
                 PROVE  Below(node, p).kind # "error"
    BY DEF WithoutErrors
  <2>2. ASSUME NEW k \in ks, NEW q \in Paths, p = <<k>> \o q
        PROVE  Below(node, p).kind # "error"
    BY <1>4, <2>1, <2>2 DEF Sound, WithoutErrors
  <2> QED
    BY <1>1, <1>6, <1>7, <1>8, <2>1, <2>2
<1>10. Says(h, v, node)
  <2>1. SUFFICES ASSUME NEW p \in Paths
                 PROVE  Agrees(Follow(h, v, p), Below(node, p))
    BY DEF Says
  <2>2. ASSUME NEW k \in ks, NEW q \in Paths, p = <<k>> \o q
        PROVE  Agrees(Follow(h, v, p), Below(node, p))
    BY <1>4, <2>2 DEF Sound, Says
  <2>3. Inner(node)
    BY <1>2, Branches
  <2>4. Agrees(v, node) /\ Agrees(Missing, Missing)
    BY <1>7, <2>3 DEF Agrees
  <2> QED
    BY <1>6, <1>8, <2>2, <2>4
<1>11. ASSUME NEW k \in ks, NEW q \in Paths, Follow(h, Step(h, v, k), q).kind = "ref"
       PROVE  Follow(h, Step(h, v, k), q).to \in b[k] \ a[k]
  BY <1>11 DEF Sound, Meets
<1>12. Meets(h, v, after \ seen)
  <2>1. SUFFICES ASSUME NEW p \in Paths, Follow(h, v, p).kind = "ref"
                 PROVE  Follow(h, v, p).to \in after \ seen
    BY DEF Meets
  <2>2. ASSUME NEW k \in ks, NEW q \in Paths, p = <<k>> \o q
        PROVE  Follow(h, v, p).to \in after \ seen
    <3>1. Follow(h, Step(h, v, k), q) = Follow(h, v, p)
      BY <1>4, <2>2
    <3>2. Follow(h, v, p).to \in b[k] \ a[k]
      BY <1>11, <2>1, <3>1
    <3>3. seen \subseteq a[k] /\ b[k] \subseteq after
      OBVIOUS
    <3> QED
      BY <3>2, <3>3
  <2> QED
    BY <1>6, <1>7, <1>8, <2>1, <2>2
<1>13. MeetsOnce(h, v)
  <2>1. SUFFICES ASSUME NEW p \in Paths, NEW q \in Paths,
                        Follow(h, v, p).kind = "ref", Follow(h, v, p) = Follow(h, v, q)
                 PROVE  p = q
    BY DEF MeetsOnce
  <2>2. ASSUME NEW k \in ks, NEW s \in Paths, Follow(h, v, <<k>> \o s) = Follow(h, v, p)
        PROVE  Follow(h, v, p).to \in b[k] /\ Follow(h, v, p).to \notin a[k]
    <3>1. Follow(h, Step(h, v, k), s) = Follow(h, v, p)
      BY <1>4, <2>2
    <3> QED
      BY <1>11, <2>1, <3>1
  <2>3. CASE p = <<>> /\ q = <<>>
    BY <2>3
  <2>4. ASSUME NEW k \in ks, NEW s \in Paths, p = <<>>, q = <<k>> \o s
        PROVE  FALSE
    <3>1. v.to \notin a[k]
      BY <1>6, <2>1, <2>2, <2>4
    <3> QED
      BY <3>1
  <2>5. ASSUME NEW k \in ks, NEW s \in Paths, q = <<>>, p = <<k>> \o s
        PROVE  FALSE
    <3>1. v.to \notin a[k]
      BY <1>6, <2>1, <2>2, <2>5
    <3> QED
      BY <3>1
  <2>6. ASSUME NEW k \in ks, NEW s \in Paths, p = <<k>> \o s,
               NEW j \in ks, NEW t \in Paths, q = <<j>> \o t
        PROVE  p = q
    <3>1. /\ Follow(h, v, p).to \in b[k] /\ Follow(h, v, p).to \notin a[k]
          /\ Follow(h, v, p).to \in b[j] /\ Follow(h, v, p).to \notin a[j]
      BY <2>1, <2>2, <2>6
    <3>2. j = k
      BY <3>1
    <3>3. /\ Follow(h, Step(h, v, k), s).kind = "ref"
          /\ Follow(h, Step(h, v, k), s) = Follow(h, Step(h, v, k), t)
      BY <1>4, <2>1, <2>6, <3>2
    <3>4. s = t
      BY <3>3 DEF Sound, MeetsOnce
    <3> QED
      BY <2>6, <3>2, <3>4
  <2> QED
    BY <1>7, <1>8, <2>1, <2>3, <2>4, <2>5, <2>6
<1> QED
  BY <1>2, <1>3, <1>9, <1>10, <1>12, <1>13, Branches DEF Sound

(* A walk that is not given up, taken apart.                                *)
Walked(h, g, x) ==
  LET f == Encode(h)
      one == FirstOf(h, f, g)
      two == SecondOf(h, f, g)
  IN /\ g.value.to \in DOMAIN h /\ g.value.to \notin g.seen
     /\ Kind(h, g) \in Composites /\ (version = 1 => Kind(h, g) # "error")
     /\ Kind(h, g) = "adapted" => h[g.value.to].at[0] # Missing
     /\ Result(h, one) /\ one.code = "ok"
     /\ Result(h, two) /\ two.code = "ok"
     /\ one = IF 0 \in Keep(h, g) THEN f[Inward(h, g, Entered(g), 0)] ELSE Entered(g)
     /\ two = IF 1 \in Keep(h, g) THEN f[Inward(h, g, one, 1)] ELSE one
     /\ x.seen = two.seen /\ x.nodes = two.nodes /\ x.node = BranchOf(h, f, g)

(* Such a walk met nothing twice, and neither did the walks of its          *)
(* properties.                                                              *)
LEMMA WalkedIs ==
  ASSUME NEW h, Heap(h), NEW g \in Starts(h), Encode(h)[g].code = "ok"
  PROVE  /\ g.depth <= MaxDepth /\ g.nodes + 1 <= MaxNodes
         /\ g.value.kind # "ref" => /\ Encode(h)[g] = Made(g)
                                    /\ ~(g.value = Secret /\ version = 2)
         /\ g.value.kind = "ref" => Walked(h, g, Encode(h)[g])
<1> DEFINE f == Encode(h)
           one == FirstOf(h, f, g)
           two == SecondOf(h, f, g)
<1>1. f[g] = EncodeBody(h, f, g) /\ \A y \in Starts(h) : Result(h, f[y])
  BY EncodeExists
<1>2. /\ g.value \in Values(DOMAIN h) /\ g.seen \in SUBSET DOMAIN h /\ g.nodes \in Nat
      /\ g.depth \in Nat /\ MaxDepth \in Nat /\ MaxNodes \in Nat
  BY ValuesAssumption DEF Starts
<1> HIDE DEF f
<1>3. \A c : Refused(c).code = c
  BY DEF Refused
<1>4. g.depth <= MaxDepth /\ g.nodes + 1 <= MaxNodes
  <2>1. ~(g.depth > MaxDepth \/ Made(g).nodes > MaxNodes)
    BY <1>1, <1>3 DEF EncodeBody, f
  <2>2. Made(g).nodes = g.nodes + 1
    BY DEF Made
  <2> QED
    BY <1>2, <2>1, <2>2
<1>5. ~(g.depth > MaxDepth \/ Made(g).nodes > MaxNodes)
  BY <1>2, <1>4 DEF Made
<1>6. ASSUME g.value.kind # "ref"
      PROVE  f[g] = Made(g) /\ ~(g.value = Secret /\ version = 2)
  <2>1. f[g] = IF g.value = Secret /\ version = 2 THEN Refused("secret") ELSE Made(g)
    BY <1>1, <1>5, <1>6 DEF EncodeBody
  <2> QED
    BY <1>3, <2>1 DEF f
<1>7. ASSUME g.value.kind = "ref"
      PROVE  Walked(h, g, f[g])
  <2>1. ~(Met(h, g.seen, g.value.to) \/ Kind(h, g) = "unsupported")
    BY <1>1, <1>3, <1>5, <1>7 DEF EncodeBody, f
  <2>2. ~(Kind(h, g) = "adapted" /\ h[g.value.to].at[0] = Missing)
    BY <1>1, <1>3, <1>5, <1>7, <2>1 DEF EncodeBody, f
  <2>3. two.code = "ok"
    <3>1. SUFFICES ASSUME two.code # "ok"
                   PROVE  FALSE
      OBVIOUS
    <3>2. f[g] = Refused(IF Kind(h, g) = "adapted" /\ two.code = "unsupported" THEN "payload" ELSE two.code)
      BY <1>1, <1>5, <1>7, <2>1, <2>2, <3>1 DEF EncodeBody
    <3> HIDE DEF two
    <3>3. f[g].code # "ok"
      BY <1>3, <3>1, <3>2
    <3> QED
      BY <3>3 DEF f
  <2>4. f[g] = [Made(g) EXCEPT !.seen = two.seen, !.nodes = two.nodes, !.node = BranchOf(h, f, g)]
    BY <1>1, <1>5, <1>7, <2>1, <2>2, <2>3 DEF EncodeBody
  <2>5. f[g].seen = two.seen /\ f[g].nodes = two.nodes /\ f[g].node = BranchOf(h, f, g)
    <3> HIDE DEF two
    <3> QED
      BY <2>4 DEF Made
  <2>6. g.value.to \in DOMAIN h
    BY <1>2, <1>7, RefersTo
  <2>7. g.value.to \notin g.seen
    BY <2>1 DEF Met
  <2>8. Kind(h, g) \in Composites /\ (version = 1 => Kind(h, g) # "error")
    BY <2>1 DEF Kind, KindOf, Composites
  <2>9. one.code = "ok"
    BY <2>3 DEF SecondOf, PropertyOf
  <2>10. one = IF 0 \in Keep(h, g) THEN f[Inward(h, g, Entered(g), 0)] ELSE Entered(g)
    BY <1>7, EnteredResult DEF FirstOf, PropertyOf
  <2>11. two = IF 1 \in Keep(h, g) THEN f[Inward(h, g, one, 1)] ELSE one
    BY <2>9 DEF SecondOf, PropertyOf
  <2>12. Result(h, one)
    <3>1. Result(h, Entered(g))
      BY <1>7, EnteredResult
    <3>2. 0 \in Keep(h, g) => Inward(h, g, Entered(g), 0) \in Starts(h)
      BY <1>7, <3>1, InwardStarts
    <3> QED
      BY <1>1, <2>10, <3>1, <3>2
  <2>13. Result(h, two)
    <3>1. 1 \in Keep(h, g) => Inward(h, g, one, 1) \in Starts(h)
      BY <1>7, <2>12, InwardStarts
    <3> QED
      BY <1>1, <2>11, <2>12, <3>1
  <2> QED
    BY <2>2, <2>3, <2>5, <2>6, <2>7, <2>8, <2>9, <2>10, <2>11, <2>12, <2>13 DEF Walked, f
<1> QED
  BY <1>4, <1>6, <1>7 DEF f

(* An object shows its properties when they are followed.                   *)
LEMMA StepsAre ==
  ASSUME NEW h, NEW g, g.value.kind = "ref", Kind(h, g) \in Composites, NEW k \in Keys
  PROVE  Step(h, g.value, k) = IF k \in Keep(h, g) THEN h[g.value.to].at[k] ELSE Missing
<1>1. Kind(h, g) = "adapted" <=> h[g.value.to].proto = "class"
  BY DEF Kind, KindOf, Composites
<1> QED
  BY <1>1 DEF Step, Keep, Visible, Keys

(* An encoding that is not refused says all the object says, and met it     *)
(* once.                                                                    *)
LEMMA EncodeSound ==
  ASSUME NEW h, Heap(h), NEW g \in Starts(h), Encode(h)[g].code = "ok"
  PROVE  LET x == Encode(h)[g] IN
         g.depth <= MaxDepth /\ Sound(h, g.value, g.seen, x.seen, x.node, MaxDepth - g.depth)
<1> DEFINE f == Encode(h)
           Fine(y) == f[y].code = "ok" => /\ y.depth <= MaxDepth
                                          /\ Sound(h, y.value, y.seen, f[y].seen, f[y].node, MaxDepth - y.depth)
           Able == {n \in Nat : \A y \in Starts(h) : y.depth + n > MaxDepth => Fine(y)}
<1>1. ASSUME NEW y \in Starts(h)
      PROVE  /\ y.value \in Values(DOMAIN h) /\ y.seen \in SUBSET DOMAIN h /\ y.nodes \in Nat
             /\ y.depth \in Nat /\ MaxDepth \in Nat
  BY ValuesAssumption DEF Starts
<1>2. 0 \in Able
  <2>1. \A y \in Starts(h) : y.depth + 0 > MaxDepth => ~(y.depth <= MaxDepth)
    BY <1>1
  <2> QED
    BY <2>1, WalkedIs
<1>3. ASSUME NEW n \in Able
      PROVE  n + 1 \in Able
  <2>1. SUFFICES ASSUME NEW y \in Starts(h), y.depth + (n + 1) > MaxDepth, f[y].code = "ok"
                 PROVE  /\ y.depth <= MaxDepth
                        /\ Sound(h, y.value, y.seen, f[y].seen, f[y].node, MaxDepth - y.depth)
    BY <1>3
  <2>2. y.depth <= MaxDepth /\ MaxDepth - y.depth \in Nat
    BY <1>1, <2>1, WalkedIs
  <2>3. CASE y.value.kind # "ref"
    <3>1. f[y].seen = y.seen /\ f[y].node = y.value
      <4>1. f[y] = Made(y)
        BY <2>1, <2>3, WalkedIs
      <4> HIDE DEF f
      <4> QED
        BY <4>1 DEF Made
    <3>2. Sound(h, y.value, y.seen, y.seen, y.value, MaxDepth - y.depth)
      BY <1>1, <2>2, <2>3, LeafSound
    <3> QED
      BY <2>2, <3>1, <3>2
  <2>4. CASE y.value.kind = "ref"
    <3> DEFINE ks == Keep(h, y)
               one == FirstOf(h, f, y)
               two == SecondOf(h, f, y)
               before == [k \in Keys |-> IF k = 0 THEN Entered(y).seen ELSE one.seen]
               after == [k \in Keys |-> IF k = 0 THEN one.seen ELSE two.seen]
    <3>1. Walked(h, y, f[y])
      BY <2>1, <2>4, WalkedIs
    <3>2. /\ y.value.to \in DOMAIN h /\ y.value.to \notin y.seen
          /\ Kind(h, y) \in Composites /\ (version = 1 => Kind(h, y) # "error")
          /\ Result(h, one) /\ one.code = "ok" /\ Result(h, two) /\ two.code = "ok"
          /\ one = IF 0 \in ks THEN f[Inward(h, y, Entered(y), 0)] ELSE Entered(y)
          /\ two = IF 1 \in ks THEN f[Inward(h, y, one, 1)] ELSE one
          /\ f[y].seen = two.seen /\ f[y].node = BranchOf(h, f, y)
      BY <3>1 DEF Walked
    <3>3. ks \in SUBSET Keys /\ \A k \in ks : Step(h, y.value, k) = h[y.value.to].at[k]
      BY <2>4, <3>2, ShownIs, StepsAre
    <3>4. \A k \in Keys \ ks : Step(h, y.value, k) = Missing
      BY <2>4, <3>2, StepsAre
    <3>5. Result(h, Entered(y)) /\ Entered(y).seen = y.seen \cup {y.value.to}
      BY <2>4, EnteredResult
    <3>6. ASSUME NEW k \in ks, NEW s, Result(h, s), f[Inward(h, y, s, k)].code = "ok"
          PROVE  LET x == f[Inward(h, y, s, k)] IN
                 /\ y.depth + 1 <= MaxDepth
                 /\ Sound(h, Step(h, y.value, k), s.seen, x.seen, x.node, MaxDepth - (y.depth + 1))
      <4> DEFINE c == Inward(h, y, s, k)
      <4>1. c \in Starts(h)
        BY <2>4, <3>6, InwardStarts
      <4>2. c.depth = y.depth + 1 /\ c.value = Step(h, y.value, k) /\ c.seen = s.seen
        BY <3>3 DEF Inward
      <4> HIDE DEF c
      <4>3. c.depth + n > MaxDepth
        BY <1>1, <1>3, <2>1, <4>2
      <4>4. Fine(c)
        BY <1>3, <4>1, <4>3
      <4>5. f[c].code = "ok"
        BY <3>6 DEF c
      <4> HIDE DEF f
      <4>6. c.depth <= MaxDepth /\ Sound(h, c.value, c.seen, f[c].seen, f[c].node, MaxDepth - c.depth)
        BY <4>4, <4>5
      <4>7. /\ y.depth + 1 <= MaxDepth
            /\ Sound(h, Step(h, y.value, k), s.seen, f[c].seen, f[c].node, MaxDepth - (y.depth + 1))
        BY <4>2, <4>6
      <4> QED
        BY <4>7 DEF c
    <3> HIDE DEF f, ks, one, two
    <3>7. 0 \in ks => /\ y.depth + 1 <= MaxDepth
                      /\ Sound(h, Step(h, y.value, 0), Entered(y).seen, one.seen, one.node, MaxDepth - (y.depth + 1))
      BY <3>2, <3>5, <3>6
    <3>8. 1 \in ks => /\ y.depth + 1 <= MaxDepth
                      /\ Sound(h, Step(h, y.value, 1), one.seen, two.seen, two.node, MaxDepth - (y.depth + 1))
      BY <3>2, <3>6
    <3>9. Entered(y).seen \subseteq one.seen /\ one.seen \subseteq two.seen
      BY <3>2, <3>7, <3>8 DEF Sound
    <3>10. f[y].node = [kind |-> Kind(h, y), at |-> [k \in ks |-> IF k = 0 THEN one.node ELSE two.node]]
      BY <3>2 DEF BranchOf, one, two, ks
    <3> DEFINE node == f[y].node
               top == f[y].seen
               H == MaxDepth - (y.depth + 1)
    <3>11. H \in Int /\ MaxDepth - y.depth = H + 1
      BY <1>1
    <3>12. node.at = [k \in ks |-> IF k = 0 THEN one.node ELSE two.node]
      BY <3>10
    <3>13. node = [kind |-> Kind(h, y), at |-> [k \in ks |-> node.at[k]]]
      BY <3>10, <3>12
    <3>14. \A k \in ks : node.at[k] = IF k = 0 THEN one.node ELSE two.node
      BY <3>12
    <3>15. \A k \in ks : k = 0 \/ k = 1
      BY <3>3 DEF Keys
    <3>16. /\ before[0] = Entered(y).seen /\ before[1] = one.seen
          /\ after[0] = one.seen /\ after[1] = two.seen
      BY DEF Keys
    <3>17. top = two.seen
      BY <3>2
    <3> HIDE DEF node, top, H, before, after
    <3>18. \A k \in ks : Sound(h, Step(h, y.value, k), before[k], after[k], node.at[k], H)
      BY <3>7, <3>8, <3>14, <3>15, <3>16 DEF H
    <3>19. \A k \in ks : /\ y.seen \subseteq before[k] /\ y.value.to \in before[k]
                         /\ after[k] \subseteq top
      BY <3>5, <3>9, <3>15, <3>16, <3>17
    <3>20. \A j, k \in ks : j # k => after[j] \subseteq before[k] \/ after[k] \subseteq before[j]
      BY <3>15, <3>16
    <3>21. y.value.to \in top /\ y.seen \subseteq top
      BY <3>5, <3>9, <3>17
    <3>22. MaxDepth - y.depth \in Nat
      BY <2>2
    <3>23. Sound(h, y.value, y.seen, top, node, MaxDepth - y.depth)
      BY <2>4, <3>2, <3>3, <3>4, <3>11, <3>13, <3>18, <3>19, <3>20, <3>21, <3>22, BranchSound
    <3> QED
      BY <2>2, <3>23 DEF node, top
  <2> QED
    BY <2>3, <2>4
<1> HIDE DEF Able
<1>4. Able \in SUBSET Nat
  BY DEF Able
<1>5. Able = Nat
  BY <1>2, <1>3, <1>4, NaturalInduction
<1>6. MaxDepth + 1 \in Able /\ g.depth + (MaxDepth + 1) > MaxDepth
  BY <1>1, <1>5
<1> QED
  BY <1>6 DEF Able

-----------------------------------------------------------------------------
(* Values: what the verdict of a replay says *)

(* The tuples the model enumerates are the paths up to a length.            *)
LEMMA TuplesArePaths ==
  ASSUME NEW n \in Nat
  PROVE  Tuples(n) = {p \in Paths : Len(p) <= n}
<1>1. ASSUME NEW p \in Tuples(n)
      PROVE  p \in Paths /\ Len(p) <= n
  <2>1. PICK i \in 0 .. n : p \in [1 .. i -> Keys]
    BY DEF Tuples
  <2>2. i \in Nat /\ i <= n
    BY <2>1
  <2>3. p \in Seq(Keys) /\ Len(p) = i
    BY <2>1, <2>2
  <2> QED
    BY <2>2, <2>3 DEF Paths
<1>2. ASSUME NEW p \in Paths, Len(p) <= n
      PROVE  p \in Tuples(n)
  <2>1. Len(p) \in 0 .. n /\ p \in [1 .. Len(p) -> Keys]
    BY <1>2 DEF Paths
  <2> QED
    BY <2>1 DEF Tuples
<1> QED
  BY <1>1, <1>2

(* The nodes of a tree are found by paths one longer than the limit.        *)
LEMMA PathsOfAre ==
  ASSUME NEW node
  PROVE  PathsOf(node) = {p \in Paths : Len(p) <= MaxDepth + 1 /\ Below(node, p) # Missing}
<1>1. Tuples(MaxDepth + 1) = {p \in Paths : Len(p) <= MaxDepth + 1}
  BY TuplesArePaths, ValuesAssumption
<1> QED
  BY <1>1 DEF PathsOf

(* A path begins each of its continuations.                                 *)
LEMMA PathPrefix ==
  ASSUME NEW p \in Paths, NEW s \in Paths
  PROVE  IsPrefix(p, p \o s)
<1>1. p \in Seq(Keys) /\ s \in Seq(Keys)
  BY DEF Paths
<1>2. Len(p) <= Len(p \o s) /\ Len(p) \in Nat
  BY <1>1, ConcatProperties
<1>3. SubSeq(p \o s, 1, Len(p)) = SubSeq(p, 1, Len(p))
  BY <1>1, <1>2, SubSeqOfConcat1
<1> QED
  BY <1>2, <1>3 DEF IsPrefix

(* What the comparisons mean, among the paths that a verdict is about.      *)
LEMMA PathsTell ==
  ASSUME NEW l, NEW r, Compared(l, r, MaxDepth)
  PROVE  LET paths == PathsOf(l) \cup PathsOf(r) IN
         /\ (\A p \in paths : LeafAlike(l, r, p)) <=> AllAlike(l, r, <<>>)
         /\ \A d : Tells(l, r, MaxDepth, d) =>
              d \in paths /\ \E p \in paths : IsPrefix(d, p) /\ ~LeafAlike(l, r, p)
<1> DEFINE paths == PathsOf(l) \cup PathsOf(r)
<1>1. Pair(l, r, MaxDepth) /\ MaxDepth \in Nat
  BY DEF Compared, Pair
<1>2. \A p \in Paths : p \in paths <=> Len(p) <= MaxDepth + 1 /\ ~Gone(l, r, p)
  BY PathsOfAre DEF Gone
<1>3. paths \subseteq Paths
  BY PathsOfAre
<1> HIDE DEF paths
<1>4. \A p \in Paths : Gone(l, r, p) => LeafAlike(l, r, p)
  BY DEF Gone, LeafAlike, Missing
<1>5. ASSUME NEW d, Tells(l, r, MaxDepth, d)
      PROVE  d \in paths /\ \E p \in paths : IsPrefix(d, p) /\ ~LeafAlike(l, r, p)
  <2>1. d \in Paths /\ Len(d) <= MaxDepth + 1 /\ ~Gone(l, r, d)
    BY <1>5 DEF Tells
  <2>2. PICK s \in Paths : Len(d \o s) <= MaxDepth + 1 /\ ~LeafAlike(l, r, d \o s)
    BY <1>5 DEF Tells
  <2>3. d \o s \in Paths
    BY <2>1, BelowMore
  <2>4. d \o s \in paths
    BY <1>2, <1>4, <2>2, <2>3
  <2> QED
    BY <1>2, <2>1, <2>2, <2>4, PathPrefix
<1>6. ASSUME ~AllAlike(l, r, <<>>)
      PROVE  \E p \in paths : ~LeafAlike(l, r, p)
  <2>1. <<>> \in Paths /\ Len(<<>>) <= MaxDepth + 1
    BY <1>1, PathFacts
  <2>2. Tells(l, r, MaxDepth, <<>>)
    BY <1>1, <1>6, <2>1, NotAlikeTells
  <2> QED
    BY <1>5, <2>2
<1>7. ASSUME AllAlike(l, r, <<>>), NEW p \in paths
      PROVE  LeafAlike(l, r, p)
  <2>1. p \in Paths /\ <<>> \o p = p
    BY <1>3, ConcatEmptySeq DEF Paths
  <2> QED
    BY <1>7, <2>1 DEF AllAlike
<1> QED
  BY <1>5, <1>6, <1>7 DEF paths

(* The trees a replay answers with.                                         *)
LEMMA LevelTree ==
  ASSUME NEW a, NEW kind \in Composites, NEW ks \in SUBSET Keys, NEW S,
         a.at \in [ks -> S], a = [kind |-> kind, at |-> a.at], Missing \notin S,
         NEW H \in Nat, NEW I \in Nat, I = H + 1, \A b \in S : Tree(b, H)
  PROVE  Tree(a, I)
<1>1. a.at = [k \in ks |-> a.at[k]] /\ \A k \in ks : a.at[k] \in S
  OBVIOUS
<1>2. a = [kind |-> kind, at |-> [k \in ks |-> a.at[k]]]
  BY <1>1
<1>3. Composite(a)
  BY <1>1, <1>2 DEF Composite
<1>4. H \in Int /\ DOMAIN a.at = ks
  BY <1>1
<1> QED
  BY <1>1, <1>3, <1>4, BranchTree

(* Every tree a replay answers with has a depth.                            *)
LEMMA TreesAreTrees ==
  ASSUME NEW t \in Trees
  PROVE  \E i \in Nat : Tree(t, i)
<1>1. /\ {} \in SUBSET Keys /\ {0} \in SUBSET Keys /\ {1} \in SUBSET Keys
      /\ {0, 1} \in SUBSET Keys 
  BY DEF Keys
<1>0. PICK none \in Nat, one \in Nat, two \in Nat : one = none + 1 /\ two = one + 1
  <2>1. 0 \in Nat /\ 1 \in Nat /\ 2 \in Nat /\ 1 = 0 + 1 /\ 2 = 1 + 1
    OBVIOUS
  <2> QED
    BY <2>1
<1>2. ASSUME NEW a \in Leaves \cup {StandardError}, NEW H \in Nat
      PROVE  Tree(a, H) /\ a # Missing
  <2>1. Leaf(a) /\ a # Missing
    BY ValuesAssumption DEF Leaves, Leaf, Number, StandardError, Missing
  <2> QED
    BY <2>1, LeafTree
<1>3. ASSUME NEW kinds \in SUBSET Composites, NEW a \in Level(kinds, Leaves)
      PROVE  Tree(a, one) /\ a # Missing
  <2>1. PICK ks \in SUBSET Keys : a.at \in [ks -> Leaves]
    BY <1>1 DEF Level
  <2>2. a.kind \in Composites /\ a = [kind |-> a.kind, at |-> a.at]
    BY DEF Level
  <2>3. Missing \notin Leaves /\ \A b \in Leaves : Tree(b, none)
    BY <1>0, <1>1, <1>2
  <2>4. a # Missing
    BY <2>2 DEF Composites, Missing
  <2> QED
    BY <1>0, <1>1, <2>1, <2>2, <2>3, <2>4, LevelTree
<1>4. ASSUME NEW a \in Flat
      PROVE  Tree(a, one) /\ a # Missing
  <2>1. CASE a \in Leaves
    BY <1>0, <1>1, <1>2, <2>1
  <2>2. CASE a \in Level({"array", "record"}, Leaves)
    <3>1. {"array", "record"} \in SUBSET Composites
      BY DEF Composites
    <3> QED
      BY <1>3, <2>2, <3>1
  <2>3. CASE a \in [kind : {"record"}, at : [{1} -> Leaves]]
                     \cup [kind : {"adapted"}, at : [{0} -> Leaves]]
    <3>1. PICK ks \in SUBSET Keys : a.at \in [ks -> Leaves]
      BY <1>1, <2>3
    <3>2. a.kind \in Composites /\ a = [kind |-> a.kind, at |-> a.at]
      BY <2>3 DEF Composites
    <3>3. Missing \notin Leaves /\ \A b \in Leaves : Tree(b, none)
      BY <1>0, <1>1, <1>2
    <3>4. a # Missing
      BY <3>2 DEF Composites, Missing
    <3> QED
      BY <1>0, <1>1, <3>1, <3>2, <3>3, <3>4, LevelTree
  <2> QED
    BY <2>1, <2>2, <2>3 DEF Flat
<1>5. CASE t \in Flat
  BY <1>0, <1>1, <1>4, <1>5
<1>6. CASE t \in [kind : {"record"}, at : [{0} -> Flat]]
  <2>1. t.at \in [{0} -> Flat] /\ t = [kind |-> "record", at |-> t.at]
    BY <1>6
  <2>2. "record" \in Composites
    BY DEF Composites
  <2> QED
    BY <1>0, <1>1, <1>4, <2>1, <2>2, LevelTree
<1>7. CASE t \in Level({"error"}, Leaves)
  <2>1. {"error"} \in SUBSET Composites
    BY DEF Composites
  <2> QED
    BY <1>0, <1>1, <1>3, <1>7, <2>1
<1>8. CASE t = StandardError
  BY <1>0, <1>1, <1>2, <1>8
<1> QED
  BY <1>5, <1>6, <1>7, <1>8 DEF Trees

(* What is compared has been accepted, and nothing is loosened in a payload. *)
Comparable(l) == /\ Tree(l, MaxDepth) /\ l # Missing /\ Tolerable(l)
                 /\ version = 1 => WithoutErrors(l)

-----------------------------------------------------------------------------
(* Values: an accepted observation says all that its objects say *)

Told(h, v, node) ==
  /\ Tree(node, MaxDepth) /\ node # Missing /\ (version = 1 => WithoutErrors(node))
  /\ MeetsOnce(h, v)
  /\ \A p \in Paths : Follow(h, v, p) # Missing => Len(p) <= MaxDepth /\ Follow(h, v, p) # Secret

(* What is said soundly, and without a secret, is told.                     *)
LEMMA SoundIsTold ==
  ASSUME NEW h, NEW v, NEW before, NEW after, NEW node, NEW H \in Nat, H <= MaxDepth,
         Sound(h, v, before, after, node, H), ~HasSecret(node)
  PROVE  Told(h, v, node)
<1>1. MaxDepth \in Nat
  BY ValuesAssumption
<1>2. Tree(node, H) /\ Says(h, v, node)
  BY DEF Sound
<1>3. ASSUME NEW p \in Paths
      PROVE  Len(p) \in Nat /\ Grown(Below(node, p)) /\ (Len(p) > H => Below(node, p) = Missing)
  BY <1>2, PathFacts DEF Tree
<1>4. Tree(node, MaxDepth)
  BY <1>1, <1>3 DEF Tree
<1>5. ASSUME NEW p \in Paths, Follow(h, v, p) # Missing
      PROVE  Len(p) <= MaxDepth /\ Follow(h, v, p) # Secret
  <2>1. Agrees(Follow(h, v, p), Below(node, p))
    BY <1>2 DEF Says
  <2>2. Below(node, p) # Missing
    BY <1>5, <2>1, Leafs DEF Agrees, Leaf
  <2>3. Len(p) <= MaxDepth /\ Len(p) <= MaxDepth + 1
    BY <1>1, <1>3, <2>2
  <2>4. p \in PathsOf(node)
    BY <2>2, <2>3, PathsOfAre
  <2>5. Below(node, p) # Secret
    BY <2>4 DEF HasSecret
  <2> QED
    BY <2>1, <2>3, <2>5 DEF Agrees, Secret
<1> QED
  BY <1>4, <1>5 DEF Told, Sound

(* What classifying has found, read back from the record.                   *)
Observed ==
  /\ Heap(heap) /\ DOMAIN heap = Objects \cup {0}
  /\ completion.value \in Values(Objects)
Accepted ==
  LET args == EncodeRoot(heap, Ref(0))
      end == EncodeCompletion(heap, completion, args)
  IN /\ Safe(args) /\ Safe(end)
     /\ recorded = [arguments |-> args.node,
                    completion |-> [kind |-> completion.kind, node |-> end.node]]

(* The encoding of a value by itself is sound.                              *)
LEMMA RootSound ==
  ASSUME NEW h, Heap(h), NEW v \in Values(DOMAIN h), EncodeRoot(h, v).code = "ok"
  PROVE  Sound(h, v, {}, EncodeRoot(h, v).seen, EncodeRoot(h, v).node, MaxDepth)
<1> DEFINE g == [value |-> v, depth |-> 0, allow |-> TRUE, seen |-> {}, nodes |-> 0]
<1>1. g \in Starts(h) /\ g.depth = 0 /\ g.value = v /\ g.seen = {}
  BY DEF Starts
<1> HIDE DEF g
<1>2. EncodeRoot(h, v) = Encode(h)[g]
  BY DEF EncodeRoot, g
<1>3. Sound(h, v, {}, Encode(h)[g].seen, Encode(h)[g].node, MaxDepth - 0)
  BY <1>1, <1>2, EncodeSound
<1>4. MaxDepth - 0 = MaxDepth
  BY ValuesAssumption
<1> QED
  BY <1>2, <1>3, <1>4

(* A thrown error of its own shows nothing but itself.                      *)
LEMMA ErrorAlone ==
  ASSUME NEW h, NEW o, h[o].proto = "error", Visible(h[o], "error") = {}, ~HasSecret(StandardError)
  PROVE  Told(h, Ref(o), StandardError) /\ Meets(h, Ref(o), {o})
<1> DEFINE v == Ref(o)
<1>0. v.kind = "ref" /\ v.to = o /\ v # Missing /\ v # Secret
  BY DEF Ref, Missing, Secret
<1>1. ASSUME NEW k \in Keys
      PROVE  Step(h, v, k) = Missing
  <2>1. h[o].at[k] = Missing
    BY DEF Visible
  <2> QED
    BY <1>0, <2>1 DEF Step
<1>2. Missing.kind # "ref" /\ MaxDepth \in Nat /\ Leaf(StandardError)
  BY ValuesAssumption DEF Missing, Leaf
<1> HIDE DEF v
<1>3. ASSUME NEW p \in Paths
      PROVE  Follow(h, v, p) = IF p = <<>> THEN v ELSE Missing
  <2>1. CASE p = <<>>
    BY <2>1, FollowHere
  <2>2. CASE p # <<>>
    <3>1. PICK k \in Keys, q \in Paths : p = <<k>> \o q
      BY <2>2, PathHead
    <3>2. Follow(h, v, p) = Follow(h, Missing, q)
      BY <1>1, <3>1, FollowFirst
    <3>3. Follow(h, Missing, q) = Missing
      BY <1>2, FollowHere, NothingFollows
    <3> QED
      BY <2>2, <3>2, <3>3
  <2> QED
    BY <2>1, <2>2
<1>4. Tree(StandardError, MaxDepth) /\ StandardError # Missing
  BY <1>2, LeafTree DEF StandardError, Missing
<1>5. WithoutErrors(StandardError)
  <2> SUFFICES ASSUME NEW p \in Paths
               PROVE  Below(StandardError, p).kind # "error"
    BY DEF WithoutErrors
  <2>1. Below(StandardError, p) \in {StandardError, Missing}
    BY <1>2, BelowHere, NothingBelow
  <2> QED
    BY <2>1 DEF StandardError, Missing
<1>6. Len(<<>>) <= MaxDepth
  BY <1>2
<1>7. MeetsOnce(h, v)
  BY <1>2, <1>3 DEF MeetsOnce
<1>8. Meets(h, v, {o})
  BY <1>0, <1>2, <1>3 DEF Meets
<1>9. Told(h, v, StandardError)
  BY <1>0, <1>3, <1>4, <1>5, <1>6, <1>7 DEF Told
<1> QED
  BY <1>8, <1>9 DEF v

(* The arguments and the completion are told, and V1 met no object in both. *)
LEMMA AcceptedMeans ==
  ASSUME Observed, Accepted
  PROVE  /\ Told(heap, Ref(0), recorded.arguments) /\ Says(heap, Ref(0), recorded.arguments)
         /\ Told(heap, completion.value, recorded.completion.node)
         /\ version = 1 => \E one, two : /\ one \cap two = {}
                                         /\ Meets(heap, Ref(0), one)
                                         /\ Meets(heap, completion.value, two)
<1> DEFINE args == EncodeRoot(heap, Ref(0))
           end == EncodeCompletion(heap, completion, args)
           c == completion.value
<1>1. /\ Safe(args) /\ Safe(end)
      /\ recorded.arguments = args.node /\ recorded.completion.node = end.node
  BY DEF Accepted
<1>2. Heap(heap) /\ c \in Values(DOMAIN heap) /\ Ref(0) \in Values(DOMAIN heap)
  BY DEF Observed, Values
<1>3. MaxDepth \in Nat /\ MaxDepth <= MaxDepth
  BY ValuesAssumption
<1>4. Sound(heap, Ref(0), {}, args.seen, args.node, MaxDepth)
  BY <1>1, <1>2, RootSound DEF Safe
<1>5. Told(heap, Ref(0), args.node) /\ Says(heap, Ref(0), args.node) /\ Meets(heap, Ref(0), args.seen)
  <2>1. ~HasSecret(args.node)
    BY <1>1 DEF Safe
  <2>2. Told(heap, Ref(0), args.node)
    BY <1>3, <1>4, <2>1, SoundIsTold
  <2>3. Meets(heap, Ref(0), args.seen \ {})
    BY <1>4 DEF Sound
  <2>4. args.seen \ {} = args.seen
    OBVIOUS
  <2> QED
    BY <1>4, <2>2, <2>3, <2>4 DEF Sound
<1>6. CASE version = 2
  <2>1. end = EncodeRoot(heap, c)
    BY <1>6 DEF EncodeCompletion
  <2>2. Sound(heap, c, {}, end.seen, end.node, MaxDepth)
    BY <1>1, <1>2, <2>1, RootSound DEF Safe
  <2>3. Told(heap, c, end.node)
    BY <1>1, <1>3, <2>2, SoundIsTold DEF Safe
  <2> QED
    BY <1>1, <1>5, <1>6, <2>3
<1>7. CASE version # 2 /\ ~IsStandardError(heap, completion)
  <2> DEFINE g == [value |-> c, depth |-> 1, allow |-> TRUE, seen |-> args.seen, nodes |-> args.nodes + 1]
  <2>1. end = Encode(heap)[g]
    BY <1>7 DEF EncodeCompletion
  <2>2. g \in Starts(heap)
    <3>1. args.seen \in SUBSET DOMAIN heap /\ args.nodes \in Nat
      <4> DEFINE s == [value |-> Ref(0), depth |-> 0, allow |-> TRUE, seen |-> {}, nodes |-> 0]
      <4>1. s \in Starts(heap)
        BY <1>2 DEF Starts
      <4> HIDE DEF s
      <4>2. args = Encode(heap)[s]
        BY DEF EncodeRoot, s
      <4>3. Result(heap, Encode(heap)[s])
        BY <1>2, <4>1, EncodeExists
      <4> QED
        BY <4>2, <4>3 DEF Result
    <3> HIDE DEF args
    <3> QED
      BY <1>2, <3>1 DEF Starts
  <2>3. g.depth = 1 /\ g.value = c /\ g.seen = args.seen
    OBVIOUS
  <2> HIDE DEF g
  <2>4. g.depth <= MaxDepth /\ Sound(heap, g.value, g.seen, Encode(heap)[g].seen, Encode(heap)[g].node, MaxDepth - g.depth)
    <3>1. Encode(heap)[g].code = "ok"
      BY <1>1, <2>1 DEF Safe
    <3> QED
      BY <1>2, <2>2, <3>1, EncodeSound
  <2> HIDE DEF args, end
  <2>5. Sound(heap, c, args.seen, end.seen, end.node, MaxDepth - 1) /\ 1 <= MaxDepth
    BY <2>1, <2>3, <2>4
  <2>6. MaxDepth - 1 \in Nat /\ MaxDepth - 1 <= MaxDepth
    BY <1>3, <2>5
  <2>7. ~HasSecret(end.node)
    BY <1>1 DEF Safe
  <2>8. Told(heap, c, end.node)
    BY <2>5, <2>6, <2>7, SoundIsTold
  <2>9. Meets(heap, c, end.seen \ args.seen) /\ args.seen \cap (end.seen \ args.seen) = {}
    BY <2>5 DEF Sound
  <2> QED
    BY <1>1, <1>5, <2>8, <2>9 DEF args, end
<1>8. CASE version # 2 /\ IsStandardError(heap, completion)
  <2> DEFINE o == c.to
  <2>1. c.kind = "ref" /\ heap[o].proto = "error"
    BY <1>8 DEF IsStandardError
  <2>2. c = Ref(o)
    BY <1>2, <2>1, RefersTo
  <2>3. Visible(heap[o], "error") = {} /\ o \notin args.seen
    BY <1>1, <1>8 DEF EncodeCompletion, Safe, Refused
  <2>4. end.node = StandardError
    BY <1>1, <1>8, <2>3 DEF EncodeCompletion, Safe, Refused
  <2> HIDE DEF args, end
  <2>5. ~HasSecret(StandardError)
    BY <1>1, <2>4 DEF Safe
  <2>6. Told(heap, Ref(o), StandardError) /\ Meets(heap, Ref(o), {o})
    BY <2>1, <2>3, <2>5, ErrorAlone
  <2>7. Told(heap, c, end.node) /\ Meets(heap, c, {o}) /\ args.seen \cap {o} = {}
    BY <2>2, <2>3, <2>4, <2>6
  <2> QED
    BY <1>1, <1>5, <2>7 DEF args, end
<1> QED
  BY <1>6, <1>7, <1>8

(* AcceptedIsWhole, from what classifying has found.                        *)
LEMMA AcceptedSaysAll ==
  ASSUME progress = "accepted" => Observed /\ Accepted
  PROVE  AcceptedIsWhole
<1> SUFFICES ASSUME progress = "accepted"
             PROVE  AcceptedIsWhole
  BY DEF AcceptedIsWhole
<1> DEFINE c == completion.value
<1>1. /\ Told(heap, Ref(0), recorded.arguments) /\ Says(heap, Ref(0), recorded.arguments)
      /\ Told(heap, c, recorded.completion.node)
      /\ version = 1 => \E one, two : /\ one \cap two = {}
                                      /\ Meets(heap, Ref(0), one)
                                      /\ Meets(heap, c, two)
  BY AcceptedMeans
<1> HIDE DEF c
<1>2. /\ Tuples(MaxDepth + 1) \subseteq Paths
      /\ Tuples(MaxDepth) \subseteq Paths
  BY TuplesArePaths, ValuesAssumption
<1>3. \A r : Reached(heap, r) \subseteq Paths /\ \A p \in Reached(heap, r) : Follow(heap, r, p) # Missing
  BY <1>2 DEF Reached
<1>4. ASSUME NEW r1 \in Roots, NEW r2 \in Roots,
             NEW p \in Reached(heap, r1), NEW q \in Reached(heap, r2),
             Follow(heap, r1, p).kind = "ref", Follow(heap, r1, p) = Follow(heap, r2, q)
      PROVE  r1 = r2 /\ p = q
  <2>1. p \in Paths /\ q \in Paths
    BY <1>3
  <2>2. r1 \in {Ref(0), c} /\ r2 \in {Ref(0), c} /\ (r1 # r2 => version = 1)
    BY DEF Roots, c
  <2>3. CASE r1 = r2
    BY <1>1, <1>4, <2>1, <2>2, <2>3 DEF Told, MeetsOnce
  <2>4. CASE r1 # r2
    <3>1. PICK one, two : one \cap two = {} /\ Meets(heap, Ref(0), one) /\ Meets(heap, c, two)
      BY <1>1, <2>2, <2>4
    <3>2. /\ Follow(heap, r1, p).to \in IF r1 = Ref(0) THEN one ELSE two
          /\ Follow(heap, r2, q).to \in IF r2 = Ref(0) THEN one ELSE two
      BY <1>4, <2>1, <2>2, <3>1 DEF Meets
    <3> QED
      BY <1>4, <2>2, <2>4, <3>1, <3>2
  <2> QED
    BY <2>3, <2>4
<1>5. ASSUME NEW r \in {Ref(0), c}, NEW p \in Reached(heap, r)
      PROVE  Len(p) <= MaxDepth /\ Follow(heap, r, p) # Secret
  BY <1>1, <1>3 DEF Told
<1>6. ASSUME NEW p \in Tuples(MaxDepth)
      PROVE  LET v == Follow(heap, Ref(0), p)
                 node == Below(recorded.arguments, p)
             IN IF v.kind = "ref" THEN Inner(node) ELSE node = v
  BY <1>1, <1>2 DEF Says, Agrees
<1> QED
  BY <1>4, <1>5, <1>6 DEF AcceptedIsWhole, c

-----------------------------------------------------------------------------
(* Values: a canonical tree becomes live objects that encode to it again *)

Back(t, p) == IF Inner(Below(t, p)) THEN Ref(p) ELSE Below(t, p)
Copies(d, t) ==
  /\ DOMAIN d = {p \in Paths : Inner(Below(t, p))}
  /\ \A p \in DOMAIN d : /\ d[p].proto = Prototype(Below(t, p).kind)
                         /\ \A k \in Keys : d[p].at[k] = Back(t, Append(p, k))

(* A branch of a tree lies within the limit.                                *)
LEMMA InnerShallow ==
  ASSUME NEW t, Tree(t, MaxDepth), NEW p \in Paths, Inner(Below(t, p))
  PROVE  Len(p) <= MaxDepth + 1 /\ Below(t, p) # Missing /\ p \in PathsOf(t)
<1>1. Below(t, p) # Missing
  BY Leafs DEF Leaf
<1>2. Len(p) \in Nat /\ MaxDepth \in Nat /\ ~(Len(p) > MaxDepth)
  BY <1>1, PathFacts, ValuesAssumption DEF Tree
<1>3. Len(p) <= MaxDepth + 1
  BY <1>2
<1> QED
  BY <1>1, <1>3, PathsOfAre

(* Decoding makes an object of every branch.                                *)
LEMMA DecodeCopies ==
  ASSUME NEW t, Tree(t, MaxDepth)
  PROVE  Copies(Decode(t), t)
<1>1. {q \in PathsOf(t) : Inner(Below(t, q))} = {p \in Paths : Inner(Below(t, p))}
  <2>1. PathsOf(t) \subseteq Paths
    BY PathsOfAre
  <2> QED
    BY <2>1, InnerShallow
<1>2. DOMAIN Decode(t) = {p \in Paths : Inner(Below(t, p))}
  BY <1>1 DEF Decode
<1>3. ASSUME NEW p \in DOMAIN Decode(t)
      PROVE  /\ Decode(t)[p].proto = Prototype(Below(t, p).kind)
             /\ \A k \in Keys : Decode(t)[p].at[k] = Back(t, Append(p, k))
  BY <1>1, <1>2 DEF Decode, Back
<1> QED
  BY <1>2, <1>3 DEF Copies

(* The properties of these objects are leaves and references to each other. *)
LEMMA CopyIsHeap ==
  ASSUME NEW d, NEW t, Copies(d, t),
         \A p \in Paths : Inner(Below(t, p)) \/ Below(t, p) \in Values({}) \cup {Missing}
  PROVE  Heap(d)
<1> SUFFICES ASSUME NEW p \in DOMAIN d, NEW k \in Keys
             PROVE  d[p].at[k] \in Values(DOMAIN d) \cup {Missing}
  BY DEF Heap
<1>1. p \in Paths /\ Append(p, k) \in Paths
  BY PathFacts DEF Copies
<1>2. d[p].at[k] = Back(t, Append(p, k))
  BY DEF Copies
<1>3. CASE Inner(Below(t, Append(p, k)))
  <2>1. Append(p, k) \in DOMAIN d
    BY <1>1, <1>3 DEF Copies
  <2>2. Ref(Append(p, k)) \in Values(DOMAIN d)
    BY <2>1 DEF Values
  <2> QED
    BY <1>2, <1>3, <2>2 DEF Back
<1>4. CASE ~Inner(Below(t, Append(p, k)))
  <2>1. Below(t, Append(p, k)) \in Values({}) \cup {Missing}
    BY <1>1, <1>4
  <2>2. Values({}) \subseteq Values(DOMAIN d)
    BY DEF Values
  <2> QED
    BY <1>2, <1>4, <2>1, <2>2 DEF Back
<1> QED
  BY <1>3, <1>4

(* What properties lead to is a value of the heap.                          *)
LEMMA FollowStays ==
  ASSUME NEW h, Heap(h), NEW v \in Values(DOMAIN h) \cup {Missing}, NEW p \in Paths
  PROVE  Follow(h, v, p) \in Values(DOMAIN h) \cup {Missing}
<1> DEFINE Good == {q \in Paths : Follow(h, v, q) \in Values(DOMAIN h) \cup {Missing}}
<1>1. <<>> \in Good
  BY PathFacts, FollowHere
<1>2. ASSUME NEW q \in Good, NEW k \in Keys
      PROVE  Append(q, k) \in Good
  <2> DEFINE w == Follow(h, v, q)
  <2>1. Append(q, k) \in Paths /\ Follow(h, v, Append(q, k)) = Step(h, w, k)
    BY <1>2, FollowNext, PathFacts
  <2>2. w \in Values(DOMAIN h) \cup {Missing}
    BY <1>2
  <2> HIDE DEF w
  <2>3. w.kind = "ref" => w.to \in DOMAIN h
    BY <2>2, RefersTo
  <2>4. Step(h, w, k) \in Values(DOMAIN h) \cup {Missing}
    BY <2>3 DEF Step, Heap
  <2> QED
    BY <2>1, <2>4
<1> HIDE DEF Good
<1>3. Good \in SUBSET Paths
  BY DEF Good
<1>4. Good = Paths
  BY <1>1, <1>2, <1>3, PathInduction
<1> QED
  BY <1>4 DEF Good

(* The leaves of what is said are those of the heap.                        *)
LEMMA SaidLeaves ==
  ASSUME NEW h, Heap(h), NEW v \in Values(DOMAIN h), NEW t, Says(h, v, t), NEW p \in Paths
  PROVE  Inner(Below(t, p)) \/ Below(t, p) \in Values({}) \cup {Missing}
<1>1. Agrees(Follow(h, v, p), Below(t, p))
  BY DEF Says
<1>2. Follow(h, v, p) \in Values(DOMAIN h) \cup {Missing}
  BY FollowStays
<1> QED
  BY <1>1, <1>2, LeafValues DEF Agrees

(* What a walk gives that is not given up.                                  *)
LEMMA LeafWalk ==
  ASSUME NEW h, Heap(h), NEW g \in Starts(h), g.depth <= MaxDepth, g.nodes + 1 <= MaxNodes,
         g.value.kind # "ref", ~(g.value = Secret /\ version = 2)
  PROVE  LET x == Encode(h)[g] IN
         x.code = "ok" /\ x.seen = g.seen /\ x.nodes = g.nodes + 1 /\ x.node = g.value
<1>1. /\ g.nodes \in Nat /\ g.depth \in Nat /\ MaxDepth \in Nat /\ MaxNodes \in Nat
  BY ValuesAssumption DEF Starts
<1>2. ~(g.depth > MaxDepth \/ Made(g).nodes > MaxNodes)
  BY <1>1 DEF Made
<1>3. Encode(h)[g] = EncodeBody(h, Encode(h), g)
  BY EncodeExists
<1>4. Encode(h)[g] = Made(g)
  BY <1>2, <1>3 DEF EncodeBody
<1> QED
  BY <1>4 DEF Made

(* The same, of a walk into an object.                                      *)
LEMMA BranchWalk ==
  ASSUME NEW h, Heap(h), NEW g \in Starts(h), g.depth <= MaxDepth, g.nodes + 1 <= MaxNodes,
         g.value.kind = "ref", g.value.to \notin g.seen, Kind(h, g) \in Composites,
         Kind(h, g) = "adapted" => h[g.value.to].at[0] # Missing,
         SecondOf(h, Encode(h), g).code = "ok"
  PROVE  LET x == Encode(h)[g]
             two == SecondOf(h, Encode(h), g)
         IN x.code = "ok" /\ x.seen = two.seen /\ x.nodes = two.nodes /\ x.node = BranchOf(h, Encode(h), g)
<1> DEFINE f == Encode(h)
           two == SecondOf(h, f, g)
<1>1. /\ g.nodes \in Nat /\ g.depth \in Nat /\ MaxDepth \in Nat /\ MaxNodes \in Nat
  BY ValuesAssumption DEF Starts
<1>2. ~(g.depth > MaxDepth \/ Made(g).nodes > MaxNodes)
  BY <1>1 DEF Made
<1>3. f[g] = EncodeBody(h, f, g)
  BY EncodeExists
<1>4. ~(Met(h, g.seen, g.value.to) \/ Kind(h, g) = "unsupported")
  BY DEF Met, Composites
<1> HIDE DEF f
<1>5. two.code = "ok"
  BY DEF f
<1>6. f[g] = [Made(g) EXCEPT !.seen = two.seen, !.nodes = two.nodes, !.node = BranchOf(h, f, g)]
  BY <1>2, <1>3, <1>4, <1>5 DEF EncodeBody
<1> HIDE DEF two
<1>7. f[g].code = "ok" /\ f[g].seen = two.seen /\ f[g].nodes = two.nodes /\ f[g].node = BranchOf(h, f, g)
  BY <1>6 DEF Made
<1> QED
  BY <1>7 DEF two, f

Copied(d, t) ==
  /\ Tree(t, MaxDepth) /\ Copies(d, t) /\ Heap(d)
  /\ \A p \in Paths : Inner(Below(t, p)) \/ Below(t, p) \in Values({}) \cup {Missing}
Again(g, t, p, s) ==
  [value |-> Back(t, p), depth |-> g.depth, allow |-> g.allow, seen |-> s, nodes |-> g.nodes]

(* The walk of the object of a node starts as a walk does.                  *)
LEMMA AgainStarts ==
  ASSUME NEW d, NEW t, Copied(d, t), NEW h, NEW g \in Starts(h), NEW p \in Paths,
         Below(t, p) # Missing, NEW s \in SUBSET DOMAIN d
  PROVE  Again(g, t, p, s) \in Starts(d)
<1>1. g.depth \in Nat /\ g.allow \in BOOLEAN /\ g.nodes \in Nat
  BY DEF Starts
<1>2. Back(t, p) \in Values(DOMAIN d)
  <2>1. CASE Inner(Below(t, p))
    <3>1. p \in DOMAIN d
      BY <2>1 DEF Copied, Copies
    <3> QED
      BY <2>1, <3>1 DEF Back, Values
  <2>2. CASE ~Inner(Below(t, p))
    <3>1. Below(t, p) \in Values({})
      BY <2>2 DEF Copied
    <3> QED
      BY <2>2, <3>1 DEF Back, Values
  <2> QED
    BY <2>1, <2>2
<1> QED
  BY <1>1, <1>2 DEF Again, Starts

(* The object of a node has its kind and shows its children.                *)
LEMMA SameKinds ==
  ASSUME NEW d, NEW t, Copied(d, t), NEW h, NEW g \in Starts(h), NEW p \in Paths, NEW s,
         Kind(h, g) \in Composites, Composite(Below(t, p)),
         Below(t, p).kind = Kind(h, g), DOMAIN Below(t, p).at = Keep(h, g)
  PROVE  LET e == Again(g, t, p, s) IN
         /\ e.value = Ref(p) /\ e.value.kind = "ref" /\ e.value.to = p /\ p \in DOMAIN d
         /\ Kind(d, e) = Kind(h, g) /\ Keep(d, e) = Keep(h, g)
         /\ \A k \in Keys : d[p].at[k] = Back(t, Append(p, k))
         /\ \A k \in Keep(h, g) : d[p].at[k] # Missing
<1> DEFINE e == Again(g, t, p, s)
           node == Below(t, p)
           o == h[g.value.to]
           c == d[p]
           kind == Kind(h, g)
<1>1. Inner(node)
  BY Branches
<1>2. p \in DOMAIN d
  BY <1>1 DEF Copied, Copies
<1>3. e.value = Ref(p) /\ e.value.kind = "ref" /\ e.value.to = p /\ e.allow = g.allow
  BY <1>1 DEF Again, Back, Ref
<1>4. c.proto = Prototype(kind) /\ \A k \in Keys : c.at[k] = Back(t, Append(p, k))
  BY <1>2 DEF Copied, Copies
<1>5. ASSUME NEW k \in Keys
      PROVE  c.at[k] # Missing <=> k \in Keep(h, g)
  <2>1. Below(t, Append(p, k)) = Child(node, k)
    BY BelowNext
  <2>2. Child(node, k) # Missing <=> k \in Keep(h, g)
    BY Branches
  <2>3. ~Inner(Missing)
    BY Leafs DEF Leaf
  <2>4. Ref(Append(p, k)) # Missing
    BY DEF Ref, Missing
  <2> QED
    BY <1>4, <2>1, <2>2, <2>3, <2>4 DEF Back
<1>6. Kind(h, g) = KindOf(o, g.allow) /\ Keep(h, g) = Visible(o, kind)
  BY DEF Kind, Keep
<1>7. Kind(d, e) = KindOf(c, g.allow) /\ Keep(d, e) = Visible(c, Kind(d, e))
  BY <1>3 DEF Kind, Keep
<1>8. kind # "unsupported" /\ g.allow \in BOOLEAN
  BY DEF Composites, Starts
<1> HIDE DEF c, o, e, node, kind
<1>9. Keep(h, g) \subseteq Keys
  BY ShownIs
<1>10. KindOf(c, g.allow) = kind
  <2>1. CASE kind = "adapted"
    <3>1. g.allow
      BY <1>6, <2>1 DEF KindOf, kind
    <3>2. c.proto = "class"
      BY <1>4, <2>1 DEF Prototype
    <3> QED
      BY <2>1, <3>1, <3>2 DEF KindOf
  <2>2. CASE kind = "array"
    <3>1. Dense(o) /\ Keep(h, g) = {k \in Keys : o.at[k] # Missing}
      BY <1>6, <2>2 DEF KindOf, kind, Visible
    <3>2. Dense(c)
      BY <1>5, <3>1 DEF Dense, Keys
    <3>3. c.proto = "array"
      BY <1>4, <2>2 DEF Prototype
    <3> QED
      BY <2>2, <3>2, <3>3 DEF KindOf
  <2>3. CASE kind = "record"
    <3>1. c.proto = "record"
      BY <1>4, <2>3 DEF Prototype
    <3> QED
      BY <2>3, <3>1 DEF KindOf
  <2>4. CASE kind = "error"
    <3>1. version = 2
      BY <1>6, <2>4 DEF KindOf, kind
    <3>2. c.proto = "error"
      BY <1>4, <2>4 DEF Prototype
    <3> QED
      BY <2>4, <3>1, <3>2 DEF KindOf
  <2>5. kind \in Composites
    BY DEF kind
  <2> QED
    BY <2>1, <2>2, <2>3, <2>4, <2>5 DEF Composites
<1>11. Keep(d, e) = Keep(h, g)
  <2>1. Keep(d, e) = {k \in IF kind = "adapted" THEN {0} ELSE Keys : c.at[k] # Missing}
    BY <1>7, <1>10 DEF Visible
  <2>2. Keep(h, g) \subseteq (IF kind = "adapted" THEN {0} ELSE Keys)
    BY <1>6 DEF Visible
  <2>3. (IF kind = "adapted" THEN {0} ELSE Keys) \subseteq Keys
    BY DEF Keys
  <2> QED
    BY <1>5, <2>1, <2>2, <2>3
<1> QED
  BY <1>2, <1>3, <1>4, <1>5, <1>7, <1>9, <1>10, <1>11 DEF e, c, kind

(* No object at or below a path was met, and only such are met now.         *)
Clear(s, p) == \A q \in Paths : p \o q \notin s
Within(r, s, p) == \A x \in r : x \in s \/ \E q \in Paths : x = p \o q
SameWalk(y, x, s, p) == y.code = "ok" /\ y.node = x.node /\ y.nodes = x.nodes /\ Within(y.seen, s, p)

(* The paths below two children differ, and are longer than their parent's. *)
LEMMA ApartPaths ==
  ASSUME NEW p \in Paths, NEW q \in Paths
  PROVE  /\ Append(p, 0) \o q # p /\ Append(p, 1) \o q # p
         /\ \A r \in Paths : Append(p, 0) \o q # Append(p, 1) \o r
<1>1. 0 \in Keys /\ 1 \in Keys
  BY DEF Keys
<1>2. ASSUME NEW k \in Keys, NEW r \in Paths
      PROVE  /\ Append(p, k) \o r \in Seq(Keys) /\ Len(Append(p, k) \o r) > Len(p)
             /\ (Append(p, k) \o r)[Len(p) + 1] = k
  <2>1. p \in Seq(Keys) /\ r \in Seq(Keys)
    BY DEF Paths
  <2>2. /\ Append(p, k) \in Seq(Keys) /\ Len(Append(p, k)) = Len(p) + 1
        /\ Append(p, k)[Len(p) + 1] = k
    BY <1>2, <2>1
  <2> QED
    BY <2>1, <2>2
<1> QED
  BY <1>1, <1>2

(* What is met below the first child is not met below the second.           *)
LEMMA ClearBelow ==
  ASSUME NEW p \in Paths, NEW s, Clear(s, p)
  PROVE  /\ p \notin s /\ Clear(s \cup {p}, Append(p, 0)) /\ Clear(s \cup {p}, Append(p, 1))
         /\ \A r : Within(r, s \cup {p}, Append(p, 0)) => Clear(r, Append(p, 1))
<1>1. ASSUME NEW k \in Keys, NEW q \in Paths
      PROVE  Append(p, k) \o q \notin s
  BY PathJoin DEF Clear
<1>2. 0 \in Keys /\ 1 \in Keys
  BY DEF Keys
<1>3. p \notin s
  BY ConcatEmptySeq, PathFacts DEF Clear, Paths
<1>4. Clear(s \cup {p}, Append(p, 0)) /\ Clear(s \cup {p}, Append(p, 1))
  BY <1>1, <1>2, ApartPaths DEF Clear
<1>5. ASSUME NEW r, Within(r, s \cup {p}, Append(p, 0)), NEW q \in Paths, Append(p, 1) \o q \in r
      PROVE  FALSE
  <2>1. Append(p, 1) \o q \notin s \cup {p}
    BY <1>4 DEF Clear
  <2>2. PICK u \in Paths : Append(p, 1) \o q = Append(p, 0) \o u
    BY <1>5, <2>1 DEF Within
  <2> QED
    BY <2>2, ApartPaths
<1>6. \A r : Within(r, s \cup {p}, Append(p, 0)) => Clear(r, Append(p, 1))
  BY <1>5 DEF Clear
<1> QED
  BY <1>3, <1>4, <1>6

(* What is met below a child is met below its parent.                       *)
LEMMA WithinTheNode ==
  ASSUME NEW p \in Paths, NEW s, NEW r, NEW u, NEW k \in Keys,
         Within(r, s, p), Within(u, r, Append(p, k))
  PROVE  Within(u, s, p)
<1> SUFFICES ASSUME NEW x \in u
             PROVE  x \in s \/ \E q \in Paths : x = p \o q
  BY DEF Within
<1>1. CASE x \in r
  BY <1>1 DEF Within
<1>2. CASE x \notin r
  <2>1. PICK q \in Paths : x = Append(p, k) \o q
    BY <1>2 DEF Within
  <2>2. <<k>> \o q \in Paths /\ x = p \o (<<k>> \o q)
    BY <2>1, PathJoin
  <2> QED
    BY <2>2
<1> QED
  BY <1>1, <1>2

(* The object of a node is walked as the object the node was made of, from  *)
(* any start at which nothing below was met.                                *)
LEMMA Retraced ==
  ASSUME NEW h, Heap(h), NEW d, NEW t, Copied(d, t),
         NEW g \in Starts(h), Encode(h)[g].code = "ok",
         NEW p \in Paths, Below(t, p) = Encode(h)[g].node,
         NEW s \in SUBSET DOMAIN d, Clear(s, p)
  PROVE  SameWalk(Encode(d)[Again(g, t, p, s)], Encode(h)[g], s, p)
<1> DEFINE f == Encode(h)
           e == Encode(d)
           Fine(y) == f[y].code = "ok" =>
                        \A q \in Paths, r \in SUBSET DOMAIN d :
                          Below(t, q) = f[y].node /\ Clear(r, q) =>
                            SameWalk(e[Again(y, t, q, r)], f[y], r, q)
           Able == {n \in Nat : \A y \in Starts(h) : y.depth + n > MaxDepth => Fine(y)}
<1>1. ASSUME NEW y \in Starts(h)
      PROVE  /\ y.value \in Values(DOMAIN h) /\ y.seen \in SUBSET DOMAIN h /\ y.nodes \in Nat
             /\ y.depth \in Nat /\ y.allow \in BOOLEAN /\ MaxDepth \in Nat
  BY ValuesAssumption DEF Starts
<1>2. 0 \in Able
  <2>1. \A y \in Starts(h) : y.depth + 0 > MaxDepth => ~(y.depth <= MaxDepth)
    BY <1>1
  <2> QED
    BY <2>1, WalkedIs
<1>3. ASSUME NEW n \in Able
      PROVE  n + 1 \in Able
  <2>1. SUFFICES ASSUME NEW y \in Starts(h), y.depth + (n + 1) > MaxDepth, f[y].code = "ok",
                        NEW q \in Paths, NEW r \in SUBSET DOMAIN d,
                        Below(t, q) = f[y].node, Clear(r, q)
                 PROVE  SameWalk(e[Again(y, t, q, r)], f[y], r, q)
    BY <1>3
  <2> DEFINE a == Again(y, t, q, r)
             node == Below(t, q)
  <2>2. y.depth <= MaxDepth /\ y.nodes + 1 <= MaxNodes
    BY <2>1, WalkedIs
  <2>3. node # Missing /\ Grown(node)
    <3>1. Sound(h, y.value, y.seen, f[y].seen, node, MaxDepth - y.depth)
      BY <2>1, EncodeSound
    <3> HIDE DEF node
    <3> QED
      BY <3>1, PathFacts, BelowHere DEF Sound, Tree
  <2>4. a \in Starts(d)
    BY <2>1, <2>3, AgainStarts
  <2>5. /\ a.value = Back(t, q) /\ a.depth = y.depth /\ a.allow = y.allow
        /\ a.seen = r /\ a.nodes = y.nodes
    BY DEF Again
  <2>6. Heap(d)
    BY DEF Copied
  <2>7. CASE y.value.kind # "ref"
    <3>1. f[y].node = y.value /\ f[y].nodes = y.nodes + 1 /\ ~(y.value = Secret /\ version = 2)
      <4>1. f[y] = Made(y) /\ ~(y.value = Secret /\ version = 2)
        BY <2>1, <2>7, WalkedIs
      <4> HIDE DEF f
      <4> QED
        BY <4>1 DEF Made
    <3>2. Leaf(y.value)
      BY <1>1, <2>7, LeafValues
    <3>3. a.value = y.value
      BY <2>1, <2>5, <3>1, <3>2, Leafs DEF Back
    <3> HIDE DEF a, f
    <3>4. /\ e[a].code = "ok" /\ e[a].seen = r /\ e[a].nodes = y.nodes + 1
          /\ e[a].node = y.value
      BY <2>2, <2>4, <2>5, <2>6, <2>7, <3>1, <3>3, LeafWalk
    <3>5. Within(r, r, q)
      BY DEF Within
    <3> QED
      BY <3>1, <3>4, <3>5 DEF SameWalk, a
  <2>8. CASE y.value.kind = "ref"
    <3> DEFINE ks == Keep(h, y)
               one == FirstOf(h, f, y)
               two == SecondOf(h, f, y)
    <3>1. Walked(h, y, f[y])
      BY <2>1, <2>8, WalkedIs
    <3>2. /\ Kind(h, y) \in Composites
          /\ Kind(h, y) = "adapted" => h[y.value.to].at[0] # Missing
          /\ Result(h, one) /\ one.code = "ok" /\ two.code = "ok"
          /\ one = IF 0 \in ks THEN f[Inward(h, y, Entered(y), 0)] ELSE Entered(y)
          /\ two = IF 1 \in ks THEN f[Inward(h, y, one, 1)] ELSE one
          /\ f[y].nodes = two.nodes /\ f[y].node = BranchOf(h, f, y)
      BY <3>1 DEF Walked
    <3>3. node = [kind |-> Kind(h, y), at |-> [k \in ks |-> IF k = 0 THEN one.node ELSE two.node]]
      BY <2>1, <3>2 DEF BranchOf
    <3>4. Composite(node)
      <4>1. node.kind = Kind(h, y)
        BY <3>3
      <4> HIDE DEF node
      <4> QED
        BY <2>3, <3>2, <4>1, KindsAre
    <3>5. node.kind = Kind(h, y) /\ DOMAIN node.at = ks
          /\ \A k \in ks : node.at[k] = IF k = 0 THEN one.node ELSE two.node
      BY <3>3
    <3>6. /\ a.value.kind = "ref" /\ a.value.to = q /\ q \in DOMAIN d
          /\ Kind(d, a) = Kind(h, y) /\ Keep(d, a) = ks
          /\ \A k \in Keys : d[q].at[k] = Back(t, Append(q, k))
          /\ \A k \in ks : d[q].at[k] # Missing
      BY <3>2, <3>4, <3>5, SameKinds
    <3>7. ks \subseteq Keys
      BY ShownIs
    <3>8. ASSUME NEW k \in ks
          PROVE  Append(q, k) \in Paths /\ Below(t, Append(q, k)) = IF k = 0 THEN one.node ELSE two.node
      BY <3>4, <3>5, <3>7, BelowNext, Branches, PathFacts
    (* A property is walked as it was, whatever was met before. *)
    <3>9. ASSUME NEW k \in ks, NEW x, Result(h, x), NEW z, z.seen \in SUBSET DOMAIN d,
                 z.nodes = x.nodes, Clear(z.seen, Append(q, k)),
                 f[Inward(h, y, x, k)].code = "ok",
                 f[Inward(h, y, x, k)].node = Below(t, Append(q, k))
          PROVE  /\ SameWalk(e[Inward(d, a, z, k)], f[Inward(h, y, x, k)], z.seen, Append(q, k))
                 /\ e[Inward(d, a, z, k)].seen \in SUBSET DOMAIN d
      <4> DEFINE c == Inward(h, y, x, k)
                 b == Again(c, t, Append(q, k), z.seen)
      <4>1. c \in Starts(h) /\ c.depth = y.depth + 1
        BY <2>8, <3>9, InwardStarts DEF Inward
      <4>2. Inward(d, a, z, k) = b
        BY <2>5, <3>6, <3>7, <3>9 DEF Inward, Again
      <4> HIDE DEF c
      <4>3. c.depth + n > MaxDepth
        BY <1>1, <1>3, <2>1, <4>1
      <4>4. Fine(c)
        BY <1>3, <4>1, <4>3
      <4>5. f[c].code = "ok" /\ f[c].node = Below(t, Append(q, k))
        BY <3>9 DEF c
      <4> HIDE DEF f, e
      <4>6. SameWalk(e[b], f[c], z.seen, Append(q, k))
        BY <3>8, <3>9, <4>4, <4>5
      <4>7. Below(t, Append(q, k)) # Missing
        BY <3>4, <3>5, <3>7, BelowNext, Branches
      <4>8. b \in Starts(d)
        BY <3>8, <3>9, <4>1, <4>7, AgainStarts
      <4>9. e[b].seen \in SUBSET DOMAIN d
        BY <2>6, <4>8, EncodeExists DEF Result, e
      <4> QED
        BY <4>2, <4>6, <4>9 DEF c
    <3> DEFINE first == FirstOf(d, e, a)
               second == SecondOf(d, e, a)
    <3>10. /\ Result(h, Entered(y)) /\ Entered(y).nodes = y.nodes + 1
           /\ Result(d, Entered(a)) /\ Entered(a).code = "ok"
           /\ Entered(a).seen = r \cup {q} /\ Entered(a).nodes = y.nodes + 1
      <4>1. /\ Result(d, Entered(a)) /\ Entered(a).code = "ok"
            /\ Entered(a).seen = a.seen \cup {a.value.to} /\ Entered(a).nodes = a.nodes + 1
        BY <2>4, <3>6, EnteredResult
      <4> QED
        BY <2>5, <2>8, <3>6, <4>1, EnteredResult
    <3>11. /\ q \notin r /\ Clear(r \cup {q}, Append(q, 0)) /\ Clear(r \cup {q}, Append(q, 1))
           /\ \A u : Within(u, r \cup {q}, Append(q, 0)) => Clear(u, Append(q, 1))
      BY <2>1, ClearBelow
    <3>12. Within(r \cup {q}, r, q)
      <4>1. q = q \o <<>> /\ <<>> \in Paths
        BY ConcatEmptySeq, PathFacts DEF Paths
      <4> QED
        BY <4>1 DEF Within
    <3>13. /\ first = IF 0 \in ks THEN e[Inward(d, a, Entered(a), 0)] ELSE Entered(a)
           /\ second = IF first.code # "ok" \/ 1 \notin ks THEN first ELSE e[Inward(d, a, first, 1)]
      BY <3>6, <3>10 DEF FirstOf, SecondOf, PropertyOf
    <3> HIDE DEF f, e, a, node, ks, one, two, first, second
    <3>14. 0 \in Keys /\ 1 \in Keys
      BY DEF Keys
    <3>15. /\ first.code = "ok" /\ first.nodes = one.nodes /\ first.seen \in SUBSET DOMAIN d
           /\ Within(first.seen, r, q) /\ Clear(first.seen, Append(q, 1))
           /\ 0 \in ks => first.node = one.node
      <4>1. CASE 0 \notin ks
        BY <3>2, <3>10, <3>11, <3>12, <3>13, <4>1 DEF Result
      <4>2. CASE 0 \in ks
        <5> DEFINE z == Entered(a)
        <5>1. z.seen \in SUBSET DOMAIN d /\ z.nodes = Entered(y).nodes /\ Clear(z.seen, Append(q, 0))
          BY <3>10, <3>11 DEF Result
        <5>2. /\ f[Inward(h, y, Entered(y), 0)].code = "ok"
              /\ f[Inward(h, y, Entered(y), 0)].node = Below(t, Append(q, 0))
          BY <3>2, <3>8, <4>2
        <5>3. z.seen = r \cup {q} /\ Result(h, Entered(y))
          BY <3>10
        <5> HIDE DEF z
        <5>4. /\ SameWalk(e[Inward(d, a, z, 0)], f[Inward(h, y, Entered(y), 0)], z.seen, Append(q, 0))
              /\ e[Inward(d, a, z, 0)].seen \in SUBSET DOMAIN d
          BY <3>9, <4>2, <5>1, <5>2, <5>3
        <5>5. first = e[Inward(d, a, z, 0)] /\ one = f[Inward(h, y, Entered(y), 0)]
          BY <3>2, <3>13, <4>2 DEF z
        <5>6. SameWalk(first, one, r \cup {q}, Append(q, 0)) /\ first.seen \in SUBSET DOMAIN d
          BY <5>3, <5>4, <5>5
        <5>7. /\ first.code = "ok" /\ first.nodes = one.nodes /\ first.node = one.node
              /\ Within(first.seen, r \cup {q}, Append(q, 0))
          BY <5>6 DEF SameWalk
        <5>8. Within(first.seen, r, q)
          BY <3>12, <3>14, <5>7, WithinTheNode
        <5> QED
          BY <3>11, <5>6, <5>7, <5>8
      <4> QED
        BY <4>1, <4>2
    <3>16. /\ second.code = "ok" /\ second.nodes = two.nodes /\ Within(second.seen, r, q)
           /\ 1 \in ks => second.node = two.node
      <4>1. CASE 1 \notin ks
        BY <3>2, <3>13, <3>15, <4>1
      <4>2. CASE 1 \in ks
        <5>1. /\ f[Inward(h, y, one, 1)].code = "ok"
              /\ f[Inward(h, y, one, 1)].node = Below(t, Append(q, 1))
          BY <3>2, <3>8, <4>2
        <5>2. SameWalk(e[Inward(d, a, first, 1)], f[Inward(h, y, one, 1)], first.seen, Append(q, 1))
          BY <3>2, <3>9, <3>15, <4>2, <5>1
        <5>3. second = e[Inward(d, a, first, 1)] /\ two = f[Inward(h, y, one, 1)]
          BY <3>2, <3>13, <3>15, <4>2
        <5>4. SameWalk(second, two, first.seen, Append(q, 1))
          BY <5>2, <5>3
        <5>5. /\ second.code = "ok" /\ second.nodes = two.nodes /\ second.node = two.node
              /\ Within(second.seen, first.seen, Append(q, 1))
          BY <5>4 DEF SameWalk
        <5>6. Within(second.seen, r, q)
          BY <3>14, <3>15, <5>5, WithinTheNode
        <5> QED
          BY <5>5, <5>6
      <4> QED
        BY <4>1, <4>2
    <3>17. /\ e[a].code = "ok" /\ e[a].seen = second.seen /\ e[a].nodes = second.nodes
           /\ e[a].node = BranchOf(d, e, a)
      <4>1. a.depth <= MaxDepth /\ a.nodes + 1 <= MaxNodes
        BY <2>2, <2>5
      <4>2. a.value.kind = "ref" /\ a.value.to \notin a.seen /\ Kind(d, a) \in Composites
        BY <2>5, <3>2, <3>6, <3>11
      <4>3. Kind(d, a) = "adapted" => d[a.value.to].at[0] # Missing
        <5>1. Kind(h, y) = "adapted" => 0 \in ks
          BY <3>2 DEF Keep, Visible, ks
        <5> QED
          BY <3>6, <5>1
      <4>4. SecondOf(d, Encode(d), a).code = "ok"
        BY <3>16 DEF second, e
      <4> QED
        BY <2>4, <2>6, <4>1, <4>2, <4>3, <4>4, BranchWalk DEF second, e
    <3>18. BranchOf(d, e, a) = node
      <4>1. BranchOf(d, e, a) = [kind |-> Kind(h, y),
                                 at |-> [k \in ks |-> IF k = 0 THEN first.node ELSE second.node]]
        BY <3>6 DEF BranchOf, first, second
      <4>2. \A k \in ks : k = 0 \/ k = 1
        BY <3>7 DEF Keys
      <4>3. [k \in ks |-> IF k = 0 THEN first.node ELSE second.node]
              = [k \in ks |-> IF k = 0 THEN one.node ELSE two.node]
        BY <3>15, <3>16, <4>2
      <4> QED
        BY <3>3, <4>1, <4>3
    <3>19. SameWalk(e[a], f[y], r, q)
      <4>1. node = f[y].node
        BY <2>1 DEF node
      <4> QED
        BY <3>2, <3>16, <3>17, <3>18, <4>1 DEF SameWalk
    <3> QED
      BY <3>19 DEF a
  <2> QED
    BY <2>7, <2>8
<1> HIDE DEF Able
<1>4. Able \in SUBSET Nat
  BY DEF Able
<1>5. Able = Nat
  BY <1>2, <1>3, <1>4, NaturalInduction
<1>6. MaxDepth + 1 \in Able /\ g.depth + (MaxDepth + 1) > MaxDepth
  BY <1>1, <1>5
<1> QED
  BY <1>6 DEF Able

(* RoundTrips, from what classifying has found.                             *)
LEMMA AcceptedRoundTrips ==
  ASSUME progress = "accepted" => Observed /\ Accepted
  PROVE  RoundTrips
<1> SUFFICES ASSUME progress = "accepted"
             PROVE  EncodeRoot(Decode(recorded.arguments), Ref(<<>>)).code = "ok"
                    /\ EncodeRoot(Decode(recorded.arguments), Ref(<<>>)).node = recorded.arguments
  BY DEF RoundTrips
<1> DEFINE g == [value |-> Ref(0), depth |-> 0, allow |-> TRUE, seen |-> {}, nodes |-> 0]
           t == recorded.arguments
           d == Decode(t)
<1>1. Told(heap, Ref(0), t) /\ Says(heap, Ref(0), t)
  BY AcceptedMeans
<1>2. Heap(heap) /\ Ref(0) \in Values(DOMAIN heap)
  BY DEF Observed, Values
<1>3. g \in Starts(heap)
  BY <1>2 DEF Starts
<1>4. Encode(heap)[g].code = "ok" /\ Encode(heap)[g].node = t
  <2>1. Encode(heap)[g] = EncodeRoot(heap, Ref(0))
    BY DEF EncodeRoot
  <2> HIDE DEF g
  <2> QED
    BY <2>1 DEF Accepted, Safe
<1> HIDE DEF t, d
<1>5. Tree(t, MaxDepth)
  BY <1>1 DEF Told
<1>6. Copies(d, t)
  BY <1>5, DecodeCopies DEF d
<1>7. \A p \in Paths : Inner(Below(t, p)) \/ Below(t, p) \in Values({}) \cup {Missing}
  BY <1>1, <1>2, SaidLeaves
<1>8. Copied(d, t)
  BY <1>5, <1>6, <1>7, CopyIsHeap DEF Copied
<1>9. Below(t, <<>>) = t /\ <<>> \in Paths /\ Back(t, <<>>) = Ref(<<>>)
  <2>1. Agrees(Ref(0), t)
    BY <1>1, PathFacts, FollowHere, BelowHere DEF Says
  <2>2. Inner(t)
    BY <2>1 DEF Agrees, Ref
  <2> QED
    BY <2>2, PathFacts, BelowHere DEF Back
<1>10. {} \in SUBSET DOMAIN d /\ Clear({}, <<>>)
  BY DEF Clear
<1>11. Again(g, t, <<>>, {}) = [value |-> Ref(<<>>), depth |-> 0, allow |-> TRUE, seen |-> {}, nodes |-> 0]
  BY <1>9 DEF Again
<1> HIDE DEF g
<1>12. SameWalk(Encode(d)[Again(g, t, <<>>, {})], Encode(heap)[g], {}, <<>>)
  BY <1>2, <1>3, <1>4, <1>8, <1>9, <1>10, Retraced
<1>13. SameWalk(EncodeRoot(d, Ref(<<>>)), Encode(heap)[g], {}, <<>>)
  BY <1>11, <1>12 DEF EncodeRoot
<1> QED
  BY <1>4, <1>13 DEF SameWalk, d, t

-----------------------------------------------------------------------------
(* Values: the inductive invariant *)

Shapes == [proto : {"array", "record", "class", "error", "odd"}, at : [Keys -> Slots]]
Reviewable == /\ Tree(recorded.completion.node, MaxDepth) /\ recorded.completion.node # Missing
              /\ version = 1 => WithoutErrors(recorded.completion.node)
Loosened == \A p \in tolerated : ~Opaque(recorded.completion.node, p)

ValuesIInv ==
  /\ version \in {1, 2}
  /\ progress \in {"entered", "running", "completed", "accepted"} =>
       heap \in [Objects \cup {0} -> Shapes]
  /\ progress \in {"completed", "accepted"} => completion.value \in Values(Objects)
  /\ progress = "accepted" => Accepted
  /\ progress \in {"case", "replayed"} => Reviewable /\ Loosened
  /\ VerdictIsTrue

(* The objects of the call are a heap.                                      *)
LEMMA ShapedIsHeap ==
  ASSUME heap \in [Objects \cup {0} -> Shapes]
  PROVE  Heap(heap) /\ DOMAIN heap = Objects \cup {0}
<1>1. Slots \subseteq Values(Objects \cup {0}) \cup {Missing}
  BY DEF Slots, Values
<1>2. \A o \in Objects \cup {0} : \A k \in Keys : heap[o].at[k] \in Slots
  BY DEF Shapes
<1> QED
  BY <1>1, <1>2 DEF Heap

(* What encoding depends on: the heap and the version.                      *)
KindIn(ver, o, allow) ==
  IF o.proto = "class" /\ allow THEN "adapted"
  ELSE IF \/ o.proto = "array" /\ Dense(o)
          \/ o.proto = "record"
          \/ o.proto = "error" /\ ver = 2
       THEN o.proto ELSE "unsupported"
EncodeIn(ver, h) ==
  LET encode[g \in Starts(h)] ==
        LET v == g.value
            plain == [seen |-> g.seen, nodes |-> g.nodes + 1, node |-> v, code |-> "ok"]
            o == h[v.to]
            kind == KindIn(ver, o, g.allow)
            Property(s, k) ==
              IF s.code # "ok" \/ k \notin Visible(o, kind) THEN s
              ELSE encode[[value |-> o.at[k], depth |-> g.depth + 1,
                           allow |-> g.allow /\ kind # "adapted",
                           seen |-> s.seen, nodes |-> s.nodes]]
            first == Property([plain EXCEPT !.seen = @ \cup {v.to}], 0)
            second == Property(first, 1)
        IN IF g.depth > MaxDepth \/ plain.nodes > MaxNodes THEN Refused("limit")
           ELSE IF v.kind # "ref"
                THEN IF v = Secret /\ ver = 2 THEN Refused("secret") ELSE plain
           ELSE IF Met(h, g.seen, v.to) \/ kind = "unsupported" THEN Refused("unsupported")
           ELSE IF kind = "adapted" /\ o.at[0] = Missing THEN Refused("serialize")
           ELSE IF second.code # "ok"
                THEN Refused(IF kind = "adapted" /\ second.code = "unsupported"
                             THEN "payload" ELSE second.code)
           ELSE [plain EXCEPT !.seen = second.seen, !.nodes = second.nodes, !.node =
                   [kind |-> kind,
                    at |-> [k \in Visible(o, kind) |-> IF k = 0 THEN first.node ELSE second.node]]]
  IN encode

(* Encoding depends on these two.                                           *)
LEMMA EncodesIn == Encode(heap) = EncodeIn(version, heap)
BY SMTT(40) DEF Encode, EncodeIn, KindOf, KindIn

(* So it does in the next state.                                            *)
LEMMA EncodesInNext == (Encode(heap))' = EncodeIn(version', heap')
BY SMTT(40) DEF Encode, EncodeIn, KindOf, KindIn

(* Steps that leave them alone encode the same.                             *)
LEMMA SameEncodings ==
  ASSUME version' = version, heap' = heap, completion' = completion
  PROVE  /\ (EncodeRoot(heap, Ref(0)))' = EncodeRoot(heap, Ref(0))
         /\ (EncodeCompletion(heap, completion, EncodeRoot(heap, Ref(0))))'
              = EncodeCompletion(heap, completion, EncodeRoot(heap, Ref(0)))
<1>1. (Encode(heap))' = Encode(heap)
  BY EncodesIn, EncodesInNext
<1> QED
  BY <1>1 DEF EncodeRoot, EncodeCompletion, IsStandardError

(* The verdict of a replay, whichever generation decides it and whatever    *)
(* tree it answers with.                                                    *)
LEMMA ReplayDecides ==
  ASSUME version \in {1, 2}, NEW l, Tree(l, MaxDepth), l # Missing, Tolerable(l),
         version = 1 => WithoutErrors(l), NEW r, NEW i \in Nat, Tree(r, i), NEW same \in BOOLEAN
  PROVE  LET whole == ~same \/ r = Missing
             matches == ~whole /\ Match(l, r)[<<>>]
             path == IF whole THEN <<>>
                     ELSE IF version = 2 THEN First(l, r)[<<>>]
                     ELSE IF matches THEN None ELSE Difference(l, r)[<<>>]
             match == IF version = 1 THEN matches ELSE path = None
             paths == PathsOf(l) \cup PathsOf(r)
         IN /\ match = (same /\ \A p \in paths : LeafAlike(l, r, p))
            /\ match = (path = None)
            /\ ~match /\ same /\ r # Missing =>
                 path \in paths /\ \E p \in paths : IsPrefix(path, p) /\ ~LeafAlike(l, r, p)
<1> DEFINE paths == PathsOf(l) \cup PathsOf(r)
           alike == \A p \in paths : LeafAlike(l, r, p)
           told(d) == d \in paths /\ \E p \in paths : IsPrefix(d, p) /\ ~LeafAlike(l, r, p)
<1>1. MaxDepth \in Nat /\ <<>> \in Paths /\ Len(<<>>) <= MaxDepth + 1
  BY ValuesAssumption, PathFacts
<1>2. None \notin Paths /\ None # <<>>
  BY DEF None, Paths, Keys
<1>3. CASE ~same
  BY <1>2, <1>3
<1>4. CASE same /\ r = Missing
  <2>1. ~LeafAlike(l, r, <<>>)
    <3>1. Below(l, <<>>) = l /\ Below(r, <<>>) = Missing
      BY <1>4, BelowHere
    <3>2. Grown(l)
      BY <1>1, <3>1 DEF Tree
    <3>3. l.kind # "missing"
      BY <3>2, KindsAre
    <3> QED
      BY <3>1, <3>3 DEF LeafAlike, Missing
  <2>2. <<>> \in PathsOf(l)
    BY <1>1, BelowHere, PathsOfAre
  <2>3. ~alike
    BY <2>1, <2>2
  <2> HIDE DEF alike, told, paths
  <2> QED
    BY <1>2, <1>4, <2>3 DEF alike, paths
<1>5. CASE same /\ r # Missing
  <2>1. Compared(l, r, MaxDepth)
    BY <1>1 DEF Compared, Pair
  <2>2. alike <=> AllAlike(l, r, <<>>)
    BY <2>1, PathsTell
  <2>3. \A d : Tells(l, r, MaxDepth, d) => told(d)
    BY <2>1, PathsTell
  <2>4. \A d : Tells(l, r, MaxDepth, d) => d # None
    BY <1>2 DEF Tells
  <2> HIDE DEF alike, told, paths
  <2>5. CASE version = 1
    <3>1. Match(l, r)[<<>>] <=> alike
      BY <1>1, <2>1, <2>2, <2>5, MatchMeans
    <3>2. ~alike => Tells(l, r, MaxDepth, Difference(l, r)[<<>>])
      BY <1>1, <2>1, <2>2, <2>5, DifferenceMeans
    <3>3. ~alike => told(Difference(l, r)[<<>>]) /\ Difference(l, r)[<<>>] # None
      BY <2>3, <2>4, <3>2
    <3> QED
      BY <1>5, <2>5, <3>1, <3>3 DEF alike, told, paths
  <2>6. CASE version = 2
    <3>1. IF alike THEN First(l, r)[<<>>] = None ELSE Tells(l, r, MaxDepth, First(l, r)[<<>>])
      BY <1>1, <2>1, <2>2, FirstMeans
    <3>2. IF alike THEN First(l, r)[<<>>] = None
          ELSE told(First(l, r)[<<>>]) /\ First(l, r)[<<>>] # None
      BY <2>3, <2>4, <3>1
    <3> QED
      BY <1>5, <2>6, <3>2 DEF alike, told, paths
  <2> QED
    BY <2>5, <2>6
<1> QED
  BY <1>3, <1>4, <1>5

(* The inductive invariant holds of every heap a call can begin with.       *)
LEMMA ValuesInitially == ValuesInit => ValuesIInv
<1> SUFFICES ASSUME ValuesInit
             PROVE  ValuesIInv
  OBVIOUS
<1>1. version \in {1, 2} /\ progress = "entered"
  BY DEF ValuesInit
<1>2. heap \in [Objects \cup {0} -> Shapes]
  <2>1. PICK args \in Arguments, h \in [Objects -> Object] :
          heap = [o \in Objects \cup {0} |-> IF o = 0 THEN args ELSE h[o]]
    BY DEF ValuesInit
  <2>2. args \in Shapes
    BY DEF Arguments, Shapes
  <2>3. Object \subseteq Shapes
    BY DEF Object, Shapes, Slots
  <2> QED
    BY <2>1, <2>2, <2>3
<1> QED
  BY <1>1, <1>2 DEF ValuesIInv, VerdictIsTrue

(* Each action preserves the inductive invariant.                           *)
LEMMA ValuesInductive == ValuesIInv /\ [ValuesNext]_valuesVars => ValuesIInv'
<1> SUFFICES ASSUME ValuesIInv, [ValuesNext]_valuesVars
             PROVE  ValuesIInv'
  OBVIOUS
<1>1. CASE Snapshot
  BY <1>1 DEF ValuesIInv, Snapshot, VerdictIsTrue
<1>2. CASE Run
  <2>1. heap \in [Objects \cup {0} -> Shapes]
    BY <1>2 DEF ValuesIInv, Run
  <2>2. heap' \in [Objects \cup {0} -> Shapes]
    <3>1. CASE heap' = heap
      BY <2>1, <3>1
    <3>2. ASSUME NEW o \in Objects, NEW k \in Keys, NEW v \in Slots,
                 heap' = [heap EXCEPT ![o].at[k] = v]
          PROVE  heap' \in [Objects \cup {0} -> Shapes]
      BY <2>1, <3>2 DEF Shapes
    <3> QED
      BY <1>2, <3>1, <3>2 DEF Run
  <2>3. completion'.value \in Values(Objects)
    BY <1>2 DEF Run
  <2> QED
    BY <1>2, <2>2, <2>3 DEF ValuesIInv, Run, VerdictIsTrue
<1>3. CASE Classify
  <2> DEFINE args == EncodeRoot(heap, Ref(0))
             end == EncodeCompletion(heap, completion, args)
  <2>1. /\ progress = "completed" /\ version' = version /\ heap' = heap /\ completion' = completion
        /\ progress' = "accepted" \/ progress' = "blocked"
    BY <1>3 DEF Classify
  <2>2. ASSUME progress' = "accepted"
        PROVE  Accepted'
    <3>1. /\ Safe(args) /\ Safe(end) /\ args.node = entry
          /\ recorded' = [arguments |-> entry,
                          completion |-> [kind |-> completion.kind, node |-> end.node]]
      BY <1>3, <2>2 DEF Classify, Unmutated
    <3>2. args' = args /\ end' = end
      BY <2>1, SameEncodings
    <3> HIDE DEF args, end
    <3>3. Safe(args)' /\ Safe(end)'
      BY <3>1, <3>2 DEF Safe
    <3>4. recorded' = [arguments |-> args'.node,
                       completion |-> [kind |-> completion'.kind, node |-> end'.node]]
      BY <2>1, <3>1, <3>2
    <3> QED
      BY <3>3, <3>4 DEF Accepted, args, end
  <2> QED
    BY <2>1, <2>2 DEF ValuesIInv, VerdictIsTrue
<1>4. CASE MakeCase
  <2>1. progress = "accepted" /\ Accepted /\ Observed
    BY <1>4, ShapedIsHeap DEF ValuesIInv, Observed, MakeCase
  <2>2. Reviewable
    BY <2>1, AcceptedMeans DEF Reviewable, Told
  <2>3. recorded'.completion = recorded.completion
    <3>1. PICK a, c : recorded = [arguments |-> a, completion |-> c]
      BY <2>1 DEF Accepted
    <3> QED
      BY <1>4, <3>1 DEF MakeCase
  <2>4. Reviewable'
    BY <1>4, <2>2, <2>3 DEF Reviewable, MakeCase, WithoutErrors
  <2>5. Loosened'
    BY <1>4, <2>3 DEF Loosened, MakeCase, NumberLeafPaths
  <2> QED
    BY <1>4, <2>4, <2>5 DEF ValuesIInv, MakeCase, VerdictIsTrue
<1>5. CASE Replay
  <2> DEFINE l == recorded.completion.node
             r == actual'.node
             same == actual'.kind = recorded.completion.kind
             whole == ~same \/ r = Missing
             matches == ~whole /\ Match(l, r)[<<>>]
             path == IF whole THEN <<>>
                     ELSE IF version = 2 THEN First(l, r)[<<>>]
                     ELSE IF matches THEN None ELSE Difference(l, r)[<<>>]
             match == IF version = 1 THEN matches ELSE path = None
             paths == PathsOf(l) \cup PathsOf(r)
  <2>1. /\ progress = "case" /\ progress' = "replayed" /\ Reviewable /\ Loosened
        /\ version' = version /\ recorded' = recorded /\ tolerated' = tolerated
        /\ version \in {1, 2}
    BY <1>5 DEF ValuesIInv, Replay
  <2>2. PICK i \in Nat : Tree(r, i)
    <3>1. r \in Trees \cup {Missing}
      BY <1>5 DEF Replay
    <3> HIDE DEF r
    <3>2. 0 \in Nat /\ Tree(Missing, 0)
      BY NoTree
    <3> QED
      BY <3>1, <3>2, TreesAreTrees
  <2>3. verdict' = [match |-> match, path |-> path]
    BY <1>5 DEF Replay
  <2>4. Tree(l, MaxDepth) /\ l # Missing /\ Tolerable(l) /\ (version = 1 => WithoutErrors(l))
    BY <2>1 DEF Reviewable, Loosened, Tolerable
  <2>5. same \in BOOLEAN
    OBVIOUS
  <2> HIDE DEF l, r, same
  <2>6. /\ match = (same /\ \A p \in paths : LeafAlike(l, r, p))
        /\ match = (path = None)
        /\ ~match /\ same /\ r # Missing =>
             path \in paths /\ \E p \in paths : IsPrefix(path, p) /\ ~LeafAlike(l, r, p)
    BY <2>1, <2>2, <2>4, <2>5, ReplayDecides
  <2> HIDE DEF match, path
  <2>7. verdict'.match = match /\ verdict'.path = path
    BY <2>3
  <2>8. VerdictIsTrue'
    BY <2>1, <2>6, <2>7 DEF VerdictIsTrue, LeafAlike, l, r, same
  <2>9. Reviewable' /\ Loosened'
    BY <2>1 DEF Reviewable, Loosened, WithoutErrors
  <2> QED
    BY <2>1, <2>8, <2>9 DEF ValuesIInv
<1>6. CASE UNCHANGED valuesVars
  <2>1. /\ version' = version /\ progress' = progress /\ heap' = heap /\ completion' = completion
        /\ recorded' = recorded /\ tolerated' = tolerated /\ actual' = actual /\ verdict' = verdict
    BY <1>6 DEF valuesVars
  <2>2. Accepted => Accepted'
    BY <2>1, SameEncodings DEF Accepted, Safe
  <2>3. Reviewable => Reviewable'
    BY <2>1 DEF Reviewable, WithoutErrors
  <2>4. Loosened => Loosened'
    BY <2>1 DEF Loosened
  <2>5. VerdictIsTrue => VerdictIsTrue'
    BY <2>1 DEF VerdictIsTrue, LeafAlike
  <2> QED
    BY <2>1, <2>2, <2>3, <2>4, <2>5 DEF ValuesIInv
<1> QED
  BY <1>1, <1>2, <1>3, <1>4, <1>5, <1>6 DEF ValuesNext

(* The inductive invariant of Values: an accepted observation is still the  *)
(* encoding of its objects, what it is replayed against is a tree within    *)
(* the limits, nothing of a payload is tolerated, and the verdict is true   *)
(* (classifyObservation, valuesMatch, dev-diff.ts).                         *)
THEOREM ValuesHold == ValuesSpec => []ValuesIInv
BY ValuesInitially, ValuesInductive, PTL DEF ValuesSpec

(* A replay matches exactly when both completions have the same shape and   *)
(* each leaf is equal or tolerated within epsilon; a mismatch tells the     *)
(* path of a difference. So it is for either generation, any limits,        *)
(* numbers and tolerances (valuesMatch and valueDifference of project-      *)
(* execution.ts, dev-diff.ts).                                              *)
THEOREM VerdictsAreTrue == ValuesSpec => []VerdictIsTrue
<1>1. ValuesIInv => VerdictIsTrue
  BY DEF ValuesIInv
<1> QED
  BY <1>1, ValuesHold, PTL

(* An accepted observation is what its classification found.                *)
LEMMA ValuesAccepted == ValuesIInv => (progress = "accepted" => Observed /\ Accepted)
BY ShapedIsHeap DEF ValuesIInv, Observed

(* An accepted observation says all that its objects say: it met no object  *)
(* twice, holds no secret, leaves nothing out for its depth, and its        *)
(* arguments read after the call as they are recorded, whatever the heap    *)
(* (canonical.ts, observation-safety.ts, dev-values.ts).                    *)
THEOREM AcceptedSayAll == ValuesSpec => []AcceptedIsWhole
<1>1. ValuesIInv => AcceptedIsWhole
  BY ValuesAccepted, AcceptedSaysAll
<1> QED
  BY <1>1, ValuesHold, PTL

(* The arguments of an accepted observation decode to live objects that     *)
(* encode to the same tree within the same limits, for any limits and any   *)
(* heap (decode and encode of canonical.ts and dev-values.ts).              *)
THEOREM CasesRoundTrip == ValuesSpec => []RoundTrips
<1>1. ValuesIInv => RoundTrips
  BY ValuesAccepted, AcceptedRoundTrips
<1> QED
  BY <1>1, ValuesHold, PTL
=============================================================================
