------------------------- MODULE CandidateStoreProofs -------------------------
(***************************************************************************)
(* What CandidateStore promises, for any cases, completions, policies,     *)
(* limits and faults: what a review protects, as long as one process       *)
(* reviews at a time; that persistence converges, whatever sessions and    *)
(* reviews there are; and that nothing sealed is dropped for a limit, as   *)
(* long as there is one session.                                           *)
(***************************************************************************)
EXTENDS CandidateStore, FiniteSetTheorems, SequenceTheorems, WellFoundedInduction, TLAPS

-----------------------------------------------------------------------------
(* The review: while the reviewer decides, the case that would be replaced  *)
(* is the one that was shown, or the developer has retired it.              *)

IsReview(v) ==
  v = [phase |-> v.phase, left |-> v.left, candidate |-> v.candidate, existing |-> v.existing]

Deciding(r) == review[r].phase \in {"asked", "confirmed"}

ShownStands(r) ==
  Deciding(r) /\ Shown(r).case \in Case =>
    accepted[Shown(r).case] \in {None, review[r].existing}

Shaped ==
  /\ accepted = [c \in Case |-> accepted[c]]
  /\ review = [r \in Reviewers |-> review[r]]
  /\ \A r \in Reviewers : IsReview(review[r])

IInv == Shaped /\ \A r \in Reviewers : ShownStands(r)

-----------------------------------------------------------------------------
LEMMA InitOK == Init => IInv
BY DEF Init, IInv, Shaped, IsReview, Idle, ShownStands, Deciding

(* A step that leaves a reviewer's state and the accepted cases alone.      *)
LEMMA StandsKept ==
  ASSUME IInv, NEW r \in Reviewers, accepted' = accepted, review'[r] = review[r]
  PROVE  ShownStands(r)'
BY DEF IInv, ShownStands, Deciding, Shown

(* A reviewer that decides on nothing. *)
LEMMA UndecidedStands ==
  ASSUME NEW r \in Reviewers, review'[r].phase \notin {"asked", "confirmed"}
  PROVE  ShownStands(r)'
BY DEF ShownStands, Deciding

(* Proceeding to the next candidate, or ending, decides on nothing.         *)
LEMMA MovesOn ==
  ASSUME IInv, NEW r \in Reviewers, Proceeds(r) \/ Ends(r), accepted' = accepted
  PROVE  IInv'
<1>1. /\ review' = [review EXCEPT ![r] = review'[r]]
      /\ IsReview(review'[r]) /\ review'[r].phase \in {"idle", "next"}
  <2>1. PICK v : /\ review' = [review EXCEPT ![r] = v]
                 /\ \/ v = Idle
                    \/ v = [Idle EXCEPT !.phase = "next", !.left = Tail(review[r].left)]
    BY DEF Proceeds, Ends
  <2>2. IsReview(v) /\ v.phase \in {"idle", "next"}
    <3>1. CASE v = Idle
      BY <3>1 DEF Idle, IsReview
    <3>2. ASSUME NEW left, v = [Idle EXCEPT !.phase = "next", !.left = left]
          PROVE  IsReview(v) /\ v.phase = "next"
      BY <3>2 DEF Idle, IsReview
    <3> QED
      BY <2>1, <3>1, <3>2
  <2>3. review'[r] = v
    BY <2>1 DEF IInv, Shaped
  <2> QED
    BY <2>1, <2>2, <2>3
<1>2. Shaped'
  BY <1>1 DEF IInv, Shaped
<1>3. \A q \in Reviewers : q # r => review'[q] = review[q]
  BY <1>1 DEF IInv, Shaped
<1> QED
  BY <1>1, <1>2, <1>3, StandsKept, UndecidedStands DEF IInv

(* A step of a session, or one that touches no decision. *)
LEMMA Apart ==
  ASSUME IInv, UNCHANGED <<accepted, review>>
  PROVE  IInv'
BY DEF IInv, Shaped, ShownStands, Deciding, Shown

LEMMA ReviewStep ==
  ASSUME IInv, NEW r \in Reviewers, \A q \in Reviewers : q = r,
         \/ Begin(r) \/ Show(r) \/ Skip(r) \/ Quit(r) \/ Reject(r)
         \/ Confirm(r) \/ Accept(r) \/ Conclude(r)
  PROVE  IInv'
<1>1. CASE Begin(r)
  <2>1. accepted' = accepted
    BY <1>1 DEF Begin
  <2>2. PICK left : review' = [review EXCEPT ![r] = [Idle EXCEPT !.phase = "next", !.left = left]]
    BY <1>1 DEF Begin
  <2>3. Shaped' /\ review'[r].phase = "next"
    BY <2>1, <2>2 DEF IInv, Shaped, IsReview, Idle
  <2> QED
    BY <2>3, UndecidedStands DEF IInv
<1>2. CASE Show(r)
  <2>1. accepted' = accepted
    BY <1>2 DEF Show
  <2>2. CASE Ends(r)
    BY <2>1, <2>2, MovesOn
  <2>3. CASE review' = [review EXCEPT ![r] =
               [phase |-> "asked", left |-> @.left, candidate |-> Shown(r).candidate,
                existing |-> accepted[Shown(r).case]]]
    <3> DEFINE v == [phase |-> "asked", left |-> review[r].left,
                     candidate |-> Shown(r).candidate, existing |-> accepted[Shown(r).case]]
    <3>1. review' = [review EXCEPT ![r] = v]
      BY <2>3
    <3>2. Shaped' /\ review'[r] = v
      BY <2>1, <3>1 DEF IInv, Shaped, IsReview
    <3>3. Shown(r)' = Shown(r) /\ review'[r].existing = accepted[Shown(r).case]
      BY <3>2 DEF Shown
    <3> QED
      BY <2>1, <3>2, <3>3 DEF IInv, ShownStands
  <2> QED
    BY <1>2, <2>2, <2>3 DEF Show
<1>3. CASE Skip(r) \/ Quit(r)
  BY <1>3, MovesOn DEF Skip, Quit
<1>4. CASE Reject(r) \/ Conclude(r)
  BY <1>4, MovesOn DEF Reject, Conclude, Dismiss
<1>5. CASE Confirm(r)
  <2>1. Shaped' /\ Shown(r)' = Shown(r) /\ review'[r].existing = review[r].existing
        /\ accepted' = accepted /\ Deciding(r)
    BY <1>5 DEF Confirm, IInv, Shaped, IsReview, Shown, Deciding
  <2> QED
    BY <2>1 DEF IInv, ShownStands
<1>6. CASE Accept(r)
  <2>1. Shaped' /\ review'[r].phase = "accepted"
    BY <1>6 DEF Accept, IInv, Shaped, IsReview
  <2> QED
    BY <2>1, UndecidedStands DEF IInv
<1> QED
  BY <1>1, <1>2, <1>3, <1>4, <1>5, <1>6

LEMMA RetireStep ==
  ASSUME IInv, NEW c \in Case, Retire(c)
  PROVE  IInv'
<1>1. review' = review /\ accepted' = [accepted EXCEPT ![c] = None]
  BY DEF Retire
<1>2. Shaped'
  BY <1>1 DEF IInv, Shaped
<1>3. \A d \in Case : accepted'[d] \in {None, accepted[d]}
  BY <1>1 DEF IInv, Shaped
<1> QED
  BY <1>1, <1>2, <1>3 DEF IInv, ShownStands, Deciding, Shown

LEMMA NextStep ==
  ASSUME IInv, [Next]_vars, \A q, r \in Reviewers : q = r
  PROVE  IInv'
<1>1. CASE UNCHANGED vars
  BY <1>1, Apart DEF vars
<1>2. ASSUME NEW s \in Sessions,
             \/ \E o \in Observation : Seal(s, o)
             \/ \E c \in Case : SealFails(s, c)
             \/ Stop(s) \/ Recover(s)
             \/ Unlink(s) \/ Write(s) \/ WriteFails(s) \/ Finish(s) \/ Die(s)
      PROVE  IInv'
  <2>1. UNCHANGED <<accepted, review>>
    BY <1>2 DEF Seal, SealFails, Admit, Stop, Recover, Persist, Unlink, Write,
       WriteFails, Finish, Die
  <2> QED
    BY <2>1, Apart
<1>3. ASSUME NEW r \in Reviewers,
             \/ Begin(r) \/ Show(r) \/ Skip(r) \/ Quit(r) \/ Reject(r)
             \/ Confirm(r) \/ Accept(r) \/ Conclude(r)
      PROVE  IInv'
  BY <1>3, ReviewStep
<1>4. ASSUME NEW c \in Case, Retire(c)
      PROVE  IInv'
  BY <1>4, RetireStep
<1> QED
  BY <1>1, <1>2, <1>3, <1>4 DEF Next

(* With one review at a time, an accepted expectation is only ever replaced *)
(* by an acceptance that showed it and was confirmed a second time, however *)
(* sessions stop, fail and recover and whatever the developer retires.      *)
THEOREM OracleSafe ==
  ASSUME \A q, r \in Reviewers : q = r
  PROVE  Spec => OracleChangesOnlyAsShown
<1> DEFINE Replaced ==
      \A c \in Case :
        accepted[c] # None /\ accepted'[c] \notin {None, accepted[c]} =>
          \E r \in Reviewers :
            /\ review[r].phase = "confirmed"
            /\ Shown(r).case = c
            /\ review[r].existing = accepted[c]
<1>1. Init => IInv
  BY InitOK
<1>2. IInv /\ [Next]_vars => IInv'
  BY NextStep
<1>3. IInv /\ [Next]_vars => [Replaced]_vars
  <2> SUFFICES ASSUME IInv, Next, NEW c \in Case,
                      accepted[c] # None, accepted'[c] \notin {None, accepted[c]}
               PROVE  \E r \in Reviewers :
                        /\ review[r].phase = "confirmed"
                        /\ Shown(r).case = c
                        /\ review[r].existing = accepted[c]
    OBVIOUS
  <2>1. ASSUME NEW d \in Case, Retire(d)
        PROVE  FALSE
    BY <2>1 DEF Retire, IInv, Shaped
  <2>2. PICK r \in Reviewers : Accept(r)
    <3>1. CASE \E s \in Sessions :
                 \/ \E o \in Observation : Seal(s, o)
                 \/ \E d \in Case : SealFails(s, d)
                 \/ Stop(s) \/ Recover(s)
                 \/ Unlink(s) \/ Write(s) \/ WriteFails(s) \/ Finish(s) \/ Die(s)
      BY <3>1 DEF Seal, SealFails, Admit, Stop, Recover, Persist, Unlink, Write,
         WriteFails, Finish, Die
    <3>2. CASE \E r \in Reviewers :
                 \/ Begin(r) \/ Show(r) \/ Skip(r) \/ Quit(r) \/ Reject(r)
                 \/ Confirm(r) \/ Conclude(r)
      BY <3>2 DEF Begin, Show, Skip, Quit, Reject, Confirm, Conclude
    <3> QED
      BY <2>1, <3>1, <3>2 DEF Next
  <2>3. Shown(r).case = c
    BY <2>2 DEF Accept, IInv, Shaped
  <2>4. Deciding(r) => accepted[c] = review[r].existing
    BY <2>3 DEF IInv, ShownStands
  <2>5. review[r].phase = "confirmed"
    BY <2>2, <2>4 DEF Accept, Confirmed, Deciding
  <2> QED
    BY <2>3, <2>4, <2>5 DEF Deciding
<1> QED
  BY <1>1, <1>2, <1>3, PTL DEF Spec, OracleChangesOnlyAsShown
-----------------------------------------------------------------------------
(* Induction over the naturals, and the least of a set of them.             *)
LEMMA Induction ==
  ASSUME NEW S \in SUBSET Nat, 0 \in S, \A n \in S : n + 1 \in S
  PROVE  S = Nat
<1> SUFFICES ASSUME Nat \ S # {}
             PROVE  FALSE
  OBVIOUS
<1>1. PICK n \in Nat \ S : \A m \in Nat \ S : ~ (<<m, n>> \in OpToRel(<, Nat))
  BY NatLessThanWellFounded, WFMin
<1>2. n # 0 /\ n \in Nat /\ n \notin S
  OBVIOUS
<1>3. n - 1 \in S
  <2> SUFFICES ASSUME n - 1 \in Nat \ S
               PROVE  FALSE
    BY <1>2, n - 1 \in Nat
  <2>1. <<n - 1, n>> \in OpToRel(<, Nat)
    BY <1>2 DEF OpToRel
  <2> QED
    BY <1>1, <2>1
<1>4. n = (n - 1) + 1
  BY <1>2
<1> QED
  BY <1>2, <1>3, <1>4

LEMMA FirstIsOne ==
  ASSUME NEW S \in SUBSET Nat, S # {}
  PROVE  First(S) \in S
<1>1. PICK n \in S : \A m \in S : ~ (<<m, n>> \in OpToRel(<, Nat))
  BY NatLessThanWellFounded, WFMin
<1>2. \A m \in S : n <= m
  <2> SUFFICES ASSUME NEW m \in S, m < n
               PROVE  FALSE
    OBVIOUS
  <2>1. <<m, n>> \in OpToRel(<, Nat)
    BY DEF OpToRel
  <2> QED
    BY <1>1, <2>1
<1> QED
  BY <1>1, <1>2 DEF First

-----------------------------------------------------------------------------
(* What is formed, case after case *)

FormStep(limit, kept, latest, others, g, c) ==
  IF c = 0 THEN others
  ELSE IF c \in DOMAIN latest THEN FormOne(limit, kept, latest[c], g[c - 1], c)
  ELSE g[c - 1]

IsForming(limit, kept, latest, others, g) ==
  g = [c \in 0 .. Cases |-> FormStep(limit, kept, latest, others, g, c)]

Forming(limit, kept, latest, others) ==
  CHOOSE g : IsForming(limit, kept, latest, others, g)

(* The definition by recursion over the cases defines a function. *)
LEMMA FormingExists ==
  ASSUME NEW limit, NEW kept, NEW latest, NEW others
  PROVE  IsForming(limit, kept, latest, others, Forming(limit, kept, latest, others))
<1> DEFINE Step(g, c) == FormStep(limit, kept, latest, others, g, c)
           Able == {n \in Nat : \E g : g = [c \in 0 .. n |-> Step(g, c)]}
<1>1. Able \in SUBSET Nat
  OBVIOUS
<1>2. 0 \in Able
  <2> DEFINE h == [c \in 0 .. 0 |-> others]
  <2>1. \A c \in 0 .. 0 : Step(h, c) = others
    BY DEF FormStep
  <2>2. h = [c \in 0 .. 0 |-> Step(h, c)]
    BY <2>1
  <2> QED
    BY <2>2
<1>3. ASSUME NEW n \in Able
      PROVE  n + 1 \in Able
  <2>1. PICK g : g = [c \in 0 .. n |-> Step(g, c)]
    BY <1>3
  <2> DEFINE h == [c \in 0 .. n + 1 |-> IF c = n + 1 THEN Step(g, n + 1) ELSE g[c]]
  <2>2. \A c \in 0 .. n : h[c] = g[c]
    OBVIOUS
  <2>3. h[n + 1] = Step(g, n + 1)
    OBVIOUS
  <2>4. h = [c \in 0 .. n + 1 |-> h[c]]
    OBVIOUS
  <2> HIDE DEF h
  <2>5. ASSUME NEW c \in 0 .. n + 1
        PROVE  Step(h, c) = Step(g, c)
    <3>1. c # 0 => h[c - 1] = g[c - 1]
      BY <2>2
    <3> QED
      BY <3>1 DEF FormStep
  <2>6. ASSUME NEW c \in 0 .. n + 1
        PROVE  h[c] = Step(g, c)
    <3>1. CASE c = n + 1
      BY <2>3, <3>1
    <3>2. CASE c \in 0 .. n
      <4>1. g[c] = Step(g, c)
        BY <2>1, <3>2
      <4> QED
        BY <2>2, <3>2, <4>1
    <3> QED
      BY <3>1, <3>2
  <2>7. h = [c \in 0 .. n + 1 |-> Step(h, c)]
    BY <2>4, <2>5, <2>6
  <2> QED
    BY <2>7
<1> HIDE DEF Able
<1>4. Able = Nat
  BY <1>1, <1>2, <1>3, Induction
<1>5. \E g : IsForming(limit, kept, latest, others, g)
  BY <1>4, StoreAssumption DEF IsForming, Able
<1> QED
  BY <1>5 DEF Forming

LEMMA FormingAt ==
  ASSUME NEW limit, NEW kept, NEW latest, NEW others, NEW c \in 0 .. Cases
  PROVE  Forming(limit, kept, latest, others)[c]
           = FormStep(limit, kept, latest, others, Forming(limit, kept, latest, others), c)
<1> DEFINE g == Forming(limit, kept, latest, others)
<1>1. g = [d \in 0 .. Cases |-> FormStep(limit, kept, latest, others, g, d)]
  BY FormingExists DEF IsForming
<1> HIDE DEF g
<1>2. g[c] = FormStep(limit, kept, latest, others, g, c)
  BY <1>1
<1> QED
  BY <1>2 DEF g

LEMMA AllIsForming ==
  ASSUME NEW limit, NEW kept, NEW latest, NEW others
  PROVE  FormAll(limit, kept, latest, others) = Forming(limit, kept, latest, others)[Cases]
BY DEF FormAll, Forming, IsForming, FormStep

(* A case forms its own candidate at most. *)
LEMMA FormsItself ==
  ASSUME NEW limit, NEW kept, NEW outputs, NEW files, NEW c,
         files = [d \in Case |-> files[d]]
  PROVE  LET formed == FormOne(limit, kept, outputs, files, c) IN
         /\ formed = [d \in Case |-> formed[d]]
         /\ \A d \in Case \ {c} : formed[d] = files[d]
BY DEF FormOne

(* After the first n cases, what is formed are those of them that were      *)
(* observed, and the others are as they were.                               *)
Grown(latest, others, files, n) ==
  /\ files = [d \in Case |-> files[d]]
  /\ \A d \in Case : d \notin DOMAIN latest \/ d > n => files[d] = others[d]

LEMMA FormingGrows ==
  ASSUME NEW limit, NEW kept, NEW latest, NEW others,
         others = [d \in Case |-> others[d]]
  PROVE  \A n \in 0 .. Cases :
           Grown(latest, others, Forming(limit, kept, latest, others)[n], n)
<1> DEFINE g == Forming(limit, kept, latest, others)
           Good == {n \in Nat : n <= Cases => Grown(latest, others, g[n], n)}
<1>1. \A c \in 0 .. Cases : g[c] = FormStep(limit, kept, latest, others, g, c)
  BY FormingAt
<1> HIDE DEF g
<1>2. Cases \in Nat
  BY StoreAssumption
<1>3. 0 \in Good
  <2>1. g[0] = others
    BY <1>1, <1>2 DEF FormStep
  <2> QED
    BY <2>1 DEF Grown
<1>4. ASSUME NEW n \in Good
      PROVE  n + 1 \in Good
  <2> SUFFICES ASSUME n + 1 <= Cases
               PROVE  Grown(latest, others, g[n + 1], n + 1)
    OBVIOUS
  <2>1. Grown(latest, others, g[n], n)
    BY <1>2
  <2>2. g[n + 1] = IF n + 1 \in DOMAIN latest
                   THEN FormOne(limit, kept, latest[n + 1], g[n], n + 1) ELSE g[n]
    <3>1. g[n + 1] = FormStep(limit, kept, latest, others, g, n + 1)
      BY <1>1, <1>2
    <3>2. (n + 1) - 1 = n /\ n + 1 # 0
      OBVIOUS
    <3> QED
      BY <3>1, <3>2 DEF FormStep
  <2>3. CASE n + 1 \notin DOMAIN latest
    BY <2>1, <2>2, <2>3 DEF Grown, Case
  <2>4. CASE n + 1 \in DOMAIN latest
    <3>1. g[n + 1] = [d \in Case |-> g[n + 1][d]] /\ \A d \in Case \ {n + 1} : g[n + 1][d] = g[n][d]
      BY <2>1, <2>2, <2>4, FormsItself DEF Grown
    <3> QED
      BY <2>1, <2>4, <3>1 DEF Grown, Case
  <2> QED
    BY <2>3, <2>4
<1>5. Good = Nat
  BY <1>3, <1>4, Induction
<1> QED
  BY <1>2, <1>5 DEF g

LEMMA FormAllGrows ==
  ASSUME NEW limit, NEW kept, NEW latest, NEW others,
         others = [d \in Case |-> others[d]]
  PROVE  Grown(latest, others, FormAll(limit, kept, latest, others), Cases)
<1>1. Cases \in 0 .. Cases
  BY StoreAssumption
<1> QED
  BY <1>1, FormingGrows, AllIsForming

(* What a case has formed stays. *)
LEMMA FormingStays ==
  ASSUME NEW limit, NEW kept, NEW latest, NEW others, NEW c \in Case,
         others = [d \in Case |-> others[d]]
  PROVE  FormAll(limit, kept, latest, others)[c] = Forming(limit, kept, latest, others)[c][c]
<1> DEFINE g == Forming(limit, kept, latest, others)
           Good == {n \in Nat : n <= Cases /\ c <= n => g[n][c] = g[c][c]}
<1>1. \A d \in 0 .. Cases : g[d] = FormStep(limit, kept, latest, others, g, d)
  BY FormingAt
<1>2. \A n \in 0 .. Cases : Grown(latest, others, g[n], n)
  BY FormingGrows
<1>3. FormAll(limit, kept, latest, others) = g[Cases]
  BY AllIsForming
<1> HIDE DEF g
<1>4. Cases \in Nat /\ c \in 1 .. Cases
  BY StoreAssumption DEF Case
<1>5. 0 \in Good
  BY <1>4
<1>6. ASSUME NEW n \in Good
      PROVE  n + 1 \in Good
  <2> SUFFICES ASSUME n + 1 <= Cases, c <= n
               PROVE  g[n + 1][c] = g[c][c]
    BY <1>4
  <2>1. g[n][c] = g[c][c]
    BY <1>4
  <2>2. g[n + 1] = IF n + 1 \in DOMAIN latest
                   THEN FormOne(limit, kept, latest[n + 1], g[n], n + 1) ELSE g[n]
    <3>1. g[n + 1] = FormStep(limit, kept, latest, others, g, n + 1)
      BY <1>1, <1>4
    <3>2. (n + 1) - 1 = n /\ n + 1 # 0
      OBVIOUS
    <3> QED
      BY <3>1, <3>2 DEF FormStep
  <2>3. g[n] = [d \in Case |-> g[n][d]]
    BY <1>2, <1>4 DEF Grown
  <2>4. c \in Case \ {n + 1}
    BY <1>4
  <2> QED
    BY <2>1, <2>2, <2>3, <2>4, FormsItself
<1>7. Cases \in Good
  BY <1>4, <1>5, <1>6, Induction
<1> QED
  BY <1>3, <1>4, <1>7 DEF g
-----------------------------------------------------------------------------
(* The sessions: a strengthening for any number of them.                    *)

Typed ==
  /\ limits \in [pending : Nat, project : Nat]
  /\ sealed \in [Sessions -> Seq(Observation)]
  /\ status = [s \in Sessions |-> status[s]]
  /\ unlinks = [s \in Sessions |-> unlinks[s]]
  /\ writes = [s \in Sessions |-> writes[s]]
  /\ expected = [s \in Sessions |-> expected[s]]
  /\ accepted = [c \in Case |-> accepted[c]]
  /\ pending = [c \in Case |-> pending[c]]

(* A session is to leave something from its first stop or recovery on.      *)
Begun(s) ==
  /\ status[s] = "recording" => expected[s] = <<>>
  /\ Persisting(s) \/ status[s] = "stuck" => expected[s] # <<>>

(* It touches the candidates of the cases it observed only. *)
Within(s) ==
  /\ unlinks[s] \subseteq Changed(s)
  /\ DOMAIN writes[s] \subseteq Changed(s)

(* As long as nobody else has changed the files, forming the candidates     *)
(* again gives what it gave at first, and what is still to be unlinked and  *)
(* written is all that the files lack.                                      *)
Lacking(s) ==
  /\ \A c \in unlinks[s] : expected[s][c] = Nothing
  /\ \A c \in DOMAIN writes[s] : writes[s][c] = expected[s][c]
  /\ \A c \in Case \ (unlinks[s] \cup DOMAIN writes[s]) : pending[c] = expected[s][c]

Planned(s) ==
  expected[s] # <<>> /\ s \notin touched =>
    /\ expected[s] = Formed(s)
    /\ Persisting(s) => Lacking(s)

Session(s) == Begun(s) /\ Within(s) /\ Planned(s)
SInv == Typed /\ \A s \in Sessions : Session(s)

LEMMA ChangedIsCases ==
  ASSUME Typed, NEW s \in Sessions
  PROVE  Changed(s) \subseteq Case
<1> SUFFICES ASSUME NEW n \in DOMAIN sealed[s]
             PROVE  sealed[s][n].case \in Case
  BY DEF Changed, Observed
<1>1. sealed[s] \in Seq(Observation)
  BY DEF Typed
<1>2. sealed[s][n] \in Observation
  BY <1>1, LenProperties
<1> QED
  BY <1>2 DEF Observation

(* What is formed leaves the other cases' candidates alone. *)
LEMMA FormedElsewhere ==
  ASSUME NEW s \in Sessions
  PROVE  /\ Formed(s) = [c \in Case |-> Formed(s)[c]]
         /\ \A c \in Case \ Changed(s) : Formed(s)[c] = pending[c]
<1> DEFINE latest == [c \in Changed(s) |-> Latest(s, c)]
<1>1. Others(s) = [d \in Case |-> Others(s)[d]] /\ \A d \in Case \ Changed(s) : Others(s)[d] = pending[d]
  BY DEF Others
<1>2. DOMAIN latest = Changed(s)
  OBVIOUS
<1>3. Formed(s) = FormAll(limits, accepted, latest, Others(s))
  BY DEF Formed
<1> HIDE DEF latest
<1>4. Grown(latest, Others(s), Formed(s), Cases)
  BY <1>1, <1>3, FormAllGrows
<1> QED
  BY <1>1, <1>2, <1>4 DEF Grown

LEMMA FormedIsNotEmpty ==
  ASSUME NEW s \in Sessions
  PROVE  Formed(s) # <<>>
<1>1. 1 \in DOMAIN Formed(s)
  BY FormedElsewhere, StoreAssumption DEF Case
<1> QED
  BY <1>1

(* What is formed depends on what was sealed and accepted, and on the       *)
(* candidates of the other cases.                                           *)
LEMMA FormsAgain ==
  ASSUME NEW s \in Sessions, sealed'[s] = sealed[s], UNCHANGED <<limits, accepted>>,
         \A c \in Case \ Changed(s) : pending'[c] = pending[c]
  PROVE  Formed(s)' = Formed(s)
<1>1. Observed(s)' = Observed(s)
  BY DEF Observed
<1>2. Changed(s)' = Changed(s)
  BY <1>1 DEF Changed
<1>3. \A c : Latest(s, c)' = Latest(s, c)
  BY <1>1 DEF Latest
<1>4. Others(s)' = Others(s)
  BY <1>2 DEF Others
<1>5. [c \in Changed(s) |-> Latest(s, c)]' = [c \in Changed(s) |-> Latest(s, c)]
  BY <1>2, <1>3
<1> QED
  BY <1>4, <1>5 DEF Formed
(* A step of someone else. *)
LEMMA Aside ==
  ASSUME SInv, NEW s \in Sessions,
         status'[s] = status[s], unlinks'[s] = unlinks[s], writes'[s] = writes[s],
         expected'[s] = expected[s], sealed'[s] = sealed[s],
         \/ UNCHANGED <<limits, accepted, pending>> /\ (s \in touched => s \in touched')
         \/ expected[s] # <<>> => s \in touched'
  PROVE  Session(s)'
<1>1. Session(s)
  BY DEF SInv
<1>2. Begun(s)'
  BY <1>1 DEF Session, Begun, Persisting
<1>3. Changed(s)' = Changed(s)
  BY DEF Changed, Observed
<1>4. Within(s)'
  BY <1>1, <1>3 DEF Session, Within
<1>5. Planned(s)'
  <2>1. CASE expected[s] # <<>> => s \in touched'
    BY <2>1 DEF Planned
  <2>2. CASE UNCHANGED <<limits, accepted, pending>> /\ (s \in touched => s \in touched')
    <3>1. Formed(s)' = Formed(s)
      BY <2>2, FormsAgain
    <3>2. Persisting(s)' = Persisting(s) /\ Lacking(s)' = Lacking(s)
      BY <2>2 DEF Persisting, Lacking
    <3> QED
      BY <1>1, <2>2, <3>1, <3>2 DEF Session, Planned
  <2> QED
    BY <2>1, <2>2
<1> QED
  BY <1>2, <1>4, <1>5 DEF Session

(* A step of the session itself that leaves the files alone and expects     *)
(* nothing else: it may give up, or die.                                    *)
LEMMA Drops ==
  ASSUME SInv, NEW s \in Sessions,
         UNCHANGED <<limits, sealed, accepted, pending, expected, touched>>,
         status'[s] \in {"stuck", "dead"}, unlinks'[s] = {}, writes'[s] = <<>>,
         status'[s] = "stuck" => expected[s] # <<>>
  PROVE  Session(s)'
<1>1. Session(s)
  BY DEF SInv
<1>2. Begun(s)' /\ ~ Persisting(s)'
  BY DEF Begun, Persisting
<1>3. Within(s)'
  BY DEF Within
<1>4. Formed(s)' = Formed(s)
  BY FormsAgain
<1>5. Planned(s)'
  BY <1>1, <1>2, <1>4 DEF Session, Planned
<1> QED
  BY <1>2, <1>3, <1>5 DEF Session

LEMMA GivesUpStep ==
  ASSUME SInv, NEW s \in Sessions, Persisting(s), GivesUp(s),
         UNCHANGED <<limits, sealed, accepted, pending, expected, touched>>
  PROVE  Session(s)'
<1>1. unlinks'[s] = {} /\ writes'[s] = <<>> /\ status'[s] \in {"stuck", "dead"}
  BY DEF GivesUp, Forgets, SInv, Typed
<1>2. expected[s] # <<>>
  BY DEF SInv, Session, Begun
<1> QED
  BY <1>1, <1>2, Drops

LEMMA AdmitStep ==
  ASSUME SInv, NEW s \in Sessions, NEW c \in Case, Admit(s, c),
         sealed' = sealed \/ \E o \in Observation : sealed' = [sealed EXCEPT ![s] = Append(@, o)]
  PROVE  Session(s)'
<1>1. expected[s] = <<>> /\ UNCHANGED <<status, expected, unlinks, writes>>
  BY DEF Admit, SInv, Session, Begun
<1>2. \A n \in DOMAIN sealed[s] : n \in DOMAIN sealed'[s] /\ sealed'[s][n] = sealed[s][n]
  <2>1. sealed[s] \in Seq(Observation)
    BY DEF SInv, Typed
  <2>2. CASE sealed' = sealed
    BY <2>2
  <2>3. ASSUME NEW o \in Observation, sealed' = [sealed EXCEPT ![s] = Append(@, o)]
        PROVE  \A n \in DOMAIN sealed[s] : n \in DOMAIN sealed'[s] /\ sealed'[s][n] = sealed[s][n]
    <3>1. sealed'[s] = Append(sealed[s], o)
      BY <2>3 DEF SInv, Typed
    <3> QED
      BY <2>1, <3>1, AppendProperties, LenProperties
  <2> QED
    BY <2>2, <2>3
<1>3. Changed(s) \subseteq Changed(s)'
  BY <1>2 DEF Changed, Observed
<1>4. Begun(s)' /\ Within(s)' /\ Planned(s)'
  BY <1>1, <1>3 DEF SInv, Session, Begun, Persisting, Within, Planned
<1> QED
  BY <1>4 DEF Session

(* A stop, or a recovery, sets out to do what is lacking.                   *)
LEMMA PersistStep ==
  ASSUME SInv, NEW s \in Sessions, Stop(s) \/ Recover(s)
  PROVE  Session(s)'
<1>1. PICK to \in {"stopping", "recovering"} :
         /\ status' = [status EXCEPT ![s] = to]
         /\ unlinks' = [unlinks EXCEPT ![s] = Removed(s)]
         /\ writes' = [writes EXCEPT ![s] = [c \in Changed(s) \cap Present(Formed(s)) |-> Formed(s)[c]]]
         /\ IF expected[s] = <<>>
            THEN expected' = [expected EXCEPT ![s] = Formed(s)]
            ELSE UNCHANGED expected
         /\ UNCHANGED <<limits, sealed, accepted, pending, touched>>
  BY DEF Stop, Recover, Persist
<1>2. /\ status'[s] = to
      /\ unlinks'[s] = Removed(s)
      /\ writes'[s] = [c \in Changed(s) \cap Present(Formed(s)) |-> Formed(s)[c]]
      /\ expected'[s] = IF expected[s] = <<>> THEN Formed(s) ELSE expected[s]
  BY <1>1 DEF SInv, Typed
<1>3. Begun(s)'
  BY <1>2, FormedIsNotEmpty DEF Begun
<1>4. Changed(s)' = Changed(s)
  BY <1>1 DEF Changed, Observed
<1>5. Within(s)'
  BY <1>2, <1>4 DEF Within, Removed
<1>6. Formed(s)' = Formed(s)
  BY <1>1, FormsAgain
<1>7. s \notin touched => expected'[s] = Formed(s)
  BY <1>2 DEF SInv, Session, Planned
<1>8. ASSUME expected'[s] = Formed(s)
      PROVE  Lacking(s)'
  <2>1. Changed(s) \subseteq Case
    BY ChangedIsCases DEF SInv
  <2>2. \A c \in unlinks'[s] : expected'[s][c] = Nothing
    BY <1>2, <1>8, <2>1 DEF Removed, Present
  <2>3. \A c \in DOMAIN writes'[s] : writes'[s][c] = expected'[s][c]
    BY <1>2, <1>8
  <2>4. ASSUME NEW c \in Case \ (unlinks'[s] \cup DOMAIN writes'[s])
        PROVE  pending'[c] = expected'[s][c]
    <3>1. CASE c \notin Changed(s)
      BY <1>1, <1>8, <3>1, FormedElsewhere
    <3>2. CASE c \in Changed(s)
      <4>1. Formed(s)[c] = Nothing
        BY <1>2, <2>4, <3>2 DEF Present
      <4>2. pending[c] = Nothing
        BY <1>2, <2>4, <3>2, <4>1 DEF Removed, Present
      <4> QED
        BY <1>1, <1>8, <4>1, <4>2
    <3> QED
      BY <3>1, <3>2
  <2> QED
    BY <2>2, <2>3, <2>4 DEF Lacking
<1>9. Planned(s)'
  BY <1>1, <1>6, <1>7, <1>8 DEF Planned
<1> QED
  BY <1>3, <1>5, <1>9 DEF Session
LEMMA ChangedIsNat ==
  ASSUME Typed, NEW s \in Sessions
  PROVE  Changed(s) \in SUBSET Nat
BY ChangedIsCases, StoreAssumption DEF Case

LEMMA UnlinkStep ==
  ASSUME SInv, NEW s \in Sessions, Unlink(s)
  PROVE  Session(s)' /\ Typed'
<1> DEFINE c == First(unlinks[s])
<1>1. c \in unlinks[s] /\ c \in Changed(s)
  <2>1. unlinks[s] \in SUBSET Nat /\ unlinks[s] # {} /\ unlinks[s] \subseteq Changed(s)
    BY ChangedIsNat DEF Unlink, SInv, Session, Within
  <2> QED
    BY <2>1, FirstIsOne
<1> HIDE DEF c
<1>2. CASE /\ pending[c] = Nothing
           /\ GivesUp(s)
           /\ UNCHANGED <<pending, touched>>
  <2>1. Session(s)'
    BY <1>2, GivesUpStep DEF Unlink
  <2>2. Typed'
    BY <1>2 DEF Unlink, GivesUp, Forgets, SInv, Typed
  <2> QED
    BY <2>1, <2>2
<1>3. CASE /\ pending[c] # Nothing
           /\ pending' = [pending EXCEPT ![c] = Nothing]
           /\ unlinks' = [unlinks EXCEPT ![s] = @ \ {c}]
           /\ Touch(s)
           /\ UNCHANGED <<status, writes>>
  <2>1. Typed'
    BY <1>3 DEF Unlink, SInv, Typed
  <2>2. /\ UNCHANGED <<limits, sealed, accepted, status, writes, expected>>
        /\ unlinks'[s] = unlinks[s] \ {c}
        /\ s \notin touched' => s \notin touched
        /\ pending' = [pending EXCEPT ![c] = Nothing]
    BY <1>3 DEF Unlink, SInv, Typed, Touch
  <2>3. Changed(s)' = Changed(s)
    BY <2>2 DEF Changed, Observed
  <2>4. Begun(s)' /\ Within(s)'
    BY <2>2, <2>3 DEF SInv, Session, Begun, Persisting, Within
  <2>5. pending' = [d \in Case |-> IF d = c THEN Nothing ELSE pending[d]]
    BY <2>2 DEF SInv, Typed
  <2>6. Formed(s)' = Formed(s)
    <3>1. \A d \in Case \ Changed(s) : pending'[d] = pending[d]
      BY <1>1, <2>5
    <3> QED
      BY <2>2, <3>1, FormsAgain
  <2>7. Lacking(s) => Lacking(s)'
    BY <1>1, <2>2, <2>5 DEF Lacking
  <2>8. Planned(s)'
    BY <2>2, <2>6, <2>7 DEF SInv, Session, Planned, Persisting
  <2> QED
    BY <2>1, <2>4, <2>8 DEF Session
<1> QED
  BY <1>2, <1>3 DEF Unlink, c

LEMMA WriteStep ==
  ASSUME SInv, NEW s \in Sessions, Write(s)
  PROVE  Session(s)' /\ Typed'
<1> DEFINE c == First(DOMAIN writes[s])
<1>1. c \in DOMAIN writes[s] /\ c \in Changed(s)
  <2>1. DOMAIN writes[s] \in SUBSET Nat /\ DOMAIN writes[s] # {} /\ DOMAIN writes[s] \subseteq Changed(s)
    BY ChangedIsNat DEF Write, SInv, Session, Within
  <2> QED
    BY <2>1, FirstIsOne
<1> HIDE DEF c
<1>2. /\ pending' = [pending EXCEPT ![c] = writes[s][c]]
      /\ writes' = [writes EXCEPT ![s] = [d \in DOMAIN @ \ {c} |-> @[d]]]
      /\ Touch(s)
      /\ unlinks[s] = {}
      /\ UNCHANGED <<limits, sealed, accepted, status, unlinks, expected>>
  BY DEF Write, c
<1>3. Typed'
  BY <1>2 DEF SInv, Typed
<1>4. /\ writes'[s] = [d \in DOMAIN writes[s] \ {c} |-> writes[s][d]]
      /\ s \notin touched' => s \notin touched
      /\ pending' = [d \in Case |-> IF d = c THEN writes[s][c] ELSE pending[d]]
  BY <1>2 DEF SInv, Typed, Touch
<1>5. Changed(s)' = Changed(s)
  BY <1>2 DEF Changed, Observed
<1>6. Begun(s)' /\ Within(s)'
  BY <1>2, <1>4, <1>5 DEF SInv, Session, Begun, Persisting, Within
<1>7. Formed(s)' = Formed(s)
  <2>1. \A d \in Case \ Changed(s) : pending'[d] = pending[d]
    BY <1>1, <1>4
  <2> QED
    BY <1>2, <2>1, FormsAgain
<1>8. Lacking(s) => Lacking(s)'
  BY <1>1, <1>2, <1>4 DEF Lacking
<1>9. Planned(s)'
  BY <1>2, <1>4, <1>7, <1>8 DEF SInv, Session, Planned, Persisting
<1> QED
  BY <1>3, <1>6, <1>9 DEF Session

LEMMA FinishStep ==
  ASSUME SInv, NEW s \in Sessions, Finish(s)
  PROVE  Session(s)' /\ Typed'
<1>1. /\ UNCHANGED <<limits, sealed, unlinks, writes, accepted, pending>>
      /\ status'[s] = "finished" /\ expected'[s] = <<>>
  BY DEF Finish, SInv, Typed
<1>2. Changed(s)' = Changed(s)
  BY <1>1 DEF Changed, Observed
<1>3. Begun(s)' /\ Within(s)' /\ Planned(s)'
  BY <1>1, <1>2 DEF SInv, Session, Begun, Persisting, Within, Planned
<1>4. Typed'
  BY DEF Finish, SInv, Typed
<1> QED
  BY <1>3, <1>4 DEF Session

LEMMA WriteFailsStep ==
  ASSUME SInv, NEW s \in Sessions, WriteFails(s)
  PROVE  Session(s)' /\ Typed'
<1>1. Session(s)'
  BY GivesUpStep DEF WriteFails
<1>2. Typed'
  BY DEF WriteFails, GivesUp, Forgets, SInv, Typed
<1> QED
  BY <1>1, <1>2

LEMMA DieStep ==
  ASSUME SInv, NEW s \in Sessions, Die(s)
  PROVE  Session(s)' /\ Typed'
<1>1. /\ UNCHANGED <<limits, sealed, accepted, pending, expected, touched>>
      /\ status'[s] = "dead" /\ unlinks'[s] = {} /\ writes'[s] = <<>>
  BY DEF Die, Forgets, SInv, Typed
<1>2. Session(s)'
  BY <1>1, Drops
<1>3. Typed'
  BY DEF Die, Forgets, SInv, Typed
<1> QED
  BY <1>2, <1>3

Steps(s) ==
  \/ \E o \in Observation : Seal(s, o)
  \/ \E c \in Case : SealFails(s, c)
  \/ Stop(s) \/ Recover(s)
  \/ Unlink(s) \/ Write(s) \/ WriteFails(s) \/ Finish(s) \/ Die(s)

LEMMA OwnStep ==
  ASSUME SInv, NEW s \in Sessions, Steps(s)
  PROVE  Session(s)' /\ Typed'
<1>1. ASSUME NEW o \in Observation, Seal(s, o)
      PROVE  Session(s)' /\ Typed'
  <2>1. o.case \in Case /\ Admit(s, o.case) /\ sealed' = [sealed EXCEPT ![s] = Append(@, o)]
    BY <1>1 DEF Seal, Observation
  <2>2. sealed' \in [Sessions -> Seq(Observation)]
    <3>1. sealed[s] \in Seq(Observation)
      BY DEF SInv, Typed
    <3>2. Append(sealed[s], o) \in Seq(Observation)
      BY <3>1, AppendProperties
    <3> QED
      BY <2>1, <3>2 DEF SInv, Typed
  <2>3. Typed'
    BY <2>1, <2>2 DEF Admit, SInv, Typed
  <2>4. Session(s)'
    BY <2>1, AdmitStep
  <2> QED
    BY <2>3, <2>4
<1>2. ASSUME NEW c \in Case, SealFails(s, c)
      PROVE  Session(s)' /\ Typed'
  <2>1. Admit(s, c) /\ sealed' = sealed
    BY <1>2 DEF SealFails
  <2>2. Typed'
    BY <2>1 DEF Admit, SInv, Typed
  <2> QED
    BY <2>1, <2>2, AdmitStep
<1>3. CASE Stop(s) \/ Recover(s)
  <2>1. Typed'
    BY <1>3 DEF Stop, Recover, Persist, SInv, Typed
  <2> QED
    BY <1>3, <2>1, PersistStep
<1> QED
  BY <1>1, <1>2, <1>3, UnlinkStep, WriteStep, WriteFailsStep, FinishStep, DieStep DEF Steps

(* A session's step is someone else's to every other session.               *)
LEMMA AnothersStep ==
  ASSUME SInv, NEW s \in Sessions, Steps(s), NEW q \in Sessions \ {s}
  PROVE  Session(q)'
<1>1. /\ status'[q] = status[q] /\ unlinks'[q] = unlinks[q] /\ writes'[q] = writes[q]
      /\ expected'[q] = expected[q] /\ sealed'[q] = sealed[q]
  <2>1. CASE \E o \in Observation : Seal(s, o)
    BY <2>1 DEF Seal, Admit, SInv, Typed
  <2>2. CASE \E c \in Case : SealFails(s, c)
    BY <2>2 DEF SealFails, Admit, SInv, Typed
  <2>3. CASE Stop(s) \/ Recover(s)
    BY <2>3 DEF Stop, Recover, Persist, SInv, Typed
  <2>4. CASE Unlink(s) \/ WriteFails(s)
    BY <2>4 DEF Unlink, WriteFails, GivesUp, Forgets, SInv, Typed
  <2>5. CASE Write(s)
    BY <2>5 DEF Write, SInv, Typed
  <2>6. CASE Finish(s) \/ Die(s)
    BY <2>6 DEF Finish, Die, Forgets, SInv, Typed
  <2> QED
    BY <2>1, <2>2, <2>3, <2>4, <2>5, <2>6 DEF Steps
<1>2. \/ UNCHANGED <<limits, accepted, pending>> /\ (q \in touched => q \in touched')
      \/ expected[q] # <<>> => q \in touched'
  <2>1. CASE Unlink(s) \/ Write(s)
    BY <2>1 DEF Unlink, Write, Touch
  <2>2. CASE Finish(s)
    BY <2>2 DEF Finish
  <2> QED
    BY <2>1, <2>2 DEF Steps, Seal, SealFails, Admit, Stop, Recover, Persist, WriteFails, Die
<1> QED
  BY <1>1, <1>2, Aside

(* A reviewer, and the developer, change the files behind every session     *)
(* that has loaded them, or not at all.                                     *)
Reviews(r) ==
  \/ Begin(r) \/ Show(r) \/ Skip(r) \/ Quit(r) \/ Reject(r)
  \/ Confirm(r) \/ Accept(r) \/ Conclude(r)
LEMMA ReviewersStep ==
  ASSUME SInv, (\E r \in Reviewers : Reviews(r)) \/ \E c \in Case : Retire(c)
  PROVE  /\ UNCHANGED <<limits, sealed, status, unlinks, writes, expected>>
         /\ \/ UNCHANGED <<accepted, pending, touched>>
            \/ \A s \in Sessions : expected[s] # <<>> => s \in touched'
         /\ Typed'
<1>1. UNCHANGED <<limits, sealed, status, unlinks, writes, expected>>
  BY DEF Reviews, Begin, Show, Skip, Quit, Reject, Confirm, Accept, Conclude, Retire
<1>2. Touch(None) => \A s \in Sessions : expected[s] # <<>> => s \in touched'
  BY StoreAssumption DEF Touch
<1>3. UNCHANGED <<accepted, pending, touched>> \/ Touch(None)
  BY DEF Reviews, Begin, Show, Skip, Quit, Reject, Confirm, Accept, Conclude, Retire, Dismiss
<1> DEFINE Functions ==
             /\ accepted' = [c \in Case |-> accepted'[c]]
             /\ pending' = [c \in Case |-> pending'[c]]
<1>4. Functions
  <2>1. CASE UNCHANGED <<accepted, pending>>
    BY <2>1 DEF SInv, Typed
  <2>2. ASSUME NEW r \in Reviewers, Dismiss(r), accepted' = accepted
        PROVE  Functions
    BY <2>2 DEF Dismiss, SInv, Typed
  <2>3. ASSUME NEW c, NEW v, accepted' = [accepted EXCEPT ![c] = v], pending' = pending
        PROVE  Functions
    BY <2>3 DEF SInv, Typed
  <2> QED
    BY <2>1, <2>2, <2>3 DEF Reviews, Begin, Show, Skip, Quit, Reject, Confirm, Accept, Conclude, Retire
<1>5. Typed'
  BY <1>1, <1>4 DEF SInv, Typed
<1> QED
  BY <1>1, <1>2, <1>3, <1>5

LEMMA SInitOK == Init => SInv
<1> SUFFICES ASSUME Init
             PROVE  SInv
  OBVIOUS
<1>1. Typed
  <2>1. limits \in [pending : Nat, project : Nat]
    BY StoreAssumption DEF Init
  <2>2. <<>> \in Seq(Observation)
    BY EmptySeq
  <2>3. pending = [c \in Case |-> pending[c]]
    <3>1. PICK files \in [Case -> Outputs \cup {None}] :
            pending = [c \in Case |-> IF files[c] = None THEN Nothing
                                 ELSE [output |-> files[c], replaces |-> accepted[c] # None]]
      BY DEF Init
    <3> QED
      BY <3>1
  <2>4. accepted = [c \in Case |-> accepted[c]]
    BY DEF Init
  <2> QED
    BY <2>1, <2>2, <2>3, <2>4 DEF Init, Typed
<1>2. ASSUME NEW s \in Sessions
      PROVE  Session(s)
  <2>1. status[s] = "recording" /\ expected[s] = <<>> /\ unlinks[s] = {} /\ writes[s] = <<>>
    BY DEF Init
  <2> QED
    BY <2>1 DEF Session, Begun, Persisting, Within, Planned
<1> QED
  BY <1>1, <1>2 DEF SInv

LEMMA SNextStep ==
  ASSUME SInv, [Next]_vars
  PROVE  SInv'
<1>1. CASE UNCHANGED vars
  <2>1. Typed'
    BY <1>1 DEF vars, SInv, Typed
  <2>2. ASSUME NEW s \in Sessions
        PROVE  Session(s)'
    BY <1>1, Aside DEF vars
  <2> QED
    BY <2>1, <2>2 DEF SInv
<1>2. ASSUME NEW s \in Sessions, Steps(s)
      PROVE  SInv'
  BY <1>2, OwnStep, AnothersStep DEF SInv
<1>3. CASE (\E r \in Reviewers : Reviews(r)) \/ \E c \in Case : Retire(c)
  <2>1. ASSUME NEW s \in Sessions
        PROVE  Session(s)'
    BY <1>3, ReviewersStep, Aside
  <2> QED
    BY <1>3, <2>1, ReviewersStep DEF SInv
<1> QED
  BY <1>1, <1>2, <1>3 DEF Next, Steps, Reviews

(* A session that nobody else came between finishes over the candidates     *)
(* its first attempt was to leave.                                          *)
LEMMA FinishesAsExpected ==
  ASSUME SInv, [Next]_vars, NEW s \in Sessions,
         status'[s] = "finished", status[s] # "finished", s \notin touched
  PROVE  pending' = expected[s]
<1>1. Finish(s)
  <2>1. CASE UNCHANGED vars
    BY <2>1 DEF vars
  <2>2. ASSUME NEW q \in Sessions, Steps(q)
        PROVE  Finish(s)
    <3>1. CASE \E o \in Observation : Seal(q, o)
      BY <3>1 DEF Seal, Admit
    <3>2. CASE (\E c \in Case : SealFails(q, c)) \/ Write(q)
      BY <3>2 DEF SealFails, Admit, Write
    <3>3. CASE Stop(q) \/ Recover(q)
      BY <3>3 DEF Stop, Recover, Persist, SInv, Typed
    <3>4. CASE Unlink(q) \/ WriteFails(q)
      BY <3>4 DEF Unlink, WriteFails, GivesUp, SInv, Typed
    <3>5. CASE Finish(q)
      <4>1. q = s
        BY <3>5 DEF Finish, SInv, Typed
      <4> QED
        BY <3>5, <4>1
    <3>6. CASE Die(q)
      BY <3>6 DEF Die, SInv, Typed
    <3> QED
      BY <2>2, <3>1, <3>2, <3>3, <3>4, <3>5, <3>6 DEF Steps
  <2>3. CASE (\E r \in Reviewers : Reviews(r)) \/ \E c \in Case : Retire(c)
    BY <2>3, ReviewersStep
  <2> QED
    BY <2>1, <2>2, <2>3 DEF Next, Steps, Reviews
<1>2. /\ Persisting(s) /\ unlinks[s] = {} /\ DOMAIN writes[s] = {}
      /\ pending' = pending
  BY <1>1 DEF Finish, Written
<1>3. expected[s] = Formed(s) /\ Lacking(s)
  BY <1>2 DEF SInv, Session, Begun, Planned
<1>4. \A c \in Case : pending[c] = expected[s][c]
  BY <1>2, <1>3 DEF Lacking
<1> QED
  BY <1>2, <1>3, <1>4, FormedElsewhere DEF SInv, Typed

(* On the way, a case that is to have a candidate has one, the old or the   *)
(* new.                                                                     *)
LEMMA NeverAbsent ==
  ASSUME SInv, [Next]_vars, NEW s \in Sessions, NEW c \in Case,
         Persisting(s), expected[s][c] # Nothing, s \notin touched', pending[c] # Nothing
  PROVE  pending'[c] # Nothing
<1>1. expected[s] # <<>>
  BY DEF SInv, Session, Begun
<1>2. CASE pending' = pending
  BY <1>2
<1>3. CASE Unlink(s)
  <2> DEFINE d == First(unlinks[s])
  <2>1. d \in unlinks[s]
    <3>1. unlinks[s] \in SUBSET Nat /\ unlinks[s] # {}
      BY <1>3, ChangedIsNat DEF Unlink, SInv, Session, Within
    <3> QED
      BY <3>1, FirstIsOne
  <2>2. s \notin touched
    BY <1>3 DEF Unlink, Touch
  <2>3. expected[s][d] = Nothing
    BY <1>1, <2>1, <2>2 DEF SInv, Session, Planned, Lacking
  <2>4. pending' = pending \/ pending' = [pending EXCEPT ![d] = Nothing]
    BY <1>3 DEF Unlink
  <2> HIDE DEF d
  <2> QED
    BY <2>3, <2>4 DEF SInv, Typed
<1>4. CASE Write(s)
  <2> DEFINE d == First(DOMAIN writes[s])
  <2>1. d \in DOMAIN writes[s]
    <3>1. DOMAIN writes[s] \in SUBSET Nat /\ DOMAIN writes[s] # {}
      BY <1>4, ChangedIsNat DEF Write, SInv, Session, Within
    <3> QED
      BY <3>1, FirstIsOne
  <2>2. s \notin touched
    BY <1>4 DEF Write, Touch
  <2>3. writes[s][d] = expected[s][d]
    BY <1>1, <2>1, <2>2 DEF SInv, Session, Planned, Lacking
  <2>4. pending' = [pending EXCEPT ![d] = writes[s][d]]
    BY <1>4 DEF Write
  <2> HIDE DEF d
  <2> QED
    BY <2>3, <2>4 DEF SInv, Typed
<1>5. ASSUME NEW q \in Sessions \ {s}, Steps(q)
      PROVE  pending'[c] # Nothing
  <2>1. CASE Unlink(q) \/ Write(q)
    BY <1>1, <2>1 DEF Unlink, Write, Touch
  <2> QED
    BY <1>2, <1>5, <2>1 DEF Steps, Seal, SealFails, Admit, Stop, Recover, Persist, WriteFails, Finish, Die
<1>6. CASE Steps(s)
  BY <1>2, <1>3, <1>4, <1>6 DEF Steps, Seal, SealFails, Admit, Stop, Recover, Persist, WriteFails, Finish, Die
<1>7. CASE (\E r \in Reviewers : Reviews(r)) \/ \E d \in Case : Retire(d)
  BY <1>1, <1>2, <1>7, ReviewersStep
<1>8. CASE UNCHANGED vars
  BY <1>2, <1>8 DEF vars
<1> QED
  BY <1>5, <1>6, <1>7, <1>8 DEF Next, Steps, Reviews

(* However often a stop or a recovery fails half-way and is run again, the  *)
(* candidates end as the first attempt would have left them.                *)
THEOREM Converges == Spec => RecoveryConverges
<1>1. Init => SInv
  BY SInitOK
<1>2. SInv /\ [Next]_vars => SInv'
  BY SNextStep
<1>3. SInv /\ [Next]_vars =>
        [\A s \in Sessions :
           status'[s] = "finished" /\ status[s] # "finished" /\ s \notin touched =>
             pending' = expected[s]]_vars
  BY FinishesAsExpected
<1> QED
  BY <1>1, <1>2, <1>3, PTL DEF Spec, RecoveryConverges

(* A candidate that is replaced is never absent, whenever the session dies. *)
THEOREM Replaces == Spec => OldOrNew
<1>1. Init => SInv
  BY SInitOK
<1>2. SInv /\ [Next]_vars => SInv'
  BY SNextStep
<1>3. SInv /\ [Next]_vars =>
        [\A s \in Sessions, c \in Case :
           /\ status[s] = "stopping" \/ status[s] = "recovering"
           /\ expected[s][c] # Nothing
           /\ s \notin touched'
           /\ pending[c] # Nothing
           => pending'[c] # Nothing]_vars
  BY NeverAbsent DEF Persisting
<1> QED
  BY <1>1, <1>2, <1>3, PTL DEF Spec, OldOrNew
-----------------------------------------------------------------------------
(* The limits bite only when an observation is admitted.                    *)

(* What a review still has before it. *)
Entries(r) == {review[r].left[n] : n \in DOMAIN review[r].left}

Queued(r) ==
  /\ IsReview(review[r])
  /\ review[r].left \in Seq(Entries(r))
  /\ review[r].phase # "idle" => review[r].left # <<>>

(* A session counts the known and the reserved cases against the limits.    *)
(* They hold all that is accepted, all that is pending or under review and  *)
(* all that was sealed, so that none of it is too much when it is formed.   *)
Holds(s, known, reserved) ==
  /\ Cardinality(reserved) <= limits.pending
  /\ Cardinality(known \cup reserved) <= limits.project
  /\ Changed(s) \cup Present(pending) \subseteq reserved
  /\ Accepted \subseteq known \cup reserved
  /\ \A r \in Reviewers : \A e \in Entries(r) : e.case \in reserved
  /\ status[s] = "recording" =>
       retention[s].accepted = known /\ retention[s].pending = reserved

Unformed(s) == status[s] \in {"recording", "dead"} /\ expected[s] = <<>>
Room(s) == Unformed(s) => \E known, reserved \in SUBSET Case : Holds(s, known, reserved)

Reserved ==
  /\ retention = [s \in Sessions |-> [policy |-> retention[s].policy,
                    accepted |-> retention[s].accepted, pending |-> retention[s].pending]]
  /\ review = [r \in Reviewers |-> review[r]]
  /\ \A r \in Reviewers : Queued(r)
  /\ \A s \in Sessions : Room(s)

LEMMA CaseFinite ==
  ASSUME NEW S \in SUBSET Case
  PROVE  IsFiniteSet(S) /\ Cardinality(S) \in Nat
<1>1. IsFiniteSet(Case)
  BY FS_Interval, StoreAssumption DEF Case
<1> QED
  BY <1>1, FS_Subset, FS_CardinalityType

LEMMA Together ==
  ASSUME NEW S \in SUBSET Case, NEW T \in SUBSET Case
  PROVE  Cardinality(S \cup T) = Cardinality(S) + Cardinality(T \ S)
<1>1. S \cup T = S \cup (T \ S) /\ S \cap (T \ S) = {}
  OBVIOUS
<1>2. Cardinality(S \cup (T \ S)) = Cardinality(S) + Cardinality(T \ S) - Cardinality(S \cap (T \ S))
  BY CaseFinite, FS_Union
<1>3. Cardinality(S) \in Nat /\ Cardinality(T \ S) \in Nat
  BY CaseFinite, T \ S \in SUBSET Case
<1>4. Cardinality(S \cap (T \ S)) = 0
  BY <1>1, FS_EmptySet
<1> DEFINE s == Cardinality(S)
           t == Cardinality(T \ S)
<1>5. s + t - 0 = s + t
  <2>1. s \in Nat /\ t \in Nat
    BY <1>3
  <2> HIDE DEF s, t
  <2> QED
    BY <2>1
<1> QED
  BY <1>1, <1>2, <1>4, <1>5, Zenon

(* A set that lacks an element of another that holds it is smaller.         *)
LEMMA Smaller ==
  ASSUME NEW T \in SUBSET Case, NEW S \in SUBSET T, NEW c \in T \ S
  PROVE  Cardinality(S) < Cardinality(T)
<1>1. S \in SUBSET (T \ {c})
  OBVIOUS
<1>2. Cardinality(T \ {c}) = Cardinality(T) - 1 /\ IsFiniteSet(T \ {c})
  BY CaseFinite, FS_RemoveElement
<1>3. Cardinality(S) <= Cardinality(T \ {c})
  BY <1>1, <1>2, FS_Subset
<1> QED
  BY <1>2, <1>3, CaseFinite

(* An admission keeps to the limits. *)
LEMMA AdmittedFits ==
  ASSUME NEW known \in SUBSET Case, NEW reserved \in SUBSET Case, NEW c \in Case,
         NEW most \in Nat, NEW all \in Nat,
         Cardinality(reserved) <= most, Cardinality(known \cup reserved) <= all,
         \/ c \in reserved
         \/ /\ Cardinality(reserved) < most
            /\ c \in known \/ Cardinality(known) + Cardinality(reserved \ known) < all
  PROVE  /\ Cardinality(reserved \cup {c}) <= most
         /\ Cardinality(known \cup (reserved \cup {c})) <= all
<1>1. CASE c \in reserved
  <2>1. reserved \cup {c} = reserved
    BY <1>1
  <2> QED
    BY <2>1
<1>2. CASE c \notin reserved
  <2>1. Cardinality(reserved \cup {c}) <= most
    <3>1. Cardinality(reserved \cup {c}) = Cardinality(reserved) + 1
      BY <1>2, CaseFinite, FS_AddElement
    <3> QED
      BY <1>2, <3>1, CaseFinite
  <2>2. Cardinality(known \cup (reserved \cup {c})) <= all
    <3>1. CASE c \in known
      <4>1. known \cup (reserved \cup {c}) = known \cup reserved
        BY <3>1
      <4> QED
        BY <4>1
    <3>2. CASE c \notin known
      <4>1. known \cup (reserved \cup {c}) = (known \cup reserved) \cup {c}
            /\ c \notin known \cup reserved
        BY <1>2, <3>2
      <4>2. Cardinality((known \cup reserved) \cup {c}) = Cardinality(known \cup reserved) + 1
        BY <4>1, CaseFinite, FS_AddElement
      <4>3. Cardinality(known \cup reserved) < all
        BY <1>2, <3>2, Together
      <4>4. Cardinality(known \cup reserved) \in Nat
        BY CaseFinite
      <4> QED
        BY <4>1, <4>2, <4>3, <4>4
    <3> QED
      BY <3>1, <3>2
  <2> QED
    BY <2>1, <2>2
<1> QED
  BY <1>1, <1>2

LEMMA RoomToSeal ==
  ASSUME SInv, Reserved, NEW s \in Sessions, NEW c \in Case, Admit(s, c),
         Changed(s)' \subseteq Changed(s) \cup {c}
  PROVE  Room(s)'
<1>1. status[s] = "recording" /\ Unformed(s) /\ Retained(s, c)
      /\ retention' = [retention EXCEPT ![s].pending = @ \cup {c}]
      /\ UNCHANGED <<limits, status, accepted, pending, review>>
  BY DEF Admit, Reserve, SInv, Session, Begun, Unformed
<1>2. PICK known \in SUBSET Case, reserved \in SUBSET Case : Holds(s, known, reserved)
  BY <1>1 DEF Reserved, Room
<1>3. retention[s].accepted = known /\ retention[s].pending = reserved
  BY <1>1, <1>2 DEF Holds
<1>4. retention'[s].accepted = known /\ retention'[s].pending = reserved \cup {c}
  BY <1>1, <1>3 DEF Reserved
<1>5. \/ c \in reserved
      \/ /\ Cardinality(reserved) < limits.pending
         /\ c \in known \/ Cardinality(known) + Cardinality(reserved \ known) < limits.project
  BY <1>1, <1>3 DEF Retained
<1>6. /\ Cardinality(reserved \cup {c}) <= limits.pending
      /\ Cardinality(known \cup (reserved \cup {c})) <= limits.project
  <2>1. limits.pending \in Nat /\ limits.project \in Nat
    BY DEF SInv, Typed
  <2> QED
    BY <1>2, <1>5, <2>1, AdmittedFits DEF Holds
<1>7. Present(pending)' = Present(pending) /\ Accepted' = Accepted
  BY <1>1 DEF Present, Accepted
<1>8. \A r \in Reviewers : Entries(r)' = Entries(r)
  BY <1>1 DEF Entries
<1>9. Holds(s, known, reserved \cup {c})'
  BY <1>1, <1>2, <1>4, <1>6, <1>7, <1>8 DEF Holds
<1> QED
  BY <1>9 DEF Room
(* Elsewhere what is pending, under review or accepted only comes from what *)
(* is counted.                                                              *)
LEMMA RoomKept ==
  ASSUME SInv, Reserved, NEW s \in Sessions,
         limits' = limits, sealed' = sealed, expected'[s] = expected[s],
         Unformed(s)' => Unformed(s),
         status'[s] = "recording" => status[s] = "recording" /\ retention'[s] = retention[s],
         Present(pending)' \subseteq Present(pending),
         \A known, reserved \in SUBSET Case :
           Holds(s, known, reserved) =>
             /\ Accepted' \subseteq Accepted \cup reserved
             /\ \A r \in Reviewers : \A e \in Entries(r)' : e.case \in reserved
  PROVE  Room(s)'
<1> SUFFICES ASSUME Unformed(s)'
             PROVE  \E known, reserved \in SUBSET Case : Holds(s, known, reserved)'
  BY DEF Room
<1>1. PICK known \in SUBSET Case, reserved \in SUBSET Case : Holds(s, known, reserved)
  BY DEF Reserved, Room
<1>2. Changed(s)' = Changed(s)
  BY DEF Changed, Observed
<1>3. Changed(s)' \cup Present(pending)' \subseteq reserved
  BY <1>1, <1>2 DEF Holds
<1>4. /\ Accepted' \subseteq known \cup reserved
      /\ \A r \in Reviewers : \A e \in Entries(r)' : e.case \in reserved
  BY <1>1 DEF Holds
<1>5. status'[s] = "recording" =>
        retention'[s].accepted = known /\ retention'[s].pending = reserved
  BY <1>1 DEF Holds
<1>6. Cardinality(reserved) <= limits'.pending /\ Cardinality(known \cup reserved) <= limits'.project
  BY <1>1 DEF Holds
<1> QED
  BY <1>3, <1>4, <1>5, <1>6 DEF Holds

(* A sequence is one of its own elements. *)
LEMMA OwnElements ==
  ASSUME NEW X, NEW left \in Seq(X)
  PROVE  /\ left \in Seq({left[n] : n \in DOMAIN left})
         /\ {left[n] : n \in DOMAIN left} \subseteq X
<1>1. DOMAIN left = 1 .. Len(left) /\ Len(left) \in Nat /\ left \in [1 .. Len(left) -> X]
  BY LenProperties
<1> DEFINE Y == {left[n] : n \in DOMAIN left}
<1>2. left \in [1 .. Len(left) -> Y]
  BY <1>1
<1>3. left \in Seq(Y)
  BY <1>1, <1>2 DEF Seq
<1>4. Y \subseteq X
  BY <1>1
<1> QED
  BY <1>3, <1>4

(* A reviewer before its next candidate. *)
LEMMA NextIs ==
  ASSUME NEW left, NEW v, v = [Idle EXCEPT !.phase = "next", !.left = left]
  PROVE  IsReview(v) /\ v.left = left
BY DEF Idle, IsReview

LEMMA SameEntries ==
  ASSUME NEW r \in Reviewers, review'[r] = review[r], Queued(r)
  PROVE  Queued(r)' /\ Entries(r)' = Entries(r)
<1>1. Entries(r)' = Entries(r)
  BY DEF Entries
<1> QED
  BY <1>1 DEF Queued

(* A reviewer that moves on is left with what it had before it.             *)
LEMMA FewerLeft ==
  ASSUME Reserved, NEW r \in Reviewers, Proceeds(r) \/ Ends(r), review[r].phase # "idle"
  PROVE  /\ review' = [q \in Reviewers |-> review'[q]]
         /\ \A q \in Reviewers : Queued(q)' /\ Entries(q)' \subseteq Entries(q)
<1> DEFINE left == review[r].left
           rest == [Idle EXCEPT !.phase = "next", !.left = Tail(left)]
<1>1. left \in Seq(Entries(r)) /\ left # <<>>
  BY DEF Reserved, Queued
<1>2. /\ review' = [q \in Reviewers |-> review'[q]]
      /\ \A q \in Reviewers \ {r} : review'[q] = review[q]
      /\ review'[r] = Idle \/ (Len(left) # 1 /\ review'[r] = rest)
  BY DEF Reserved, Proceeds, Ends
<1>3. IsReview(Idle) /\ Idle.left = <<>> /\ Idle.phase = "idle"
  BY DEF Idle, IsReview
<1>4. IsReview(rest) /\ rest.left = Tail(left)
  BY NextIs DEF IsReview
<1> HIDE DEF left, rest
<1>5. CASE review'[r] = Idle
  <2>1. Entries(r)' = {} /\ <<>> \in Seq({})
    BY <1>3, <1>5, EmptySeq DEF Entries
  <2>2. Queued(r)'
    BY <1>3, <1>5, <2>1 DEF Queued
  <2>3. \A q \in Reviewers \ {r} : Queued(q)' /\ Entries(q)' = Entries(q)
    BY <1>2, SameEntries DEF Reserved
  <2> QED
    BY <1>2, <2>1, <2>2, <2>3
<1>6. CASE Len(left) # 1 /\ review'[r] = rest
  <2>1. Tail(left) \in Seq(Entries(r)) /\ Tail(left) # <<>>
    <3>1. Tail(left) \in Seq(Entries(r)) /\ Len(Tail(left)) = Len(left) - 1
      BY <1>1, HeadTailProperties
    <3>2. Len(left) \in Nat
      BY <1>1, LenProperties
    <3>3. Len(Tail(left)) # 0
      BY <1>6, <3>1, <3>2
    <3> QED
      BY <3>1, <3>3, EmptySeq
  <2>2. Entries(r)' \subseteq Entries(r) /\ review'[r].left \in Seq(Entries(r)')
    BY <1>4, <1>6, <2>1, OwnElements DEF Entries
  <2>3. Queued(r)'
    BY <1>4, <1>6, <2>1, <2>2 DEF Queued
  <2>4. \A q \in Reviewers \ {r} : Queued(q)' /\ Entries(q)' = Entries(q)
    BY <1>2, SameEntries DEF Reserved
  <2> QED
    BY <1>2, <2>2, <2>3, <2>4
<1> QED
  BY <1>2, <1>5, <1>6

(* What is shown is one of what is left. *)
LEMMA ShownIsLeft ==
  ASSUME Reserved, NEW r \in Reviewers, review[r].phase # "idle"
  PROVE  Shown(r) \in Entries(r)
BY HeadTailProperties DEF Reserved, Queued, Shown

(* A reviewer whose list stays. *)
LEMMA SameLeft ==
  ASSUME Reserved, NEW r \in Reviewers, NEW v, review' = [review EXCEPT ![r] = v],
         IsReview(v), v.left = review[r].left, review[r].phase # "idle"
  PROVE  /\ review' = [q \in Reviewers |-> review'[q]]
         /\ \A q \in Reviewers : Queued(q)' /\ Entries(q)' \subseteq Entries(q)
<1>1. /\ review' = [q \in Reviewers |-> review'[q]]
      /\ \A q \in Reviewers \ {r} : review'[q] = review[q]
      /\ review'[r] = v
  BY DEF Reserved
<1>2. \A q \in Reviewers : Entries(q)' = Entries(q)
  BY <1>1 DEF Entries
<1>3. \A q \in Reviewers : Queued(q)'
  BY <1>1, <1>2 DEF Reserved, Queued
<1> QED
  BY <1>1, <1>2, <1>3

(* A review begins over what is pending. *)
LEMMA BeginsOver ==
  ASSUME Reserved, NEW r \in Reviewers, Begin(r)
  PROVE  /\ review' = [q \in Reviewers |-> review'[q]]
         /\ \A q \in Reviewers : Queued(q)'
         /\ \A q \in Reviewers : \A e \in Entries(q)' : e \in Entries(q) \/ e.case \in Present(pending)
<1> DEFINE n == Cardinality(Present(pending))
<1>1. PICK order \in [1 .. n -> Present(pending)] :
        review' = [review EXCEPT ![r] =
            [Idle EXCEPT !.phase = "next",
               !.left = [i \in DOMAIN order |->
                           [case |-> order[i], candidate |-> pending[order[i]]]]]]
  BY DEF Begin
<1>2. n \in Nat \ {0}
  <2>1. Present(pending) \in SUBSET Case /\ Present(pending) # {}
    BY DEF Begin, Present
  <2> QED
    BY <2>1, CaseFinite, FS_EmptySet
<1> DEFINE left == [i \in 1 .. n |-> [case |-> order[i], candidate |-> pending[order[i]]]]
           v == [Idle EXCEPT !.phase = "next", !.left = left]
           X == {left[i] : i \in 1 .. n}
<1>3. left \in Seq(X) /\ left # <<>>
  <2>1. left \in [1 .. n -> X]
    OBVIOUS
  <2>2. 1 \in DOMAIN left
    BY <1>2
  <2> QED
    BY <1>2, <2>1, <2>2 DEF Seq
<1>4. \A x \in X : x.case \in Present(pending)
  OBVIOUS
<1>5. review' = [review EXCEPT ![r] = v]
  BY <1>1
<1>6. IsReview(v) /\ v.left = left
  <2> HIDE DEF left
  <2> QED
    BY NextIs DEF IsReview
<1> HIDE DEF left, v, X, n
<1>7. /\ review' = [q \in Reviewers |-> review'[q]]
      /\ \A q \in Reviewers \ {r} : review'[q] = review[q]
      /\ review'[r] = v
  BY <1>5 DEF Reserved
<1>8. Entries(r)' \subseteq X /\ left \in Seq(Entries(r)')
  BY <1>3, <1>6, <1>7, OwnElements DEF Entries
<1>9. \A q \in Reviewers \ {r} : Queued(q)' /\ Entries(q)' = Entries(q)
  BY <1>7, SameEntries DEF Reserved
<1>10. Queued(r)'
  BY <1>3, <1>6, <1>7, <1>8 DEF Queued
<1> QED
  BY <1>4, <1>7, <1>8, <1>9, <1>10
(* A review changes what is accepted and pending within what it shows.      *)
LEMMA ReviewWithin ==
  ASSUME SInv, Reserved, NEW r \in Reviewers, Reviews(r)
  PROVE  /\ review' = [q \in Reviewers |-> review'[q]]
         /\ \A q \in Reviewers : Queued(q)'
         /\ Present(pending)' \subseteq Present(pending)
         /\ Accepted' \subseteq Accepted \cup {e.case : e \in Entries(r)}
         /\ \A q \in Reviewers : \A e \in Entries(q)' : e \in Entries(q) \/ e.case \in Present(pending)
<1>1. CASE Begin(r)
  <2>1. UNCHANGED <<accepted, pending>>
    BY <1>1 DEF Begin
  <2>2. Present(pending)' = Present(pending) /\ Accepted' = Accepted
    BY <2>1 DEF Present, Accepted
  <2> QED
    BY <1>1, <2>2, BeginsOver
<1>2. CASE (Proceeds(r) \/ Ends(r)) /\ review[r].phase # "idle" /\ accepted' = accepted
           /\ (pending' = pending \/ \E c : pending' = [pending EXCEPT ![c] = Nothing])
  <2>1. Present(pending)' \subseteq Present(pending)
    BY <1>2 DEF Present, SInv, Typed
  <2>2. Accepted' = Accepted
    BY <1>2 DEF Accepted
  <2> QED
    BY <1>2, <2>1, <2>2, FewerLeft
<1>3. CASE Skip(r) \/ Quit(r)
  BY <1>2, <1>3 DEF Skip, Quit
<1>4. CASE Reject(r) \/ Conclude(r)
  BY <1>2, <1>4 DEF Reject, Conclude, Dismiss
<1>5. ASSUME NEW v, review' = [review EXCEPT ![r] = v], IsReview(v), v.left = review[r].left,
             review[r].phase # "idle", pending' = pending,
             accepted' = accepted \/ \E o : accepted' = [accepted EXCEPT ![Shown(r).case] = o]
      PROVE  /\ review' = [q \in Reviewers |-> review'[q]]
             /\ \A q \in Reviewers : Queued(q)'
             /\ Present(pending)' \subseteq Present(pending)
             /\ Accepted' \subseteq Accepted \cup {e.case : e \in Entries(r)}
             /\ \A q \in Reviewers : \A e \in Entries(q)' : e \in Entries(q) \/ e.case \in Present(pending)
  <2>1. Present(pending)' = Present(pending)
    BY <1>5 DEF Present
  <2>2. Accepted' \subseteq Accepted \cup {Shown(r).case}
    BY <1>5 DEF Accepted, SInv, Typed
  <2>3. Shown(r) \in Entries(r)
    BY <1>5, ShownIsLeft
  <2>4. Accepted' \subseteq Accepted \cup {e.case : e \in Entries(r)}
    BY <2>2, <2>3
  <2>5. /\ review' = [q \in Reviewers |-> review'[q]]
        /\ \A q \in Reviewers : Queued(q)' /\ Entries(q)' \subseteq Entries(q)
    BY <1>5, SameLeft
  <2> QED
    BY <2>1, <2>4, <2>5
<1>6. CASE Show(r)
  <2>1. review[r].phase # "idle" /\ UNCHANGED <<accepted, pending>>
    BY <1>6 DEF Show
  <2>2. CASE Ends(r)
    BY <1>2, <2>1, <2>2
  <2>3. CASE ~ Ends(r)
    <3> DEFINE v == [phase |-> "asked", left |-> review[r].left, candidate |-> Shown(r).candidate,
                     existing |-> accepted[Shown(r).case]]
    <3>1. review' = [review EXCEPT ![r] = v]
      BY <1>6, <2>3 DEF Show
    <3>2. IsReview(v) /\ v.left = review[r].left
      BY DEF IsReview
    <3> HIDE DEF v
    <3> QED
      BY <1>5, <2>1, <3>1, <3>2
  <2> QED
    BY <2>2, <2>3
<1>7. CASE Confirm(r) \/ Accept(r)
  <2>1. PICK phase : review' = [review EXCEPT ![r].phase = phase]
    BY <1>7 DEF Confirm, Accept
  <2> DEFINE v == [review[r] EXCEPT !.phase = phase]
  <2>2. review' = [review EXCEPT ![r] = v]
    BY <2>1
  <2>3. IsReview(v) /\ v.left = review[r].left
    BY DEF Reserved, Queued, IsReview
  <2>4. review[r].phase # "idle" /\ pending' = pending
    BY <1>7 DEF Confirm, Accept, Confirmed
  <2>5. accepted' = accepted \/ \E o : accepted' = [accepted EXCEPT ![Shown(r).case] = o]
    BY <1>7 DEF Confirm, Accept
  <2> HIDE DEF v
  <2> QED
    BY <1>5, <2>2, <2>3, <2>4, <2>5
<1> QED
  BY <1>1, <1>3, <1>4, <1>6, <1>7 DEF Reviews

LEMMA RetireWithin ==
  ASSUME SInv, NEW c \in Case, Retire(c)
  PROVE  /\ UNCHANGED <<pending, review>>
         /\ Accepted' \subseteq Accepted
BY DEF Retire, Accepted, SInv, Typed

LEMMA RInitOK == Init => Reserved
<1> SUFFICES ASSUME Init
             PROVE  Reserved
  OBVIOUS
<1>1. review = [r \in Reviewers |-> review[r]]
  BY DEF Init
<1>2. ASSUME NEW r \in Reviewers
      PROVE  Queued(r) /\ Entries(r) = {}
  <2>1. review[r] = Idle
    BY DEF Init
  <2>2. IsReview(Idle) /\ Idle.left = <<>> /\ Idle.phase = "idle"
    BY DEF Idle, IsReview
  <2>3. Entries(r) = {}
    BY <2>1, <2>2 DEF Entries
  <2> QED
    BY <2>1, <2>2, <2>3, EmptySeq DEF Queued
<1>3. retention = [s \in Sessions |-> [policy |-> retention[s].policy,
                    accepted |-> retention[s].accepted, pending |-> retention[s].pending]]
      /\ \A s \in Sessions : retention[s].accepted = Accepted /\ retention[s].pending = Present(pending)
  <2>1. retention \in [Sessions -> {[policy |-> p, accepted |-> Accepted,
                                 pending |-> Present(pending)] : p \in Policies}]
    BY DEF Init
  <2> QED
    BY <2>1
<1>4. ASSUME NEW s \in Sessions
      PROVE  Holds(s, Accepted, Present(pending))
  <2>1. Changed(s) = {}
    BY DEF Changed, Observed, Init
  <2> QED
    BY <1>2, <1>3, <2>1 DEF Holds, Init
<1>5. Accepted \in SUBSET Case /\ Present(pending) \in SUBSET Case
  BY DEF Accepted, Present
<1>6. \A s \in Sessions : Room(s)
  BY <1>4, <1>5 DEF Room
<1> QED
  BY <1>1, <1>2, <1>3, <1>6 DEF Reserved
(* Without a second session, nobody else makes candidates.                  *)
LEMMA SessionKeepsRoom ==
  ASSUME SInv, Reserved, NEW s \in Sessions, Steps(s), \A p, q \in Sessions : p = q
  PROVE  Reserved'
<1>1. review' = review
  BY DEF Steps, Seal, SealFails, Admit, Stop, Recover, Persist, Unlink, Write,
     WriteFails, Finish, Die
<1>2. \A r \in Reviewers : Queued(r)' /\ Entries(r)' = Entries(r)
  BY <1>1, SameEntries DEF Reserved
<1> DEFINE Counts ==
             retention' = [q \in Sessions |-> [policy |-> retention'[q].policy,
                 accepted |-> retention'[q].accepted, pending |-> retention'[q].pending]]
<1>3. Counts
  <2>1. CASE retention' = retention
    BY <2>1 DEF Reserved
  <2>2. ASSUME NEW c, retention' = [retention EXCEPT ![s].pending = @ \cup {c}]
        PROVE  Counts
    BY <2>2 DEF Reserved
  <2>3. CASE retention' = [retention EXCEPT ![s] = Ended]
    BY <2>3 DEF Reserved, Ended
  <2> QED
    BY <2>1, <2>2, <2>3 DEF Steps, Seal, SealFails, Admit, Reserve, Stop, Recover,
       Persist, Unlink, Write, WriteFails, Finish, Die
<1>4. Room(s)'
  <2>1. ASSUME NEW o \in Observation, Seal(s, o)
        PROVE  Room(s)'
    <3>1. o.case \in Case /\ Admit(s, o.case) /\ sealed'[s] = Append(sealed[s], o)
          /\ sealed[s] \in Seq(Observation)
      BY <2>1 DEF Seal, Observation, SInv, Typed
    <3>2. \A n \in DOMAIN sealed'[s] : sealed'[s][n] = o \/ \E m \in DOMAIN sealed[s] : sealed'[s][n] = sealed[s][m]
      BY <3>1, AppendProperties, LenProperties
    <3>3. Changed(s)' \subseteq Changed(s) \cup {o.case}
      BY <3>2 DEF Changed, Observed
    <3> QED
      BY <3>1, <3>3, RoomToSeal
  <2>2. ASSUME NEW c \in Case, SealFails(s, c)
        PROVE  Room(s)'
    <3>1. Changed(s)' = Changed(s)
      BY <2>2 DEF SealFails, Changed, Observed
    <3> QED
      BY <2>2, <3>1, RoomToSeal DEF SealFails
  <2>3. CASE Stop(s) \/ Recover(s) \/ Finish(s)
    <3>1. status'[s] \notin {"recording", "dead"}
      BY <2>3 DEF Stop, Recover, Persist, Finish, SInv, Typed
    <3> QED
      BY <3>1 DEF Room, Unformed
  <2>4. CASE Unlink(s) \/ Write(s) \/ WriteFails(s)
    <3>1. expected[s] # <<>> /\ expected' = expected
      BY <2>4 DEF Unlink, Write, WriteFails, SInv, Session, Begun
    <3> QED
      BY <3>1 DEF Room, Unformed
  <2>5. CASE Die(s)
    <3>1. /\ UNCHANGED <<limits, sealed, accepted, pending, expected>>
          /\ status'[s] = "dead"
          /\ Unformed(s)' => Unformed(s)
      BY <2>5 DEF Die, SInv, Typed, Session, Begun, Persisting, Unformed
    <3>2. Present(pending)' = Present(pending) /\ Accepted' = Accepted
      BY <3>1 DEF Present, Accepted
    <3>3. \A known, reserved \in SUBSET Case :
             Holds(s, known, reserved) => \A r \in Reviewers : \A e \in Entries(r)' : e.case \in reserved
      BY <1>2 DEF Holds
    <3> QED
      BY <3>1, <3>2, <3>3, RoomKept
  <2> QED
    BY <2>1, <2>2, <2>3, <2>4, <2>5 DEF Steps
<1>5. review' = [r \in Reviewers |-> review'[r]]
  BY <1>1 DEF Reserved
<1> QED
  BY <1>2, <1>3, <1>4, <1>5 DEF Reserved

LEMMA OthersKeepRoom ==
  ASSUME SInv, Reserved,
         /\ UNCHANGED <<limits, sealed, status, expected, retention>>
         /\ review' = [r \in Reviewers |-> review'[r]]
         /\ \A r \in Reviewers : Queued(r)'
         /\ Present(pending)' \subseteq Present(pending)
         /\ \E r \in Reviewers : Accepted' \subseteq Accepted \cup {e.case : e \in Entries(r)}
         /\ \A r \in Reviewers : \A e \in Entries(r)' : e \in Entries(r) \/ e.case \in Present(pending)
  PROVE  Reserved'
<1>1. ASSUME NEW s \in Sessions
      PROVE  Room(s)'
  <2>1. \A known, reserved \in SUBSET Case :
          Holds(s, known, reserved) =>
            /\ Accepted' \subseteq Accepted \cup reserved
            /\ \A r \in Reviewers : \A e \in Entries(r)' : e.case \in reserved
    BY DEF Holds
  <2>2. Unformed(s)' = Unformed(s)
    BY DEF Unformed
  <2> QED
    BY <2>1, <2>2, RoomKept
<1> QED
  BY <1>1 DEF Reserved

LEMMA RNextStep ==
  ASSUME SInv, Reserved, [Next]_vars, \A p, q \in Sessions : p = q
  PROVE  Reserved'
<1>1. CASE UNCHANGED <<limits, sealed, status, expected, retention, pending, review>>
           /\ Accepted' \subseteq Accepted
  <2>1. \A r \in Reviewers : Queued(r)' /\ Entries(r)' = Entries(r)
    BY <1>1, SameEntries DEF Reserved
  <2>2. Present(pending)' = Present(pending)
    BY <1>1 DEF Present
  <2>3. ASSUME NEW s \in Sessions
        PROVE  Room(s)'
    <3>1. \A known, reserved \in SUBSET Case :
            Holds(s, known, reserved) => \A r \in Reviewers : \A e \in Entries(r)' : e.case \in reserved
      BY <2>1 DEF Holds
    <3>2. Unformed(s)' = Unformed(s)
      BY <1>1 DEF Unformed
    <3> QED
      BY <1>1, <2>2, <3>1, <3>2, RoomKept
  <2> QED
    BY <1>1, <2>1, <2>3 DEF Reserved
<1>2. CASE UNCHANGED vars
  BY <1>1, <1>2 DEF vars, Accepted
<1>3. ASSUME NEW s \in Sessions, Steps(s)
      PROVE  Reserved'
  BY <1>3, SessionKeepsRoom
<1>4. ASSUME NEW r \in Reviewers, Reviews(r)
      PROVE  Reserved'
  <2>1. UNCHANGED <<limits, sealed, status, expected, retention>>
    BY <1>4 DEF Reviews, Begin, Show, Skip, Quit, Reject, Confirm, Accept, Conclude
  <2> QED
    BY <1>4, <2>1, ReviewWithin, OthersKeepRoom
<1>5. ASSUME NEW c \in Case, Retire(c)
      PROVE  Reserved'
  BY <1>1, <1>5, RetireWithin DEF Retire
<1> QED
  BY <1>2, <1>3, <1>4, <1>5 DEF Next, Steps, Reviews

(* With room for all that was sealed, each case of which there is one       *)
(* latest completion, and not the accepted one, forms its candidate.        *)
LEMMA FormsCandidate ==
  ASSUME SInv, Reserved, NEW s \in Sessions, Unformed(s), NEW c \in Changed(s),
         Cardinality(Latest(s, c)) = 1, accepted[c] \notin Latest(s, c)
  PROVE  Formed(s)[c] # Nothing
<1>1. PICK known \in SUBSET Case, reserved \in SUBSET Case : Holds(s, known, reserved)
  BY DEF Reserved, Room
<1>2. c \in Case
  BY ChangedIsCases DEF SInv
<1> DEFINE latest == [d \in Changed(s) |-> Latest(s, d)]
           others == Others(s)
           g == Forming(limits, accepted, latest, others)
           files == g[c - 1]
           output == CHOOSE o \in Latest(s, c) : TRUE
<1>3. others = [d \in Case |-> others[d]]
      /\ \A d \in Case : others[d] = IF d \in Changed(s) THEN Nothing ELSE pending[d]
  BY DEF Others
<1>4. DOMAIN latest = Changed(s) /\ latest[c] = Latest(s, c)
  OBVIOUS
<1>5. c \in 1 .. Cases /\ Cases \in Nat
  BY <1>2, StoreAssumption DEF Case
<1>6. Formed(s)[c] = g[c][c]
  BY <1>2, <1>3, FormingStays DEF Formed
<1>7. g[c] = FormStep(limits, accepted, latest, others, g, c)
  BY <1>5, FormingAt
<1>8. Grown(latest, others, files, c - 1)
  BY <1>3, <1>5, FormingGrows, c - 1 \in 0 .. Cases
<1> HIDE DEF latest, others, g, files
<1>9. g[c] = FormOne(limits, accepted, Latest(s, c), files, c)
  BY <1>4, <1>5, <1>7 DEF FormStep, files
<1>10. output \in Latest(s, c) /\ output \in Outputs
  <2>1. Latest(s, c) # {}
    BY FS_EmptySet
  <2>2. Latest(s, c) \subseteq Outputs
    <3>1. sealed[s] \in Seq(Observation)
      BY DEF SInv, Typed
    <3>2. Observed(s) \subseteq Observation
      BY <3>1, LenProperties DEF Observed
    <3> QED
      BY <3>2 DEF Latest, Observation
  <2> QED
    BY <2>1, <2>2
<1>11. Present(files) \subseteq reserved /\ c \notin Present(files) /\ c \in reserved
  <2>1. \A d \in Case : d \notin Changed(s) \/ d > c - 1 => files[d] = others[d]
    BY <1>4, <1>8 DEF Grown
  <2>2. Changed(s) \cup Present(pending) \subseteq reserved
    BY <1>1 DEF Holds
  <2>3. files[c] = Nothing
    BY <1>2, <1>3, <1>5, <2>1
  <2>4. \A d \in Case \ Changed(s) : files[d] = pending[d]
    BY <1>3, <2>1
  <2> QED
    BY <2>2, <2>3, <2>4 DEF Present
<1>12. Cardinality(Present(files)) < limits.pending
  <2>1. Cardinality(Present(files)) < Cardinality(reserved)
    BY <1>11, Smaller
  <2>2. Cardinality(Present(files)) \in Nat /\ Cardinality(reserved) \in Nat /\ limits.pending \in Nat
    BY <1>11, CaseFinite DEF SInv, Typed
  <2> QED
    BY <1>1, <2>1, <2>2 DEF Holds
<1>13. accepted[c] = None =>
         Cardinality(Accepted) + Cardinality(Present(files) \ Accepted) < limits.project
  <2> SUFFICES ASSUME accepted[c] = None
               PROVE  Cardinality(Accepted) + Cardinality(Present(files) \ Accepted) < limits.project
    OBVIOUS
  <2>1. Accepted \cup Present(files) \in SUBSET (known \cup reserved)
    BY <1>1, <1>11 DEF Holds
  <2>2. c \in (known \cup reserved) \ (Accepted \cup Present(files))
    BY <1>11 DEF Accepted
  <2>3. Cardinality(Accepted \cup Present(files)) < Cardinality(known \cup reserved)
    BY <2>1, <2>2, Smaller, known \cup reserved \in SUBSET Case
  <2>4. Cardinality(Accepted \cup Present(files)) = Cardinality(Accepted) + Cardinality(Present(files) \ Accepted)
    <3>1. Accepted \in SUBSET Case /\ Present(files) \in SUBSET Case
      BY DEF Accepted, Present
    <3> QED
      BY <3>1, Together
  <2>5. Cardinality(known \cup reserved) <= limits.project
    BY <1>1 DEF Holds
  <2>6. Cardinality(Accepted \cup Present(files)) \in Nat /\ Cardinality(known \cup reserved) \in Nat
        /\ limits.project \in Nat
    BY <2>1, CaseFinite, known \cup reserved \in SUBSET Case DEF SInv, Typed
  <2>7. Cardinality(Accepted \cup Present(files)) < limits.project
    <3> DEFINE m == Cardinality(Accepted \cup Present(files))
               n == Cardinality(known \cup reserved)
    <3>1. m < n /\ n <= limits.project /\ m \in Nat /\ n \in Nat /\ limits.project \in Nat
      BY <2>3, <2>5, <2>6
    <3> HIDE DEF m, n
    <3>2. m < limits.project
      BY <3>1
    <3> QED
      BY <3>2 DEF m
  <2> QED
    BY <2>4, <2>7
<1>14. g[c] = [files EXCEPT ![c] = [output |-> output, replaces |-> accepted[c] # None]]
  <2>1. accepted[c] # output
    BY <1>10
  <2>2. ~ (Cardinality(Latest(s, c)) > 1)
    OBVIOUS
  <2>3. ~ (Cardinality(Present(files)) >= limits.pending)
    <3>1. Cardinality(Present(files)) \in Nat /\ limits.pending \in Nat
      BY <1>11, CaseFinite DEF SInv, Typed
    <3> QED
      BY <1>12, <3>1
  <2>4. ~ (accepted[c] = None /\
            Cardinality(Accepted) + Cardinality(Present(files) \ Accepted) >= limits.project)
    <3>1. Cardinality(Accepted) \in Nat /\ Cardinality(Present(files) \ Accepted) \in Nat
          /\ limits.project \in Nat
      <4>1. Accepted \in SUBSET Case /\ Present(files) \ Accepted \in SUBSET Case
        BY DEF Accepted, Present
      <4> QED
        BY <4>1, CaseFinite DEF SInv, Typed
    <3> QED
      BY <1>13, <3>1
  <2> HIDE DEF output
  <2>5. output = CHOOSE o \in Latest(s, c) : TRUE
    BY DEF output
  <2> QED
    BY <1>9, <2>1, <2>2, <2>3, <2>4, <2>5, Zenon DEF FormOne, Accepted
<1>15. g[c][c] = [output |-> output, replaces |-> accepted[c] # None]
  BY <1>2, <1>8, <1>14 DEF Grown
<1>16. Nothing.output = None /\ g[c][c].output = output
  BY <1>15 DEF Nothing
<1>17. output # None
  BY <1>10, StoreAssumption
<1> HIDE DEF output
<1> QED
  BY <1>6, <1>16, <1>17

LEMMA FormsWhatWasSealed ==
  ASSUME SInv, Reserved, [Next]_vars, NEW s \in Sessions,
         expected[s] = <<>>, expected'[s] # <<>>, NEW c \in Changed(s),
         Cardinality(Latest(s, c)) = 1 /\ accepted[c] \notin Latest(s, c)
  PROVE  expected'[s][c] # Nothing
<1>1. Stop(s) \/ Recover(s)
  <2>1. CASE UNCHANGED vars
    BY <2>1 DEF vars
  <2>2. ASSUME NEW q \in Sessions, Steps(q)
        PROVE  Stop(s) \/ Recover(s)
    <3>1. CASE Stop(q) \/ Recover(q)
      <4>1. q = s
        BY <3>1 DEF Stop, Recover, Persist, SInv, Typed
      <4> QED
        BY <3>1, <4>1
    <3>2. CASE Finish(q)
      BY <3>2 DEF Finish, SInv, Typed
    <3> QED
      BY <2>2, <3>1, <3>2 DEF Steps, Seal, SealFails, Admit, Unlink, Write, WriteFails, Die
  <2>3. CASE (\E r \in Reviewers : Reviews(r)) \/ \E d \in Case : Retire(d)
    BY <2>3, ReviewersStep
  <2> QED
    BY <2>1, <2>2, <2>3 DEF Next, Steps, Reviews
<1>2. Unformed(s) /\ expected'[s] = Formed(s)
  BY <1>1 DEF Stop, Recover, Persist, Unformed, SInv, Typed
<1> QED
  BY <1>2, FormsCandidate

(* With one session, what was sealed is never dropped for a limit, whatever *)
(* was pending or accepted before and whatever was reviewed or retired      *)
(* since.                                                                   *)
THEOREM SealedForms ==
  ASSUME \A p, q \in Sessions : p = q
  PROVE  Spec => SealedIsFormed
<1>1. Init => SInv /\ Reserved
  BY SInitOK, RInitOK
<1>2. SInv /\ Reserved /\ [Next]_vars => SInv' /\ Reserved'
  BY SNextStep, RNextStep
<1>3. SInv /\ Reserved /\ [Next]_vars =>
        [\A s \in Sessions :
           expected[s] = <<>> /\ expected'[s] # <<>> =>
             \A c \in Changed(s) :
               Cardinality(Latest(s, c)) = 1 /\ accepted[c] \notin Latest(s, c) =>
                 expected'[s][c] # Nothing]_vars
  BY FormsWhatWasSealed
<1> QED
  BY <1>1, <1>2, <1>3, PTL DEF Spec, SealedIsFormed
=============================================================================
