---------------------------- MODULE CandidateStore ----------------------------
(***************************************************************************)
(* The durable side of development recording: which observations a session *)
(* seals (loadDevRetention in src/dev-retention.ts), what it makes of them *)
(* when it stops or is recovered (persistDevObservations and               *)
(* loadDevArtifactIndex in src/dev-artifacts.ts, stop and                  *)
(* recoverDevelopment in src/dev-server.ts), and what a reviewer makes of  *)
(* the pending candidates (reviewDevCandidates).                           *)
(*                                                                         *)
(* Processes share nothing but files: the accepted cases, the pending      *)
(* candidates and, per session, the sealed observations and the result     *)
(* that marks it finished.  Writing a file (atomicWrite) and unlinking it  *)
(* are one step each; the index a process loads is read in one step.  A    *)
(* process may die before each step, and a server that failed to stop has  *)
(* to die before its session can be recovered.                             *)
(***************************************************************************)
EXTENDS Integers, FiniteSets, Sequences

CONSTANTS
  Sessions,      \* recorded sessions
  Reviewers,     \* reviews, each a process
  Cases,         \* bound: cases 1 .. Cases, in the order of their ids
  Outputs,       \* completions a call may have
  Generations,   \* bound: source generations 1 .. Generations
  MaxSealed,     \* bound: observations sealed in all
  MaxFaults,     \* bound: deaths and failed writes
  Limits,        \* of a project: its pending candidates, its cases (both 1000)
  Callable, Group,  \* of each case: its callable, its arguments and operations
  Policies,      \* retention policies: None, or limits per callable and per group
  None

Case == 1 .. Cases

ASSUME StoreAssumption ==
  /\ Cases \in Nat \ {0} /\ Generations \in Nat
  /\ MaxSealed \in Nat /\ MaxFaults \in Nat
  /\ Limits \subseteq [pending : Nat, project : Nat]
  /\ DOMAIN Callable = Case /\ DOMAIN Group = Case
  /\ \A c, d \in Case : Group[c] = Group[d] => Callable[c] = Callable[d]
  /\ None \notin Outputs \cup Sessions

VARIABLES
  limits,        \* the limits, which never change
  sealed,        \* per session, the observations on disk, in order
  retention,     \* per session: its policy, and the cases it counts as accepted or pending
  status,        \* what the session is doing
  unlinks,       \* per session, the candidates it still has to unlink
  writes,        \* per session, the candidates it still has to write
  accepted,      \* the accepted completion of each case
  pending,       \* the pending candidate of each case
  review,        \* per reviewer: phase, candidates left, what it showed
  faults,        \* faults so far
  expected,      \* history: what an unfinished session is to leave in pending
  touched        \* history: sessions others came between since they first loaded the files

vars == <<limits, sealed, retention, status, unlinks, writes, accepted, pending, review, faults, expected, touched>>

Observation == [case : Case, generation : 1 .. Generations, output : Outputs]
Candidate == [output : Outputs, replaces : BOOLEAN]
Nothing == [output |-> None, replaces |-> FALSE]     \* no such file

\* A session that records no more.
Ended == [policy |-> None, accepted |-> {}, pending |-> {}]
Idle == [phase |-> "idle", left |-> <<>>, candidate |-> Nothing, existing |-> None]

-----------------------------------------------------------------------------
(* persistDevObservations: what it forms *)

Observed(s) == {sealed[s][n] : n \in DOMAIN sealed[s]}
Changed(s) == {o.case : o \in Observed(s)}

(* The latest generation that has observed a case supplies its candidates.      *)
Latest(s, c) ==
  {o.output : o \in {p \in Observed(s) :
     p.case = c /\ \A q \in Observed(s) : q.case = c => q.generation <= p.generation}}

Present(files) == {c \in Case : files[c] # Nothing}
Accepted == {c \in Case : accepted[c] # None}

(* Conflicting completions, an accepted one and the limits form nothing.    *)
FormOne(limit, kept, outputs, files, c) ==
  LET output == CHOOSE o \in outputs : TRUE
      known == {d \in Case : kept[d] # None}
  IN  IF \/ Cardinality(outputs) > 1
         \/ kept[c] = output
         \/ Cardinality(Present(files)) >= limit.pending
         \/ /\ kept[c] = None
            /\ Cardinality(known) + Cardinality(Present(files) \ known) >= limit.project
      THEN files
      ELSE [files EXCEPT ![c] = [output |-> output, replaces |-> kept[c] # None]]

(* The cases observed, in the order of their ids, over the candidates of    *)
(* the others.                                                              *)
FormAll(limit, kept, latest, others) ==
  LET formed[c \in 0 .. Cases] ==
        IF c = 0 THEN others
        ELSE IF c \in DOMAIN latest THEN FormOne(limit, kept, latest[c], formed[c - 1], c)
        ELSE formed[c - 1]
  IN  formed[Cases]

Others(s) == [c \in Case |-> IF c \in Changed(s) THEN Nothing ELSE pending[c]]
Formed(s) == FormAll(limits, accepted, [c \in Changed(s) |-> Latest(s, c)], Others(s))

(* Mutant: what is formed anew is unlinked first, too.                      *)
RemovedAll(s) == Changed(s) \cap Present(pending)
Removed(s) == (Changed(s) \cap Present(pending)) \ Present(Formed(s))

-----------------------------------------------------------------------------
(* A session *)

SealedInAll == Cardinality(UNION {{s} \X DOMAIN sealed[s] : s \in Sessions})

(* What is pending, or was retained, counts against the limits for the      *)
(* session's whole life; what was accepted when it began is not limited.    *)
Counted(s, same(_)) == Cardinality({c \in retention[s].pending : same(c)})
InPolicy(s, c) ==
  LET policy == retention[s].policy
      Grouped(d) == Group[d] = Group[c]
      Called(d) == Callable[d] = Callable[c]
  IN  policy # None =>
        Counted(s, Grouped) < policy.maxPerGroup /\ Counted(s, Called) < policy.maxPerCallable

(* Mutant: a case the session retained itself is not counted.               *)
ReserveNothing(s, c) == retention
Reserve(s, c) == [retention EXCEPT ![s].pending = @ \cup {c}]

Retained(s, c) ==
  LET known == retention[s].accepted  reserved == retention[s].pending
  IN  \/ c \in reserved
      \/ /\ c \in known \/ InPolicy(s, c)
         /\ Cardinality(reserved) < limits.pending
         /\ c \in known \/ Cardinality(known) + Cardinality(reserved \ known) < limits.project

(* An observation is admitted, then written; one that is not retained is    *)
(* counted in the report and let go.                                        *)
Admit(s, c) ==
  /\ status[s] = "recording"
  /\ SealedInAll < MaxSealed
  /\ Retained(s, c)
  /\ retention' = Reserve(s, c)
  /\ UNCHANGED <<limits, status, unlinks, writes, accepted, pending, review, expected, touched>>

Seal(s, o) ==
  /\ Admit(s, o.case)
  /\ sealed' = [sealed EXCEPT ![s] = Append(@, o)]
  /\ UNCHANGED faults

SealFails(s, c) ==
  /\ Admit(s, c)
  /\ faults < MaxFaults
  /\ faults' = faults + 1
  /\ UNCHANGED sealed

(* stop and recoverDevelopment up to the first write: the index is loaded   *)
(* and the candidates are formed.  Only a session whose process is dead and *)
(* that has no result is recovered.                                         *)
Persist(s, from, to) ==
  /\ status[s] = from
  /\ status' = [status EXCEPT ![s] = to]
  /\ unlinks' = [unlinks EXCEPT ![s] = Removed(s)]
  /\ writes' = [writes EXCEPT ![s] = [c \in Changed(s) \cap Present(Formed(s)) |-> Formed(s)[c]]]
  /\ IF expected[s] = <<>>
     THEN expected' = [expected EXCEPT ![s] = Formed(s)]
     ELSE UNCHANGED expected
  /\ retention' = [retention EXCEPT ![s] = Ended]
  /\ UNCHANGED <<limits, sealed, accepted, pending, review, faults, touched>>

Stop(s) == Persist(s, "recording", "stopping")
Recover(s) == Persist(s, "dead", "recovering")

Persisting(s) == status[s] \in {"stopping", "recovering"}
First(S) == CHOOSE c \in S : \A d \in S : c <= d

(* Everyone else that has loaded the candidates has a stale view of them.   *)
Touch(by) == touched' = touched \cup {s \in Sessions \ {by} : expected[s] # <<>>}

Forgets(s) ==
  /\ unlinks' = [unlinks EXCEPT ![s] = {}]
  /\ writes' = [writes EXCEPT ![s] = <<>>]

(* An exception: the command ends, the server stays but cannot stop again.  *)
GivesUp(s) ==
  /\ status' = [status EXCEPT ![s] = IF @ = "stopping" THEN "stuck" ELSE "dead"]
  /\ Forgets(s)

Unlink(s) ==
  /\ Persisting(s)
  /\ unlinks[s] # {}
  /\ LET c == First(unlinks[s])
     IN  \/ /\ pending[c] # Nothing
            /\ pending' = [pending EXCEPT ![c] = Nothing]
            /\ unlinks' = [unlinks EXCEPT ![s] = @ \ {c}]
            /\ Touch(s)
            /\ UNCHANGED <<status, writes>>
         \/ /\ pending[c] = Nothing
            /\ GivesUp(s)
            /\ UNCHANGED <<pending, touched>>
  /\ UNCHANGED <<limits, sealed, retention, accepted, review, faults, expected>>

Write(s) ==
  /\ Persisting(s)
  /\ unlinks[s] = {}
  /\ DOMAIN writes[s] # {}
  /\ LET c == First(DOMAIN writes[s])
     IN  /\ pending' = [pending EXCEPT ![c] = writes[s][c]]
         /\ writes' = [writes EXCEPT ![s] = [d \in DOMAIN @ \ {c} |-> @[d]]]
         /\ Touch(s)
  /\ UNCHANGED <<limits, sealed, retention, status, unlinks, accepted, review, faults, expected>>

WriteFails(s) ==
  /\ Persisting(s)
  /\ faults < MaxFaults
  /\ faults' = faults + 1
  /\ GivesUp(s)
  /\ UNCHANGED <<limits, sealed, retention, accepted, pending, review, expected, touched>>

(* Mutant: the result is written as soon as the candidates are formed.      *)
WrittenEarly(s) == unlinks[s] = {}
Written(s) == unlinks[s] = {} /\ DOMAIN writes[s] = {}

(* result.json, the last file of a session. *)
Finish(s) ==
  /\ Persisting(s)
  /\ Written(s)
  /\ status' = [status EXCEPT ![s] = "finished"]
  /\ expected' = [expected EXCEPT ![s] = <<>>]
  /\ touched' = touched \ {s}
  /\ UNCHANGED <<limits, sealed, retention, unlinks, writes, accepted, pending, review, faults>>

Die(s) ==
  /\ \/ status[s] = "stuck" /\ UNCHANGED faults
     \/ /\ status[s] \in {"recording", "stopping", "recovering"}
        /\ faults < MaxFaults
        /\ faults' = faults + 1
  /\ status' = [status EXCEPT ![s] = "dead"]
  /\ retention' = [retention EXCEPT ![s] = Ended]
  /\ Forgets(s)
  /\ UNCHANGED <<limits, sealed, accepted, pending, review, expected, touched>>

-----------------------------------------------------------------------------
(* A reviewer *)

Shown(r) == Head(review[r].left)

Proceeds(r) ==
  review' = [review EXCEPT ![r] =
    IF Len(@.left) = 1 THEN Idle
    ELSE [Idle EXCEPT !.phase = "next", !.left = Tail(review[r].left)]]

Ends(r) == review' = [review EXCEPT ![r] = Idle]

(* The candidates are shown where their calls are, those of one group in    *)
(* the order of their ids.                                                  *)
Begin(r) ==
  /\ review[r].phase = "idle"
  /\ Present(pending) # {}
  /\ \E order \in [1 .. Cardinality(Present(pending)) -> Present(pending)] :
       /\ \A m, n \in DOMAIN order :
            m < n => /\ order[m] # order[n]
                     /\ Group[order[m]] = Group[order[n]] => order[m] < order[n]
       /\ review' = [review EXCEPT ![r] =
            [Idle EXCEPT !.phase = "next",
               !.left = [n \in DOMAIN order |->
                           [case |-> order[n], candidate |-> pending[order[n]]]]]]
  /\ UNCHANGED <<limits, sealed, retention, status, unlinks, writes, accepted, pending, faults, expected, touched>>

(* The candidate is shown with the case it would replace, and the reviewer  *)
(* takes any time to decide.                                                *)
Show(r) ==
  /\ review[r].phase = "next"
  /\ IF Shown(r).candidate.replaces /\ accepted[Shown(r).case] = None
     THEN Ends(r)
     ELSE review' = [review EXCEPT ![r] =
            [phase |-> "asked", left |-> @.left, candidate |-> Shown(r).candidate,
             existing |-> accepted[Shown(r).case]]]
  /\ UNCHANGED <<limits, sealed, retention, status, unlinks, writes, accepted, pending, faults, expected, touched>>

Skip(r) ==
  /\ review[r].phase = "asked"
  /\ Proceeds(r)
  /\ UNCHANGED <<limits, sealed, retention, status, unlinks, writes, accepted, pending, faults, expected, touched>>

(* No decision, an unconfirmed replacement, or the process ends.            *)
Quit(r) ==
  /\ review[r].phase # "idle"
  /\ Ends(r)
  /\ UNCHANGED <<limits, sealed, retention, status, unlinks, writes, accepted, pending, faults, expected, touched>>

(* The file may be gone by now: then the review fails.                      *)
Dismiss(r) ==
  LET c == Shown(r).case
  IN  IF pending[c] = Nothing
      THEN Ends(r) /\ UNCHANGED <<pending, touched>>
      ELSE /\ pending' = [pending EXCEPT ![c] = Nothing]
           /\ Touch(None)
           /\ Proceeds(r)

Reject(r) ==
  /\ review[r].phase = "asked"
  /\ Dismiss(r)
  /\ UNCHANGED <<limits, sealed, retention, status, unlinks, writes, accepted, faults, expected>>

(* A case that exists is replaced only after a second question.  Mutant: it *)
(* is not asked.                                                            *)
ConfirmedAlways(r) == review[r].phase = "asked"
Confirmed(r) == review[r].phase = IF review[r].existing = None THEN "asked" ELSE "confirmed"

Confirm(r) ==
  /\ review[r].phase = "asked"
  /\ review[r].existing # None
  /\ review' = [review EXCEPT ![r].phase = "confirmed"]
  /\ UNCHANGED <<limits, sealed, retention, status, unlinks, writes, accepted, pending, faults, expected, touched>>

Accept(r) ==
  /\ Confirmed(r)
  /\ accepted' = [accepted EXCEPT ![Shown(r).case] = review[r].candidate.output]
  /\ review' = [review EXCEPT ![r].phase = "accepted"]
  /\ Touch(None)
  /\ UNCHANGED <<limits, sealed, retention, status, unlinks, writes, pending, faults, expected>>

Conclude(r) ==
  /\ review[r].phase = "accepted"
  /\ Dismiss(r)
  /\ UNCHANGED <<limits, sealed, retention, status, unlinks, writes, accepted, faults, expected>>

(* A developer retires an accepted case by deleting its file.               *)
Retire(c) ==
  /\ accepted[c] # None
  /\ accepted' = [accepted EXCEPT ![c] = None]
  /\ Touch(None)
  /\ UNCHANGED <<limits, sealed, retention, status, unlinks, writes, pending, review, faults, expected>>

-----------------------------------------------------------------------------
(* A session may begin over any accepted cases and candidates.              *)
Init ==
  /\ limits \in Limits
  /\ sealed = [s \in Sessions |-> <<>>]
  /\ status = [s \in Sessions |-> "recording"]
  /\ unlinks = [s \in Sessions |-> {}]
  /\ writes = [s \in Sessions |-> <<>>]
  /\ accepted \in [Case -> Outputs \cup {None}]
  /\ \E files \in [Case -> Outputs \cup {None}] :
       pending = [c \in Case |-> IF files[c] = None THEN Nothing
                                 ELSE [output |-> files[c], replaces |-> accepted[c] # None]]
  /\ \A c \in Present(pending) : pending[c].output # accepted[c]
  /\ Cardinality(Present(pending)) <= limits.pending
  /\ Cardinality(Accepted \cup Present(pending)) <= limits.project
  /\ retention \in [Sessions -> {[policy |-> p, accepted |-> Accepted,
                                 pending |-> Present(pending)] : p \in Policies}]
  /\ review = [r \in Reviewers |-> Idle]
  /\ faults = 0
  /\ expected = [s \in Sessions |-> <<>>]
  /\ touched = {}

Next ==
  \/ \E s \in Sessions :
       \/ \E o \in Observation : Seal(s, o)
       \/ \E c \in Case : SealFails(s, c)
       \/ Stop(s) \/ Recover(s)
       \/ Unlink(s) \/ Write(s) \/ WriteFails(s) \/ Finish(s) \/ Die(s)
  \/ \E r \in Reviewers :
       \/ Begin(r) \/ Show(r) \/ Skip(r) \/ Quit(r) \/ Reject(r)
       \/ Confirm(r) \/ Accept(r) \/ Conclude(r)
  \/ \E c \in Case : Retire(c)

Spec == Init /\ [][Next]_vars

-----------------------------------------------------------------------------
(* Properties *)

(* An accepted expectation changes only after the one it replaces was shown *)
(* and the replacement confirmed: no recording, recovery or batch decision  *)
(* changes one.                                                             *)
OracleChangesOnlyAsShown ==
  [][ \A c \in Case :
        accepted[c] # None /\ accepted'[c] \notin {None, accepted[c]} =>
          \E r \in Reviewers :
            /\ review[r].phase = "confirmed"
            /\ Shown(r).case = c
            /\ review[r].existing = accepted[c] ]_vars

(* However often a stop or a recovery of a session fails half-way and is    *)
(* run again over what it left, the pending candidates end as the first     *)
(* attempt would have left them, where nobody else came in between.         *)
RecoveryConverges ==
  [][ \A s \in Sessions :
        status'[s] = "finished" /\ status[s] # "finished" /\ s \notin touched =>
          pending' = expected[s] ]_vars

(* While a session replaces a candidate by a new one, and if it dies on the *)
(* way, either the old or the new one is on disk.                           *)
OldOrNew ==
  [][ \A s \in Sessions, c \in Case :
        /\ status[s] = "stopping" \/ status[s] = "recovering"
        /\ expected[s][c] # Nothing
        /\ s \notin touched'
        /\ pending[c] # Nothing
        => pending'[c] # Nothing ]_vars

(* The limits that stop a session bite when an observation is admitted and  *)
(* never after: each case of which a session has sealed one latest          *)
(* completion that is not the accepted one becomes a candidate, whatever    *)
(* was pending before and whatever a reviewer or the developer did since.   *)
SealedIsFormed ==
  [][ \A s \in Sessions :
        expected[s] = <<>> /\ expected'[s] # <<>> =>
          \A c \in Changed(s) :
            Cardinality(Latest(s, c)) = 1 /\ accepted[c] \notin Latest(s, c) =>
              expected'[s][c] # Nothing ]_vars
=============================================================================
