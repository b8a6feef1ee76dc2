----------------------------- MODULE Verification -----------------------------
(* The verify command (cli.ts), which replays every accepted case of both
   artifact versions: the preflights that requalify the current source
   (verification.ts, dev-verify.ts), the isolated validation of the value
   adapters, the one Vitest process that replays the V1 cases
   (project-execution.ts) and the child process that each V2 case has
   (dev-verify.ts).  The project is edited while the command runs, child
   processes die, hang and run out of time.

   A case is a position in the order of the files; Version, Profile and Adapted
   say of each which schema it has, under which runtime profile it was recorded
   and whether it holds an adapted value.                                 *)
EXTENDS Naturals, FiniteSets, Sequences

CONSTANTS Version, Profile, Adapted,
          MaxEdits,      \* bound: edits of the project while verify runs
          MaxFaults,     \* bound: processes that fail for reasons of their own
          Absent

Cases == DOMAIN Version
Sources == {"same", "changed", "hangs", "ineligible", "gone"}

\* A running process: the cases it runs, those whose adapted values its registry
\* has decoded, and the states of its source each case was loaded from, more than
\* one when the project was edited between two of its modules.
Child == [group : SUBSET Cases, decoded : SUBSET Cases,
          loaded : [Cases -> SUBSET Sources]]

ASSUME VerificationAssumption ==
  /\ Version \in Seq({1, 2}) /\ DOMAIN Profile = DOMAIN Version
  /\ Adapted \subseteq DOMAIN Version
  /\ MaxEdits \in Nat /\ MaxFaults \in Nat
  /\ Absent \notin Nat \cup Child

VARIABLES
  stored,     \* the cases in the store
  malformed,  \* of these, the ones that do not parse
  source,     \* what the current source of a case's callable would do
  adapters,   \* whether the project's registry decodes the adapted values
  phase,      \* what verify is doing
  todo,       \* the cases, or groups of cases, this phase has still to do
  prepared,   \* what the V1 preflight found in the source of each case
  refused,    \* a V1 document whose adapters were refused
  child,      \* the running child process: its group and what it has loaded
  marker,     \* the V1 harness left its marker file
  status,     \* the worst exit of the V2 children so far, or a failed test of V1
  exit,       \* the exit status of verify
  qualified, validated, outcome, \* history: the cases whose source was found
              \* eligible, those whose adapters were, how each replay ended
  died, killed, \* history: V2 cases whose replay process died with exit code 1,
                \* whether a child ran out of time
  edits, faults

projectVars == <<stored, malformed, source, adapters, edits>>
childVars == <<died, killed>>
historyVars == <<qualified, validated, outcome, childVars>>
workVars == <<todo, prepared, refused, child, marker, status>>
vars == <<projectVars, historyVars, workVars, phase, exit, faults>>

Fault == faults < MaxFaults /\ faults' = faults + 1

Of(version) == {c \in stored : Version[c] = version}
IsFirst(c, s) == c \in s /\ \A d \in s : c <= d

\* How V2 cases share a child: by profile to validate, alone to replay.  The
\* project has a configuration, without which groups need no validation.
Groups(by) == IF by = "replay2" THEN {{c} : c \in Of(2)}
              ELSE {{c \in Of(2) : Profile[c] = p} : p \in {Profile[c] : c \in Of(2)}}

Leave(code) == phase' = "done" /\ exit' = code
Enter(next, what) == phase' = next /\ todo' = what /\ UNCHANGED exit

(***************************** the preflights *****************************)

\* The files are read and parsed.  Without V1 cases the V2 verifier, which
\* preflights for itself, follows the first preflight.
Parse ==
  /\ phase = "parse"
  /\ CASE stored = {} -> Leave(0) /\ UNCHANGED todo
       [] malformed # {} -> Leave(2) /\ UNCHANGED todo
       [] OTHER -> IF Of(1) # {} THEN Enter("prepare1", Of(1)) ELSE Enter("preflight2", Of(2))
  /\ UNCHANGED <<historyVars, prepared, refused, child, marker, status, faults>>

\* The source of the next V1 case is read and analysed; the catalog of trusted
\* packages, asked for in a process of its own, may be unavailable.
Prepare ==
  /\ phase = "prepare1"
  /\ \/ /\ todo = {}
        /\ Enter("eligible1", Of(1)) /\ UNCHANGED prepared
     \/ \E c \in Cases :
          /\ IsFirst(c, todo)
          /\ IF source[c] = "gone" THEN Leave(2) /\ UNCHANGED <<todo, prepared>>
             ELSE /\ prepared' = [prepared EXCEPT ![c] = source[c]]
                  /\ todo' = todo \ {c} /\ UNCHANGED <<phase, exit>>
  /\ UNCHANGED <<historyVars, refused, child, marker, status, faults>>

\* Once all are prepared they are judged: one ineligible case refuses the run.
Judge ==
  /\ phase = "eligible1"
  /\ IF \E c \in Of(1) : prepared[c] = "ineligible"
     THEN Leave(2) /\ UNCHANGED <<todo, qualified>>
     ELSE /\ qualified' = qualified \cup Of(1)
          /\ IF Of(2) # {} THEN Enter("preflight2", Of(2)) ELSE Enter("adapters1", Of(1))
  /\ UNCHANGED <<validated, outcome, childVars, prepared, refused, child, marker, status,
                 faults>>

Eligible(c) == source[c] \notin {"gone", "ineligible"}

\* The V2 preflight, of the command first and of verifyDevCases again, asks the
\* analysis of the current source for each case in turn.
Preflight2(from, next, what) ==
  /\ phase = from
  /\ \/ todo = {} /\ Enter(next, what) /\ UNCHANGED qualified
     \/ \E c \in Cases :
          /\ IsFirst(c, todo)
          /\ IF Eligible(c)
             THEN /\ qualified' = qualified \cup {c} /\ todo' = todo \ {c}
                  /\ UNCHANGED <<phase, exit>>
             ELSE Leave(2) /\ UNCHANGED <<todo, qualified>>
  /\ UNCHANGED <<validated, outcome, childVars, prepared, refused, child, marker, status,
                 faults>>

Preflight ==
  \/ Parse \/ Prepare \/ Judge
  \/ Preflight2("preflight2", IF Of(1) # {} THEN "adapters1" ELSE "recheck2",
                IF Of(1) # {} THEN Of(1) ELSE Of(2))
  \/ Preflight2("recheck2", "readapt2", Groups("readapt2"))

(************************* validation of the adapters *********************)

\* Validators of single V1 documents run side by side, each in its process; a
\* document without an adapted value needs none.  One that fails, or is killed
\* after its time, refuses its document, and the run once all have ended.
Accepts(c) == c \notin Adapted \/ adapters = "valid"
Validate1(c) ==
  /\ phase = "adapters1" /\ c \in todo
  /\ todo' = todo \ {c}
  /\ \/ Accepts(c) /\ validated' = validated \cup {c} /\ UNCHANGED <<refused, faults>>
     \/ ~Accepts(c) /\ refused' = TRUE /\ UNCHANGED <<validated, faults>>
     \/ c \in Adapted /\ Fault /\ refused' = TRUE /\ UNCHANGED validated
  /\ UNCHANGED <<phase, exit, qualified, outcome, childVars, prepared, child, marker, status>>

\* Mutant: the V1 targets run before the adapters of V2 are validated.
ReplayNext == Enter("replay1", Of(1))

\* The adapters of V2 are validated as well before anything is replayed.
ReplayNextOrValidate == IF Of(2) # {} THEN Enter("adapters2", Groups("adapters2"))
                        ELSE Enter("replay1", Of(1))
EndValidate1 ==
  /\ phase = "adapters1" /\ todo = {}
  /\ IF refused THEN Leave(2) /\ UNCHANGED todo ELSE ReplayNextOrValidate
  /\ UNCHANGED <<historyVars, prepared, refused, child, marker, status, faults>>

(************************** the replay of V1 cases ************************)

\* One process imports the modules of all cases as they are now, so that one
\* that does not load fails all; nothing limits its time.
Start1 ==
  /\ phase = "replay1" /\ child = Absent
  /\ IF \E c \in Of(1) : source[c] = "gone"
     THEN Leave(2) /\ UNCHANGED child
     ELSE /\ child' = [group |-> Of(1), decoded |-> {c \in Of(1) : Accepts(c)},
                       loaded |-> [c \in Cases |-> {source[c]}]]
          /\ UNCHANGED <<phase, exit>>
  /\ UNCHANGED <<historyVars, todo, prepared, refused, marker, status, faults>>

\* What a callable does with recorded arguments; one that is not eligible, or was
\* loaded from several states of its source, may do either.
Outcomes(loaded) == CASE loaded = {"same"} -> {"same"}
                      [] loaded = {"changed"} -> {"different"}
                      [] loaded = {"hangs"} -> {}
                      [] OTHER -> {"same", "different"}

\* A test decodes the arguments, invokes the target and compares, in the order
\* of the cases.  A mismatch appends to the marker file before it throws.
Test1 ==
  /\ phase = "replay1" /\ child # Absent
  /\ \E c \in Cases :
     /\ IsFirst(c, todo)
     /\ todo' = todo \ {c}
     /\ IF c \notin child.decoded THEN status' = 2 /\ UNCHANGED <<outcome, marker>>
        ELSE \E o \in Outcomes(child.loaded[c]) :
               /\ outcome' = [outcome EXCEPT ![c] = o]
               /\ marker' = (marker \/ o = "different")
               /\ status' = IF o = "different" THEN 2 ELSE status
  /\ UNCHANGED <<phase, exit, qualified, validated, childVars, prepared, refused, child, faults>>

\* Mutant: any failing test is a mismatch.
AnyFailure == status # 0

\* A mismatch has left the marker, whatever else failed.
Mismatched == status # 0 /\ marker

\* A process that ends by a signal, or fails before any mismatch, is a failure of
\* the infrastructure; one that dies after a mismatch has left its marker.
End1 ==
  /\ phase = "replay1" /\ child # Absent
  /\ \/ /\ todo = {} /\ UNCHANGED faults
        /\ CASE Mismatched -> Leave(1) /\ UNCHANGED todo
             [] status # 0 /\ ~Mismatched -> Leave(2) /\ UNCHANGED todo
             [] OTHER -> IF Of(2) # {} THEN Enter("recheck2", Of(2))
                         ELSE Leave(0) /\ UNCHANGED todo
     \/ Fault /\ Leave(2) /\ UNCHANGED todo
     \/ Fault /\ marker /\ Leave(1) /\ UNCHANGED todo
  /\ child' = Absent
  /\ UNCHANGED <<historyVars, prepared, refused, marker, status>>

(************************* the children of V2 *****************************)

Phases2 == {"adapters2", "readapt2", "replay2"}

\* A child starts with a preflight of its own group; a group that is no longer
\* eligible ends it.
Spawn2 ==
  /\ phase \in Phases2 /\ child = Absent
  /\ \E g \in todo :
       /\ todo' = todo \ {g}
       /\ IF \A c \in g : Eligible(c)
          THEN /\ child' = [group |-> g, decoded |-> {}, loaded |-> [c \in Cases |-> {}]]
               /\ UNCHANGED status
          ELSE status' = 2 /\ UNCHANGED child
  /\ UNCHANGED <<phase, exit, historyVars, prepared, refused, marker, faults>>

\* Mutant: the last child decides.
CloseLast(result) == status' = result /\ child' = Absent

\* The child is gone; the worst result so far is kept.
Close(result) == /\ status' = IF result > status THEN result ELSE status
                 /\ child' = Absent

\* The module of its tests imports the registry and decodes every adapted value.
\* A validator ends with that; a replay may then import its target.
Validated2 ==
  /\ phase \in Phases2 /\ child # Absent /\ child.decoded = {}
  /\ IF \E c \in child.group : ~Accepts(c) THEN Close(2) /\ UNCHANGED validated
     ELSE /\ validated' = validated \cup child.group
          /\ IF phase = "replay2"
             THEN child' = [child EXCEPT !.decoded = child.group] /\ UNCHANGED status
             ELSE Close(0)
  /\ UNCHANGED <<phase, todo, exit, qualified, outcome, childVars, prepared, refused, marker,
                 faults>>

\* The target's module is read, judged by an analysis that is current now, and
\* instrumented: a callable that is not eligible has no export to replay.
Import2 ==
  /\ phase = "replay2" /\ child # Absent
  /\ \E c \in child.decoded :
     /\ child.loaded[c] = {}
     /\ IF Eligible(c)
        THEN child' = [child EXCEPT !.loaded[c] = {source[c]}] /\ UNCHANGED status
        ELSE Close(2)
  /\ UNCHANGED <<phase, todo, exit, historyVars, prepared, refused, marker, faults>>

\* A module the target imports is read later, as it is by then: nothing judges the
\* target again.
Load2 ==
  /\ phase = "replay2" /\ child # Absent
  /\ \E c \in child.decoded :
     /\ child.loaded[c] # {} /\ source[c] \notin child.loaded[c]
     /\ IF source[c] = "gone" THEN Close(2)
        ELSE child' = [child EXCEPT !.loaded[c] = @ \cup {source[c]}] /\ UNCHANGED status
  /\ UNCHANGED <<phase, todo, exit, historyVars, prepared, refused, marker, faults>>

\* All is loaded; the target is invoked and the test of the one case ends.
Replayed2 ==
  /\ phase = "replay2" /\ child # Absent
  /\ \E c \in child.decoded :
     /\ child.loaded[c] # {}
     /\ \E o \in Outcomes(child.loaded[c]) :
          /\ outcome' = [outcome EXCEPT ![c] = o]
          /\ Close(IF o = "same" THEN 0 ELSE 1)
  /\ UNCHANGED <<phase, todo, exit, qualified, validated, died, killed, prepared, refused,
                 marker, faults>>

\* The child cannot start, is ended by a signal, or its test never registers,
\* which the count of the collected tests tells; or the runner dies of an error
\* nobody catches, with exit code 1, which is taken for its verdict.
Failed2 ==
  /\ phase \in Phases2 /\ child # Absent /\ Fault
  /\ \/ Close(2) /\ UNCHANGED died
     \/ Close(1) /\ died' = IF phase = "replay2" THEN died \cup child.group ELSE died
  /\ UNCHANGED <<phase, todo, exit, qualified, validated, outcome, killed, prepared,
                 refused, marker>>

\* Mutant: the timer watches the validating children only.
TimeoutValidators ==
  /\ phase \in {"adapters2", "readapt2"} /\ child # Absent
  /\ Close(2) /\ killed' = TRUE
  /\ UNCHANGED <<phase, todo, exit, qualified, validated, outcome, died, prepared,
                 refused, marker, faults>>

\* After 90 seconds it is killed, whatever it is about to answer.
Timeout2 ==
  /\ phase \in Phases2 /\ child # Absent
  /\ Close(2) /\ killed' = TRUE
  /\ UNCHANGED <<phase, todo, exit, qualified, validated, outcome, died, prepared,
                 refused, marker, faults>>

\* All groups of the phase are done.
End2 ==
  /\ phase \in Phases2 /\ child = Absent /\ todo = {}
  /\ CASE phase = "replay2" -> Leave(status) /\ UNCHANGED todo
       [] phase # "replay2" /\ status # 0 -> Leave(2) /\ UNCHANGED todo
       [] OTHER -> IF phase = "adapters2" THEN Enter("replay1", Of(1))
                   ELSE Enter("replay2", Groups("replay2"))
  /\ UNCHANGED <<historyVars, prepared, refused, child, marker, status, faults>>

(******************************* the project ******************************)

\* An editor or another tool changes a module, or the configuration.
Edit ==
  /\ phase # "done" /\ edits < MaxEdits /\ edits' = edits + 1
  /\ \/ /\ \E c \in stored, s \in Sources : source' = [source EXCEPT ![c] = s]
        /\ UNCHANGED adapters
     \/ /\ adapters' = IF adapters = "valid" THEN "invalid" ELSE "valid"
        /\ UNCHANGED source
  /\ UNCHANGED <<stored, malformed, historyVars, workVars, phase, exit, faults>>

Init ==
  /\ stored \in SUBSET Cases /\ malformed \in SUBSET stored
  /\ source \in [Cases -> Sources] /\ adapters \in {"valid", "invalid"}
  /\ phase = "parse" /\ todo = {} /\ exit = Absent
  /\ prepared = [c \in Cases |-> Absent] /\ refused = FALSE
  /\ child = Absent /\ marker = FALSE /\ status = 0
  /\ qualified = {} /\ validated = {} /\ outcome = [c \in Cases |-> "not run"]
  /\ died = {} /\ killed = FALSE
  /\ edits = 0 /\ faults = 0

Replay1 == Start1 \/ Test1 \/ End1
Children2 == \/ Spawn2 \/ Validated2 \/ Import2 \/ Load2 \/ Replayed2
             \/ Failed2 \/ Timeout2 \/ End2
Verify == /\ Preflight \/ (\E c \in Cases : Validate1(c)) \/ EndValidate1
             \/ Replay1 \/ Children2
          /\ UNCHANGED projectVars

Next == Verify \/ Edit

\* verify goes on: a promise that settles is taken up, and the timers of the
\* validators and of the V2 children fire.  No timer watches the V1 replay.
Fairness == WF_vars(Verify)

Spec == Init /\ [][Next]_vars /\ Fairness

(******************************* properties *******************************)

\* No target of either version runs before every accepted case of both has been
\* requalified and has had its adapters validated.
NothingRunsEarly ==
  [][outcome' # outcome => qualified = stored /\ validated = stored]_vars

\* The exit statuses mean what a pipeline takes them for: 0 that every accepted
\* case was replayed and reproduced, 1 that some case behaved differently, or that
\* the process of a V2 replay died with exit code 1.
ExitContract ==
  /\ exit = 0 => \A c \in stored : outcome[c] = "same"
  /\ exit = 1 => \E c \in stored : outcome[c] = "different" \/ c \in died

\* What the command owes a project that holds still: 2 when anything in it cannot
\* be verified, whatever else has changed, then 1 when some case behaves
\* differently, and 0 only when all behave as recorded.
Deserved ==
  IF malformed # {} \/ \E c \in stored : ~Eligible(c) \/ ~Accepts(c) THEN 2
  ELSE IF \E c \in stored : source[c] = "changed" THEN 1 ELSE 0

\* A verify that no edit, failing process or timer disturbed exits as it should,
\* in whatever order the cases of both versions come.
VerdictDeserved ==
  phase = "done" /\ edits = 0 /\ faults = 0 /\ ~killed => exit = Deserved

\* verify ends, whatever the targets of the V2 cases do; a V1 target that never
\* returns is the only thing that can hold it.
Hung1 == /\ phase = "replay1" /\ child # Absent
         /\ \E c \in Cases : IsFirst(c, todo) /\ child.loaded[c] = {"hangs"}
VerifyEnds == <>(phase = "done" \/ Hung1)
=============================================================================
