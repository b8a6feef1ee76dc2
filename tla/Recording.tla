------------------------------ MODULE Recording ------------------------------
(* The first generation of ReplayLock, which records a test run: the runtime
   inside Vitest's workers (runtime.ts, session.ts), the record command that
   starts the run and reads what the workers left on disk (cli.ts), the
   candidates it forms (candidates.ts, review.ts) and the review that promotes
   them.  Every observed call is a writer of its own: a directory, a
   registration, one chunk and a close marker, each written atomically and
   each of which can fail; a writer can be killed between any two of them, and
   one that the child process leaves behind goes on while the command reads.

   An input stands for a callable with its arguments, which is what a case is
   identified by; FileOf[i] is the module of its callable, and the order of the
   inputs is the order in which a review shows them.                        *)
EXTENDS Naturals, FiniteSets, Sequences

CONSTANTS Calls,         \* the observed calls of one session
          Completions,   \* what a call can return or throw
          FileOf,        \* the module of each input
          MaxSessions,   \* bound: record commands
          MaxReviews,    \* bound: review commands
          MaxFaults,     \* bound: failed writes, killed writers and commands
          Absent

ASSUME RecordingAssumption ==
  /\ FileOf \in Seq(STRING)
  /\ Absent \notin [writer : Calls, chunks : {0, 1}]
  /\ MaxSessions \in Nat /\ MaxReviews \in Nat /\ MaxFaults \in Nat

Inputs == DOMAIN FileOf

VARIABLES
  stage,      \* how far the runtime is with each call
  disk,       \* what is on disk of each writer: 0 nothing, 1 its directory,
              \* 2 the registration, 3 the chunk, 4 the close marker
  markers,    \* calls that left a storage failure marker
  phase,      \* where the record command is
  plugin,     \* how the Vite integration of the project came up
  listed,     \* writers the aggregation found
  unread,     \* of those, the ones still to be read
  reading,    \* the writer whose chunks have been read, and how many there were
  counted,    \* calls whose record the aggregation returned
  made,       \* what those records are
  failures,   \* what the command has to report
  writing,    \* candidates still to be written
  blocking,   \* blocks still to be written
  pending, cases, blocked,  \* the store
  queue,      \* candidates the review read and has not finished with
  asking,     \* where the review is
  accepted,   \* the inputs and the modules the reviewer answered accept for
  late,       \* history: calls not yet sealed when the child exited
  sessions, reviews, faults

runtimeVars == <<stage, disk, markers, late>>
aggregateVars == <<listed, unread, reading, counted>>
formVars == <<made, writing, blocking>>
commandVars == <<phase, plugin, failures, aggregateVars, formVars>>
storeVars == <<pending, cases, blocked>>
reviewVars == <<queue, asking, accepted>>
vars == <<runtimeVars, commandVars, storeVars, reviewVars, sessions, reviews, faults>>

Fault == faults < MaxFaults /\ faults' = faults + 1

(***************************** the runtime ********************************)

\* A call completes, and its caller has its result whatever the recording does.
\* Nothing is recorded of a promise that a synchronous callable returned.
Complete(c) ==
  /\ phase = "child" /\ plugin = "active" /\ stage[c] = "idle"
  /\ \E s \in {"writing", "skipped"} : stage' = [stage EXCEPT ![c] = s]
  /\ UNCHANGED <<disk, markers>>

\* The next step of a writer: the directory, registered.json, the chunk, and
\* closed.json, in this order; the last one seals the call.
WriteStep(c) ==
  /\ stage[c] = "writing"
  /\ disk' = [disk EXCEPT ![c] = @ + 1]
  /\ stage' = [stage EXCEPT ![c] = IF disk[c] = 3 THEN "sealed" ELSE @]
  /\ UNCHANGED markers

\* The step throws: nothing of it stays, and the runtime reports the session.
WriteFault(c) ==
  /\ stage[c] = "writing"
  /\ stage' = [stage EXCEPT ![c] = "reporting"]
  /\ UNCHANGED <<disk, markers>>

\* The marker of the failure is written, best effort.
ReportFailure(c) ==
  /\ stage[c] = "reporting"
  /\ markers' = markers \cup {c}
  /\ stage' = [stage EXCEPT ![c] = "reported"]
  /\ UNCHANGED disk

\* When it cannot be written either, the call is lost without a word: recording
\* must not disturb the application.  The same state is left by a worker that
\* Vitest terminates without Node's lifecycle hooks.
Lose(c) ==
  /\ stage[c] \in {"writing", "reporting"}
  /\ stage' = [stage EXCEPT ![c] = "lost"]
  /\ UNCHANGED <<disk, markers>>

\* Once the command has read the writers, what they still do has no reader.
Runtime ==
  /\ phase \in {"child", "listing", "reading"}
  /\ \E c \in Calls :
       \/ (Complete(c) \/ WriteStep(c) \/ ReportFailure(c)) /\ UNCHANGED faults
       \/ (WriteFault(c) \/ Lose(c)) /\ Fault
  /\ UNCHANGED <<late, commandVars, storeVars, reviewVars, sessions, reviews>>

(************************** the record command ****************************)

\* record passes its preflight, makes the session directory and starts the
\* wrapped command.  plugin: whether the Vite integration of the project left
\* its handshake, and whether its adapter registry could be made.
Begin ==
  /\ phase = "idle" /\ sessions < MaxSessions
  /\ sessions' = sessions + 1
  /\ phase' = "child"
  /\ plugin' \in {"active", "absent", "misconfigured"}
  /\ UNCHANGED <<runtimeVars, failures, aggregateVars, formVars, storeVars, reviewVars,
                 reviews, faults>>

\* The child exits, or a signal ends it, and the command looks for the handshake.
\* Writers of workers that outlive the child go on.
ChildExits ==
  /\ phase = "child"
  /\ phase' = IF plugin = "absent" THEN "exiting" ELSE "listing"
  /\ failures' = IF plugin = "absent" THEN {"PLUGIN_NOT_ACTIVE"} ELSE {}
  /\ late' = {c \in Calls : stage[c] \in {"writing", "reporting"}}
  /\ UNCHANGED <<plugin, stage, disk, markers, aggregateVars, formVars, storeVars,
                 reviewVars, sessions, reviews, faults>>

\* The failure markers are read and the writers' directories listed.
Writers == {c \in Calls : disk[c] >= 1}
ListSession ==
  /\ phase = "listing"
  /\ phase' = "reading"
  /\ failures' = IF markers = {} THEN {} ELSE {"STORAGE_FAILURE"}
  /\ listed' = Writers /\ unread' = Writers
  /\ UNCHANGED <<plugin, reading, counted, formVars, faults>>

\* One of the two directories cannot be read.
ListFault ==
  /\ phase = "listing" /\ Fault
  /\ phase' = "reading"
  /\ failures' = {"STORAGE_FAILURE"}
  /\ listed' \in {{}, Writers} /\ unread' = listed'
  /\ UNCHANGED <<plugin, reading, counted, formVars>>

\* One writer's registration is read and its chunks listed; the records of the
\* chunks present are returned.
ReadChunks(c) ==
  /\ phase = "reading" /\ reading = Absent /\ c \in unread
  /\ unread' = unread \ {c}
  /\ IF disk[c] < 2
     THEN failures' = failures \cup {"MALFORMED_CHUNK"} /\ UNCHANGED <<reading, counted>>
     ELSE /\ reading' = [writer |-> c, chunks |-> IF disk[c] >= 3 THEN 1 ELSE 0]
          /\ counted' = IF disk[c] >= 3 THEN counted \cup {c} ELSE counted
          /\ UNCHANGED failures
  /\ UNCHANGED <<phase, plugin, listed, formVars, faults>>

\* Mutant: the close marker is only looked for.
ReadCloseUncounted ==
  /\ phase = "reading" /\ reading # Absent
  /\ reading' = Absent
  /\ failures' = IF disk[reading.writer] = 4 THEN failures
                 ELSE failures \cup {"NON_CLOSING_WRITER"}
  /\ UNCHANGED <<phase, plugin, listed, unread, counted, formVars, faults>>

\* Its close marker must be there and tell the number of chunks that were read:
\* a writer that is still at work shows by either.
ReadClose ==
  /\ phase = "reading" /\ reading # Absent
  /\ reading' = Absent
  /\ failures' = IF disk[reading.writer] = 4 /\ reading.chunks = 1 THEN failures
                 ELSE failures \cup {"NON_CLOSING_WRITER"}
  /\ UNCHANGED <<phase, plugin, listed, unread, counted, formVars, faults>>

\* What createSessionRecord made of a completed call: an observation, or a block
\* that carries no value; the adapters' validation turns one into the other.
Record == [kind : {"observation"}, input : Inputs, completion : Completions]
            \cup {[kind |-> "blocked"]}

\* What the session saw of an input, given its records.
Seen(i, records) ==
  {records[c].completion : c \in {d \in DOMAIN records : /\ records[d].kind = "observation"
                                                       /\ records[d].input = i}}

\* One completion makes a candidate, unless the accepted case has it already;
\* an assumption the source declares anew makes one even so.
Changed(i, seen) == /\ Cardinality(seen) = 1
                    /\ cases[i] = Absent \/ cases[i].completion \notin seen
Refreshed(i, seen, assumption) == /\ cases[i] # Absent /\ cases[i].completion \in seen
                                  /\ assumption /\ ~cases[i].assumption
Candidate(completion, assumption, captured) ==
  [completion |-> completion, assumption |-> assumption, captured |-> captured]
Formed(i, seen, assumption, captured) ==
  LET candidate(v) == Candidate(v, assumption, captured)
  IN IF Changed(i, seen) THEN candidate(CHOOSE v \in seen : TRUE)
     ELSE IF Refreshed(i, seen, assumption) THEN candidate(cases[i].completion)
     ELSE Absent

\* Several completions of an input make a block instead, and so does a record
\* that is one: such a block is named after its code and callable.
Valueless == 0
Blocks(records) ==
  {i \in Inputs : Cardinality(Seen(i, records)) > 1}
    \cup {Valueless : c \in {d \in DOMAIN records : records[d].kind = "blocked"}}

Aggregated == phase = "reading" /\ unread = {} /\ reading = Absent

\* The diagnostics of the source are read, the observations validated, and the
\* candidates and blocks of the session formed against the accepted cases.
\* assumption: whether the source declares one.  The session's directory has no
\* reader any more.
Form ==
  /\ Aggregated
  /\ phase' = "writing"
  /\ failures' \in {failures, failures \cup {"CALLABLE_BLOCKED"}}
  /\ made' \in [counted -> Record]
  /\ blocking' = Blocks(made')
  /\ \E assumption \in BOOLEAN :
       writing' = [i \in Inputs |->
                     Formed(i, Seen(i, made'), assumption,
                            IF failures' = {} THEN "complete" ELSE "partial")]
  /\ stage' = [c \in Calls |-> "idle"] /\ disk' = [c \in Calls |-> 0]
  /\ markers' = {} /\ late' = {}
  /\ UNCHANGED <<plugin, aggregateVars, storeVars, reviewVars, sessions, reviews, faults>>

\* A candidate replaces the pending file of its input.
WriteCandidate(i) ==
  /\ phase = "writing" /\ writing[i] # Absent
  /\ pending' = [pending EXCEPT ![i] = writing[i]]
  /\ writing' = [writing EXCEPT ![i] = Absent]
  /\ UNCHANGED <<cases, blocked, phase, plugin, failures, aggregateVars, made,
                 blocking, faults>>

\* Mutant: blocks are written as they come.
WriteBlockEarly(b) ==
  /\ phase = "writing" /\ b \in blocking
  /\ blocking' = blocking \ {b}
  /\ blocked' = blocked \cup {b}
  /\ pending' = IF b \in Inputs THEN [pending EXCEPT ![b] = Absent] ELSE pending
  /\ UNCHANGED <<cases, phase, plugin, failures, aggregateVars, made, writing, faults>>

\* After the candidates, the blocks: a nondeterministic input loses its pending
\* file, whoever wrote it.
WriteBlock(b) ==
  /\ phase = "writing" /\ \A i \in Inputs : writing[i] = Absent
  /\ b \in blocking
  /\ blocking' = blocking \ {b}
  /\ blocked' = blocked \cup {b}
  /\ pending' = IF b \in Inputs THEN [pending EXCEPT ![b] = Absent] ELSE pending
  /\ UNCHANGED <<cases, phase, plugin, failures, aggregateVars, made, writing,
                 faults>>

\* A write fails: the rest of the session's results is given up.
PersistFault ==
  /\ phase = "writing" /\ Fault
  /\ phase' = "exiting"
  /\ failures' = failures \cup {"SESSION_PERSIST_FAILED"}
  /\ UNCHANGED <<plugin, aggregateVars, formVars>>

Persisted ==
  /\ phase = "writing" /\ blocking = {} /\ \A i \in Inputs : writing[i] = Absent
  /\ phase' = "exiting"
  /\ UNCHANGED <<plugin, failures, aggregateVars, formVars, faults>>

\* The exit status when the child's was 0, which otherwise is what counts; an
\* adapter diagnostic comes before both.
ExitStatus == IF plugin = "misconfigured" \/ failures # {} THEN 2 ELSE 0

\* The command ends, or is killed while it writes the store: the next one works
\* in a session directory of its own.
End ==
  /\ \/ phase = "exiting" /\ UNCHANGED faults
     \/ phase = "writing" /\ Fault
  /\ phase' = "idle" /\ plugin' = Absent
  /\ listed' = {} /\ unread' = {} /\ reading' = Absent /\ counted' = {}
  /\ failures' = {} /\ made' = <<>> /\ blocking' = {}
  /\ writing' = [i \in Inputs |-> Absent]
  /\ UNCHANGED <<runtimeVars, storeVars, reviewVars, sessions, reviews>>

Command ==
  \/ Begin \/ ChildExits \/ Form \/ End
  \/ /\ \/ ListSession \/ ListFault \/ (\E c \in Calls : ReadChunks(c)) \/ ReadClose
        \/ PersistFault \/ Persisted
     /\ UNCHANGED <<runtimeVars, storeVars, reviewVars, sessions, reviews>>
  \/ /\ (\E i \in Inputs : WriteCandidate(i)) \/ (\E b \in blocking : WriteBlock(b))
     /\ UNCHANGED <<runtimeVars, reviewVars, sessions, reviews>>

(****************************** the review ********************************)

\* The inputs with a pending candidate, and such a set in the order of a review.
Awaiting == {i \in Inputs : pending[i] # Absent}
Orders(S) == {s \in [1 .. Cardinality(S) -> S] : \A m, n \in DOMAIN s : m < n => s[m] < s[n]}

\* review reads every pending candidate once, then shows the first.
BeginReview ==
  /\ asking = "no" /\ reviews < MaxReviews /\ Awaiting # {}
  /\ reviews' = reviews + 1
  /\ \E shown \in Orders(Awaiting) :
       queue' = [n \in DOMAIN shown |->
                   [input |-> shown[n], candidate |-> pending[shown[n]]]]
  /\ asking' = "one" /\ accepted' = [inputs |-> {}, files |-> {}]
  /\ UNCHANGED <<storeVars, faults>>

Current == Head(queue).input

\* The review goes on to the next candidate, or is over.
Proceed(next) ==
  /\ queue' = Tail(queue)
  /\ asking' = IF Tail(queue) = <<>> THEN "no" ELSE next

\* An end of input, an unknown answer, a tolerance that is not given or the
\* death of the command keep the rest for another review.
Quit ==
  /\ asking # "no"
  /\ queue' = <<>> /\ asking' = "no"
  /\ UNCHANGED <<storeVars, accepted, reviews, faults>>

Skip ==
  /\ asking = "one" /\ Proceed("one")
  /\ UNCHANGED <<storeVars, accepted, reviews, faults>>

\* Unlinking a candidate that is gone ends the review with an error.
Unlink(next) ==
  /\ pending' = [pending EXCEPT ![Current] = Absent]
  /\ IF pending[Current] = Absent THEN queue' = <<>> /\ asking' = "no"
                                  ELSE Proceed(next)

Reject ==
  /\ asking = "one" /\ Unlink("one")
  /\ UNCHANGED <<cases, blocked, accepted, reviews, faults>>

\* accept, accept with a tolerance chosen now, or accept the remaining
\* candidates of this module.
Answers == [comparison : {"exact", "tolerance"}, all : {FALSE}]
             \cup {[comparison |-> "exact", all |-> TRUE]}

\* The case replaces the accepted one; its candidate is unlinked afterwards.
Case(candidate, comparison) ==
  [completion |-> candidate.completion, assumption |-> candidate.assumption,
   comparison |-> comparison]
Promote(comparison) ==
  cases' = [cases EXCEPT ![Current] = Case(Head(queue).candidate, comparison)]

Accept ==
  /\ asking = "one"
  /\ \E a \in Answers :
       /\ Promote(a.comparison)
       /\ accepted' = IF a.all THEN [accepted EXCEPT !.files = @ \cup {FileOf[Current]}]
                                   ELSE [accepted EXCEPT !.inputs = @ \cup {Current}]
       /\ asking' = IF a.all THEN "unlink-all" ELSE "unlink-one"
  /\ UNCHANGED <<pending, blocked, queue, reviews, faults>>

\* Mutant: a batch takes all that is left.
AnyFile == Len(queue) > 1

\* A batch goes on as long as the next candidate is of the same module.
SameFile == /\ Len(queue) > 1
            /\ FileOf[queue[2].input] = FileOf[Current]
Unlinked ==
  /\ asking \in {"unlink-one", "unlink-all"}
  /\ Unlink(IF asking = "unlink-all" /\ SameFile THEN "all" ELSE "one")
  /\ UNCHANGED <<cases, blocked, accepted, reviews, faults>>

AcceptNext ==
  /\ asking = "all"
  /\ Promote("exact")
  /\ asking' = "unlink-all"
  /\ UNCHANGED <<pending, blocked, queue, accepted, reviews, faults>>

\* A step of the review commutes with the command's while the command reads the
\* session's directory: it is taken before or after.
Review ==
  /\ phase \notin {"child", "listing", "reading"}
  /\ BeginReview \/ Quit \/ Skip \/ Reject \/ Accept \/ Unlinked \/ AcceptNext
  /\ UNCHANGED <<runtimeVars, commandVars, sessions>>

\* The store is as earlier sessions and reviews left it.
LeftCandidates == [completion : Completions, assumption : {FALSE}, captured : {"complete"}]
LeftCases == [completion : Completions, assumption : {FALSE}, comparison : {"exact"}]
Init ==
  /\ stage = [c \in Calls |-> "idle"] /\ disk = [c \in Calls |-> 0] /\ markers = {}
  /\ phase = "idle" /\ plugin = Absent /\ failures = {}
  /\ listed = {} /\ unread = {} /\ reading = Absent /\ counted = {} /\ made = <<>>
  /\ writing = [i \in Inputs |-> Absent] /\ blocking = {}
  /\ pending \in [Inputs -> {Absent} \cup LeftCandidates]
  /\ cases \in [Inputs -> {Absent} \cup LeftCases]
  /\ blocked = {}
  /\ queue = <<>> /\ asking = "no" /\ late = {}
  /\ accepted = [inputs |-> {}, files |-> {}]
  /\ sessions = 0 /\ reviews = 0 /\ faults = 0

Next == Runtime \/ Command \/ Review

Spec == Init /\ [][Next]_vars

(*************************** properties ***********************************)

\* A record command that exits 0 has counted every call that completed: what it
\* may have missed is a writer that left nothing on disk before the listing,
\* because it was killed or could neither write nor report it, or because it
\* was still to begin when the child had exited.
Accounted ==
  Aggregated /\ ExitStatus = 0 =>
    \A c \in Calls : \/ stage[c] \in {"idle", "skipped"}
                     \/ c \in counted
                     \/ c \notin listed /\ (c \in late \/ stage[c] = "lost")

\* When a session's results are on disk, an input that was seen to behave in two
\* ways is blocked and has no pending candidate, neither an earlier session's
\* nor a refresh of its accepted case.
NondeterministicDropped ==
  phase = "exiting" /\ "SESSION_PERSIST_FAILED" \notin failures =>
    \A i \in Inputs :
      Cardinality(Seen(i, made)) > 1 => pending[i] = Absent /\ i \in blocked

\* An accepted case changes only into the candidate the review shows, and only
\* when the reviewer accepted this candidate or the rest of its module.
OnlyAsDecided ==
  [][\A i \in Inputs : cases'[i] # cases[i] =>
       /\ queue # <<>> /\ i = Current
       /\ cases'[i].completion = Head(queue).candidate.completion
       /\ i \in accepted'.inputs \/ FileOf[i] \in accepted'.files]_vars
=============================================================================
