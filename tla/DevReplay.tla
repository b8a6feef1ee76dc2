------------------------------- MODULE DevReplay -------------------------------
(***************************************************************************)
(* Record a program, then replay the recording (src/dev-runtime.ts,        *)
(* replayDevTrace and the functions under it).                             *)
(*                                                                         *)
(* The program is Promise.all over branches, each of which performs its    *)
(* effects one after the other, awaiting the asynchronous ones.  While it  *)
(* is recorded the outside world settles what is in flight in any order;   *)
(* while it is replayed the engine answers every effect from the trace.    *)
(* JavaScript runs one job at a time: a branch runs until it awaits or     *)
(* ends, then the oldest microtask of the queue is next.                   *)
(***************************************************************************)
EXTENDS Integers, Sequences, FiniteSets, DevTrace

CONSTANTS
  Branches,         \* number of branches joined by Promise.all
  Operation,        \* effects (an operation with its arguments)
  AsyncOperation,   \* those that return a promise
  Programs,         \* the programs considered: Branch -> sequence of effects
  MayChange         \* the replayed program may differ from the recorded one

Branch == 1 .. Branches

ASSUME ReplayAssumption ==
  /\ Branches \in Nat \ {0}
  /\ AsyncOperation \subseteq Operation
  /\ Programs \subseteq [Branch -> Seq(Operation)]
  /\ MayChange \in BOOLEAN

VARIABLES
  stage,      \* "record", "discarded", "replay" or "done"
  program,    \* the code that is recorded
  candidate,  \* the code the verifier runs
  trace,      \* the recorded events
  branch,     \* per branch: status, effects done, the promise awaited
  queue,      \* microtasks
  cursor,     \* index of the next event to answer with
  pending,    \* effects answered by a promise that is not settled yet
  mismatch    \* latched difference

codeVars == <<program, candidate>>
replayVars == <<stage, program, candidate, trace, branch, queue, cursor, pending, mismatch>>

Result == {"return", "throw", "mismatch"}

End == [kind |-> "end"]
Pump == [kind |-> "pump"]
Resume(b, result) == [kind |-> "resume", branch |-> b, result |-> result]

-----------------------------------------------------------------------------
(* The program *)

FreshBranches == [b \in Branch |-> [status |-> "fresh", done |-> 0, awaits |-> -1]]

Idle == \A b \in Branch : branch[b].status # "running"

(* Promise.all has evaluated every element of its array. *)
Started == \A b \in Branch : branch[b].status # "fresh"

Over(branches) ==
  \/ \A b \in Branch : branches[b].status = "finished"
  \/ \E b \in Branch : branches[b].status = "failed"

(* The branch that decides Promise.all settles the invocation by way of the *)
(* microtask queue, behind the jobs already in it.                          *)
AdvanceTo(branches, jobs) ==
  /\ branch' = branches
  /\ queue' = IF Over(branches) /\ ~Over(branch) THEN Append(jobs, End) ELSE jobs

Code == IF stage = "record" THEN program ELSE candidate

NextEffect(b) == Code[b][branch[b].done + 1]

(* The calls of the branches are evaluated from left to right, each up to   *)
(* its first await.                                                         *)
StartBranch(b) ==
  /\ stage \in {"record", "replay"}
  /\ Idle
  /\ branch[b].status = "fresh"
  /\ \A c \in Branch : c < b => branch[c].status # "fresh"
  /\ branch' = [branch EXCEPT ![b].status = "running"]
  /\ UNCHANGED <<stage, trace, queue, cursor, pending, mismatch>>
  /\ UNCHANGED codeVars

EndBranch(b) ==
  /\ stage \in {"record", "replay"}
  /\ branch[b].status = "running"
  /\ branch[b].done = Len(Code[b])
  /\ AdvanceTo([branch EXCEPT ![b].status = "finished"], queue)
  /\ UNCHANGED <<stage, trace, cursor, pending, mismatch>>
  /\ UNCHANGED codeVars

Performs(b) ==
  /\ branch[b].status = "running"
  /\ branch[b].done < Len(Code[b])

(* An effect has answered branch b: it goes on, or its error ends it. *)
Answered(branches, b, result) ==
  [branches EXCEPT ![b].done = @ + 1,
                   ![b].status = IF result = "return" THEN "running" ELSE "failed"]

Awaiting(branches, b, id) ==
  [branches EXCEPT ![b].done = @ + 1, ![b].status = "waiting", ![b].awaits = id]

-----------------------------------------------------------------------------
(* Recording *)

CallEvent(id, operation) == [kind |-> "call", id |-> id, operation |-> operation]
Settlement(kind, id) == [kind |-> kind, id |-> id]

NextId == Cardinality({n \in DOMAIN trace : trace[n].kind = "call"})

RecordSync(b, result) ==
  /\ stage = "record"
  /\ Performs(b)
  /\ NextEffect(b) \notin AsyncOperation
  /\ trace' = trace \o <<CallEvent(NextId, NextEffect(b)), Settlement(result, NextId)>>
  /\ AdvanceTo(Answered(branch, b, result), queue)
  /\ UNCHANGED <<stage, cursor, pending, mismatch>>
  /\ UNCHANGED codeVars

RecordAsync(b) ==
  /\ stage = "record"
  /\ Performs(b)
  /\ NextEffect(b) \in AsyncOperation
  /\ trace' = Append(trace, CallEvent(NextId, NextEffect(b)))
  /\ branch' = Awaiting(branch, b, NextId)
  /\ UNCHANGED <<stage, queue, cursor, pending, mismatch>>
  /\ UNCHANGED codeVars

Queued(b) == \E n \in DOMAIN queue : queue[n].kind = "resume" /\ queue[n].branch = b

(* The outside world settles an effect in flight between two jobs, but not  *)
(* between a branch that decides Promise.all and the end it leads to.       *)
Settle(b, result) ==
  /\ stage = "record"
  /\ Idle /\ Started /\ ~Over(branch)
  /\ branch[b].status = "waiting"
  /\ ~Queued(b)
  /\ trace' = Append(trace, Settlement(result, branch[b].awaits))
  /\ queue' = Append(queue, Resume(b, result))
  /\ UNCHANGED <<stage, branch, cursor, pending, mismatch>>
  /\ UNCHANGED codeVars

EndIsDue == Idle /\ Started /\ queue # <<>> /\ Head(queue) = End

(* The promises between the branch and the invocation take some more turns  *)
(* of the queue.                                                            *)
Linger ==
  /\ stage \in {"record", "replay"}
  /\ EndIsDue
  /\ Tail(queue) # <<>>
  /\ queue' = Append(Tail(queue), End)
  /\ UNCHANGED <<stage, trace, branch, cursor, pending, mismatch>>
  /\ UNCHANGED codeVars

(* The recorded invocation completes.  With a branch still open the runtime *)
(* drops it as incomplete; otherwise its trace is replayed.                 *)
RecordEnds ==
  /\ stage = "record"
  /\ EndIsDue
  /\ IF \A b \in Branch : branch[b].status \in {"finished", "failed"}
     THEN /\ stage' = "replay"
          /\ branch' = FreshBranches
          /\ queue' = <<>>
     ELSE /\ stage' = "discarded"
          /\ UNCHANGED <<branch, queue>>
  /\ UNCHANGED <<trace, cursor, pending, mismatch>>
  /\ UNCHANGED codeVars

-----------------------------------------------------------------------------
(* Replaying: pump, latch, replayEffect, replayDevTrace *)

Waiter(id) == CHOOSE b \in Branch : branch[b].status = "waiting" /\ branch[b].awaits = id

(* Mutant: pump delivers one settlement instead of all it can. *)
DeliverOne ==
  IF /\ ~mismatch
     /\ cursor <= Len(trace)
     /\ trace[cursor].kind # "call"
     /\ trace[cursor].id \in pending
  THEN 1 ELSE 0

(* How many settlements pump delivers: the run at the cursor whose promises *)
(* are pending.                                                             *)
Deliverable ==
  IF mismatch THEN 0
  ELSE LET runs == {n \in 0 .. Len(trace) - cursor + 1 :
                      \A m \in 0 .. n - 1 :
                        /\ trace[cursor + m].kind # "call"
                        /\ trace[cursor + m].id \in pending}
       IN  CHOOSE n \in runs : \A m \in runs : m <= n

Delivered == {trace[m].id : m \in cursor .. cursor + Deliverable - 1}

(* Settling a promise queues the continuation that awaits it. *)
Deliveries ==
  [n \in 1 .. Deliverable |->
     LET event == trace[cursor + n - 1] IN Resume(Waiter(event.id), event.kind)]

(* latch: whoever waits is rejected, in the order of the calls. *)
Rejections(ids) ==
  LET rank(id) == Cardinality({other \in ids : other <= id})
  IN  [n \in 1 .. Cardinality(ids) |->
         Resume(Waiter(CHOOSE id \in ids : rank(id) = n), "mismatch")]

PumpJob ==
  /\ stage = "replay"
  /\ Idle /\ Started
  /\ queue # <<>> /\ Head(queue) = Pump
  /\ queue' = Tail(queue) \o Deliveries
  /\ cursor' = cursor + Deliverable
  /\ pending' = pending \ Delivered
  /\ UNCHANGED <<stage, trace, branch, mismatch>>
  /\ UNCHANGED codeVars

ResumeJob(b, result) ==
  /\ stage \in {"record", "replay"}
  /\ Idle /\ Started
  /\ queue # <<>> /\ Head(queue) = Resume(b, result)
  /\ \E handled \in BOOLEAN :
       /\ handled => result # "throw"
       /\ result = "return" => handled
       /\ AdvanceTo([branch EXCEPT ![b].status = IF handled THEN "running" ELSE "failed"],
                    Tail(queue))
  /\ UNCHANGED <<stage, trace, cursor, pending, mismatch>>
  /\ UNCHANGED codeVars

(* replayEffect pumps first, then compares the call with the trace. *)
Expected ==
  IF cursor + Deliverable <= Len(trace) THEN {trace[cursor + Deliverable]} ELSE {}

Matches(operation) ==
  /\ ~mismatch
  /\ \E event \in Expected : event.kind = "call" /\ event.operation = operation

ReplayAsync(b) ==
  /\ stage = "replay"
  /\ Performs(b)
  /\ NextEffect(b) \in AsyncOperation
  /\ Matches(NextEffect(b))
  /\ \E event \in Expected :
       /\ pending' = (pending \ Delivered) \cup {event.id}
       /\ branch' = Awaiting(branch, b, event.id)
  /\ cursor' = cursor + Deliverable + 1
  /\ queue' = Append(queue \o Deliveries, Pump)
  /\ UNCHANGED <<stage, trace, mismatch>>
  /\ UNCHANGED codeVars

(* A synchronous effect takes its settlement from the trace at once; no     *)
(* pump is scheduled for what follows it there.                             *)
ReplaySync(b) ==
  /\ stage = "replay"
  /\ Performs(b)
  /\ NextEffect(b) \notin AsyncOperation
  /\ Matches(NextEffect(b))
  /\ \E event \in Expected :
       LET n == cursor + Deliverable + 1
       IN  /\ n <= Len(trace) /\ trace[n].kind # "call" /\ trace[n].id = event.id
           /\ AdvanceTo(Answered(branch, b, trace[n].kind), queue \o Deliveries)
  /\ cursor' = cursor + Deliverable + 2
  /\ pending' = pending \ Delivered
  /\ UNCHANGED <<stage, trace, mismatch>>
  /\ UNCHANGED codeVars

(* Anything else latches the mismatch and throws; the program may catch it. *)
Answerable(operation) ==
  /\ Matches(operation)
  /\ operation \notin AsyncOperation =>
       \E event \in Expected :
         LET n == cursor + Deliverable + 1
         IN  n <= Len(trace) /\ trace[n].kind # "call" /\ trace[n].id = event.id

ReplayDiverges(b) ==
  /\ stage = "replay"
  /\ Performs(b)
  /\ ~Answerable(NextEffect(b))
  /\ mismatch' = TRUE
  /\ cursor' = cursor + Deliverable + IF Matches(NextEffect(b)) THEN 1 ELSE 0
  /\ pending' = {}
  /\ \E result \in {"return", "throw"} :
       AdvanceTo(Answered(branch, b, result),
                 queue \o Deliveries \o Rejections(pending \ Delivered))
  /\ UNCHANGED <<stage, trace>>
  /\ UNCHANGED codeVars

(* Mutant: there is no stall timer. *)
NeverStalled == FALSE

(* The 5 s stall timer: the replay performs no input or output of its own,  *)
(* so the timer fires only when no job is left to run.                      *)
Stalled == Idle /\ Started /\ queue = <<>> /\ ~Over(branch)

Stall ==
  /\ stage = "replay"
  /\ Stalled
  /\ mismatch' = TRUE
  /\ queue' = Rejections(pending)
  /\ pending' = {}
  /\ stage' = "done"
  /\ UNCHANGED <<trace, branch, cursor>>
  /\ UNCHANGED codeVars

(* Mutant: only effects still pending count as missing. *)
UnsettledOnly == pending # {}

(* The invocation has settled: what the trace still holds is missing. *)
Missing == cursor # Len(trace) + 1 \/ pending # {}

ReplayEnds ==
  /\ stage = "replay"
  /\ EndIsDue
  /\ stage' = "done"
  /\ mismatch' = (mismatch \/ Missing)
  /\ queue' = Tail(queue) \o IF mismatch' THEN Rejections(pending) ELSE <<>>
  /\ pending' = IF mismatch' THEN {} ELSE pending
  /\ UNCHANGED <<trace, branch, cursor>>
  /\ UNCHANGED codeVars

-----------------------------------------------------------------------------
ReplayInit ==
  /\ stage = "record"
  /\ program \in Programs
  /\ candidate \in IF MayChange THEN Programs ELSE {program}
  /\ trace = <<>>
  /\ branch = FreshBranches
  /\ queue = <<>>
  /\ cursor = 1
  /\ pending = {}
  /\ mismatch = FALSE

Record ==
  \/ RecordEnds
  \/ \E b \in Branch :
       \/ RecordAsync(b)
       \/ \E result \in {"return", "throw"} : RecordSync(b, result) \/ Settle(b, result)

Replay ==
  \/ PumpJob
  \/ Stall
  \/ ReplayEnds
  \/ \E b \in Branch : ReplayAsync(b) \/ ReplaySync(b) \/ ReplayDiverges(b)

Run ==
  \/ Linger
  \/ \E b \in Branch :
    \/ StartBranch(b)
    \/ EndBranch(b)
    \/ \E result \in Result : ResumeJob(b, result)

ReplayStep == Record \/ Replay \/ Run

(* The event loop runs every job it has; the outside world answers.         *)
ReplayFairness == WF_replayVars(ReplayStep)

ReplaySpec == ReplayInit /\ [][ReplayStep]_replayVars /\ ReplayFairness

-----------------------------------------------------------------------------
(* Properties *)

(* Code that did not change reproduces its own recording: the replay of an  *)
(* unchanged program never ends in a mismatch.                              *)
Reproduces == stage = "done" /\ candidate = program => ~mismatch

(* A replay that passes performed exactly the recorded effects: as many of  *)
(* each as the trace has calls.  Changed code that does more, less or       *)
(* something else is told apart even when it catches the errors of the      *)
(* engine.                                                                  *)
SameEffects ==
  stage = "done" /\ ~mismatch =>
    \A operation \in Operation :
      Cardinality({n \in DOMAIN trace :
                     trace[n].kind = "call" /\ trace[n].operation = operation})
      = Cardinality({x \in Branch \X (1 .. Len(trace)) :
                       x[2] <= branch[x[1]].done /\ candidate[x[1]][x[2]] = operation})

(* Every replay comes to an end, also that of code which waits for answers  *)
(* the trace does not hold.                                                 *)
ReplayTerminates == stage = "replay" ~> stage = "done"
=============================================================================
