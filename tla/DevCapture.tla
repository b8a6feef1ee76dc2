------------------------------ MODULE DevCapture ------------------------------
(***************************************************************************)
(* The recording half of the development runtime (src/dev-runtime.ts).     *)
(*                                                                         *)
(* Instrumented code runs on one JavaScript thread.  Every call of an      *)
(* eligible function is an invocation.  observeDevCall gives it a capture  *)
(* frame, devEffect projects each read of the outside world (an effect)    *)
(* into the frame of the invocation that issued it and into every open     *)
(* frame it was called from, and finish seals the frame into an            *)
(* observation or drops it.  Asynchronous invocations interleave at their  *)
(* awaits, effects settle in any order, a parent may return while a child  *)
(* still runs (a rejected Promise.all), and the recording may be flushed,  *)
(* torn down and started again under code that keeps running.              *)
(*                                                                         *)
(* Values are abstracted: an event carries the identity of the native      *)
(* effect it records; in which frames an event can be encoded and still    *)
(* fits (recordable), and whether the sink accepts an observation, are     *)
(* inputs of the actions.                                                  *)
(***************************************************************************)
EXTENDS Integers, FiniteSets, Sequences, DevTrace

CONSTANTS
  Invocation,   \* calls of eligible functions the program may make
  Effect,       \* native effects the program may perform
  Kinds,        \* kinds of effects it uses: "sync", "async", "fetch", "body"
  Generation,   \* module generations: a hot update loads code of a new one
  None,         \* no invocation, no effect
  MaxPending,   \* MAX_PENDING: open frames per realm (1000 in the code)
  MaxSession    \* bound: recordings of one realm

ASSUME FiniteAssumption == IsFiniteSet(Invocation) /\ IsFiniteSet(Effect)
ASSUME NoneAssumption == None \notin Invocation /\ None \notin Effect
ASSUME KindsAssumption == Kinds \subseteq {"sync", "async", "fetch", "body"}
ASSUME LimitAssumption == MaxPending \in Nat /\ MaxSession \in Nat

VARIABLES
  configuration,  \* the session onObservation belongs to; 0: undefined
  accepting,      \* new roots are captured
  waiting,        \* a flushDevRuntime call waits for open frames
  sessions,       \* recordings started so far
  frame,          \* the Capture of each invocation
  observations,   \* what onObservation received and kept
  reports,        \* whom onBlock named, and in which session
  returned,       \* application: invocations whose body has ended
  extent,         \* application: an invocation and all it was called from
  effect,         \* application: the native effects
  history         \* application: native calls and settlements, in order

runtimeVars == <<configuration, accepting, waiting, sessions>>
captureVars == <<frame, observations, reports>>
programVars == <<returned, extent, effect, history>>
vars == <<configuration, accepting, waiting, sessions, frame, observations,
          reports, returned, extent, effect, history>>

NoId == -1

Modes == {"fresh", "native", "uncaptured", "captured"}

Event == [kind : {"call", "settle"}, id : Nat, effect : Effect, responseId : Nat \cup {NoId}]

(* interface Capture: lineage is the frame and what its parent links reach. *)
Frame == [mode : Modes, parent : Invocation \cup {None}, lineage : SUBSET Invocation,
          session : Nat, generation : Generation \cup {None}, trace : Seq(Event), nextId : Nat,
          pending : Nat, children : Nat, closed : BOOLEAN, blocked : BOOLEAN,
          responses : [Effect -> Nat \cup {NoId}]]

Observation == [invocation : Invocation, session : Nat, trace : Seq(Event)]

NativeEffect == [status : {"fresh", "running", "settled"}, kind : Kinds \cup {"sync"},
                 context : Invocation \cup {None}, of : Effect \cup {None},
                 ids : [Invocation -> Nat \cup {NoId}]]

-----------------------------------------------------------------------------
(* Frames *)

Captured(fs) == {i \in Invocation : fs[i].mode = "captured"}

(* state.pending *)
Open(fs) == {i \in Captured(fs) : ~fs[i].closed}

(* Mutant: only the frame itself. *)
BlockAlone(fs, blocked) ==
  [i \in Invocation |->
     IF ~fs[i].blocked /\ i \in blocked
     THEN [fs[i] EXCEPT !.blocked = TRUE, !.trace = <<>>]
     ELSE fs[i]]

(* block: a frame that loses its evidence takes every frame above it along. *)
Block(fs, blocked) ==
  [i \in Invocation |->
     IF ~fs[i].blocked /\ \E b \in blocked : i \in fs[b].lineage
     THEN [fs[i] EXCEPT !.blocked = TRUE, !.trace = <<>>]
     ELSE fs[i]]

OpenChildren(fs, i) == {c \in Open(fs) : fs[c].parent = i}

(* Mutant: the parent is not told. *)
CloseUncounted(fs, closing) ==
  [i \in Invocation |-> [fs[i] EXCEPT !.closed = @ \/ (i \in closing /\ i \in Open(fs))]]

(* close, for a set of frames. *)
Close(fs, closing) ==
  [i \in Invocation |->
     [fs[i] EXCEPT
        !.closed = @ \/ (i \in closing /\ i \in Open(fs)),
        !.children = @ - Cardinality(OpenChildren(fs, i) \cap closing)]]

(* Mutants: the frames are closed without being blocked; nothing is swept. *)
SweepSilently(fs) == Close(fs, Open(fs))
SweepNothing(fs) == fs

(* The loops of configureDevRuntime(undefined) and of the flush timer. *)
Sweep(fs) == Close(Block(fs, Open(fs)), Open(fs))

(* What block tells onBlock about the frames it has just blocked. *)
BlockReports(fs, gs) ==
  {[invocation |-> i, session |-> gs[i].session] :
     i \in {j \in Invocation : gs[j].blocked /\ ~fs[j].blocked}}

(* Every change of the frames reports its blocks and, where it closes one,  *)
(* runs the waiters: a flush resolves as soon as nothing is pending.        *)
Commit(fs) ==
  /\ frame' = fs
  /\ reports' = reports \cup BlockReports(frame, fs)
  /\ waiting' = (waiting /\ Open(fs) # {})

-----------------------------------------------------------------------------
(* Calls: observeDevCall *)

Running(i) == frame[i].mode # "fresh" /\ ~returned[i]

Callers == {i \in Invocation : Running(i)} \cup {None}

(* The frame a call inherits, when it is still open. *)
ParentOf(caller) ==
  IF caller # None /\ caller \in Open(frame) THEN caller ELSE None

Begin(i, caller) ==
  /\ frame[i].mode = "fresh"
  /\ extent' = [extent EXCEPT ![i] = {i} \cup IF caller = None THEN {} ELSE extent[caller]]
  /\ UNCHANGED <<configuration, accepting, sessions, observations, returned, effect, history>>

WithoutFrame(fs, i, mode) == [fs EXCEPT ![i].mode = mode]

(* No recording, or a new root after flushDevRuntime: the call runs as is. *)
CallNative(i, caller) ==
  /\ configuration = 0 \/ (ParentOf(caller) = None /\ ~accepting)
  /\ Begin(i, caller)
  /\ Commit(WithoutFrame(frame, i, "native"))

(* The announced call is not recorded: its callers lose their evidence with *)
(* it, and a root is reported by itself.                                    *)
Decline(i, caller) ==
  LET parent == ParentOf(caller)
      declined == WithoutFrame([frame EXCEPT ![i].session = configuration], i, "uncaptured")
      after == IF parent = None THEN declined ELSE Block(declined, {parent})
  IN  /\ Begin(i, caller)
      /\ frame' = after
      /\ reports' = reports \cup BlockReports(frame, after)
                      \cup IF parent = None
                           THEN {[invocation |-> i, session |-> configuration]}
                           ELSE {}
      /\ UNCHANGED waiting

(* Mutants: a root ignores accepting; generations are not compared. *)
ObservableAlways(caller) == configuration # 0
MixesNothing(caller, generation) == FALSE

(* What the code compares before it records a call. *)
Observable(caller) == configuration # 0 /\ (ParentOf(caller) # None \/ accepting)

MixesGenerations(caller, generation) ==
  ParentOf(caller) # None /\ frame[caller].generation # generation

AtLimit == Cardinality(Open(frame)) >= MaxPending

CallMismatched(i, caller, generation) ==
  /\ Observable(caller)
  /\ MixesGenerations(caller, generation)
  /\ Decline(i, caller)

CallOverLimit(i, caller, generation) ==
  /\ Observable(caller)
  /\ ~MixesGenerations(caller, generation)
  /\ AtLimit
  /\ Decline(i, caller)

(* A root found a replaced built-in (intrinsicsIntactThisTurn). *)
CallTampered(i, caller, generation) ==
  /\ Observable(caller)
  /\ ~AtLimit
  /\ ParentOf(caller) = None
  /\ Decline(i, caller)

NewFrame(parent, i, generation) ==
  [mode |-> "captured", parent |-> parent,
   lineage |-> {i} \cup IF parent = None THEN {} ELSE frame[parent].lineage,
   session |-> configuration, generation |-> generation, trace |-> <<>>, nextId |-> 0,
   pending |-> 0, children |-> 0, closed |-> FALSE, blocked |-> FALSE,
   responses |-> [e \in Effect |-> NoId]]

(* The child's frame, counted by its parent; blocked at once when the       *)
(* arguments or the kind of result cannot be recorded (~encodes).           *)
CallCaptured(i, caller, generation, encodes) ==
  LET parent == ParentOf(caller)
      counted == IF parent = None THEN frame
                 ELSE [frame EXCEPT ![parent].children = @ + 1]
      entered == [counted EXCEPT ![i] = NewFrame(parent, i, generation)]
  IN  /\ Observable(caller)
      /\ ~MixesGenerations(caller, generation)
      /\ ~AtLimit
      /\ Begin(i, caller)
      /\ Commit(IF encodes THEN entered ELSE Block(entered, {i}))

-----------------------------------------------------------------------------
(* Effects: devEffect *)

(* ancestors(context): the open, unblocked frames an effect is projected to. *)
Projections(fs, i) == {j \in fs[i].lineage : ~fs[j].closed /\ ~fs[j].blocked}

(* Mutant: the number the response has in the frame of the reader. *)
ReaderNumber(fs, i, j, kind, of) ==
  IF kind = "body" THEN fs[i].responses[of] ELSE NoId

(* A body read, issued by i, names the response by the number of its fetch  *)
(* in the very frame j that records it.                                     *)
ResponseNumber(fs, i, j, kind, of) ==
  IF kind = "body" THEN fs[j].responses[of] ELSE NoId

(* The frames where recording the call throws. *)
CallFailures(fs, i, kind, of, recordable) ==
  {j \in Projections(fs, i) :
     j \notin recordable \/ (kind = "body" /\ fs[j].responses[of] = NoId)}

RecordCall(fs, i, e, kind, of, recordable) ==
  LET targets == Projections(fs, i)
      failures == CallFailures(fs, i, kind, of, recordable)
      numbered == [j \in Invocation |->
                     IF j \in targets THEN [fs[j] EXCEPT !.nextId = @ + 1] ELSE fs[j]]
      cut == Block(numbered, failures)
  IN  [j \in Invocation |->
         IF j \notin targets \/ cut[j].blocked THEN cut[j]
         ELSE [cut[j] EXCEPT
                 !.pending = @ + 1,
                 !.trace = Append(@, [kind |-> "call", id |-> fs[j].nextId, effect |-> e,
                    responseId |-> ResponseNumber(fs, i, j, kind, of)])]]

(* settle: one callback for all the frames of the effect. *)
OneLess(pending) == IF pending > 0 THEN pending - 1 ELSE pending

RecordSettlement(fs, i, e, kind, ids, recordable) ==
  LET targets == {j \in Invocation : ids[j] # NoId}
      sealed == IF i \in recordable THEN fs ELSE Block(fs, {i})
      live == {j \in targets : ~sealed[j].closed /\ ~sealed[j].blocked}
      settled ==
        [j \in Invocation |->
           IF j \notin targets THEN sealed[j]
           ELSE LET f == [sealed[j] EXCEPT !.pending = OneLess(@)]
                IN  IF j \notin live THEN f
                    ELSE [f EXCEPT
                       !.responses = IF kind = "fetch" THEN [@ EXCEPT ![e] = ids[j]] ELSE @,
                       !.trace = Append(@, [kind |-> "settle", id |-> ids[j], effect |-> e,
                          responseId |-> IF kind = "fetch" THEN ids[j] ELSE NoId])]]
  IN  Block(settled, live \ recordable)

(* The context records: an open frame that still has its evidence. *)
Records(i) == i \in Open(frame) /\ ~frame[i].blocked

(* Mutant: every frame uses the number of the context. *)
SharedIds(i) ==
  [j \in Invocation |->
     IF Records(i) /\ j \in Projections(frame, i) THEN frame[i].nextId ELSE NoId]

IdsOf(i) ==
  [j \in Invocation |->
     IF Records(i) /\ j \in Projections(frame, i) THEN frame[j].nextId ELSE NoId]

(* A response body is read from a response the program holds. *)
Subject(kind, of) ==
  IF kind = "body" THEN of # None /\ effect[of].kind = "fetch" /\ effect[of].status = "settled"
  ELSE of = None

Perform(i, e, kind, of, status) ==
  /\ Running(i)
  /\ effect[e].status = "fresh"
  /\ Subject(kind, of)
  /\ effect' = [effect EXCEPT ![e] = [status |-> status, kind |-> kind, context |-> i,
                                      of |-> of, ids |-> IdsOf(i)]]
  /\ UNCHANGED <<configuration, accepting, sessions, observations, returned, extent>>

(* A synchronous effect settles before devEffect returns. *)
SyncEffect(i, e, recordable, settleable) ==
  /\ "sync" \in Kinds
  /\ Perform(i, e, "sync", None, "settled")
  /\ history' = history \o << [kind |-> "call", effect |-> e], [kind |-> "settle", effect |-> e] >>
  /\ Commit(IF Records(i)
            THEN RecordSettlement(RecordCall(frame, i, e, "sync", None, recordable),
                                  i, e, "sync", IdsOf(i), settleable)
            ELSE frame)

AsyncEffect(i, e, kind, of, recordable) ==
  /\ kind # "sync"
  /\ Perform(i, e, kind, of, "running")
  /\ history' = Append(history, [kind |-> "call", effect |-> e])
  /\ Commit(IF Records(i) THEN RecordCall(frame, i, e, kind, of, recordable) ELSE frame)

(* An operation the runtime does not know blocks its context and runs. *)
UnknownEffect(i, e) ==
  /\ Running(i)
  /\ effect[e].status = "fresh"
  /\ effect' = [effect EXCEPT ![e].status = "settled", ![e].context = i]
  /\ history' = history \o << [kind |-> "call", effect |-> e], [kind |-> "settle", effect |-> e] >>
  /\ Commit(IF Records(i) THEN Block(frame, {i}) ELSE frame)
  /\ UNCHANGED <<configuration, accepting, sessions, observations, returned, extent>>

(* An event is recordable everywhere or not in one frame: whatever else     *)
(* fails above that frame is blocked with it.                               *)
Recordable == {Invocation} \cup {Invocation \ {i} : i \in Invocation}

SettleEffect(e, recordable) ==
  LET n == effect[e]
      tracked == \E j \in Invocation : n.ids[j] # NoId
  IN  /\ n.status = "running"
      /\ effect' = [effect EXCEPT ![e].status = "settled"]
      /\ history' = Append(history, [kind |-> "settle", effect |-> e])
      /\ Commit(IF tracked
                THEN RecordSettlement(frame, n.context, e, n.kind, n.ids, recordable)
                ELSE frame)
      /\ UNCHANGED <<configuration, accepting, sessions, observations, returned, extent>>

-----------------------------------------------------------------------------
(* Completion: finish *)

(* Mutant: only one of the counters is looked at. *)
IncompleteByEffects(f) == f.pending # 0

Incomplete(f) == f.pending # 0 \/ f.children # 0

(* The body of i has ended.  encodes: the arguments are as they were, the   *)
(* completion is a value and the observation fits; stores: the sink did not *)
(* throw.  A frame closed earlier has nothing left to do.                   *)
Return(i, encodes, stores) ==
  LET f == frame[i]
      evidence == i \in Open(frame) /\ ~f.blocked /\ ~Incomplete(f) /\ encodes
      kept == IF evidence /\ stores THEN frame ELSE Block(frame, {i})
  IN  /\ Running(i)
      /\ returned' = [returned EXCEPT ![i] = TRUE]
      /\ observations' = IF evidence /\ stores
                         THEN observations \cup
                                {[invocation |-> i, session |-> f.session, trace |-> f.trace]}
                         ELSE observations
      /\ Commit(IF i \in Open(frame) THEN Close(kept, {i}) ELSE frame)
      /\ UNCHANGED <<configuration, accepting, sessions, extent, effect, history>>

(* The runtime could not attach to the promise of i: the frame is dropped   *)
(* while the body goes on.                                                  *)
Abandon(i) ==
  /\ Running(i)
  /\ i \in Open(frame)
  /\ Commit(Close(Block(frame, {i}), {i}))
  /\ UNCHANGED <<configuration, accepting, sessions, observations>>
  /\ UNCHANGED programVars

-----------------------------------------------------------------------------
(* The life of a recording: configureDevRuntime and flushDevRuntime *)

Configure ==
  /\ configuration = 0
  /\ sessions < MaxSession
  /\ sessions' = sessions + 1
  /\ configuration' = sessions'
  /\ accepting' = TRUE
  /\ UNCHANGED waiting
  /\ UNCHANGED captureVars
  /\ UNCHANGED programVars

Teardown ==
  /\ configuration # 0
  /\ Commit(Sweep(frame))
  /\ configuration' = 0
  /\ accepting' = FALSE
  /\ UNCHANGED <<sessions, observations>>
  /\ UNCHANGED programVars

FlushBegin ==
  /\ configuration # 0
  /\ ~waiting
  /\ accepting' = FALSE
  /\ waiting' = (Open(frame) # {})
  /\ UNCHANGED <<configuration, sessions>>
  /\ UNCHANGED captureVars
  /\ UNCHANGED programVars

FlushTimeout ==
  /\ waiting
  /\ Commit(Sweep(frame))
  /\ UNCHANGED <<configuration, accepting, sessions, observations>>
  /\ UNCHANGED programVars

-----------------------------------------------------------------------------
Unused == [mode |-> "fresh", parent |-> None, lineage |-> {}, session |-> 0,
           generation |-> None, trace |-> <<>>, nextId |-> 0,
           pending |-> 0, children |-> 0, closed |-> FALSE, blocked |-> FALSE,
           responses |-> [e \in Effect |-> NoId]]

Init ==
  /\ configuration = 0
  /\ accepting = FALSE
  /\ waiting = FALSE
  /\ sessions = 0
  /\ frame = [i \in Invocation |-> Unused]
  /\ observations = {}
  /\ reports = {}
  /\ returned = [i \in Invocation |-> FALSE]
  /\ extent = [i \in Invocation |-> {}]
  /\ effect = [e \in Effect |->
                 [status |-> "fresh", kind |-> "sync", context |-> None, of |-> None,
                  ids |-> [i \in Invocation |-> NoId]]]
  /\ history = <<>>

Call ==
  \E i \in Invocation, caller \in Callers :
    \/ CallNative(i, caller)
    \/ \E generation \in Generation :
         \/ CallMismatched(i, caller, generation)
         \/ CallOverLimit(i, caller, generation)
         \/ CallTampered(i, caller, generation)
         \/ \E encodes \in BOOLEAN : CallCaptured(i, caller, generation, encodes)

Outside ==
  \E e \in Effect :
    \/ \E recordable \in Recordable : SettleEffect(e, recordable)
    \/ \E i \in Invocation :
         \/ UnknownEffect(i, e)
         \/ \E recordable, settleable \in Recordable :
              SyncEffect(i, e, recordable, settleable)
         \/ \E kind \in Kinds, of \in Effect \cup {None}, recordable \in Recordable :
              AsyncEffect(i, e, kind, of, recordable)

Complete ==
  \E i \in Invocation :
    \/ Abandon(i)
    \/ \E encodes, stores \in BOOLEAN : Return(i, encodes, stores)

Recording == Configure \/ Teardown \/ FlushBegin \/ FlushTimeout

Next == Call \/ Outside \/ Complete \/ Recording

Spec == Init /\ [][Next]_vars

-----------------------------------------------------------------------------
(* Properties *)

TypeOK ==
  /\ configuration \in 0 .. MaxSession
  /\ accepting \in BOOLEAN
  /\ waiting \in BOOLEAN
  /\ sessions \in 0 .. MaxSession
  /\ frame \in [Invocation -> Frame]
  /\ observations \subseteq Observation
  /\ reports \subseteq [invocation : Invocation, session : Nat]
  /\ returned \in [Invocation -> BOOLEAN]
  /\ extent \in [Invocation -> SUBSET Invocation]
  /\ effect \in [Effect -> NativeEffect]
  /\ history \in Seq([kind : {"call", "settle"}, effect : Effect])

(* The places in the history of what happened inside the dynamic extent of *)
(* i: by the program's own call structure, whatever frames the runtime kept.*)
Places(i) == {m \in 1 .. Len(history) : i \in extent[effect[history[m].effect].context]}

(* How many of S are not after m: the number of m in S, when m is in S.     *)
Rank(S, m) == Cardinality({k \in S : k <= m})

(* The trace is, event by event, what h has at the places S. *)
Transcript(trace, S, h) ==
  /\ Len(trace) = Cardinality(S)
  /\ \A m \in S : /\ trace[Rank(S, m)].kind = h[m].kind
                  /\ trace[Rank(S, m)].effect = h[m].effect

(* The trace of an observation is exactly what the program did and saw in   *)
(* that invocation and everything it called: nothing is missing, nothing of *)
(* a concurrent invocation slips in, and the order is the real one.  This   *)
(* rests on devEffect's projection, on block reaching every caller and on   *)
(* finish refusing a frame with something still running.                    *)
TraceExact ==
  \A o \in observations : Transcript(o.trace, Places(o.invocation), history)

(* Whatever the interleaving of projections and settlements, an emitted     *)
(* trace is one that the store and the replay engine read without complaint.*)
TraceReadable ==
  \A o \in observations : TraceEvents(o.trace) /\ ValidTrace(o.trace)

(* A response number in an emitted trace names, in that same trace, the     *)
(* call that really produced the response, although every frame numbers     *)
(* its calls by itself.                                                     *)
ResponsesResolve ==
  \A o \in observations :
    \A n \in DOMAIN o.trace :
      LET event == o.trace[n]
          producer == IF event.kind = "call" THEN effect[event.effect].of ELSE event.effect
      IN  event.responseId # NoId =>
            \E m \in DOMAIN o.trace :
              /\ m < n
              /\ o.trace[m].kind = "call"
              /\ o.trace[m].id = event.responseId
              /\ o.trace[m].effect = producer

(* An observation never mixes what two generations of the code did: every   *)
(* effect of its trace was issued by a frame of the same generation.        *)
OneGeneration ==
  \A o \in observations :
    \A n \in DOMAIN o.trace :
      LET context == effect[o.trace[n].effect].context
      IN  frame[context].generation = frame[o.invocation].generation

(* No invocation disappears silently: one that was announced to the session *)
(* and is over was observed, or the session was told of a loss; and a       *)
(* closed frame was either emitted or blocked, never both.                  *)
NothingLost ==
  /\ \A i \in Captured(frame) :
       frame[i].closed =>
         (frame[i].blocked <=> ~\E o \in observations : o.invocation = i)
  /\ \A i \in Invocation :
       returned[i] /\ frame[i].mode \in {"captured", "uncaptured"} =>
         \/ \E o \in observations : o.invocation = i
         \/ \E r \in reports : r.session = frame[i].session

(* A frame that lost its evidence has taken its callers along: no caller    *)
(* keeps a trace with a hole where the blocked call was.                    *)
BlockedUpward ==
  \A i \in Captured(frame) :
    frame[i].blocked => \A j \in frame[i].lineage : frame[j].blocked

(* The counters finish decides by are right: a frame counts its open        *)
(* children, and, while it has its evidence, the running effects that are   *)
(* projected into it.                                                       *)
CountersRight ==
  \A i \in Captured(frame) :
    /\ frame[i].children = Cardinality(OpenChildren(frame, i))
    /\ ~frame[i].blocked =>
         frame[i].pending =
           Cardinality({e \in Effect : effect[e].status = "running" /\ effect[e].ids[i] # NoId})

(* Once a flush has resolved, nothing is open and nothing can open again    *)
(* before the next recording: the collector may tear the runtime down       *)
(* without cutting an invocation off.                                       *)
FlushDrains == ~accepting /\ ~waiting => Open(frame) = {}

(* An observation reaches the sink only while the session it was recorded   *)
(* for is configured, and stays as it was.                                  *)
SinkDiscipline ==
  [][ /\ observations \subseteq observations'
      /\ \A o \in observations' \ observations :
           o.session = configuration /\ configuration' = configuration ]_vars

-----------------------------------------------------------------------------
(* The inductive invariant behind these properties, for the proofs.         *)

(* A frame's lineage is closed under itself and made of captured frames     *)
(* chained by their parents; what is not captured has no lineage.           *)
Lineages(fs) ==
  \A i \in Invocation :
    IF i \in Captured(fs)
    THEN /\ i \in fs[i].lineage
         /\ fs[i].lineage \subseteq Captured(fs)
         /\ fs[i].parent \in fs[i].lineage \cup {None}
         /\ \A j \in fs[i].lineage : fs[j].lineage \subseteq fs[i].lineage
         /\ \A j \in fs[i].lineage \ {i} : \E c \in fs[i].lineage : fs[c].parent = j
    ELSE fs[i].lineage = {}

ChildrenCounted(fs) ==
  \A i \in Invocation : fs[i].children = Cardinality(OpenChildren(fs, i))

BlocksReachUp(fs) ==
  \A i \in Invocation :
    fs[i].blocked => i \in Captured(fs) /\ \A j \in fs[i].lineage : fs[j].blocked

(* Only frames are closed, and one that is closed above an open one was     *)
(* blocked: finish saw its children.                                        *)
OpenAncestors(fs) ==
  /\ \A i \in Invocation : fs[i].closed => i \in Captured(fs)
  /\ \A d \in Open(fs) : \A j \in fs[d].lineage : fs[j].closed => fs[j].blocked

FramesOK(fs) ==
  /\ fs \in [Invocation -> Frame]
  /\ Lineages(fs)
  /\ ChildrenCounted(fs)
  /\ BlocksReachUp(fs)
  /\ OpenAncestors(fs)

SessionOfOpen ==
  \A i \in Open(frame) : frame[i].session = configuration /\ configuration # 0

(* Running effects that are recorded in frame i. *)
RunningIn(i) == {e \in Effect : effect[e].status = "running" /\ effect[e].ids[i] # NoId}

(* A running effect is recorded in captured frames only, and in that of its *)
(* own context if in any.                                                   *)
EffectsPlaced ==
  \A e \in Effect :
    effect[e].status = "running" =>
      /\ effect[e].context \in Invocation
      /\ \A j \in Invocation :
           effect[e].ids[j] # NoId =>
             j \in Captured(frame) /\ effect[e].ids[effect[e].context] # NoId

PendingCounted ==
  \A i \in Captured(frame) : ~frame[i].blocked => frame[i].pending = Cardinality(RunningIn(i))

(* Exactly the closed frames that kept their evidence were observed, and    *)
(* nothing they recorded was still running.                                 *)
Sealed ==
  /\ \A i \in Captured(frame) :
       frame[i].closed /\ ~frame[i].blocked =>
         frame[i].pending = 0 /\ \E o \in observations : o.invocation = i
  /\ \A o \in observations :
       /\ o.invocation \in Captured(frame)
       /\ frame[o.invocation].closed
       /\ ~frame[o.invocation].blocked

(* Every loss was reported in the session it happened in. *)
Reported ==
  /\ \A i \in Invocation :
       frame[i].blocked => \E r \in reports : r.session = frame[i].session
  /\ \A i \in Invocation :
       frame[i].mode = "uncaptured" => \E r \in reports : r.session = frame[i].session
  /\ \A i \in Invocation :
       /\ returned[i] => frame[i].mode # "fresh"
       /\ returned[i] /\ i \in Captured(frame) => frame[i].closed

IInv ==
  /\ TypeOK
  /\ FramesOK(frame)
  /\ SessionOfOpen
  /\ EffectsPlaced
  /\ PendingCounted
  /\ Sealed
  /\ Reported
  /\ FlushDrains
=============================================================================
