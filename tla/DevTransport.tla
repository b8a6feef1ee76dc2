----------------------------- MODULE DevTransport -----------------------------
(***************************************************************************)
(* How what the browser records reaches the collector: the page's client   *)
(* (src/dev-client.ts) and the ingestion, stop and verdict of the Vite     *)
(* plugin (src/dev-server.ts).                                             *)
(*                                                                         *)
(* A tab shows one page after the other, and each page is a client of its  *)
(* own.  A client numbers its envelopes, keeps those that are not          *)
(* acknowledged in a queue mirrored to sessionStorage, and posts the head  *)
(* of the queue until it is acknowledged.  A page that unloads posts its   *)
(* whole queue once more, unordered; the next page of the tab takes the    *)
(* queue over.  A post may arrive late, after others or never, whether or  *)
(* not its page still waits for it; the collector's writes may fail; the   *)
(* stop of a recording has a deadline the pages may miss.                  *)
(***************************************************************************)
EXTENDS Integers, FiniteSets, Sequences

CONSTANTS
  Pages,         \* bound: pages shown during the recording
  Kinds,         \* bound: what the runtime reports, of Made
  MaxMade,       \* bound: how often it reports
  MaxFaults,     \* bound: timeouts, crashed pages and failed writes
  Limit,         \* envelopes a queue takes from the runtime (1000 in the code)
  Reserve,       \* envelopes it takes in all (1024 in the code)
  Quota          \* envelopes sessionStorage holds

Page == 1 .. Pages

(* "refused": an observation the collector does not accept.                *)
Observed == {"observation", "refused"}
Made == Observed \cup {"counts", "block"}
Lifecycle == {"ready", "stopped"}

ASSUME TransportAssumption ==
  /\ Kinds \subseteq Made
  /\ Pages \in Nat \ {0}
  /\ MaxMade \in Nat /\ MaxFaults \in Nat
  /\ Limit \in Nat /\ Reserve \in Nat /\ Limit < Reserve
  /\ Quota \in Nat

VARIABLES
  page,          \* the page shown last, 0 before the first
  phase,         \* what it is doing
  queue,         \* its queue of envelopes
  storage,       \* what sessionStorage holds of the queue
  waiting,       \* it waits for the answer to a post (sending)
  answer,        \* the answer on its way to it
  retry,         \* its retry timer is armed
  dropped,       \* it has dropped an envelope over the limit
  reports,       \* how often the runtime has reported
  made,          \* history: what each page numbered, in order
  wasted,        \* history: the pages that dropped an observation
  network,       \* posts under way
  faults,        \* faults so far
  collecting,    \* what the collector is doing
  chain,         \* clientWrites: per client, the posts to handle in order
  writing,       \* the clients whose first post is being written
  acknowledged,  \* per client, the last sequence acknowledged
  applying,      \* per client, the sequence applied and not yet acknowledged
  applied,       \* history: what was applied for each client, in order
  active,        \* activeClients
  blocked        \* a block was recorded

clientVars == <<page, phase, queue, storage, waiting, retry, dropped, reports, made, wasted>>
collectorVars ==
  <<collecting, chain, writing, acknowledged, applying, applied, active, blocked>>
vars == <<page, phase, queue, storage, waiting, answer, retry, dropped, reports, made, wasted,
          network, faults,
          collecting, chain, writing, acknowledged, applying, applied, active, blocked>>

-----------------------------------------------------------------------------
(* The client: enqueue, appendEnvelope, persist, send *)

Full(q) == Len(q) >= Reserve

Overflows(q, kind) == Len(q) >= Limit /\ kind \notin Lifecycle

(* Over the limit one diagnostic takes the place of everything else, and    *)
(* nothing at all is taken once the reserve is used up.                     *)
Kept(q, kind) ==
  IF Full(q) \/ (Overflows(q, kind) /\ dropped) THEN <<>>
  ELSE IF Overflows(q, kind) THEN <<"block">> ELSE <<kind>>

Numbered(c, kinds) ==
  [n \in DOMAIN kinds |->
     [client |-> c, sequence |-> Len(made[c]) + n, kind |-> kinds[n]]]

(* persist: sessionStorage keeps what it had when the queue does not fit. *)
Persist(q, before) == storage' = IF Len(q) <= Quota THEN q ELSE before

Late(posts) == {[p EXCEPT !.awaited = FALSE] : p \in posts}

(* send: the head of the queue is posted unless a post is awaited. *)
Send(q) ==
  IF waiting \/ q = <<>> THEN UNCHANGED <<waiting, network>>
  ELSE /\ waiting' = TRUE
       /\ network' = network \cup {[envelope |-> Head(q), awaited |-> TRUE]}

Enqueue(kind) ==
  LET kept == Kept(queue, kind)
      q == queue \o Numbered(page, kept)
  IN  /\ queue' = q
      /\ made' = [made EXCEPT ![page] = @ \o kept]
      /\ wasted' = IF kind \in Observed /\ kept # <<kind>> THEN wasted \cup {page} ELSE wasted
      /\ dropped' = (dropped \/ Overflows(queue, kind))
      /\ Persist(q, storage)
      /\ IF kept = <<>> /\ kind \notin Lifecycle
         THEN UNCHANGED <<waiting, network>>
         ELSE Send(q)

(* The runtime reports to its client.  After a flush, only the counts of    *)
(* calls that were not captured may still come.                             *)
Report(kind) ==
  /\ phase \in {"live", "flushing"} \/ (phase = "leaving" /\ kind = "counts")
  /\ reports < MaxMade
  /\ reports' = reports + 1
  /\ Enqueue(kind)
  /\ UNCHANGED <<page, phase, retry, answer, faults>>
  /\ UNCHANGED collectorVars

(* Mutant: nothing is tried again.                                          *)
SendEndsForGood(failed) ==
  /\ waiting' = FALSE
  /\ phase' = IF phase = "leaving" THEN "closed" ELSE phase
  /\ retry' = FALSE

(* The end of a run of send: a page that waits for it to close, closes.     *)
SendEnds(failed) ==
  /\ waiting' = FALSE
  /\ phase' = IF phase = "leaving" THEN "closed" ELSE phase
  /\ retry' = (phase' # "closed" /\ (retry \/ failed))

Acknowledge ==
  /\ answer = "ok"
  /\ answer' = "none"
  /\ queue' = Tail(queue)
  /\ Persist(queue', storage)
  /\ IF queue' = <<>>
     THEN SendEnds(FALSE) /\ UNCHANGED network
     ELSE /\ network' = network \cup {[envelope |-> Head(queue'), awaited |-> TRUE]}
          /\ UNCHANGED <<waiting, phase, retry>>
  /\ UNCHANGED <<page, dropped, reports, made, wasted, faults>>
  /\ UNCHANGED collectorVars

Refused ==
  /\ answer = "error"
  /\ answer' = "none"
  /\ SendEnds(TRUE)
  /\ UNCHANGED <<page, queue, storage, dropped, reports, made, wasted, network, faults>>
  /\ UNCHANGED collectorVars

(* Nobody waits any more for what was posted so far.                        *)
Abandon ==
  /\ answer' = "none"
  /\ chain' = [c \in Page |-> [n \in DOMAIN chain[c] |-> [chain[c][n] EXCEPT !.awaited = FALSE]]]
  /\ UNCHANGED <<collecting, writing, acknowledged, applying, applied, active, blocked>>

(* The 4 s timeout of a post. *)
Timeout ==
  /\ waiting
  /\ faults < MaxFaults
  /\ faults' = faults + 1
  /\ network' = Late(network)
  /\ Abandon
  /\ SendEnds(TRUE)
  /\ UNCHANGED <<page, queue, storage, dropped, reports, made, wasted>>

RetryFires ==
  /\ retry
  /\ retry' = FALSE
  /\ Send(queue)
  /\ UNCHANGED <<page, phase, queue, storage, answer, dropped, reports, made, wasted, faults>>
  /\ UNCHANGED collectorVars

(* vite:ws:connect: the page has its connection to the server again.        *)
Connect ==
  /\ phase # "none"
  /\ queue # <<>> /\ ~waiting
  /\ Send(queue)
  /\ UNCHANGED <<page, phase, queue, storage, answer, retry, dropped, reports, made, wasted, faults>>
  /\ UNCHANGED collectorVars

(* replaylock:stop: flushDevRuntime, then "stopped", then one last send.    *)
StopEvent ==
  /\ phase = "live"
  /\ collecting = "stopping"
  /\ phase' = "flushing"
  /\ UNCHANGED <<page, queue, storage, waiting, answer, retry, dropped, reports, made, wasted, network, faults>>
  /\ UNCHANGED collectorVars

Flushed ==
  /\ phase = "flushing"
  /\ phase' = "leaving"
  /\ Enqueue("stopped")
  /\ UNCHANGED <<page, retry, reports, answer, faults>>
  /\ UNCHANGED collectorVars

Unloaded(posts) ==
  /\ phase' = "none"
  /\ queue' = <<>>
  /\ waiting' = FALSE
  /\ retry' = FALSE
  /\ dropped' = FALSE
  /\ network' = Late(network) \cup posts
  /\ Abandon
  /\ UNCHANGED page

(* pagehide: the whole queue is posted once more, with nobody waiting.      *)
Unload ==
  /\ phase # "none"
  /\ LET kept == IF phase = "closed" THEN <<>> ELSE Kept(queue, "stopped")
         q == queue \o Numbered(page, kept)
     IN  /\ made' = [made EXCEPT ![page] = @ \o kept]
         /\ Persist(q, storage)
         /\ Unloaded({[envelope |-> q[n], awaited |-> FALSE] : n \in DOMAIN q})
  /\ UNCHANGED <<reports, wasted, faults>>

(* The page ends without a word. *)
Crash ==
  /\ phase # "none"
  /\ faults < MaxFaults
  /\ faults' = faults + 1
  /\ Unloaded({})
  /\ UNCHANGED <<storage, reports, made, wasted>>

Accepting == collecting \in {"recording", "stopping"}

(* startDevClient, in the same tab or in a new one; a page served while the *)
(* recording went on may start during its stop.                             *)
Restored(kept) == kept

Load ==
  /\ phase = "none"
  /\ page < Pages
  /\ Accepting
  /\ page' = page + 1
  /\ phase' = "live"
  /\ \E kept \in {storage, <<>>} :
       LET ready == IF Full(kept) THEN <<>> ELSE <<"ready">>
           q == Restored(kept) \o Numbered(page', ready)
       IN  /\ queue' = q
           /\ made' = [made EXCEPT ![page'] = ready]
           /\ Persist(q, kept)
           /\ Send(q)
  /\ UNCHANGED <<answer, retry, dropped, reports, wasted, faults>>
  /\ UNCHANGED collectorVars

-----------------------------------------------------------------------------
(* The collector: middleware, stop *)

(* Mutant: failures are answered like successes.                            *)
AnswerOk(post, ok) == answer' = IF post.awaited THEN "ok" ELSE answer
Answer(post, ok) ==
  answer' = IF post.awaited THEN IF ok THEN "ok" ELSE "error" ELSE answer

Receive(post) ==
  /\ post \in network
  /\ network' = network \ {post}
  /\ IF Accepting
     THEN /\ chain' = [chain EXCEPT ![post.envelope.client] = Append(@, post)]
          /\ UNCHANGED answer
     ELSE /\ Answer(post, FALSE)
          /\ UNCHANGED chain
  /\ UNCHANGED <<faults, collecting, writing, acknowledged, applying, applied, active, blocked>>
  /\ UNCHANGED clientVars

(* The first post of a client's chain, when its turn has come. *)
Turn(c) == chain[c] # <<>> /\ c \notin writing

Done(c, ok) ==
  /\ chain' = [chain EXCEPT ![c] = Tail(@)]
  /\ Answer(Head(chain[c]), ok)

AcknowledgeUpTo(c, sequence) ==
  /\ acknowledged' = [acknowledged EXCEPT ![c] = sequence]
  /\ applying' = [applying EXCEPT ![c] = 0]

InOrder(c, sequence) == sequence = acknowledged[c] + 1

(* Mutant: nothing is remembered of a write that failed. *)
AlreadyAppliedNever(c, sequence) == FALSE
AlreadyApplied(c, sequence) == applying[c] = sequence

(* Acknowledged before, out of order, or not acceptable. *)
Skip(c) ==
  /\ Turn(c)
  /\ LET e == Head(chain[c]).envelope
     IN  \/ /\ e.sequence <= acknowledged[c]
            /\ Done(c, TRUE)
         \/ /\ e.sequence > acknowledged[c]
            /\ \/ ~InOrder(c, e.sequence)
               \/ e.kind = "refused"
               \/ e.kind = "observation" /\ ~AlreadyApplied(c, e.sequence) /\ ~Accepting
            /\ Done(c, FALSE)
  /\ UNCHANGED <<network, faults, collecting, writing, acknowledged, applying, applied, active, blocked>>
  /\ UNCHANGED clientVars

(* Lifecycle and blocks need no write. *)
ApplyAtOnce(c) ==
  /\ Turn(c)
  /\ LET e == Head(chain[c]).envelope
     IN  /\ e.sequence > acknowledged[c]
         /\ InOrder(c, e.sequence)
         /\ e.kind \in Lifecycle \cup {"block"}
         /\ active' = IF e.kind = "ready" THEN active \cup {c}
                      ELSE IF e.kind = "stopped" THEN active \ {c} ELSE active
         /\ blocked' = (blocked \/ e.kind = "block")
         /\ applied' = [applied EXCEPT ![c] = Append(@, e.kind)]
         /\ AcknowledgeUpTo(c, e.sequence)
         /\ Done(c, TRUE)
  /\ UNCHANGED <<network, faults, collecting, writing>>
  /\ UNCHANGED clientVars

(* An observation is admitted, or counts are added, once; then written.     *)
BeginWrite(c) ==
  /\ Turn(c)
  /\ LET e == Head(chain[c]).envelope
     IN  /\ e.sequence > acknowledged[c]
         /\ InOrder(c, e.sequence)
         /\ e.kind \in {"observation", "counts"}
         /\ e.kind = "observation" => AlreadyApplied(c, e.sequence) \/ Accepting
         /\ IF AlreadyApplied(c, e.sequence)
            THEN UNCHANGED <<applying, applied>>
            ELSE /\ applying' = [applying EXCEPT ![c] = e.sequence]
                 /\ applied' = [applied EXCEPT ![c] = Append(@, e.kind)]
  /\ writing' = writing \cup {c}
  /\ UNCHANGED <<answer, network, faults, collecting, chain, acknowledged, active, blocked>>
  /\ UNCHANGED clientVars

Written(c) ==
  /\ c \in writing
  /\ writing' = writing \ {c}
  /\ AcknowledgeUpTo(c, Head(chain[c]).envelope.sequence)
  /\ Done(c, TRUE)
  /\ UNCHANGED <<network, faults, collecting, applied, active, blocked>>
  /\ UNCHANGED clientVars

WriteFails(c) ==
  /\ c \in writing
  /\ faults < MaxFaults
  /\ faults' = faults + 1
  /\ writing' = writing \ {c}
  /\ blocked' = TRUE
  /\ Done(c, FALSE)
  /\ UNCHANGED <<network, collecting, acknowledged, applying, applied, active>>
  /\ UNCHANGED clientVars

CollectorMoves(from, to) ==
  /\ collecting = from
  /\ collecting' = to
  /\ UNCHANGED <<answer, network, faults, chain, writing, acknowledged, applying, applied, active>>
  /\ UNCHANGED clientVars

BeginStop == CollectorMoves("recording", "stopping") /\ UNCHANGED blocked

(* The 5 s are over: nothing is accepted any more. *)
Deadline == CollectorMoves("stopping", "draining") /\ UNCHANGED blocked

Unfinished == active # {}

Drained ==
  /\ \A c \in Page : chain[c] = <<>>
  /\ blocked' = (blocked \/ Unfinished)
  /\ CollectorMoves("draining", "done")

-----------------------------------------------------------------------------
Init ==
  /\ page = 0
  /\ phase = "none"
  /\ queue = <<>>
  /\ storage = <<>>
  /\ waiting = FALSE
  /\ answer = "none"
  /\ retry = FALSE
  /\ dropped = FALSE
  /\ reports = 0
  /\ made = [c \in Page |-> <<>>]
  /\ wasted = {}
  /\ network = {}
  /\ faults = 0
  /\ collecting = "recording"
  /\ chain = [c \in Page |-> <<>>]
  /\ writing = {}
  /\ acknowledged = [c \in Page |-> 0]
  /\ applying = [c \in Page |-> 0]
  /\ applied = [c \in Page |-> <<>>]
  /\ active = {}
  /\ blocked = FALSE

Client ==
  \/ \E kind \in Kinds : Report(kind)
  \/ Acknowledge \/ Refused \/ Timeout \/ RetryFires \/ Connect
  \/ StopEvent \/ Flushed
  \/ Unload \/ Crash \/ Load

Handle(c) == Skip(c) \/ ApplyAtOnce(c) \/ BeginWrite(c)

Collector ==
  \/ \E post \in network : Receive(post)
  \/ \E c \in Page : Written(c) \/ WriteFails(c)
  \/ BeginStop \/ Deadline \/ Drained

(* The collector handles what it can before its next event (the microtasks  *)
(* of one turn), and the page sees of that the answers only.                *)
Next ==
  IF \E c \in Page : Turn(c) THEN \E c \in Page : Handle(c)
  ELSE Client \/ Collector

(* Posts that are awaited arrive, are handled and answered; timers fire.    *)
Fairness ==
  /\ WF_vars(\E post \in network : post.awaited /\ Receive(post))
  /\ \A c \in Page : WF_vars(Handle(c) \/ Written(c))
  /\ WF_vars(Acknowledge \/ Refused)
  /\ WF_vars(RetryFires)

Spec == Init /\ [][Next]_vars /\ Fairness

-----------------------------------------------------------------------------
(* Properties *)

(* The transport keeps the promise of ObservationLog: everything is applied *)
(* once and in order, through retries, late copies, failed writes and       *)
(* reloads, and a recording is complete only if every page the collector    *)
(* ever heard of delivered all it observed and dropped nothing.             *)
Log ==
  INSTANCE ObservationLog WITH
    Client <- Page, Kind <- Made \cup Lifecycle,
    verdict <- IF collecting # "done" THEN "open"
               ELSE IF blocked THEN "partial" ELSE "complete"

ImplementsLog == Log!Spec

(* A client forgets an envelope only once the collector has acknowledged    *)
(* it, or with its page.                                                    *)
ForgottenWhenStored ==
  [][ phase' # "none" =>
        \A n \in DOMAIN queue :
          \/ \E m \in DOMAIN queue' : queue'[m] = queue[n]
          \/ queue[n].sequence <= acknowledged[queue[n].client] ]_vars

(* While the page stays and the recording goes on, its backlog drains: or   *)
(* the collector refuses its head for good, which is posted over and over.  *)
BacklogDrains ==
  []<>(\/ queue = <<>> \/ Head(queue).kind = "refused"
       \/ phase # "live" \/ collecting # "recording")

=============================================================================
