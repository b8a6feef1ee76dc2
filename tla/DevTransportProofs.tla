--------------------------- MODULE DevTransportProofs ---------------------------
(***************************************************************************)
(* Proofs about the transport of DevTransport, for any number of pages,    *)
(* reports and faults, and any sizes of the queue: what the collector      *)
(* applies is what each page numbered, once and in order, and a recording  *)
(* called complete has left nothing behind of the pages it knows.          *)
(***************************************************************************)
EXTENDS DevTransport, SequenceTheorems, TLAPS

-----------------------------------------------------------------------------
(* The strengthening: its vocabulary                                        *)

Reportable == Made \cup Lifecycle
Envelopes == [client : Page, sequence : Nat \ {0}, kind : Reportable]
Posts == [envelope : Envelopes, awaited : BOOLEAN]

TypedClient ==
  /\ page \in 0 .. Pages
  /\ phase \in {"none", "live", "flushing", "leaving", "closed"}
  /\ queue \in Seq(Envelopes) /\ storage \in Seq(Envelopes)
  /\ waiting \in BOOLEAN /\ answer \in {"none", "ok", "error"} /\ dropped \in BOOLEAN
  /\ made \in [Page -> Seq(Reportable)]
  /\ wasted \subseteq Page
  /\ network \subseteq Posts

TypedCollector ==
  /\ collecting \in {"recording", "stopping", "draining", "done"}
  /\ chain \in [Page -> Seq(Posts)]
  /\ acknowledged \in [Page -> Nat] /\ applying \in [Page -> Nat]
  /\ applied \in [Page -> Seq(Reportable)]
  /\ active \subseteq Page /\ blocked \in BOOLEAN

(* An envelope says what its page numbered.                                 *)
Genuine(e) == e.sequence <= Len(made[e.client]) /\ made[e.client][e.sequence] = e.kind

Sent ==
  /\ \A n \in 1 .. Len(queue) : Genuine(queue[n])
  /\ \A n \in 1 .. Len(storage) : Genuine(storage[n])
  /\ \A p \in network : Genuine(p.envelope)
  /\ \A c \in Page : \A n \in 1 .. Len(chain[c]) :
       chain[c][n].envelope.client = c /\ Genuine(chain[c][n].envelope)

(* One page is shown after the other.                                       *)
Paged ==
  /\ \A c \in Page : c > page => made[c] = <<>>
  /\ phase = "none" => queue = <<>> /\ ~waiting
  /\ phase # "none" => page \in Page

(* What was applied for a client is where its numbers begin; what is        *)
(* applied and not acknowledged is one envelope, the one being written if   *)
(* there is a write.                                                        *)
Progress ==
  \A c \in Page :
    /\ applying[c] \in {0, acknowledged[c] + 1}
    /\ Len(applied[c]) = IF applying[c] = 0 THEN acknowledged[c] ELSE applying[c]
    /\ Len(applied[c]) <= Len(made[c])
    /\ \A n \in 1 .. Len(applied[c]) : applied[c][n] = made[c][n]
    /\ applying[c] # 0 => made[c][applying[c]] \in {"observation", "counts"}
    /\ c \in writing => /\ applying[c] # 0 /\ chain[c] # <<>>
                        /\ chain[c][1].envelope.sequence = applying[c]

(* One post at most is awaited: it is on its way, in a chain or answered,   *)
(* and it carries the head of the queue.                                    *)
Expected(p) == waiting /\ queue # <<>> /\ p.envelope = queue[1]
NoneTravels == \A p \in network : ~p.awaited
NoneChained == \A c \in Page : \A n \in 1 .. Len(chain[c]) : ~chain[c][n].awaited
Single ==
  /\ \A p \in network : p.awaited => Expected(p)
  /\ \A c \in Page : \A n \in 1 .. Len(chain[c]) :
       chain[c][n].awaited =>
         /\ Expected(chain[c][n]) /\ NoneTravels
         /\ \A d \in Page : \A m \in 1 .. Len(chain[d]) : chain[d][m].awaited => c = d /\ n = m
  /\ answer # "none" => waiting /\ queue # <<>> /\ NoneTravels /\ NoneChained
  /\ answer = "ok" => queue[1].sequence <= acknowledged[queue[1].client]

(* The collector remembers what it heard of each client.                    *)
Heard ==
  /\ \A c \in Page : \A n \in 1 .. Len(applied[c]) :
       /\ applied[c][n] = "ready" =>
            c \in active \/ \E m \in 1 .. Len(applied[c]) : applied[c][m] = "stopped"
       /\ applied[c][n] = "block" => blocked
  /\ collecting = "done" => \A c \in Page : chain[c] = <<>>

(* A page that has said it stopped observes nothing more.                   *)
LastWords ==
  /\ \A c \in Page : \A m, n \in 1 .. Len(made[c]) :
       made[c][m] = "stopped" /\ m < n => made[c][n] # "observation"
  /\ phase \in {"live", "flushing"} =>
       \A m \in 1 .. Len(made[page]) : made[page][m] # "stopped"

IInv == /\ TypedClient /\ TypedCollector
        /\ Sent /\ Paged /\ Progress /\ Single /\ Heard /\ LastWords

-----------------------------------------------------------------------------
(* Steps of the page, by what they do to what it numbered and posted        *)

(* What a page has numbered stays.                                          *)
Extends ==
  \A c \in Page :
    /\ Len(made[c]) <= Len(made'[c])
    /\ \A n \in 1 .. Len(made[c]) : made'[c][n] = made[c][n]

GenuineNext(e) == e.sequence <= Len(made'[e.client]) /\ made'[e.client][e.sequence] = e.kind

ExpectedNext(p) == waiting' /\ queue' # <<>> /\ p.envelope = queue'[1]

(* Nothing comes into the chains, and nothing leaves them.                  *)
SameMail ==
  /\ chain' \in [Page -> Seq(Posts)]
  /\ \A c \in Page :
       /\ Len(chain'[c]) = Len(chain[c])
       /\ \A n \in 1 .. Len(chain[c]) : chain'[c][n].envelope = chain[c][n].envelope

Numbers(k) ==
  made' = [made EXCEPT ![page] = Append(@, k)]
NewEnvelope(k) ==
  [client |-> page, sequence |-> Len(made[page]) + 1, kind |-> k]
Takes(k) == Numbers(k) /\ queue' = Append(queue, NewEnvelope(k))
Sends(q) ==
  /\ ~waiting /\ q # <<>>
  /\ waiting' = TRUE
  /\ network' = network \cup {[envelope |-> Head(q), awaited |-> TRUE]}

(* A list of nothing numbers nothing, and one of one kind one envelope.     *)
LEMMA NumberedOne ==
  ASSUME TypedClient, page \in Page
  PROVE  /\ Numbered(page, <<>>) = <<>>
         /\ \A k \in Reportable : /\ Numbered(page, <<k>>) = <<NewEnvelope(k)>>
                                  /\ NewEnvelope(k) \in Envelopes
<1>1. Len(made[page]) \in Nat
  BY DEF TypedClient
<1>2. Numbered(page, <<>>) = <<>>
  BY DEF Numbered
<1>3. ASSUME NEW k \in Reportable
      PROVE  NewEnvelope(k) \in Envelopes /\ Numbered(page, <<k>>) = <<NewEnvelope(k)>>
  <2>1. NewEnvelope(k) \in Envelopes
    BY <1>1 DEF NewEnvelope, Envelopes
  <2>2. DOMAIN <<k>> = 1 .. 1 /\ <<k>>[1] = k
    OBVIOUS
  <2>3. Numbered(page, <<k>>) = [n \in 1 .. 1 |-> NewEnvelope(k)]
    BY <1>1, <2>2 DEF Numbered, NewEnvelope
  <2>4. [n \in 1 .. 1 |-> NewEnvelope(k)] = <<NewEnvelope(k)>>
    OBVIOUS
  <2> QED  BY <2>1, <2>3, <2>4
<1> QED  BY <1>2, <1>3

(* What the queue keeps of a report is it, a diagnostic, or nothing.        *)
LEMMA KeptOne ==
  ASSUME NEW q, NEW kind
  PROVE  Kept(q, kind) \in {<<>>, <<kind>>, <<"block">>}
BY DEF Kept

(* To take one kind is to append one envelope.                              *)
LEMMA KeptTaken ==
  ASSUME TypedClient, page \in Page, NEW kind \in Reportable
  PROVE  LET kept == Kept(queue, kind)
         IN  \/ /\ kept = <<>>
                /\ queue \o Numbered(page, kept) = queue
                /\ [made EXCEPT ![page] = @ \o kept] = made
             \/ \E k \in {kind, "block"} :
                  /\ kept = <<k>>
                  /\ queue \o Numbered(page, kept) = Append(queue, NewEnvelope(k))
                  /\ [made EXCEPT ![page] = @ \o kept] = [made EXCEPT ![page] = Append(@, k)]
<1> DEFINE kept == Kept(queue, kind)
<1>1. queue \in Seq(Envelopes) /\ made \in [Page -> Seq(Reportable)] /\ made[page] \in Seq(Reportable)
  BY DEF TypedClient
<1>2. CASE kept = <<>>
  <2>1. queue \o Numbered(page, kept) = queue
    BY <1>1, <1>2, NumberedOne, ConcatEmptySeq
  <2>2. made[page] \o kept = made[page]
    BY <1>1, <1>2, ConcatEmptySeq
  <2> QED  BY <1>1, <1>2, <2>1, <2>2
<1>3. ASSUME NEW k \in {kind, "block"}, kept = <<k>>
      PROVE  /\ queue \o Numbered(page, kept) = Append(queue, NewEnvelope(k))
             /\ [made EXCEPT ![page] = @ \o kept] = [made EXCEPT ![page] = Append(@, k)]
  <2>1. k \in Reportable
    BY DEF Reportable, Made
  <2>2. queue \o Numbered(page, kept) = Append(queue, NewEnvelope(k))
    BY <1>1, <1>3, <2>1, NumberedOne, AppendIsConcat
  <2>3. made[page] \o kept = Append(made[page], k)
    BY <1>1, <1>3, <2>1, AppendIsConcat
  <2> QED  BY <2>2, <2>3
<1> QED  BY <1>2, <1>3, KeptOne

(* Taking one report in extends what the page made, and its envelope is genuine. *)
LEMMA TakenExtends ==
  ASSUME TypedClient, page \in Page, NEW k \in Reportable, Numbers(k)
  PROVE  /\ Extends
         /\ made' \in [Page -> Seq(Reportable)]
         /\ \A c \in Page \ {page} : made'[c] = made[c]
         /\ Len(made'[page]) = Len(made[page]) + 1
         /\ made'[page][Len(made[page]) + 1] = k
         /\ GenuineNext(NewEnvelope(k))
<1>1. made[page] \in Seq(Reportable) /\ Len(made[page]) \in Nat
  BY DEF TypedClient
<1>2. made'[page] = Append(made[page], k) /\ \A c \in Page \ {page} : made'[c] = made[c]
  BY DEF TypedClient, Numbers
<1>3. made' \in [Page -> Seq(Reportable)]
  BY <1>1 DEF TypedClient, Numbers
<1>4. /\ Len(made'[page]) = Len(made[page]) + 1
      /\ made'[page][Len(made[page]) + 1] = k
      /\ \A n \in 1 .. Len(made[page]) : made'[page][n] = made[page][n]
  BY <1>1, <1>2, AppendProperties
<1>5. \A c \in Page : Len(made[c]) \in Nat
  BY DEF TypedClient
<1>6. Extends
  BY <1>2, <1>4, <1>5 DEF Extends
<1>7. GenuineNext(NewEnvelope(k))
  BY <1>1, <1>4 DEF GenuineNext, NewEnvelope
<1> QED  BY <1>2, <1>3, <1>4, <1>6, <1>7

(* A genuine envelope stays genuine when its page makes more. *)
LEMMA GenuineStays ==
  ASSUME TypedClient, Extends, NEW e \in Envelopes, Genuine(e)
  PROVE  GenuineNext(e)
<1>1. e.client \in Page /\ e.sequence \in Nat \ {0} /\ Len(made[e.client]) \in Nat
      /\ Len(made'[e.client]) >= Len(made[e.client])
  BY DEF TypedClient, Envelopes, Extends
<1>2. e.sequence \in 1 .. Len(made[e.client])
  BY <1>1 DEF Genuine
<1> QED  BY <1>1, <1>2 DEF Genuine, GenuineNext, Extends

(* The queue has grown at its end, by what was numbered.                    *)
Grows ==
  /\ Extends /\ made' \in [Page -> Seq(Reportable)]
  /\ \A c \in Page \ {page} : made'[c] = made[c]
  /\ queue' \in Seq(Envelopes)
  /\ queue # <<>> => queue' # <<>> /\ queue'[1] = queue[1]
  /\ \A n \in 1 .. Len(queue') :
       GenuineNext(queue'[n]) \/ (n \in 1 .. Len(queue) /\ queue'[n] = queue[n])

(* A step in which no page makes anything extends what was made. *)
LEMMA NothingNumbered ==
  ASSUME made' = made
  PROVE  Extends
BY DEF Extends

(* Where nothing is numbered or taken over, what was posted stays what it   *)
(* says, and the collector stays where it is.                               *)
LEMMA ProgressStays ==
  ASSUME IInv, Extends, made' \in [Page -> Seq(Reportable)], SameMail,
         UNCHANGED <<writing, acknowledged, applying, applied, active, blocked, collecting>>
  PROVE  Progress' /\ Heard'
<1>1. ASSUME NEW c \in Page
      PROVE  /\ Len(applied[c]) \in Nat /\ Len(made[c]) \in Nat /\ Len(made'[c]) \in Nat
             /\ Len(applied[c]) <= Len(made'[c])
             /\ \A n \in 1 .. Len(applied[c]) : applied[c][n] = made'[c][n]
             /\ applying[c] # 0 => made'[c][applying[c]] \in {"observation", "counts"}
  <2>1. Len(applied[c]) \in Nat /\ Len(made[c]) \in Nat /\ Len(made'[c]) \in Nat
    BY DEF IInv, TypedClient, TypedCollector
  <2>2. Len(applied[c]) <= Len(made[c]) /\ \A n \in 1 .. Len(applied[c]) : applied[c][n] = made[c][n]
    BY DEF IInv, Progress
  <2>3. Len(made[c]) <= Len(made'[c]) /\ \A n \in 1 .. Len(made[c]) : made'[c][n] = made[c][n]
    BY DEF Extends
  <2>4. applying[c] # 0 => applying[c] \in 1 .. Len(made[c]) /\ made[c][applying[c]] \in {"observation", "counts"}
    BY <2>1, <2>2 DEF IInv, TypedCollector, Progress
  <2> QED  BY <2>1, <2>2, <2>3, <2>4
<1>2. ASSUME NEW c \in Page
      PROVE  /\ chain[c] # <<>> => chain'[c] # <<>> /\ chain'[c][1].envelope = chain[c][1].envelope
             /\ chain[c] = <<>> => chain'[c] = <<>>
  <2>1. chain[c] \in Seq(Posts) /\ chain'[c] \in Seq(Posts) /\ Len(chain'[c]) = Len(chain[c])
    BY DEF IInv, TypedCollector, SameMail
  <2>2. chain[c] # <<>> => 1 \in 1 .. Len(chain[c])
    BY <2>1
  <2> QED  BY <2>1, <2>2 DEF SameMail
<1>3. Progress'
  BY <1>1, <1>2 DEF IInv, Progress
<1>4. Heard'
  BY <1>2 DEF IInv, Heard
<1> QED  BY <1>3, <1>4

(* What a post waits for is not disturbed when the queue grows at its end.  *)
LEMMA HeadStays ==
  ASSUME NEW q \in Seq(Envelopes), q # <<>>, NEW e \in Envelopes
  PROVE  Append(q, e) # <<>> /\ Append(q, e)[1] = q[1]
BY AppendProperties

(* Whoever posts waits for nothing else.                                    *)
LEMMA SentAlone ==
  ASSUME IInv, ~waiting
  PROVE  NoneTravels /\ NoneChained /\ answer = "none"
BY DEF IInv, Single, Expected, NoneTravels, NoneChained

(* What does not touch the page, its posts and the collector changes nothing. *)
LEMMA UntouchedPreserves ==
  ASSUME IInv, UNCHANGED <<page, queue, storage, waiting, answer, dropped, made, wasted, network>>,
         UNCHANGED collectorVars,
         phase' = phase \/ (phase # "none" /\ phase' \in {"flushing", "leaving", "closed"}
                            /\ (phase' = "flushing" => phase = "live"))
  PROVE  IInv'
<1>1. UNCHANGED <<collecting, chain, writing, acknowledged, applying, applied, active, blocked>>
  BY DEF collectorVars
<1>2. TypedClient' /\ TypedCollector'
  BY <1>1 DEF IInv, TypedClient, TypedCollector
<1>3. Sent'
  BY <1>1 DEF IInv, Sent, Genuine
<1>4. Paged' /\ LastWords'
  BY <1>1 DEF IInv, Paged, LastWords
<1>5. Progress' /\ Heard'
  BY <1>1 DEF IInv, Progress, Heard
<1>6. Single'
  BY <1>1 DEF IInv, Single, Expected, NoneTravels, NoneChained
<1> QED  BY <1>2, <1>3, <1>4, <1>5, <1>6 DEF IInv

(* A page that posts, awaits the head of its queue.                         *)
LEMMA SendsOne ==
  ASSUME IInv, NEW q \in Seq(Envelopes), queue' = q, queue # <<>> => q # <<>> /\ q[1] = queue[1],
         UNCHANGED <<waiting, network>> \/ Sends(q),
         UNCHANGED <<answer, chain, acknowledged>>
  PROVE  /\ waiting' \in BOOLEAN /\ network' \subseteq Posts
         /\ \A p \in network' : p \in network \/ (q # <<>> /\ p.envelope = q[1])
         /\ Single'
<1>1. CASE UNCHANGED <<waiting, network>>
  <2>1. waiting' \in BOOLEAN /\ network' \subseteq Posts /\ network' = network
    BY <1>1 DEF IInv, TypedClient
  <2>2. \A p : Expected(p) => Expected(p)'
    BY <1>1 DEF Expected
  <2>3. NoneTravels' = NoneTravels /\ NoneChained' = NoneChained
    BY <1>1 DEF NoneTravels, NoneChained
  <2>4. Single'
    BY <1>1, <2>2, <2>3 DEF IInv, Single, Expected, NoneTravels, NoneChained
  <2> QED  BY <2>1, <2>4
<1>2. CASE Sends(q)
  <2>1. q # <<>> /\ q[1] \in Envelopes /\ Head(q) = q[1]
    BY <1>2, EmptySeq, ElementOfSeq DEF Sends
  <2>2. PICK p \in Posts : p = [envelope |-> q[1], awaited |-> TRUE]
    BY <2>1 DEF Posts
  <2>3. network' = network \cup {p} /\ waiting' = TRUE /\ p.envelope = q[1]
    BY <1>2, <2>1, <2>2 DEF Sends
  <2>4. NoneTravels /\ NoneChained /\ answer = "none"
    BY <1>2, SentAlone DEF Sends
  <2>5. Single'
    BY <2>1, <2>3, <2>4 DEF Single, Expected, NoneTravels, NoneChained
  <2>6. network \subseteq Posts
    BY DEF IInv, TypedClient
  <2> QED  BY <2>1, <2>3, <2>5, <2>6
<1> QED  BY <1>1, <1>2

(* A page that still reports has not said it stopped.                       *)
LEMMA LastWordsStay ==
  ASSUME IInv, page \in Page, page' = page, NEW k \in Reportable, Numbers(k),
         k = "stopped" => phase' \notin {"live", "flushing"},
         k = "observation" => phase \in {"live", "flushing"},
         phase' \in {"live", "flushing"} => phase \in {"live", "flushing"}
  PROVE  LastWords'
<1>0. Extends /\ \A c \in Page \ {page} : made'[c] = made[c]
  BY TakenExtends DEF IInv
<1>1. /\ made[page] \in Seq(Reportable) /\ Len(made[page]) \in Nat
      /\ Len(made'[page]) = Len(made[page]) + 1
      /\ made'[page][Len(made[page]) + 1] = k
      /\ \A n \in 1 .. Len(made[page]) : made'[page][n] = made[page][n]
  BY <1>0, TakenExtends DEF IInv, TypedClient, Extends
<1>2. \A m, n \in 1 .. Len(made[page]) :
        made[page][m] = "stopped" /\ m < n => made[page][n] # "observation"
  BY DEF IInv, LastWords
<1>3. phase \in {"live", "flushing"} => \A m \in 1 .. Len(made[page]) : made[page][m] # "stopped"
  BY DEF IInv, LastWords
<1>4. \A m, n \in 1 .. Len(made'[page]) :
        made'[page][m] = "stopped" /\ m < n => made'[page][n] # "observation"
  <2>1. SUFFICES ASSUME NEW m \in 1 .. Len(made[page]) + 1, NEW n \in 1 .. Len(made[page]) + 1,
                        made'[page][m] = "stopped", m < n
                 PROVE  made'[page][n] # "observation"
    BY <1>1
  <2>2. m \in 1 .. Len(made[page]) /\ made[page][m] = "stopped"
    BY <1>1, <2>1
  <2>3. CASE n \in 1 .. Len(made[page])
    BY <1>1, <1>2, <2>1, <2>2, <2>3
  <2>4. CASE n = Len(made[page]) + 1
    BY <1>1, <1>3, <2>2, <2>4
  <2> QED  BY <1>1, <2>1, <2>3, <2>4
<1>5. phase' \in {"live", "flushing"} => \A m \in 1 .. Len(made'[page]) : made'[page][m] # "stopped"
  BY <1>1, <1>3
<1>6. \A c \in Page \ {page} : \A m, n \in 1 .. Len(made'[c]) :
        made'[c][m] = "stopped" /\ m < n => made'[c][n] # "observation"
  BY <1>0 DEF IInv, LastWords
<1> QED  BY <1>4, <1>5, <1>6 DEF LastWords

(* A page that stays reports, or posts again.                               *)
LEMMA StayingPreserves ==
  ASSUME IInv, phase # "none", phase' \in {"live", "flushing", "leaving", "closed"},
         phase' \in {"live", "flushing"} => phase \in {"live", "flushing"},
         \/ queue' = queue /\ made' = made
         \/ \E k \in Reportable : /\ Takes(k)
                                  /\ k = "stopped" => phase' \notin {"live", "flushing"}
                                  /\ k = "observation" => phase \in {"live", "flushing"},
         storage' \in {queue', storage},
         UNCHANGED <<waiting, network>> \/ Sends(queue'),
         dropped' \in BOOLEAN, wasted' \subseteq Page,
         UNCHANGED <<page, answer, collectorVars>>
  PROVE  IInv'
<1>1. page \in Page /\ queue \in Seq(Envelopes) /\ made \in [Page -> Seq(Reportable)]
  BY DEF IInv, TypedClient, Paged
<1>2. Grows
  <2>1. CASE queue' = queue /\ made' = made
    BY <1>1, <2>1, NothingNumbered DEF Grows
  <2>2. ASSUME NEW k \in Reportable, Takes(k)
        PROVE  Grows
    <3>1. /\ Extends /\ made' \in [Page -> Seq(Reportable)]
          /\ \A c \in Page \ {page} : made'[c] = made[c]
          /\ GenuineNext(NewEnvelope(k))
      BY <1>1, <2>2, TakenExtends DEF IInv, Takes
    <3>2. NewEnvelope(k) \in Envelopes
      BY <1>1, NumberedOne DEF IInv
    <3>3. /\ queue' \in Seq(Envelopes) /\ Len(queue') = Len(queue) + 1
          /\ \A n \in 1 .. Len(queue) : queue'[n] = queue[n]
          /\ queue'[Len(queue) + 1] = NewEnvelope(k)
      BY <1>1, <2>2, <3>2, AppendProperties DEF Takes
    <3>4. Len(queue) \in Nat /\ (queue # <<>> => 1 \in 1 .. Len(queue))
      BY <1>1
    <3>5. queue # <<>> => queue' # <<>> /\ queue'[1] = queue[1]
      BY <3>3, <3>4, EmptySeq
    <3>6. \A n \in 1 .. Len(queue') : n \in 1 .. Len(queue) \/ n = Len(queue) + 1
      BY <3>3, <3>4
    <3> QED  BY <3>1, <3>3, <3>5, <3>6 DEF Grows
  <2> QED  BY <2>1, <2>2
<1>3. /\ waiting' \in BOOLEAN /\ network' \subseteq Posts
      /\ \A p \in network' : p \in network \/ (queue' # <<>> /\ p.envelope = queue'[1])
      /\ Single'
  BY <1>2, SendsOne DEF Grows, collectorVars
<1>4. SameMail /\ UNCHANGED <<chain, collectorVars>>
  BY DEF IInv, TypedCollector, SameMail, collectorVars
<1>5. TypedClient' /\ TypedCollector'
  <2>1. storage' \in Seq(Envelopes)
    BY <1>2 DEF IInv, TypedClient, Grows
  <2>2. TypedClient'
    BY <1>2, <1>3, <2>1 DEF IInv, TypedClient, Grows
  <2>3. TypedCollector'
    BY DEF IInv, TypedCollector, collectorVars
  <2> QED  BY <2>2, <2>3
<1>6. Progress' /\ Heard'
  BY <1>2, <1>4, ProgressStays DEF Grows, collectorVars
<1>7. Sent'
  <2>1. \A e \in Envelopes : Genuine(e) => GenuineNext(e)
    BY <1>2, GenuineStays DEF IInv, Grows
  <2>2. \A n \in 1 .. Len(queue') : GenuineNext(queue'[n])
    BY <1>1, <1>2, <2>1, ElementOfSeq DEF IInv, Sent, Grows
  <2>3. \A n \in 1 .. Len(storage) : GenuineNext(storage[n])
    BY <2>1, ElementOfSeq DEF IInv, TypedClient, Sent
  <2>4. \A n \in 1 .. Len(storage') : GenuineNext(storage'[n])
    BY <2>2, <2>3
  <2>5. \A p \in network : GenuineNext(p.envelope)
    BY <2>1 DEF IInv, TypedClient, Posts, Sent
  <2>6. \A p \in network' : GenuineNext(p.envelope)
    <3>1. queue' # <<>> => 1 \in 1 .. Len(queue')
      BY <1>2, EmptySeq DEF Grows
    <3> QED  BY <1>3, <2>2, <2>5, <3>1
  <2>7. \A c \in Page : \A n \in 1 .. Len(chain[c]) :
          chain[c][n].envelope.client = c /\ GenuineNext(chain[c][n].envelope)
    <3>1. ASSUME NEW c \in Page, NEW n \in 1 .. Len(chain[c])
          PROVE  chain[c][n].envelope \in Envelopes
      <4>1. chain[c] \in Seq(Posts)
        BY DEF IInv, TypedCollector
      <4>2. chain[c][n] \in Posts
        BY <4>1, ElementOfSeq
      <4> QED  BY <4>2 DEF Posts
    <3> QED  BY <2>1, <3>1 DEF IInv, Sent
  <2> QED  BY <1>4, <2>2, <2>4, <2>6, <2>7 DEF Sent, Genuine, GenuineNext
<1>8. Paged'
  BY <1>1, <1>2 DEF IInv, TypedClient, Paged, Grows
<1>9. LastWords'
  <2>1. CASE made' = made
    BY <1>1, <2>1 DEF IInv, LastWords
  <2>2. ASSUME NEW k \in Reportable, Numbers(k),
               k = "stopped" => phase' \notin {"live", "flushing"},
               k = "observation" => phase \in {"live", "flushing"}
        PROVE  LastWords'
    BY <1>1, <2>2, LastWordsStay
  <2> QED  BY <2>1, <2>2 DEF Takes
<1> QED  BY <1>3, <1>5, <1>6, <1>7, <1>8, <1>9 DEF IInv

(* What one call of send does to the queue, the storage and what the page has made. *)
LEMMA SendEffect ==
  ASSUME NEW q, Send(q)
  PROVE  UNCHANGED <<waiting, network>> \/ Sends(q)
BY DEF Send, Sends

(* A report of the runtime preserves the invariant. *)
LEMMA ReportPreserves ==
  ASSUME IInv, NEW kind \in Kinds, Report(kind)
  PROVE  IInv'
<1>1. kind \in Made /\ kind \notin Lifecycle /\ kind \in Reportable /\ phase # "none" /\ page \in Page
  BY TransportAssumption DEF IInv, Paged, Report, Made, Observed, Lifecycle, Reportable
<1>2. \/ queue' = queue /\ made' = made
      \/ \E k \in {kind, "block"} : Takes(k)
  BY <1>1, KeptTaken DEF IInv, Report, Enqueue, Takes, Numbers
<1>3. \A k \in {kind, "block"} : /\ k \in Reportable /\ k # "stopped"
                                 /\ k = "observation" => phase \in {"live", "flushing"}
  BY <1>1 DEF Report, Made, Observed, Lifecycle, Reportable
<1>4. storage' \in {queue', storage}
  BY DEF Report, Enqueue, Persist
<1>5. UNCHANGED <<waiting, network>> \/ Sends(queue')
  BY SendEffect DEF Report, Enqueue
<1>6. dropped' \in BOOLEAN /\ wasted' \subseteq Page
  BY <1>1 DEF IInv, TypedClient, Report, Enqueue, Overflows
<1>7. phase' = phase /\ phase \in {"live", "flushing", "leaving", "closed"}
  BY <1>1 DEF IInv, TypedClient, Report
<1> QED  BY <1>1, <1>2, <1>3, <1>4, <1>5, <1>6, <1>7, StayingPreserves DEF Report

(* The end of the runtime's flush, which sends the last words, preserves it. *)
LEMMA FlushedPreserves ==
  ASSUME IInv, Flushed
  PROVE  IInv'
<1>1. "stopped" \in Reportable /\ phase # "none" /\ page \in Page /\ phase' = "leaving"
  BY DEF IInv, Paged, Flushed, Lifecycle, Reportable
<1>2. \/ queue' = queue /\ made' = made
      \/ \E k \in {"stopped", "block"} : Takes(k)
  BY <1>1, KeptTaken DEF IInv, Flushed, Enqueue, Takes, Numbers
<1>3. "block" \in Reportable
  BY DEF Made, Reportable
<1>4. storage' \in {queue', storage}
  BY DEF Flushed, Enqueue, Persist
<1>5. UNCHANGED <<waiting, network>> \/ Sends(queue')
  BY SendEffect DEF Flushed, Enqueue
<1>6. dropped' \in BOOLEAN /\ wasted' \subseteq Page
  BY <1>1 DEF IInv, TypedClient, Flushed, Enqueue, Overflows
<1> QED  BY <1>1, <1>2, <1>3, <1>4, <1>5, <1>6, StayingPreserves DEF Flushed

(* Another run of send, of a retry or otherwise, preserves the invariant. *)
LEMMA PostsAgainPreserves ==
  ASSUME IInv, RetryFires \/ Connect
  PROVE  IInv'
<1>1. UNCHANGED <<waiting, network>> \/ Sends(queue)
  BY SendEffect DEF RetryFires, Connect
<1>2. UNCHANGED <<page, phase, queue, storage, answer, dropped, made, wasted, collectorVars>>
  BY DEF RetryFires, Connect
<1>3. Sends(queue) => phase # "none"
  BY DEF IInv, Paged, Sends
<1>4. CASE phase # "none"
  BY <1>1, <1>2, <1>4, StayingPreserves DEF IInv, TypedClient
<1>5. CASE UNCHANGED <<waiting, network>>
  BY <1>2, <1>5, UntouchedPreserves
<1> QED  BY <1>1, <1>3, <1>4, <1>5

(* What was genuine stays so when pages number more.                        *)
LEMMA SentStays ==
  ASSUME IInv, Extends
  PROVE  /\ \A n \in 1 .. Len(queue) : GenuineNext(queue[n])
         /\ \A n \in 1 .. Len(storage) : GenuineNext(storage[n])
         /\ \A p \in network : GenuineNext(p.envelope)
         /\ \A c \in Page : \A n \in 1 .. Len(chain[c]) :
              chain[c][n].envelope.client = c /\ GenuineNext(chain[c][n].envelope)
<1>1. \A e \in Envelopes : Genuine(e) => GenuineNext(e)
  BY GenuineStays DEF IInv
<1>2. queue \in Seq(Envelopes) /\ storage \in Seq(Envelopes)
  BY DEF IInv, TypedClient
<1>3. \A n \in 1 .. Len(queue) : GenuineNext(queue[n])
  BY <1>1, <1>2, ElementOfSeq DEF IInv, Sent
<1>4. \A n \in 1 .. Len(storage) : GenuineNext(storage[n])
  BY <1>1, <1>2, ElementOfSeq DEF IInv, Sent
<1>5. \A p \in network : GenuineNext(p.envelope)
  BY <1>1 DEF IInv, TypedClient, Posts, Sent
<1>6. ASSUME NEW c \in Page, NEW n \in 1 .. Len(chain[c])
      PROVE  chain[c][n].envelope.client = c /\ GenuineNext(chain[c][n].envelope)
  <2>1. chain[c] \in Seq(Posts)
    BY DEF IInv, TypedCollector
  <2>2. chain[c][n] \in Posts
    BY <2>1, ElementOfSeq
  <2> QED  BY <1>1, <2>2 DEF Posts, IInv, Sent
<1> QED  BY <1>3, <1>4, <1>5, <1>6

(* A step of the page after which no answer is on its way and no post in a  *)
(* chain is awaited.                                                        *)
LEMMA UnansweredPreserves ==
  ASSUME IInv, Extends, SameMail, TypedClient', Paged', LastWords',
         answer' = "none", NoneChained',
         \A n \in 1 .. Len(queue') : GenuineNext(queue'[n]),
         \A n \in 1 .. Len(storage') : GenuineNext(storage'[n]),
         \A p \in network' : GenuineNext(p.envelope) /\ (p.awaited => Expected(p)'),
         UNCHANGED <<collecting, writing, acknowledged, applying, applied, active, blocked>>
  PROVE  IInv'
<1>1. TypedCollector'
  BY DEF IInv, TypedCollector, SameMail
<1>2. Progress' /\ Heard'
  BY ProgressStays DEF TypedClient
<1>3. \A c \in Page : \A n \in 1 .. Len(chain'[c]) :
        chain'[c][n].envelope.client = c /\ GenuineNext(chain'[c][n].envelope)
  <2>1. \A c \in Page : \A n \in 1 .. Len(chain[c]) :
          chain[c][n].envelope.client = c /\ GenuineNext(chain[c][n].envelope)
    BY SentStays
  <2> QED  BY <2>1 DEF SameMail
<1>4. Sent'
  BY <1>3 DEF Sent, Genuine, GenuineNext
<1>5. Single'
  BY DEF Single, NoneChained
<1> QED  BY <1>1, <1>2, <1>4, <1>5 DEF IInv

(* Nobody waits for what was made late.                                     *)
LEMMA LateOnes ==
  ASSUME network \subseteq Posts
  PROVE  /\ Late(network) \subseteq Posts
         /\ \A p \in Late(network) : ~p.awaited /\ \E q \in network : p.envelope = q.envelope
<1>1. ASSUME NEW q \in network
      PROVE  LET p == [q EXCEPT !.awaited = FALSE]
             IN  p \in Posts /\ ~p.awaited /\ p.envelope = q.envelope
  BY DEF Posts
<1> QED  BY <1>1 DEF Late

(* Once nobody waits, every post is still in the network or its chain, unawaited. *)
LEMMA AbandonedMail ==
  ASSUME TypedCollector, Abandon
  PROVE  SameMail /\ NoneChained' /\ answer' = "none"
         /\ UNCHANGED <<collecting, writing, acknowledged, applying, applied, active, blocked>>
<1>1. ASSUME NEW c \in Page
      PROVE  /\ chain'[c] \in Seq(Posts) /\ Len(chain'[c]) = Len(chain[c])
             /\ \A n \in 1 .. Len(chain[c]) : chain'[c][n].envelope = chain[c][n].envelope
                                              /\ ~chain'[c][n].awaited
  <2>1. chain[c] \in Seq(Posts) /\ DOMAIN chain[c] = 1 .. Len(chain[c]) /\ Len(chain[c]) \in Nat
    BY DEF TypedCollector
  <2>2. chain'[c] = [n \in 1 .. Len(chain[c]) |-> [chain[c][n] EXCEPT !.awaited = FALSE]]
    BY <2>1 DEF Abandon
  <2>3. \A n \in 1 .. Len(chain[c]) : chain[c][n] \in Posts
    BY <2>1, ElementOfSeq
  <2>4. ASSUME NEW n \in 1 .. Len(chain[c])
        PROVE  /\ chain'[c][n] \in Posts
               /\ chain'[c][n].envelope = chain[c][n].envelope /\ ~chain'[c][n].awaited
    BY ZenonT(40), <2>2, <2>3 DEF Posts
  <2>5. chain'[c] \in [1 .. Len(chain[c]) -> Posts]
    BY <2>2, <2>4
  <2>6. chain'[c] \in Seq(Posts) /\ Len(chain'[c]) = Len(chain[c])
    BY <2>1, <2>5
  <2> QED  BY <2>4, <2>6
<1>2. chain' \in [Page -> Seq(Posts)]
  <2>1. chain' = [c \in Page |-> chain'[c]]
    BY DEF Abandon
  <2> QED  BY <1>1, <2>1
<1>3. SameMail
  BY <1>1, <1>2 DEF SameMail
<1>4. NoneChained'
  BY <1>1 DEF NoneChained
<1> QED  BY <1>3, <1>4 DEF Abandon

(* The stop event preserves the invariant. *)
LEMMA StopEventPreserves ==
  ASSUME IInv, StopEvent
  PROVE  IInv'
BY UntouchedPreserves DEF StopEvent

(* An acknowledgement forgets the head of the queue, which the collector has stored. *)
LEMMA AcknowledgePreserves ==
  ASSUME IInv, Acknowledge
  PROVE  IInv'
<1>1. /\ waiting /\ queue # <<>> /\ NoneTravels /\ NoneChained
      /\ queue \in Seq(Envelopes) /\ storage \in Seq(Envelopes)
  BY DEF IInv, TypedClient, Single, Acknowledge
<1>2. UNCHANGED <<page, dropped, made, wasted, collectorVars>> /\ queue' = Tail(queue)
  BY DEF Acknowledge
<1>3. phase # "none" /\ phase' \in {phase, "closed"}
  BY <1>1 DEF IInv, Paged, Acknowledge, SendEnds
<1>4. Extends /\ SameMail
  BY <1>2, NothingNumbered DEF IInv, TypedCollector, SameMail, collectorVars
<1>5. queue' \in Seq(Envelopes) /\ \A n \in 1 .. Len(queue') : GenuineNext(queue'[n])
  <2>1. queue' \in Seq(Envelopes) /\ Len(queue') = Len(queue) - 1 /\ Len(queue) \in Nat
        /\ \A n \in 1 .. Len(queue') : queue'[n] = queue[n + 1]
    BY <1>1, <1>2, HeadTailProperties
  <2> QED  BY <1>4, <2>1, SentStays
<1>6. storage' \in Seq(Envelopes) /\ \A n \in 1 .. Len(storage') : GenuineNext(storage'[n])
  <2>1. storage' \in {queue', storage}
    BY DEF Acknowledge, Persist
  <2>2. CASE storage' = queue'
    BY <1>5, <2>2
  <2>3. CASE storage' = storage
    BY <1>1, <1>4, <2>3, SentStays
  <2> QED  BY <2>1, <2>2, <2>3
<1>7. /\ network' \subseteq Posts /\ waiting' \in BOOLEAN
      /\ \A p \in network' : GenuineNext(p.envelope) /\ (p.awaited => Expected(p)')
  <2>1. \A p \in network : GenuineNext(p.envelope) /\ ~p.awaited
    BY <1>1, <1>4, SentStays DEF NoneTravels
  <2>2. CASE queue' = <<>>
    BY <2>1, <2>2 DEF Acknowledge, SendEnds, IInv, TypedClient
  <2>3. CASE queue' # <<>>
    <3>1. queue'[1] \in Envelopes /\ Head(queue') = queue'[1] /\ GenuineNext(queue'[1])
      <4>1. 1 \in 1 .. Len(queue')
        BY <1>5, <2>3, EmptySeq
      <4> QED  BY <1>5, <4>1, ElementOfSeq
    <3>2. PICK p \in Posts : p = [envelope |-> queue'[1], awaited |-> TRUE]
      BY <3>1 DEF Posts
    <3>3. network' = network \cup {p} /\ waiting' = TRUE /\ p.envelope = queue'[1]
      BY <1>1, <2>3, <3>1, <3>2 DEF Acknowledge
    <3> QED  BY <2>1, <2>3, <3>1, <3>3 DEF Expected, IInv, TypedClient
  <2> QED  BY <2>2, <2>3
<1>8. TypedClient' /\ answer' = "none"
  BY <1>2, <1>3, <1>5, <1>6, <1>7 DEF IInv, TypedClient, Acknowledge
<1>9. Paged' /\ LastWords'
  BY <1>2, <1>3 DEF IInv, TypedClient, Paged, LastWords
<1>10. NoneChained'
  BY <1>1, <1>2 DEF NoneChained, collectorVars
<1> QED
  BY <1>2, <1>4, <1>5, <1>6, <1>7, <1>8, <1>9, <1>10, UnansweredPreserves DEF collectorVars

(* A refusal leaves the head in the queue. *)
LEMMA RefusedPreserves ==
  ASSUME IInv, Refused
  PROVE  IInv'
<1>1. /\ waiting /\ NoneTravels /\ NoneChained
  BY DEF IInv, Single, Refused
<1>2. UNCHANGED <<page, queue, storage, dropped, made, wasted, network, collectorVars>>
  BY DEF Refused
<1>3. phase # "none" /\ phase' \in {phase, "closed"} /\ waiting' = FALSE /\ answer' = "none"
  BY <1>1 DEF IInv, Paged, Refused, SendEnds
<1>4. Extends /\ SameMail
  BY <1>2, NothingNumbered DEF IInv, TypedCollector, SameMail, collectorVars
<1>5. TypedClient' /\ Paged' /\ LastWords'
  <2>1. TypedClient'
    BY <1>2, <1>3 DEF IInv, TypedClient
  <2>2. Paged'
    BY <1>2, <1>3 DEF IInv, Paged
  <2>3. LastWords'
    BY <1>2, <1>3 DEF IInv, LastWords
  <2> QED  BY <2>1, <2>2, <2>3
<1>6. NoneChained'
  BY <1>1, <1>2 DEF NoneChained, collectorVars
<1>7. /\ \A n \in 1 .. Len(queue') : GenuineNext(queue'[n])
      /\ \A n \in 1 .. Len(storage') : GenuineNext(storage'[n])
      /\ \A p \in network' : GenuineNext(p.envelope) /\ ~p.awaited
  BY <1>1, <1>2, <1>4, SentStays DEF NoneTravels
<1> QED
  BY <1>2, <1>3, <1>4, <1>5, <1>6, <1>7, UnansweredPreserves DEF collectorVars

(* A timeout leaves the head in the queue and its post in the network. *)
LEMMA TimeoutPreserves ==
  ASSUME IInv, Timeout
  PROVE  IInv'
<1>1. UNCHANGED <<page, queue, storage, dropped, made, wasted>> /\ Abandon /\ network' = Late(network)
  BY DEF Timeout
<1>2. phase # "none" /\ phase' \in {phase, "closed"} /\ waiting' = FALSE
  BY DEF IInv, Paged, Timeout, SendEnds
<1>3. /\ SameMail /\ NoneChained' /\ answer' = "none"
      /\ UNCHANGED <<collecting, writing, acknowledged, applying, applied, active, blocked>>
  BY <1>1, AbandonedMail DEF IInv
<1>4. Extends
  BY <1>1, NothingNumbered
<1>5. network' \subseteq Posts /\ \A p \in network' : ~p.awaited /\ \E q \in network : p.envelope = q.envelope
  BY <1>1, LateOnes DEF IInv, TypedClient
<1>6. TypedClient' /\ Paged' /\ LastWords'
  <2>1. TypedClient'
    BY <1>1, <1>2, <1>3, <1>5 DEF IInv, TypedClient
  <2>2. Paged'
    BY <1>1, <1>2 DEF IInv, Paged
  <2>3. LastWords'
    BY <1>1, <1>2 DEF IInv, LastWords
  <2> QED  BY <2>1, <2>2, <2>3
<1>7. /\ \A n \in 1 .. Len(queue') : GenuineNext(queue'[n])
      /\ \A n \in 1 .. Len(storage') : GenuineNext(storage'[n])
      /\ \A p \in network' : GenuineNext(p.envelope) /\ ~p.awaited
  BY <1>1, <1>4, <1>5, SentStays
<1> QED  BY <1>3, <1>4, <1>6, <1>7, UnansweredPreserves

(* A page goes: what it kept is in sessionStorage or lost.                  *)
LEMMA GonePreserves ==
  ASSUME IInv, phase' = "none", queue' = <<>>, waiting' = FALSE, dropped' = FALSE, page' = page,
         Abandon, Extends, made' \in [Page -> Seq(Reportable)], LastWords',
         \A c \in Page : c > page => made'[c] = made[c],
         wasted' = wasted,
         storage' \in Seq(Envelopes), \A n \in 1 .. Len(storage') : GenuineNext(storage'[n]),
         network' \subseteq Posts, \A p \in network' : GenuineNext(p.envelope) /\ ~p.awaited
  PROVE  IInv'
<1>1. /\ SameMail /\ NoneChained' /\ answer' = "none"
      /\ UNCHANGED <<collecting, writing, acknowledged, applying, applied, active, blocked>>
  BY AbandonedMail DEF IInv
<1>2. TypedClient'
  <2>1. queue' \in Seq(Envelopes)
    OBVIOUS
  <2>2. page' \in 0 .. Pages /\ phase' \in {"none", "live", "flushing", "leaving", "closed"}
    BY DEF IInv, TypedClient
  <2>3. waiting' \in BOOLEAN /\ answer' \in {"none", "ok", "error"} /\ dropped' \in BOOLEAN
    BY <1>1
  <2>4. wasted' \subseteq Page
    BY DEF IInv, TypedClient
  <2> QED  BY <2>1, <2>2, <2>3, <2>4 DEF TypedClient
<1>3. Paged'
  BY DEF IInv, Paged
<1>4. \A n \in 1 .. Len(queue') : GenuineNext(queue'[n])
  OBVIOUS
<1> QED  BY <1>1, <1>2, <1>3, <1>4, UnansweredPreserves

(* A page that ends without a word leaves what it made and posted as it was. *)
LEMMA CrashPreserves ==
  ASSUME IInv, Crash
  PROVE  IInv'
<1>1. /\ phase' = "none" /\ queue' = <<>> /\ waiting' = FALSE /\ dropped' = FALSE
      /\ UNCHANGED <<page, storage, made, wasted>> /\ Abandon /\ network' = Late(network)
  BY DEF Crash, Unloaded
<1>2. Extends
  BY <1>1, NothingNumbered
<1>3. network' \subseteq Posts /\ \A p \in network' : ~p.awaited /\ \E q \in network : p.envelope = q.envelope
  BY <1>1, LateOnes DEF IInv, TypedClient
<1>4. LastWords'
  BY <1>1 DEF IInv, LastWords
<1>5. /\ \A n \in 1 .. Len(storage') : GenuineNext(storage'[n])
      /\ \A p \in network' : GenuineNext(p.envelope) /\ ~p.awaited
  BY <1>1, <1>2, <1>3, SentStays
<1>6. made' \in [Page -> Seq(Reportable)] /\ storage' \in Seq(Envelopes)
  BY <1>1 DEF IInv, TypedClient
<1> QED  BY <1>1, <1>2, <1>3, <1>4, <1>5, <1>6, GonePreserves

(* A page that ends posts its whole queue, and keeps a part of it in storage. *)
LEMMA UnloadPreserves ==
  ASSUME IInv, Unload
  PROVE  IInv'
<1> DEFINE kept == IF phase = "closed" THEN <<>> ELSE Kept(queue, "stopped")
           q == queue \o Numbered(page, kept)
           copies == {[envelope |-> q[n], awaited |-> FALSE] : n \in DOMAIN q}
<1>1. /\ phase' = "none" /\ queue' = <<>> /\ waiting' = FALSE /\ dropped' = FALSE
      /\ UNCHANGED <<page, wasted>> /\ Abandon /\ network' = Late(network) \cup copies
      /\ made' = [made EXCEPT ![page] = @ \o kept]
      /\ storage' \in {q, storage}
  BY DEF Unload, Unloaded, Persist
<1>2. /\ page \in Page /\ phase # "none" /\ "stopped" \in Reportable /\ "block" \in Reportable
      /\ queue \in Seq(Envelopes) /\ storage \in Seq(Envelopes)
      /\ made \in [Page -> Seq(Reportable)] /\ made[page] \in Seq(Reportable)
  BY DEF IInv, TypedClient, Paged, Unload, Reportable, Lifecycle, Made
<1>3. \/ q = queue /\ made' = made
      \/ \E k \in {"stopped", "block"} : Numbers(k) /\ q = Append(queue, NewEnvelope(k))
  <2>1. CASE phase = "closed"
    <3>1. queue \o <<>> = queue /\ made[page] \o <<>> = made[page]
      BY <1>2, ConcatEmptySeq
    <3> QED  BY <1>1, <1>2, <2>1, <3>1, NumberedOne DEF IInv
  <2>2. CASE phase # "closed"
    <3> HIDE DEF q
    <3>1. kept = Kept(queue, "stopped")
      BY <2>2
    <3>2. q = queue \o Numbered(page, Kept(queue, "stopped"))
      BY <3>1 DEF q
    <3> QED  BY <1>1, <1>2, <3>1, <3>2, KeptTaken DEF IInv, Numbers
  <2> QED  BY <2>1, <2>2
<1> HIDE DEF q, kept
<1>4. /\ Extends /\ made' \in [Page -> Seq(Reportable)]
      /\ \A c \in Page : c > page => made'[c] = made[c]
      /\ LastWords'
      /\ q \in Seq(Envelopes) /\ \A n \in 1 .. Len(q) : GenuineNext(q[n])
  <2>1. CASE q = queue /\ made' = made
    <3>1. Extends
      BY <2>1, NothingNumbered
    <3>2. LastWords'
      BY <1>1, <2>1 DEF IInv, LastWords
    <3>3. \A n \in 1 .. Len(q) : GenuineNext(q[n])
      BY <2>1, <3>1, SentStays
    <3> QED  BY <1>2, <2>1, <3>1, <3>2, <3>3
  <2>2. ASSUME NEW k \in {"stopped", "block"}, Numbers(k), q = Append(queue, NewEnvelope(k))
        PROVE  /\ Extends /\ made' \in [Page -> Seq(Reportable)]
               /\ \A c \in Page : c > page => made'[c] = made[c]
               /\ LastWords'
               /\ q \in Seq(Envelopes) /\ \A n \in 1 .. Len(q) : GenuineNext(q[n])
    <3>1. k \in Reportable /\ NewEnvelope(k) \in Envelopes
      BY <1>2, NumberedOne DEF IInv
    <3>2. /\ Extends /\ made' \in [Page -> Seq(Reportable)] /\ GenuineNext(NewEnvelope(k))
          /\ \A c \in Page \ {page} : made'[c] = made[c]
      BY <1>2, <2>2, <3>1, TakenExtends DEF IInv
    <3>3. LastWords'
      BY <1>1, <1>2, <2>2, <3>1, LastWordsStay
    <3>4. /\ q \in Seq(Envelopes) /\ Len(q) = Len(queue) + 1
          /\ \A n \in 1 .. Len(queue) : q[n] = queue[n]
          /\ q[Len(queue) + 1] = NewEnvelope(k)
      BY <1>2, <2>2, <3>1, AppendProperties
    <3>5. \A n \in 1 .. Len(queue) : GenuineNext(queue[n])
      BY <3>2, SentStays
    <3>6. Len(queue) \in Nat
      BY <1>2
    <3>7. \A n \in 1 .. Len(q) : GenuineNext(q[n])
      <4> SUFFICES ASSUME NEW n \in 1 .. Len(q)
                   PROVE  GenuineNext(q[n])
        OBVIOUS
      <4>1. CASE n \in 1 .. Len(queue)
        BY <3>4, <3>5, <4>1
      <4>2. CASE n = Len(queue) + 1
        BY <3>2, <3>4, <4>2
      <4> QED  BY <3>4, <3>6, <4>1, <4>2
    <3>8. \A c \in Page : c > page => c \in Page \ {page}
      BY <1>2 DEF Page
    <3> QED  BY <3>2, <3>3, <3>4, <3>7, <3>8
  <2> QED  BY <1>3, <2>1, <2>2
<1>5. storage' \in Seq(Envelopes) /\ \A n \in 1 .. Len(storage') : GenuineNext(storage'[n])
  <2>1. CASE storage' = q
    BY <1>4, <2>1
  <2>2. CASE storage' = storage
    BY <1>2, <1>4, <2>2, SentStays
  <2> QED  BY <1>1, <2>1, <2>2
<1>6. network' \subseteq Posts /\ \A p \in network' : GenuineNext(p.envelope) /\ ~p.awaited
  <2>1. /\ Late(network) \subseteq Posts
        /\ \A p \in Late(network) : ~p.awaited /\ \E d \in network : p.envelope = d.envelope
    BY LateOnes DEF IInv, TypedClient
  <2>2. \A p \in Late(network) : GenuineNext(p.envelope)
    BY <1>4, <2>1, SentStays
  <2>3. \A p \in copies : p \in Posts /\ GenuineNext(p.envelope) /\ ~p.awaited
    <3>1. DOMAIN q = 1 .. Len(q) /\ \A n \in 1 .. Len(q) : q[n] \in Envelopes
      BY <1>4, ElementOfSeq
    <3>2. ASSUME NEW n \in 1 .. Len(q)
          PROVE  LET p == [envelope |-> q[n], awaited |-> FALSE]
                 IN  p \in Posts /\ p.envelope = q[n] /\ ~p.awaited
      BY <3>1 DEF Posts
    <3>3. \A p \in copies : \E n \in 1 .. Len(q) : p = [envelope |-> q[n], awaited |-> FALSE]
      BY <3>1
    <3> QED  BY <1>4, <3>2, <3>3
  <2> QED  BY <1>1, <2>1, <2>2, <2>3
<1> QED  BY <1>1, <1>4, <1>5, <1>6, GonePreserves

(* A new page takes what the storage holds, ahead of its own envelopes. *)
LEMMA LoadPreserves ==
  ASSUME IInv, Load
  PROVE  IInv'
<1>1. PICK kept \in {storage, <<>>} :
        LET ready == IF Full(kept) THEN <<>> ELSE <<"ready">>
            q == Restored(kept) \o Numbered(page', ready)
        IN  /\ queue' = q
            /\ made' = [made EXCEPT ![page'] = ready]
            /\ Persist(q, kept)
            /\ Send(q)
  BY DEF Load
<1> DEFINE first == [client |-> page', sequence |-> 1, kind |-> "ready"]
<1>2. /\ page' = page + 1 /\ page' \in Page /\ made[page'] = <<>> /\ "ready" \in Reportable
      /\ queue = <<>> /\ ~waiting /\ answer' = "none" /\ NoneTravels /\ NoneChained
      /\ phase' = "live" /\ UNCHANGED <<dropped, wasted, collectorVars>>
      /\ made \in [Page -> Seq(Reportable)] /\ kept \in Seq(Envelopes)
      /\ page' \in Nat /\ page \in Nat
  <2>1. /\ page' = page + 1 /\ page < Pages /\ Pages \in Nat /\ page \in Nat
        /\ queue = <<>> /\ ~waiting /\ UNCHANGED <<answer, dropped, wasted, collectorVars>>
        /\ phase' = "live"
    BY TransportAssumption DEF IInv, TypedClient, Paged, Load
  <2>2. page' \in Page /\ page' \in Nat /\ page' > page
    BY <2>1 DEF Page
  <2>3. made[page'] = <<>>
    BY <2>2 DEF IInv, Paged
  <2>4. answer' = "none" /\ NoneTravels /\ NoneChained
    BY <2>1, SentAlone
  <2>5. made \in [Page -> Seq(Reportable)] /\ "ready" \in Reportable
    BY DEF IInv, TypedClient, Reportable, Lifecycle
  <2>6. storage \in Seq(Envelopes) /\ <<>> \in Seq(Envelopes)
    BY DEF IInv, TypedClient
  <2> QED  BY <2>1, <2>2, <2>3, <2>4, <2>5, <2>6
<1>3. first \in Envelopes
  BY <1>2 DEF Envelopes
<1>4. \/ /\ queue' = kept /\ made' = made
      \/ /\ queue' = Append(kept, first) /\ made' = [made EXCEPT ![page'] = <<"ready">>]
  <2>1. CASE Full(kept)
    <3>1. Numbered(page', <<>>) = <<>>
      BY DEF Numbered
    <3>2. kept \o <<>> = kept /\ [made EXCEPT ![page'] = <<>>] = made
      BY <1>2, ConcatEmptySeq
    <3> QED  BY <1>1, <2>1, <3>1, <3>2 DEF Restored
  <2>2. CASE ~Full(kept)
    <3>1. DOMAIN <<"ready">> = 1 .. 1 /\ <<"ready">>[1] = "ready" /\ Len(made[page']) = 0
      BY <1>2
    <3>2. Numbered(page', <<"ready">>) = [n \in 1 .. 1 |-> first]
      BY <3>1 DEF Numbered
    <3>3. [n \in 1 .. 1 |-> first] = <<first>>
      OBVIOUS
    <3>4. kept \o <<first>> = Append(kept, first)
      BY <1>2, <1>3, AppendIsConcat
    <3> QED  BY <1>1, <2>2, <3>2, <3>3, <3>4 DEF Restored
  <2> QED  BY <2>1, <2>2
<1>5. storage' \in {queue', kept} /\ Send(queue')
  BY <1>1 DEF Persist
<1>6. /\ made' \in [Page -> Seq(Reportable)] /\ Extends
      /\ \A c \in Page \ {page'} : made'[c] = made[c]
      /\ \A n \in 1 .. Len(made'[page']) : made'[page'][n] = "ready"
  <2>1. CASE made' = made
    BY <1>2, <2>1, NothingNumbered
  <2>2. CASE made' = [made EXCEPT ![page'] = <<"ready">>]
    <3>1. made'[page'] = <<"ready">> /\ \A c \in Page \ {page'} : made'[c] = made[c]
      BY <1>2, <2>2
    <3>2. made' \in [Page -> Seq(Reportable)]
      BY <1>2, <2>2
    <3>3. \A c \in Page : Len(made[c]) \in Nat
      BY <1>2
    <3>4. Extends
      BY <1>2, <3>1, <3>3 DEF Extends
    <3> QED  BY <3>1, <3>2, <3>4
  <2> QED  BY <1>4, <2>1, <2>2
<1>7. \A n \in 1 .. Len(kept) : GenuineNext(kept[n])
  BY <1>6, SentStays
<1>8. queue' \in Seq(Envelopes) /\ \A n \in 1 .. Len(queue') : GenuineNext(queue'[n])
  <2>1. CASE queue' = kept
    BY <1>2, <1>7, <2>1
  <2>2. CASE queue' = Append(kept, first) /\ made' = [made EXCEPT ![page'] = <<"ready">>]
    <3>1. GenuineNext(first)
      BY <1>2, <2>2 DEF GenuineNext
    <3>2. /\ queue' \in Seq(Envelopes) /\ Len(queue') = Len(kept) + 1 /\ Len(kept) \in Nat
          /\ \A n \in 1 .. Len(kept) : queue'[n] = kept[n]
          /\ queue'[Len(kept) + 1] = first
      BY <1>2, <1>3, <2>2, AppendProperties
    <3> SUFFICES ASSUME NEW n \in 1 .. Len(queue')
                 PROVE  GenuineNext(queue'[n])
      BY <3>2
    <3>3. CASE n \in 1 .. Len(kept)
      BY <1>7, <3>2, <3>3
    <3>4. CASE n = Len(kept) + 1
      BY <3>1, <3>2, <3>4
    <3> QED  BY <3>2, <3>3, <3>4
  <2> QED  BY <1>4, <2>1, <2>2
<1>9. storage' \in Seq(Envelopes) /\ \A n \in 1 .. Len(storage') : GenuineNext(storage'[n])
  <2>1. CASE storage' = queue'
    BY <1>8, <2>1
  <2>2. CASE storage' = kept
    BY <1>2, <1>7, <2>2
  <2> QED  BY <1>5, <2>1, <2>2
<1>10. /\ network' \subseteq Posts /\ waiting' \in BOOLEAN
       /\ \A p \in network' : GenuineNext(p.envelope) /\ (p.awaited => Expected(p)')
  <2>1. \A p \in network : GenuineNext(p.envelope) /\ ~p.awaited
    BY <1>2, <1>6, SentStays DEF NoneTravels
  <2>2. CASE UNCHANGED <<waiting, network>>
    BY <2>1, <2>2 DEF IInv, TypedClient
  <2>3. CASE Sends(queue')
    <3>1. queue' # <<>> /\ queue'[1] \in Envelopes /\ Head(queue') = queue'[1] /\ GenuineNext(queue'[1])
      <4>1. queue' # <<>> /\ 1 \in 1 .. Len(queue')
        BY <1>8, <2>3, EmptySeq DEF Sends
      <4> QED  BY <1>8, <4>1, ElementOfSeq
    <3>2. PICK p \in Posts : p = [envelope |-> queue'[1], awaited |-> TRUE]
      BY <3>1 DEF Posts
    <3>3. network' = network \cup {p} /\ waiting' = TRUE /\ p.envelope = queue'[1]
      BY <2>3, <3>1, <3>2 DEF Sends
    <3> QED  BY <2>1, <3>1, <3>3 DEF Expected, IInv, TypedClient
  <2> QED  BY <1>5, <2>2, <2>3, SendEffect
<1>11. TypedClient'
  BY <1>2, <1>6, <1>8, <1>9, <1>10 DEF IInv, TypedClient, Page
<1>12. Paged'
  <2>1. \A c \in Page : c > page' => c \in Page \ {page'} /\ c > page
    BY <1>2 DEF Page
  <2> QED  BY <1>2, <1>6, <2>1 DEF IInv, Paged
<1>13. LastWords'
  <2>1. \A c \in Page \ {page'} : \A m, n \in 1 .. Len(made'[c]) :
          made'[c][m] = "stopped" /\ m < n => made'[c][n] # "observation"
    BY <1>6 DEF IInv, LastWords
  <2>2. \A n \in 1 .. Len(made'[page']) : made'[page'][n] # "stopped"
    BY <1>6
  <2> QED  BY <2>1, <2>2 DEF LastWords
<1>14. SameMail
  BY <1>2 DEF IInv, TypedCollector, SameMail, collectorVars
<1>15. NoneChained'
  BY <1>2 DEF NoneChained, collectorVars
<1> QED
  BY <1>2, <1>6, <1>8, <1>9, <1>10, <1>11, <1>12, <1>13, <1>14, <1>15, UnansweredPreserves
     DEF collectorVars

-----------------------------------------------------------------------------
(* Steps of the collector                                                   *)

(* A step of the collector leaves the page as it is.                        *)
LEMMA CollectorPreserves ==
  ASSUME IInv, UNCHANGED clientVars, answer' \in {"none", "ok", "error"}, network' \subseteq network,
         TypedCollector', Progress', Single', Heard',
         \A c \in Page : \A n \in 1 .. Len(chain'[c]) :
           chain'[c][n].envelope.client = c /\ Genuine(chain'[c][n].envelope)
  PROVE  IInv'
<1>1. UNCHANGED <<page, phase, queue, storage, waiting, dropped, made, wasted>>
  BY DEF clientVars
<1>2. TypedClient'
  BY <1>1 DEF IInv, TypedClient
<1>3. Sent'
  BY <1>1 DEF IInv, Sent, Genuine
<1>4. Paged' /\ LastWords'
  BY <1>1 DEF IInv, Paged, LastWords
<1> QED  BY <1>2, <1>3, <1>4 DEF IInv

(* Two posts that carry the head of the queue and are awaited are one.      *)
LEMMA OnePost ==
  ASSUME NEW p \in Posts, NEW q \in Posts, p.awaited, q.awaited, p.envelope = q.envelope
  PROVE  p = q
BY DEF Posts

(* A post that arrives joins the chain of its client. *)
LEMMA ReceivePreserves ==
  ASSUME IInv, NEW post \in network, Receive(post)
  PROVE  IInv'
<1> DEFINE k == post.envelope.client
<1>1. /\ network' = network \ {post} /\ post \in Posts /\ k \in Page /\ Genuine(post.envelope)
      /\ network \subseteq Posts
      /\ UNCHANGED <<collecting, writing, acknowledged, applying, applied, active, blocked, clientVars>>
  BY DEF IInv, TypedClient, Sent, Posts, Envelopes, Receive
<1>2. UNCHANGED <<queue, waiting, made>>
  BY <1>1 DEF clientVars
<1>3. post.awaited => Expected(post) /\ NoneChained /\ answer = "none" /\ NoneTravels'
  <2> SUFFICES ASSUME post.awaited
               PROVE  Expected(post) /\ NoneChained /\ answer = "none" /\ NoneTravels'
    OBVIOUS
  <2>1. Expected(post)
    BY DEF IInv, Single
  <2>2. NoneChained /\ answer = "none"
    BY DEF IInv, Single, NoneChained, NoneTravels
  <2>3. ASSUME NEW p \in network', p.awaited
        PROVE  FALSE
    <3>1. p \in network /\ p # post /\ p.envelope = post.envelope
      BY <1>1, <2>1, <2>3 DEF IInv, Single, Expected
    <3> QED  BY <1>1, <2>3, <3>1, OnePost
  <2>4. NoneTravels'
    BY <2>3 DEF NoneTravels
  <2> QED  BY <2>1, <2>2, <2>4
<1>4. NoneTravels => NoneTravels'
  BY <1>1 DEF NoneTravels
<1>5. \A p : Expected(p)' = Expected(p)
  BY <1>2 DEF Expected
<1>6. CASE ~Accepting
  <2>1. UNCHANGED chain /\ answer' = IF post.awaited THEN "error" ELSE answer
    BY <1>6 DEF Receive, Answer
  <2>2. answer' \in {"none", "ok", "error"}
    BY <2>1 DEF IInv, TypedClient
  <2>3. TypedCollector' /\ Progress' /\ Heard'
    BY <1>1, <1>2, <2>1 DEF IInv, TypedCollector, Progress, Heard
  <2>4. NoneChained' = NoneChained
    BY <2>1 DEF NoneChained
  <2>5. Single'
    <3>1. \A p \in network' : p.awaited => Expected(p)'
      BY <1>1, <1>5 DEF IInv, Single
    <3>2. \A c \in Page : \A n \in 1 .. Len(chain'[c]) :
            chain'[c][n].awaited =>
              /\ ExpectedNext(chain'[c][n]) /\ NoneTravels'
              /\ \A d \in Page : \A m \in 1 .. Len(chain'[d]) : chain'[d][m].awaited => c = d /\ n = m
      BY <1>2, <1>4, <2>1 DEF IInv, Single, Expected, ExpectedNext
    <3>3. answer' # "none" => waiting' /\ queue' # <<>> /\ NoneTravels' /\ NoneChained'
      BY <1>2, <1>3, <1>4, <2>1, <2>4 DEF IInv, Single, Expected
    <3>4. answer' = "ok" => queue'[1].sequence <= acknowledged'[queue'[1].client]
      BY <1>1, <1>2, <2>1 DEF IInv, Single
    <3> QED  BY <3>1, <3>2, <3>3, <3>4 DEF Single, Expected, ExpectedNext
  <2>6. \A c \in Page : \A n \in 1 .. Len(chain'[c]) :
          chain'[c][n].envelope.client = c /\ Genuine(chain'[c][n].envelope)
    BY <2>1 DEF IInv, Sent
  <2> QED  BY <1>1, <2>2, <2>3, <2>5, <2>6, CollectorPreserves
<1>7. CASE Accepting
  <2>1. chain' = [chain EXCEPT ![k] = Append(@, post)] /\ answer' = answer
    BY <1>7 DEF Receive
  <2>2. chain[k] \in Seq(Posts) /\ Len(chain[k]) \in Nat /\ chain \in [Page -> Seq(Posts)]
    BY <1>1 DEF IInv, TypedCollector
  <2>3. /\ chain' \in [Page -> Seq(Posts)]
        /\ \A c \in Page \ {k} : chain'[c] = chain[c]
        /\ Len(chain'[k]) = Len(chain[k]) + 1
        /\ \A n \in 1 .. Len(chain[k]) : chain'[k][n] = chain[k][n]
        /\ chain'[k][Len(chain[k]) + 1] = post
    <3>1. chain'[k] = Append(chain[k], post) /\ \A c \in Page \ {k} : chain'[c] = chain[c]
      BY <1>1, <2>1, <2>2
    <3>2. chain' \in [Page -> Seq(Posts)]
      BY <1>1, <2>1, <2>2, AppendProperties
    <3> QED  BY <1>1, <2>2, <3>1, <3>2, AppendProperties
  <2>4. \A c \in Page : \A n \in 1 .. Len(chain'[c]) :
          \/ n \in 1 .. Len(chain[c]) /\ chain'[c][n] = chain[c][n]
          \/ c = k /\ n = Len(chain[k]) + 1 /\ chain'[c][n] = post
    BY <2>2, <2>3
  <2>5. \A c \in Page : \A n \in 1 .. Len(chain'[c]) :
          chain'[c][n].envelope.client = c /\ Genuine(chain'[c][n].envelope)
    BY <1>1, <2>4 DEF IInv, Sent
  <2>6. TypedCollector'
    BY <1>1, <2>3 DEF IInv, TypedCollector
  <2>7. Progress'
    <3>1. \A c \in Page : chain[c] # <<>> => chain'[c] # <<>> /\ chain'[c][1] = chain[c][1]
      <4>1. chain[k] # <<>> => 1 \in 1 .. Len(chain[k]) /\ chain'[k] # <<>>
        BY <2>2, <2>3, EmptySeq
      <4> QED  BY <2>3, <4>1
    <3> QED  BY <1>1, <1>2, <3>1 DEF IInv, Progress
  <2>8. Heard'
    BY <1>1, <1>7 DEF IInv, Heard, Accepting
  <2>9. NoneChained /\ ~post.awaited => NoneChained'
    BY <2>4 DEF NoneChained
  <2>10. Single'
    <3>1. \A p \in network' : p.awaited => Expected(p)'
      BY <1>1, <1>5 DEF IInv, Single
    <3>2. ASSUME NEW c \in Page, NEW n \in 1 .. Len(chain'[c]), chain'[c][n].awaited
          PROVE  /\ ExpectedNext(chain'[c][n]) /\ NoneTravels'
                 /\ \A d \in Page : \A m \in 1 .. Len(chain'[d]) :
                      chain'[d][m].awaited => c = d /\ n = m
      <4>1. CASE post.awaited
        <5>1. c = k /\ n = Len(chain[k]) + 1 /\ chain'[c][n] = post
          BY <1>3, <2>4, <3>2, <4>1 DEF NoneChained
        <5>2. \A d \in Page : \A m \in 1 .. Len(chain'[d]) :
                chain'[d][m].awaited => d = k /\ m = Len(chain[k]) + 1
          BY <1>3, <2>4, <4>1 DEF NoneChained
        <5> QED  BY <1>2, <1>3, <4>1, <5>1, <5>2 DEF Expected, ExpectedNext
      <4>2. CASE ~post.awaited
        <5>1. \A d \in Page : \A m \in 1 .. Len(chain'[d]) :
                chain'[d][m].awaited => m \in 1 .. Len(chain[d]) /\ chain'[d][m] = chain[d][m]
          BY <2>4, <4>2
        <5> QED  BY <1>2, <1>4, <3>2, <5>1 DEF IInv, Single, Expected, ExpectedNext
      <4> QED  BY <4>1, <4>2
    <3>3. answer' # "none" => waiting' /\ queue' # <<>> /\ NoneTravels' /\ NoneChained'
      BY <1>2, <1>3, <1>4, <2>1, <2>9 DEF IInv, Single
    <3>4. answer' = "ok" => queue'[1].sequence <= acknowledged'[queue'[1].client]
      BY <1>1, <1>2, <2>1 DEF IInv, Single
    <3> QED  BY <3>1, <3>2, <3>3, <3>4 DEF Single, Expected, ExpectedNext
  <2>11. answer' \in {"none", "ok", "error"} /\ network' \subseteq network
    BY <1>1, <2>1 DEF IInv, TypedClient
  <2> QED  BY <1>1, <2>5, <2>6, <2>7, <2>8, <2>10, <2>11, CollectorPreserves
<1> QED  BY <1>6, <1>7

(* A post that is done with leaves the chain of its client.                 *)
LEMMA DoneMail ==
  ASSUME IInv, NEW c \in Page, chain[c] # <<>>, NEW ok \in BOOLEAN, Done(c, ok)
  PROVE  /\ chain' \in [Page -> Seq(Posts)]
         /\ Head(chain[c]) = chain[c][1] /\ chain[c][1] \in Posts /\ 1 \in 1 .. Len(chain[c])
         /\ chain[c][1].envelope.client = c /\ Genuine(chain[c][1].envelope)
         /\ \A d \in Page \ {c} : chain'[d] = chain[d]
         /\ \A n \in 1 .. Len(chain'[c]) : n + 1 \in 1 .. Len(chain[c]) /\ chain'[c][n] = chain[c][n + 1]
         /\ \A d \in Page : \A n \in 1 .. Len(chain'[d]) :
              chain'[d][n].envelope.client = d /\ Genuine(chain'[d][n].envelope)
<1>1. chain \in [Page -> Seq(Posts)] /\ chain[c] \in Seq(Posts) /\ Len(chain[c]) \in Nat
  BY DEF IInv, TypedCollector
<1>2. /\ Tail(chain[c]) \in Seq(Posts) /\ Len(Tail(chain[c])) = Len(chain[c]) - 1
      /\ \A n \in 1 .. Len(Tail(chain[c])) : Tail(chain[c])[n] = chain[c][n + 1]
      /\ 1 \in 1 .. Len(chain[c])
  BY <1>1, HeadTailProperties, EmptySeq
<1>3. chain' = [chain EXCEPT ![c] = Tail(chain[c])]
  BY DEF Done
<1>4. chain' \in [Page -> Seq(Posts)] /\ chain'[c] = Tail(chain[c])
      /\ \A d \in Page \ {c} : chain'[d] = chain[d]
  BY <1>1, <1>2, <1>3
<1>5. \A n \in 1 .. Len(chain'[c]) : n + 1 \in 1 .. Len(chain[c]) /\ chain'[c][n] = chain[c][n + 1]
  BY <1>1, <1>2, <1>4
<1>6. \A d \in Page : \A n \in 1 .. Len(chain[d]) :
        chain[d][n].envelope.client = d /\ Genuine(chain[d][n].envelope)
  BY DEF IInv, Sent
<1>7. Head(chain[c]) = chain[c][1] /\ chain[c][1] \in Posts
  <2>1. chain[c][1] \in Posts
    BY <1>1, <1>2, ElementOfSeq
  <2>2. Head(chain[c]) = chain[c][1]
    BY <1>1
  <2> QED  BY <2>1, <2>2
<1>8. ASSUME NEW d \in Page, NEW n \in 1 .. Len(chain'[d])
      PROVE  chain'[d][n].envelope.client = d /\ Genuine(chain'[d][n].envelope)
  <2>1. CASE d = c
    BY <1>5, <1>6, <2>1
  <2>2. CASE d # c
    BY <1>4, <1>6, <2>2
  <2> QED  BY <2>1, <2>2
<1>9. chain[c][1].envelope.client = c /\ Genuine(chain[c][1].envelope)
  BY <1>2, <1>6
<1> QED  BY <1>2, <1>4, <1>5, <1>7, <1>8, <1>9

(* It is answered, if its page still waits, with what was done.             *)
LEMMA DoneAnswers ==
  ASSUME IInv, NEW c \in Page, chain[c] # <<>>, NEW ok \in BOOLEAN, Done(c, ok),
         UNCHANGED <<clientVars, network>>,
         ok => chain[c][1].envelope.sequence <= acknowledged'[c],
         \A d \in Page : acknowledged[d] \in Nat /\ acknowledged'[d] \in Nat
                         /\ acknowledged[d] <= acknowledged'[d]
  PROVE  Single' /\ answer' \in {"none", "ok", "error"}
<1> DEFINE post == chain[c][1]
<1>1. /\ Head(chain[c]) = post /\ post \in Posts /\ 1 \in 1 .. Len(chain[c])
      /\ post.envelope.client = c
      /\ \A d \in Page \ {c} : chain'[d] = chain[d]
      /\ \A n \in 1 .. Len(chain'[c]) : n + 1 \in 1 .. Len(chain[c]) /\ chain'[c][n] = chain[c][n + 1]
  BY DoneMail
<1> HIDE DEF post
<1>2. UNCHANGED <<queue, waiting, network>> /\ queue \in Seq(Envelopes)
  BY DEF clientVars, IInv, TypedClient
<1>3. answer' = IF post.awaited THEN IF ok THEN "ok" ELSE "error" ELSE answer
  BY <1>1 DEF Done, Answer
<1>4. answer' \in {"none", "ok", "error"}
  BY <1>3 DEF IInv, TypedClient
<1>5. NoneTravels' = NoneTravels
  BY <1>2 DEF NoneTravels
<1>6. ASSUME NEW d \in Page, NEW n \in 1 .. Len(chain'[d])
      PROVE  \E m \in 1 .. Len(chain[d]) :
               /\ chain'[d][n] = chain[d][m]
               /\ IF d = c THEN m = n + 1 ELSE m = n
  BY <1>1
<1>7. NoneChained => NoneChained'
  BY SMTT(20), <1>6 DEF NoneChained
<1>8. post.awaited => Expected(post) /\ NoneTravels /\ NoneChained'
  <2> SUFFICES ASSUME post.awaited
               PROVE  Expected(post) /\ NoneTravels /\ NoneChained'
    OBVIOUS
  <2>1. /\ Expected(post) /\ NoneTravels
        /\ \A d \in Page : \A m \in 1 .. Len(chain[d]) : chain[d][m].awaited => c = d /\ m = 1
    BY <1>1 DEF IInv, Single, post
  <2>2. ASSUME NEW d \in Page, NEW n \in 1 .. Len(chain'[d]), chain'[d][n].awaited
        PROVE  FALSE
    <3>1. PICK m \in 1 .. Len(chain[d]) : chain'[d][n] = chain[d][m] /\ IF d = c THEN m = n + 1 ELSE m = n
      BY <1>6
    <3>2. d = c /\ m = 1 /\ m = n + 1
      BY <2>1, <2>2, <3>1
    <3> QED  BY <3>2
  <2>3. NoneChained'
    BY <2>2 DEF NoneChained
  <2> QED  BY <2>1, <2>3
<1>9. Single'
  <2>1. \A p \in network' : p.awaited => Expected(p)'
    BY <1>2 DEF IInv, Single, Expected
  <2>2. ASSUME NEW d \in Page, NEW n \in 1 .. Len(chain'[d]), chain'[d][n].awaited
        PROVE  /\ ExpectedNext(chain'[d][n]) /\ NoneTravels'
               /\ \A e \in Page : \A m \in 1 .. Len(chain'[e]) : chain'[e][m].awaited => d = e /\ n = m
    <3>1. PICK i \in 1 .. Len(chain[d]) : chain'[d][n] = chain[d][i] /\ IF d = c THEN i = n + 1 ELSE i = n
      BY <1>6
    <3>2. /\ Expected(chain[d][i]) /\ NoneTravels
          /\ \A e \in Page : \A m \in 1 .. Len(chain[e]) : chain[e][m].awaited => d = e /\ i = m
      BY <2>2, <3>1 DEF IInv, Single
    <3>3. ASSUME NEW e \in Page, NEW m \in 1 .. Len(chain'[e]), chain'[e][m].awaited
          PROVE  d = e /\ n = m
      <4>1. PICK j \in 1 .. Len(chain[e]) : chain'[e][m] = chain[e][j] /\ IF e = c THEN j = m + 1 ELSE j = m
        BY <1>6
      <4>2. d = e /\ i = j
        BY <3>2, <3>3, <4>1
      <4> QED  BY <3>1, <4>1, <4>2
    <3> QED  BY <1>2, <1>5, <3>1, <3>2, <3>3 DEF Expected, ExpectedNext
  <2>3. answer' # "none" => waiting' /\ queue' # <<>> /\ NoneTravels' /\ NoneChained'
    BY <1>2, <1>3, <1>5, <1>7, <1>8 DEF IInv, Single, Expected
  <2>4. answer' = "ok" => queue'[1].sequence <= acknowledged'[queue'[1].client]
    <3>1. CASE post.awaited
      BY <1>1, <1>2, <1>3, <1>8, <3>1 DEF Expected, post
    <3>2. CASE ~post.awaited
      <4> SUFFICES ASSUME answer = "ok"
                   PROVE  queue[1].sequence <= acknowledged'[queue[1].client]
        BY <1>2, <1>3, <3>2
      <4>1. queue # <<>> /\ queue[1].sequence <= acknowledged[queue[1].client]
        BY DEF IInv, Single
      <4>2. queue[1] \in Envelopes
        BY <1>2, <4>1, ElementOfSeq, EmptySeq
      <4>3. queue[1].client \in Page /\ queue[1].sequence \in Nat
        BY <4>2 DEF Envelopes
      <4> QED  BY <4>1, <4>3
    <3> QED  BY <3>1, <3>2
  <2> QED  BY <2>1, <2>2, <2>3, <2>4 DEF Single, Expected, ExpectedNext
<1> QED  BY <1>4, <1>9

(* The first post of a chain says what its client numbered.                 *)
LEMMA FirstPost ==
  ASSUME IInv, NEW c \in Page, chain[c] # <<>>
  PROVE  LET e == chain[c][1].envelope
         IN  /\ Head(chain[c]) = chain[c][1] /\ chain[c][1] \in Posts /\ 1 \in 1 .. Len(chain[c])
             /\ e.client = c /\ e.sequence \in Nat \ {0} /\ e.kind \in Reportable
             /\ e.sequence <= Len(made[c]) /\ made[c][e.sequence] = e.kind
<1>1. chain[c] \in Seq(Posts) /\ 1 \in 1 .. Len(chain[c])
  <2>1. chain[c] \in Seq(Posts)
    BY DEF IInv, TypedCollector
  <2> QED  BY <2>1, EmptySeq
<1>2. Head(chain[c]) = chain[c][1]
  BY <1>1
<1>3. chain[c][1] \in Posts
  BY <1>1, ElementOfSeq
<1>4. chain[c][1].envelope.client = c /\ Genuine(chain[c][1].envelope)
  BY <1>1 DEF IInv, Sent
<1> QED  BY <1>1, <1>2, <1>3, <1>4 DEF Posts, Envelopes, Genuine

(* An envelope that was already applied is answered and not applied again. *)
LEMMA SkipPreserves ==
  ASSUME IInv, NEW c \in Page, Skip(c)
  PROVE  IInv'
<1>1. /\ chain[c] # <<>> /\ c \notin writing
      /\ UNCHANGED <<network, collecting, writing, acknowledged, applying, applied, active, blocked>>
      /\ UNCHANGED clientVars
  BY DEF Skip, Turn
<1>2. PICK ok \in BOOLEAN : Done(c, ok) /\ (ok => Head(chain[c]).envelope.sequence <= acknowledged[c])
  BY DEF Skip
<1>3. /\ chain' \in [Page -> Seq(Posts)] /\ Head(chain[c]) = chain[c][1]
      /\ \A d \in Page \ {c} : chain'[d] = chain[d]
      /\ \A d \in Page : \A n \in 1 .. Len(chain'[d]) :
           chain'[d][n].envelope.client = d /\ Genuine(chain'[d][n].envelope)
  BY <1>1, <1>2, DoneMail
<1>4. TypedCollector'
  BY <1>1, <1>3 DEF IInv, TypedCollector
<1>5. \A d \in Page : acknowledged[d] \in Nat
  BY DEF IInv, TypedCollector
<1>6. Single' /\ answer' \in {"none", "ok", "error"}
  BY <1>1, <1>2, <1>3, <1>5, DoneAnswers
<1>7. made' = made
  BY <1>1 DEF clientVars
<1>8. Progress'
  BY <1>1, <1>3, <1>7 DEF IInv, Progress
<1>9. Heard'
  BY <1>1, <1>3 DEF IInv, Heard
<1> QED  BY <1>1, <1>3, <1>4, <1>6, <1>8, <1>9, CollectorPreserves

(* An envelope that needs no write is applied in one step. *)
LEMMA ApplyAtOncePreserves ==
  ASSUME IInv, NEW c \in Page, ApplyAtOnce(c)
  PROVE  IInv'
<1> DEFINE e == chain[c][1].envelope
<1>1. /\ chain[c] # <<>> /\ c \notin writing /\ Done(c, TRUE)
      /\ UNCHANGED <<network, collecting, writing>> /\ UNCHANGED clientVars
  BY DEF ApplyAtOnce, Turn
<1>2. /\ Head(chain[c]).envelope = e /\ e.sequence \in Nat \ {0}
      /\ e.sequence <= Len(made[c]) /\ made[c][e.sequence] = e.kind
  BY <1>1, FirstPost
<1> HIDE DEF e
<1>3. /\ e.sequence = acknowledged[c] + 1
      /\ e.kind \in {"ready", "stopped", "block"}
      /\ active' = IF e.kind = "ready" THEN active \cup {c}
                   ELSE IF e.kind = "stopped" THEN active \ {c} ELSE active
      /\ blocked' = (blocked \/ e.kind = "block")
      /\ applied' = [applied EXCEPT ![c] = Append(@, e.kind)]
      /\ acknowledged' = [acknowledged EXCEPT ![c] = e.sequence]
      /\ applying' = [applying EXCEPT ![c] = 0]
  BY <1>2 DEF ApplyAtOnce, InOrder, Lifecycle, AcknowledgeUpTo
<1>4. /\ acknowledged \in [Page -> Nat] /\ applying \in [Page -> Nat]
      /\ applied \in [Page -> Seq(Reportable)] /\ applied[c] \in Seq(Reportable)
      /\ Len(applied[c]) \in Nat /\ acknowledged[c] \in Nat /\ applying[c] \in Nat
      /\ e.kind \in Reportable
  BY <1>3 DEF IInv, TypedCollector, Reportable, Lifecycle, Made
<1>5. applying[c] = 0 /\ Len(applied[c]) = acknowledged[c]
  BY <1>2, <1>3, <1>4 DEF IInv, Progress
<1>6. /\ chain' \in [Page -> Seq(Posts)]
      /\ \A d \in Page \ {c} : chain'[d] = chain[d]
      /\ \A d \in Page : \A n \in 1 .. Len(chain'[d]) :
           chain'[d][n].envelope.client = d /\ Genuine(chain'[d][n].envelope)
  BY <1>1, DoneMail
<1>7. /\ Len(applied'[c]) = acknowledged[c] + 1
      /\ \A n \in 1 .. Len(applied[c]) : applied'[c][n] = applied[c][n]
      /\ applied'[c][acknowledged[c] + 1] = e.kind
      /\ acknowledged'[c] = acknowledged[c] + 1 /\ applying'[c] = 0
  <2>1. applied'[c] = Append(applied[c], e.kind)
    BY <1>3, <1>4
  <2>2. acknowledged'[c] = acknowledged[c] + 1 /\ applying'[c] = 0
    BY <1>3, <1>4
  <2> QED  BY <1>4, <1>5, <2>1, <2>2, AppendProperties
<1>8. /\ \A d \in Page \ {c} : /\ applied'[d] = applied[d] /\ acknowledged'[d] = acknowledged[d]
                               /\ applying'[d] = applying[d]
  BY <1>3, <1>4
<1>9. TypedCollector'
  <2>1. applied' \in [Page -> Seq(Reportable)]
    BY <1>3, <1>4, AppendProperties
  <2>2. acknowledged' \in [Page -> Nat] /\ applying' \in [Page -> Nat]
    BY <1>2, <1>3, <1>4
  <2>3. active' \subseteq Page
    BY <1>3 DEF IInv, TypedCollector
  <2>4. blocked' \in BOOLEAN
    BY <1>3
  <2>5. collecting' \in {"recording", "stopping", "draining", "done"}
    BY <1>1 DEF IInv, TypedCollector
  <2> QED  BY <1>6, <2>1, <2>2, <2>3, <2>4, <2>5 DEF TypedCollector
<1>10. Single' /\ answer' \in {"none", "ok", "error"}
  <2>1. \A d \in Page : acknowledged[d] \in Nat /\ acknowledged'[d] \in Nat
                        /\ acknowledged[d] <= acknowledged'[d]
    BY <1>4, <1>7, <1>8
  <2>2. chain[c][1].envelope.sequence <= acknowledged'[c]
    BY <1>3, <1>4, <1>7 DEF e
  <2> QED  BY <1>1, <2>1, <2>2, DoneAnswers
<1>11. made' = made
  BY <1>1 DEF clientVars
<1>12. Progress'
  <2>1. /\ Len(applied'[c]) <= Len(made[c])
        /\ \A n \in 1 .. Len(applied'[c]) : applied'[c][n] = made[c][n]
    <3>1. \A n \in 1 .. Len(applied[c]) : applied[c][n] = made[c][n]
      BY DEF IInv, Progress
    <3>2. \A n \in 1 .. Len(applied'[c]) : n \in 1 .. Len(applied[c]) \/ n = acknowledged[c] + 1
      BY <1>4, <1>5, <1>7
    <3> QED  BY <1>2, <1>3, <1>7, <3>1, <3>2
  <2>2. ASSUME NEW d \in Page \ {c}
        PROVE  /\ applying'[d] \in {0, acknowledged'[d] + 1}
               /\ Len(applied'[d]) = IF applying'[d] = 0 THEN acknowledged'[d] ELSE applying'[d]
               /\ Len(applied'[d]) <= Len(made'[d])
               /\ \A n \in 1 .. Len(applied'[d]) : applied'[d][n] = made'[d][n]
               /\ applying'[d] # 0 => made'[d][applying'[d]] \in {"observation", "counts"}
               /\ d \in writing' => /\ applying'[d] # 0 /\ chain'[d] # <<>>
                                    /\ chain'[d][1].envelope.sequence = applying'[d]
    BY SMTT(20), <1>1, <1>6, <1>8, <1>11 DEF IInv, Progress
  <2>3. c \notin writing' /\ made'[c] = made[c]
    BY <1>1, <1>11
  <2> QED  BY <1>7, <2>1, <2>2, <2>3 DEF Progress
<1>13. Heard'
  <2>1. ASSUME NEW d \in Page, NEW n \in 1 .. Len(applied'[d])
        PROVE  /\ applied'[d][n] = "ready" =>
                    d \in active' \/ \E m \in 1 .. Len(applied'[d]) : applied'[d][m] = "stopped"
               /\ applied'[d][n] = "block" => blocked'
    <3>1. CASE d # c
      <4>1. applied'[d] = applied[d] /\ (d \in active => d \in active') /\ (blocked => blocked')
        BY <1>3, <1>8, <3>1
      <4> QED  BY <2>1, <4>1 DEF IInv, Heard
    <3>2. CASE d = c /\ n \in 1 .. Len(applied[c])
      <4>1. /\ applied[c][n] = "ready" =>
                 c \in active \/ \E m \in 1 .. Len(applied[c]) : applied[c][m] = "stopped"
            /\ applied[c][n] = "block" => blocked
        BY <3>2 DEF IInv, Heard
      <4>2. \A m \in 1 .. Len(applied[c]) : m \in 1 .. Len(applied'[c]) /\ applied'[c][m] = applied[c][m]
        BY <1>4, <1>5, <1>7
      <4>3. acknowledged[c] + 1 \in 1 .. Len(applied'[c])
        BY <1>4, <1>7
      <4> QED  BY <1>3, <1>7, <3>2, <4>1, <4>2, <4>3
    <3>3. CASE d = c /\ n = acknowledged[c] + 1
      BY <1>3, <1>7, <3>3
    <3> QED  BY <1>4, <1>5, <1>7, <2>1, <3>1, <3>2, <3>3
  <2>2. collecting' # "done"
    BY <1>1 DEF IInv, Heard
  <2> QED  BY <2>1, <2>2 DEF Heard
<1> QED  BY <1>1, <1>6, <1>9, <1>10, <1>12, <1>13, CollectorPreserves

(* An observation or counts are applied once, before their write. *)
LEMMA BeginWritePreserves ==
  ASSUME IInv, NEW c \in Page, BeginWrite(c)
  PROVE  IInv'
<1> DEFINE e == chain[c][1].envelope
<1>1. /\ chain[c] # <<>> /\ c \notin writing /\ writing' = writing \cup {c}
      /\ UNCHANGED <<answer, network, collecting, chain, acknowledged, active, blocked>>
      /\ UNCHANGED clientVars
  BY DEF BeginWrite, Turn
<1>2. /\ Head(chain[c]).envelope = e /\ e.sequence \in Nat \ {0}
      /\ e.sequence <= Len(made[c]) /\ made[c][e.sequence] = e.kind
  BY <1>1, FirstPost
<1> HIDE DEF e
<1>3. /\ e.sequence = acknowledged[c] + 1
      /\ e.kind \in {"observation", "counts"}
      /\ \/ applying[c] = e.sequence /\ UNCHANGED <<applying, applied>>
         \/ /\ applying[c] # e.sequence
            /\ applying' = [applying EXCEPT ![c] = e.sequence]
            /\ applied' = [applied EXCEPT ![c] = Append(@, e.kind)]
  BY <1>2 DEF BeginWrite, InOrder, AlreadyApplied
<1>4. /\ acknowledged \in [Page -> Nat] /\ applying \in [Page -> Nat]
      /\ applied \in [Page -> Seq(Reportable)] /\ applied[c] \in Seq(Reportable)
      /\ Len(applied[c]) \in Nat /\ acknowledged[c] \in Nat /\ applying[c] \in Nat
      /\ e.kind \in Reportable
  BY <1>3 DEF IInv, TypedCollector, Reportable, Observed, Made
<1>5. UNCHANGED <<made, queue, waiting>>
  BY <1>1 DEF clientVars
<1>6. Single' /\ answer' \in {"none", "ok", "error"}
  BY <1>1, <1>5 DEF IInv, TypedClient, Single, Expected, NoneTravels, NoneChained
<1>7. CASE UNCHANGED <<applying, applied>> /\ applying[c] = e.sequence
  <2>1. TypedCollector' /\ Heard'
    BY <1>1, <1>7 DEF IInv, TypedCollector, Heard
  <2>2. Progress'
    BY <1>1, <1>2, <1>5, <1>7 DEF IInv, Progress, e
  <2>3. \A d \in Page : \A n \in 1 .. Len(chain'[d]) :
          chain'[d][n].envelope.client = d /\ Genuine(chain'[d][n].envelope)
    BY <1>1 DEF IInv, Sent
  <2> QED  BY <1>1, <1>6, <2>1, <2>2, <2>3, CollectorPreserves
<1>8. CASE /\ applying[c] # e.sequence
           /\ applying' = [applying EXCEPT ![c] = e.sequence]
           /\ applied' = [applied EXCEPT ![c] = Append(@, e.kind)]
  <2>1. Len(applied[c]) = acknowledged[c]
    BY <1>3, <1>8 DEF IInv, Progress
  <2>2. /\ applied'[c] = Append(applied[c], e.kind) /\ applying'[c] = e.sequence
        /\ \A d \in Page \ {c} : applied'[d] = applied[d] /\ applying'[d] = applying[d]
    BY <1>4, <1>8
  <2>3. /\ Len(applied'[c]) = acknowledged[c] + 1
        /\ \A n \in 1 .. Len(applied[c]) : applied'[c][n] = applied[c][n]
        /\ applied'[c][acknowledged[c] + 1] = e.kind
    BY <1>4, <2>1, <2>2, AppendProperties
  <2>4. TypedCollector'
    <3>1. applied' \in [Page -> Seq(Reportable)]
      BY <1>4, <1>8, AppendProperties
    <3>2. applying' \in [Page -> Nat]
      BY <1>2, <1>4, <1>8
    <3> QED  BY <1>1, <3>1, <3>2 DEF IInv, TypedCollector
  <2>5. \A n \in 1 .. Len(applied'[c]) : n \in 1 .. Len(applied[c]) \/ n = acknowledged[c] + 1
    BY <1>4, <2>1, <2>3
  <2>6. Progress'
    <3>1. /\ Len(applied'[c]) <= Len(made[c])
          /\ \A n \in 1 .. Len(applied'[c]) : applied'[c][n] = made[c][n]
      <4>1. \A n \in 1 .. Len(applied[c]) : applied[c][n] = made[c][n]
        BY DEF IInv, Progress
      <4> QED  BY <1>2, <1>3, <2>3, <2>5, <4>1
    <3>2. ASSUME NEW d \in Page \ {c}
          PROVE  /\ applying'[d] = applying[d] /\ applied'[d] = applied[d]
                 /\ d \in writing' => d \in writing
      BY <1>1, <2>2
    <3>3. acknowledged'[c] = acknowledged[c] /\ applying'[c] = acknowledged[c] + 1 /\ applying'[c] # 0
      BY <1>1, <1>2, <1>3, <2>2
    <3>4. chain'[c] # <<>> /\ chain'[c][1].envelope.sequence = applying'[c]
      BY <1>1, <2>2 DEF e
    <3>5. made'[c][applying'[c]] \in {"observation", "counts"}
      BY <1>2, <1>3, <1>5, <2>2
    <3> QED  BY <1>1, <1>5, <2>3, <3>1, <3>2, <3>3, <3>4, <3>5 DEF IInv, Progress
  <2>7. Heard'
    <3>1. ASSUME NEW n \in 1 .. Len(applied'[c])
          PROVE  /\ applied'[c][n] = "ready" =>
                      c \in active \/ \E m \in 1 .. Len(applied'[c]) : applied'[c][m] = "stopped"
                 /\ applied'[c][n] = "block" => blocked
      <4>1. CASE n \in 1 .. Len(applied[c])
        <5>1. \A m \in 1 .. Len(applied[c]) : m \in 1 .. Len(applied'[c]) /\ applied'[c][m] = applied[c][m]
          BY <1>4, <2>1, <2>3
        <5> QED  BY <4>1, <5>1 DEF IInv, Heard
      <4>2. CASE n = acknowledged[c] + 1
        BY <1>3, <2>3, <4>2
      <4> QED  BY <2>5, <3>1, <4>1, <4>2
    <3>2. ASSUME NEW d \in Page \ {c}, NEW n \in 1 .. Len(applied'[d])
          PROVE  /\ applied'[d][n] = "ready" =>
                      d \in active \/ \E m \in 1 .. Len(applied'[d]) : applied'[d][m] = "stopped"
                 /\ applied'[d][n] = "block" => blocked
      <4>1. applied'[d] = applied[d]
        BY <2>2
      <4> QED  BY <3>2, <4>1 DEF IInv, Heard
    <3>3. collecting' = "done" => \A d \in Page : chain'[d] = <<>>
      BY <1>1 DEF IInv, Heard
    <3> QED  BY <1>1, <3>1, <3>2, <3>3 DEF Heard
  <2>8. \A d \in Page : \A n \in 1 .. Len(chain'[d]) :
          chain'[d][n].envelope.client = d /\ Genuine(chain'[d][n].envelope)
    BY <1>1 DEF IInv, Sent
  <2> QED  BY <1>1, <1>6, <2>4, <2>6, <2>7, <2>8, CollectorPreserves
<1> QED  BY <1>3, <1>7, <1>8

(* A write that ends acknowledges the envelope that was applied before it. *)
LEMMA WrittenPreserves ==
  ASSUME IInv, NEW c \in Page, Written(c)
  PROVE  IInv'
<1>1. /\ c \in writing /\ writing' = writing \ {c} /\ Done(c, TRUE)
      /\ UNCHANGED <<network, collecting, applied, active, blocked>> /\ UNCHANGED clientVars
  BY DEF Written
<1>2. /\ applying[c] # 0 /\ chain[c] # <<>> /\ chain[c][1].envelope.sequence = applying[c]
      /\ applying[c] = acknowledged[c] + 1
  BY <1>1 DEF IInv, Progress
<1>3. Head(chain[c]) = chain[c][1]
  BY <1>2, FirstPost
<1>4. /\ acknowledged' = [acknowledged EXCEPT ![c] = applying[c]]
      /\ applying' = [applying EXCEPT ![c] = 0]
  BY <1>2, <1>3 DEF Written, AcknowledgeUpTo
<1>5. acknowledged \in [Page -> Nat] /\ applying \in [Page -> Nat]
  BY DEF IInv, TypedCollector
<1>6. /\ acknowledged' \in [Page -> Nat] /\ applying' \in [Page -> Nat]
      /\ acknowledged'[c] = applying[c] /\ applying'[c] = 0
      /\ \A d \in Page \ {c} : acknowledged'[d] = acknowledged[d] /\ applying'[d] = applying[d]
  BY <1>4, <1>5
<1>7. /\ chain' \in [Page -> Seq(Posts)]
      /\ \A d \in Page \ {c} : chain'[d] = chain[d]
      /\ \A d \in Page : \A n \in 1 .. Len(chain'[d]) :
           chain'[d][n].envelope.client = d /\ Genuine(chain'[d][n].envelope)
  BY <1>1, <1>2, DoneMail
<1>8. TypedCollector'
  BY <1>1, <1>6, <1>7 DEF IInv, TypedCollector
<1>9. Single' /\ answer' \in {"none", "ok", "error"}
  <2>1. ASSUME NEW d \in Page
        PROVE  acknowledged[d] \in Nat /\ acknowledged'[d] \in Nat /\ acknowledged[d] <= acknowledged'[d]
    <3>1. acknowledged[d] \in Nat /\ acknowledged'[d] \in Nat
      BY <1>5, <1>6
    <3>2. CASE d = c
      BY <1>2, <1>6, <3>1, <3>2
    <3>3. CASE d # c
      BY <1>6, <3>1, <3>3
    <3> QED  BY <3>1, <3>2, <3>3
  <2>2. chain[c][1].envelope.sequence <= acknowledged'[c]
    BY <1>2, <1>5, <1>6
  <2> QED  BY <1>1, <1>2, <2>1, <2>2, DoneAnswers
<1>10. made' = made
  BY <1>1 DEF clientVars
<1>11. Progress'
  <2>1. ASSUME NEW d \in Page \ {c}
        PROVE  /\ applying'[d] \in {0, acknowledged'[d] + 1}
               /\ Len(applied'[d]) = IF applying'[d] = 0 THEN acknowledged'[d] ELSE applying'[d]
               /\ Len(applied'[d]) <= Len(made'[d])
               /\ \A n \in 1 .. Len(applied'[d]) : applied'[d][n] = made'[d][n]
               /\ applying'[d] # 0 => made'[d][applying'[d]] \in {"observation", "counts"}
               /\ d \in writing' => /\ applying'[d] # 0 /\ chain'[d] # <<>>
                                    /\ chain'[d][1].envelope.sequence = applying'[d]
    <3>1. /\ acknowledged'[d] = acknowledged[d] /\ applying'[d] = applying[d]
          /\ applied'[d] = applied[d] /\ made'[d] = made[d] /\ chain'[d] = chain[d]
          /\ d \in writing' => d \in writing
      BY <1>1, <1>6, <1>7, <1>10
    <3> QED  BY <3>1 DEF IInv, Progress
  <2>2. /\ Len(applied'[c]) = acknowledged'[c] /\ Len(applied'[c]) <= Len(made'[c])
        /\ \A n \in 1 .. Len(applied'[c]) : applied'[c][n] = made'[c][n]
        /\ c \notin writing'
    BY <1>1, <1>2, <1>6, <1>10 DEF IInv, Progress
  <2> QED  BY <1>6, <2>1, <2>2 DEF Progress
<1>12. Heard'
  BY <1>1, <1>2, <1>7 DEF IInv, Heard
<1> QED  BY <1>1, <1>7, <1>8, <1>9, <1>11, <1>12, CollectorPreserves

(* A write that fails leaves the envelope applied, for the retry to find. *)
LEMMA WriteFailsPreserves ==
  ASSUME IInv, NEW c \in Page, WriteFails(c)
  PROVE  IInv'
<1>1. /\ c \in writing /\ writing' = writing \ {c} /\ Done(c, FALSE) /\ blocked' = TRUE
      /\ UNCHANGED <<network, collecting, acknowledged, applying, applied, active>>
      /\ UNCHANGED clientVars
  BY DEF WriteFails
<1>2. chain[c] # <<>>
  BY <1>1 DEF IInv, Progress
<1>3. /\ chain' \in [Page -> Seq(Posts)]
      /\ \A d \in Page \ {c} : chain'[d] = chain[d]
      /\ \A d \in Page : \A n \in 1 .. Len(chain'[d]) :
           chain'[d][n].envelope.client = d /\ Genuine(chain'[d][n].envelope)
  BY <1>1, <1>2, DoneMail
<1>4. TypedCollector'
  BY <1>1, <1>3 DEF IInv, TypedCollector
<1>5. \A d \in Page : acknowledged[d] \in Nat
  BY DEF IInv, TypedCollector
<1>6. Single' /\ answer' \in {"none", "ok", "error"}
  <2>1. \A d \in Page : acknowledged[d] \in Nat /\ acknowledged'[d] \in Nat
                        /\ acknowledged[d] <= acknowledged'[d]
    BY <1>1, <1>5
  <2>2. FALSE => chain[c][1].envelope.sequence <= acknowledged'[c]
    OBVIOUS
  <2> QED  BY <1>1, <1>2, <2>1, <2>2, DoneAnswers
<1>7. made' = made
  BY <1>1 DEF clientVars
<1>8. Progress'
  BY <1>1, <1>3, <1>7 DEF IInv, Progress
<1>9. Heard'
  BY <1>1, <1>2, <1>3 DEF IInv, Heard
<1> QED  BY <1>1, <1>3, <1>4, <1>6, <1>8, <1>9, CollectorPreserves

(* The steps of the collector's stop preserve the invariant. *)
LEMMA StopsPreserve ==
  ASSUME IInv, BeginStop \/ Deadline \/ Drained
  PROVE  IInv'
<1>1. /\ collecting' \in {"stopping", "draining", "done"}
      /\ collecting' = "done" => \A c \in Page : chain[c] = <<>>
      /\ UNCHANGED <<answer, network, chain, writing, acknowledged, applying, applied, active>>
      /\ UNCHANGED clientVars
      /\ blocked' \in BOOLEAN /\ (blocked => blocked')
  BY DEF IInv, TypedCollector, BeginStop, Deadline, Drained, CollectorMoves, Unfinished
<1>2. UNCHANGED <<made, queue, waiting>>
  BY <1>1 DEF clientVars
<1>3. TypedCollector'
  BY <1>1 DEF IInv, TypedCollector
<1>4. Progress' /\ Heard'
  BY <1>1, <1>2 DEF IInv, Progress, Heard
<1>5. Single'
  BY <1>1, <1>2 DEF IInv, Single, Expected, NoneTravels, NoneChained
<1>6. \A d \in Page : \A n \in 1 .. Len(chain'[d]) :
        chain'[d][n].envelope.client = d /\ Genuine(chain'[d][n].envelope)
  BY <1>1 DEF IInv, Sent
<1>7. answer' \in {"none", "ok", "error"}
  BY <1>1 DEF IInv, TypedClient
<1> QED  BY <1>1, <1>3, <1>4, <1>5, <1>6, <1>7, CollectorPreserves

-----------------------------------------------------------------------------
(* The invariant                                                            *)

(* The invariant holds before the first page is loaded. *)
LEMMA Initially ==
  ASSUME Init
  PROVE  IInv
<1>1. Pages \in Nat
  BY TransportAssumption
<1>2. TypedClient
  <2>1. <<>> \in Seq(Envelopes) /\ <<>> \in Seq(Reportable)
    OBVIOUS
  <2>2. made \in [Page -> Seq(Reportable)]
    BY <2>1 DEF Init
  <2>3. page \in 0 .. Pages
    BY <1>1 DEF Init
  <2>4. wasted \subseteq Page /\ network \subseteq Posts
    BY DEF Init
  <2> QED  BY <2>1, <2>2, <2>3, <2>4 DEF Init, TypedClient
<1>3. TypedCollector
  <2>1. <<>> \in Seq(Posts) /\ <<>> \in Seq(Reportable)
    OBVIOUS
  <2>2. 0 \in Nat
    OBVIOUS
  <2> QED  BY <2>1, <2>2 DEF Init, TypedCollector
<1>4. \A c \in Page : /\ made[c] = <<>> /\ chain[c] = <<>> /\ applied[c] = <<>>
                      /\ acknowledged[c] = 0 /\ applying[c] = 0
  BY DEF Init
<1>5. Len(<<>>) = 0 /\ 1 .. 0 = {}
  OBVIOUS
<1>6. Sent /\ Paged
  BY <1>4, <1>5 DEF Init, Sent, Paged
<1>7. Progress
  BY <1>4, <1>5 DEF Init, Progress
<1>8. Single
  BY <1>4, <1>5 DEF Init, Single
<1>9. Heard /\ LastWords
  BY <1>4, <1>5 DEF Init, Heard, LastWords
<1> QED  BY <1>2, <1>3, <1>6, <1>7, <1>8, <1>9 DEF IInv

(* Every step of the specification preserves the invariant. *)
LEMMA NextPreserves ==
  ASSUME IInv, [Next]_vars
  PROVE  IInv'
<1>1. CASE UNCHANGED vars
  BY <1>1, UntouchedPreserves DEF vars, collectorVars
<1>2. ASSUME NEW c \in Page, Handle(c)
      PROVE  IInv'
  BY <1>2, SkipPreserves, ApplyAtOncePreserves, BeginWritePreserves DEF Handle
<1>3. CASE Client
  BY <1>3, ReportPreserves, AcknowledgePreserves, RefusedPreserves, TimeoutPreserves,
     PostsAgainPreserves, StopEventPreserves, FlushedPreserves, UnloadPreserves, CrashPreserves,
     LoadPreserves DEF Client
<1>4. CASE Collector
  BY <1>4, ReceivePreserves, WrittenPreserves, WriteFailsPreserves, StopsPreserve DEF Collector
<1> QED  BY <1>1, <1>2, <1>3, <1>4 DEF Next

(* The strengthened invariant holds for ever.                               *)
THEOREM Inductive == Spec => []IInv
<1>1. Init => IInv
  BY Initially
<1>2. IInv /\ [Next]_vars => IInv'
  BY NextPreserves
<1> QED  BY <1>1, <1>2, PTL DEF Spec

(* What the collector applies of a page is where that page's numbers begin: *)
(* once, in order, whatever was posted twice, late, or written again.       *)
AppliedInOrder ==
  \A c \in Page : /\ Len(applied[c]) <= Len(made[c])
                  /\ \A n \in 1 .. Len(applied[c]) : applied[c][n] = made[c][n]

THEOREM AppliesInOrder == Spec => []AppliedInOrder
<1>1. IInv => AppliedInOrder
  BY DEF IInv, Progress, AppliedInOrder
<1> QED  BY <1>1, Inductive, PTL

(* A client forgets an envelope only once the collector has acknowledged it *)
(* (the shift of dev-client.ts send, after a 2xx).                          *)
ForgottenStep ==
  phase' # "none" =>
    \A n \in DOMAIN queue :
      \/ \E m \in DOMAIN queue' : queue'[m] = queue[n]
      \/ queue[n].sequence <= acknowledged[queue[n].client]

(* Every step but the answer to a post keeps what the queue holds.          *)
LEMMA NothingForgotten ==
  ASSUME IInv, [Next]_vars, phase' # "none", ~Acknowledge
  PROVE  \A n \in 1 .. Len(queue) : n \in 1 .. Len(queue') /\ queue'[n] = queue[n]
<1>1. queue \in Seq(Envelopes) /\ Len(queue) \in Nat /\ "stopped" \in Reportable
  BY DEF IInv, TypedClient, Reportable, Lifecycle
<1>2. ASSUME NEW k \in Reportable, page \in Page, queue' = Append(queue, NewEnvelope(k))
      PROVE  \A n \in 1 .. Len(queue) : n \in 1 .. Len(queue') /\ queue'[n] = queue[n]
  <2>1. NewEnvelope(k) \in Envelopes
    BY <1>2, NumberedOne DEF IInv
  <2> QED  BY <1>1, <1>2, <2>1, AppendProperties
<1>3. ASSUME NEW kind \in Reportable, page \in Page, Enqueue(kind)
      PROVE  \A n \in 1 .. Len(queue) : n \in 1 .. Len(queue') /\ queue'[n] = queue[n]
  <2>1. queue' = queue \/ \E k \in {kind, "block"} : queue' = Append(queue, NewEnvelope(k))
    BY <1>3, KeptTaken DEF IInv, Enqueue
  <2>2. "block" \in Reportable
    BY DEF Reportable, Made
  <2> QED  BY <1>2, <1>3, <2>1, <2>2
<1>4. ASSUME NEW kind \in Kinds, Report(kind)
      PROVE  kind \in Reportable /\ page \in Page /\ Enqueue(kind)
  BY <1>4, TransportAssumption DEF Report, Reportable, IInv, Paged
<1>5. CASE Flushed
  BY <1>1, <1>3, <1>5 DEF Flushed, IInv, Paged
<1>6. CASE Load
  BY <1>6 DEF Load, IInv, Paged
<1>7. CASE Unload \/ Crash
  BY <1>7 DEF Unload, Crash, Unloaded
<1>8. CASE queue' = queue
  BY <1>8
<1>9. CASE Client
  BY <1>3, <1>4, <1>5, <1>6, <1>7, <1>8, <1>9 DEF Client, Refused, Timeout, RetryFires, Connect,
     StopEvent
<1>10. CASE Collector
  BY <1>8, <1>10 DEF Collector, Receive, Written, WriteFails, BeginStop, Deadline, Drained,
     CollectorMoves, clientVars
<1>11. ASSUME NEW c \in Page, Handle(c)
       PROVE  queue' = queue
  BY <1>11 DEF Handle, Skip, ApplyAtOnce, BeginWrite, clientVars
<1> QED  BY <1>8, <1>9, <1>10, <1>11 DEF Next, vars

(* A step of a page only forgets what the collector has acknowledged. *)
LEMMA ForgetsStored ==
  ASSUME IInv, [Next]_vars
  PROVE  ForgottenStep
<1> SUFFICES ASSUME phase' # "none", NEW n \in DOMAIN queue
             PROVE  \/ \E m \in DOMAIN queue' : queue'[m] = queue[n]
                    \/ queue[n].sequence <= acknowledged[queue[n].client]
  BY DEF ForgottenStep
<1>1. queue \in Seq(Envelopes) /\ Len(queue) \in Nat /\ n \in 1 .. Len(queue)
  BY DEF IInv, TypedClient
<1>2. CASE Acknowledge
  <2>1. queue # <<>> /\ queue[1].sequence <= acknowledged[queue[1].client] /\ queue' = Tail(queue)
    BY <1>2 DEF Acknowledge, IInv, Single
  <2>2. /\ queue' \in Seq(Envelopes) /\ Len(queue') = Len(queue) - 1
        /\ \A m \in 1 .. Len(queue') : queue'[m] = queue[m + 1]
    BY <1>1, <2>1, HeadTailProperties
  <2>3. CASE n = 1
    BY <2>1, <2>3
  <2>4. CASE n # 1
    <3>1. n - 1 \in 1 .. Len(queue') /\ queue'[n - 1] = queue[n]
      BY <1>1, <2>2, <2>4
    <3> QED  BY <2>2, <3>1
  <2> QED  BY <2>3, <2>4
<1>3. CASE ~Acknowledge
  <2>1. n \in 1 .. Len(queue') /\ queue'[n] = queue[n]
    BY <1>1, <1>3, NothingForgotten
  <2>2. DOMAIN queue' = 1 .. Len(queue')
    <3>1. queue' \in Seq(Envelopes)
      BY NextPreserves DEF IInv, TypedClient
    <3> QED  BY <3>1
  <2> QED  BY <2>1, <2>2
<1> QED  BY <1>2, <1>3

(* The action property of the run, for any number of pages and envelopes.   *)
THEOREM ForgetsOnlyStored == Spec => ForgottenWhenStored
<1>1. IInv /\ [Next]_vars => [ForgottenStep]_vars
  BY ForgetsStored
<1> QED  BY <1>1, Inductive, PTL DEF Spec, ForgottenWhenStored, ForgottenStep

-----------------------------------------------------------------------------
(* The promise of ObservationLog.  It needs room in the queue: a page's     *)
(* first envelope is "ready", so that the collector knows of the page when  *)
(* it knows anything of it, and one that drops an observation reports the   *)
(* block first.                                                             *)

RoomToAnnounce == \A c \in Page : made[c] # <<>> => made[c][1] = "ready"
RoomToOwnUp == phase \in {"live", "flushing"} /\ Full(queue) => dropped
Room == RoomToAnnounce /\ RoomToOwnUp

(* A page that drops what it observed has numbered a block by then.         *)
Owns(c) == \E n \in 1 .. Len(made[c]) :
             made[c][n] = "block" /\ \A m \in 1 .. n : made[c][m] # "stopped"
OwnedUp ==
  /\ \A c \in wasted : Owns(c)
  /\ phase \in {"live", "flushing"} /\ dropped => Owns(page)
  /\ phase = "none" => ~dropped

(* A page that has owned up to its loss goes on having done so. *)
LEMMA OwnsStays ==
  ASSUME TypedClient, TypedClient', Extends, NEW c \in Page, Owns(c)
  PROVE  Owns(c)'
<1>1. /\ Len(made[c]) \in Nat /\ Len(made'[c]) \in Nat
      /\ Len(made[c]) <= Len(made'[c])
      /\ \A n \in 1 .. Len(made[c]) : made'[c][n] = made[c][n]
  BY DEF TypedClient, Extends
<1>2. PICK n \in 1 .. Len(made[c]) : made[c][n] = "block" /\ \A m \in 1 .. n : made[c][m] # "stopped"
  BY DEF Owns
<1>3. n \in 1 .. Len(made'[c]) /\ made'[c][n] = "block"
  BY <1>1, <1>2
<1>4. \A m \in 1 .. n : m \in 1 .. Len(made[c]) /\ made'[c][m] = made[c][m]
  BY <1>1, <1>2
<1> QED  BY <1>2, <1>3, <1>4 DEF Owns

(* A page that takes its block in before its last word owns up to its loss. *)
LEMMA BlockOwned ==
  ASSUME IInv, page \in Page, phase \in {"live", "flushing"}, page' = page, Numbers("block")
  PROVE  Owns(page)'
<1>1. /\ Len(made[page]) \in Nat
      /\ \A n \in 1 .. Len(made[page]) : made[page][n] # "stopped"
  BY DEF IInv, TypedClient, LastWords
<1>2. "block" \in Reportable
  BY DEF Reportable, Made
<1>3. /\ Len(made'[page]) = Len(made[page]) + 1
      /\ made'[page][Len(made[page]) + 1] = "block"
      /\ \A n \in 1 .. Len(made[page]) : made'[page][n] = made[page][n]
  BY <1>2, TakenExtends DEF IInv, Extends
<1>4. Len(made[page]) + 1 \in 1 .. Len(made'[page])
  BY <1>1, <1>3
<1>5. ASSUME NEW m \in 1 .. (Len(made[page]) + 1)
      PROVE  made'[page][m] # "stopped"
  <2>1. CASE m \in 1 .. Len(made[page])
    BY <1>1, <1>3, <2>1
  <2>2. CASE m = Len(made[page]) + 1
    BY <1>3, <2>2
  <2> QED  BY <1>1, <2>1, <2>2
<1> QED  BY <1>3, <1>4, <1>5 DEF Owns

(* What a step of the page adds to what was made.                           *)
Lists == {<<k>> : k \in Reportable} \cup {<<>>}

(* What a page makes in one step is a short list of kinds. *)
LEMMA ListsTyped ==
  ASSUME NEW kinds \in Lists
  PROVE  kinds \in Seq(Reportable)
<1>1. CASE kinds = <<>>
  BY <1>1
<1>2. ASSUME NEW k \in Reportable, kinds = <<k>>
      PROVE  kinds \in Seq(Reportable)
  <2>1. <<k>> \in Seq(Reportable)
    OBVIOUS
  <2> QED  BY <1>2, <2>1
<1> QED  BY <1>1, <1>2 DEF Lists

(* A step of the client adds a short list to what one page made, or nothing. *)
LEMMA ClientMakes ==
  ASSUME IInv, Client
  PROVE  /\ \/ UNCHANGED <<made, wasted>>
            \/ /\ \E c \in Page, kinds \in Lists : made' = [made EXCEPT ![c] = @ \o kinds]
               /\ wasted' = wasted \/ (page \in Page /\ wasted' = wasted \cup {page})
         /\ UNCHANGED <<applied, collecting, blocked, active>>
<1>1. \A kind \in Reportable : Kept(queue, kind) \in Lists
  BY KeptOne DEF Lists, Reportable, Made
<1>2. ASSUME NEW kind \in Reportable, page \in Page, Enqueue(kind)
      PROVE  /\ \E c \in Page, kinds \in Lists : made' = [made EXCEPT ![c] = @ \o kinds]
             /\ wasted' = wasted \/ (page \in Page /\ wasted' = wasted \cup {page})
  BY <1>1, <1>2 DEF Enqueue
<1>3. ASSUME NEW kind \in Kinds, Report(kind)
      PROVE  kind \in Reportable /\ page \in Page /\ Enqueue(kind) /\ UNCHANGED collectorVars
  BY <1>3, TransportAssumption DEF Report, Reportable, IInv, Paged
<1>4. CASE Flushed
  <2>1. "stopped" \in Reportable
    BY DEF Reportable, Lifecycle
  <2> QED  BY <1>2, <1>4, <2>1 DEF Flushed, IInv, Paged, collectorVars
<1>5. CASE Load
  <2>1. PICK ready \in Lists : made' = [made EXCEPT ![page'] = ready]
    <3>1. PICK ready \in {<<>>, <<"ready">>} : made' = [made EXCEPT ![page'] = ready]
      BY <1>5 DEF Load
    <3>2. ready \in Lists
      BY DEF Lists, Reportable, Lifecycle
    <3> QED  BY <3>1, <3>2
  <2>2. page' \in Page /\ made[page'] = <<>> /\ made \in [Page -> Seq(Reportable)]
    <3>1. page' = page + 1 /\ page < Pages /\ page \in Nat /\ Pages \in Nat
      BY <1>5, TransportAssumption DEF Load, IInv, TypedClient
    <3>2. page' \in Page /\ page' > page
      BY <3>1 DEF Page
    <3> QED  BY <3>2 DEF IInv, Paged, TypedClient
  <2>3. ready \in Seq(Reportable)
    BY ListsTyped
  <2>4. <<>> \o ready = ready
    BY <2>3, ConcatEmptySeq
  <2>5. made' = [made EXCEPT ![page'] = @ \o ready]
    BY <2>1, <2>2, <2>4
  <2>6. UNCHANGED <<wasted, applied, collecting, blocked, active>>
    BY <1>5 DEF Load, collectorVars
  <2> QED  BY <2>2, <2>5, <2>6
<1>6. CASE Unload
  <2>1. PICK kept \in {<<>>, Kept(queue, "stopped")} : made' = [made EXCEPT ![page] = @ \o kept]
    BY <1>6 DEF Unload
  <2>2. kept \in Lists
    BY <1>1 DEF Lists, Reportable, Lifecycle
  <2> QED  BY <1>6, <2>1, <2>2 DEF Unload, Unloaded, Abandon, IInv, Paged
<1>7. CASE Acknowledge \/ Refused \/ Timeout \/ RetryFires \/ Connect \/ StopEvent \/ Crash
  BY <1>7 DEF Acknowledge, Refused, Timeout, RetryFires, Connect, StopEvent, Crash, Unloaded,
     Abandon, collectorVars
<1> QED  BY <1>2, <1>3, <1>4, <1>5, <1>6, <1>7 DEF Client, collectorVars

(* Appending to what one page made keeps what every page made before. *)
LEMMA ListsExtend ==
  ASSUME TypedClient, NEW c \in Page, NEW kinds \in Lists, made' = [made EXCEPT ![c] = @ \o kinds]
  PROVE  Extends
<1>1. made[c] \in Seq(Reportable) /\ kinds \in Seq(Reportable) /\ Len(made[c]) \in Nat
  BY ListsTyped DEF TypedClient
<1>2. made'[c] = made[c] \o kinds /\ \A d \in Page \ {c} : made'[d] = made[d]
  BY DEF TypedClient
<1>3. /\ Len(made[c]) <= Len(made'[c])
      /\ \A n \in 1 .. Len(made[c]) : made'[c][n] = made[c][n]
  BY <1>1, <1>2, ConcatProperties
<1>4. \A d \in Page : Len(made[d]) \in Nat
  BY DEF TypedClient
<1> QED  BY <1>2, <1>3, <1>4 DEF Extends

(* The collector's steps leave the page alone. *)
LEMMA CollectorKeepsPage ==
  ASSUME Collector \/ \E c \in Page : Handle(c)
  PROVE  UNCHANGED clientVars
BY DEF Collector, Receive, Written, WriteFails, BeginStop, Deadline, Drained, CollectorMoves,
   Handle, Skip, ApplyAtOnce, BeginWrite

(* No step takes back what a page has made. *)
LEMMA StepExtends ==
  ASSUME IInv, [Next]_vars
  PROVE  Extends
<1>1. CASE Client
  BY <1>1, ClientMakes, NothingNumbered, ListsExtend DEF IInv
<1>2. CASE UNCHANGED vars
  BY <1>2, NothingNumbered DEF vars
<1>3. CASE Collector \/ \E c \in Page : Handle(c)
  BY <1>3, CollectorKeepsPage, NothingNumbered DEF clientVars
<1> QED  BY <1>1, <1>2, <1>3 DEF Next

(* A step preserves OwnedUp when there is room for the page's own envelopes. *)
LEMMA OwnedUpPreserved ==
  ASSUME IInv, RoomToOwnUp, OwnedUp, [Next]_vars
  PROVE  OwnedUp'
<1>1. IInv' /\ Extends
  BY NextPreserves, StepExtends
<1>2. \A c \in Page : Owns(c) => Owns(c)'
  BY <1>1, OwnsStays DEF IInv
<1>3. wasted \subseteq Page
  BY DEF IInv, TypedClient
<1>4. CASE /\ wasted' = wasted
           /\ \/ UNCHANGED <<page, dropped>> /\ (phase' # phase => phase' \in {"leaving", "closed"})
              \/ ~dropped'
  <2>1. dropped' /\ phase' \in {"live", "flushing"} => phase = phase' /\ dropped /\ page' = page /\ page \in Page
    BY <1>4 DEF IInv, Paged
  <2>2. phase' = "none" => ~dropped'
    BY <1>4 DEF OwnedUp
  <2>3. \A c \in wasted' : Owns(c)'
    BY <1>2, <1>3, <1>4 DEF OwnedUp
  <2>4. phase' \in {"live", "flushing"} /\ dropped' => Owns(page)'
    BY <1>2, <2>1 DEF OwnedUp
  <2> QED  BY <2>2, <2>3, <2>4 DEF OwnedUp
<1>5. ASSUME NEW kind \in Kinds, Report(kind)
      PROVE  OwnedUp'
  <2>1. /\ page \in Page /\ page' = page /\ phase' = phase /\ phase # "none"
        /\ kind \in Observed => phase \in {"live", "flushing"}
        /\ made \in [Page -> Seq(Reportable)]
    BY <1>5, TransportAssumption DEF Report, IInv, Paged, TypedClient, Observed
  <2>2. /\ made' = [made EXCEPT ![page] = @ \o Kept(queue, kind)]
        /\ dropped' = (dropped \/ Overflows(queue, kind))
        /\ wasted' = IF kind \in Observed /\ Kept(queue, kind) # <<kind>> THEN wasted \cup {page} ELSE wasted
    BY <1>5 DEF Report, Enqueue
  <2>3. phase \in {"live", "flushing"} /\ dropped => Owns(page)'
    BY <1>2, <2>1 DEF OwnedUp
  <2>4. phase \in {"live", "flushing"} /\ ~dropped /\ Overflows(queue, kind) => Owns(page)'
    <3> SUFFICES ASSUME phase \in {"live", "flushing"}, ~dropped, Overflows(queue, kind)
                 PROVE  Owns(page)'
      OBVIOUS
    <3>1. Kept(queue, kind) = <<"block">>
      BY DEF Kept, RoomToOwnUp
    <3>2. made[page] \o <<"block">> = Append(made[page], "block")
      <4>1. "block" \in Reportable
        BY DEF Reportable, Made
      <4> QED  BY <2>1, <4>1, AppendIsConcat
    <3>3. Numbers("block")
      BY <2>2, <3>1, <3>2 DEF Numbers
    <3> QED  BY <2>1, <3>3, BlockOwned
  <2>5. phase \in {"live", "flushing"} /\ Kept(queue, kind) # <<kind>> => Owns(page)'
    BY <2>3, <2>4 DEF Kept, RoomToOwnUp
  <2>6. \A c \in wasted : Owns(c)'
    BY <1>2, <1>3 DEF OwnedUp
  <2> QED  BY <2>1, <2>2, <2>3, <2>4, <2>5, <2>6 DEF OwnedUp
<1>6. CASE Flushed
  <2>1. wasted' = wasted /\ phase' = "leaving"
    BY <1>6 DEF Flushed, Enqueue, Observed
  <2> QED  BY <1>2, <1>3, <2>1 DEF OwnedUp
<1>7. CASE StopEvent
  <2>1. UNCHANGED <<wasted, page, dropped>> /\ phase' = "flushing" /\ phase = "live" /\ page \in Page
    BY <1>7 DEF StopEvent, IInv, Paged
  <2> QED  BY <1>2, <1>3, <2>1 DEF OwnedUp
<1>8. CASE Unload \/ Crash
  <2>1. wasted' = wasted /\ ~dropped'
    BY <1>8 DEF Unload, Crash, Unloaded
  <2> QED  BY <1>4, <2>1
<1>9. CASE Load
  <2>1. wasted' = wasted /\ ~dropped'
    BY <1>9 DEF Load, OwnedUp
  <2> QED  BY <1>4, <2>1
<1>10. CASE Acknowledge \/ Refused \/ Timeout \/ RetryFires \/ Connect
  <2>1. UNCHANGED <<wasted, page, dropped>> /\ phase' \in {phase, "closed"}
    BY <1>10 DEF Acknowledge, Refused, Timeout, RetryFires, Connect, SendEnds
  <2> QED  BY <1>4, <2>1
<1>11. CASE Collector \/ \E c \in Page : Handle(c)
  BY <1>4, <1>11, CollectorKeepsPage DEF clientVars
<1>12. CASE UNCHANGED vars
  BY <1>4, <1>12 DEF vars
<1> QED
  BY <1>5, <1>6, <1>7, <1>8, <1>9, <1>10, <1>11, <1>12 DEF Next, Client

(* When the last client has stopped and no block came, nothing is missing.  *)
LEMMA NothingMissing ==
  ASSUME IInv, RoomToAnnounce, OwnedUp, active = {}, ~blocked
  PROVE  Log!NothingLeftBehind
<1> SUFFICES ASSUME NEW c \in Page, applied[c] # <<>>
             PROVE  /\ c \notin wasted
                    /\ \A n \in DOMAIN made[c] : made[c][n] = "observation" => n <= Len(applied[c])
  BY DEF Log!NothingLeftBehind, Log!Known
<1>1. /\ Len(applied[c]) <= Len(made[c])
      /\ \A n \in 1 .. Len(applied[c]) : applied[c][n] = made[c][n]
      /\ applied[c] \in Seq(Reportable) /\ made[c] \in Seq(Reportable)
      /\ Len(applied[c]) \in Nat /\ Len(made[c]) \in Nat
  BY DEF IInv, Progress, TypedClient, TypedCollector
<1>2. 1 \in 1 .. Len(applied[c]) /\ 1 \in 1 .. Len(made[c])
  BY <1>1, EmptySeq
<1>3. applied[c][1] = "ready"
  BY <1>1, <1>2, EmptySeq DEF RoomToAnnounce
<1>4. PICK m \in 1 .. Len(applied[c]) : applied[c][m] = "stopped"
  BY <1>2, <1>3 DEF IInv, Heard
<1>5. m \in 1 .. Len(made[c]) /\ made[c][m] = "stopped"
  BY <1>1, <1>4
<1>6. \A n \in 1 .. Len(made[c]) : made[c][n] = "observation" => n <= Len(applied[c])
  BY <1>1, <1>4, <1>5 DEF IInv, LastWords
<1>7. ASSUME c \in wasted
      PROVE  FALSE
  <2>1. PICK n \in 1 .. Len(made[c]) : made[c][n] = "block" /\ \A k \in 1 .. n : made[c][k] # "stopped"
    BY <1>7 DEF OwnedUp, Owns
  <2>2. ~(m \in 1 .. n)
    BY <1>5, <2>1
  <2>3. n \in 1 .. Len(applied[c]) /\ applied[c][n] = "block"
    BY <1>1, <1>4, <2>1, <2>2
  <2> QED  BY <2>3 DEF IInv, Heard
<1>8. DOMAIN made[c] = 1 .. Len(made[c])
  BY <1>1
<1> QED  BY <1>6, <1>7, <1>8

(* The collector applies a client's envelopes one by one.                   *)
LEMMA AppliesNext ==
  ASSUME IInv, NEW c \in Page, ApplyAtOnce(c) \/ BeginWrite(c)
  PROVE  /\ \/ applied' = applied
            \/ /\ Len(applied[c]) < Len(made[c])
               /\ applied' = [applied EXCEPT ![c] = Append(@, made[c][Len(@) + 1])]
         /\ UNCHANGED <<made, wasted, collecting>> /\ collecting # "done"
<1> DEFINE e == chain[c][1].envelope
<1>1. chain[c] # <<>> /\ UNCHANGED <<made, wasted, collecting>>
  BY DEF ApplyAtOnce, BeginWrite, Turn, clientVars
<1>2. collecting # "done"
  BY <1>1 DEF IInv, Heard
<1>3. /\ Head(chain[c]).envelope = e /\ e.sequence \in Nat \ {0}
      /\ e.sequence <= Len(made[c]) /\ made[c][e.sequence] = e.kind
  BY <1>1, FirstPost
<1> HIDE DEF e
<1>4. /\ e.sequence = acknowledged[c] + 1
      /\ \/ applied' = applied
         \/ /\ applied' = [applied EXCEPT ![c] = Append(@, e.kind)]
            /\ applying[c] # e.sequence \/ e.kind \in {"ready", "stopped", "block"}
  BY <1>3 DEF ApplyAtOnce, BeginWrite, InOrder, AlreadyApplied, Lifecycle
<1>5. /\ acknowledged[c] \in Nat /\ Len(applied[c]) \in Nat /\ Len(made[c]) \in Nat
      /\ applied \in [Page -> Seq(Reportable)]
  BY DEF IInv, TypedClient, TypedCollector
<1>6. applied' # applied => Len(applied[c]) = acknowledged[c]
  BY <1>3, <1>4 DEF IInv, Progress
<1>7. applied' # applied =>
        /\ Len(applied[c]) < Len(made[c])
        /\ applied' = [applied EXCEPT ![c] = Append(@, made[c][Len(@) + 1])]
  BY <1>3, <1>4, <1>5, <1>6
<1> QED  BY <1>1, <1>2, <1>7

(* Every step of the transport is a step of the log or none.                *)
LEMMA StepImplements ==
  ASSUME IInv, OwnedUp, RoomToAnnounce, [Next]_vars
  PROVE  [Log!Next]_(Log!vars)
<1> DEFINE verdict == IF collecting # "done" THEN "open"
                      ELSE IF blocked THEN "partial" ELSE "complete"
<1>1. CASE UNCHANGED <<made, wasted, applied, verdict>>
  BY <1>1 DEF Log!vars
<1>2. CASE Client
  <2>1. UNCHANGED <<applied, verdict>>
    BY <1>2, ClientMakes
  <2>2. CASE UNCHANGED <<made, wasted>>
    BY <1>1, <2>1, <2>2
  <2>3. CASE /\ \E c \in Page, kinds \in Lists : made' = [made EXCEPT ![c] = @ \o kinds]
             /\ wasted' = wasted \/ (page \in Page /\ wasted' = wasted \cup {page})
    <3>1. \E dropping \in SUBSET Page : wasted' = wasted \cup dropping
      <4>1. CASE wasted' = wasted
        <5>1. wasted' = wasted \cup {} /\ {} \in SUBSET Page
          BY <4>1
        <5> QED  BY <5>1
      <4>2. CASE page \in Page /\ wasted' = wasted \cup {page}
        <5>1. {page} \in SUBSET Page
          BY <4>2
        <5> QED  BY <4>2, <5>1
      <4> QED  BY <2>3, <4>1, <4>2
    <3>2. Log!Make
      BY <2>1, <2>3, <3>1 DEF Log!Make, Lists, Reportable
    <3> QED  BY <3>2 DEF Log!Next
  <2> QED  BY <1>2, <2>2, <2>3, ClientMakes
<1>3. ASSUME NEW c \in Page, ApplyAtOnce(c) \/ BeginWrite(c)
      PROVE  [Log!Next]_(Log!vars)
  <2>1. UNCHANGED <<made, wasted, verdict>>
    BY <1>3, AppliesNext
  <2>2. CASE applied' = applied
    BY <1>1, <2>1, <2>2
  <2>3. CASE applied' # applied
    <3>1. Log!Apply(c)
      BY <1>3, <2>1, <2>3, AppliesNext DEF Log!Apply
    <3> QED  BY <3>1 DEF Log!Next
  <2> QED  BY <2>2, <2>3
<1>4. ASSUME NEW c \in Page, Skip(c)
      PROVE  [Log!Next]_(Log!vars)
  BY <1>1, <1>4 DEF Skip, clientVars
<1>5. CASE Drained
  <2>1. /\ collecting = "draining" /\ collecting' = "done" /\ UNCHANGED <<made, wasted, applied>>
        /\ blocked' = (blocked \/ active # {})
    BY <1>5 DEF Drained, CollectorMoves, Unfinished, clientVars
  <2>2. verdict = "open" /\ verdict' \in {"complete", "partial"}
        /\ (verdict' = "complete" => ~blocked /\ active = {})
    BY <2>1
  <2>3. verdict' = "complete" => Log!NothingLeftBehind
    BY <2>2, NothingMissing
  <2>4. Log!Conclude
    BY <2>1, <2>2, <2>3 DEF Log!Conclude
  <2> QED  BY <2>4 DEF Log!Next
<1>6. CASE BeginStop \/ Deadline
  <2>1. UNCHANGED <<made, wasted, applied, verdict>>
    BY <1>6 DEF BeginStop, Deadline, CollectorMoves, clientVars
  <2> QED  BY <1>1, <2>1
<1>7. ASSUME NEW c \in Page, Written(c) \/ WriteFails(c)
      PROVE  [Log!Next]_(Log!vars)
  <2>1. UNCHANGED <<made, wasted, applied, collecting>> /\ c \in writing
    BY <1>7 DEF Written, WriteFails, clientVars
  <2>2. collecting # "done"
    BY <2>1 DEF IInv, Progress, Heard
  <2> QED  BY <1>1, <2>1, <2>2
<1>8. ASSUME NEW post \in network, Receive(post)
      PROVE  [Log!Next]_(Log!vars)
  BY <1>1, <1>8 DEF Receive, clientVars
<1>9. CASE UNCHANGED vars
  BY <1>1, <1>9 DEF vars
<1> QED
  BY <1>2, <1>3, <1>4, <1>5, <1>6, <1>7, <1>8, <1>9 DEF Next, Handle, Collector

(* As long as there is room, the transport implements the log: everything   *)
(* is applied once and in order through retries, late copies, failed writes *)
(* and reloads, and a verdict "complete" leaves nothing behind.             *)
THEOREM ImplementsWithRoom == Spec /\ []Room => ImplementsLog
<1>1. Init => Log!Init
  BY DEF Init, Log!Init
<1>2. Init => OwnedUp
  BY DEF Init, OwnedUp
<1>3. IInv /\ OwnedUp /\ Room /\ [Next]_vars => OwnedUp'
  BY OwnedUpPreserved DEF Room
<1>4. IInv /\ OwnedUp /\ Room /\ [Next]_vars => [Log!Next]_(Log!vars)
  BY StepImplements DEF Room
<1> QED  BY <1>1, <1>2, <1>3, <1>4, Inductive, PTL DEF Spec, ImplementsLog, Log!Spec

-----------------------------------------------------------------------------
(* Room enough                                                              *)

(* What sessionStorage holds leaves a page that takes it over a place for    *)
(* its "ready" and one for a lifecycle envelope or for its block.            *)
Light == Len(storage) + 2 <= Reserve

(* So the queue is full only of a page that has dropped an observation.      *)
Fits ==
  /\ phase # "none" => made[page] # <<>>
  /\ phase \in {"live", "flushing"} /\ ~dropped => Len(queue) < Reserve
  /\ RoomToAnnounce

(* A step that lets the queue grow no longer than it may preserves Fits.    *)
LEMMA FitsStays ==
  ASSUME IInv, Fits, Extends, TypedClient',
         UNCHANGED page, phase' # "none" => phase # "none",
         \A c \in Page \ {page} : made'[c] = made[c],
         made' # made => phase # "none",
         phase' \in {"live", "flushing"} /\ ~dropped' => Len(queue') < Reserve
  PROVE  Fits'
<1>1. \A c \in Page : /\ made[c] \in Seq(Reportable) /\ made'[c] \in Seq(Reportable)
                      /\ Len(made[c]) \in Nat /\ Len(made'[c]) \in Nat
  BY DEF IInv, TypedClient
<1>2. ASSUME NEW c \in Page, made[c] # <<>>
      PROVE  made'[c] # <<>> /\ made'[c][1] = made[c][1]
  <2>1. 1 \in 1 .. Len(made[c])
    BY <1>1, <1>2, EmptySeq
  <2>2. made'[c][1] = made[c][1] /\ Len(made'[c]) >= 1
    BY <1>1, <2>1 DEF Extends
  <2> QED  BY <2>2
<1>3. ASSUME NEW c \in Page, made[c] = <<>>
      PROVE  made'[c] = <<>>
  BY <1>3 DEF IInv, Paged, Fits
<1>4. RoomToAnnounce'
  BY <1>2, <1>3 DEF Fits, RoomToAnnounce
<1>5. phase' # "none" => made'[page'] # <<>>
  BY <1>2 DEF IInv, Paged, Fits
<1> QED  BY <1>4, <1>5 DEF Fits

(* While storage is light, every step preserves Fits.                       *)
LEMMA FitsPreserved ==
  ASSUME Light, IInv, Fits, [Next]_vars
  PROVE  Fits'
<1>1. IInv' /\ Extends
  BY NextPreserves, StepExtends
<1>2. TypedClient'
  BY <1>1 DEF IInv
<1>3. /\ Limit \in Nat /\ Reserve \in Nat /\ Limit < Reserve
      /\ queue \in Seq(Envelopes) /\ Len(queue) \in Nat
      /\ storage \in Seq(Envelopes) /\ Len(storage) \in Nat
      /\ made \in [Page -> Seq(Reportable)]
  BY TransportAssumption DEF IInv, TypedClient
<1>4. CASE /\ UNCHANGED <<page, made, storage, dropped>>
           /\ queue' \in {queue, <<>>}
           /\ phase' # phase => phase' \in {"none", "leaving", "closed"} \/ phase = "live"
           /\ phase' # "none" => phase # "none"
  <2>1. phase' \in {"live", "flushing"} /\ ~dropped' => Len(queue') < Reserve
    <3>1. phase' \in {"live", "flushing"} => phase \in {"live", "flushing"}
      BY <1>4
    <3>2. 0 < Reserve
      BY <1>3
    <3> QED  BY <1>4, <3>1, <3>2 DEF Fits
  <2> QED  BY <1>1, <1>2, <1>4, <2>1, FitsStays
<1>5. ASSUME NEW kind \in Kinds, Report(kind)
      PROVE  Fits'
  <2>1. /\ page \in Page /\ page' = page /\ phase' = phase /\ phase # "none"
        /\ kind \in Reportable /\ kind \notin Lifecycle
    BY <1>5, TransportAssumption DEF Report, IInv, Paged, Reportable, Lifecycle, Made, Observed
  <2>2. /\ made' = [made EXCEPT ![page] = @ \o Kept(queue, kind)]
        /\ queue' = queue \o Numbered(page, Kept(queue, kind))
        /\ dropped' = (dropped \/ Overflows(queue, kind))
    BY <1>5 DEF Report, Enqueue
  <2>4. \A c \in Page \ {page} : made'[c] = made[c]
    BY <1>3, <2>2
  <2>5. Len(queue') <= Len(queue) + 1
    <3>1. queue' = queue \/ \E k \in {kind, "block"} : queue' = Append(queue, NewEnvelope(k))
      BY <2>1, <2>2, KeptTaken DEF IInv
    <3>2. \A k \in {kind, "block"} : NewEnvelope(k) \in Envelopes
      BY <2>1, NumberedOne DEF IInv, Reportable, Made
    <3> QED  BY <1>3, <3>1, <3>2, AppendProperties
  <2>6. ~dropped' => Len(queue') < Reserve
    <3>1. Len(queue') \in Nat
      BY <1>2 DEF TypedClient
    <3>2. ~dropped' => ~Overflows(queue, kind)
      BY <2>2
    <3>3. ~Overflows(queue, kind) => Len(queue) < Limit
      BY <1>3, <2>1 DEF Overflows
    <3>4. Len(queue) < Limit => Len(queue') < Reserve
      BY <1>3, <2>5, <3>1
    <3> QED  BY <3>2, <3>3, <3>4
  <2> QED  BY <1>1, <1>2, <2>1, <2>4, <2>6, FitsStays
<1>6. CASE Flushed
  <2>1. /\ page' = page /\ phase' = "leaving" /\ phase # "none"
        /\ made' = [made EXCEPT ![page] = @ \o Kept(queue, "stopped")]
    BY <1>6 DEF Flushed, Enqueue
  <2>2. \A c \in Page \ {page} : made'[c] = made[c]
    BY <1>3, <2>1
  <2> QED  BY <1>1, <1>2, <2>1, <2>2, FitsStays
<1>7. CASE Unload
  <2>1. /\ page' = page /\ phase' = "none" /\ phase # "none"
        /\ \E kept : made' = [made EXCEPT ![page] = @ \o kept]
    BY <1>7 DEF Unload, Unloaded
  <2>2. \A c \in Page \ {page} : made'[c] = made[c]
    BY <1>3, <2>1
  <2> QED  BY <1>1, <1>2, <2>1, <2>2, FitsStays
<1>8. CASE Crash
  <2>1. UNCHANGED <<page, made>> /\ phase' = "none"
    BY <1>8 DEF Crash, Unloaded
  <2> QED  BY <1>1, <1>2, <2>1, FitsStays
<1>9. CASE Acknowledge
  <2>1. /\ queue # <<>> /\ queue' = Tail(queue)
        /\ UNCHANGED <<page, made, dropped>> /\ phase' \in {phase, "closed"} /\ phase # "none"
    BY <1>9 DEF Acknowledge, SendEnds, IInv, Single, Paged
  <2>2. Len(queue') < Len(queue)
    BY <1>3, <2>1, HeadTailProperties
  <2>3. phase' \in {"live", "flushing"} /\ ~dropped' => Len(queue') < Reserve
    <3>1. Len(queue') \in Nat
      BY <1>2 DEF TypedClient
    <3> QED  BY <1>3, <2>1, <2>2, <3>1 DEF Fits
  <2> QED  BY <1>1, <1>2, <2>1, <2>3, FitsStays
<1>10. CASE Load
  <2>1. PICK kept \in {storage, <<>>} :
          LET ready == IF Full(kept) THEN <<>> ELSE <<"ready">>
              q == Restored(kept) \o Numbered(page', ready)
          IN  /\ queue' = q
              /\ made' = [made EXCEPT ![page'] = ready]
    BY <1>10 DEF Load
  <2>2. Len(kept) + 2 <= Reserve /\ kept \in Seq(Envelopes) /\ Len(kept) \in Nat
    <3>1. CASE kept = storage
      BY <1>3, <3>1 DEF Light
    <3>2. CASE kept = <<>>
      <4>1. <<>> \in Seq(Envelopes) /\ Len(<<>>) = 0
        OBVIOUS
      <4> QED  BY <1>3, <3>2, <4>1 DEF Light
    <3> QED  BY <2>1, <3>1, <3>2
  <2>3. ~Full(kept)
    BY <1>3, <2>2 DEF Full
  <2>4. page' \in Page
    <3>1. page' = page + 1 /\ page < Pages /\ page \in Nat /\ Pages \in Nat
      BY <1>10, TransportAssumption DEF Load, IInv, TypedClient
    <3> QED  BY <3>1 DEF Page
  <2>5. made'[page'] = <<"ready">> /\ \A c \in Page \ {page'} : made'[c] = made[c]
    BY <1>3, <2>1, <2>3, <2>4
  <2>6. Len(queue') = Len(kept) + 1
    <3>1. /\ DOMAIN <<"ready">> = 1 .. 1
          /\ Len(made[page']) \in Nat
      BY <1>3, <2>4
    <3> DEFINE first == [client |-> page', sequence |-> Len(made[page']) + 1, kind |-> "ready"]
    <3>2. Numbered(page', <<"ready">>) = [n \in 1 .. 1 |-> first]
      BY <3>1 DEF Numbered
    <3>3. [n \in 1 .. 1 |-> first] = <<first>>
      OBVIOUS
    <3>4. first \in Envelopes
      BY <2>4, <3>1 DEF Envelopes, Reportable, Lifecycle
    <3> HIDE DEF first
    <3>5. queue' = kept \o <<first>>
      BY <2>1, <2>3, <3>2, <3>3 DEF Restored
    <3>6. queue' = Append(kept, first)
      BY <2>2, <3>4, <3>5, AppendIsConcat
    <3> QED  BY <2>2, <3>4, <3>6, AppendProperties
  <2>7. Len(queue') < Reserve
    BY <1>3, <2>2, <2>6
  <2>8. RoomToAnnounce'
    <3>1. made'[page'][1] = "ready"
      BY <2>5
    <3> QED  BY <2>5, <3>1 DEF Fits, RoomToAnnounce
  <2>9. made'[page'] # <<>>
    BY <2>5
  <2> QED  BY <2>7, <2>8, <2>9 DEF Fits
<1>11. CASE StopEvent \/ Refused \/ Timeout \/ RetryFires \/ Connect
  <2>1. /\ UNCHANGED <<page, made, storage, dropped, queue>>
        /\ phase' # phase => phase' = "closed" \/ (phase = "live" /\ phase' = "flushing")
    BY <1>11 DEF StopEvent, Refused, Timeout, RetryFires, Connect, SendEnds
  <2>2. phase' # "none" => phase # "none"
    BY <1>11 DEF StopEvent, Refused, Timeout, RetryFires, Connect, SendEnds
  <2> QED  BY <1>4, <2>1, <2>2
<1>12. CASE Collector \/ \E c \in Page : Handle(c)
  BY <1>4, <1>12, CollectorKeepsPage DEF clientVars
<1>13. CASE UNCHANGED vars
  BY <1>4, <1>13 DEF vars
<1> QED
  BY <1>5, <1>6, <1>7, <1>8, <1>9, <1>10, <1>11, <1>12, <1>13 DEF Next, Client

(* As long as sessionStorage never holds so much that a page that takes it  *)
(* over has no two places left (1022 envelopes in the code), there is room, *)
(* and the transport implements the log.                                    *)
THEOREM ImplementsWhileLight == Spec /\ []Light => ImplementsLog
<1>1. Init => Fits
  <2>1. Reserve \in Nat /\ Len(<<>>) = 0
    BY TransportAssumption
  <2> QED  BY <2>1 DEF Init, Fits, RoomToAnnounce
<1>2. IInv /\ Fits /\ Light /\ [Next]_vars => Fits'
  BY FitsPreserved
<1>3. IInv /\ Fits => Room
  BY TransportAssumption DEF IInv, TypedClient, Fits, Room, RoomToOwnUp, Full
<1>4. Spec /\ []Light => []Room
  BY <1>1, <1>2, <1>3, Inductive, PTL DEF Spec
<1> QED  BY <1>4, ImplementsWithRoom, PTL
=============================================================================
