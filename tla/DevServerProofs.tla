---------------------------- MODULE DevServerProofs ----------------------------
(***************************************************************************)
(* Proofs about the recording in the Vite server of DevServer, for any     *)
(* modules, any number of starts, edits and faults, and any versions of    *)
(* the configuration with adapters.                                        *)
(***************************************************************************)
EXTENDS DevServer, TLAPS

-----------------------------------------------------------------------------
(* The strengthening: its vocabulary                                        *)

(* A start that has not begun to record, and one that is to configure the   *)
(* runtime of the recording it began.                                       *)
Preparing == {"configuring", "closing", "analyzing", "storing"}
ToConfigure == At("checkpointing") \/ (At("loading") /\ start.generation = generation)

(* An update nothing has overtaken. *)
Live(u) == u.generation = generation

(* The changes of the configuration the watcher has reported.               *)
Reported == disk - events["configuration"]

Starts == [at : Preparing \cup {"idle", "checkpointing", "loading", "failing"},
           since : Nat, generation : Nat]
Updates == [at : {"configuring", "analyzing", "loading"}, kind : Edits,
            since : Nat, generation : Nat, client : Nat]
Transforms == [asked : BOOLEAN, generation : Nat, client : Nat, valid : BOOLEAN]
Clients == [id : Nat, status : {"open", "closed", "failed"}]

Typed ==
  /\ disk \in Nat /\ generation \in Nat /\ configuration \in Nat
  /\ events \in [Edits -> Nat]
  /\ recording \in BOOLEAN /\ hostClosed \in BOOLEAN
  /\ missed \in BOOLEAN /\ failed \in BOOLEAN
  /\ start \in Starts /\ updates \subseteq Updates /\ client \in Clients
  /\ stop \in {"idle", "flushing", "persisting", "closing", "failed"}
  /\ transform \in [Modules -> Transforms] /\ cache \in [Modules -> Int]
  /\ instrumented \subseteq Modules

(* Which of the operations can be under way together.                       *)
Placed ==
  /\ recording => stop = "idle" /\ ~hostClosed /\ generation > 0
  /\ start.at \in Preparing => ~recording /\ stop = "idle"
  /\ start.generation <= generation
  /\ \A u \in updates :
       /\ u.generation <= generation
       /\ Live(u) => recording \/ stop \in {"flushing", "persisting", "failed"}
  /\ \A u, v \in updates : u.generation = v.generation => u = v

(* What reads the configuration has not begun before the one in use was read. *)
Forward ==
  /\ configuration <= disk
  /\ start.since <= disk
  /\ At("configuring") => configuration <= start.since
  /\ \A u \in updates :
       /\ u.since <= disk
       /\ Live(u) /\ u.at = "configuring" => configuration <= u.since

(* Only modules known as instrumented are served instrumented.              *)
Served ==
  ~hostClosed =>
    \A m \in Modules :
      /\ cache[m] \in {Absent, Plain} \/ m \in instrumented
      /\ recording => cache[m] \in {Absent, Plain, generation}
      /\ ~recording /\ stop \in {"idle", "closing"} => cache[m] \in {Absent, Plain}

TakenDown == ~recording /\ stop # "flushing" => runtime = Unconfigured

(* What is under way for the current generation has read, or will read,     *)
(* every change that was reported.                                          *)
Abreast ==
  /\ ~hostClosed /\ ~missed =>
       /\ At("configuring") => start.since >= Reported
       /\ start.at \in Preparing \ {"configuring"} => configuration >= Reported
  /\ recording /\ At("loading") /\ start.generation = generation => start.since >= Reported
  /\ recording =>
       \A u \in updates :
         Live(u) => /\ u.at \in {"configuring", "loading"} => u.since >= Reported
                    /\ u.at \in {"analyzing", "loading"} => configuration >= Reported

(* Nothing is in the cache, or on its way there, that was not instrumented. *)
NonePlain ==
  \A m \in Modules :
    /\ cache[m] # Plain
    /\ transform[m].valid => transform[m].asked /\ transform[m].generation = generation

(* Where nothing was missed and nothing failed, what is not current has     *)
(* somebody who will see to it.                                             *)
Attended ==
  /\ recording /\ ~missed /\ ~failed =>
       /\ \/ configuration >= Reported
          \/ \E u \in updates : Live(u) /\ u.at = "configuring"
       /\ \/ \E v \in Reported .. disk : runtime = Configured(v)
          \/ \E u \in updates : Live(u)
          \/ ToConfigure
       /\ \/ NonePlain
          \/ \E u \in updates : Live(u) /\ u.at \in {"configuring", "analyzing"}
  /\ recording => \A u \in updates : Live(u) /\ u.at = "loading" => NonePlain

IInv == Typed /\ Placed /\ Forward /\ Served /\ TakenDown /\ Abreast /\ Attended
-----------------------------------------------------------------------------
(* What the helpers of the model do                                         *)

(* Invalidate takes modules out of the cache and puts none in, and no       *)
(* transform becomes valid by it.                                           *)
LEMMA Invalidated ==
  ASSUME NEW ms, cache \in [Modules -> Int], transform \in [Modules -> Transforms], Invalidate(ms)
  PROVE  /\ cache' \in [Modules -> Int]
         /\ transform' \in [Modules -> Transforms]
         /\ \A m \in Modules : cache'[m] = IF m \in ms THEN Absent ELSE cache[m]
         /\ \A m \in Modules :
              /\ transform'[m].valid = (transform[m].valid /\ m \notin ms)
              /\ transform'[m].asked = transform[m].asked
              /\ transform'[m].generation = transform[m].generation
<1>1. cache' \in [Modules -> Int]
  BY DEF Invalidate, Absent
<1>2. transform' \in [Modules -> Transforms]
  BY DEF Invalidate, Transforms
<1>3. \A m \in Modules : cache'[m] = IF m \in ms THEN Absent ELSE cache[m]
  BY DEF Invalidate
<1>4. \A m \in Modules :
        /\ transform'[m].valid = (transform[m].valid /\ m \notin ms)
        /\ transform'[m].asked = transform[m].asked
        /\ transform'[m].generation = transform[m].generation
  BY DEF Invalidate, Transforms
<1> QED  BY <1>1, <1>2, <1>3, <1>4

(* After it has invalidated everything, nothing is in the cache or on its   *)
(* way there.                                                               *)
LEMMA AllInvalidated ==
  ASSUME cache \in [Modules -> Int], transform \in [Modules -> Transforms], Invalidate(Modules)
  PROVE  NonePlain' /\ \A m \in Modules : cache'[m] = Absent
<1>1. \A m \in Modules : cache'[m] = Absent /\ ~transform'[m].valid
  BY Invalidated
<1>2. Absent # Plain
  BY DEF Absent, Plain
<1> QED  BY <1>1, <1>2 DEF NonePlain

(* Closing a client leaves a client. *)
LEMMA ClosedTyped ==
  ASSUME client \in Clients
  PROVE  Closed \in Clients
BY DEF Closed, Clients

(* While nothing is recorded or prepared, nothing is demanded of what is    *)
(* under way.                                                               *)
LEMMA NothingDemanded ==
  ASSUME ~recording', start'.at \notin Preparing \/ hostClosed'
  PROVE  Abreast' /\ Attended'
BY DEF Abreast, Attended, At, Preparing

(* A start begins when nothing is recorded and no stop is under way. *)
LEMMA StartPreserves ==
  ASSUME IInv, Start
  PROVE  IInv'
<1> USE ServerAssumption
<1>1. Typed'
  BY DEF IInv, Start, NoStart, Typed, Starts, Preparing, changeVars, flagVars, moduleVars
<1>2. Placed'
  BY DEF IInv, Start, stopping, NoStart, Typed, Placed, Live, flagVars
<1>3. Forward'
  BY DEF IInv, Start, Typed, Forward, Live, changeVars
<1>4. Served'
  BY DEF IInv, Start, stopping, Served, moduleVars
<1>5. TakenDown'
  BY DEF IInv, Start, TakenDown
<1>6. Abreast'
  BY DEF IInv, Start, stopping, Typed, Placed, Abreast, Live, Reported, changeVars, Edits
<1>7. Attended'
  BY DEF Start, Attended, flagVars
<1> QED  BY <1>1, <1>2, <1>3, <1>4, <1>5, <1>6, <1>7 DEF IInv

(* The start takes the configuration it read, which no later one precedes. *)
LEMMA StartConfiguredPreserves ==
  ASSUME IInv, StartConfigured
  PROVE  IInv'
<1> USE ServerAssumption
<1>1. Typed'
  BY DEF IInv, StartConfigured, StartFails, GoTo, NoStart, Closed, Read, Typed, Starts, Clients,
     Preparing, changeVars, flagVars, moduleVars
<1>2. Placed'
  BY DEF IInv, StartConfigured, StartFails, GoTo, At, NoStart, Typed, Starts, Placed, Live,
     flagVars
<1>3. Forward'
  BY DEF IInv, StartConfigured, StartFails, GoTo, At, NoStart, Read, Typed, Starts, Forward,
     Placed, Live, changeVars
<1>4. Served'
  BY DEF IInv, StartConfigured, Served, flagVars, moduleVars
<1>5. TakenDown'
  BY DEF IInv, StartConfigured, TakenDown, flagVars
<1>6. Abreast'
  BY DEF IInv, StartConfigured, StartFails, GoTo, At, NoStart, Read, Typed, Starts, Placed,
     Abreast, Live, Reported, Preparing, changeVars, Edits
<1>7. Attended'
  BY DEF IInv, StartConfigured, At, Placed, Attended, Preparing, flagVars
<1> QED  BY <1>1, <1>2, <1>3, <1>4, <1>5, <1>6, <1>7 DEF IInv

(* With the old client closed, the start opens its own and asks for the analysis. *)
LEMMA StartClosedPreserves ==
  ASSUME IInv, StartClosed
  PROVE  IInv'
<1> USE ServerAssumption
<1>1. Typed'
  BY DEF IInv, StartClosed, StartFails, GoTo, NoStart, Closed, Typed, Starts, Clients,
     Preparing, changeVars, flagVars, moduleVars
<1>2. Placed'
  BY DEF IInv, StartClosed, StartFails, GoTo, At, NoStart, Typed, Starts, Placed, Live, flagVars
<1>3. Forward'
  BY DEF IInv, StartClosed, StartFails, GoTo, At, NoStart, Typed, Forward, Live, changeVars
<1>4. Served'
  BY DEF IInv, StartClosed, Served, flagVars, moduleVars
<1>5. TakenDown'
  BY DEF IInv, StartClosed, TakenDown, flagVars
<1>6. Abreast'
  BY DEF IInv, StartClosed, StartFails, GoTo, At, NoStart, Placed, Abreast, Live, Reported,
     Preparing, changeVars
<1>7. Attended'
  BY DEF IInv, StartClosed, At, Placed, Attended, Preparing, flagVars
<1> QED  BY <1>1, <1>2, <1>3, <1>4, <1>5, <1>6, <1>7 DEF IInv

(* With the analysis answered, the start goes on to the store; or it fails. *)
LEMMA StartAnalyzedPreserves ==
  ASSUME IInv, StartAnalyzed
  PROVE  IInv'
<1> USE ServerAssumption
<1>1. Typed'
  BY DEF IInv, StartAnalyzed, StartFails, GoTo, NoStart, Closed, Typed, Starts, Clients,
     Preparing, changeVars, flagVars, moduleVars
<1>2. Placed'
  BY DEF IInv, StartAnalyzed, StartFails, GoTo, At, NoStart, Typed, Starts, Placed, Live,
     flagVars
<1>3. Forward'
  BY DEF IInv, StartAnalyzed, StartFails, GoTo, At, NoStart, Typed, Forward, Live, changeVars
<1>4. Served'
  BY DEF IInv, StartAnalyzed, Served, flagVars, moduleVars
<1>5. TakenDown'
  BY DEF IInv, StartAnalyzed, TakenDown, flagVars
<1>6. Abreast'
  BY DEF IInv, StartAnalyzed, StartFails, GoTo, At, NoStart, Placed, Abreast, Live, Reported,
     Preparing, changeVars
<1>7. Attended'
  BY DEF IInv, StartAnalyzed, At, Placed, Attended, Preparing, flagVars
<1> QED  BY <1>1, <1>2, <1>3, <1>4, <1>5, <1>6, <1>7 DEF IInv

(* The recording begins: a new generation, and nothing in the cache that is not of it. *)
LEMMA StartStoredPreserves ==
  ASSUME IInv, StartStored
  PROVE  IInv'
<1> USE ServerAssumption
<1>0. cache' \in [Modules -> Int] /\ transform' \in [Modules -> Transforms]
  <2>1. CASE Invalidate(Modules)
    BY <2>1, Invalidated DEF IInv, Typed
  <2>2. CASE UNCHANGED <<cache, transform>>
    BY <2>2 DEF IInv, Typed
  <2> QED  BY <2>1, <2>2 DEF StartStored, InvalidateAll
<1>1. Typed'
  <2>1. start' \in Starts
    BY DEF StartStored, StartFails, GoTo, NoStart, Starts
  <2>2. client' \in Clients
    <3>1. client \in Clients /\ Closed \in Clients
      BY ClosedTyped DEF IInv, Typed
    <3>2. client' = client \/ client' = Closed
      BY DEF StartStored, StartFails
    <3> QED  BY <3>1, <3>2
  <2>3. UNCHANGED <<disk, events, hostClosed, configuration, updates, stop, instrumented, missed>>
    BY DEF StartStored, changeVars
  <2>4. generation' \in Nat
    BY DEF IInv, Typed, StartStored, InvalidateAll
  <2>5. recording' \in BOOLEAN /\ failed' \in BOOLEAN
    BY DEF IInv, Typed, StartStored, StartFails
  <2> QED  BY <1>0, <2>1, <2>2, <2>3, <2>4, <2>5 DEF IInv, Typed
<1>2. Placed'
  BY DEF IInv, StartStored, StartFails, GoTo, At, NoStart, InvalidateAll, HostOpen, Typed,
     Updates, Placed, Live, Preparing
<1>3. Forward'
  BY DEF IInv, StartStored, StartFails, GoTo, At, NoStart, InvalidateAll, Typed, Forward,
     Placed, Live, changeVars
<1>4. Served'
  BY Invalidated DEF IInv, StartStored, InvalidateAll, Typed, Served
<1>5. TakenDown'
  BY DEF IInv, StartStored, TakenDown
<1>6. Abreast'
  BY DEF IInv, StartStored, StartFails, GoTo, At, NoStart, InvalidateAll, Typed, Placed,
     Abreast, Live, Preparing
<1>7. Attended'
  BY AllInvalidated DEF IInv, StartStored, GoTo, At, NoStart, InvalidateAll, HostOpen, Typed,
     Placed, Abreast, Attended, Reported, ToConfigure, Preparing, changeVars
<1> QED  BY <1>1, <1>2, <1>3, <1>4, <1>5, <1>6, <1>7 DEF IInv

(* The start loads the adapters, or configures the runtime at once. *)
LEMMA StartCheckpointedPreserves ==
  ASSUME IInv, StartCheckpointed
  PROVE  IInv'
<1> USE ServerAssumption
<1>1. Typed'
  BY DEF IInv, StartCheckpointed, StartFails, GoTo, NoStart, Closed, StartSucceeds, Typed,
     Starts, Clients, changeVars, flagVars, moduleVars
<1>2. Placed'
  BY DEF IInv, StartCheckpointed, StartFails, GoTo, NoStart, StartSucceeds, Typed, Placed, Live,
     Preparing, flagVars
<1>3. Forward'
  BY DEF IInv, StartCheckpointed, StartFails, GoTo, At, NoStart, StartSucceeds, Typed, Forward,
     Live, changeVars
<1>4. Served'
  BY DEF IInv, StartCheckpointed, Served, flagVars, moduleVars
<1>5. TakenDown'
  BY DEF IInv, StartCheckpointed, TakenDown, flagVars
<1>6. Abreast'
  BY DEF IInv, StartCheckpointed, StartFails, GoTo, At, NoStart, StartSucceeds, Typed, Abreast,
     Live, Reported, Preparing, changeVars, flagVars, Edits
<1>7. Attended'
  BY DEF IInv, StartCheckpointed, StartFails, At, StartSucceeds, Configured, Typed, Forward,
     Attended, Live, Reported, ToConfigure, NonePlain, changeVars, flagVars, moduleVars
<1> QED  BY <1>1, <1>2, <1>3, <1>4, <1>5, <1>6, <1>7 DEF IInv

(* The start configures the runtime with the adapters it loaded. *)
LEMMA StartLoadedPreserves ==
  ASSUME IInv, StartLoaded
  PROVE  IInv'
<1> USE ServerAssumption
<1>0. cache' \in [Modules -> Int] /\ transform' \in [Modules -> Transforms]
  <2>1. CASE Invalidate(Modules)
    BY <2>1, Invalidated DEF IInv, Typed
  <2>2. CASE UNCHANGED <<cache, transform>>
    BY <2>2 DEF IInv, Typed
  <2> QED  BY <2>1, <2>2 DEF StartLoaded, StartUndone, InvalidateAll
<1>1. Typed'
  <2>1. start' \in Starts
    BY DEF StartLoaded, StartUndone, StartSucceeds, GoTo, NoStart, Starts
  <2>2. client' \in Clients
    <3>1. client \in Clients /\ Closed \in Clients
      BY ClosedTyped DEF IInv, Typed
    <3>2. client' = client \/ client' = Closed
      BY DEF StartLoaded, StartUndone, StartSucceeds
    <3> QED  BY <3>1, <3>2
  <2>3. UNCHANGED <<disk, events, hostClosed, configuration, updates, stop, instrumented, missed>>
    BY DEF StartLoaded, changeVars
  <2>4. generation' \in Nat
    BY DEF IInv, Typed, StartLoaded, StartUndone, InvalidateAll
  <2>5. recording' \in BOOLEAN /\ failed' \in BOOLEAN
    BY DEF IInv, Typed, StartLoaded, StartUndone, StartSucceeds
  <2> QED  BY <1>0, <2>1, <2>2, <2>3, <2>4, <2>5 DEF IInv, Typed
<1>2. Placed'
  BY DEF IInv, StartLoaded, StartUndone, GoTo, NoStart, StartSucceeds, InvalidateAll, Typed,
     Updates, Placed, Live, Preparing
<1>3. Forward'
  BY DEF IInv, StartLoaded, StartUndone, GoTo, At, NoStart, StartSucceeds, InvalidateAll, Typed,
     Forward, Placed, Live, changeVars
<1>4. Served'
  BY Invalidated DEF IInv, StartLoaded, StartUndone, InvalidateAll, Typed, Served
<1>5. TakenDown'
  BY DEF IInv, StartLoaded, StartUndone, Current, TakenDown
<1>6. Abreast'
  BY DEF IInv, StartLoaded, StartUndone, GoTo, At, NoStart, StartSucceeds, Abreast, Live,
     Reported, Preparing, changeVars
<1>7. Attended'
  BY DEF IInv, StartLoaded, StartUndone, At, StartSucceeds, Configured, Current, Read, Typed,
     Abreast, Attended, Live, Reported, ToConfigure, NonePlain, Starts, Edits, changeVars
<1> QED  BY <1>1, <1>2, <1>3, <1>4, <1>5, <1>6, <1>7 DEF IInv

(* A start that fails gives up what it has opened. *)
LEMMA StartFailedPreserves ==
  ASSUME IInv, StartFailed
  PROVE  IInv'
<1> USE ServerAssumption
<1>1. Typed'
  BY DEF IInv, StartFailed, NoStart, Typed, Starts, changeVars, flagVars, moduleVars,
     historyVars
<1>2. Placed'
  BY DEF IInv, StartFailed, NoStart, Typed, Placed, Live, Preparing, flagVars
<1>3. Forward'
  BY DEF IInv, StartFailed, At, NoStart, Typed, Forward, Live, changeVars
<1>4. Served'
  BY DEF IInv, StartFailed, Served, flagVars, moduleVars
<1>5. TakenDown'
  BY DEF IInv, StartFailed, TakenDown, flagVars
<1>6. Abreast'
  BY DEF IInv, StartFailed, At, NoStart, Abreast, Live, Reported, Preparing, changeVars,
     flagVars
<1>7. Attended'
  BY DEF IInv, StartFailed, At, Attended, Live, Reported, ToConfigure, NonePlain, Configured,
     changeVars, flagVars, moduleVars, historyVars
<1> QED  BY <1>1, <1>2, <1>3, <1>4, <1>5, <1>6, <1>7 DEF IInv

(* A stop begins with the flush; what is served stays what it was. *)
LEMMA StopPreserves ==
  ASSUME IInv, Stop
  PROVE  IInv'
<1> USE ServerAssumption
<1>1. Typed'
  BY DEF IInv, Stop, Typed, changeVars, moduleVars, historyVars
<1>2. Placed'
  BY DEF IInv, Stop, Placed
<1>3. Forward'
  BY DEF IInv, Stop, Forward, Live, At, changeVars
<1>4. Served'
  BY DEF IInv, Stop, Served, moduleVars
<1>5. TakenDown'
  BY DEF Stop, TakenDown
<1>6. Abreast'
  BY DEF IInv, Stop, Typed, Starts, Placed, Abreast, At
<1>7. Attended'
  BY DEF Stop, Attended
<1> QED  BY <1>1, <1>2, <1>3, <1>4, <1>5, <1>6, <1>7 DEF IInv

(* After the flush the runtime is taken down. *)
LEMMA StopFlushedPreserves ==
  ASSUME IInv, StopFlushed
  PROVE  IInv'
<1> USE ServerAssumption
<1>1. Typed'
  BY DEF IInv, StopFlushed, Typed, changeVars, moduleVars, historyVars
<1>2. Placed'
  BY DEF IInv, StopFlushed, Placed
<1>3. Forward'
  BY DEF IInv, StopFlushed, Forward, Live, At, changeVars
<1>4. Served'
  BY DEF IInv, StopFlushed, Served, moduleVars
<1>5. TakenDown'
  BY DEF StopFlushed, TakenDown
<1>6. Abreast'
  BY DEF IInv, StopFlushed, Typed, Starts, Placed, Abreast, At
<1>7. Attended'
  BY DEF IInv, StopFlushed, Placed, Attended
<1> QED  BY <1>1, <1>2, <1>3, <1>4, <1>5, <1>6, <1>7 DEF IInv

(* After the persistence nothing instrumented is left in the cache, or the stop has failed. *)
LEMMA StopPersistedPreserves ==
  ASSUME IInv, StopPersisted
  PROVE  IInv'
<1> USE ServerAssumption
<1>1. Typed'
  BY Invalidated DEF IInv, StopPersisted, InvalidateAll, Closed, Typed, Clients, changeVars,
     flagVars, historyVars
<1>2. Placed'
  BY DEF IInv, StopPersisted, InvalidateAll, Typed, Starts, Updates, Placed, Live, flagVars
<1>3. Forward'
  BY DEF IInv, StopPersisted, InvalidateAll, Typed, Forward, Placed, Live, At, changeVars
<1>4. Served'
  BY Invalidated DEF IInv, StopPersisted, InvalidateAll, Typed, Served, flagVars
<1>5. TakenDown'
  BY DEF IInv, StopPersisted, Placed, TakenDown
<1>6. Abreast'
  BY DEF IInv, StopPersisted, Typed, Starts, Placed, Abreast, At, flagVars
<1>7. Attended'
  BY DEF IInv, StopPersisted, Placed, Attended, flagVars
<1> QED  BY <1>1, <1>2, <1>3, <1>4, <1>5, <1>6, <1>7 DEF IInv

(* The stop ends with its client closed. *)
LEMMA StopClosedPreserves ==
  ASSUME IInv, StopClosed
  PROVE  IInv'
<1> USE ServerAssumption
<1>1. Typed'
  BY DEF IInv, StopClosed, Typed, changeVars, flagVars, moduleVars, historyVars
<1>2. Placed'
  BY DEF IInv, StopClosed, Placed, Live, flagVars
<1>3. Forward'
  BY DEF IInv, StopClosed, Forward, Live, At, changeVars
<1>4. Served'
  BY DEF IInv, StopClosed, Served, flagVars, moduleVars
<1>5. TakenDown'
  BY DEF IInv, StopClosed, Placed, TakenDown
<1>6. Abreast'
  BY DEF IInv, StopClosed, Typed, Starts, Placed, Abreast, At, flagVars
<1>7. Attended'
  BY DEF IInv, StopClosed, Placed, Attended, flagVars
<1> QED  BY <1>1, <1>2, <1>3, <1>4, <1>5, <1>6, <1>7 DEF IInv

(* A change of the disk is reported later, and what reads later reads it. *)
LEMMA EditPreserves ==
  ASSUME IInv, NEW kind \in Edits, Edit(kind)
  PROVE  IInv'
<1> USE ServerAssumption
<1>1. Typed'
  BY DEF IInv, Edit, Typed, flagVars, moduleVars, historyVars
<1>2. Placed'
  BY DEF IInv, Edit, Placed, Live, flagVars
<1>3. Forward'
  BY DEF IInv, Edit, Typed, Starts, Updates, Forward, Live, At
<1>4. Served'
  BY DEF IInv, Edit, Served, flagVars, moduleVars
<1>5. TakenDown'
  BY DEF IInv, Edit, TakenDown, flagVars
<1>6. Abreast'
  BY DEF IInv, Edit, Typed, Abreast, Live, Reported, At, flagVars, historyVars
<1>7. Attended'
  BY DEF IInv, Edit, Typed, Attended, Live, Reported, ToConfigure, NonePlain, At, Configured,
     flagVars, moduleVars, historyVars
<1> QED  BY <1>1, <1>2, <1>3, <1>4, <1>5, <1>6, <1>7 DEF IInv

(* A report outside a recording is let go, and missed if a start is under way. *)
LEMMA IgnorePreserves ==
  ASSUME IInv, NEW kind \in Edits, Ignore(kind)
  PROVE  IInv'
<1> USE ServerAssumption
<1>1. Typed'
  BY DEF IInv, Ignore, Typed, changeVars, flagVars, moduleVars
<1>2. Placed'
  BY DEF IInv, Ignore, Placed, Live, flagVars
<1>3. Forward'
  BY DEF IInv, Ignore, At, Forward, Live, changeVars
<1>4. Served'
  BY DEF IInv, Ignore, Served, flagVars, moduleVars
<1>5. TakenDown'
  BY DEF IInv, Ignore, TakenDown
<1>6. Abreast'
  BY DEF IInv, Ignore, Edits, At, Typed, Abreast, Reported, Preparing, changeVars, flagVars
<1>7. Attended'
  BY DEF Ignore, Attended, flagVars
<1> QED  BY <1>1, <1>2, <1>3, <1>4, <1>5, <1>6, <1>7 DEF IInv

(* A report of a dependency invalidates everything; what that overtakes is missed. *)
LEMMA DependencyChangePreserves ==
  ASSUME IInv, NEW kind \in Edits, DependencyChange(kind)
  PROVE  IInv'
<1> USE ServerAssumption
<1>1. Typed'
  BY Invalidated DEF IInv, DependencyChange, InvalidateAll, Typed, changeVars, flagVars
<1>2. Placed'
  BY DEF IInv, DependencyChange, InvalidateAll, Typed, Starts, Updates, Placed, flagVars
<1>3. Forward'
  BY DEF IInv, DependencyChange, InvalidateAll, At, Typed, Forward, Placed, Live, changeVars
<1>4. Served'
  BY Invalidated DEF IInv, DependencyChange, InvalidateAll, Typed, Served
<1>5. TakenDown'
  BY DEF DependencyChange, TakenDown, flagVars
<1>6. Abreast'
  BY DEF IInv, DependencyChange, InvalidateAll, At, Typed, Starts, Placed, Abreast, Live
<1>7. Attended'
  BY AllInvalidated DEF IInv, DependencyChange, InvalidateAll, Edits, At, Typed, Attended, Live,
     Reported, ToConfigure, Configured, changeVars
<1> QED  BY <1>1, <1>2, <1>3, <1>4, <1>5, <1>6, <1>7 DEF IInv

(* A hot update takes a new generation: no other update is live any more. *)
LEMMA HotUpdatePreserves ==
  ASSUME IInv, NEW kind \in Edits, NEW edited \in SUBSET Modules, HotUpdate(kind, edited)
  PROVE  IInv'
<1> USE ServerAssumption
<1>1. Typed'
  BY Invalidated DEF IInv, HotUpdate, Typed, Updates, changeVars, flagVars, historyVars
<1>2. Placed'
  BY DEF IInv, HotUpdate, Typed, Starts, Updates, Placed, flagVars
<1>3. Forward'
  BY DEF IInv, HotUpdate, Typed, Forward, Placed, Live, At, changeVars
<1>4. Served'
  BY Invalidated DEF IInv, HotUpdate, Typed, Placed, Served
<1>5. TakenDown'
  BY DEF HotUpdate, TakenDown, flagVars
<1>6. Abreast'
  BY DEF IInv, HotUpdate, Edits, Typed, Starts, Placed, Abreast, Live, Reported, At, changeVars
<1>7. Attended'
  <2> DEFINE next == [at |-> "configuring", kind |-> kind, since |-> disk,
                      generation |-> generation', client |-> 0]
  <2> HIDE DEF next
  <2>1. updates' = updates \cup {next}
    BY DEF HotUpdate, next
  <2>2. next.generation = generation' /\ next.at = "configuring"
    BY DEF next
  <2>3. \A u \in updates : u.generation # generation'
    BY DEF IInv, Typed, Placed, HotUpdate
  <2>4. next \in updates' /\ next.generation = generation'
    BY <2>1, <2>2
  <2>5. \A u \in updates' : u.generation = generation' => u = next
    BY <2>1, <2>3
  <2> QED  BY <2>2, <2>4, <2>5 DEF Attended, Live
<1> QED  BY <1>1, <1>2, <1>3, <1>4, <1>5, <1>6, <1>7 DEF IInv

(* An update that has ended, for the current generation only after it       *)
(* failed or the recording ended, leaves things as they were.               *)
LEMMA UpdateEnded ==
  ASSUME IInv, NEW u \in updates, UpdateEnds(u),
         UNCHANGED <<disk, events, generation, recording, hostClosed, session, configuration,
                     runtime, start, stop, transform, cache, instrumented, missed, client>>,
         failed' \in BOOLEAN, failed => failed', Current(u.generation) => failed'
  PROVE  IInv'
<1>1. Typed' /\ Placed' /\ Forward' /\ Served' /\ TakenDown'
  BY DEF IInv, Typed, Placed, Live, Forward, At, Served, TakenDown, UpdateEnds
<1>2. Abreast'
  BY DEF IInv, Abreast, Reported, At, Live, UpdateEnds
<1>3. Attended'
  <2>1. SUFFICES ASSUME recording
                 PROVE  Attended'
    BY DEF Attended
  <2>2. ~failed' => ~Live(u)
    BY <2>1 DEF Current, Live
  <2> QED  BY <2>2 DEF IInv, Attended, Live, Reported, ToConfigure, NonePlain, At, Configured,
              UpdateEnds
<1> QED  BY <1>1, <1>2, <1>3 DEF IInv

(* A live update that goes on has the others dead beside it.                *)
LEMMA UpdateGoesOn ==
  ASSUME IInv, NEW u \in updates, NEW next \in Updates, Live(u), recording,
         UpdateIs(u, next), next.generation = u.generation, generation' = generation
  PROVE  /\ next \in updates' /\ Live(next)'
         /\ updates' \subseteq Updates
         /\ \A v \in updates' : v = next \/ v \in updates
         /\ \A v \in updates' : Live(v)' => v = next
         /\ \A v, w \in updates' : v.generation = w.generation => v = w
BY DEF IInv, Typed, Placed, Live, UpdateIs

(* A live update installs the configuration it read, and invalidates what that changes. *)
LEMMA UpdateConfiguredPreserves ==
  ASSUME IInv, NEW u \in updates, UpdateConfigured(u)
  PROVE  IInv'
<1>1. u \in Updates /\ u.at = "configuring"
  BY DEF IInv, Typed, UpdateConfigured
<1>2. UNCHANGED <<disk, events, generation, recording, accepting, hostClosed, session, runtime,
                  start, stop, client, instrumented, missed>>
  BY DEF UpdateConfigured, changeVars, flagVars
<1>3. CASE /\ ~Current(u.generation)
           /\ UpdateEnds(u)
           /\ UNCHANGED <<configuration, cache, transform, failed>>
  BY <1>2, <1>3, UpdateEnded DEF IInv, Typed
<1>4. CASE /\ UpdateFails(u)
           /\ UNCHANGED <<configuration, cache, transform>>
  <2>1. failed' \in BOOLEAN /\ (failed => failed') /\ (Current(u.generation) => failed')
    BY <1>4 DEF UpdateFails
  <2> QED  BY <1>2, <1>4, UpdateEnded DEF UpdateFails
<1>5. ASSUME Current(u.generation),
             NEW version \in Read(u.since), configuration' = version,
             Invalidate(Modules) \/ UNCHANGED <<cache, transform>>,
             UpdateIs(u, Moved(u, "analyzing", 0, Ask)),
             UNCHANGED failed
      PROVE  IInv'
  <2>1. Moved(u, "analyzing", 0, Ask) \in Updates
    BY DEF IInv, Typed, Clients, Ask, Refused, Updates, Moved
  <2>2. PICK next \in Updates :
          /\ UpdateIs(u, next)
          /\ next.at = "analyzing" /\ next.generation = u.generation /\ next.since = 0
    BY <1>5, <2>1 DEF Moved
  <2>3. Live(u) /\ recording
    BY <1>5 DEF Current, Live
  <2>4. /\ next \in updates' /\ Live(next)'
        /\ updates' \subseteq Updates
        /\ \A v \in updates' : v = next \/ v \in updates
        /\ \A v \in updates' : Live(v)' => v = next
        /\ \A v, w \in updates' : v.generation = w.generation => v = w
    BY <1>2, <2>2, <2>3, UpdateGoesOn
  <2>5. cache' \in [Modules -> Int] /\ transform' \in [Modules -> Transforms]
    BY <1>5, Invalidated DEF IInv, Typed
  <2>6. /\ version \in Nat /\ configuration <= version /\ version <= disk
        /\ version >= Reported
    BY <1>1, <2>3 DEF IInv, Typed, Forward, Abreast, Read, Reported, Updates, Edits
  <2>7. Typed'
    BY <1>2, <1>5, <2>4, <2>5, <2>6 DEF IInv, Typed
  <2>8. Placed'
    BY <1>2, <2>2, <2>4 DEF IInv, Placed, Live
  <2>9. Forward'
    BY <1>2, <1>5, <2>2, <2>3, <2>4, <2>6 DEF IInv, Typed, Forward, Placed, At, Preparing
  <2>10. Served' /\ TakenDown'
    BY <1>2, <1>5, Invalidated DEF IInv, Typed, Served, TakenDown
  <2>11. Abreast'
    BY <1>2, <1>5, <2>2, <2>4, <2>6 DEF IInv, Abreast, At, Reported
  <2>12. Attended'
    BY <1>2, <1>5, <2>2, <2>4, <2>6 DEF Attended, Reported
  <2> QED  BY <2>7, <2>8, <2>9, <2>10, <2>11, <2>12 DEF IInv
<1> QED  BY <1>3, <1>4, <1>5 DEF UpdateConfigured

(* A live update invalidates the targets, then configures the runtime or loads the adapters. *)
LEMMA UpdateAnalyzedPreserves ==
  ASSUME IInv, NEW u \in updates, UpdateAnalyzed(u)
  PROVE  IInv'
<1>1. u \in Updates /\ u.at = "analyzing"
  BY DEF IInv, Typed, UpdateAnalyzed
<1>2. UNCHANGED <<disk, events, generation, recording, accepting, hostClosed, session, configuration,
                  start, stop, client, instrumented>>
  BY DEF UpdateAnalyzed, changeVars, flagVars
<1>3. CASE /\ ~Current(u.generation)
           /\ UpdateEnds(u)
           /\ UNCHANGED <<cache, transform, runtime, historyVars>>
  BY <1>2, <1>3, UpdateEnded DEF IInv, Typed, historyVars
<1>4. CASE /\ UpdateFails(u)
           /\ UNCHANGED <<cache, transform, runtime, missed>>
  <2>1. failed' \in BOOLEAN /\ (failed => failed') /\ (Current(u.generation) => failed')
    BY <1>4 DEF UpdateFails
  <2> QED  BY <1>2, <1>4, UpdateEnded DEF UpdateFails
<1>5. ASSUME Current(u.generation), Invalidate(Modules)
      PROVE  /\ Live(u) /\ recording
             /\ NonePlain' /\ Served' /\ configuration >= Reported
             /\ cache' \in [Modules -> Int] /\ transform' \in [Modules -> Transforms]
  <2>1. Live(u) /\ recording
    BY <1>5 DEF Current, Live
  <2>2. NonePlain' /\ \A m \in Modules : cache'[m] = Absent
    BY <1>5, AllInvalidated DEF IInv, Typed
  <2>3. Served'
    BY <2>2 DEF Served
  <2>4. configuration >= Reported
    BY <1>1, <2>1 DEF IInv, Abreast
  <2>5. cache' \in [Modules -> Int] /\ transform' \in [Modules -> Transforms]
    BY <1>5, Invalidated DEF IInv, Typed
  <2> QED  BY <2>1, <2>2, <2>3, <2>4, <2>5
<1>6. CASE /\ Current(u.generation) /\ Invalidate(Modules)
           /\ UpdateIs(u, Moved(u, "loading", disk, 0))
           /\ UNCHANGED <<runtime, historyVars>>
  <2>1. Moved(u, "loading", disk, 0) \in Updates
    BY DEF IInv, Typed, Updates, Moved
  <2>2. PICK next \in Updates :
          /\ UpdateIs(u, next)
          /\ next.at = "loading" /\ next.generation = u.generation /\ next.since = disk
    BY <1>6, <2>1 DEF Moved
  <2>3. /\ next \in updates' /\ Live(next)'
        /\ updates' \subseteq Updates
        /\ \A v \in updates' : v = next \/ v \in updates
        /\ \A v \in updates' : Live(v)' => v = next
        /\ \A v, w \in updates' : v.generation = w.generation => v = w
    BY <1>2, <1>5, <1>6, <2>2, UpdateGoesOn
  <2>4. Typed'
    BY <1>2, <1>5, <1>6, <2>3 DEF IInv, Typed, historyVars
  <2>5. Placed'
    BY <1>2, <1>5, <1>6, <2>3 DEF IInv, Placed, Live
  <2>6. Forward'
    BY <1>2, <2>2, <2>3 DEF IInv, Typed, Forward, At
  <2>7. TakenDown'
    BY <1>2, <1>6 DEF IInv, TakenDown
  <2>8. Abreast'
    BY <1>2, <1>5, <1>6, <2>2, <2>3 DEF IInv, Typed, Placed, Abreast, At, Reported, Preparing,
       Edits
  <2>9. Attended'
    BY <1>2, <1>5, <1>6, <2>3 DEF Attended, Reported
  <2> QED  BY <1>5, <1>6, <2>4, <2>5, <2>6, <2>7, <2>8, <2>9 DEF IInv
<1>7. CASE /\ Current(u.generation) /\ Invalidate(Modules)
           /\ UpdateInstalls(u, configuration)
  <2>1. Typed' /\ Placed' /\ Forward' /\ TakenDown'
    BY <1>2, <1>5, <1>7 DEF IInv, Typed, Placed, Forward, TakenDown, Live, At, UpdateInstalls,
       UpdateEnds
  <2>2. Abreast'
    BY <1>2, <1>5, <1>7 DEF IInv, Placed, Abreast, Live, At, Reported, Preparing,
       UpdateInstalls, UpdateEnds
  <2>3. Attended'
    BY <1>2, <1>5, <1>7 DEF IInv, Typed, Forward, Attended, Reported, Configured, UpdateInstalls
  <2> QED  BY <1>5, <1>7, <2>1, <2>2, <2>3 DEF IInv
<1> QED  BY <1>3, <1>4, <1>6, <1>7 DEF UpdateAnalyzed, InvalidateTargets

(* An update that loaded adapters configures the runtime if it is live. *)
LEMMA UpdateLoadedPreserves ==
  ASSUME IInv, NEW u \in updates, UpdateLoaded(u)
  PROVE  IInv'
<1> USE ServerAssumption
<1>1. Typed'
  BY ZenonT(40) DEF IInv, UpdateLoaded, UpdateEnds, UpdateFails, UpdateInstalls, Current, Read,
     Configured, Fault, Typed, Starts, Updates, Transforms, Clients, Preparing, changeVars,
     flagVars, moduleVars, historyVars
<1>2. Placed'
  BY DEF IInv, UpdateLoaded, UpdateEnds, UpdateFails, UpdateInstalls, Placed, Live, flagVars
<1>3. Forward'
  BY DEF IInv, UpdateLoaded, UpdateEnds, UpdateFails, UpdateInstalls, Forward, Live, At,
     changeVars
<1>4. Served'
  BY DEF IInv, UpdateLoaded, Served, flagVars, moduleVars
<1>5. TakenDown'
  BY DEF IInv, UpdateLoaded, Current, TakenDown, flagVars
<1>6. Abreast'
  BY DEF IInv, UpdateLoaded, UpdateEnds, UpdateFails, UpdateInstalls, Current, Typed, Starts,
     Placed, Abreast, Live, Reported, At, changeVars, flagVars, historyVars
<1>7. Attended'
  BY DEF IInv, UpdateLoaded, UpdateEnds, UpdateFails, UpdateInstalls, Current, Read, Configured,
     Typed, Abreast, Attended, Live, Reported, ToConfigure, NonePlain, At, Updates, Edits,
     changeVars, flagVars, moduleVars, historyVars
<1> QED  BY <1>1, <1>2, <1>3, <1>4, <1>5, <1>6, <1>7 DEF IInv

(* A transform asks with the generation it began in. *)
LEMMA TransformPreserves ==
  ASSUME IInv, NEW m \in Modules, Transform(m)
  PROVE  IInv'
<1> USE ServerAssumption
<1>1. Typed'
  <2>0. Ask \in Nat
    BY DEF IInv, Typed, Clients, Ask, Refused
  <2>1. transform' \in [Modules -> Transforms]
    <3>1. [asked |-> TRUE, generation |-> generation, client |-> Ask, valid |-> TRUE] \in Transforms
      BY <2>0 DEF IInv, Typed, Transforms
    <3>2. transform \in [Modules -> Transforms]
      BY DEF IInv, Typed
    <3> QED  BY <3>1, <3>2 DEF Transform
  <2>2. cache' \in [Modules -> Int]
    BY DEF IInv, Typed, Transform, Plain
  <2> QED  BY <2>1, <2>2 DEF IInv, Typed, Transform, changeVars, flagVars, historyVars
<1>2. Placed'
  BY DEF IInv, Transform, Placed, Live, flagVars
<1>3. Forward'
  BY DEF IInv, Transform, Forward, Live, At, changeVars
<1>4. Served'
  BY DEF IInv, Transform, Typed, Served, flagVars
<1>5. TakenDown'
  BY DEF IInv, Transform, TakenDown, flagVars
<1>6. Abreast'
  BY DEF IInv, Transform, Abreast, Live, Reported, At, changeVars, flagVars, historyVars
<1>7. Attended'
  BY DEF IInv, Transform, Typed, Attended, Live, Reported, ToConfigure, NonePlain, At,
     Configured, changeVars, flagVars, historyVars
<1> QED  BY <1>1, <1>2, <1>3, <1>4, <1>5, <1>6, <1>7 DEF IInv

(* What a transform puts in the cache is of the current generation, or plain. *)
LEMMA TransformedPreserves ==
  ASSUME IInv, NEW m \in Modules, Transformed(m)
  PROVE  IInv'
<1> USE ServerAssumption
<1>1. Typed'
  BY DEF IInv, Transformed, Serve, NoTransform, Plain, Typed, Transforms, changeVars, flagVars,
     historyVars
<1>2. Placed'
  BY DEF IInv, Transformed, Placed, Live, flagVars
<1>3. Forward'
  BY DEF IInv, Transformed, Forward, Live, At, changeVars
<1>4. Served'
  BY DEF IInv, Transformed, Serve, Current, Typed, Served, flagVars
<1>5. TakenDown'
  BY DEF IInv, Transformed, TakenDown, flagVars
<1>6. Abreast'
  BY DEF IInv, Transformed, Abreast, Live, Reported, At, changeVars, flagVars, historyVars
<1>7. Attended'
  BY DEF IInv, Transformed, Serve, NoTransform, Current, Plain, Typed, Placed, Attended, Live,
     Reported, ToConfigure, NonePlain, At, Configured, changeVars, flagVars, historyVars
<1> QED  BY <1>1, <1>2, <1>3, <1>4, <1>5, <1>6, <1>7 DEF IInv

(* A client that fails changes nothing but itself. *)
LEMMA WorkerFailsPreserves ==
  ASSUME IInv, WorkerFails
  PROVE  IInv'
<1> USE ServerAssumption
<1>1. Typed'
  BY DEF IInv, WorkerFails, Typed, Clients, changeVars, flagVars, moduleVars, historyVars
<1>2. Placed'
  BY DEF IInv, WorkerFails, Placed, Live, flagVars
<1>3. Forward'
  BY DEF IInv, WorkerFails, Forward, Live, At, changeVars
<1>4. Served'
  BY DEF IInv, WorkerFails, Served, flagVars, moduleVars
<1>5. TakenDown'
  BY DEF IInv, WorkerFails, TakenDown, flagVars
<1>6. Abreast'
  BY DEF IInv, WorkerFails, Abreast, Live, Reported, At, changeVars, flagVars, historyVars
<1>7. Attended'
  BY DEF IInv, WorkerFails, Attended, Live, Reported, ToConfigure, NonePlain, At, Configured,
     changeVars, flagVars, moduleVars, historyVars
<1> QED  BY <1>1, <1>2, <1>3, <1>4, <1>5, <1>6, <1>7 DEF IInv

(* The end of the host takes the recording and the runtime down at once. *)
LEMMA DisposePreserves ==
  ASSUME IInv, Dispose
  PROVE  IInv'
<1> USE ServerAssumption
<1>1. Typed'
  <2>1. transform' \in [Modules -> Transforms] /\ cache' \in [Modules -> Int]
    BY DEF Dispose, NoTransform, Transforms, Absent
  <2>2. events' \in [Edits -> Nat]
    <3>1. 0 \in Nat
      OBVIOUS
    <3>2. events' = [kind \in Edits |-> 0]
      BY DEF Dispose
    <3> QED  BY <3>2
  <2>3. generation' \in Nat /\ recording' = FALSE /\ hostClosed' = TRUE
    BY DEF IInv, Typed, Dispose
  <2>4. updates' \subseteq Updates /\ instrumented' \subseteq Modules
    BY DEF Dispose
  <2>5. UNCHANGED <<disk, configuration, start, client, stop, missed, failed>>
    BY DEF Dispose, changeVars, historyVars
  <2> QED  BY <2>1, <2>2, <2>3, <2>4, <2>5 DEF IInv, Typed
<1>2. Placed'
  BY DEF IInv, Dispose, Typed, Starts, Placed
<1>3. Forward'
  BY DEF IInv, Dispose, Forward, At, changeVars
<1>4. Served'
  BY DEF Dispose, Served
<1>5. TakenDown'
  BY DEF Dispose, TakenDown
<1>6. Abreast'
  BY DEF Dispose, Abreast
<1>7. Attended'
  BY DEF Dispose, Attended
<1> QED  BY <1>1, <1>2, <1>3, <1>4, <1>5, <1>6, <1>7 DEF IInv

(* Closing the client at the disposal changes nothing the invariant says of the rest. *)
LEMMA DisposeClosesPreserves ==
  ASSUME IInv, DisposeCloses
  PROVE  IInv'
<1> USE ServerAssumption
<1>1. Typed'
  BY DEF IInv, DisposeCloses, Closed, Typed, Clients, changeVars, flagVars, moduleVars,
     historyVars
<1>2. Placed'
  BY DEF IInv, DisposeCloses, Placed, Live, flagVars
<1>3. Forward'
  BY DEF IInv, DisposeCloses, Forward, Live, At, changeVars
<1>4. Served'
  BY DEF IInv, DisposeCloses, Served, flagVars, moduleVars
<1>5. TakenDown'
  BY DEF IInv, DisposeCloses, TakenDown, flagVars
<1>6. Abreast'
  BY DEF IInv, DisposeCloses, Abreast, Live, Reported, At, changeVars, flagVars, historyVars
<1>7. Attended'
  BY DEF IInv, DisposeCloses, Attended, Live, Reported, ToConfigure, NonePlain, At, Configured,
     changeVars, flagVars, moduleVars, historyVars
<1> QED  BY <1>1, <1>2, <1>3, <1>4, <1>5, <1>6, <1>7 DEF IInv

(* The end of the disposal preserves the invariant. *)
LEMMA DisposedPreserves ==
  ASSUME IInv, Disposed
  PROVE  IInv'
<1> USE ServerAssumption
<1>1. Typed'
  BY DEF IInv, Disposed, Typed, changeVars, flagVars, moduleVars, historyVars
<1>2. Placed'
  BY DEF IInv, Disposed, Placed, Live, flagVars
<1>3. Forward'
  BY DEF IInv, Disposed, Forward, Live, At, changeVars
<1>4. Served'
  BY DEF IInv, Disposed, Served, flagVars, moduleVars
<1>5. TakenDown'
  BY DEF IInv, Disposed, TakenDown, flagVars
<1>6. Abreast'
  BY DEF IInv, Disposed, Abreast, Live, Reported, At, Preparing, changeVars, flagVars
<1>7. Attended'
  BY DEF IInv, Disposed, Attended, Live, Reported, ToConfigure, NonePlain, At, Configured,
     changeVars, flagVars, moduleVars, historyVars
<1> QED  BY <1>1, <1>2, <1>3, <1>4, <1>5, <1>6, <1>7 DEF IInv

-----------------------------------------------------------------------------
(* The theorems                                                             *)

(* Every step of the specification preserves the invariant. *)
LEMMA NextPreserves ==
  ASSUME IInv, Next
  PROVE  IInv'
<1>1. CASE Start \/ StartStep
  BY <1>1, StartPreserves, StartConfiguredPreserves, StartClosedPreserves,
     StartAnalyzedPreserves, StartStoredPreserves, StartCheckpointedPreserves,
     StartLoadedPreserves, StartFailedPreserves DEF StartStep
<1>2. CASE Stop \/ StopStep
  BY <1>2, StopPreserves, StopFlushedPreserves, StopPersistedPreserves, StopClosedPreserves
     DEF StopStep
<1>3. ASSUME NEW kind \in Edits,
             \/ Edit(kind)
             \/ Ignore(kind)
             \/ DependencyChange(kind)
             \/ \E edited \in SUBSET Modules : HotUpdate(kind, edited)
      PROVE  IInv'
  BY <1>3, EditPreserves, IgnorePreserves, DependencyChangePreserves, HotUpdatePreserves
<1>4. ASSUME NEW u \in updates, Update(u)
      PROVE  IInv'
  BY <1>4, UpdateConfiguredPreserves, UpdateAnalyzedPreserves, UpdateLoadedPreserves DEF Update
<1>5. ASSUME NEW m \in Modules, Transform(m) \/ Transformed(m)
      PROVE  IInv'
  BY <1>5, TransformPreserves, TransformedPreserves
<1>6. CASE WorkerFails \/ Dispose \/ DisposeCloses \/ Disposed
  BY <1>6, WorkerFailsPreserves, DisposePreserves, DisposeClosesPreserves, DisposedPreserves
<1> QED  BY <1>1, <1>2, <1>3, <1>4, <1>5, <1>6 DEF Next

(* The invariant holds when the server starts. *)
LEMMA Initially ==
  ASSUME Init
  PROVE  IInv
<1>1. Typed
  <2>1. cache \in [Modules -> Int] /\ transform \in [Modules -> Transforms]
    BY DEF Init, NoTransform, Transforms, Absent
  <2>2. events \in [Edits -> Nat]
    <3>1. 0 \in Nat
      OBVIOUS
    <3>2. events = [kind \in Edits |-> 0]
      BY DEF Init
    <3> QED  BY <3>2
  <2>3. start \in Starts /\ client \in Clients
    BY DEF Init, NoStart, Starts, Clients
  <2> QED  BY <2>1, <2>3 DEF Init, Typed
<1>2. Placed /\ Forward
  BY DEF Init, NoStart, Placed, Forward
<1>3. Served /\ TakenDown
  BY DEF Init, Served, TakenDown
<1>4. Abreast /\ Attended
  BY DEF Init, NoStart, Abreast, Attended, Preparing, At
<1> QED  BY <1>1, <1>2, <1>3, <1>4 DEF IInv

(* The strengthening holds in every state the server reaches.               *)
THEOREM Inductive == Spec => []IInv
<1>1. ASSUME IInv, UNCHANGED vars
      PROVE  IInv'
  <2>1. Typed' /\ Placed' /\ Forward'
    BY <1>1 DEF vars, IInv, Typed, Placed, Forward, Live, At
  <2>2. Served' /\ TakenDown'
    BY <1>1 DEF vars, IInv, Served, TakenDown
  <2>3. Abreast'
    BY <1>1 DEF vars, IInv, Abreast, Live, At, Reported
  <2>4. Attended'
    BY <1>1 DEF vars, IInv, Attended, Live, At, Reported, NonePlain, ToConfigure, Configured
  <2> QED  BY <2>1, <2>2, <2>3, <2>4 DEF IInv
<1>2. IInv /\ [Next]_vars => IInv'
  BY <1>1, NextPreserves
<1> QED  BY <1>2, Initially, PTL DEF Spec

(* No step puts back a configuration older than the one in use: what reads   *)
(* the file, the start or the one update of the current generation, began   *)
(* after the one in use was read.                                           *)
THEOREM ConfigurationForward == Spec => InstalledForward
<1>1. ASSUME IInv, Next
      PROVE  configuration' >= configuration
  <2>1. configuration \in Nat
    BY <1>1 DEF IInv, Typed
  <2>2. CASE StartConfigured
    BY <2>2, <1>1 DEF IInv, Typed, Starts, Forward, StartConfigured, Read
  <2>3. ASSUME NEW u \in updates, UpdateConfigured(u)
        PROVE  configuration' >= configuration
    BY <2>3, <1>1 DEF IInv, Typed, Updates, Forward, Live, Current, UpdateConfigured, Read
  <2>4. CASE UNCHANGED configuration
    BY <2>1, <2>4
  <2> QED
    BY <1>1, <2>2, <2>3, <2>4 DEF Next, Start, StartStep, StartClosed, StartAnalyzed,
       StartStored, StartCheckpointed, StartLoaded, StartFailed, Stop, StopStep, StopFlushed,
       StopPersisted, StopClosed, Edit, Ignore, DependencyChange, HotUpdate, Update,
       UpdateAnalyzed, UpdateLoaded, Transform, Transformed, WorkerFails, Dispose,
       DisposeCloses, Disposed
<1>2. IInv /\ [Next]_vars => [configuration' >= configuration]_vars
  BY <1>1
<1> QED  BY <1>2, Inductive, PTL DEF Spec, InstalledForward

(* While it records, the server serves code of the current generation only,  *)
(* and when it is idle none that is instrumented, with the runtime down.     *)
THEOREM ServesCurrentCode == Spec => []ServedCode
<1>1. IInv => ServedCode
  BY DEF IInv, Served, TakenDown, ServedCode, stopping
<1> QED  BY <1>1, Inductive, PTL

(* Once the server has nothing left to do it records what is on the disk,    *)
(* unless a change was let go or an operation failed half-way.               *)
THEOREM SettlesOnCurrent == Spec => []SettledCurrent
<1>1. ASSUME IInv, Settled, ~missed, ~failed
      PROVE  /\ configuration = disk
             /\ runtime = Configured(disk)
             /\ \A m \in Modules : cache[m] # Plain
  <2>1. Reported = disk /\ disk \in Nat
    BY <1>1 DEF IInv, Typed, Settled, Reported, Edits
  <2>2. recording /\ updates = {} /\ ~ToConfigure
    BY <1>1 DEF Settled, ToConfigure, At
  <2>3. configuration = disk
    BY <1>1, <2>1, <2>2 DEF IInv, Typed, Forward, Attended
  <2>4. runtime = Configured(disk)
    BY <1>1, <2>1, <2>2 DEF IInv, Attended
  <2>5. NonePlain
    BY <1>1, <2>2 DEF IInv, Attended
  <2> QED  BY <2>3, <2>4, <2>5 DEF NonePlain
<1>2. IInv => SettledCurrent
  BY <1>1 DEF SettledCurrent
<1> QED  BY <1>2, Inductive, PTL
=============================================================================
