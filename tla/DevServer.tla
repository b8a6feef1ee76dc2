------------------------------- MODULE DevServer -------------------------------
(***************************************************************************)
(* The life of a recording inside the Vite development server              *)
(* (src/dev-server.ts): start, stop, hot updates, transforms and the end   *)
(* of the host, with the analysis client they share                        *)
(* (src/dev-analysis-client.ts).                                           *)
(*                                                                         *)
(* All of it runs on one JavaScript thread, but every operation awaits     *)
(* files, the analysis worker or a timer, and whatever happened meanwhile  *)
(* is seen only by what the operation looks at again: the flags, the       *)
(* generation it started in, the client it asked.  An operation is at the  *)
(* await that its "at" names; one action takes it to its next await.       *)
(*                                                                         *)
(* A file is read by an await at some time before the await ends.  Vite's  *)
(* module cache is external: it keeps the result of a transform unless the *)
(* module was invalidated after the transform began.                       *)
(***************************************************************************)
EXTENDS Integers, FiniteSets

CONSTANTS
  Modules,       \* modules with eligible callables
  WithAdapters,  \* versions of the configuration that declare value adapters
  MaxStarts,     \* bound: starts
  MaxEdits,      \* bound: changes of files
  MaxFaults,     \* bound: faults
  Faults         \* bound: what may fail, of FaultKinds

FaultKinds == {"configuration", "worker", "store"}
Edits == {"configuration", "source", "dependency"}

ASSUME ServerAssumption ==
  /\ WithAdapters \subseteq Nat
  /\ MaxStarts \in Nat
  /\ MaxEdits \in Nat
  /\ MaxFaults \in Nat
  /\ Faults \subseteq FaultKinds

VARIABLES
  disk,          \* version of the configuration file
  edits,         \* files changed so far
  events,        \* per kind, changes the watcher has not reported yet
  generation,
  recording,
  accepting,
  hostClosed,
  session,       \* the session: the client of its start, 0 before the first
  configuration, \* version of the configuration in use
  client,        \* project: the current analysis client
  runtime,       \* what configureDevRuntime was last called with
  start,         \* the start under way
  stop,          \* the stop under way; "failed" leaves stopping set
  disposal,      \* the disposal of the host
  updates,       \* hot updates under way
  transform,     \* per module, its transform under way
  cache,         \* Vite: what it serves of each module
  instrumented,  \* instrumentedFiles
  faults,        \* faults so far
  missed,        \* history: nobody will act on a change
  failed         \* history: the last start or update failed half-way

changeVars == <<disk, edits>>
flagVars == <<recording, accepting, hostClosed>>
moduleVars == <<transform, cache, instrumented>>
historyVars == <<missed, failed>>
vars == <<disk, edits, events, generation, recording, accepting, hostClosed, session,
          configuration, client, runtime, start, stop, disposal, updates,
          transform, cache, instrumented, faults, missed, failed>>

Absent == -1          \* not in the cache
Plain == 0            \* served as it is; an instrumented module: its generation

Unconfigured == [session |-> 0, adapters |-> 0]
NoStart == [at |-> "idle", since |-> 0, generation |-> 0]
NoTransform == [asked |-> FALSE, generation |-> 0, client |-> 0, valid |-> FALSE]

stopping == stop # "idle"

Fault(kind) ==
  /\ kind \in Faults
  /\ faults < MaxFaults
  /\ faults' = faults + 1

(* The versions a read that began at version since may have returned.       *)
Read(since) == since .. disk

-----------------------------------------------------------------------------
(* Module graphs *)

(* The modules leave the cache, and so will what is being made of them.     *)
Invalidate(ms) ==
  /\ cache' = [m \in Modules |-> IF m \in ms THEN Absent ELSE cache[m]]
  /\ transform' = [m \in Modules |->
                     IF m \in ms THEN [transform[m] EXCEPT !.valid = FALSE] ELSE transform[m]]

(* invalidate: a new generation of everything.                              *)
InvalidateAll ==
  /\ generation' = generation + 1
  /\ Invalidate(Modules)

-----------------------------------------------------------------------------
(* The analysis client: a closed one takes no request, and one whose worker  *)
(* has failed rejects all of them from then on.  What was asked before the  *)
(* close may still be answered; the exit of the worker rejects the rest.    *)

Refused == 0
Ask == IF client.status = "open" THEN client.id ELSE Refused

Answers(c) == c # Refused /\ client.id = c /\ client.status # "failed"

(* Mutant: a closed client forgets its requests.                            *)
RejectsNever(c) == client.status = "failed"
Rejects(c) == Ask # c \/ c = Refused

Closed == IF client.status = "open" THEN [client EXCEPT !.status = "closed"] ELSE client

WorkerFails ==
  /\ client.status = "open"
  /\ Fault("worker")
  /\ client' = [client EXCEPT !.status = "failed"]
  /\ UNCHANGED <<changeVars, events, generation, flagVars, session, configuration, runtime,
                 start, stop, disposal, updates, moduleVars, historyVars>>

-----------------------------------------------------------------------------
(* configureNode *)

HasAdapters(version) == version \in WithAdapters

(* Mutant: only the flag is looked at.                                      *)
CurrentIfRecording(g) == recording
Current(g) == recording /\ generation = g

Configured(version) == [session |-> session, adapters |-> version]

-----------------------------------------------------------------------------
(* start and beginRecording *)

At(step) == start.at = step

GoTo(step) == start' = [NoStart EXCEPT !.at = step]

Start ==
  /\ ~hostClosed
  /\ ~recording /\ ~stopping /\ At("idle")
  /\ client.id < MaxStarts
  /\ start' = [NoStart EXCEPT !.at = "configuring", !.since = disk]
  /\ missed' = FALSE
  /\ failed' = FALSE
  /\ UNCHANGED <<changeVars, events, generation, flagVars, session, configuration, client, runtime,
                 stop, disposal, updates, moduleVars, faults>>

(* The catch of start: the client is closed, then the error is passed on.   *)
StartFails ==
  /\ GoTo("failing")
  /\ client' = Closed
  /\ failed' = recording

StartConfigured ==
  /\ At("configuring")
  /\ \/ /\ \E version \in Read(start.since) : configuration' = version
        /\ client' = Closed
        /\ IF hostClosed THEN StartFails ELSE GoTo("closing") /\ UNCHANGED failed
        /\ UNCHANGED faults
     \/ /\ Fault("configuration")
        /\ StartFails
        /\ UNCHANGED configuration
  /\ UNCHANGED <<changeVars, events, generation, flagVars, session, runtime,
                 stop, disposal, updates, moduleVars, missed>>

(* The former client is closed: a new one takes its place.  The lockfile is *)
(* read, then both environments are analysed.                               *)
StartClosed ==
  /\ At("closing")
  /\ IF hostClosed
     THEN StartFails
     ELSE /\ client' = [id |-> client.id + 1, status |-> "open"]
          /\ GoTo("analyzing")
          /\ UNCHANGED failed
  /\ UNCHANGED <<changeVars, events, generation, flagVars, session, configuration, runtime,
                 stop, disposal, updates, moduleVars, faults, missed>>

(* An analysis that finds nothing eligible fails as well, and so does one   *)
(* whose client is closed under it, with or without a last answer.          *)
StartAnalyzed ==
  /\ At("analyzing")
  /\ \/ /\ Answers(client.id) /\ ~hostClosed
        /\ session' = client.id
        /\ GoTo("storing")
        /\ UNCHANGED <<client, failed>>
     \/ /\ client.status = "open" \/ Rejects(client.id)
        /\ StartFails
        /\ UNCHANGED session
  /\ UNCHANGED <<changeVars, events, generation, flagVars, configuration, runtime,
                 stop, disposal, updates, moduleVars, faults, missed>>

HostOpen == ~hostClosed

(* The retained state is read and the session's directory written:          *)
(* recording begins.                                                        *)
StartStored ==
  /\ At("storing")
  /\ \/ /\ HostOpen
        /\ recording' = TRUE
        /\ accepting' = TRUE
        /\ InvalidateAll
        /\ GoTo("checkpointing")
        /\ UNCHANGED <<client, failed, faults>>
     \/ /\ \/ ~HostOpen /\ UNCHANGED faults
           \/ Fault("store")
        /\ StartFails
        /\ UNCHANGED <<recording, accepting, generation, cache, transform>>
  /\ UNCHANGED <<changeVars, events, hostClosed, session, configuration, runtime,
                 stop, disposal, updates, instrumented, missed>>

StartSucceeds ==
  /\ start' = NoStart
  /\ UNCHANGED <<client, failed>>

(* A checkpoint that fails leaves the recording on.                         *)
StartCheckpointed ==
  /\ At("checkpointing")
  /\ \/ /\ hostClosed
        /\ StartFails
        /\ UNCHANGED <<runtime, faults>>
     \/ /\ Fault("store")
        /\ StartFails
        /\ UNCHANGED runtime
     \/ /\ ~hostClosed
        /\ UNCHANGED faults
        /\ IF HasAdapters(configuration)
           THEN /\ start' = [at |-> "loading", since |-> disk, generation |-> generation]
                /\ UNCHANGED <<client, failed, runtime>>
           ELSE /\ StartSucceeds
                /\ runtime' = IF recording THEN Configured(configuration) ELSE runtime
  /\ UNCHANGED <<changeVars, events, generation, flagVars, session, configuration,
                 stop, disposal, updates, moduleVars, missed>>

(* The catch around configureNode.                                          *)
StartUndone ==
  /\ recording' = FALSE
  /\ accepting' = FALSE
  /\ runtime' = Unconfigured
  /\ InvalidateAll
  /\ GoTo("failing")
  /\ client' = Closed
  /\ failed' = FALSE

(* The adapters are loaded.  A change of generation meanwhile leaves the    *)
(* runtime to whoever made it.                                              *)
StartLoaded ==
  /\ At("loading")
  /\ \/ /\ ~hostClosed
        /\ StartSucceeds
        /\ \E version \in Read(start.since) :
             runtime' = IF Current(start.generation) THEN Configured(version) ELSE runtime
        /\ UNCHANGED <<recording, accepting, generation, cache, transform, faults>>
     \/ /\ \/ hostClosed /\ UNCHANGED faults
           \/ Fault("configuration")
        /\ StartUndone
  /\ UNCHANGED <<changeVars, events, hostClosed, session, configuration,
                 stop, disposal, updates, instrumented, missed>>

StartFailed ==
  /\ At("failing")
  /\ start' = NoStart
  /\ UNCHANGED <<changeVars, events, generation, flagVars, session, configuration, client, runtime,
                 stop, disposal, updates, moduleVars, faults, historyVars>>

StartStep ==
  \/ StartConfigured \/ StartClosed \/ StartAnalyzed
  \/ StartStored \/ StartCheckpointed \/ StartLoaded \/ StartFailed

-----------------------------------------------------------------------------
(* stop *)

Stop ==
  /\ recording
  /\ stop' = "flushing"
  /\ recording' = FALSE
  /\ UNCHANGED <<changeVars, events, generation, accepting, hostClosed, session, configuration,
                 client, runtime, start, disposal, updates, moduleVars, faults, historyVars>>

(* The five seconds are over: the runtime is taken down.                    *)
StopFlushed ==
  /\ stop = "flushing"
  /\ stop' = "persisting"
  /\ accepting' = FALSE
  /\ runtime' = Unconfigured
  /\ UNCHANGED <<changeVars, events, generation, recording, hostClosed, session, configuration,
                 client, start, disposal, updates, moduleVars, faults, historyVars>>

(* The writes, the candidates, the result and the last report.  An error    *)
(* ends stop where it is.                                                   *)
StopPersisted ==
  /\ stop = "persisting"
  /\ \/ /\ stop' = "closing"
        /\ InvalidateAll
        /\ client' = Closed
        /\ UNCHANGED faults
     \/ /\ Fault("store")
        /\ stop' = "failed"
        /\ UNCHANGED <<generation, cache, transform, client>>
  /\ UNCHANGED <<changeVars, events, flagVars, session, configuration, runtime,
                 start, disposal, updates, instrumented, historyVars>>

StopClosed ==
  /\ stop = "closing"
  /\ stop' = "idle"
  /\ UNCHANGED <<changeVars, events, generation, flagVars, session, configuration, client, runtime,
                 start, disposal, updates, moduleVars, faults, historyVars>>

-----------------------------------------------------------------------------
(* Changes of files *)

(* Nobody watches after the host has closed.                                *)
Edit(kind) ==
  /\ ~hostClosed
  /\ edits < MaxEdits
  /\ edits' = edits + 1
  /\ events' = [events EXCEPT ![kind] = @ + 1]
  /\ disk' = IF kind = "configuration" THEN disk + 1 ELSE disk
  /\ UNCHANGED <<generation, flagVars, session, configuration, client, runtime, start, stop, disposal,
                 updates, moduleVars, faults, historyVars>>

(* A change the watcher reports while nothing is recorded is let go.  A     *)
(* start under way may have read the configuration before it.               *)
Ignore(kind) ==
  /\ events[kind] > 0
  /\ ~recording /\ ~hostClosed
  /\ events' = [events EXCEPT ![kind] = @ - 1]
  /\ missed' = (missed \/ (kind = "configuration" /\ ~At("idle")))
  /\ UNCHANGED <<changeVars, generation, flagVars, session, configuration, client, runtime,
                 start, stop, disposal, updates, moduleVars, faults, failed>>

(* metadataChange: a package manifest or lockfile.  What was about to       *)
(* configure the former generation will not.                                *)
DependencyChange(kind) ==
  /\ events[kind] > 0
  /\ kind = "dependency"
  /\ recording
  /\ events' = [events EXCEPT ![kind] = @ - 1]
  /\ InvalidateAll
  /\ missed' = (missed \/ At("loading") \/ \E u \in updates : u.generation = generation)
  /\ UNCHANGED <<changeVars, flagVars, session, configuration, client, runtime,
                 start, stop, disposal, updates, instrumented, faults, failed>>

(* handleHotUpdate, up to its first await: edited are the modules the file  *)
(* is, or is imported by.                                                   *)
HotUpdate(kind, edited) ==
  /\ events[kind] > 0
  /\ kind \in {"configuration", "source"}
  /\ recording
  /\ events' = [events EXCEPT ![kind] = @ - 1]
  /\ generation' = generation + 1
  /\ Invalidate(instrumented \cup edited)
  /\ updates' = updates \cup {[at |-> "configuring", kind |-> kind, since |-> disk,
                               generation |-> generation', client |-> 0]}
  /\ UNCHANGED <<changeVars, flagVars, session, configuration, client, runtime,
                 start, stop, disposal, instrumented, faults, historyVars>>

Moved(u, step, since, asked) ==
  [at |-> step, kind |-> u.kind, since |-> since, generation |-> u.generation, client |-> asked]

UpdateIs(u, next) == updates' = (updates \ {u}) \cup {next}
UpdateEnds(u) == updates' = updates \ {u}

UpdateFails(u) ==
  /\ UpdateEnds(u)
  /\ failed' = (failed \/ Current(u.generation))

UpdateConfigured(u) ==
  /\ u.at = "configuring"
  /\ \/ /\ ~Current(u.generation)
        /\ UpdateEnds(u)
        /\ UNCHANGED <<configuration, cache, transform, faults, failed>>
     \/ /\ Current(u.generation)
        /\ \E version \in Read(u.since) :
             /\ configuration' = version
             /\ IF \/ version # configuration
                   \/ u.kind = "configuration"
                   \/ HasAdapters(version) \/ HasAdapters(configuration)
                THEN Invalidate(Modules)
                ELSE UNCHANGED <<cache, transform>>
        /\ UpdateIs(u, Moved(u, "analyzing", 0, Ask))
        /\ UNCHANGED <<faults, failed>>
     \/ /\ Fault("configuration")
        /\ UpdateFails(u)
        /\ UNCHANGED <<configuration, cache, transform>>
  /\ UNCHANGED <<changeVars, events, generation, flagVars, session, client, runtime,
                 start, stop, disposal, instrumented, missed>>

(* The update has done its work: nothing before it matters any more.        *)
UpdateInstalls(u, version) ==
  /\ runtime' = Configured(version)
  /\ UpdateEnds(u)
  /\ missed' = FALSE
  /\ failed' = FALSE

(* A module formerly excluded may qualify now, as may one whose transform    *)
(* was overtaken: its targets are made again.  Mutant: they stay.           *)
TargetsStay == UNCHANGED <<cache, transform>>
InvalidateTargets == Invalidate(Modules)

UpdateAnalyzed(u) ==
  /\ u.at = "analyzing"
  /\ \/ /\ Answers(u.client) /\ Current(u.generation)
        /\ InvalidateTargets
        /\ IF HasAdapters(configuration)
           THEN /\ UpdateIs(u, Moved(u, "loading", disk, 0))
                /\ UNCHANGED <<runtime, historyVars>>
           ELSE UpdateInstalls(u, configuration)
     \/ /\ Answers(u.client) /\ ~Current(u.generation)
        /\ UpdateEnds(u)
        /\ UNCHANGED <<cache, transform, runtime, historyVars>>
     \/ /\ Rejects(u.client)
        /\ UpdateFails(u)
        /\ UNCHANGED <<cache, transform, runtime, missed>>
  /\ UNCHANGED <<changeVars, events, generation, flagVars, session, configuration, client,
                 start, stop, disposal, instrumented, faults>>

UpdateLoaded(u) ==
  /\ u.at = "loading"
  /\ \/ /\ Current(u.generation)
        /\ \E version \in Read(u.since) : UpdateInstalls(u, version)
        /\ UNCHANGED faults
     \/ /\ ~Current(u.generation)
        /\ UpdateEnds(u)
        /\ UNCHANGED <<runtime, faults, historyVars>>
     \/ /\ Fault("configuration")
        /\ UpdateFails(u)
        /\ UNCHANGED <<runtime, missed>>
  /\ UNCHANGED <<changeVars, events, generation, flagVars, session, configuration, client,
                 start, stop, disposal, moduleVars>>

-----------------------------------------------------------------------------
(* transform: somebody asks Vite for a module it has not cached *)

Transform(m) ==
  /\ ~hostClosed
  /\ cache[m] = Absent
  /\ ~transform[m].asked
  /\ IF recording
     THEN /\ transform' = [transform EXCEPT ![m] =
               [asked |-> TRUE, generation |-> generation, client |-> Ask, valid |-> TRUE]]
          /\ UNCHANGED cache
     ELSE /\ cache' = [cache EXCEPT ![m] = Plain]
          /\ UNCHANGED transform
  /\ UNCHANGED <<changeVars, events, generation, flagVars, session, configuration, client, runtime,
                 start, stop, disposal, updates, instrumented, faults, historyVars>>

Serve(m, code) ==
  cache' = IF transform[m].valid THEN [cache EXCEPT ![m] = code] ELSE cache

(* A transform that was overtaken leaves the module as it is.               *)
Transformed(m) ==
  /\ transform[m].asked
  /\ transform' = [transform EXCEPT ![m] = NoTransform]
  /\ \/ /\ Answers(transform[m].client) /\ Current(transform[m].generation)
        /\ Serve(m, transform[m].generation)
        /\ instrumented' = instrumented \cup {m}
     \/ /\ ~Current(transform[m].generation)
        /\ Serve(m, Plain)
        /\ UNCHANGED instrumented
     \/ /\ Rejects(transform[m].client) /\ Current(transform[m].generation)
        /\ UNCHANGED <<cache, instrumented>>
  /\ UNCHANGED <<changeVars, events, generation, flagVars, session, configuration, client, runtime,
                 start, stop, disposal, updates, faults, historyVars>>

-----------------------------------------------------------------------------
(* disposeHost, closeBundle: the server and its modules go away; the updates *)
(* under way will find the recording over and change nothing more.          *)

Dispose ==
  /\ disposal = "none"
  /\ disposal' = "closing"
  /\ hostClosed' = TRUE
  /\ recording' = FALSE
  /\ accepting' = FALSE
  /\ generation' = generation + 1
  /\ runtime' = Unconfigured
  /\ events' = [kind \in Edits |-> 0]
  /\ cache' = [m \in Modules |-> Absent]
  /\ transform' = [m \in Modules |-> NoTransform]
  /\ instrumented' = {}
  /\ updates' = {}
  /\ UNCHANGED <<changeVars, session, configuration, client, start, stop, faults, historyVars>>

DisposeCloses ==
  /\ disposal = "closing"
  /\ disposal' = "waiting"
  /\ client' = Closed
  /\ UNCHANGED <<changeVars, events, generation, flagVars, session, configuration, runtime,
                 start, stop, updates, moduleVars, faults, historyVars>>

Disposed ==
  /\ disposal = "waiting"
  /\ start.at \in {"idle", "failing"}
  /\ disposal' = "done"
  /\ UNCHANGED <<changeVars, events, generation, flagVars, session, configuration, client, runtime,
                 start, stop, updates, moduleVars, faults, historyVars>>

-----------------------------------------------------------------------------
Init ==
  /\ disk = 0
  /\ edits = 0
  /\ events = [kind \in Edits |-> 0]
  /\ generation = 0
  /\ recording = FALSE
  /\ accepting = FALSE
  /\ hostClosed = FALSE
  /\ session = 0
  /\ configuration = 0
  /\ client = [id |-> 0, status |-> "open"]
  /\ runtime = Unconfigured
  /\ start = NoStart
  /\ stop = "idle"
  /\ disposal = "none"
  /\ updates = {}
  /\ transform = [m \in Modules |-> NoTransform]
  /\ cache = [m \in Modules |-> Absent]
  /\ instrumented = {}
  /\ faults = 0
  /\ missed = FALSE
  /\ failed = FALSE

StopStep == StopFlushed \/ StopPersisted \/ StopClosed

Update(u) == UpdateConfigured(u) \/ UpdateAnalyzed(u) \/ UpdateLoaded(u)

Next ==
  \/ Start \/ StartStep
  \/ Stop \/ StopStep
  \/ \E kind \in Edits :
       \/ Edit(kind)
       \/ Ignore(kind)
       \/ DependencyChange(kind)
       \/ \E edited \in SUBSET Modules : HotUpdate(kind, edited)
  \/ \E u \in updates : Update(u)
  \/ \E m \in Modules : Transform(m) \/ Transformed(m)
  \/ WorkerFails
  \/ Dispose \/ DisposeCloses \/ Disposed

(* Files are read, timers fire and workers answer or exit.                  *)
Fairness ==
  /\ WF_vars(StartStep)
  /\ WF_vars(StopStep)
  /\ WF_vars(DisposeCloses \/ Disposed)

Spec == Init /\ [][Next]_vars /\ Fairness
-----------------------------------------------------------------------------
(* Properties *)

(* However hot updates, starts and stops overlap, none puts back a           *)
(* configuration older than the one in use.  (The adapters of the runtime   *)
(* may go back while a start and an update of one generation both load      *)
(* them; SettledCurrent says that this is repaired.)                        *)
InstalledForward == [][configuration' >= configuration]_vars

(* While it records, the server serves instrumented code of the current     *)
(* generation only, so nothing is captured that the collector refuses; when *)
(* it is idle it serves none, and the runtime is taken down.                *)
ServedCode ==
  ~hostClosed =>
    \A m \in Modules :
      /\ recording => cache[m] \in {Absent, Plain, generation}
      /\ ~recording /\ ~stopping => cache[m] \in {Absent, Plain} /\ runtime = Unconfigured

Settled ==
  /\ recording
  /\ At("idle") /\ updates = {} /\ \A kind \in Edits : events[kind] = 0
  /\ \A m \in Modules : ~transform[m].asked

(* Once the server has nothing left to do, it records what is there: with   *)
(* the configuration and the adapters on disk, and with no eligible module  *)
(* left uninstrumented in the cache by a transform that was overtaken.      *)
(* The exceptions are changes nobody acts on (missed) and operations that   *)
(* failed half-way.                                                         *)
SettledCurrent ==
  Settled /\ ~missed /\ ~failed =>
    /\ configuration = disk
    /\ runtime = Configured(disk)
    /\ \A m \in Modules : cache[m] # Plain

(* The end of the host ends everything, and for good: a start that waits    *)
(* for files or for the worker of a client that is being closed comes to    *)
(* its end too, and opens nothing behind the disposal.                      *)
DisposalEnds ==
  hostClosed ~> [](/\ disposal = "done"
                   /\ client.status # "open"
                   /\ ~recording
                   /\ runtime = Unconfigured)

=============================================================================
