# ReplayLock: a verification project

TLA+ models of ReplayLock, the TLC runs that check them on small instances, and
the theorems about them that TLAPS proves. Paths and line numbers refer to the
repository, `src/dev-runtime.ts:218` being line 218 of that file.

- [The system](#the-system): its parts, their state, how they interact, what is hard
- [Modules](#modules): what models what, and how
- [Runs](#runs): what is checked, on which instances, and why they are enough
- [Disagreements with the documentation](#disagreements-with-the-documentation)
- [Proofs](#proofs)
- [What is not modelled](#what-is-not-modelled)
- [Plan](#plan)

To run one: `tlc -workers 2 -config MCDevReplay.cfg MCDevReplay`; to check the proofs of
a component: `tlapm DevCaptureProofs.tla`, and so for every module named `*Proofs`.

## The system

ReplayLock records calls of eligible functions while an application runs, lets a
developer review them, and replays the accepted ones in isolation. It has two
generations that share the static analysis and the value codecs: V1 records
annotated functions under Vitest, V2 ("development recording") records a Vite
development server and the pages it serves. V2 is the newer and the more
concurrent one. The models of V2 follow its components; those of V1 follow its
commands, `record`, `review` and `verify`, and the analysis both gates rest on.

    browser page                       Vite server process
    +------------------------+         +--------------------------------------+
    | instrumented modules   |         | instrumented modules (node)          |
    |   capture runtime      |         |   capture runtime                    |
    |   client: queue        |--posts->| collector: ingestion, report,        |
    |   sessionStorage       |<-answer-|   retention, writes of observations  |
    +------------------------+         | lifecycle: start, stop, hot updates  |
                                       | analysis client <-> analysis workers |
                                       +------------------+-------------------+
                                                          | files
          recover ----> candidate store: pending, accepted cases <---- review
                                                          |
                                       verification: replay runtime, one
                                       fresh process per case

| Component | State | Operations | Interacts by |
|---|---|---|---|
| Capture runtime (`dev-runtime.ts:1-365`, `490-522`) | open frames with their traces, counters and links; the sink's configuration; flush waiters | `observeDevCall`, `devEffect`, response and body reads, `finish`, `block`, `configureDevRuntime`, `flushDevRuntime` | callbacks `onObservation`, `onBlock`, `onActivity` into the client or the collector |
| Replay runtime (`dev-runtime.ts:366-489`) | the trace and its cursor, pending promises, the latched mismatch, stall timer | `replayDevTrace`, `replayEffect`, the pump | promises and microtasks of the replayed code |
| Browser client (`dev-client.ts`) | queue of numbered envelopes, its mirror in sessionStorage, retry timer | `enqueue`, `send`, restore, stop event, `pagehide` | posts to the collector |
| Collector (`dev-server.ts:60-104`, `204-259`) | per client: last acknowledged sequence, what is applied and not acknowledged, a chain of writes; known metadata, report, retention | ingestion, `prepareObservation`, `checkpoint` | posts, files |
| Server lifecycle (`dev-server.ts:105-202`, `261-407`) | flags, generation, configuration, session, Vite's module graphs | `start`, `stop`, hot updates, dependency changes, transforms, `disposeHost` | Vite's hooks and watcher, the analysis client, `configureDevRuntime` |
| Analysis client (`dev-analysis-client.ts`, worker, cache) | workers, pending requests, sticky failure | `analyze`, `transformAuthored`, `invalidate`, `close` | messages to worker threads |
| Candidate store (`dev-artifacts.ts`, `dev-server.ts:588-625`) | accepted cases, pending candidates, sealed observations, the result of each session | `persistDevObservations`, recovery, `reviewDevCandidates` | files shared by processes |
| Retention (`dev-retention.ts`) | admitted observations per callable, bytes, counts | `admit`, recovery, `snapshot` | called by the collector and the store |
| Session report (`dev-report.ts`) | rows of counters per callable and generation | `discover`, `counts`, `block`, `observation` | called by the collector |
| V2 verification (`dev-verify.ts`, `dev-diff.ts`) | one case per child process, its output and exit | preflight, spawn, timeout, comparison | child processes, the replay runtime |
| V1 recording (`session.ts`, `runtime.ts`, `candidates.ts`, `vite-plugin.ts`, `project-execution.ts`) | chunk files per worker and session, candidate states | `writeCompleted`, `close`, `aggregateSession`, `formPendingCandidateStates` | files between Vitest workers and the command |
| V1 review and verification (`review.ts`, `verification.ts`) | candidates, accepted cases | decisions, preflight, replay | files, child processes |
| V1 eligibility (`call-graph.ts`, `package-catalog.ts`, `assumptions.ts`, `vite-plugin.ts`, `verification.ts`) | verdict of each callable, module by module; the reviewed assumption of a case | collection of modules, `analyzeProjectCallGraph`, the gate of capture, the preflight of verification | the TypeScript API, the lockfile, the configuration's catalog |
| V2 eligibility (`dev-analysis.ts`, `dev-project-cache.ts`) | the stats a build rests on; problems of each callable and declaration; mutated parameters | `buildDevProject`, `isCurrent` | the file system, the analysis client |
| Syntax rules (`effect-analyzer.ts`, `dev-transform.ts`, catalogs) | none | classification and rewriting of syntax nodes | the TypeScript API |
| Value codecs (`canonical.ts`, `dev-values.ts`, `observation-safety.ts`, `adapters.ts`, `dev-diff.ts`) | none | encode, scan, decode, compare | pure functions |

What makes each of them correct, and what is hard about it:

- **Capture.** A trace that is kept holds exactly the effects of its invocation,
  in order, whatever ran concurrently; a loss blocks every caller whose trace
  would now be wrong, and is reported. Hard: invocations interleave at awaits,
  effects settle after nested calls have returned, parents finish before their
  children, hot updates and stops come in the middle.
- **Replay.** Unchanged code reproduces its own recording; changed code is told
  apart even when it swallows errors; replay always ends. Hard: the engine must
  resolve promises so that JavaScript's microtasks run in the recorded order.
- **Transport.** What a page observed is applied once, in order, or its loss is
  reported before a recording is called complete. Hard: retries of posts already
  applied, `pagehide` posts out of order, a page that takes over the queue of
  another, failed writes, the deadline of a stop.
- **Lifecycle.** What is served, captured and configured belongs to the same
  recording and generation. Hard: every operation awaits files, workers or
  timers and must look again at what others changed meanwhile.
- **Store.** An accepted case changes only as shown and confirmed; stop and
  recovery can be repeated after a crash. Hard: processes share files without
  locks, and a reviewer takes minutes between reading and writing. What retention
  admits must still be stored when the session ends.
- **V1 recording.** A record command that exits 0 missed no call. Hard: every call
  is a writer with four files that can fail or be killed between any two, and
  writers outlive the process the command waits for.
- **Verification.** Nothing runs before all accepted cases are requalified, and the
  exit status tells behavior from infrastructure. Hard: sources change while it
  runs and between two modules that a target needs, processes die, hang, or fail
  after they have compared, and their exit codes are all that some of them tell.
- **Values.** What is recorded says all the live objects said, comes back as
  objects, and is compared within exactly the tolerance that was reviewed. Hard:
  aliases, mutation by the callable, adapters, thrown errors, two codecs.
- **Eligibility.** A callable called safe has no effect in all it can run or
  observe. Hard: fixpoints over cyclic call graphs, names that are shadowed,
  re-exported or aliased, initialization effects, mutation through chains of calls,
  and a cache of the files the answer rests on.

`PROJECT.json` lists the hazards, each at its line, with the properties that cover it.

## Modules

| Module | Models | Parameters |
|---|---|---|
| `DevTrace` | What makes an effect trace well-formed: `parseDevTrace`, shared by capture, replay and store | |
| `DevCapture` | The recording half of `dev-runtime.ts` | invocations, effects and their kinds, generations, the limit of open frames |
| `DevCaptureProofs`, `DevTransportProofs`, `DevServerProofs`, `CandidateStoreProofs`, `CallGraphProofs`, `DevAnalysisProofs` | Theorems about the component each is named after | |
| `RecordingProofs` | Theorems about what is recorded: `Recording` and `Values` | |
| `ReplayProofs` | Theorems about what replays: `DevReplay` and `Verification` | |
| `DevReplay` | Record a program, replay it: `replayDevTrace` and what is under it | branches, operations, programs |
| `ObservationLog` | What the transport promises (abstract) | clients, kinds |
| `DevTransport` | `dev-client.ts` and the ingestion and stop of `dev-server.ts`; implements `ObservationLog` | pages, kinds of reports, queue limits, storage quota |
| `DevServer` | Lifecycle of a recording in the Vite server, with the analysis client | modules, configuration versions, faults |
| `CandidateStore` | Retention, candidates, their persistence, crash, recovery and review | sessions, reviewers, cases, completions, generations, limits, policies |
| `Recording` | V1: workers, `record`, `review` | calls, completions, inputs and their modules, bounds |
| `Verification` | `verify` for cases of both versions | cases with their version, profile and adapters |
| `Values` | Both codecs, the checks around a call, the comparison | objects, numbers, limits, tolerance |
| `CallGraph` | V1 eligibility: collection, call graph, trusted packages, assumptions, both gates | modules, names, projects, edits |
| `DevAnalysis` | V2 eligibility: build inputs, initialization, propagation, targets | files, names, projects with edits |
| `MC*` | Instances for TLC: definitions of the sets and symmetries the configurations name | |

`DevTrace` is extended by `DevCapture` and `DevReplay`. The components meet at
narrow interfaces: capture hands an observation to a sink that keeps it or not
(an input of `DevCapture`); the transport moves envelopes, whatever is in them;
the store starts from what retention admits. `Recording` and `Verification` see of the
analysis only its outcome, which `CallGraph` decides; `DevServer` sees of it
requests and answers, which `DevAnalysis` computes; `Values` decides what capture
takes as "encodable" and a replay as "same". `DevServer` sees of the capture
runtime only what it was last configured with.

All programs but the store run on one JavaScript thread per process. An action
is therefore what the code does between two awaits, and interleaving happens at
awaits, between microtasks or between processes, never inside an action.

### DevCapture

`frame[i]` is the `Capture` object of invocation `i` (mode "captured"), or says
that it runs natively or that it was refused by the limit. `lineage` is the frame
and what its parent links reach: the code walks the links, and the model keeps
the set. `effect` is the native side of `devEffect` calls; a body read is an
effect of the response it reads. `history`, `extent` and `returned` belong to the
application, not to the runtime: they say what really happened, and the
properties compare the traces with them.

| Action | Code |
|---|---|
| `CallNative` | `observeDevCall` without a recording, or of a new root after a flush began |
| `CallMismatched`, `CallOverLimit`, `CallTampered` | calls that are reported and not recorded: mixed generations, the limit of open frames, replaced built-ins; their callers are blocked |
| `CallCaptured` | a new frame, blocked at once if its arguments cannot be encoded |
| `SyncEffect`, `AsyncEffect`, `SettleEffect` | `devEffect`, response and body reads: the call, and later the settlement, projected into every open frame of the lineage |
| `UnknownEffect` | what the runtime cannot follow: the frame and its callers are blocked |
| `Return`, `Abandon` | `finish`: the checks at the end of a call, sealing, `onObservation`; a frame dropped while its body goes on |
| `Configure`, `Teardown`, `FlushBegin`, `FlushTimeout` | `configureDevRuntime`, `flushDevRuntime` and its timer |

Values are abstracted: which frames can record an event (encodable and within
the limits) and whether the sink takes an observation are nondeterministic.
Calling `configureDevRuntime` again in the same session, as hot updates do,
replaces equal callbacks and changes nothing here; so `Configure` requires that
none is set. Activity counts and profiles are left out.

### DevReplay

One invocation is `Promise.all` over branches, each performing its effects one
after the other. It is recorded with the outside world settling effects in any
order, then `candidate` (the same program, or any other of the set) is replayed
from the trace. `queue` is JavaScript's microtask queue: `Pump`, the continuation
of a branch, or the end of the invocation. `cursor`, `pending` and `mismatch` are
the variables of `replayDevTrace`. A pump delivers the run of settlements at the
cursor whose promises are pending; a synchronous effect takes its settlement at
once; the stall timer fires when no job is left. A branch may or may not catch a
mismatch. `Response` objects are not reconstructed: an effect answers by its name.
The specification is `ReplaySpec`, of `ReplayInit` and `ReplayStep`, as its proofs share a
module with those of `Verification`.

### ObservationLog and DevTransport

A tab shows one page after the other; each page is a client with its own id.
`queue`, `storage`, `waiting` and `retry` are the variables of `dev-client.ts`,
`chain`, `acknowledged`, `applying` and `active` the maps of the collector
(`clientWrites`, `acknowledged`, `appliedObservations` and `appliedCounts`,
`activeClients`). `network` holds posts under way: each may arrive at any later
time, after others, or never, and one that times out may still arrive. A turn of
the collector runs as microtasks, so `Next` lets `Handle` go first; a write of an
observation or a report is a turn of its own and may fail.

`ObservationLog` says what that is for: the collector applies a prefix of what
each client made, once and in order, and calls the recording complete only if
no client it knows dropped an observation or has one left unapplied.
`DevTransport` implements it under the mapping `made`, `wasted`, `applied` and
the verdict derived from `collecting` and `blocked` (`Log == INSTANCE
ObservationLog WITH ...`); the property `ImplementsLog` is the abstract
specification.

A "refused" report is one the collector never accepts (400 whatever the reason).

Abstracted: the contents of envelopes; the retention's answers "limit" and
"omitted" (the collector acknowledges them like others); a `pagehide` post over
60 KiB, which the code skips (a post that never arrives); the restore limit.

### DevServer

`start`, `stop`, `disposal`, `updates` and `transform` are the operations under
way, each at the await that its `at` names (`updates` is a set: Vite does not wait
for one `handleHotUpdate` before the next). `recording`, `accepting`, `hostClosed`,
`generation` and `configuration` are the variables of the plugin; `client` is
`project`; `runtime` is what `configureDevRuntime` was last called with: the
session and the version of the adapters. `cache` and `instrumented` are, per
module, what Vite serves (nothing, plain code, or code of a generation) and
whether it was instrumented. `disk` is the version of the configuration file:
reading it returns a version it had between the beginning and the end of the
await.

| Action | Code (`dev-server.ts`) |
|---|---|
| `Start`, `StartConfigured` ... `StartLoaded`, `StartFailed` | `start`, `beginRecording` from await to await, with `requireOpenHost` after each and `configureNode` last |
| `Stop`, `StopFlushed`, `StopPersisted`, `StopClosed` | `stop`; an error leaves it at "failed", which is `stopping` for good |
| `DependencyChange`, `Ignore` | `metadataChange`; changes reported while nothing is recorded |
| `HotUpdate`, `UpdateConfigured`, `UpdateAnalyzed`, `UpdateLoaded` | `handleHotUpdate` |
| `Transform`, `Transformed` | `transform` |
| `Dispose`, `DisposeCloses`, `Disposed` | `disposeHost`, `closeBundle` |
| `WorkerFails` | the worker's "error" or "exit" (`dev-analysis-client.ts`) |

Vite itself is external: a transform's result is cached unless its module was
invalidated after the transform began, and modules are asked for at any time.
`missed` and `failed` are history variables: a change nobody will act on, and an
operation that ended half-way with an error. They name the exceptions of
`SettledCurrent`. Consecutive awaits of `start` between which nothing else is
decided (the lockfile and the analysis; the retention and the session directory)
are one.
The end of the host takes the module graphs with it and ends the updates under
way, which would find the recording over and change nothing.

### CandidateStore

A session admits observations, stops or dies, and is recovered any number of
times; `persistDevObservations` forms its candidates from what it sealed and what
is on disk, unlinks, then writes, one file per step, with a death possible before
each. `sealed`, `accepted` and `pending` are files; `unlinks` and `writes` the
work left to a process. A review shows one candidate after the other and acts on
the answer later. Loading the index is one step, as is `atomicWrite`. The
documents are reduced to what decides: case, generation and completion.
Tolerances, occurrence counts and the capture status are left out, and batch
decisions are covered because a reviewer may decide anything at any time.

`retention` is what `loadDevRetention` keeps: the policy, the cases accepted when
the session began and the cases reserved since. `Admit` reserves before the write,
and a failed write leaves the reservation, as in `prepareObservation`. `limits`
are the project's (1000 pending, 1000 in all). Counting bytes and restoring a
snapshot are left out. `Init` takes any accepted cases and any pending files, so
one session stands for any after others.

### Recording

| Action | Code |
|---|---|
| `Complete`, `WriteStep`, `WriteFault`, `ReportFailure`, `Lose` | `observeCall`, then the directory, `registered.json`, the chunk and `closed.json` of its writer, each an atomic write (`session.ts`), and the marker of a failure |
| `Begin`, `ChildExits` | `record` until its child has ended and the handshake was looked for |
| `ListSession`, `ReadChunks`, `ReadClose` | `aggregateSession`, file by file, while writers that are left go on |
| `Form` | validation, `formPendingCandidateStates`, refreshes of assumptions |
| `WriteCandidate`, `WriteBlock`, `PersistFault`, `End` | persistence and the exit status |
| `BeginReview` ... `AcceptNext` | `review`: decisions, promotion, unlinking, batches within a module |

The contents of a record are chosen when they are read: nothing before depends on
them. An input is a callable with its arguments, which is what identifies a case.
Steps of a review commute with those of a command that reads the session's own
directory; they are taken before or after. Rendering and locking are left out.

### Verification

`source[c]` is what the current source of a case would do: the same, something
else, hang, be ineligible, or not be there; edits change it at any time. `child` holds
the cases whose adapted values are decoded and the states of its source that each case
was loaded from. The process of a V2 case loads in steps: `Validated2` decodes, `Import2`
reads and judges the target's module, `Load2` reads what the module imports, as it is by then,
and `Replayed2` invokes. A target that was loaded from several states may do anything that
returns. A child that fails is closed with 2 or, if it dies of an error nobody
catches, with 1 (`Failed2`). `phase` walks the command: parse, V1 preparation and
judgement, V2 preflight, validation of adapters (V1 documents side by side, V2
groups by runtime profile), the V1 process, then the V2 children after a second
preflight and validation. `outcome`, `qualified` and `validated` are history, and so are
`died` and `killed`: the replays whose process died with 1, and whether a timer fired.

### Values

A heap maps objects to a prototype and two properties. `Encode` is the walk of
both codecs with its limits and the objects it has met, `Classify` what happens when
a call ends (encode the arguments again and compare, encode the completion, scan
for secrets), `Decode` the way back, `Match` and `Difference` the comparisons of the
V1 harness and of V2 with the path they report. A walk is a recursive function of where
it starts (value, depth, objects met, nodes counted), a comparison one of the path
from the roots; a tree is read along paths. Strings are secret or not; typed
arrays, dates, maps and sets are further kinds of nodes without a structure that
matters here, and are left out.

### CallGraph

The text of a module is what the analysis sees of it: what each top-level name is
bound to, exports and re-exports, whether its initialization has an effect, and the
directives of the entry. A body says what it calls and which names are bound within it, in two
sets: `declared`, by an identifier as parameter or variable, which is what
`isLocallyShadowedBinding` looks for, and `unseen`, in any other way. A class may have a
`base`; a constructor of its own then calls `super`, which `indexClass` takes for an effect. `phase` walks `analyzeProjectCallGraph`: collecting modules
(imports for capture, re-exports too for verification), indexing, scanning,
attaching direct evidence, the fixpoint, attaching problems, the fixpoint again.
`gate` says who asks; between capture and verification the project may be edited.
Worklists are taken in one order, since the code's order is fixed and their
result does not depend on it; where the order of modules does matter, for barrels
indexed before what they re-export, `modules` keeps it. Not in the model: calls from
class initializers, several candidate constructors, more than one level of
inheritance, member chains of more than one step, an alias of an alias.

### DevAnalysis

The first half is the build's input tracker: the walk of the root, a stat before
each read, a missing import vouched for by its directory, edits between any two
steps, and `IsCurrent`. The second half is the propagation: tiers of initialization
effects (global, module, binding), what an import, a value or a namespace inherits,
and the problems and mutated parameters of callables. Which callable is looked at
next is free, because the answer to "who is to blame for a mutation" depends on
the order. `own` stands for what a callable's syntax says of itself. Overlays of
unsaved editor contents and duplicate locators are left out; a write to an imported
object counts for the module that writes.

## Runs

| Run | Instance | Checks |
|---|---|---|
| `capture_calls` | 3 invocations, 1 effect (synchronous or not), 2 generations, 2 open frames, 2 recordings | traces exact; one generation per trace; losses reported and passed on to callers; flush; sink |
| `capture_effects` | 2 invocations, 3 effects of kinds fetch and body | traces well-formed, responses resolved, counters |
| `replay_reproduces` | 2 branches, at most 3 effects of 2 kinds, joined or sequential programs, any change | reproduced; changes told apart; termination |
| `replay_sync_in_concurrent_branch` | 2 branches, at most 2 effects, all programs | violated: see below |
| `transport` | 2 pages, one report of any kind, 1 fault, queue of 1 (+ reserve), storage of 3 | implements the log; nothing forgotten before it is stored; backlog drains |
| `dev_server` | 1 module, 2 starts, 2 changes of any kind, 1 fault of any kind | configurations only go forward; served code; settled state; disposal ends |
| `candidate_store` | 1 session over any files, 1 reviewer, 2 cases of one group, 2 completions, 2 generations, 2 observations, 1 fault, limits 1 and 2, two policies | accepted cases; convergence of recovery; old or new; what is sealed is formed |
| `recording` | 2 calls, 2 completions, 3 inputs in 2 modules, 1 session, 1 review, 1 fault | every call accounted for; nondeterministic inputs lose their candidate; cases change as decided |
| `verification` | 2 V1 and 2 V2 cases, any subset stored, 2 edits, 1 fault | nothing runs early; exit statuses have their reason; an undisturbed verify exits as its project deserves; termination |
| `values` | 2 objects under the arguments, both versions, trees of 2 levels, 6 nodes, tolerance 1 | nothing aliased, secret or mutated is accepted; arguments round-trip; the verdict is the leafwise one |
| `call_graph` | some 25600 projects of 3 modules and 2 names, 1 edit | likely-safe is a certificate; nothing guessed but what is overlooked; assumptions cover; gates agree |
| `dev_analysis` | some 4000 projects of 3 files and 2 names, 2 edits during the build | a current build is fresh; targets see no effect; no mutation hidden |

Why these bounds. *Capture*: a caller, its child and a bystander or grandchild
are what `block`, `close` and `project` can tell apart, and the second recording and
generation give every torn lineage; numbering and responses need more effects
and fewer invocations, hence two runs. The theorems about it hold for all sizes.
*Replay*: the order of microtasks between two branches is all the engine
decides; a third branch behaves to each of the others like the second. Its first
run has asynchronous effects only in concurrent branches; the second drops that,
and shows why. *Transport*: a queue is taken over by one page from another; two
pages give it, one fault gives every single loss, and `Limit`, `Quota` are small
enough to be hit. By hand it was also checked with two reports of observations, and
with two faults. *Server*: two starts give leftovers of one recording in the next,
two changes give two overlapping updates; two modules were checked by hand with
smaller bounds and add nothing, since modules do not interact. *Store*: two cases
of one group compete for a limit of 1, and two generations conflict or not; what a
second session would add, other files at the start, `Init` gives. *Recording*: two
calls interleave with the reader or agree and disagree on one input; three inputs
are the least with a batch that has to stop at a module's end. *Verification*: two
cases of a version are the least where one fails after another has passed; two
edits, because an edit between two checks may be undone after the second.
*Values*: two objects alias each other, and two levels with a third refused reach
every limit. *Call graph*: three modules give a barrel between two others and a
cycle with an entry outside; packages have projects of their own, alone with every
lockfile, range and shadowing of either kind; inheritance has projects of its own, too. *Dev analysis*: three files give an effect two
imports away; mutation has projects of its own, with every pair of argument lists
and both rest and spread, and so have edits.

All configurations say `CHECK_DEADLOCK FALSE`: programs end, recordings stop,
commands exit and budgets of the bounds run out. That nothing stops too early is
what the liveness properties say.

Fairness, and why the code justifies it:

- `DevReplay`: weak fairness of `ReplayStep`. The event loop runs the jobs it has, the
  outside world answers, and the stall timer fires.
- `DevTransport`: weak fairness of the arrival of a post that is awaited, of the
  collector's turns and writes, of the answer's delivery and of the retry timer.
  `fetch` answers or is aborted after 4 s, faults are bounded, timers fire.
  Nothing is assumed of posts nobody awaits, of reports, or of the user.
- `DevServer`: weak fairness of the steps of `start`, `stop` and the disposal:
  files are read, the five seconds pass, and workers answer or exit when they are
  terminated. None is assumed of updates, transforms or changes.
- `Verification`: weak fairness of the command as a whole. Promises that settle are
  taken up and the timers of validators and V2 children fire; the V1 process has
  no timer, and a target that never returns is excepted by the property.
- The others have no liveness properties and state no fairness.

## Disagreements with the documentation

One has a run of its own, whose trace shows it; `PROJECT.json` quotes the text.

1. **Replay of a synchronous effect** (`dev-runtime.ts:418`). After a synchronous
   effect has consumed its events nothing schedules the pump. If the trace
   continues with a settlement of another branch, no one delivers it until the
   stall timer calls it a mismatch: unchanged code fails its own replay
   (`replay_sync_in_concurrent_branch`).

The others are in the models as well, which pass because a property names them as
an exception (2, 4, 5, 7, 8, 10, 12, 13: drop it, and TLC shows the case), does not speak of
them (3, 6, 9), or is checked with sizes that exclude the case (11).

2. **A replay process that dies is changed behavior** (`dev-verify.ts:182`). The exit code of a child
   is taken for its verdict, but 1 is also Node's code for an error nobody catches. The runner
   catches what its worker throws (`:160`), not a failed static import or what is thrown outside. verify
   then exits 1, which `docs/ci.md:8` calls "a real behavioral regression", and no case has
   differed. `ExitContract` excepts it as `died`. V1 has a marker file for this purpose
   (`project-execution.ts:260-267`).
3. **A V2 target runs from a source nobody judged** (`dev-verify.ts:252`). It is judged a last time when its
   module is transformed, by the files as they are then. What it imports is read later, and nothing
   judges the target again, so an edit in between is invoked although the current source is not
   eligible (`Load2`); `docs/development-recording.md:147` says that current source is requalified
   "before invoking a target". `NothingRunsEarly` speaks of the preflights only.
4. **Names that hide a trusted package's are not all seen** (`call-graph.ts:522`). The check looks at parameters
   and variables bound by an identifier. A name bound by a destructuring pattern, or by a function or class
   within the callable, is not seen, and its call passes as one of the package. The comment above
   it says "Fails closed: any same-named parameter or local declaration". `NothingGuessed`
   excepts it, as part of `Overlooked`.
5. **A refused envelope blocks its page** (`dev-client.ts:131`). The client retries
   the head of its queue for any error, also one that the collector gives for good:
   an observation may pass the runtime's limit (256 KiB of compact JSON) and fail
   the collector's (of the indented document). `BacklogDrains` excepts a refused head.
   `docs/development-recording.md:129` says that limits apply on both sides.
6. **Complete although a page was never heard** (`dev-server.ts:185`). Only pages whose
   first post arrived count as unfinished; `ObservationLog` speaks of those only.
   `docs/development-recording.md:186` promises that lost transport is explicit.
7. **A failed write leaves the server stuck** (`dev-server.ts:169`, `177`). A checkpoint
   that fails in `start` leaves the recording on with its analysis client closed;
   an error in `stop` leaves `stopping` set. Neither can be retried, which
   `docs/troubleshooting.md:41` advises. `SettledCurrent` excepts it as `failed`.
8. **A change during start is dropped** (`dev-server.ts:370`). Start reads the
   configuration first and records much later; what the watcher reports in between
   is ignored. `SettledCurrent` excepts it as `missed`.
9. **A decision on a candidate removes its successor** (`dev-artifacts.ts:408`). Review
   unlinks by case id after a prompt of any length; `Dismiss` removes what is there.
10. **The two V1 gates differ on dynamic imports** (`assumptions.ts:298-305`). Capture
   takes one for unknown, so that an assumption can cover it; verification takes the
   finding for an effect and never replays the case. `GatesAgree` excepts it.
11. **The reserve of the queue can be used up** (`dev-client.ts:31`, `:105`). The places kept
   for handshakes and for reports of losses are taken by those of earlier pages, whose queue
   a page takes over. See [the transport](#the-transport), where a proof showed it.
12. **The two V1 gates differ on re-exports** (`vite-plugin.ts:847-855`). Collecting for capture
   follows imports only, `verification.ts:329-335` follows re-exports as well. A module that is
   only re-exported is then unknown to one gate and read by the other, and the modules are
   indexed in another order, on which a barrel's exports depend. A case captured under an
   assumption can so be refused as stale in an unchanged project. `GatesAgree` excepts
   modules whose exports the two gates index differently.
13. **Names of the project are resolved without looking for what shadows them**
   (`call-graph.ts:412`). A parameter named like a function of the module, or like one imported from
   another module of the project, is called, and the analysis judges the function: the check at
   `:519`, "Fails closed: any same-named parameter", is made for packages only.
   And a class is looked for among a module's own declarations before its exports (`:584`), so
   that a re-export of something else under the name of a local class is taken for that class.
   And the base of a class is not looked at: `new` of a class without a constructor of its own runs
   its base's, to which `constructionEdge` (`:468-478`) has no edge. `NothingGuessed` excepts all three,
   and what item 4 says, as `Overlooked`.

## Proofs

### The capture runtime

`DevCaptureProofs` proves, for any finite sets of invocations and effects, any
generations and any limits, that the specification of `DevCapture` satisfies

| Theorem | Property | Says |
|---|---|---|
| `Inductive` | `IInv` | the inductive invariant |
| `TypeCorrect` | `TypeOK` | types |
| `LossReachesCallers` | `BlockedUpward` | a blocked frame has blocked all its callers |
| `CountersExact` | `CountersRight` | the counters of effects and children are what they count |
| `EveryLossReported` | `NothingLost` | an invocation that ended without an observation was reported |
| `FlushIsComplete` | `FlushDrains` | a flush waits exactly while a frame is open |
| `SinkDisciplined` | `SinkDiscipline` | the sink receives only what belongs to its recording |

Assumptions: the invocations and effects are finite sets without `None`, kinds are among
the four, limits are naturals.

None of the properties is inductive alone. That a finished frame has no open
child rests on its counter, which rests on `close` running once per frame and
telling a parent that is in the lineage; that a blocked frame has blocked its
callers must survive both new children of blocked parents and the sweep of a
teardown. `IInv` therefore adds to `TypeOK`:

- `Lineages`: a lineage is closed under parents, and made of captured frames;
- `ChildrenCounted`, `PendingCounted`: the counters count open children and running effects;
- `BlocksReachUp`: blocks have reached the whole lineage;
- `OpenAncestors`: what is closed above an open frame was blocked;
- `SessionOfOpen`: open frames belong to the recording that is configured;
- `EffectsPlaced`: a running effect is recorded only in the lineage of its context;
- `Sealed`: an unblocked closed frame has an observation and nothing pending;
- `Reported`: blocked and refused invocations were reported in their session;
- `FlushDrains`.

The proof first shows what the helpers `Block`, `Close` and their composition do to
a well-formed set of frames (lemmas over an arbitrary `fs`, cited by name), then
one lemma per action, and combines them in `Inductive`. TLC had checked `IInv` on
both capture instances before.

### The traces

The second half of `DevCaptureProofs` goes on from there to what the frames record. Under the
same assumptions `DevCapture` satisfies

| Theorem | Property | Says |
|---|---|---|
| `TracedInductive` | `IInv` and `Traced` | the inductive invariant |
| `TracesExact` | `TraceExact` | an emitted trace is what happened in the invocation's dynamic extent, all of it and in order |
| `TracesReadable` | `TraceReadable` | the readers of the store and of the replay accept every emitted trace |
| `ResponsesAreResolved` | `ResponsesResolve` | a response number names the call of the same trace that produced the response |
| `GenerationsApart` | `OneGeneration` | a trace has effects of one generation only |

The dynamic extent is the program's own call structure; the frames are what the runtime
keeps of it. They differ: the runtime sees no extent of an invocation it refused, one
with a blocked frame in between, or one of another generation. `Traced` says
where they agree:

- `Contexts`: only what has begun runs, and has extents;
- `Within`: a lineage is part of the extent, and as long as a frame has its evidence all
  that runs in its extent is below it by frames, too. So such a frame records an
  effect exactly when the effect's context is in its extent, although `devEffect` looks at
  lineages only;
- `Generations`: a lineage is of one generation;
- `Followed`: such a frame has a number for the running effects of its extent, and
  for no others;
- `Transcribed`: its trace is the transcript of its places in the history (`Faithful`),
  numbered from zero without a gap, with the readers at the state that its unsettled
  calls determine, and with response numbers that resolve;
- `Emitted`: an observation has the trace of its frame.

`Transcribed` is kept by each of the steps that add to a history, a call and its settlement,
which must append to all frames of the extent or block them; all other steps only
block, close or emit. `TraceExact` is stated by places and ranks, which for
a sequence that grows at its end says the same as filtering it and can be reasoned about. The
readers are recursive functions: `StoreReads` and `ReplayReads` show that one more event
is one more step, with an induction over the naturals that has no operator parameter. TLC had
checked `Traced` on both capture instances before.

### The transport

`DevTransportProofs` proves, for any number of pages, reports and faults and any sizes of
queue and storage, that `DevTransport` satisfies

| Theorem | Property | Says |
|---|---|---|
| `Inductive` | `IInv` | the inductive invariant |
| `AppliesInOrder` | `AppliedInOrder` | what is applied of a page is where its numbers begin: nothing twice, nothing skipped |
| `ForgetsOnlyStored` | `ForgottenWhenStored` | a page forgets only what the collector has stored |
| `ImplementsWithRoom` | `ImplementsLog` | as long as there is room in the queue (`Room`), the specification of `ObservationLog` |
| `ImplementsWhileLight` | `ImplementsLog` | there is room as long as storage leaves a page that takes it over two places of its queue (`Light`) |

Assumptions: at least one page, the limit of reports below the reserve.

What makes it hold through retries, late copies and takeovers is that copies are all
the same: an envelope anywhere (queue, storage, network, chains) says what its page
numbered (`Sent`), so a copy can only be in order, or known already. The other parts:
`Paged`, one page after the other and none of the later ones has numbered anything;
`Progress`, what is applied is a prefix of what was numbered, one longer than what is
acknowledged exactly while an envelope is applied and not acknowledged, which is then
the one under the write; `Single`, one post at most is awaited, it carries the head of
the queue, and an answer "ok" means that the head is acknowledged, without which the
client would forget what it was not answered for; `Heard`, what the collector
remembers of a page that announced itself or lost something; `LastWords`, a page that
has said "stopped" numbers no observation after it.

The refinement maps every step to `Make`, `Apply` or `Conclude` of the log, or to a
stutter. Its last step needs more: when the verdict is "complete", a page the
collector knows must have said "stopped" and have reported what it dropped, before
that. So `ImplementsWithRoom` adds `OwnedUp`: a page that dropped an observation has
numbered a block, ahead of its last word. And it needs `Room`: that a page's first
envelope was taken in, and that the queue is not full before a loss was reported.

That is a condition and not a theorem: for arbitrary sizes `ImplementsLog` is false. The code
reserves 24 places of its 1024 for such envelopes (`dev-client.ts:105`: "Reserve
bounded room for overflow diagnostics and reload/stop handshakes"), but a page takes over
the queue of the page before it with up to 1024 entries (`:31`), and every page of a tab that
is reloaded while nothing is delivered adds its own "ready" and "stopped". Once those have
filled the queue, the next page has neither its "ready" nor its PENDING_LIMIT taken in (`:106`),
and drops observations in silence. TLC shows it with a queue limit of 1, a reserve of 2 and a
storage of 2, in two pages and one fault. `ImplementsWhileLight` says what excludes it, of a
behavior and not of the sizes: that storage at no time holds more than two envelopes less than a
queue takes, with the sizes of the code 1022. What a page takes over then leaves room for its
"ready" and its block. It is a condition the shipped program meets in every tab whose
backlog stays below that, and one that can be observed from outside. The proof carries `Fits`: a page that has
not announced itself, or has dropped nothing yet, has the places for it. The
instance of the run, with a storage of 3 and a reserve of 5, is light by its sizes.

### The server

`DevServerProofs` proves, for any modules, any number of starts, changes and faults and
any set of configurations with adapters, that `DevServer` satisfies

| Theorem | Property | Says |
|---|---|---|
| `Inductive` | `IInv` | the inductive invariant |
| `ConfigurationForward` | `InstalledForward` | no step puts back an older configuration |
| `ServesCurrentCode` | `ServedCode` | code of the current generation while recording, none instrumented when idle |
| `SettlesOnCurrent` | `SettledCurrent` | with nothing left to do, what is on the disk is what is recorded |

Assumptions: the bounds are naturals, the faults among those of the model.

The code has no lock around an update: what orders updates is that each one takes a
new generation when it begins and looks at it after every await. `Placed` states
that: at most one update has the current generation (`Live`), and a start is not under
way while a recording or a stop is. `Forward` then follows for the configuration: the
live update, or the start, began to read after the configuration in use was read.
`Served` and `TakenDown` say what is left in Vite's cache and in the runtime by phase;
the cache is right because every generation begins with an invalidation of the
modules known as instrumented, so that `Served` has to say that no other module is
served instrumented.

`SettledCurrent` speaks of states in which all is done, so its invariant has to say
who will do what is not done yet: `Abreast`, whatever is under way has read, or will
read, every change that was reported; `Attended`, if the configuration, the runtime or a
module in the cache is behind, there is a live update, or the start, that is at a step
before it sees to that. Both except what was `missed` or `failed`, the two defects
described above, and the proof shows that those are the only ones.

### The candidate store

`CandidateStoreProofs` proves, for any cases, completions, policies, limits and faults,
that `CandidateStore` satisfies

| Theorem | Property | Says | With |
|---|---|---|---|
| `OracleSafe` | `OracleChangesOnlyAsShown` | an accepted case changes only as shown and confirmed | one review at a time |
| `Converges` | `RecoveryConverges` | a recovery ends where the first attempt would have | any sessions and reviews |
| `Replaces` | `OldOrNew` | a candidate that is replaced is never absent | any sessions and reviews |
| `SealedForms` | `SealedIsFormed` | what was sealed is never dropped for a limit | one session |

Assumptions: at least one case; "absent" is no completion and no session.

*The review.* `ShownStands` says that while the reviewer decides, the accepted completion
of the shown case is the one that was shown or has been retired. With two reviewers it
fails, since nothing locks the accepted cases between the question and the write.

*Persistence.* `Planned` says that, as long as nobody else has changed the files since the
session first loaded them, forming the candidates again gives what the first
attempt formed, and while the session persists the files lack exactly what it
still has to unlink and to write (`Lacking`). It is kept because forming reads the candidates
of other cases only (`FormedElsewhere`) and a session writes those of its own only
(`Within`), so that no step of the session changes what a recovery would form (`FormsAgain`). What
`Formed` computes case by case is reasoned about by induction over the cases (`FormingGrows`,
`FormingStays`).

*The limits.* `Room` gives, until the session has formed its candidates, two sets of cases
within the limits: what was accepted when it began, and what it has reserved. They hold all that is
accepted, pending, under review and sealed, through admissions, failed writes, decisions
and retirements. What is pending when a case is formed lacks that case, so
it is fewer than what was reserved, and no limit is reached (`FormsCandidate`). A second session
would add candidates that the first has not reserved; the theorem excludes it.

### The first-generation recording

`RecordingProofs` proves, for any calls and inputs, any number of sessions and reviews
and any number of faults, that `Recording` satisfies

| Theorem | Property | Says |
|---|---|---|
| `Inductive` | `IInv` | the inductive invariant |
| `CountsAll` | `Accounted` | a command that would exit 0 has counted every completed call, or there is no trace it could find |
| `DropsNondeterministic` | `NondeterministicDropped` | an input with two completions has no pending candidate once the results are written |
| `DecidedByReviewer` | `OnlyAsDecided` | a case changes only to what was shown and accepted |

Assumptions: a finite list of inputs (by module), and that "absent" is not a reading.

A writer and the reader of its directory take their steps in any order, so `Accounted`
needs what each order leaves behind. `Written` ties a call's stage to its files;
`Outlived` says that after the child only the writers that were at work then, the
late ones, go on; `Tallied` says that, as long as there is nothing to report, a listed
writer is still to be read, is counted, or is the one being read and about to be reported
for a record it does not have. `Dropping` says of an input that behaved in two ways
that its block is still to be written, or that it is blocked with neither a candidate on the
disk nor one still to be written, which is where the order of the two loops matters.
`Asked` says that what is accepted in a row belongs to a module that was accepted.

### The replay

`ReplayProofs` proves, for any number of branches and any programs, that `DevReplay` satisfies

| Theorem | Property | Says | With |
|---|---|---|---|
| `UnchangedReproduces` | `Reproduces` | the replay of unchanged code never ends in a mismatch | branches that run side by side are asynchronous |
| `PassedIsSame` | `SameEffects` | a replay that passes performed exactly the recorded effects | any programs |

*Unchanged code.* The two invocations do not take the same steps: in the recording the
outside world settles effects between two jobs, in the replay a pump or a call settles
several at once. What they share is the order in which branches go on, and the proof is
about that. A recording is described by its *places*: `C[b][n]` is where the trace has the
`n`-th call of branch `b`, `S[b][n]` where it has the settlement. `Recorded` says what the trace is like
then: a branch calls after its last effect was settled (`Follows`), branches call
in the order in which their effects were settled (`InTurn`), and after an error
that decides `Promise.all` no later call is settled (`Final`). `Underway` says
where a program stands that has come as far as the event `cur`: which effects its branches have
performed, which continuations are queued, and in which order (`Jobs`, `Sequenced`). It is stated
for any position, and the same lemmas serve both invocations: while recording, `cur` is the end of
the trace, and every step lengthens it; while replaying, `cur` is the cursor.
`OnReplay` adds that `pending` holds what has been called and not been settled before the cursor
(`Awaited`), and that a settlement at the cursor has a pump in the queue. From that it follows that
a branch that goes on finds its own call behind settlements that can be delivered
(`CallMet`, since it goes on in turn), that a replay does not run out of jobs (`NeverStalls`), and
that nothing is missing at the end (`NothingMissing`).

`Joined` is the hypothesis: a branch that performs a synchronous effect is the only one with any
effects. It is needed: `MCDevReplayJoined.cfg` refutes `Reproduces` without it (a synchronous
effect queues no pump for what follows its settlement).

*Changed code.* `Paired` says that for each effect the trace has as many calls before the cursor as the
program has performed; it holds as long as there is no mismatch, for any candidate, and a replay that
passes has the cursor at the end.

### The verify command

`ReplayProofs` proves, for any store of cases of both versions, any profiles,
adapted values, edits and failing processes, that `Verification` satisfies

| Theorem | Property | Says |
|---|---|---|
| `Inductive` | `IInv` | the inductive invariant |
| `StatusMeans` | `ExitContract` | 0: all cases replayed and reproduced; 1: some behaved differently, or a V2 replay process died with 1 |
| `StillDeserves` | `VerdictDeserved` | a verify that nothing disturbed exits with the status its project deserves |
| `ReplayIsLast` | `NothingRunsEarly` | no replay ends before all is requalified and validated |

Assumptions: versions are 1 or 2, and "absent" is neither a status nor a process.

The exit status is decided from a counter of the worst child, a marker file and the
fact that a phase was reached at all, so what each phase may rely on has to be
carried along. `IInv` says: what is still to do is of the version the phase is
about, and the running child is not among it (`TodoPlaced`); what is not still to
do is qualified, then validated, by phase (`Prepared1`); as long as the status is
0, what is not still to do has reproduced its case, and a marker or a status 1
stands for a case that differs and that no later step replays again (`Told`). One
lemma per action shows that it is kept. The edits cost `IInv` nothing: no part of it
but the type of `source` mentions what is edited, which is why the exit contract
does not depend on when the project changes. That a process which fails never exits with 0
is part of the model (`Failed2`): the tests that were collected are counted
(`dev-verify.ts:335`), and all that a crash or a signal leaves is another code.

`VerdictDeserved` is about the other half: not what an exit status excludes, but that the
right one is given. `Deserved` is a function of the project alone; the command arrives at it
by three preflights, three validations and as many processes as there are cases, in an order that
depends on the versions present. `StillInv` says, while nothing has been edited, failed or been
killed (`Undisturbed`), that what was checked of the project is so (`Checked`), that a child has read what
is there (`ReadTrue`), that replays ended as their sources make them end (`OutcomesTrue`), and that a
status other than 0 has its reason, which later cases cannot take away (`StatusTrue`).
Of an edited project nothing of the kind can be said, since a target may be loaded from several states of
its source (item 3 [above](#disagreements-with-the-documentation)).

### V1 eligibility

`CallGraphProofs` proves, for any modules, names and packages, any projects, catalogs and
lockfiles and any edits, that `CallGraph` satisfies

| Theorem | Property | Says |
|---|---|---|
| `Inductive` | `IInv` | the inductive invariant |
| `VerdictCertifies` | `Sound` | what is called likely-safe reaches nothing that is not |
| `NothingIsGuessed` | `NothingGuessed` | a call passed as resolved runs what its edges lead to, or was vouched for |
| `AssumptionsHold` | `AssumptionCovers` | an assumption covers only code that reads as it did when it was reviewed |
| `GatesConcur` | `GatesAgree` | verification runs what capture took, in a project that is not edited |

Assumptions: finitely many modules, apart from the packages; the entry is a name of one of them; the
texts are what parsing yields (`Parsed`: an alias is of a declaration, not of an alias);
a catalog vouches for an export once, and versions are triples of numbers.

The analysis is a worklist followed by two fixpoints, and its certificate is a statement
about the end. `Covered` is what holds meanwhile: whatever is reached has all its callees, and
whatever is scanned all its imports, reached, scanned or in the queue; so an empty
queue means closed. `Raised` says that no status is below what its callable shows itself, nor, in
the second round, likely-safe with a call that was not resolved; so once no edge
raises its caller, a likely-safe callable has only likely-safe callees, through any cycle. That
is `Sound`. `Decided` says what a reviewed assumption holds: the texts of some modules at
the time, and the evidence. Two fingerprints are equal only if they name the same
modules, so what verification scanned is what was reviewed.

`NothingGuessed` compares two accounts of what a name stands for: the code indexes exports
module by module, in the order they were collected, and a re-export takes what its source
has so far; the language links a chain of any length. `Linking` says that after `n` modules an
exported name that stands for anything stands for the function at the end of its chain of re-exports, which
is at most `n` links away; `Ordered`, that no module is collected twice, so
that the chain is no longer than there are modules, which is the depth the reference
goes to. A name with no export yet is never guessed. An alias is of a declaration or an import (`Parsed`); the
code follows longer chains of aliases in the same way, and they are left out. `OneTarget` shows that a call is of one
thing; it needs that nothing is `Overlooked`, which is where the exceptions enter. For packages, `SatisfiesInRange`
shows that the code's comparison by prefix selects versions of the half-open range.

`GatesAgree` compares two analyses that collect different modules in different orders, so it
needs what an analysis ends with to be independent of both. `Ends` says it: what is
reached and scanned is the least that is closed under calls and imports (`Least` holds of
the queue at every step of the scan), and the statuses are the lowest that take all evidence into
account (`Lowest` holds through both fixpoints). `SiteSeen` shows that the calls of a
callable depend on the other modules only through `Sight`: which imports of its module are collected and
what each exports. What is scanned never leaves what is collected (`ScannedWithin`), and
both gates collect all project imports of what they collect (`Gathered`), so where the two
analyses both come they see the same; what both reach is closed for each, and being least, each
reaches no more (`SameEnds`). The lowest statuses and the evidence are then the same, a target that
is not refuted reaches nothing that is (`NothingRefuted`), and `Decide` has no reason left to
refuse. `Recalled` carries the end of the captured analysis to its verification; for that
`reviewed`, which is history, records the whole analysis. Both exceptions of
`GatesAgree` are used: a dynamic import is an effect to one gate only, and the exports of the
scanned modules make the sights equal.

The proofs changed the model in three places: a case captured without an assumption holds
`NoAssumption`, a fingerprint no lockfile has, where it held a value of another kind that need not differ
from every fingerprint; `Decide`, as a `CASE` with overlapping arms, allowed
more than the code's first-match, and the reference for `NothingGuessed` did not follow
re-exports. With the latter TLC found what items 12 and 13
[above](#disagreements-with-the-documentation) describe, for which three kinds of
projects were added to the run. Two more, names bound in ways the code does not see and
classes with a base, are for items 4 and 13.

### V2 eligibility

`DevAnalysisProofs` proves, for any files and names, any projects and any edits before, during
and after a build, that `DevAnalysis` satisfies

| Theorem | Property | Says |
|---|---|---|
| `FreshInductive` | `Fresh` | the inductive invariant of the build |
| `Current` | `CurrentIsFresh` | a build is reused only while it is what a new one would read |
| `SettledInductive` | `Settled` | the inductive invariant of the propagation |
| `Borrows` | `BorrowedSeen` | no mutation of what the caller lent is hidden behind calls |
| `TargetsSeeNoEffect` | `TargetsAreSafe` | what is captured runs no effect and sees none |

Assumptions: finitely many files and names; files are not directories; a text names what it
declares itself or imports by name (`WellFormed`), which is what the binder resolves.

*The build.* Files change between any two reads, and the tracker keeps one stat per
path, the first. `Fresh` says why that is enough. `Stats`: a stat is never newer than its path.
`TextsRead`: a text whose stat still holds is the one on the disk, because the code
takes the stat before it reads. `Vouched`: a file found missing is missing while its directory
is as it was, because the directory's stat was taken first, and again if the file was looked
for later (`HeldStat`); a directory that changed in between does not vouch, and the
build is never current. `Listed` says the same of the walk, `Complete` that the program imports
nothing that was neither read nor found missing.

*The propagation.* Three rounds each end when nothing of what they look for is left. `Settled`
says that what was found at first is kept (`FirstKept`) and what one round ended with, the
later ones do not undo (`ModulesSettled`, `DeclarationsSettled`, `CallablesSettled`). This
holds because problems only grow and a round adds them only to nodes that the rounds
before it did not read. A target may run a callable that mutates its arguments, if it lends
it only what it owns; `MutationsOfCallables` says that no other node has that problem, so
that such a callable has inherited nothing from modules and from what it reads.

*What a target can see.* The properties speak of reachability: `Closure`, a recursive
function with as many steps as there are nodes. `ClosureWithin` (what contains the start and is
closed contains the closure) and `ClosureCloses` (the closure is closed, since a layer that
grows has one node more) turn `TargetsAreSafe` and `BorrowedSeen` into statements about single
steps. `RunsHarmless` then follows calls, `SeesSafe` what is read, `LoadsUntroubled` imports,
each up to the nodes whose problems `Settled` hands to the target.

The proofs changed the model where it said less than the code does: the directory a missing file
belongs to is remembered with its stat, and the root is a directory like others.

### The values

`RecordingProofs` proves, for any objects, numbers and limits, any assignment by the
callable, any reviewed tolerances and any of the model's replayed trees, that `Values` satisfies

| Theorem | Property | Says |
|---|---|---|
| `ValuesHold` | `ValuesIInv` | the inductive invariant |
| `AcceptedSayAll` | `AcceptedIsWhole` | what is accepted has no aliases or secrets and reads as its objects do |
| `CasesRoundTrip` | `RoundTrips` | recorded arguments become objects that encode to them again, within the limits |
| `VerdictsAreTrue` | `VerdictIsTrue` | a replay matches exactly leaf by leaf, and a mismatch tells a difference |

Assumptions: the numbers are integers, and the limits and the tolerance naturals. An object still has
two properties, as in the model.

The actions are few; what has to be shown is what the walks compute. They recurse over data, and
the library's induction over data is out of the prover's reach, so every walk is a recursive
*function* and induction is over the naturals: a set of numbers that holds 0 and its successors
is all of them (`NaturalInduction`, from the well-foundedness of `<`). `PathInduction` goes down a
tree with it, `PathDescent` up from its leaves. Each function is first shown to exist: reading
along a path over its prefixes (`BelowExists`), the comparisons because no node of the recorded
tree lies deeper than the limit (`MatchExists`, `DifferenceExists`, `FirstExists`), the
encoding because every call is one deeper and refuses beyond the limit (`EncodeExists`).

*Encoding.* `Sound` says of a value, its node, and the objects met before and after its walk: the
node says at each path what the value reads there (`Says`), no object is reached in two ways
(`MeetsOnce`), and all that are reached were met in this walk (`Meets`). `BranchSound` puts the
walks of two properties together: the second starts with what the first has met, so the two share
nothing. V1's completion goes on from the arguments in the same way.

*Decoding.* Every composite node is an object named by its path. `Retraced` follows the walk of the
original object and that of the decoded one side by side: they take the same branches and count the same
nodes, as long as no object at or below the node's path was met before (`Clear`), which is what
different paths give (`ApartPaths`). An adapter's node shows its payload only, a dense array stays
dense, and the flag that forbids adapters inside payloads is the same (`SameKinds`).

*Comparing.* `AllAlike` is the leafwise relation at and below a path, and goes up through branches
(`BranchesAlike`). `MatchMeans` and `FirstMeans` say that V1 and V2 decide it; for what is compared as a
whole, a payload above all, this needs that nothing in it is tolerated (`Tolerable`), which the invariant
keeps since a case is made with the paths `NumberLeafPaths` offers. `Tells` is what a reported path has
to be: it is a node of one of the trees, and a differing leaf lies at or below it.

For the proofs the walks of `Values`, which were recursive operators, became recursive functions; what the
run explores stayed the same, state for state.

### What stays with TLC

Every invariant and action property of the passing runs is a theorem. Liveness under fairness
(`ReplayTerminates`, `BacklogDrains`, `DisposalEnds`, `VerifyEnds`) and `ENABLED` are out of
the prover's reach.

## What is not modelled

- The syntax rules (`effect-analyzer.ts`, `dev-transform.ts`, `dev-catalog.ts`,
  `dev-intrinsics.ts`, `callable-locator.ts`): decisions about single nodes of a
  TypeScript program. They have no state, and a model of them would be the syntax
  over again. `CallGraph` and `DevAnalysis` take their results as the texts.
- The parsers that refuse malformed documents (`model.ts`, half of
  `dev-artifacts.ts`), locks, paths, formatting, `init` and `scan`, command-line parsing.
- The session report (`dev-report.ts`): counters that decide nothing.
- `Response` reconstruction in replay; the harness's generated configuration.
- Two Vite hosts in one process during a restart, the discovery manifest, and the
  controller that launches and attaches to a server.
- Several reviews at once; several sessions at once over one store.

## Plan

1. Composition: the command that starts a development server, attaches to it, stops
   and recovers (`dev-server.ts:447-625`, `cli.ts`), over `DevServer` and `CandidateStore`;
   two hosts of one process in `DevServer`.
2. Several sessions over one store with a reviewer, and retention's snapshot.
3. Class initializers in `CallGraph`; overlays in `DevAnalysis`.
