------------------------------- MODULE CallGraph -------------------------------
(* Whether an annotated V1 callable may be recorded and replayed: the modules
   collected for it (vite-plugin.ts, verification.ts), the analysis of the
   calls it reaches (call-graph.ts) and the trust in packages
   (package-catalog.ts), and the two gates that use the verdict: capture, and
   the preflight of verification, with the reviewed assumption that discharges
   what the analysis does not know (assumptions.ts).

   The text of a module is what the analysis sees of it: what each top-level
   name is bound to, what is exported and re-exported, whether its
   initialization has effects, and for the entry its directives.  A callable is
   <<module, name, part>>.                                                 *)
EXTENDS Integers, FiniteSets, Sequences, SequencesExt

CONSTANTS
  Modules, Names,
  Packages,       \* specifiers that are not relative
  Entry,          \* the annotated callable: its module and name
  Projects,       \* the modules, catalog and lockfiles a project may start with
  Edited,         \* what an edit may make of each module's text
  Lockfiles,      \* and of the lockfiles
  MaxEdits,       \* bound: edits between capture and verification
  None

Callable == Modules \X Names \X {"function", "constructor", "method"}
Forms == {"call", "new", "method", "member", "import"}
Site == [form : Forms, name : Names]
\* Names that a callable binds itself: as an identifier that is a parameter or a
\* variable, or unseen by the analysis, by a destructuring pattern of a parameter, a
\* variable or a catch clause, or as a nested function or class.
Body == [effect : BOOLEAN, sites : SUBSET Site, declared : SUBSET Names, unseen : SUBSET Names]

\* An export of a package is vouched for once.
ValidateTrustedPackages(entries) ==
  \A d, e \in entries : d.package = e.package /\ d.export = e.export => d = e

Version == Nat \X Nat \X Nat

\* What a top-level name may be bound to.  The constructor of a class with a base
\* calls super, which is an effect to the analysis.
Binding(b) ==
  /\ b.kind \in {"function", "class", "alias", "import", "none"}
  /\ b.kind = "function" => b.body \in Body
  /\ b.kind = "class" => /\ b.constructor \subseteq Body /\ b.methods \subseteq Body
                         /\ b.fields \in {"likely-safe", "refuted"}
                         /\ b.base \in Names \cup {None}
                         /\ b.base # None => \A x \in b.constructor : x.effect
  /\ b.kind = "alias" => b.of \in Names
  /\ b.kind = "import" => b.name \in Names \cup {"*"}

Parsed(t) ==
  /\ t.initial \in {"likely-safe", "refuted"} /\ t.exported \subseteq Names
  /\ \A n \in Names : /\ Binding(t.scope[n])
                       /\ (t.scope[n].kind = "alias" => t.scope[t.scope[n].of].kind # "alias")
                       /\ (t.reexports[n] # None => t.reexports[n].name \in Names)

ASSUME CallGraphAssumption ==
  /\ IsFiniteSet(Modules)
  /\ Modules \cap Packages = {} /\ Modules \cap Callable = {}
  /\ Entry \in Modules \X Names
  /\ None \notin {"captured", "refused", "policy", "refuted", "run", "missing", "stale"}

ASSUME ProjectsAssumption ==
  /\ \A x \in Projects : x.files = [m \in Modules |-> x.files[m]]
  /\ \A m \in Modules : \A t \in Edited[m] \cup {x.files[m] : x \in Projects} : Parsed(t)

ASSUME VersionsAssumption ==
  /\ \A x \in Projects : /\ ValidateTrustedPackages(x.catalog)
                         /\ \A e \in x.catalog : e.version \in Version /\ e.prefix \in {"", "~", "^"}
  /\ \A l \in Lockfiles \cup {x.lockfiles : x \in Projects} :
       IsFiniteSet(l) /\ \A lock \in l : lock.root \in Version \cup {None}

VARIABLES
  files,       \* the project's modules as they are now
  catalog, lockfiles,
  gate,        \* who asks: "capture" or "verify"
  phase,
  modules,     \* the modules collected, in the order they were
  at,          \* how many of them this phase has handled
  exports,     \* what each module's exported names stand for, as indexed
  queue, scanned, reached, status, verdict,  \* analyzeProjectCallGraph
  case,        \* what was recorded, with the assumption it was captured under
  reviewed,    \* history: the project, its analysis and the evidence as they were then
  outcome,     \* what the gate decided
  edits

projectVars == <<files, catalog, lockfiles, edits>>
resultVars == <<case, reviewed, outcome>>
vars == <<projectVars, gate, phase, modules, at, exports, queue, scanned, reached, status, verdict,
          resultVars>>

Home(c) == c[1]
EntryTarget == CHOOSE t \in exports[Entry[1]][Entry[2]] : TRUE
Bound(m, n) == files[m].scope[n]
BodyOf(c) == LET b == Bound(c[1], c[2]) IN
  CASE c[3] = "function" -> b.body
    [] c[3] = "constructor" -> CHOOSE x \in b.constructor : TRUE
    [] c[3] = "method" -> CHOOSE x \in b.methods : TRUE

Imports(m) == {Bound(m, n).from : n \in {x \in Names : Bound(m, x).kind = "import"}}
Reexports(m) == {files[m].reexports[n].from : n \in {x \in Names : files[m].reexports[x] # None}}

(************************* collectProjectModules **************************)

\* Capture follows imports, verification re-exports as well.
Follows(m) == (IF gate = "capture" THEN Imports(m) ELSE Imports(m) \cup Reexports(m)) \cap Modules

Collect ==
  /\ phase = "collect"
  /\ IF at < Len(modules)
     THEN /\ modules' = modules \o SetToSeq(Follows(modules[at + 1]) \ ToSet(modules))
          /\ at' = at + 1 /\ UNCHANGED phase
     ELSE phase' = "index" /\ at' = 0 /\ UNCHANGED modules
  /\ UNCHANGED <<projectVars, gate, exports, queue, scanned, reached, status, verdict, resultVars>>

(********************************* indexModules ***************************)

Collected == ToSet(modules)

\* A re-export stands for what its module has exported so far, which is nothing
\* before that module is indexed itself.
Exported(m, n) ==
  LET r == files[m].reexports[n] IN
  IF r # None THEN IF r.from \in Collected THEN exports[r.from][r.name] ELSE {}
  ELSE IF n \in files[m].exported /\ Bound(m, n).kind = "function" THEN {<<m, n, "function">>} ELSE {}

Index ==
  /\ phase = "index"
  /\ IF at < Len(modules)
     THEN /\ LET m == modules[at + 1] IN exports' = [exports EXCEPT ![m] = [n \in Names |-> Exported(m, n)]]
          /\ at' = at + 1 /\ UNCHANGED <<phase, queue, verdict>>
     ELSE /\ at' = 0
          /\ IF exports[Entry[1]][Entry[2]] = {}
             THEN phase' = "done" /\ verdict' = "unknown" /\ UNCHANGED queue
             ELSE phase' = "scan" /\ queue' = exports[Entry[1]][Entry[2]] /\ UNCHANGED verdict
          /\ UNCHANGED exports
  /\ UNCHANGED <<projectVars, gate, modules, scanned, reached, status, resultVars>>

(************************** trusted packages ******************************)

\* Versions are triples; the lockfile of the project is the only one it has.
Lockfile == IF Cardinality(lockfiles) = 1 THEN CHOOSE l \in lockfiles : TRUE ELSE None

Less(u, v) == \/ u[1] < v[1]
              \/ u[1] = v[1] /\ u[2] < v[2]
              \/ u[1] = v[1] /\ u[2] = v[2] /\ u[3] < v[3]

Satisfies(v, e) ==
  LET r == e.version IN
  CASE e.prefix = "" -> v = r
    [] e.prefix = "~" -> ~Less(v, r) /\ v[1] = r[1] /\ v[2] = r[2]
    [] e.prefix = "^" -> /\ ~Less(v, r)
                         /\ IF r[1] > 0 THEN v[1] = r[1]
                            ELSE IF r[2] > 0 THEN v[1] = 0 /\ v[2] = r[2]
                            ELSE v = <<0, 0, r[3]>>

\* What the lockfile says is installed of a package.  npm, bun and pnpm say it of
\* the project itself; classic yarn only lists what any module resolved, which
\* tells nothing unless all agree; later yarn and binary bun are not read.
Installed(l) ==
  CASE l.format \in {"package-lock.json", "bun.lock", "pnpm-lock.yaml"} -> l.root
    [] l.format = "yarn.lock" -> IF l.others \subseteq {l.root} THEN l.root ELSE None
    [] OTHER -> None

IsPackageCallTrusted(p, x) ==
  \E e \in catalog :
    /\ e.package = p /\ e.export = x
    /\ \/ e.unpinned
       \/ /\ Lockfile # None /\ Installed(Lockfile) # None
          /\ Satisfies(Installed(Lockfile), e)

(****************************** resolution ********************************)

Found(targets) == [to |-> targets, reason |-> "none", from |-> None, name |-> None]
Failed(reason, from, name) == [to |-> {}, reason |-> reason, from |-> from, name |-> name]

\* resolveBinding: what a name of a module stands for.
ResolveBinding(m, name) ==
  LET n == IF Bound(m, name).kind = "alias" THEN Bound(m, name).of ELSE name
      b == Bound(m, n)
  IN CASE b.kind = "function" -> Found({<<m, n, "function">>})
       [] b.kind = "import" ->
            IF b.from \in Packages THEN Failed("package", b.from, b.name)
            ELSE IF b.from \notin Collected THEN Failed("unknown-module", None, None)
            ELSE IF b.name # "*" /\ exports[b.from][b.name] # {} THEN Found(exports[b.from][b.name])
            ELSE Failed("unresolved", None, None)
       [] OTHER -> Failed("none", None, None)

\* classesForBinding, as module and name.
Classes(m, n) ==
  LET b == Bound(m, n) IN
  IF b.kind = "class" THEN {<<m, n>>}
  ELSE IF b.kind = "import" /\ b.from \in Collected /\ b.name \in Names
          /\ Bound(b.from, b.name).kind = "class" THEN {<<b.from, b.name>>}
  ELSE {}

Edge(c, s, to, problem, evidence, vouched) ==
  [from |-> c, site |-> s, to |-> to, problem |-> problem, evidence |-> evidence, vouched |-> vouched]
To(c, s, targets) == Edge(c, s, targets, "none", "likely-safe", {})
Problem(c, s, reason) == Edge(c, s, {}, reason, "likely-safe", {})
Trusted(c, s, p, x) == Edge(c, s, {}, "none", "likely-safe", {<<p, x>>})

Construction(c, s, class) ==
  LET b == Bound(class[1], class[2]) IN
  Edge(c, s, {<<class[1], class[2], "constructor">> : x \in b.constructor}, "none", b.fields, {})

\* Mutant: a local name does not hide the import it shadows.
IsLocallyShadowedNever(c, n) == FALSE

IsLocallyShadowed(c, n) == n \in BodyOf(c).declared

\* resolveInvocation of a plain callee: the edges it adds, none or one.
Invocation(c, s) ==
  LET m == Home(c)  r == ResolveBinding(m, s.name)  classes == Classes(m, s.name) IN
  IF r.to # {} THEN {To(c, s, r.to)}
  ELSE IF r.reason = "package" /\ ~IsLocallyShadowed(c, s.name) /\ IsPackageCallTrusted(r.from, r.name)
  THEN {Trusted(c, s, r.from, r.name)}
  ELSE IF s.form = "new" /\ classes # {} THEN {Construction(c, s, x) : x \in classes}
  ELSE IF Bound(m, s.name).kind = "class" THEN {}
  ELSE {Problem(c, s, IF r.reason = "none" THEN "unresolved" ELSE r.reason)}

\* resolveMemberAccess: a method of an instance of the class s names, or a member
\* of what the name imports.
MemberAccess(c, s) ==
  LET b == Bound(Home(c), s.name)  classes == Classes(Home(c), s.name) IN
  CASE s.form = "method" /\ classes # {} ->
         {IF Cardinality(Bound(x[1], x[2]).methods) = 1 THEN To(c, s, {<<x[1], x[2], "method">>})
          ELSE Problem(c, s, "ambiguous") : x \in classes}
    [] s.form = "member" /\ b.kind = "import" /\ ~IsLocallyShadowed(c, s.name)
       /\ IsPackageCallTrusted(b.from, "member") -> {Trusted(c, s, b.from, "member")}
    [] OTHER -> {Problem(c, s, "unresolved")}

EdgesAt(c, s) ==
  CASE s.form = "import" -> {Problem(c, s, "unknown-module")}
    [] s.form \in {"call", "new"} -> Invocation(c, s)
    [] OTHER -> MemberAccess(c, s)

CollectEdges(c) == UNION {EdgesAt(c, s) : s \in BodyOf(c).sites}
Edges == UNION {CollectEdges(c) : c \in reached}

(************************* analyzeProjectCallGraph ************************)

Rank(v) == CASE v = "likely-safe" -> 0 [] v = "unknown" -> 1 [] v = "refuted" -> 2
Join(v, w) == IF Rank(v) >= Rank(w) THEN v ELSE w

Dynamic(c) == \E s \in BodyOf(c).sites : s.form = "import"

\* What the syntax of a callable shows, with the initialization of its module.
\* A dynamic import is an effect by its code, but only unknown in the verdict.
Direct(c) == IF BodyOf(c).effect \/ files[Home(c)].initial = "refuted" THEN "refuted"
             ELSE IF Dynamic(c) THEN "unknown" ELSE "likely-safe"

Catalogued(p) == \E e \in catalog : e.package = p
UnknownImports(m) == {s \in Imports(m) : s \notin Collected /\ ~(s \in Packages /\ Catalogued(s))}

\* The next item of the queue; their order makes no difference.
Item == CHOOSE i \in queue : TRUE

Scan ==
  /\ phase = "scan" /\ queue # {}
  /\ IF Item \in Modules
     THEN /\ scanned' = scanned \cup {Item}
          /\ queue' = (queue \cup (Imports(Item) \cap Collected)) \ scanned'
          /\ UNCHANGED reached
     ELSE /\ reached' = reached \cup {Item}
          /\ queue' = (queue \cup (UNION {e.to : e \in CollectEdges(Item)}) \cup ({Home(Item)} \ scanned))
                        \ reached'
          /\ UNCHANGED scanned
  /\ UNCHANGED <<projectVars, gate, phase, modules, at, exports, status, verdict, resultVars>>

Settle ==
  /\ phase = "scan" /\ queue = {}
  /\ status' = [c \in reached |->
       IF \E e \in CollectEdges(c) : e.evidence = "refuted" THEN "refuted" ELSE Direct(c)]
  /\ phase' = "fixpoint"
  /\ UNCHANGED <<projectVars, gate, modules, at, exports, queue, scanned, reached, verdict, resultVars>>

\* An edge whose caller does not know yet what its callee is.
Raising == {e \in Edges : \E t \in e.to : Rank(status[t]) > Rank(status[e.from])}

Propagate ==
  /\ phase \in {"fixpoint", "again"} /\ Raising # {}
  /\ LET e == CHOOSE x \in Raising : TRUE IN
     status' = [status EXCEPT ![e.from] = Join(@, status[CHOOSE t \in e.to : TRUE])]
  /\ UNCHANGED <<projectVars, gate, phase, modules, at, exports, queue, scanned, reached, verdict, resultVars>>

\* Mutant: no second fixpoint after the problems have been attached.
NextRoundNone == "conclude"
NextRound == "again"

\* A call that was not resolved makes its caller unknown, and its callers.
Attach ==
  /\ phase = "fixpoint" /\ Raising = {}
  /\ status' = [c \in reached |->
       IF \E e \in CollectEdges(c) : e.problem # "none" THEN Join(status[c], "unknown") ELSE status[c]]
  /\ phase' = NextRound
  /\ UNCHANGED <<projectVars, gate, modules, at, exports, queue, scanned, reached, verdict, resultVars>>

Initialization ==
  IF \E m \in scanned : files[m].initial = "refuted" THEN "refuted"
  ELSE IF \E m \in scanned : UnknownImports(m) # {} THEN "unknown" ELSE "likely-safe"

Conclude ==
  /\ \/ phase = "again" /\ Raising = {}
     \/ phase = "conclude"
  /\ verdict' = Join(status[EntryTarget], Initialization)
  /\ phase' = "done"
  /\ UNCHANGED <<projectVars, gate, modules, at, exports, queue, scanned, reached, status, resultVars>>

Analyze == Collect \/ Index \/ Scan \/ Settle \/ Propagate \/ Attach \/ Conclude

(******************************** the gates *******************************)

\* The findings: what is unknown, and whether any code among them refutes.
UnknownEvidence ==
  {<<e.from, e.site, e.problem>> : e \in {x \in Edges : x.problem # "none"}}
    \cup UNION {{<<m, s>> : s \in UnknownImports(m)} : m \in scanned}
HasRefutingEvidence ==
  \/ verdict = "refuted"
  \/ \E c \in reached : BodyOf(c).effect \/ Dynamic(c)
  \/ \E e \in Edges : e.evidence = "refuted"
  \/ \E m \in scanned : files[m].initial = "refuted"

\* Mutants: the fingerprint leaves out the sources, or takes all that was collected.
FingerprintOfEvidence == [sources |-> {}, lockfile |-> Lockfile, evidence |-> UnknownEvidence]
FingerprintOfCollected == [sources |-> {<<m, files[m]>> : m \in Collected}, lockfile |-> Lockfile,
                           evidence |-> UnknownEvidence]
Fingerprint == [sources |-> {<<m, files[m]>> : m \in scanned}, lockfile |-> Lockfile,
                evidence |-> UnknownEvidence]
\* A case captured without one; a fingerprint has a lockfile.
NoAssumption == [sources |-> {}, lockfile |-> None, evidence |-> {}]

\* The entry exports a function itself: supportedCaptureTarget.
CaptureTarget == /\ Bound(Entry[1], Entry[2]).kind = "function"
                 /\ Entry[2] \in files[Entry[1]].exported
                 /\ files[Entry[1]].reexports[Entry[2]] = None
\* findExactExport tells the same by its own code.
ExactExport == CaptureTarget

Directives == files[Entry[1]].directives
ValidPolicy == /\ "assume-pure" \in Directives => "capture" \in Directives
               /\ "exclude" \in Directives => Directives = {"exclude"}
StillAnnotated == ValidPolicy /\ "capture" \in Directives

\* evaluateCaptureSource, and the case that is recorded, reviewed and accepted.
Capture ==
  /\ phase = "done" /\ gate = "capture" /\ outcome = None
  /\ \/ /\ CaptureTarget /\ ValidPolicy /\ "capture" \in Directives
        /\ \/ /\ verdict = "likely-safe"
              /\ case' = [assumption |-> NoAssumption]
           \/ /\ verdict = "unknown" /\ "assume-pure" \in Directives /\ Lockfile # None
              /\ case' = [assumption |-> Fingerprint]
        /\ reviewed' = [files |-> files, modules |-> modules, exports |-> exports, scanned |-> scanned,
                        reached |-> reached, status |-> status, evidence |-> UnknownEvidence]
        /\ outcome' = "captured"
     \/ /\ \/ ~(CaptureTarget /\ ValidPolicy /\ "capture" \in Directives)
           \/ verdict = "refuted"
           \/ verdict = "unknown" /\ ~("assume-pure" \in Directives /\ Lockfile # None)
        /\ outcome' = "refused" /\ UNCHANGED <<case, reviewed>>
  /\ UNCHANGED <<projectVars, gate, phase, modules, at, exports, queue, scanned, reached, status, verdict>>

\* prepareTarget and validateEligibility; "refuted" is EFFECT_REFUTED.
Decide ==
  IF ~ExactExport \/ ~StillAnnotated THEN "policy"
  ELSE IF HasRefutingEvidence THEN "refuted"
  ELSE IF case.assumption = NoAssumption THEN IF verdict = "likely-safe" THEN "run" ELSE "missing"
  ELSE IF "assume-pure" \notin Directives THEN "missing"
  ELSE IF Lockfile # None /\ case.assumption = Fingerprint THEN "run" ELSE "stale"

Verify ==
  /\ phase = "done" /\ gate = "verify" /\ outcome = None
  /\ outcome' = Decide
  /\ UNCHANGED <<projectVars, gate, phase, modules, at, exports, queue, scanned, reached, status, verdict,
                 case, reviewed>>

(****************************** the project *******************************)

NoExports == [m \in Modules |-> [n \in Names |-> {}]]
Blank == /\ phase' = "collect" /\ modules' = <<Entry[1]>> /\ at' = 0 /\ exports' = NoExports
         /\ queue' = {} /\ scanned' = {} /\ reached' = {} /\ status' = <<>>
         /\ verdict' = "unknown" /\ outcome' = None

\* An edit of a module or of the lockfiles before verification reads them.
Edit ==
  /\ gate = "verify" /\ phase = "collect" /\ at = 0 /\ edits < MaxEdits
  /\ edits' = edits + 1
  /\ \/ \E m \in Modules : \E t \in Edited[m] : files' = [files EXCEPT ![m] = t] /\ UNCHANGED lockfiles
     \/ lockfiles' \in Lockfiles /\ UNCHANGED files
  /\ UNCHANGED <<catalog, gate, phase, modules, at, exports, queue, scanned, reached, status, verdict,
                 resultVars>>

Ask ==
  /\ outcome = "captured" /\ gate = "capture"
  /\ gate' = "verify"
  /\ Blank /\ UNCHANGED <<projectVars, case, reviewed>>

Init ==
  /\ \E x \in Projects : files = x.files /\ catalog = x.catalog /\ lockfiles = x.lockfiles
  /\ gate = "capture" /\ phase = "collect" /\ modules = <<Entry[1]>> /\ at = 0 /\ exports = NoExports
  /\ queue = {} /\ scanned = {} /\ reached = {} /\ status = <<>> /\ verdict = "unknown"
  /\ case = None /\ reviewed = None /\ outcome = None /\ edits = 0

Next == Analyze \/ Capture \/ Edit \/ Ask \/ Verify
Spec == Init /\ [][Next]_vars

(******************************* properties *******************************)

(* A likely-safe verdict is a certificate: the callables the analysis found safe
   contain the entry and all they call, none of them has an effect or a call that
   was not resolved, and neither they nor what they import are in a module whose
   initialization has one.  Cycles of calls and callees scanned after their callers
   are what could break it.                                                  *)
Safe == {c \in reached : status[c] = "likely-safe"}
Sound ==
  phase = "done" /\ verdict = "likely-safe" =>
    /\ EntryTarget \in Safe
    /\ \A c \in Safe :
         /\ Direct(c) = "likely-safe" /\ Home(c) \in scanned
         /\ \A e \in CollectEdges(c) :
              e.problem = "none" /\ e.evidence = "likely-safe" /\ e.to \subseteq Safe
    /\ \A m \in scanned :
         /\ files[m].initial = "likely-safe"
         /\ \A s \in Imports(m) : s \in scanned \/ Catalogued(s)

\* What runs, by the scopes of the language and the module linker: a name of a
\* module stands for a declaration, through aliases, imports and re-exports.
RealName(m, n) == IF Bound(m, n).kind = "alias" THEN Bound(m, n).of ELSE n

RealExports ==
  LET real[d \in 0 .. Cardinality(Modules)] ==
        [m \in Modules |-> [n \in Names |->
           LET r == files[m].reexports[n]  k == RealName(m, n)
               next == IF r = None THEN Bound(m, k) ELSE r
           IN IF r = None /\ n \notin files[m].exported THEN {}
              ELSE IF r = None /\ Bound(m, k).kind # "import" THEN {<<m, k>>}
              ELSE IF d = 0 \/ next.from \notin Modules \/ next.name \notin Names THEN {}
              ELSE real[d - 1][next.from][next.name]]]
  IN real[Cardinality(Modules)]

Stands(m, name) ==
  LET n == RealName(m, name)  b == Bound(m, n) IN
  IF b.kind # "import" THEN {<<m, n>>}
  ELSE IF b.from \in Modules /\ b.name \in Names THEN RealExports[b.from][b.name] ELSE {}

\* An instance of a class runs its constructor or, if it has none, its base's.
Built(class) ==
  LET b == Bound(class[1], class[2]) IN
  IF b.constructor = {} /\ b.base # None THEN Stands(class[1], b.base) ELSE {class}

Runs(c, s) ==
  LET stands == Stands(Home(c), s.name) IN
  {t \in Callable :
     LET d == <<t[1], t[2]>>  k == Bound(t[1], t[2]) IN
     \/ t[3] = "function" /\ d \in stands /\ k.kind = "function" /\ s.form \in {"call", "new"}
     \/ /\ t[3] = "constructor" /\ k.kind = "class" /\ k.constructor # {} /\ s.form = "new"
        /\ \E x \in stands : Bound(x[1], x[2]).kind = "class" /\ d \in Built(x)
     \/ t[3] = "method" /\ d \in stands /\ k.kind = "class" /\ k.methods # {} /\ s.form = "method"}

\* The version the project itself resolves lies in the range that was vouched for.
InRange(v, e) ==
  LET r == e.version
      next == CASE e.prefix = "~" \/ (e.prefix = "^" /\ r[1] = 0 /\ r[2] > 0) -> <<r[1], r[2] + 1, 0>>
                [] e.prefix = "^" /\ r[1] > 0 -> <<r[1] + 1, 0, 0>>
                [] OTHER -> <<r[1], r[2], r[3] + 1>>
  IN ~Less(v, r) /\ Less(v, next)

Vouched(p, x) == \E e \in catalog : /\ e.package = p /\ e.export = x
                                    /\ \/ e.unpinned
                                       \/ \A l \in lockfiles : InRange(l.root, e)

BoundTo(c, s) == Bound(Home(c), RealName(Home(c), s.name))

Shadowed(c) == BodyOf(c).declared \cup BodyOf(c).unseen

Leaves(c, s) ==
  \/ s.form = "import" \/ s.name \in Shadowed(c)
  \/ BoundTo(c, s).kind = "import" /\ BoundTo(c, s).from \notin Modules

\* What the code does not look at: whether a parameter or a local hides what a
\* module of the project binds, whether it hides an import of a package other than as
\* an identifier, whether an imported module exports the class it declares or
\* re-exports another thing by that name, and the base of a class.
Overlooked(c, s) ==
  LET b == BoundTo(c, s)  inside == b.kind = "import" /\ b.from \in Modules IN
  \/ s.name \in Shadowed(c) /\ (b.kind # "import" \/ inside)
  \/ s.name \in BodyOf(c).unseen \ BodyOf(c).declared
  \/ inside /\ b.name \in Names /\ Bound(b.from, b.name).kind = "class"
     /\ files[b.from].reexports[b.name] # None
  \/ s.form = "new" /\ \E x \in Stands(Home(c), s.name) :
       LET k == Bound(x[1], x[2]) IN k.kind = "class" /\ k.constructor = {} /\ k.base # None

(* Nothing is guessed pure: a call the analysis passes as resolved runs the very
   callables its edges lead to, and if it leaves the project it goes to an export
   of a package that was vouched for, at a version in the range, under a name that
   no parameter or local shadows.  What the code overlooks is excepted.      *)
NothingGuessed ==
  phase = "done" =>
    \A c \in reached : \A s \in BodyOf(c).sites :
      LET edges == EdgesAt(c, s) IN
      \/ \E e \in edges : e.problem # "none"
      \/ Overlooked(c, s)
      \/ /\ Runs(c, s) \subseteq UNION {e.to : e \in edges}
         /\ Leaves(c, s) => /\ s.name \notin Shadowed(c)
                            /\ Vouched(BoundTo(c, s).from, IF s.form = "member" THEN "member" ELSE BoundTo(c, s).name)

(* A case replays under an assumption only while all the code it can reach reads as
   it did when the assumption was reviewed and leaves unknown just what it did
   then, and none of it shows an effect.                                     *)
AssumptionCovers ==
  outcome = "run" /\ case.assumption # NoAssumption =>
    /\ \A c \in reached : /\ files[Home(c)] = reviewed.files[Home(c)]
                          /\ ~BodyOf(c).effect
    /\ UnknownEvidence = reviewed.evidence

(* Both gates agree: what was captured is replayed while the project is not edited,
   although the two collect the modules each in its own way - except for a dynamic
   import, which capture takes for an unknown and verification for an effect, and
   for a re-export that only one of them resolves: verification collects what is
   re-exported as well, which also changes the order of indexing.            *)
GatesAgree ==
  /\ gate = "verify" /\ edits = 0
  /\ ~(\E c \in reached : Dynamic(c))
  /\ \A m \in scanned : exports[m] = reviewed.exports[m]
  => outcome \in {None, "run"}
=============================================================================
