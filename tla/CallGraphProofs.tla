---------------------------- MODULE CallGraphProofs ----------------------------
(***************************************************************************)
(* Proofs about the eligibility of V1 callables, for any project, catalog, *)
(* lockfiles and edits.                                                    *)
(***************************************************************************)
EXTENDS CallGraph, FiniteSetTheorems, SequenceTheorems, WellFoundedInduction, TLAPS

Verdicts == {"likely-safe", "unknown", "refuted"}

-----------------------------------------------------------------------------
(* The invariant *)

(* The functions, constructors and methods that the modules declare.       *)
Declared ==
  {c \in Callable :
     LET b == Bound(c[1], c[2]) IN
     \/ c[3] = "function" /\ b.kind = "function"
     \/ c[3] = "constructor" /\ b.kind = "class" /\ b.constructor # {}
     \/ c[3] = "method" /\ b.kind = "class" /\ b.methods # {}}

FilesOK == files = [m \in Modules |-> files[m]] /\ \A m \in Modules : Parsed(files[m])

ExportsOK ==
  /\ exports \in [Modules -> [Names -> SUBSET Callable]]
  /\ \A m \in Modules : \A n \in Names : exports[m][n] \subseteq Declared

Started == phase \notin {"collect", "index"}

Placed ==
  /\ phase \in {"collect", "index", "scan", "fixpoint", "again", "done"}
  /\ modules \in Seq(Modules) /\ at \in Nat
  /\ scanned \subseteq Modules /\ reached \subseteq Declared /\ queue \subseteq Modules \cup Declared
  /\ phase # "scan" => queue = {}
  /\ ~Started => scanned = {} /\ reached = {}
  /\ phase = "collect" => exports = NoExports

(* What is reached or scanned has been followed, or is still to be.        *)
Covered ==
  /\ \A c \in reached :
       /\ Home(c) \in scanned \cup queue
       /\ \A e \in CollectEdges(c) : e.to \subseteq reached \cup queue
  /\ \A m \in scanned : Imports(m) \cap Collected \subseteq scanned \cup queue
  /\ phase \in {"scan", "fixpoint", "again"} =>
       /\ exports[Entry[1]][Entry[2]] # {}
       /\ EntryTarget \in reached \cup queue

(* The status of a callable is never below what it shows itself.           *)
Raised ==
  phase \in {"fixpoint", "again"} =>
    /\ status \in [reached -> Verdicts]
    /\ \A c \in reached :
         /\ Rank(Direct(c)) <= Rank(status[c])
         /\ \A e \in CollectEdges(c) :
              /\ e.evidence = "refuted" => status[c] = "refuted"
              /\ phase = "again" /\ e.problem # "none" => status[c] # "likely-safe"

Decided ==
  /\ outcome \in {None, "captured", "refused", "policy", "refuted", "run", "missing", "stale"}
  /\ outcome # None => phase = "done"
  /\ gate = "verify" \/ outcome = "captured" =>
       (case.assumption # NoAssumption =>
          /\ \E S \in SUBSET Modules :
               case.assumption.sources = {<<m, reviewed.files[m]>> : m \in S}
          /\ case.assumption.evidence = reviewed.evidence)

IInv == FilesOK /\ ExportsOK /\ Placed /\ Covered /\ Raised /\ Sound /\ Decided /\ AssumptionCovers
-----------------------------------------------------------------------------
(* What the edges of a callable lead to *)

Verdict(v) == v \in Verdicts

(* The text of a callable, by its part.                                    *)
LEMMA BodyCases ==
  ASSUME NEW c
  PROVE  /\ c[3] = "function" => BodyOf(c) = Bound(c[1], c[2]).body
         /\ c[3] = "constructor" => BodyOf(c) = CHOOSE x \in Bound(c[1], c[2]).constructor : TRUE
         /\ c[3] = "method" => BodyOf(c) = CHOOSE x \in Bound(c[1], c[2]).methods : TRUE
<1> DEFINE b == Bound(c[1], c[2])
           k == c[3]
           BodyIs(body) ==
             body = CASE k = "function" -> b.body
                      [] k = "constructor" -> CHOOSE x \in b.constructor : TRUE
                      [] k = "method" -> CHOOSE x \in b.methods : TRUE
<1>1. BodyIs(BodyOf(c))
  BY DEF BodyOf
<1> HIDE DEF b, k
<1>2. ASSUME k = "function"
      PROVE  BodyOf(c) = b.body
  BY <1>1, <1>2, Zenon
<1>3. ASSUME k = "constructor"
      PROVE  BodyOf(c) = CHOOSE x \in b.constructor : TRUE
  BY <1>1, <1>3, Zenon
<1>4. ASSUME k = "method"
      PROVE  BodyOf(c) = CHOOSE x \in b.methods : TRUE
  BY <1>1, <1>4, Zenon
<1> QED
  BY <1>2, <1>3, <1>4, Zenon DEF b, k

(* The text of a callable that is declared.                                *)
LEMMA BodyTyped ==
  ASSUME FilesOK, NEW c \in Declared
  PROVE  BodyOf(c) \in Body
<1>1. /\ c[1] \in Modules /\ c[2] \in Names /\ c[3] \in {"function", "constructor", "method"}
      /\ c \in Callable
  BY DEF Declared, Callable
<1>2. Binding(Bound(c[1], c[2]))
  BY <1>1 DEF FilesOK, Parsed, Bound
<1>3. CASE c[3] = "function"
  <2>1. Bound(c[1], c[2]).kind = "function"
    BY <1>3 DEF Declared
  <2> QED
    BY <1>2, <1>3, <2>1, BodyCases DEF Binding
<1>4. CASE c[3] = "constructor"
  <2>1. Bound(c[1], c[2]).kind = "class" /\ Bound(c[1], c[2]).constructor # {}
    BY <1>4 DEF Declared
  <2>2. Bound(c[1], c[2]).constructor \subseteq Body
    BY <1>2, <2>1 DEF Binding
  <2>3. BodyOf(c) = CHOOSE x \in Bound(c[1], c[2]).constructor : TRUE
    BY <1>4, BodyCases
  <2> QED
    BY <2>1, <2>2, <2>3
<1>5. CASE c[3] = "method"
  <2>1. Bound(c[1], c[2]).kind = "class" /\ Bound(c[1], c[2]).methods # {}
    BY <1>5 DEF Declared
  <2>2. Bound(c[1], c[2]).methods \subseteq Body
    BY <1>2, <2>1 DEF Binding
  <2>3. BodyOf(c) = CHOOSE x \in Bound(c[1], c[2]).methods : TRUE
    BY <1>5, BodyCases
  <2> QED
    BY <2>1, <2>2, <2>3
<1> QED
  BY <1>1, <1>3, <1>4, <1>5

(* An edge from c that leads to what is declared.                          *)
Sane(e, c) == e.from = c /\ e.to \subseteq Declared /\ e.evidence \in {"likely-safe", "refuted"}

(* A name resolves to what is declared.                                    *)
LEMMA Resolved ==
  ASSUME FilesOK, ExportsOK, Collected \subseteq Modules, NEW m \in Modules, NEW n \in Names
  PROVE  ResolveBinding(m, n).to \subseteq Declared
<1> DEFINE k == IF Bound(m, n).kind = "alias" THEN Bound(m, n).of ELSE n
           b == Bound(m, k)
<1>1. Binding(Bound(m, n))
  BY DEF FilesOK, Parsed, Bound
<1>2. k \in Names
  BY <1>1 DEF Binding
<1>3. Binding(b)
  BY <1>2 DEF FilesOK, Parsed, Bound
<1>4. CASE b.kind = "function"
  <2>1. <<m, k, "function">> \in Declared
    BY <1>2, <1>4 DEF Declared, Callable
  <2> QED
    BY <1>4, <2>1 DEF ResolveBinding, Found
<1>5. CASE b.kind = "import"
  <2>1. b.name \in Names \cup {"*"}
    BY <1>3, <1>5 DEF Binding
  <2>2. ASSUME b.from \in Collected, b.name # "*"
        PROVE  exports[b.from][b.name] \subseteq Declared
    BY <2>1, <2>2 DEF ExportsOK
  <2> QED
    BY <1>5, <2>2 DEF ResolveBinding, Found, Failed
<1>6. CASE b.kind \notin {"function", "import"}
  BY <1>6 DEF ResolveBinding, Failed
<1> QED
  BY <1>4, <1>5, <1>6

(* A class is found where a name is bound to one.                          *)
LEMMA ClassesDeclared ==
  ASSUME FilesOK, Collected \subseteq Modules, NEW m \in Modules, NEW n \in Names,
         NEW x \in Classes(m, n)
  PROVE  x \in Modules \X Names /\ Bound(x[1], x[2]).kind = "class"
BY DEF Classes, Bound

(* A construction leads to the constructor of its class.                   *)
LEMMA ConstructionSane ==
  ASSUME FilesOK, NEW c, NEW s, NEW x \in Modules \X Names, Bound(x[1], x[2]).kind = "class"
  PROVE  Sane(Construction(c, s, x), c)
<1>1. Binding(Bound(x[1], x[2]))
  BY DEF FilesOK, Parsed, Bound
<1>2. Bound(x[1], x[2]).fields \in {"likely-safe", "refuted"}
  BY <1>1 DEF Binding
<1>3. {<<x[1], x[2], "constructor">> : k \in Bound(x[1], x[2]).constructor} \subseteq Declared
  BY DEF Declared, Callable
<1> QED
  BY <1>2, <1>3 DEF Sane, Construction, Edge

(* The other edges lead where they are told to.                            *)
LEMMA SimpleSane ==
  ASSUME NEW c, NEW s
  PROVE  /\ \A to \in SUBSET Declared : Sane(To(c, s, to), c)
         /\ \A reason : Sane(Problem(c, s, reason), c)
         /\ \A p, x : Sane(Trusted(c, s, p, x), c)
BY DEF Sane, To, Problem, Trusted, Edge

(* So do those of a plain callee,                                          *)
LEMMA InvocationSane ==
  ASSUME FilesOK, ExportsOK, Collected \subseteq Modules, NEW c \in Declared,
         NEW s \in Site, NEW e \in Invocation(c, s)
  PROVE  Sane(e, c)
<1>1. Home(c) \in Modules /\ s.name \in Names
  BY DEF Home, Declared, Callable, Site
<1>2. ResolveBinding(Home(c), s.name).to \in SUBSET Declared
  BY <1>1, Resolved
<1>3. \A x \in Classes(Home(c), s.name) : Sane(Construction(c, s, x), c)
  BY <1>1, ClassesDeclared, ConstructionSane
<1>4. \/ e = To(c, s, ResolveBinding(Home(c), s.name).to)
      \/ \E p, x : e = Trusted(c, s, p, x)
      \/ \E x \in Classes(Home(c), s.name) : e = Construction(c, s, x)
      \/ \E reason : e = Problem(c, s, reason)
  BY DEF Invocation
<1> QED
  BY <1>2, <1>3, <1>4, SimpleSane

(* those of an access to a member,                                         *)
LEMMA MemberSane ==
  ASSUME FilesOK, Collected \subseteq Modules, NEW c \in Declared,
         NEW s \in Site, NEW e \in MemberAccess(c, s)
  PROVE  Sane(e, c)
<1>1. Home(c) \in Modules /\ s.name \in Names
  BY DEF Home, Declared, Callable, Site
<1>2. ASSUME NEW x \in Classes(Home(c), s.name), Cardinality(Bound(x[1], x[2]).methods) = 1
      PROVE  {<<x[1], x[2], "method">>} \in SUBSET Declared
  <2>1. x \in Modules \X Names /\ Bound(x[1], x[2]).kind = "class"
    BY <1>1, ClassesDeclared
  <2>2. Bound(x[1], x[2]).methods # {}
    BY <1>2, FS_EmptySet
  <2> QED
    BY <2>1, <2>2 DEF Declared, Callable
<1>3. \/ \E x \in Classes(Home(c), s.name) :
           /\ Cardinality(Bound(x[1], x[2]).methods) = 1
           /\ e = To(c, s, {<<x[1], x[2], "method">>})
      \/ \E p, x : e = Trusted(c, s, p, x)
      \/ \E reason : e = Problem(c, s, reason)
  BY DEF MemberAccess
<1>4. ASSUME NEW x \in Classes(Home(c), s.name), Cardinality(Bound(x[1], x[2]).methods) = 1
      PROVE  Sane(To(c, s, {<<x[1], x[2], "method">>}), c)
  BY <1>2, <1>4, SimpleSane
<1> QED
  BY <1>3, <1>4, SimpleSane, Zenon

(* and with them all the edges of a callable.                              *)
LEMMA EdgesSane ==
  ASSUME FilesOK, ExportsOK, Collected \subseteq Modules, NEW c \in Declared,
         NEW e \in CollectEdges(c)
  PROVE  Sane(e, c)
<1>1. PICK s \in BodyOf(c).sites : e \in EdgesAt(c, s)
  BY DEF CollectEdges
<1>2. s \in Site
  BY <1>1, BodyTyped DEF Body
<1>3. CASE s.form = "import"
  BY <1>1, <1>3, SimpleSane DEF EdgesAt
<1>4. CASE s.form \in {"call", "new"}
  BY <1>1, <1>2, <1>4, InvocationSane DEF EdgesAt
<1>5. CASE s.form \in {"method", "member"}
  BY <1>1, <1>2, <1>5, MemberSane DEF EdgesAt
<1> QED
  BY <1>2, <1>3, <1>4, <1>5 DEF Site, Forms

-----------------------------------------------------------------------------
(* What stays as it is while the files and the exports do *)

Still == UNCHANGED <<files, catalog, lockfiles, modules, exports>>

(* What callables read while the files stay.                               *)
LEMMA SameBodies ==
  ASSUME UNCHANGED files
  PROVE  /\ \A m, n : Bound(m, n)' = Bound(m, n)
         /\ \A c : BodyOf(c)' = BodyOf(c)
         /\ Declared' = Declared /\ FilesOK' = FilesOK
         /\ \A c : Direct(c)' = Direct(c)
         /\ \A m : Imports(m)' = Imports(m)
<1>1. \A m, n : Bound(m, n)' = Bound(m, n)
  BY DEF Bound
<1>2. \A c : BodyOf(c)' = BodyOf(c)
  BY <1>1 DEF BodyOf
<1>3. Declared' = Declared
  BY <1>1 DEF Declared
<1>4. FilesOK' = FilesOK
  BY DEF FilesOK
<1>5. \A c : Dynamic(c)' = Dynamic(c)
  BY <1>2 DEF Dynamic
<1>6. \A c : Direct(c)' = Direct(c)
  BY <1>2, <1>5 DEF Direct
<1>7. \A m : Imports(m)' = Imports(m)
  BY <1>1 DEF Imports
<1> QED
  BY <1>1, <1>2, <1>3, <1>4, <1>6, <1>7

(* Which packages are trusted while catalog and lockfiles stay.            *)
LEMMA SameTrust ==
  ASSUME UNCHANGED <<catalog, lockfiles>>
  PROVE  \A p, x : IsPackageCallTrusted(p, x)' = IsPackageCallTrusted(p, x)
BY DEF IsPackageCallTrusted, Lockfile

(* Where the calls lead while nothing they are resolved by changes.        *)
LEMMA SameEdges ==
  ASSUME Still
  PROVE  \A c : CollectEdges(c)' = CollectEdges(c)
<1>1. UNCHANGED files /\ UNCHANGED <<catalog, lockfiles>> /\ Collected' = Collected /\ exports' = exports
  BY DEF Still, Collected
<1>2. /\ \A m, n : Bound(m, n)' = Bound(m, n)
      /\ \A c : BodyOf(c)' = BodyOf(c)
  BY <1>1, SameBodies
<1>3. \A p, x : IsPackageCallTrusted(p, x)' = IsPackageCallTrusted(p, x)
  BY <1>1, SameTrust
<1>4. \A m, n : ResolveBinding(m, n)' = ResolveBinding(m, n)
  BY <1>1, <1>2 DEF ResolveBinding
<1>5. \A m, n : Classes(m, n)' = Classes(m, n)
  BY <1>1, <1>2 DEF Classes
<1>6. \A c, s, x : Construction(c, s, x)' = Construction(c, s, x)
  BY <1>2 DEF Construction
<1>7. \A c, s : IsLocallyShadowed(c, s)' = IsLocallyShadowed(c, s)
  BY <1>2 DEF IsLocallyShadowed
<1>8. \A c, s : Invocation(c, s)' = Invocation(c, s)
  BY <1>2, <1>3, <1>4, <1>5, <1>6, <1>7 DEF Invocation
<1>9. \A c, s : MemberAccess(c, s)' = MemberAccess(c, s)
  BY <1>2, <1>3, <1>5, <1>7 DEF MemberAccess
<1>10. \A c, s : EdgesAt(c, s)' = EdgesAt(c, s)
  BY <1>8, <1>9 DEF EdgesAt
<1> QED
  BY <1>2, <1>10 DEF CollectEdges

-----------------------------------------------------------------------------
(* The steps of the analysis *)

(* The order of the verdicts.                                              *)
LEMMA RankCases ==
  Rank("likely-safe") = 0 /\ Rank("unknown") = 1 /\ Rank("refuted") = 2
<1>1. Rank("likely-safe") = 0
  BY Zenon DEF Rank
<1>2. Rank("unknown") = 1
  BY Zenon DEF Rank
<1>3. Rank("refuted") = 2
  BY Zenon DEF Rank
<1> QED
  BY <1>1, <1>2, <1>3

(* The join of two verdicts is above both.                                 *)
LEMMA Joining ==
  ASSUME NEW v \in Verdicts, NEW w \in Verdicts
  PROVE  /\ Join(v, w) \in Verdicts
         /\ Rank(v) <= Rank(Join(v, w)) /\ Rank(w) <= Rank(Join(v, w))
         /\ Join(v, w) = "likely-safe" => v = "likely-safe" /\ w = "likely-safe"
         /\ v = "refuted" => Join(v, w) = "refuted"
BY RankCases DEF Verdicts, Join

(* What a callable shows itself is a verdict.                              *)
LEMMA DirectTyped ==
  ASSUME NEW c
  PROVE  Direct(c) \in Verdicts
BY DEF Direct, Verdicts

(* Modules are not callables, so the queue can hold both.                  *)
LEMMA Apart ==
  ASSUME modules \in Seq(Modules)
  PROVE  Modules \cap Declared = {} /\ Collected \subseteq Modules
BY CallGraphAssumption DEF Declared, Collected, ToSet

(* A step of the analysis that does not end it leaves the gates alone.     *)
LEMMA Undecided ==
  ASSUME IInv, phase # "done", UNCHANGED <<case, reviewed, outcome, gate>>
  PROVE  Decided' /\ AssumptionCovers'
<1>1. outcome = None
  BY DEF IInv, Decided
<1>2. outcome' # "run"
  BY <1>1, CallGraphAssumption
<1>3. Decided'
  BY <1>1 DEF IInv, Decided
<1> QED
  BY <1>2, <1>3 DEF AssumptionCovers

(* Modules are collected.                                                  *)
LEMMA CollectStep ==
  ASSUME IInv, Collect
  PROVE  IInv'
<1>1. Decided' /\ AssumptionCovers'
  BY Undecided DEF Collect, resultVars
<1>2. UNCHANGED files /\ exports' = exports /\ queue' = {} /\ scanned' = {} /\ reached' = {}
      /\ phase' \in {"collect", "index"} /\ phase = "collect"
  BY DEF Collect, projectVars, IInv, Placed, Started
<1>3. FilesOK' /\ ExportsOK'
  BY <1>2, SameBodies DEF IInv, ExportsOK
<1>4. modules' \in Seq(Modules)
  <2> DEFINE S == Follows(modules[at + 1]) \ ToSet(modules)
  <2>1. S \subseteq Modules /\ IsFiniteSet(S)
    BY CallGraphAssumption, FS_Subset DEF Follows
  <2>2. SetToSeq(S) \in Seq(S)
    <3>1. Cardinality(S) \in Nat /\ ExistsBijection(1 .. Cardinality(S), S)
      BY <2>1, FS_CardinalityType
    <3>2. PICK f \in Bijection(1 .. Cardinality(S), S) : TRUE
      BY <3>1 DEF ExistsBijection
    <3>3. f \in [1 .. Cardinality(S) -> S] /\ IsInjective(f)
      BY <3>2 DEF Bijection, Injection, IsInjective
    <3>4. SetToSeq(S) \in [1 .. Cardinality(S) -> S]
      BY <3>3 DEF SetToSeq
    <3> QED
      BY <3>1, <3>4, SeqDef
  <2>3. SetToSeq(S) \in Seq(Modules)
    BY <2>1, <2>2
  <2>4. modules \o SetToSeq(S) \in Seq(Modules)
    BY <2>3 DEF IInv, Placed
  <2> QED
    BY <2>4 DEF Collect, IInv, Placed
<1>5. Placed'
  BY <1>2, <1>4 DEF Collect, IInv, Placed, Started
<1>6. Covered' /\ Raised' /\ Sound'
  BY <1>2 DEF Covered, Raised, Sound
<1> QED
  BY <1>1, <1>3, <1>5, <1>6 DEF IInv

(* The exports of a module are indexed.                                    *)
LEMMA IndexStep ==
  ASSUME IInv, Index
  PROVE  IInv'
<1>1. Decided' /\ AssumptionCovers'
  BY Undecided DEF Index, resultVars
<1>2. /\ UNCHANGED <<files, modules, scanned, reached, status>> /\ scanned = {} /\ reached = {}
      /\ queue = {} /\ phase = "index" /\ at' \in Nat
  BY DEF Index, projectVars, IInv, Placed, Started
<1>3. FilesOK' /\ Declared' = Declared /\ Collected \subseteq Modules
  BY <1>2, SameBodies, Apart DEF IInv, Placed
<1>4. CASE at < Len(modules)
  <2> DEFINE m == modules[at + 1]
  <2>1. m \in Modules
    BY <1>4, ElementOfSeq DEF IInv, Placed
  <2>2. ASSUME NEW n \in Names
        PROVE  Exported(m, n) \subseteq Declared
    <3>1. CASE files[m].reexports[n] # None
      <4> DEFINE r == files[m].reexports[n]
      <4>1. r.name \in Names
        BY <2>1, <3>1 DEF IInv, FilesOK, Parsed
      <4>2. r.from \in Collected => exports[r.from][r.name] \subseteq Declared
        BY <1>3, <4>1 DEF IInv, ExportsOK
      <4> QED
        BY <3>1, <4>2 DEF Exported
    <3>2. CASE files[m].reexports[n] = None
      <4>1. Bound(m, n).kind = "function" => <<m, n, "function">> \in Declared
        BY <2>1 DEF Declared, Callable
      <4> QED
        BY <3>2, <4>1 DEF Exported
    <3> QED
      BY <3>1, <3>2
  <2>3. exports' = [exports EXCEPT ![m] = [n \in Names |-> Exported(m, n)]]
        /\ phase' = phase /\ queue' = queue
    BY <1>4 DEF Index
  <2>4. ExportsOK'
    <3>1. Declared \subseteq Callable
      BY DEF Declared
    <3>2. [n \in Names |-> Exported(m, n)] \in [Names -> SUBSET Callable]
      BY <2>2, <3>1
    <3>3. exports' \in [Modules -> [Names -> SUBSET Callable]]
      BY <2>1, <2>3, <3>2 DEF IInv, ExportsOK
    <3>4. \A k \in Modules : \A n \in Names : exports'[k][n] \subseteq Declared
      BY <2>1, <2>2, <2>3 DEF IInv, ExportsOK
    <3> QED
      BY <1>3, <3>3, <3>4 DEF ExportsOK
  <2>5. Placed' /\ Covered' /\ Raised' /\ Sound'
    BY <1>2, <1>3, <2>3 DEF IInv, Placed, Started, Covered, Raised, Sound
  <2> QED
    BY <1>1, <1>3, <2>4, <2>5 DEF IInv
<1>5. CASE ~(at < Len(modules))
  <2>1. exports' = exports /\ ExportsOK'
    BY <1>3, <1>5 DEF Index, IInv, ExportsOK
  <2>2. CASE exports[Entry[1]][Entry[2]] = {}
    <3>1. phase' = "done" /\ verdict' = "unknown" /\ queue' = queue
      BY <1>5, <2>2 DEF Index
    <3>2. Placed' /\ Covered' /\ Raised' /\ Sound'
      BY <1>2, <1>3, <3>1 DEF IInv, Placed, Started, Covered, Raised, Sound
    <3> QED
      BY <1>1, <1>3, <2>1, <3>2 DEF IInv
  <2>3. CASE exports[Entry[1]][Entry[2]] # {}
    <3>1. phase' = "scan" /\ queue' = exports[Entry[1]][Entry[2]]
      BY <1>5, <2>3 DEF Index
    <3>2. exports[Entry[1]][Entry[2]] \subseteq Declared
      BY CallGraphAssumption DEF IInv, ExportsOK
    <3>3. EntryTarget' = EntryTarget
      BY <2>1 DEF EntryTarget
    <3>4. EntryTarget \in queue'
      BY <2>3, <3>1 DEF EntryTarget
    <3>5. Placed' /\ Raised' /\ Sound'
      BY <1>2, <1>3, <3>1, <3>2 DEF IInv, Placed, Started, Raised, Sound
    <3>6. Covered'
      BY <1>2, <2>1, <2>3, <3>1, <3>3, <3>4 DEF Covered
    <3> QED
      BY <1>1, <1>3, <2>1, <3>5, <3>6 DEF IInv
  <2> QED
    BY <2>2, <2>3
<1> QED
  BY <1>4, <1>5

(* What the steps after indexing leave as it is.                           *)
LEMMA Indexed ==
  ASSUME IInv, Still
  PROVE  /\ FilesOK' /\ ExportsOK'
         /\ Declared' = Declared /\ Collected' = Collected /\ EntryTarget' = EntryTarget
         /\ \A c : CollectEdges(c)' = CollectEdges(c)
         /\ \A c : Direct(c)' = Direct(c)
         /\ \A m : Imports(m)' = Imports(m)
<1>1. UNCHANGED files /\ exports' = exports /\ modules' = modules
  BY DEF Still
<1>2. /\ FilesOK' = FilesOK /\ Declared' = Declared
      /\ \A c : Direct(c)' = Direct(c)
      /\ \A m : Imports(m)' = Imports(m)
  BY <1>1, SameBodies
<1>3. ExportsOK'
  BY <1>1, <1>2 DEF IInv, ExportsOK
<1>4. Collected' = Collected /\ EntryTarget' = EntryTarget
  BY <1>1 DEF Collected, EntryTarget
<1>5. FilesOK'
  BY <1>2 DEF IInv
<1> QED
  BY <1>2, <1>3, <1>4, <1>5, SameEdges

(* A module or a callable is scanned: what it leads to is queued.          *)
LEMMA ScanStep ==
  ASSUME IInv, Scan
  PROVE  IInv'
<1>1. Decided' /\ AssumptionCovers'
  BY Undecided DEF Scan, resultVars
<1>2. /\ Still /\ UNCHANGED <<phase, at, exports, modules, files>>
      /\ phase = "scan" /\ queue # {} /\ Item \in queue
  BY DEF Scan, projectVars, Still, Item
<1>3. /\ FilesOK' /\ ExportsOK'
      /\ Declared' = Declared /\ Collected' = Collected /\ EntryTarget' = EntryTarget
      /\ \A c : CollectEdges(c)' = CollectEdges(c)
      /\ \A m : Imports(m)' = Imports(m)
  BY <1>2, Indexed
<1>4. /\ Modules \cap Declared = {} /\ Collected \subseteq Modules
      /\ scanned \subseteq Modules /\ reached \subseteq Declared /\ queue \subseteq Modules \cup Declared
  BY Apart DEF IInv, Placed
<1>5. \A c \in Declared : Home(c) \in Modules /\ \A e \in CollectEdges(c) : e.to \subseteq Declared
  <2>1. \A c \in Declared : \A e \in CollectEdges(c) : Sane(e, c)
    BY <1>4, EdgesSane DEF IInv
  <2> QED
    BY <2>1 DEF Sane, Home, Declared, Callable
<1>6. EntryTarget \in Declared /\ exports[Entry[1]][Entry[2]] # {}
  BY <1>2, CallGraphAssumption DEF IInv, Covered, ExportsOK, EntryTarget
<1>7. Raised' /\ Sound'
  BY <1>2 DEF Raised, Sound
<1>8. CASE Item \in Modules
  <2>1. /\ scanned' = scanned \cup {Item} /\ reached' = reached
        /\ queue' = (queue \cup (Imports(Item) \cap Collected)) \ scanned'
    BY <1>8 DEF Scan
  <2>2. Placed'
    BY <1>2, <1>3, <1>4, <1>8, <2>1 DEF IInv, Placed, Started
  <2>3. Covered'
    <3>1. \A c \in reached :
            /\ Home(c) \in scanned' \cup queue'
            /\ \A e \in CollectEdges(c) : e.to \subseteq reached' \cup queue'
      BY <1>4, <1>5, <1>8, <2>1 DEF IInv, Covered
    <3>2. \A m \in scanned' : Imports(m) \cap Collected \subseteq scanned' \cup queue'
      BY <2>1 DEF IInv, Covered
    <3>3. EntryTarget \in reached' \cup queue'
      BY <1>2, <1>4, <1>6, <1>8, <2>1 DEF IInv, Covered
    <3> QED
      BY <1>2, <1>3, <1>6, <2>1, <3>1, <3>2, <3>3 DEF Covered
  <2> QED
    BY <1>1, <1>3, <1>7, <2>2, <2>3 DEF IInv
<1>9. CASE Item \notin Modules
  <2> DEFINE callees == UNION {e.to : e \in CollectEdges(Item)}
             added == callees \cup ({Home(Item)} \ scanned)
  <2>1. /\ reached' = reached \cup {Item} /\ scanned' = scanned
        /\ queue' = (queue \cup added) \ reached'
    BY <1>9 DEF Scan
  <2>2. Item \in Declared
    BY <1>2, <1>4, <1>9
  <2>3. callees \subseteq Declared /\ Home(Item) \in Modules
    BY <1>5, <2>2
  <2>6. \A e \in CollectEdges(Item) : e.to \subseteq added
    OBVIOUS
  <2>7. added \subseteq Modules \cup Declared /\ Home(Item) \in scanned \cup added
    BY <2>3
  <2> HIDE DEF callees, added
  <2>4. Placed'
    BY <1>2, <1>3, <1>4, <2>1, <2>2, <2>7 DEF IInv, Placed, Started
  <2>5. Covered'
    <3>1. \A c \in reached' :
            /\ Home(c) \in scanned' \cup queue'
            /\ \A e \in CollectEdges(c) : e.to \subseteq reached' \cup queue'
      <4> SUFFICES ASSUME NEW c \in reached'
                   PROVE  /\ Home(c) \in scanned' \cup queue'
                          /\ \A e \in CollectEdges(c) : e.to \subseteq reached' \cup queue'
        OBVIOUS
      <4>1. Home(c) \in Modules
        BY <1>4, <1>5, <2>1, <2>2
      <4>2. CASE c \in reached
        BY <1>4, <2>1, <2>2, <4>1, <4>2 DEF IInv, Covered
      <4>3. CASE c = Item
        <5>1. Home(c) \in scanned' \cup queue'
          BY <1>4, <2>1, <2>2, <2>7, <4>1, <4>3
        <5>2. \A e \in CollectEdges(c) : e.to \subseteq added \cap Declared
          BY <1>5, <2>2, <2>6, <4>3
        <5> QED
          BY <2>1, <5>1, <5>2
      <4> QED
        BY <2>1, <4>2, <4>3
    <3>2. \A m \in scanned' : Imports(m) \cap Collected \subseteq scanned' \cup queue'
      BY <1>4, <2>1, <2>2 DEF IInv, Covered
    <3>3. EntryTarget \in reached' \cup queue'
      BY <1>2, <2>1 DEF IInv, Covered
    <3> QED
      BY <1>2, <1>3, <1>6, <2>1, <3>1, <3>2, <3>3 DEF Covered
  <2> QED
    BY <1>1, <1>3, <1>7, <2>4, <2>5 DEF IInv
<1> QED
  BY <1>8, <1>9

(* Placed and Covered once the queue is empty.                             *)
LEMMA Finished ==
  ASSUME IInv, Still, phase \in {"scan", "fixpoint", "again"}, phase' \in {"fixpoint", "again", "done"},
         queue = {}, UNCHANGED <<at, queue, scanned, reached>>
  PROVE  FilesOK' /\ ExportsOK' /\ Placed' /\ Covered'
<1>1. UNCHANGED <<exports, modules>>
  BY DEF Still
<1> QED
  BY <1>1, Indexed DEF IInv, Placed, Started, Covered

(* When nothing is queued, each callable has its own verdict,              *)
LEMMA SettleStep ==
  ASSUME IInv, Settle
  PROVE  IInv'
<1>1. Decided' /\ AssumptionCovers'
  BY Undecided DEF Settle, resultVars
<1>2. /\ Still /\ phase = "scan" /\ phase' = "fixpoint" /\ queue = {}
      /\ UNCHANGED <<at, queue, scanned, reached>>
  BY DEF Settle, projectVars, Still
<1>3. FilesOK' /\ ExportsOK' /\ Placed' /\ Covered'
  BY <1>2, Finished
<1>4. Raised'
  <2>1. status' = [c \in reached |->
          IF \E e \in CollectEdges(c) : e.evidence = "refuted" THEN "refuted" ELSE Direct(c)]
    BY DEF Settle
  <2>2. status' \in [reached -> Verdicts]
    BY <2>1, DirectTyped DEF Verdicts
  <2>3. \A c \in reached : /\ Rank(Direct(c)) <= Rank(status'[c])
                           /\ \A e \in CollectEdges(c) : e.evidence = "refuted" => status'[c] = "refuted"
    BY <2>1, DirectTyped, RankCases DEF Verdicts
  <2> QED
    BY <1>2, <2>2, <2>3, Indexed DEF Raised
<1>5. Sound'
  BY <1>2 DEF Sound
<1> QED
  BY <1>1, <1>3, <1>4, <1>5 DEF IInv

(* which a caller takes over from its callee,                              *)
LEMMA PropagateStep ==
  ASSUME IInv, Propagate
  PROVE  IInv'
<1>1. Decided' /\ AssumptionCovers'
  BY Undecided DEF Propagate, resultVars
<1>2. /\ Still /\ phase \in {"fixpoint", "again"} /\ phase' = phase /\ queue = {}
      /\ UNCHANGED <<at, queue, scanned, reached>>
  BY DEF Propagate, projectVars, Still, IInv, Placed
<1>3. FilesOK' /\ ExportsOK' /\ Placed' /\ Covered'
  BY <1>2, Finished
<1>4. Raised'
  <2> DEFINE e == CHOOSE x \in Raising : TRUE
             t == CHOOSE x \in e.to : TRUE
  <2>1. e \in Raising /\ status' = [status EXCEPT ![e.from] = Join(@, status[t])]
    BY DEF Propagate
  <2>2. PICK c \in reached : e \in CollectEdges(c)
    BY <2>1 DEF Raising, Edges
  <2>3. e.from = c /\ e.to # {}
    <3>1. Sane(e, c)
      BY <2>2, Apart, EdgesSane DEF IInv, Placed
    <3> QED
      BY <2>1, <3>1 DEF Sane, Raising
  <2>4. t \in reached
    BY <1>2, <2>2, <2>3 DEF IInv, Covered
  <2>5. status \in [reached -> Verdicts]
    BY <1>2 DEF IInv, Raised
  <2> HIDE DEF e, t
  <2>6. status' \in [reached -> Verdicts] /\ \A d \in reached \ {c} : status'[d] = status[d]
    BY <2>1, <2>2, <2>3, <2>4, <2>5, Joining
  <2>7. status'[c] = Join(status[c], status[t])
    BY <2>1, <2>2, <2>3, <2>5
  <2>8. \A d \in reached : /\ Rank(status[d]) <= Rank(status'[d])
                           /\ status[d] = "refuted" => status'[d] = "refuted"
                           /\ status[d] # "likely-safe" => status'[d] # "likely-safe"
    BY <2>2, <2>4, <2>5, <2>6, <2>7, Joining, RankCases DEF Verdicts
  <2>9. \A d \in reached : Direct(d) \in Verdicts /\ Rank(Direct(d)) <= Rank(status'[d])
    BY <1>2, <2>5, <2>6, <2>8, DirectTyped, RankCases DEF IInv, Raised, Verdicts
  <2> QED
    BY <1>2, <2>6, <2>8, <2>9, Indexed DEF IInv, Raised
<1>5. Sound'
  BY <1>2 DEF Sound
<1> QED
  BY <1>1, <1>3, <1>4, <1>5 DEF IInv

(* and the problems of its calls are attached to it.                       *)
LEMMA AttachStep ==
  ASSUME IInv, Attach
  PROVE  IInv'
<1>1. Decided' /\ AssumptionCovers'
  BY Undecided DEF Attach, resultVars
<1>2. /\ Still /\ phase = "fixpoint" /\ phase' = "again" /\ queue = {}
      /\ UNCHANGED <<at, queue, scanned, reached>>
  BY DEF Attach, NextRound, projectVars, Still, IInv, Placed
<1>3. FilesOK' /\ ExportsOK' /\ Placed' /\ Covered'
  BY <1>2, Finished
<1>4. Raised'
  <2>1. status \in [reached -> Verdicts]
    BY <1>2 DEF IInv, Raised
  <2>2. status' = [c \in reached |->
          IF \E e \in CollectEdges(c) : e.problem # "none" THEN Join(status[c], "unknown") ELSE status[c]]
    BY DEF Attach
  <2>3. \A c \in reached : status[c] \in Verdicts /\ "unknown" \in Verdicts
    BY <2>1 DEF Verdicts
  <2>4. status' \in [reached -> Verdicts]
    BY <2>2, <2>3, Joining
  <2>5. \A c \in reached : /\ Rank(status[c]) <= Rank(status'[c])
                           /\ status[c] = "refuted" => status'[c] = "refuted"
                           /\ \A e \in CollectEdges(c) : e.problem # "none" => status'[c] # "likely-safe"
    BY <2>2, <2>3, Joining, RankCases DEF Verdicts
  <2>6. \A d \in reached : Rank(Direct(d)) <= Rank(status'[d])
    BY <1>2, <2>1, <2>4, <2>5, DirectTyped, RankCases DEF IInv, Raised, Verdicts
  <2> QED
    BY <1>2, <2>4, <2>5, <2>6, Indexed DEF IInv, Raised
<1>5. Sound'
  BY <1>2 DEF Sound
<1> QED
  BY <1>1, <1>3, <1>4, <1>5 DEF IInv

(* At the end nothing is below what it calls: the verdict certifies.       *)
LEMMA ConcludeStep ==
  ASSUME IInv, Conclude
  PROVE  IInv'
<1>1. Decided' /\ AssumptionCovers'
  BY Undecided DEF Conclude, resultVars, IInv, Placed
<1>2. /\ Still /\ phase = "again" /\ phase' = "done" /\ queue = {} /\ Raising = {}
      /\ UNCHANGED <<at, queue, scanned, reached, status, files, catalog>>
      /\ verdict' = Join(status[EntryTarget], Initialization)
  BY DEF Conclude, projectVars, Still, IInv, Placed
<1>3. FilesOK' /\ ExportsOK' /\ Placed' /\ Covered'
  BY <1>2, Finished
<1>4. Raised'
  BY <1>2 DEF Raised
<1>5. ASSUME verdict' = "likely-safe"
      PROVE  /\ EntryTarget \in Safe
             /\ \A c \in Safe :
                  /\ Direct(c) = "likely-safe" /\ Home(c) \in scanned
                  /\ \A e \in CollectEdges(c) :
                       e.problem = "none" /\ e.evidence = "likely-safe" /\ e.to \subseteq Safe
             /\ \A m \in scanned :
                  /\ files[m].initial = "likely-safe"
                  /\ \A s \in Imports(m) : s \in scanned \/ Catalogued(s)
  <2>1. EntryTarget \in reached /\ status \in [reached -> Verdicts]
    BY <1>2 DEF IInv, Covered, Raised
  <2>2. Initialization \in Verdicts /\ status[EntryTarget] \in Verdicts
    BY <2>1 DEF Initialization, Verdicts
  <2>3. Initialization = "likely-safe" /\ status[EntryTarget] = "likely-safe"
    BY <1>2, <1>5, <2>2, Joining
  <2>4. ASSUME NEW c \in Safe
        PROVE  /\ Direct(c) = "likely-safe" /\ Home(c) \in scanned
               /\ \A e \in CollectEdges(c) :
                    e.problem = "none" /\ e.evidence = "likely-safe" /\ e.to \subseteq Safe
    <3>1. c \in reached /\ status[c] = "likely-safe"
      BY DEF Safe
    <3>2. Direct(c) = "likely-safe"
      BY <1>2, <3>1, DirectTyped, RankCases DEF IInv, Raised, Verdicts
    <3>3. Home(c) \in scanned
      BY <1>2, <3>1 DEF IInv, Covered
    <3>4. ASSUME NEW e \in CollectEdges(c)
          PROVE  e.problem = "none" /\ e.evidence = "likely-safe" /\ e.to \subseteq Safe
      <4>1. Sane(e, c)
        BY <3>1, Apart, EdgesSane DEF IInv, Placed
      <4>2. e.problem = "none" /\ e.evidence = "likely-safe"
        BY <1>2, <3>1, <4>1 DEF IInv, Raised, Sane
      <4>3. e \in Edges /\ e.to \subseteq reached
        BY <1>2, <3>1 DEF Edges, IInv, Covered
      <4>4. \A t \in e.to : ~(Rank(status[t]) > Rank(status[e.from]))
        BY <1>2, <4>3 DEF Raising
      <4>5. ASSUME NEW t \in e.to
            PROVE  t \in reached /\ status[t] = "likely-safe"
        <5>1. ~(Rank(status[t]) > 0)
          BY <3>1, <4>1, <4>4, RankCases DEF Sane
        <5> QED
          BY <2>1, <4>3, <5>1, RankCases DEF Verdicts
      <4> QED
        BY <4>2, <4>5 DEF Safe
    <3> QED
      BY <3>2, <3>3, <3>4
  <2>5. ASSUME NEW m \in scanned
        PROVE  /\ files[m].initial = "likely-safe"
               /\ \A s \in Imports(m) : s \in scanned \/ Catalogued(s)
    <3>1. files[m].initial # "refuted" /\ UnknownImports(m) = {}
      BY <2>3 DEF Initialization
    <3>2. files[m].initial \in {"likely-safe", "refuted"}
      BY DEF IInv, Placed, FilesOK, Parsed
    <3>3. \A s \in Imports(m) : s \in Collected \/ Catalogued(s)
      BY <3>1 DEF UnknownImports
    <3>4. Imports(m) \cap Collected \subseteq scanned
      BY <1>2 DEF IInv, Covered
    <3> QED
      BY <3>1, <3>2, <3>3, <3>4
  <2> QED
    BY <2>1, <2>3, <2>4, <2>5 DEF Safe
<1>6. Sound'
  <2>1. /\ EntryTarget' = EntryTarget /\ Safe' = Safe
        /\ \A c : CollectEdges(c)' = CollectEdges(c)
        /\ \A c : Direct(c)' = Direct(c)
        /\ \A m : Imports(m)' = Imports(m)
        /\ \A p : Catalogued(p)' = Catalogued(p)
    BY <1>2, Indexed DEF Safe, Catalogued
  <2> QED
    BY <1>2, <1>5, <2>1 DEF Sound
<1> QED
  BY <1>1, <1>3, <1>4, <1>6 DEF IInv

-----------------------------------------------------------------------------
(* The gates *)

Unmoved == UNCHANGED <<phase, at, queue, scanned, reached, status, verdict>>

(* A step of a gate leaves what the analysis found as it is.               *)
LEMMA GateStep ==
  ASSUME IInv, Still, Unmoved
  PROVE  FilesOK' /\ ExportsOK' /\ Placed' /\ Covered' /\ Raised' /\ Sound'
<1>1. UNCHANGED <<exports, modules, files, catalog, phase, at, queue, scanned, reached, status, verdict>>
  BY DEF Still, Unmoved
<1>2. FilesOK' /\ ExportsOK' /\ Placed' /\ Covered' /\ Raised'
  BY <1>1, Indexed DEF IInv, Placed, Started, Covered, Raised
<1>3. Sound'
  <2>1. /\ EntryTarget' = EntryTarget /\ Safe' = Safe
        /\ \A c : CollectEdges(c)' = CollectEdges(c)
        /\ \A c : Direct(c)' = Direct(c)
        /\ \A m : Imports(m)' = Imports(m)
        /\ \A p : Catalogued(p)' = Catalogued(p)
    BY <1>1, Indexed DEF Safe, Catalogued
  <2> QED
    BY <1>1, <2>1 DEF IInv, Sound
<1> QED
  BY <1>2, <1>3

(* Capture records the case with what was reviewed.                        *)
LEMMA CaptureStep ==
  ASSUME IInv, Capture
  PROVE  IInv'
<1>1. /\ Still /\ Unmoved /\ gate' = gate /\ gate = "capture" /\ phase = "done" /\ phase' = "done"
      /\ outcome' \in {"captured", "refused"}
      /\ outcome' = "captured" =>
           /\ reviewed'.files = files /\ reviewed'.evidence = UnknownEvidence
           /\ case'.assumption \in {NoAssumption, Fingerprint}
  BY DEF Capture, projectVars, Still, Unmoved
<1>2. Fingerprint.sources = {<<m, files[m]>> : m \in scanned} /\ Fingerprint.evidence = UnknownEvidence
  BY DEF Fingerprint
<1>3. scanned \in SUBSET Modules
  BY DEF IInv, Placed
<1>4. outcome' = "captured" /\ case'.assumption # NoAssumption =>
        /\ \E S \in SUBSET Modules :
             case'.assumption.sources = {<<m, reviewed'.files[m]>> : m \in S}
        /\ case'.assumption.evidence = reviewed'.evidence
  <2> SUFFICES ASSUME outcome' = "captured", case'.assumption # NoAssumption
               PROVE  /\ case'.assumption.sources = {<<m, reviewed'.files[m]>> : m \in scanned}
                      /\ case'.assumption.evidence = reviewed'.evidence
    BY <1>3
  <2>1. case'.assumption = Fingerprint /\ reviewed'.files = files
    BY <1>1
  <2> QED
    BY <1>1, <1>2, <2>1
<1>5. Decided'
  BY <1>1, <1>4 DEF Decided
<1>6. AssumptionCovers'
  BY <1>1 DEF AssumptionCovers
<1> QED
  BY <1>1, <1>5, <1>6, GateStep DEF IInv

(* When verification runs a case that was captured under an assumption.    *)
LEMMA DecideCases ==
  /\ Decide \in {"policy", "refuted", "run", "missing", "stale"}
  /\ Decide = "run" =>
       /\ ~HasRefutingEvidence
       /\ case.assumption = NoAssumption \/ case.assumption = Fingerprint
<1>1. Decide \in {"policy", "refuted", "run", "missing", "stale"}
  BY DEF Decide
<1>2. ASSUME Decide = "run"
      PROVE  ~HasRefutingEvidence /\ (case.assumption = NoAssumption \/ case.assumption = Fingerprint)
  BY <1>2 DEF Decide
<1> QED
  BY <1>1, <1>2

(* What it runs then reads as it did.                                      *)
LEMMA VerifyStep ==
  ASSUME IInv, Verify
  PROVE  IInv'
<1>1. /\ Still /\ Unmoved /\ UNCHANGED <<gate, case, reviewed, files, reached, scanned>>
      /\ gate = "verify" /\ phase = "done" /\ phase' = "done" /\ outcome' = Decide
  BY DEF Verify, projectVars, Still, Unmoved
<1>2. Decided'
  BY <1>1, DecideCases DEF IInv, Decided
<1>3. ASSUME Decide = "run", case.assumption # NoAssumption
      PROVE  /\ \A c \in reached : /\ files[Home(c)] = reviewed.files[Home(c)]
                                   /\ ~BodyOf(c).effect
             /\ UnknownEvidence = reviewed.evidence
  <2>1. ~HasRefutingEvidence /\ case.assumption = Fingerprint
    BY <1>3, DecideCases
  <2>2. PICK S \in SUBSET Modules : case.assumption.sources = {<<m, reviewed.files[m]>> : m \in S}
    BY <1>1, <1>3 DEF IInv, Decided
  <2>3. case.assumption.evidence = reviewed.evidence
    BY <1>1, <1>3 DEF IInv, Decided
  <2>4. {<<m, files[m]>> : m \in scanned} = {<<m, reviewed.files[m]>> : m \in S}
    BY <2>1, <2>2 DEF Fingerprint
  <2>5. ASSUME NEW m \in scanned
        PROVE  files[m] = reviewed.files[m]
    <3>1. <<m, files[m]>> \in {<<k, reviewed.files[k]>> : k \in S}
      BY <2>4
    <3>2. PICK k \in S : <<m, files[m]>> = <<k, reviewed.files[k]>>
      BY <3>1
    <3> QED
      BY <3>2
  <2>6. \A c \in reached : Home(c) \in scanned
    BY <1>1 DEF IInv, Placed, Covered
  <2> QED
    BY <2>1, <2>3, <2>5, <2>6 DEF HasRefutingEvidence, Fingerprint
<1>4. UnknownEvidence' = UnknownEvidence
  <2>1. Edges' = Edges
    BY <1>1, SameEdges DEF Edges
  <2>2. \A m : UnknownImports(m)' = UnknownImports(m)
    <3>1. /\ \A m : Imports(m)' = Imports(m)
          /\ \A p : Catalogued(p)' = Catalogued(p)
          /\ Collected' = Collected
      BY <1>1, Indexed DEF Catalogued, Still
    <3> QED
      BY <3>1 DEF UnknownImports
  <2> QED
    BY <1>1, <2>1, <2>2 DEF UnknownEvidence
<1>5. AssumptionCovers'
  <2>1. \A c : BodyOf(c)' = BodyOf(c)
    BY <1>1, SameBodies
  <2> QED
    BY <1>1, <1>3, <1>4, <2>1 DEF AssumptionCovers
<1> QED
  BY <1>1, <1>2, <1>5, GateStep DEF IInv

(* An edit comes before anything is analysed.                              *)
LEMMA EditStep ==
  ASSUME IInv, Edit
  PROVE  IInv'
<1>1. /\ phase = "collect"
      /\ UNCHANGED <<phase, modules, at, exports, queue, scanned, reached, gate, case, reviewed, outcome>>
      /\ files' = files \/ \E m \in Modules : \E t \in Edited[m] : files' = [files EXCEPT ![m] = t]
  BY DEF Edit, resultVars
<1>2. exports = NoExports /\ queue = {} /\ scanned = {} /\ reached = {}
  BY <1>1 DEF IInv, Placed, Started
<1>3. FilesOK'
  <2>1. CASE files' = files
    BY <2>1, SameBodies DEF IInv
  <2>2. ASSUME NEW m \in Modules, NEW t \in Edited[m], files' = [files EXCEPT ![m] = t]
        PROVE  FilesOK'
    <3>1. files = [k \in Modules |-> files[k]] /\ \A k \in Modules : Parsed(files[k])
      BY DEF IInv, FilesOK
    <3>2. Parsed(t)
      BY <2>2, ProjectsAssumption
    <3>3. files' = [k \in Modules |-> IF k = m THEN t ELSE files[k]]
      BY <2>2, <3>1
    <3> QED
      BY <3>1, <3>2, <3>3 DEF FilesOK
  <2> QED
    BY <1>1, <2>1, <2>2
<1>4. ExportsOK'
  <2>1. /\ exports' \in [Modules -> [Names -> SUBSET Callable]]
        /\ \A m \in Modules : \A n \in Names : exports'[m][n] = {}
    BY <1>1, <1>2 DEF NoExports
  <2> QED
    BY <2>1 DEF ExportsOK
<1>5. Placed' /\ Covered' /\ Raised' /\ Sound'
  BY <1>1, <1>2 DEF IInv, Placed, Started, Covered, Raised, Sound, NoExports
<1>6. Decided' /\ AssumptionCovers'
  BY <1>1, Undecided
<1> QED
  BY <1>3, <1>4, <1>5, <1>6 DEF IInv

(* Verification starts afresh.                                             *)
LEMMA AskStep ==
  ASSUME IInv, Ask
  PROVE  IInv'
<1>1. /\ phase' = "collect" /\ exports' = NoExports /\ modules' = <<Entry[1]>> /\ at' = 0
      /\ queue' = {} /\ scanned' = {} /\ reached' = {} /\ outcome' = None
      /\ outcome = "captured" /\ UNCHANGED <<case, reviewed, files>>
  BY DEF Ask, Blank, projectVars
<1>2. FilesOK'
  BY <1>1, SameBodies DEF IInv
<1>3. ExportsOK'
  <2>1. /\ exports' \in [Modules -> [Names -> SUBSET Callable]]
        /\ \A m \in Modules : \A n \in Names : exports'[m][n] = {}
    BY <1>1 DEF NoExports
  <2> QED
    BY <2>1 DEF ExportsOK
<1>4. modules' \in Seq(Modules)
  BY <1>1, CallGraphAssumption
<1>5. Placed' /\ Covered' /\ Raised' /\ Sound'
  BY <1>1, <1>4 DEF Placed, Started, Covered, Raised, Sound, NoExports
<1>6. Decided'
  BY <1>1 DEF IInv, Decided
<1>7. AssumptionCovers'
  BY <1>1, CallGraphAssumption DEF AssumptionCovers
<1> QED
  BY <1>2, <1>3, <1>5, <1>6, <1>7 DEF IInv

(* Before anything is collected.                                           *)
LEMMA Start ==
  ASSUME Init
  PROVE  IInv
<1>1. FilesOK
  BY ProjectsAssumption DEF Init, FilesOK
<1>2. ExportsOK
  <2>1. /\ exports \in [Modules -> [Names -> SUBSET Callable]]
        /\ \A m \in Modules : \A n \in Names : exports[m][n] = {}
    BY DEF Init, NoExports
  <2> QED
    BY <2>1 DEF ExportsOK
<1>3. modules \in Seq(Modules)
  BY CallGraphAssumption DEF Init
<1>4. Placed /\ Covered /\ Raised /\ Sound
  BY <1>3 DEF Init, Placed, Started, Covered, Raised, Sound, NoExports
<1>5. Decided /\ AssumptionCovers
  BY CallGraphAssumption DEF Init, Decided, AssumptionCovers
<1> QED
  BY <1>1, <1>2, <1>4, <1>5 DEF IInv

(* Nothing happens.                                                        *)
LEMMA Stutter ==
  ASSUME IInv, UNCHANGED vars
  PROVE  IInv'
<1>1. Still /\ Unmoved /\ UNCHANGED <<gate, case, reviewed, outcome, files, reached>>
  BY DEF vars, projectVars, resultVars, Still, Unmoved
<1>2. Decided'
  BY <1>1 DEF IInv, Decided, Unmoved
<1>3. AssumptionCovers'
  <2>1. UnknownEvidence' = UnknownEvidence
    <3>1. Edges' = Edges
      BY <1>1, SameEdges DEF Edges
    <3>2. /\ \A m : Imports(m)' = Imports(m)
          /\ \A p : Catalogued(p)' = Catalogued(p)
          /\ Collected' = Collected
      BY <1>1, Indexed DEF Catalogued, Still
    <3>3. \A m : UnknownImports(m)' = UnknownImports(m)
      BY <3>2 DEF UnknownImports
    <3> QED
      BY <1>1, <3>1, <3>3 DEF UnknownEvidence, Unmoved
  <2>2. \A c : BodyOf(c)' = BodyOf(c)
    BY <1>1, SameBodies
  <2> QED
    BY <1>1, <2>1, <2>2 DEF IInv, AssumptionCovers
<1> QED
  BY <1>1, <1>2, <1>3, GateStep DEF IInv

(* The analysis and the gates keep the invariant, for every project.       *)
THEOREM Inductive == Spec => []IInv
<1>1. Init => IInv
  BY Start
<1>2. IInv /\ [Next]_vars => IInv'
  BY CollectStep, IndexStep, ScanStep, SettleStep, PropagateStep, AttachStep, ConcludeStep,
     CaptureStep, VerifyStep, EditStep, AskStep, Stutter DEF Next, Analyze
<1> QED
  BY <1>1, <1>2, PTL DEF Spec

(* A likely-safe verdict covers all that the entry reaches.                *)
THEOREM VerdictCertifies == Spec => []Sound
<1>1. IInv => Sound
  BY DEF IInv
<1> QED
  BY <1>1, Inductive, PTL

(* A case replays under an assumption only over code that reads as it did. *)
THEOREM AssumptionsHold == Spec => []AssumptionCovers
<1>1. IInv => AssumptionCovers
  BY DEF IInv
<1> QED
  BY <1>1, Inductive, PTL

-----------------------------------------------------------------------------
(* Trusted packages *)

Vouchers ==
  /\ \E x \in Projects : catalog = x.catalog
  /\ lockfiles \in Lockfiles \cup {x.lockfiles : x \in Projects}

(* A version is a triple of numbers.                                       *)
LEMMA Triple ==
  ASSUME NEW v \in Version
  PROVE  /\ v[1] \in Nat /\ v[2] \in Nat /\ v[3] \in Nat /\ v = <<v[1], v[2], v[3]>>
         /\ v[1] > 0 => v[1] # 0
         /\ ~(v[1] > 0) => v[1] = 0
         /\ ~(v[2] > 0) => v[2] = 0
<1>1. v[1] \in Nat /\ v[2] \in Nat /\ v[3] \in Nat /\ v = <<v[1], v[2], v[3]>>
  BY DEF Version
<1>2. \A n \in Nat : (n > 0 => n # 0) /\ (~(n > 0) => n = 0)
  OBVIOUS
<1> QED
  BY <1>1, <1>2

(* The versions that a range of prefix ~ or ^ allows are below its end.    *)
LEMMA Below ==
  ASSUME NEW v \in Version, NEW r \in Version
  PROVE  /\ v = r => ~Less(v, r) /\ Less(v, <<r[1], r[2], r[3] + 1>>)
         /\ v[1] = r[1] => Less(v, <<r[1] + 1, 0, 0>>)
         /\ v[1] = r[1] /\ v[2] = r[2] => Less(v, <<r[1], r[2] + 1, 0>>)
<1>1. /\ v[1] \in Nat /\ v[2] \in Nat /\ v[3] \in Nat
      /\ r[1] \in Nat /\ r[2] \in Nat /\ r[3] \in Nat
  BY Triple
<1> QED
  BY <1>1 DEF Less

(* The end of a range, by its prefix.                                      *)
LEMMA Ranges ==
  ASSUME NEW v, NEW e
  PROVE  LET r == e.version IN
         /\ e.prefix = "~" =>
              InRange(v, e) = (~Less(v, r) /\ Less(v, <<r[1], r[2] + 1, 0>>))
         /\ e.prefix = "^" /\ r[1] = 0 /\ ~(r[1] > 0) /\ r[2] > 0 =>
              InRange(v, e) = (~Less(v, r) /\ Less(v, <<r[1], r[2] + 1, 0>>))
         /\ e.prefix = "^" /\ r[1] # 0 /\ r[1] > 0 =>
              InRange(v, e) = (~Less(v, r) /\ Less(v, <<r[1] + 1, 0, 0>>))
         /\ e.prefix = "" \/ (e.prefix = "^" /\ ~(r[1] > 0) /\ ~(r[2] > 0)) =>
              InRange(v, e) = (~Less(v, r) /\ Less(v, <<r[1], r[2], r[3] + 1>>))
<1> DEFINE r == e.version
<1>1. e.prefix = "~" => InRange(v, e) = (~Less(v, r) /\ Less(v, <<r[1], r[2] + 1, 0>>))
  BY Zenon DEF InRange
<1>2. e.prefix = "^" /\ r[1] = 0 /\ ~(r[1] > 0) /\ r[2] > 0 =>
        InRange(v, e) = (~Less(v, r) /\ Less(v, <<r[1], r[2] + 1, 0>>))
  BY Zenon DEF InRange
<1>3. e.prefix = "^" /\ r[1] # 0 /\ r[1] > 0 =>
        InRange(v, e) = (~Less(v, r) /\ Less(v, <<r[1] + 1, 0, 0>>))
  BY Zenon DEF InRange
<1>4. e.prefix = "" => InRange(v, e) = (~Less(v, r) /\ Less(v, <<r[1], r[2], r[3] + 1>>))
  BY Zenon DEF InRange
<1>5. e.prefix = "^" /\ ~(r[1] > 0) /\ ~(r[2] > 0) =>
        InRange(v, e) = (~Less(v, r) /\ Less(v, <<r[1], r[2], r[3] + 1>>))
  BY Zenon DEF InRange
<1> QED
  BY <1>1, <1>2, <1>3, <1>4, <1>5, Zenon

(* What satisfies a range, by its prefix.                                  *)
LEMMA SatisfiesCases ==
  ASSUME NEW v, NEW e, Satisfies(v, e)
  PROVE  LET r == e.version IN
         /\ e.prefix = "" => v = r
         /\ e.prefix = "~" => ~Less(v, r) /\ v[1] = r[1] /\ v[2] = r[2]
         /\ e.prefix = "^" => /\ ~Less(v, r)
                              /\ IF r[1] > 0 THEN v[1] = r[1]
                                 ELSE IF r[2] > 0 THEN v[1] = 0 /\ v[2] = r[2]
                                 ELSE v = <<0, 0, r[3]>>
<1> DEFINE r == e.version
<1>1. e.prefix = "" => v = r
  BY Zenon DEF Satisfies
<1>2. e.prefix = "~" => ~Less(v, r) /\ v[1] = r[1] /\ v[2] = r[2]
  BY Zenon DEF Satisfies
<1>3. e.prefix = "^" => /\ ~Less(v, r)
                        /\ IF r[1] > 0 THEN v[1] = r[1]
                           ELSE IF r[2] > 0 THEN v[1] = 0 /\ v[2] = r[2]
                           ELSE v = <<0, 0, r[3]>>
  BY Zenon DEF Satisfies
<1> QED
  BY <1>1, <1>2, <1>3

(* A version that satisfies a range lies in it.                            *)
LEMMA SatisfiesInRange ==
  ASSUME NEW v \in Version, NEW e, e.version \in Version, e.prefix \in {"", "~", "^"}, Satisfies(v, e)
  PROVE  InRange(v, e)
<1> DEFINE r == e.version
<1>1. r[1] \in Nat /\ r[2] \in Nat /\ r[3] \in Nat /\ r = <<r[1], r[2], r[3]>>
  BY Triple
<1>2. /\ v = r => ~Less(v, r) /\ Less(v, <<r[1], r[2], r[3] + 1>>)
      /\ v[1] = r[1] => Less(v, <<r[1] + 1, 0, 0>>)
      /\ v[1] = r[1] /\ v[2] = r[2] => Less(v, <<r[1], r[2] + 1, 0>>)
  BY Below
<1>3. /\ r[1] > 0 => r[1] # 0
      /\ ~(r[1] > 0) => r[1] = 0
      /\ ~(r[2] > 0) => r[2] = 0
  BY Triple, Zenon
<1>4. CASE e.prefix = ""
  BY <1>2, <1>4, SatisfiesCases, Ranges, Zenon
<1>5. CASE e.prefix = "~"
  BY <1>2, <1>5, SatisfiesCases, Ranges, Zenon
<1>6. CASE e.prefix = "^"
  <2>1. CASE r[1] > 0
    BY <1>2, <1>3, <1>6, <2>1, SatisfiesCases, Ranges, Zenon
  <2>2. CASE ~(r[1] > 0) /\ r[2] > 0
    BY <1>2, <1>3, <1>6, <2>2, SatisfiesCases, Ranges, Zenon
  <2>3. CASE ~(r[1] > 0) /\ ~(r[2] > 0)
    <3>1. v = <<0, 0, r[3]>>
      BY <1>6, <2>3, SatisfiesCases, Zenon
    <3>2. v = r
      BY <1>1, <1>3, <2>3, <3>1
    <3> QED
      BY <1>2, <1>6, <2>3, <3>2, Ranges, Zenon
  <2> QED
    BY <2>1, <2>2, <2>3
<1> QED
  BY <1>4, <1>5, <1>6

(* What the code trusts of a package was vouched for.                      *)
LEMMA TrustedIsVouched ==
  ASSUME Vouchers, NEW p, NEW x, IsPackageCallTrusted(p, x)
  PROVE  Vouched(p, x)
<1>1. PICK e \in catalog :
        /\ e.package = p /\ e.export = x
        /\ \/ e.unpinned
           \/ /\ Lockfile # None /\ Installed(Lockfile) # None
              /\ Satisfies(Installed(Lockfile), e)
  BY DEF IsPackageCallTrusted
<1>2. e.version \in Version /\ e.prefix \in {"", "~", "^"}
  BY <1>1, VersionsAssumption DEF Vouchers
<1>3. CASE e.unpinned
  BY <1>1, <1>3 DEF Vouched
<1>4. CASE ~e.unpinned
  <2>1. IsFiniteSet(lockfiles) /\ \A lock \in lockfiles : lock.root \in Version \cup {None}
    BY VersionsAssumption DEF Vouchers
  <2>2. Cardinality(lockfiles) = 1 /\ Lockfile = CHOOSE l \in lockfiles : TRUE
    BY <1>1, <1>4 DEF Lockfile
  <2>3. PICK l : lockfiles = {l}
    BY <2>1, <2>2, FS_Singleton
  <2>4. Lockfile = l
    BY <2>2, <2>3
  <2>5. Installed(l) # None /\ Satisfies(Installed(l), e)
    BY <1>1, <1>4, <2>4
  <2>6. Installed(l) = l.root
    <3>1. Installed(l) \in {l.root, None}
      BY Zenon DEF Installed
    <3> QED
      BY <2>5, <3>1
  <2>7. l.root \in Version
    BY <2>1, <2>3, <2>5, <2>6
  <2>8. InRange(l.root, e)
    BY <1>2, <2>5, <2>6, <2>7, SatisfiesInRange
  <2> QED
    BY <1>1, <2>3, <2>8 DEF Vouched
<1> QED
  BY <1>3, <1>4
-----------------------------------------------------------------------------
(* What a name stands for *)

Depth == Cardinality(Modules)

(* How the modules of f link an exported name, with prev for where it leads. *)
LinkStep(f, prev, d) ==
  [m \in Modules |-> [n \in Names |->
     LET r == f[m].reexports[n]  k == IF f[m].scope[n].kind = "alias" THEN f[m].scope[n].of ELSE n
         next == IF r = None THEN f[m].scope[k] ELSE r
     IN IF r = None /\ n \notin f[m].exported THEN {}
        ELSE IF r = None /\ f[m].scope[k].kind # "import" THEN {<<m, k>>}
        ELSE IF d = 0 \/ next.from \notin Modules \/ next.name \notin Names THEN {}
        ELSE prev[next.from][next.name]]]

IsLinks(f, g) == g = [d \in 0 .. Depth |-> LinkStep(f, g[d - 1], d)]
LinksOf(f) == CHOOSE g : IsLinks(f, g)

(* What the exported names stand for is what is linked at the last depth.  *)
LEMMA RealIsLinks == RealExports = LinksOf(files)[Depth]
BY DEF RealExports, LinksOf, IsLinks, LinkStep, RealName, Bound, Depth

(* Induction over the naturals, without an operator parameter.             *)
LEMMA Induction ==
  ASSUME NEW S \in SUBSET Nat, 0 \in S, \A n \in S : n + 1 \in S
  PROVE  S = Nat
<1> SUFFICES ASSUME Nat \ S # {}
             PROVE  FALSE
  OBVIOUS
<1>1. PICK n \in Nat \ S : \A m \in Nat \ S : ~ (<<m, n>> \in OpToRel(<, Nat))
  BY NatLessThanWellFounded, WFMin
<1>2. n # 0 /\ n \in Nat /\ n \notin S
  OBVIOUS
<1>3. n - 1 \in S
  <2> SUFFICES ASSUME n - 1 \in Nat \ S
               PROVE  FALSE
    BY <1>2, n - 1 \in Nat
  <2>1. <<n - 1, n>> \in OpToRel(<, Nat)
    BY <1>2 DEF OpToRel
  <2> QED
    BY <1>1, <2>1
<1>4. n = (n - 1) + 1
  BY <1>2
<1> QED
  BY <1>2, <1>3, <1>4

(* The links of every depth exist.                                         *)
LEMMA LinksExist ==
  ASSUME NEW f
  PROVE  IsLinks(f, LinksOf(f))
<1> DEFINE Able == {n \in Nat : \E g : g = [d \in 0 .. n |-> LinkStep(f, g[d - 1], d)]}
<1>1. \A p, q : LinkStep(f, p, 0) = LinkStep(f, q, 0)
  BY DEF LinkStep
<1>2. 0 \in Able
  <2> DEFINE g == [d \in 0 .. 0 |-> LinkStep(f, <<>>, 0)]
  <2>1. g = [d \in 0 .. 0 |-> LinkStep(f, g[d - 1], d)]
    BY <1>1
  <2> QED
    BY <2>1
<1>3. ASSUME NEW n \in Able
      PROVE  n + 1 \in Able
  <2>1. PICK g : g = [d \in 0 .. n |-> LinkStep(f, g[d - 1], d)]
    OBVIOUS
  <2> DEFINE h == [d \in 0 .. n + 1 |-> IF d <= n THEN g[d] ELSE LinkStep(f, g[n], n + 1)]
  <2>2. \A d \in 0 .. n + 1 : h[d] = LinkStep(f, h[d - 1], d)
    <3> SUFFICES ASSUME NEW d \in 0 .. n + 1
                 PROVE  h[d] = LinkStep(f, h[d - 1], d)
      OBVIOUS
    <3>1. CASE d = 0
      <4>1. h[0] = g[0] /\ g[0] = LinkStep(f, g[0 - 1], 0)
        BY <2>1
      <4> QED
        BY <1>1, <3>1, <4>1
    <3>2. CASE d # 0 /\ d <= n
      <4>1. h[d] = g[d] /\ h[d - 1] = g[d - 1]
        BY <3>2
      <4> QED
        BY <2>1, <3>2, <4>1
    <3>3. CASE d = n + 1
      <4>1. h[d] = LinkStep(f, g[n], n + 1) /\ h[d - 1] = g[n]
        BY <3>3
      <4> QED
        BY <3>3, <4>1
    <3> QED
      BY <3>1, <3>2, <3>3
  <2>3. h = [d \in 0 .. n + 1 |-> LinkStep(f, h[d - 1], d)]
    <3> HIDE DEF h
    <3>1. h = [d \in 0 .. n + 1 |-> h[d]]
      BY DEF h
    <3> QED
      BY <2>2, <3>1
  <2> HIDE DEF h
  <2>4. n + 1 \in Nat
    OBVIOUS
  <2> QED
    BY <2>3, <2>4
<1> HIDE DEF Able
<1>4. Able = Nat
  <2>1. Able \in SUBSET Nat
    BY DEF Able
  <2> QED
    BY <1>2, <1>3, <2>1, Induction
<1>5. Depth \in Nat
  BY CallGraphAssumption, FS_CardinalityType DEF Depth
<1>6. \E g : IsLinks(f, g)
  BY <1>4, <1>5 DEF Able, IsLinks
<1> QED
  BY <1>6 DEF LinksOf

(* The links of a module, one depth from those of the modules it links to. *)
LEMMA LinksAt ==
  ASSUME NEW f, NEW d \in 0 .. Depth
  PROVE  LinksOf(f)[d] = LinkStep(f, LinksOf(f)[d - 1], d)
BY LinksExist DEF IsLinks

-----------------------------------------------------------------------------
(* What has been indexed is what the names stand for *)

(* The modules are collected once, and handled in order.                   *)
Ordered ==
  /\ at <= Len(modules)
  /\ \A i, j \in 1 .. Len(modules) : modules[i] = modules[j] => i = j

(* An exported name stands for the function its links lead to, as far as   *)
(* the modules indexed so far can link it.                                 *)
Linking ==
  \A m \in Modules : \A n \in Names : \A t \in exports[m][n] :
    /\ t[3] = "function"
    /\ \A d \in (IF phase = "index" THEN at ELSE Depth) .. Depth :
         LinksOf(files)[d][m][n] = {<<t[1], t[2]>>}

(* A sequence without repetitions is no longer than the set it is of.      *)
LEMMA NoLonger ==
  ASSUME modules \in Seq(Modules), Ordered
  PROVE  Len(modules) <= Depth
<1>1. modules \in Injection(1 .. Len(modules), Modules)
  BY DEF Ordered, Injection, IsInjective
<1>2. Cardinality(1 .. Len(modules)) <= Depth
  BY <1>1, FS_Injection, CallGraphAssumption DEF Depth
<1>3. Len(modules) \in Nat
  OBVIOUS
<1>4. Cardinality(1 .. Len(modules)) = IF 1 > Len(modules) THEN 0 ELSE Len(modules) - 1 + 1
  BY <1>3, FS_Interval
<1>5. Depth \in Nat
  BY CallGraphAssumption, FS_CardinalityType DEF Depth
<1> QED
  BY <1>2, <1>3, <1>4, <1>5

(* A module is collected only if it has not been.                          *)
LEMMA CollectOrdered ==
  ASSUME IInv, Ordered, Collect
  PROVE  Ordered'
<1> DEFINE S == Follows(modules[at + 1]) \ ToSet(modules)
           s == SetToSeq(S)
<1>1. modules \in Seq(Modules) /\ at \in Nat
  BY DEF IInv, Placed
<1>2. s \in Seq(S) /\ \A i, j \in 1 .. Len(s) : s[i] = s[j] => i = j
  <2>1. S \subseteq Modules /\ IsFiniteSet(S)
    BY CallGraphAssumption, FS_Subset DEF Follows
  <2>2. Cardinality(S) \in Nat /\ ExistsBijection(1 .. Cardinality(S), S)
    BY <2>1, FS_CardinalityType
  <2>3. PICK f \in Bijection(1 .. Cardinality(S), S) : TRUE
    BY <2>2 DEF ExistsBijection
  <2>4. f \in [1 .. Cardinality(S) -> S] /\ IsInjective(f)
    BY <2>3 DEF Bijection, Injection, IsInjective
  <2>5. s \in [1 .. Cardinality(S) -> S] /\ IsInjective(s)
    BY <2>4 DEF SetToSeq
  <2>6. s \in Seq(S)
    BY <2>2, <2>5, SeqDef
  <2>7. DOMAIN s = 1 .. Len(s)
    BY <2>6
  <2> QED
    BY <2>5, <2>6, <2>7 DEF IsInjective
<1>3. \A i \in 1 .. Len(modules) : modules[i] \notin S
  BY <1>1 DEF ToSet
<1> HIDE DEF S, s
<1>4. CASE at < Len(modules)
  <2>1. modules' = modules \o s /\ at' = at + 1
    BY <1>4 DEF Collect, S, s
  <2>2. Len(modules') = Len(modules) + Len(s)
    BY <1>1, <1>2, <2>1
  <2>3. \A i \in 1 .. Len(modules') :
          modules'[i] = IF i <= Len(modules) THEN modules[i] ELSE s[i - Len(modules)]
    BY <1>1, <1>2, <2>1
  <2>4. \A i \in 1 .. Len(s) : s[i] \in S
    BY <1>2
  <2>5. ASSUME NEW i \in 1 .. Len(modules'), NEW j \in 1 .. Len(modules'), modules'[i] = modules'[j]
        PROVE  i = j
    <3>1. Len(modules) \in Nat /\ Len(s) \in Nat /\ i \in Nat /\ j \in Nat
      BY <1>1, <1>2, <2>2
    <3>2. CASE i <= Len(modules) /\ j <= Len(modules)
      BY <2>3, <2>5, <3>1, <3>2 DEF Ordered
    <3>3. CASE i <= Len(modules) /\ ~(j <= Len(modules))
      <4>1. modules'[i] \notin S
        BY <1>3, <2>3, <3>1, <3>3
      <4>2. modules'[j] \in S
        BY <2>2, <2>3, <2>4, <3>1, <3>3
      <4> QED
        BY <2>5, <4>1, <4>2
    <3>4. CASE ~(i <= Len(modules)) /\ j <= Len(modules)
      <4>1. modules'[j] \notin S
        BY <1>3, <2>3, <3>1, <3>4
      <4>2. modules'[i] \in S
        BY <2>2, <2>3, <2>4, <3>1, <3>4
      <4> QED
        BY <2>5, <4>1, <4>2
    <3>5. CASE ~(i <= Len(modules)) /\ ~(j <= Len(modules))
      <4>1. modules'[i] = s[i - Len(modules)] /\ modules'[j] = s[j - Len(modules)]
        BY <2>3, <3>5
      <4>2. i - Len(modules) \in 1 .. Len(s) /\ j - Len(modules) \in 1 .. Len(s)
        BY <2>2, <3>1, <3>5
      <4>3. i - Len(modules) = j - Len(modules)
        BY <1>2, <2>5, <4>1, <4>2
      <4> QED
        BY <3>1, <4>3
    <3> QED
      BY <3>2, <3>3, <3>4, <3>5
  <2> QED
    BY <1>1, <1>2, <1>4, <2>1, <2>2, <2>5 DEF Ordered
<1>5. CASE ~(at < Len(modules))
  BY <1>1, <1>5 DEF Collect, Ordered
<1> QED
  BY <1>4, <1>5

(* Indexing a module links its exports one deeper.                         *)
LEMMA IndexLinking ==
  ASSUME IInv, Ordered, Linking, Index
  PROVE  Ordered' /\ Linking'
<1>1. modules \in Seq(Modules) /\ at \in Nat /\ phase = "index" /\ Len(modules) <= Depth /\ Depth \in Nat
  BY NoLonger, CallGraphAssumption, FS_CardinalityType DEF IInv, Placed, Index, Depth
<1>2. UNCHANGED <<files, modules>> /\ Collected \subseteq Modules
  BY <1>1, Apart DEF Index, projectVars
<1>3. CASE at < Len(modules)
  <2> DEFINE m0 == modules[at + 1]
  <2>1. /\ exports' = [exports EXCEPT ![m0] = [n \in Names |-> Exported(m0, n)]]
        /\ at' = at + 1 /\ phase' = "index" /\ m0 \in Modules
    BY <1>1, <1>3 DEF Index
  <2>2. Ordered'
    BY <1>1, <1>2, <1>3, <2>1 DEF Ordered
  <2>3. exports \in [Modules -> [Names -> SUBSET Callable]]
    BY DEF IInv, ExportsOK
  <2>4. ASSUME NEW n \in Names, NEW t \in Exported(m0, n), NEW d \in at + 1 .. Depth
        PROVE  t[3] = "function" /\ LinksOf(files)[d][m0][n] = {<<t[1], t[2]>>}
    <3> DEFINE r == files[m0].reexports[n]
    <3>1. d \in 0 .. Depth /\ d - 1 \in at .. Depth /\ d # 0
      BY <1>1
    <3>2. LinksOf(files)[d] = LinkStep(files, LinksOf(files)[d - 1], d)
      BY <3>1, LinksAt
    <3>3. CASE r # None
      <4>1. r.from \in Modules /\ t \in exports[r.from][r.name]
        BY <1>2, <3>3 DEF Exported
      <4>2. r.name \in Names
        BY <2>1, <3>3 DEF IInv, FilesOK, Parsed
      <4>3. t[3] = "function" /\ LinksOf(files)[d - 1][r.from][r.name] = {<<t[1], t[2]>>}
        BY <1>1, <3>1, <4>1, <4>2 DEF Linking
      <4>4. LinkStep(files, LinksOf(files)[d - 1], d)[m0][n] = LinksOf(files)[d - 1][r.from][r.name]
        BY <2>1, <3>1, <3>3, <4>1, <4>2 DEF LinkStep
      <4> QED
        BY <3>2, <4>3, <4>4
    <3>4. CASE r = None
      <4>1. n \in files[m0].exported /\ files[m0].scope[n].kind = "function" /\ t = <<m0, n, "function">>
        BY <3>4 DEF Exported, Bound
      <4>2. LinkStep(files, LinksOf(files)[d - 1], d)[m0][n] = {<<m0, n>>}
        BY <2>1, <3>4, <4>1 DEF LinkStep
      <4> QED
        BY <3>2, <4>1, <4>2
    <3> QED
      BY <3>3, <3>4
  <2>5. ASSUME NEW m \in Modules, NEW n \in Names, NEW t \in exports'[m][n]
        PROVE  /\ t[3] = "function"
               /\ \A d \in at + 1 .. Depth : LinksOf(files)[d][m][n] = {<<t[1], t[2]>>}
    <3>1. CASE m = m0
      <4>1. t \in Exported(m0, n)
        BY <2>1, <2>3, <3>1
      <4>2. at + 1 \in at + 1 .. Depth
        BY <1>1, <1>3
      <4> HIDE DEF m0
      <4> QED
        BY <2>4, <3>1, <4>1, <4>2
    <3>2. CASE m # m0
      <4>1. t \in exports[m][n]
        BY <2>1, <2>3, <3>2
      <4>2. \A d \in at + 1 .. Depth : d \in at .. Depth
        BY <1>1
      <4> QED
        BY <1>1, <4>1, <4>2 DEF Linking
    <3> QED
      BY <3>1, <3>2
  <2> QED
    BY <1>2, <2>1, <2>2, <2>5 DEF Linking
<1>4. CASE ~(at < Len(modules))
  <2>1. exports' = exports /\ at' = 0 /\ phase' # "index"
    BY <1>4 DEF Index
  <2>2. Ordered'
    BY <1>1, <1>2, <2>1 DEF Ordered
  <2>3. \A d \in Depth .. Depth : d \in at .. Depth
    BY <1>1, <1>4 DEF Ordered
  <2> QED
    BY <1>1, <1>2, <2>1, <2>2, <2>3 DEF Linking
<1> QED
  BY <1>3, <1>4

(* Other steps index nothing.                                              *)
LEMMA LinkingStep ==
  ASSUME IInv, Ordered, Linking, [Next]_vars
  PROVE  Ordered' /\ Linking'
<1>1. ASSUME UNCHANGED <<files, exports, modules, at>>,
             phase' = phase \/ (phase # "index" /\ phase' # "index")
      PROVE  Ordered' /\ Linking'
  BY <1>1 DEF Ordered, Linking
<1>2. ASSUME exports' = NoExports
      PROVE  Linking'
  <2>1. \A m \in Modules : \A n \in Names : exports'[m][n] = {}
    BY <1>2 DEF NoExports
  <2> QED
    BY <2>1 DEF Linking
<1>3. CASE Collect
  <2>1. exports' = NoExports
    BY <1>3 DEF Collect, IInv, Placed
  <2> QED
    BY <1>2, <1>3, <2>1, CollectOrdered
<1>4. CASE Index
  BY <1>4, IndexLinking
<1>5. CASE Edit
  <2>1. exports' = NoExports /\ UNCHANGED <<modules, at>>
    BY <1>5 DEF Edit, IInv, Placed
  <2>2. Ordered'
    BY <2>1 DEF Ordered
  <2> QED
    BY <1>2, <2>1, <2>2
<1>6. CASE Ask
  <2>1. exports' = NoExports /\ modules' = <<Entry[1]>> /\ at' = 0
    BY <1>6 DEF Ask, Blank
  <2>2. Ordered'
    BY <2>1 DEF Ordered
  <2> QED
    BY <1>2, <2>1, <2>2
<1>7. CASE Scan \/ Settle \/ Propagate \/ Attach \/ Conclude
  <2>1. /\ UNCHANGED <<files, exports, modules, at>>
        /\ phase' = phase \/ (phase # "index" /\ phase' # "index")
    BY <1>7 DEF Scan, Settle, Propagate, Attach, NextRound, Conclude, projectVars
  <2> QED
    BY <1>1, <2>1
<1>8. CASE Capture \/ Verify \/ UNCHANGED vars
  <2>1. UNCHANGED <<files, exports, modules, at, phase>>
    BY <1>8 DEF Capture, Verify, vars, projectVars
  <2> QED
    BY <1>1, <2>1
<1> QED
  BY <1>3, <1>4, <1>5, <1>6, <1>7, <1>8 DEF Next, Analyze

(* Edits replace the lockfiles, never the catalog.                         *)
LEMMA VouchersStep ==
  ASSUME Vouchers, [Next]_vars
  PROVE  Vouchers'
<1>1. catalog' = catalog /\ (lockfiles' = lockfiles \/ lockfiles' \in Lockfiles)
  BY DEF Next, Analyze, Collect, Index, Scan, Settle, Propagate, Attach, Conclude, Capture, Verify, Edit, Ask,
         vars, projectVars
<1> QED
  BY <1>1 DEF Vouchers

-----------------------------------------------------------------------------
(* What the edges of a call leave out *)

Resolution == IInv /\ Ordered /\ Linking /\ Vouchers

(* What the edges of a site lead to is all that it runs.                   *)
Accounts(c, s, edges) ==
  /\ Runs(c, s) \subseteq UNION {e.to : e \in edges}
  /\ Leaves(c, s) =>
       /\ s.name \notin Shadowed(c)
       /\ Vouched(BoundTo(c, s).from, IF s.form = "member" THEN "member" ELSE BoundTo(c, s).name)

(* A name that stands for one declaration runs it by its kind.             *)
LEMMA OneTarget ==
  ASSUME NEW c, NEW s, NEW a, NEW b, Stands(Home(c), s.name) \subseteq {<<a, b>>}, NEW t \in Runs(c, s),
         ~Overlooked(c, s)
  PROVE  /\ t = <<a, b, t[3]>>
         /\ LET k == Bound(a, b) IN
            \/ t[3] = "function" /\ k.kind = "function" /\ s.form \in {"call", "new"}
            \/ t[3] = "constructor" /\ k.kind = "class" /\ k.constructor # {} /\ s.form = "new"
            \/ t[3] = "method" /\ k.kind = "class" /\ k.methods # {} /\ s.form = "method"
<1> DEFINE k == Bound(t[1], t[2])
           stands == Stands(Home(c), s.name)
<1>1. t \in Callable
  BY DEF Runs
<1>2. t = <<t[1], t[2], t[3]>>
  BY <1>1 DEF Callable
<1>3. \/ t[3] = "function" /\ <<t[1], t[2]>> \in stands /\ k.kind = "function" /\ s.form \in {"call", "new"}
      \/ /\ t[3] = "constructor" /\ k.kind = "class" /\ k.constructor # {} /\ s.form = "new"
         /\ \E x \in stands : Bound(x[1], x[2]).kind = "class" /\ <<t[1], t[2]>> \in Built(x)
      \/ t[3] = "method" /\ <<t[1], t[2]>> \in stands /\ k.kind = "class" /\ k.methods # {} /\ s.form = "method"
  BY DEF Runs
<1>4. <<t[1], t[2]>> \in stands
  <2> SUFFICES ASSUME s.form = "new", NEW x \in stands, Bound(x[1], x[2]).kind = "class",
                      <<t[1], t[2]>> \in Built(x)
               PROVE  <<t[1], t[2]>> \in stands
    BY <1>3
  <2>1. ~(Bound(x[1], x[2]).constructor = {} /\ Bound(x[1], x[2]).base # None)
    BY DEF Overlooked
  <2>2. Built(x) = {x}
    BY <2>1 DEF Built
  <2> QED
    BY <2>2
<1>5. t[1] = a /\ t[2] = b
  BY <1>4
<1> QED
  BY <1>2, <1>3, <1>5

(* When all is indexed, every depth has linked what is exported.           *)
LEMMA LinkedFully ==
  ASSUME Linking, phase # "index", NEW m \in Modules, NEW n \in Names, NEW t \in exports[m][n]
  PROVE  t[3] = "function" /\ LinksOf(files)[Depth][m][n] = {<<t[1], t[2]>>}
<1> DEFINE lowest == IF phase = "index" THEN at ELSE Depth
<1>1. Depth \in Nat /\ lowest = Depth
  BY CallGraphAssumption, FS_CardinalityType DEF Depth
<1>2. t[3] = "function" /\ \A d \in lowest .. Depth : LinksOf(files)[d][m][n] = {<<t[1], t[2]>>}
  BY DEF Linking
<1> HIDE DEF lowest
<1>3. Depth \in lowest .. Depth
  BY <1>1
<1> QED
  BY <1>2, <1>3

(* What an imported name stands for, where the analysis resolves it,       *)
LEMMA ImportedStands ==
  ASSUME Linking, phase # "index", NEW c, NEW s, BoundTo(c, s).kind = "import",
         BoundTo(c, s).from \in Modules, BoundTo(c, s).name \in Names,
         NEW t \in exports[BoundTo(c, s).from][BoundTo(c, s).name]
  PROVE  t[3] = "function" /\ Stands(Home(c), s.name) = {<<t[1], t[2]>>}
<1> DEFINE m == BoundTo(c, s).from
           n == BoundTo(c, s).name
<1>1. Stands(Home(c), s.name) = RealExports[m][n]
  BY DEF Stands, BoundTo
<1>2. m \in Modules /\ n \in Names /\ t \in exports[m][n]
  OBVIOUS
<1> HIDE DEF m, n
<1>3. t[3] = "function" /\ LinksOf(files)[Depth][m][n] = {<<t[1], t[2]>>}
  BY <1>2, LinkedFully
<1> QED
  BY <1>1, <1>3, RealIsLinks

(* and where it takes the class of that name.                              *)
LEMMA ClassStands ==
  ASSUME NEW c, NEW s, BoundTo(c, s).kind = "import",
         BoundTo(c, s).from \in Modules, BoundTo(c, s).name \in Names,
         Bound(BoundTo(c, s).from, BoundTo(c, s).name).kind = "class",
         files[BoundTo(c, s).from].reexports[BoundTo(c, s).name] = None
  PROVE  Stands(Home(c), s.name) \subseteq {<<BoundTo(c, s).from, BoundTo(c, s).name>>}
<1> DEFINE m == BoundTo(c, s).from
           n == BoundTo(c, s).name
<1>1. Depth \in 0 .. Depth
  BY CallGraphAssumption, FS_CardinalityType DEF Depth
<1>2. RealExports = LinkStep(files, LinksOf(files)[Depth - 1], Depth)
  BY <1>1, RealIsLinks, LinksAt
<1>3. m \in Modules /\ n \in Names /\ files[m].scope[n].kind = "class" /\ files[m].reexports[n] = None
  BY DEF Bound
<1>4. Stands(Home(c), s.name) = RealExports[m][n]
  BY DEF Stands, BoundTo
<1> HIDE DEF m, n
<1>5. RealExports[m][n] \subseteq {<<m, n>>}
  BY <1>2, <1>3 DEF LinkStep
<1> QED
  BY <1>4, <1>5 DEF m, n

(* The class a name names, through an import or not.                       *)
LEMMA ClassesStand ==
  ASSUME FilesOK, Collected \subseteq Modules, NEW c \in Declared, NEW s \in Site,
         ~Overlooked(c, s), NEW x \in Classes(Home(c), s.name)
  PROVE  /\ Classes(Home(c), s.name) = {x}
         /\ Stands(Home(c), s.name) \subseteq {<<x[1], x[2]>>}
         /\ Bound(x[1], x[2]).kind = "class"
         /\ ~Leaves(c, s) \/ s.form = "import"
<1> DEFINE b == Bound(Home(c), s.name)
<1>1. Home(c) \in Modules /\ s.name \in Names
  BY DEF Home, Declared, Callable, Site
<1>2. b.kind \in {"class", "import"} /\ RealName(Home(c), s.name) = s.name /\ BoundTo(c, s) = b
  BY DEF Classes, RealName, BoundTo
<1>3. CASE b.kind = "class"
  <2>1. Classes(Home(c), s.name) = {<<Home(c), s.name>>} /\ x = <<Home(c), s.name>>
    BY <1>3 DEF Classes
  <2>2. Stands(Home(c), s.name) = {<<Home(c), s.name>>}
    BY <1>2, <1>3 DEF Stands
  <2>3. ~Leaves(c, s) \/ s.form = "import"
    BY <1>2, <1>3 DEF Leaves, Overlooked
  <2> QED
    BY <1>3, <2>1, <2>2, <2>3
<1>4. CASE b.kind = "import"
  <2>1. /\ b.from \in Modules /\ b.name \in Names /\ Bound(b.from, b.name).kind = "class"
        /\ Classes(Home(c), s.name) = {<<b.from, b.name>>} /\ x = <<b.from, b.name>>
    BY <1>4 DEF Classes
  <2>2. files[b.from].reexports[b.name] = None /\ (~Leaves(c, s) \/ s.form = "import")
    BY <1>2, <1>4, <2>1 DEF Leaves, Overlooked
  <2>3. Stands(Home(c), s.name) \subseteq {<<b.from, b.name>>}
    BY <1>2, <1>4, <2>1, <2>2, ClassStands
  <2> QED
    BY <2>1, <2>2, <2>3
<1> QED
  BY <1>2, <1>3, <1>4

(* The targets of an edge that was resolved.                               *)
LEMMA ToIs ==
  ASSUME NEW c, NEW s, NEW to
  PROVE  To(c, s, to).problem = "none" /\ To(c, s, to).to = to
BY DEF To, Edge

(* The problem of an edge that was not resolved.                           *)
LEMMA ProblemIs ==
  ASSUME NEW c, NEW s, NEW reason
  PROVE  Problem(c, s, reason).problem = reason
BY DEF Problem, Edge

(* The targets of a construction.                                          *)
LEMMA ConstructionIs ==
  ASSUME NEW c, NEW s, NEW x
  PROVE  Construction(c, s, x).to =
           {<<x[1], x[2], "constructor">> : k \in Bound(x[1], x[2]).constructor}
BY DEF Construction, Edge

(* What the analysis makes of an import.                                   *)
Imported(b) ==
  IF b.from \in Packages THEN Failed("package", b.from, b.name)
  ELSE IF b.from \notin Collected THEN Failed("unknown-module", None, None)
  ELSE IF b.name # "*" /\ exports[b.from][b.name] # {} THEN Found(exports[b.from][b.name])
  ELSE Failed("unresolved", None, None)

(* What a plain callee of the code resolves to, by what it is bound to.    *)
LEMMA ResolvedCases ==
  ASSUME NEW c, NEW s
  PROVE  /\ BoundTo(c, s).kind = "function" =>
              ResolveBinding(Home(c), s.name) = Found({<<Home(c), RealName(Home(c), s.name), "function">>})
         /\ BoundTo(c, s).kind = "import" =>
              ResolveBinding(Home(c), s.name) = Imported(BoundTo(c, s))
         /\ BoundTo(c, s).kind \notin {"function", "import"} =>
              ResolveBinding(Home(c), s.name) = Failed("none", None, None)
BY DEF ResolveBinding, BoundTo, RealName, Imported

(* When an import of a package, and when one of a module, is resolved.     *)
LEMMA ImportedCases ==
  ASSUME NEW b
  PROVE  /\ b.from \in Packages => Imported(b) = Failed("package", b.from, b.name)
         /\ b.from \notin Packages => Imported(b).reason # "package"
         /\ Imported(b).to # {} =>
              /\ b.from \in Collected /\ b.name # "*" /\ exports[b.from][b.name] # {}
              /\ Imported(b).to = exports[b.from][b.name]
BY DEF Imported, Found, Failed

(* The two results of a resolution.                                        *)
LEMMA Outcomes ==
  ASSUME NEW to, NEW reason, NEW from, NEW name
  PROVE  /\ Found(to).to = to /\ Found(to).reason = "none"
         /\ Failed(reason, from, name).to = {} /\ Failed(reason, from, name).reason = reason
         /\ Failed(reason, from, name).from = from /\ Failed(reason, from, name).name = name
BY DEF Found, Failed

(* A plain call that the analysis does not report runs what its edges say. *)
LEMMA CallsAccounted ==
  ASSUME Resolution, phase # "index", Collected \subseteq Modules, NEW c \in Declared, NEW s \in Site,
         s.form \in {"call", "new"}, ~Overlooked(c, s),
         \A e \in Invocation(c, s) : e.problem = "none"
  PROVE  Accounts(c, s, Invocation(c, s))
<1> DEFINE b == BoundTo(c, s)
           m == Home(c)
           r == ResolveBinding(m, s.name)
<1>1. m \in Modules /\ s.name \in Names
  BY DEF Home, Declared, Callable, Site
<1>2. FilesOK /\ ExportsOK /\ Linking /\ Vouchers
  BY DEF Resolution, IInv
<1>3. Binding(Bound(m, s.name)) /\ RealName(m, s.name) \in Names
  BY <1>1, <1>2 DEF FilesOK, Parsed, Bound, RealName, Binding
<1>4. Binding(b)
  BY <1>1, <1>2, <1>3 DEF FilesOK, Parsed, Bound, BoundTo
<1>5. /\ b.kind = "function" => r.to = {<<m, RealName(m, s.name), "function">>} /\ r.reason = "none"
      /\ b.kind = "import" =>
           /\ r.reason = "package" => b.from \in Packages /\ r.from = b.from /\ r.name = b.name
           /\ r.to # {} => /\ b.from \in Collected /\ b.name # "*" /\ exports[b.from][b.name] # {}
                          /\ r.to = exports[b.from][b.name]
      /\ b.kind \notin {"function", "import"} => r.to = {} /\ r.reason = "none"
  <2> DEFINE own == {<<m, RealName(m, s.name), "function">>}
  <2> HIDE DEF own
  <2>1. /\ b.kind = "function" => r = Found(own)
        /\ b.kind = "import" => r = Imported(b)
        /\ b.kind \notin {"function", "import"} => r = Failed("none", None, None)
    BY ResolvedCases DEF own
  <2> HIDE DEF b, r
  <2>2. b.kind = "function" => r.to = own /\ r.reason = "none"
    BY <2>1, Outcomes
  <2>3. b.kind \notin {"function", "import"} => r.to = {} /\ r.reason = "none"
    BY <2>1, Outcomes
  <2>4. b.kind = "import" =>
          /\ r.reason = "package" => b.from \in Packages /\ r.from = b.from /\ r.name = b.name
          /\ r.to # {} => /\ b.from \in Collected /\ b.name # "*" /\ exports[b.from][b.name] # {}
                         /\ r.to = exports[b.from][b.name]
    BY <2>1, ImportedCases, Outcomes
  <2> QED
    BY <2>2, <2>3, <2>4 DEF own
<1>6. CASE r.to # {}
  <2>1. Invocation(c, s) = {To(c, s, r.to)}
    BY <1>6 DEF Invocation
  <2>2. UNION {e.to : e \in Invocation(c, s)} = r.to
    BY <2>1, ToIs
  <2>3. CASE b.kind = "function"
    <3>1. r.to = {<<m, RealName(m, s.name), "function">>}
      BY <1>5, <2>3
    <3>2. Stands(m, s.name) = {<<m, RealName(m, s.name)>>} /\ Bound(m, RealName(m, s.name)).kind = "function"
      BY <2>3 DEF Stands, BoundTo
    <3>3. \A t \in Runs(c, s) : t \in r.to
      BY <3>1, <3>2, OneTarget
    <3>4. ~Leaves(c, s)
      BY <2>3 DEF Leaves, Overlooked
    <3> QED
      BY <2>2, <3>3, <3>4 DEF Accounts
  <2>4. CASE b.kind = "import"
    <3>1. /\ b.from \in Collected /\ b.name # "*" /\ exports[b.from][b.name] # {}
          /\ r.to = exports[b.from][b.name]
      BY <1>5, <1>6, <2>4
    <3>2. b.from \in Modules /\ b.name \in Names
      BY <1>4, <2>4, <3>1 DEF Binding
    <3>3. PICK t \in exports[b.from][b.name] : TRUE
      BY <3>1
    <3>4. t[3] = "function" /\ Stands(m, s.name) = {<<t[1], t[2]>>}
      BY <1>2, <2>4, <3>2, <3>3, ImportedStands
    <3>5. t \in Declared
      BY <1>2, <3>2, <3>3 DEF ExportsOK
    <3>6. Bound(t[1], t[2]).kind = "function" /\ t = <<t[1], t[2], "function">>
      BY <3>4, <3>5 DEF Declared, Callable
    <3>7. \A u \in Runs(c, s) : u = t
      BY <3>4, <3>6, OneTarget
    <3>8. ~Leaves(c, s)
      BY <2>4, <3>2 DEF Leaves, Overlooked
    <3> QED
      BY <2>2, <3>1, <3>3, <3>7, <3>8 DEF Accounts
  <2>5. b.kind \in {"function", "import"}
    BY <1>5, <1>6
  <2> QED
    BY <2>3, <2>4, <2>5
<1>7. CASE /\ r.to = {} /\ r.reason = "package"
           /\ ~IsLocallyShadowed(c, s.name) /\ IsPackageCallTrusted(r.from, r.name)
  <2>1. b.kind = "import"
    BY <1>5, <1>7
  <2>2. b.from \in Packages /\ r.from = b.from /\ r.name = b.name
    BY <1>5, <1>7, <2>1
  <2>3. b.from \notin Modules
    BY <2>2, CallGraphAssumption
  <2>4. Vouched(b.from, b.name)
    BY <1>2, <1>7, <2>2, TrustedIsVouched
  <2>5. Runs(c, s) = {}
    <3>1. Stands(m, s.name) = {}
      BY <2>1, <2>3 DEF Stands, BoundTo
    <3> QED
      BY <3>1 DEF Runs
  <2>6. s.name \notin Shadowed(c)
    BY <1>7 DEF IsLocallyShadowed, Overlooked, Shadowed
  <2> QED
    BY <2>4, <2>5, <2>6 DEF Accounts
<1>8. CASE /\ r.to = {}
           /\ ~(r.reason = "package" /\ ~IsLocallyShadowed(c, s.name) /\ IsPackageCallTrusted(r.from, r.name))
  <2>1. CASE s.form = "new" /\ Classes(m, s.name) # {}
    <3>1. Invocation(c, s) = {Construction(c, s, x) : x \in Classes(m, s.name)}
      BY <1>8, <2>1 DEF Invocation
    <3>2. PICK x \in Classes(m, s.name) : TRUE
      BY <2>1
    <3>3. /\ Classes(m, s.name) = {x} /\ Stands(m, s.name) \subseteq {<<x[1], x[2]>>}
          /\ Bound(x[1], x[2]).kind = "class" /\ ~Leaves(c, s)
      BY <1>2, <2>1, ClassesStand
    <3>4. UNION {e.to : e \in Invocation(c, s)} =
            {<<x[1], x[2], "constructor">> : k \in Bound(x[1], x[2]).constructor}
      BY <3>1, <3>3, ConstructionIs
    <3>5. \A t \in Runs(c, s) : t = <<x[1], x[2], "constructor">> /\ Bound(x[1], x[2]).constructor # {}
      BY <2>1, <3>3, OneTarget
    <3> QED
      BY <3>3, <3>4, <3>5 DEF Accounts
  <2>2. CASE ~(s.form = "new" /\ Classes(m, s.name) # {}) /\ Bound(m, s.name).kind = "class"
    <3>1. RealName(m, s.name) = s.name /\ b.kind = "class" /\ Classes(m, s.name) # {}
      BY <2>2 DEF RealName, BoundTo, Classes
    <3>2. Stands(m, s.name) \subseteq {<<m, s.name>>} /\ Bound(m, s.name).kind = "class" /\ s.form # "new"
      BY <2>2, <3>1 DEF Stands, BoundTo
    <3>3. \A t \in Runs(c, s) : FALSE
      BY <3>2, OneTarget
    <3>4. ~Leaves(c, s)
      BY <3>1 DEF Leaves, Overlooked
    <3> QED
      BY <3>3, <3>4 DEF Accounts
  <2>3. CASE ~(s.form = "new" /\ Classes(m, s.name) # {}) /\ Bound(m, s.name).kind # "class"
    <3> DEFINE reason == IF r.reason = "none" THEN "unresolved" ELSE r.reason
    <3>1. Invocation(c, s) = {Problem(c, s, reason)}
      BY <1>8, <2>3 DEF Invocation
    <3>2. reason # "none"
      OBVIOUS
    <3> HIDE DEF reason
    <3> QED
      BY <3>1, <3>2, ProblemIs
  <2> QED
    BY <2>1, <2>2, <2>3
<1> QED
  BY <1>6, <1>7, <1>8

(* So does an access to a member.                                          *)
LEMMA MembersAccounted ==
  ASSUME Resolution, Collected \subseteq Modules, NEW c \in Declared, NEW s \in Site,
         s.form \in {"method", "member"}, ~Overlooked(c, s),
         \A e \in MemberAccess(c, s) : e.problem = "none"
  PROVE  Accounts(c, s, MemberAccess(c, s))
<1> DEFINE m == Home(c)
           b == Bound(m, s.name)
           classes == Classes(m, s.name)
<1>1. FilesOK /\ Vouchers
  BY DEF Resolution, IInv
<1>2. CASE s.form = "method" /\ classes # {}
  <2>1. MemberAccess(c, s) =
          {IF Cardinality(Bound(x[1], x[2]).methods) = 1 THEN To(c, s, {<<x[1], x[2], "method">>})
           ELSE Problem(c, s, "ambiguous") : x \in classes}
    BY <1>2 DEF MemberAccess
  <2>2. PICK x \in classes : TRUE
    BY <1>2
  <2>3. /\ classes = {x} /\ Stands(m, s.name) \subseteq {<<x[1], x[2]>>}
        /\ Bound(x[1], x[2]).kind = "class" /\ ~Leaves(c, s)
    BY <1>1, <1>2, ClassesStand
  <2> DEFINE e0 == IF Cardinality(Bound(x[1], x[2]).methods) = 1 THEN To(c, s, {<<x[1], x[2], "method">>})
                   ELSE Problem(c, s, "ambiguous")
  <2>4. MemberAccess(c, s) = {e0}
    BY <2>1, <2>3
  <2>5. e0.problem = "none"
    BY <2>4
  <2>6. e0.to = {<<x[1], x[2], "method">>}
    BY <2>5, ToIs, ProblemIs
  <2>7. \A t \in Runs(c, s) : t = <<x[1], x[2], "method">>
    BY <1>2, <2>3, OneTarget
  <2> QED
    BY <2>3, <2>4, <2>6, <2>7 DEF Accounts
<1>3. CASE /\ ~(s.form = "method" /\ classes # {})
           /\ s.form = "member" /\ b.kind = "import" /\ ~IsLocallyShadowed(c, s.name)
           /\ IsPackageCallTrusted(b.from, "member")
  <2>1. Runs(c, s) = {}
    BY <1>3 DEF Runs
  <2>2. BoundTo(c, s) = b
    BY <1>3 DEF BoundTo, RealName
  <2>3. Vouched(b.from, "member")
    BY <1>1, <1>3, TrustedIsVouched
  <2>4. s.name \notin Shadowed(c)
    BY <1>3 DEF IsLocallyShadowed, Overlooked, Shadowed
  <2> QED
    BY <1>3, <2>1, <2>2, <2>3, <2>4 DEF Accounts
<1>4. CASE /\ ~(s.form = "method" /\ classes # {})
           /\ ~(s.form = "member" /\ b.kind = "import" /\ ~IsLocallyShadowed(c, s.name)
                 /\ IsPackageCallTrusted(b.from, "member"))
  <2>1. MemberAccess(c, s) = {Problem(c, s, "unresolved")}
    BY <1>4 DEF MemberAccess
  <2> QED
    BY <2>1, ProblemIs
<1> QED
  BY <1>2, <1>3, <1>4

(* A call that the analysis passes as resolved runs just what its edges lead *)
(* to, through one alias, imports and any chain of re-exports, or it goes to *)
(* an export that was vouched for under a name that nothing hides - but for  *)
(* what the code overlooks.                                                  *)
THEOREM NothingIsGuessed == Spec => []NothingGuessed
<1>1. Init => Ordered /\ Linking /\ Vouchers
  <2> SUFFICES ASSUME Init
               PROVE  Ordered /\ Linking /\ Vouchers
    OBVIOUS
  <2>1. Ordered /\ Vouchers
    BY DEF Init, Ordered, Vouchers
  <2>2. \A m \in Modules : \A n \in Names : exports[m][n] = {}
    BY DEF Init, NoExports
  <2> QED
    BY <2>1, <2>2 DEF Linking
<1>2. IInv /\ Ordered /\ Linking /\ Vouchers /\ [Next]_vars => Ordered' /\ Linking' /\ Vouchers'
  BY LinkingStep, VouchersStep
<1>3. Resolution => NothingGuessed
  <2> SUFFICES ASSUME Resolution, phase = "done", NEW c \in reached, NEW s \in BodyOf(c).sites,
                      \A e \in EdgesAt(c, s) : e.problem = "none", ~Overlooked(c, s)
               PROVE  Accounts(c, s, EdgesAt(c, s))
    BY DEF NothingGuessed, Accounts
  <2>1. c \in Declared /\ Collected \subseteq Modules
    BY Apart DEF Resolution, IInv, Placed
  <2>2. s \in Site
    BY <2>1, BodyTyped DEF Resolution, IInv, Body
  <2>3. CASE s.form = "import"
    <3>1. EdgesAt(c, s) = {Problem(c, s, "unknown-module")}
      BY <2>3 DEF EdgesAt
    <3> QED
      BY <3>1, ProblemIs
  <2>4. CASE s.form \in {"call", "new"}
    <3>1. EdgesAt(c, s) = Invocation(c, s)
      BY <2>4 DEF EdgesAt
    <3> QED
      BY <2>1, <2>2, <2>4, <3>1, CallsAccounted
  <2>5. CASE s.form \in {"method", "member"}
    <3>1. EdgesAt(c, s) = MemberAccess(c, s)
      BY <2>5 DEF EdgesAt
    <3> QED
      BY <2>1, <2>2, <2>5, <3>1, MembersAccounted
  <2> QED
    BY <2>2, <2>3, <2>4, <2>5 DEF Site, Forms
<1> QED
  BY <1>1, <1>2, <1>3, Inductive, PTL DEF Spec, Resolution

-----------------------------------------------------------------------------
(* What an analysis depends on *)

(* What a module sees of those it imports: which are collected, and what    *)
(* each of them exports.                                                   *)
Sight(ex, coll, m) ==
  [i \in Imports(m) |-> [known |-> i \in coll, exports |-> IF i \in coll THEN ex[i] ELSE <<>>]]

(* The resolution of a name, the classes of a name and the edges of a site,*)
(* by what the module sees.                                                *)
ImportedIn(v, b) ==
  IF b.from \in Packages THEN Failed("package", b.from, b.name)
  ELSE IF ~v[b.from].known THEN Failed("unknown-module", None, None)
  ELSE IF b.name # "*" /\ v[b.from].exports[b.name] # {} THEN Found(v[b.from].exports[b.name])
  ELSE Failed("unresolved", None, None)
ResolveIn(v, m, name) ==
  LET n == RealName(m, name)  b == Bound(m, n) IN
  IF b.kind = "function" THEN Found({<<m, n, "function">>})
  ELSE IF b.kind = "import" THEN ImportedIn(v, b)
  ELSE Failed("none", None, None)
ClassesIn(v, m, n) ==
  LET b == Bound(m, n) IN
  IF b.kind = "class" THEN {<<m, n>>}
  ELSE IF b.kind = "import" /\ v[b.from].known /\ b.name \in Names
          /\ Bound(b.from, b.name).kind = "class" THEN {<<b.from, b.name>>}
  ELSE {}
InvocationIn(r, classes, c, s) ==
  IF r.to # {} THEN {To(c, s, r.to)}
  ELSE IF r.reason = "package" /\ ~IsLocallyShadowed(c, s.name) /\ IsPackageCallTrusted(r.from, r.name)
  THEN {Trusted(c, s, r.from, r.name)}
  ELSE IF s.form = "new" /\ classes # {} THEN {Construction(c, s, x) : x \in classes}
  ELSE IF Bound(Home(c), s.name).kind = "class" THEN {}
  ELSE {Problem(c, s, IF r.reason = "none" THEN "unresolved" ELSE r.reason)}
Method(c, s, x) ==
  IF Cardinality(Bound(x[1], x[2]).methods) = 1 THEN To(c, s, {<<x[1], x[2], "method">>})
  ELSE Problem(c, s, "ambiguous")
MemberIn(classes, c, s) ==
  LET b == Bound(Home(c), s.name) IN
  IF s.form = "method" /\ classes # {} THEN {Method(c, s, x) : x \in classes}
  ELSE IF s.form = "member" /\ b.kind = "import" /\ ~IsLocallyShadowed(c, s.name)
          /\ IsPackageCallTrusted(b.from, "member") THEN {Trusted(c, s, b.from, "member")}
  ELSE {Problem(c, s, "unresolved")}
EdgesAtIn(v, c, s) ==
  IF s.form = "import" THEN {Problem(c, s, "unknown-module")}
  ELSE IF s.form \in {"call", "new"}
  THEN InvocationIn(ResolveIn(v, Home(c), s.name), ClassesIn(v, Home(c), s.name), c, s)
  ELSE MemberIn(ClassesIn(v, Home(c), s.name), c, s)
EdgesIn(v, c) == UNION {EdgesAtIn(v, c, s) : s \in BodyOf(c).sites}
EdgesOf(ex, coll, c) == EdgesIn(Sight(ex, coll, Home(c)), c)

(* A module sees what it imports.                                          *)
LEMMA InSight ==
  ASSUME NEW m, NEW n \in Names, Bound(m, n).kind = "import"
  PROVE  /\ Bound(m, n).from \in Imports(m)
         /\ \A ex, coll :
              LET i == Bound(m, n).from IN
              /\ Sight(ex, coll, m)[i].known <=> i \in coll
              /\ i \in coll => Sight(ex, coll, m)[i].exports = ex[i]
<1>1. Bound(m, n).from \in Imports(m)
  BY DEF Imports
<1> QED
  BY <1>1 DEF Sight

(* What the code resolves is resolved by that.                             *)
LEMMA ResolveSeen ==
  ASSUME FilesOK, NEW m \in Modules, NEW n \in Names
  PROVE  /\ ResolveBinding(m, n) = ResolveIn(Sight(exports, Collected, m), m, n)
         /\ Classes(m, n) = ClassesIn(Sight(exports, Collected, m), m, n)
<1> DEFINE k == RealName(m, n)
           v == Sight(exports, Collected, m)
<1>1. Binding(Bound(m, n))
  BY DEF FilesOK, Parsed, Bound
<1>2. k \in Names
  BY <1>1 DEF Binding, RealName
<1>3. \A j \in Names : Bound(m, j).kind = "import" =>
        /\ v[Bound(m, j).from].known <=> Bound(m, j).from \in Collected
        /\ Bound(m, j).from \in Collected => v[Bound(m, j).from].exports = exports[Bound(m, j).from]
  BY InSight
<1> HIDE DEF v
<1>4. Classes(m, n) = ClassesIn(v, m, n)
  BY <1>3 DEF Classes, ClassesIn
<1>5. Bound(m, k).kind = "import" => ImportedIn(v, Bound(m, k)) = Imported(Bound(m, k))
  BY <1>2, <1>3 DEF ImportedIn, Imported
<1>6. ResolveBinding(m, n) = ResolveIn(v, m, n)
  <2>1. CASE Bound(m, k).kind = "function"
    BY <2>1 DEF ResolveBinding, ResolveIn, RealName
  <2>2. CASE Bound(m, k).kind = "import"
    <3>1. ResolveIn(v, m, n) = Imported(Bound(m, k))
      BY <1>5, <2>2 DEF ResolveIn
    <3>2. ResolveBinding(m, n) = Imported(Bound(m, k))
      BY <2>2 DEF ResolveBinding, RealName, Imported
    <3> QED
      BY <3>1, <3>2
  <2>3. CASE Bound(m, k).kind \notin {"function", "import"}
    BY <2>3 DEF ResolveBinding, ResolveIn, RealName
  <2> QED
    BY <2>1, <2>2, <2>3
<1> QED
  BY <1>4, <1>6 DEF v

(* So the edges of a callable depend on what its module sees, and else on   *)
(* the files, the catalog and the lockfiles.                               *)
LEMMA SiteSeen ==
  ASSUME FilesOK, NEW c \in Declared, NEW s \in BodyOf(c).sites
  PROVE  EdgesAt(c, s) = EdgesAtIn(Sight(exports, Collected, Home(c)), c, s)
<1> DEFINE v == Sight(exports, Collected, Home(c))
           r == ResolveBinding(Home(c), s.name)
           classes == Classes(Home(c), s.name)
<1>1. Home(c) \in Modules
  BY DEF Home, Declared, Callable
<1>2. s.form \in Forms /\ s.name \in Names
  BY BodyTyped DEF Body, Site
<1>3. r = ResolveIn(v, Home(c), s.name) /\ classes = ClassesIn(v, Home(c), s.name)
  BY <1>1, <1>2, ResolveSeen
<1>4. Invocation(c, s) = InvocationIn(r, classes, c, s)
  BY DEF Invocation, InvocationIn
<1>5. MemberAccess(c, s) = MemberIn(classes, c, s)
  <2>1. CASE s.form = "method" /\ classes # {}
    <3>1. MemberAccess(c, s) =
            {IF Cardinality(Bound(x[1], x[2]).methods) = 1 THEN To(c, s, {<<x[1], x[2], "method">>})
             ELSE Problem(c, s, "ambiguous") : x \in classes}
      BY <2>1 DEF MemberAccess
    <3>2. MemberIn(classes, c, s) = {Method(c, s, x) : x \in classes}
      BY <2>1 DEF MemberIn
    <3> QED
      BY <3>1, <3>2 DEF Method
  <2>2. CASE ~(s.form = "method" /\ classes # {})
    BY <2>2 DEF MemberAccess, MemberIn
  <2> QED
    BY <2>1, <2>2
<1> HIDE DEF r, classes, v
<1>6. CASE s.form = "import"
  BY <1>6 DEF EdgesAt, EdgesAtIn, v
<1>7. CASE s.form \in {"call", "new"}
  BY <1>3, <1>4, <1>7 DEF EdgesAt, EdgesAtIn, v
<1>8. CASE s.form \in {"method", "member"}
  BY <1>3, <1>5, <1>8 DEF EdgesAt, EdgesAtIn, v
<1> QED
  BY <1>2, <1>6, <1>7, <1>8 DEF Forms

LEMMA EdgesSeen ==
  ASSUME FilesOK, NEW c \in Declared
  PROVE  CollectEdges(c) = EdgesOf(exports, Collected, c)
BY SiteSeen DEF CollectEdges, EdgesOf, EdgesIn

(* What stays as it is while the files, the catalog and the lockfiles do,   *)
(* for any exports of any modules.                                         *)
LEMMA SightStays ==
  ASSUME UNCHANGED <<files, catalog, lockfiles>>
  PROVE  \A ex, coll, c : EdgesOf(ex, coll, c)' = EdgesOf(ex, coll, c)
<1>1. /\ \A m, n : Bound(m, n)' = Bound(m, n)
      /\ \A c : BodyOf(c)' = BodyOf(c)
      /\ \A m : Imports(m)' = Imports(m)
  BY SameBodies
<1>2. \A p, x : IsPackageCallTrusted(p, x)' = IsPackageCallTrusted(p, x)
  BY SameTrust
<1>3. \A v, m, n : ResolveIn(v, m, n)' = ResolveIn(v, m, n)
  BY <1>1 DEF ResolveIn, RealName, ImportedIn
<1>4. \A v, m, n : ClassesIn(v, m, n)' = ClassesIn(v, m, n)
  BY <1>1 DEF ClassesIn
<1>5. \A c, s, x : Construction(c, s, x)' = Construction(c, s, x) /\ Method(c, s, x)' = Method(c, s, x)
  BY <1>1 DEF Construction, Method
<1>6. \A c, s : IsLocallyShadowed(c, s)' = IsLocallyShadowed(c, s)
  BY <1>1 DEF IsLocallyShadowed
<1>7. \A r, classes, c, s : InvocationIn(r, classes, c, s)' = InvocationIn(r, classes, c, s)
  BY <1>1, <1>2, <1>5, <1>6 DEF InvocationIn
<1>8. \A classes, c, s : MemberIn(classes, c, s)' = MemberIn(classes, c, s)
  BY <1>1, <1>2, <1>5, <1>6 DEF MemberIn
<1>9. \A v, c, s : EdgesAtIn(v, c, s)' = EdgesAtIn(v, c, s)
  BY <1>3, <1>4, <1>7, <1>8 DEF EdgesAtIn
<1>10. \A v, c : EdgesIn(v, c)' = EdgesIn(v, c)
  BY <1>1, <1>9 DEF EdgesIn
<1>11. \A ex, coll, m : Sight(ex, coll, m)' = Sight(ex, coll, m)
  BY <1>1 DEF Sight
<1> QED
  BY <1>10, <1>11 DEF EdgesOf

-----------------------------------------------------------------------------
(* What an analysis ends with, whatever order it takes things in *)

Target == <<Entry[1], Entry[2], "function">>

(* Sets of callables and of modules that are closed under what is followed.*)
ClosedIn(ex, coll, R, S) ==
  /\ R \subseteq Declared /\ S \subseteq Modules
  /\ ex[Entry[1]][Entry[2]] \subseteq R
  /\ \A c \in R : Home(c) \in S /\ \A e \in EdgesOf(ex, coll, c) : e.to \subseteq R
  /\ \A m \in S : Imports(m) \cap coll \subseteq S

(* A verdict of each callable that takes all into account.                 *)
Upheld(ex, coll, R, f) ==
  /\ f \in [R -> Verdicts]
  /\ \A c \in R :
       /\ Rank(Direct(c)) <= Rank(f[c])
       /\ \A e \in EdgesOf(ex, coll, c) :
            /\ e.evidence = "refuted" => f[c] = "refuted"
            /\ e.problem # "none" => f[c] # "likely-safe"
            /\ \A t \in e.to : Rank(f[t]) <= Rank(f[c])

(* The least of each.                                                      *)
LeastIn(ex, coll, R, S) == \A Q, T : ClosedIn(ex, coll, Q, T) => R \subseteq Q /\ S \subseteq T
LowestIn(ex, coll, R, f) ==
  \A g : Upheld(ex, coll, R, g) => \A c \in R : Rank(f[c]) <= Rank(g[c])

Ends(ex, coll, R, S, f) ==
  /\ ex[Entry[1]][Entry[2]] = {Target} /\ coll \subseteq Modules
  /\ ClosedIn(ex, coll, R, S) /\ LeastIn(ex, coll, R, S)
  /\ Upheld(ex, coll, R, f) /\ LowestIn(ex, coll, R, f)
  /\ \A m \in S : Imports(m) \cap Modules \subseteq coll

UnknownIn(coll, m) == {s \in Imports(m) : s \notin coll /\ ~(s \in Packages /\ Catalogued(s))}
EvidenceOf(ex, coll, R, S) ==
  {<<e.from, e.site, e.problem>> : e \in {x \in UNION {EdgesOf(ex, coll, c) : c \in R} : x.problem # "none"}}
    \cup (UNION {{<<m, s>> : s \in UnknownIn(coll, m)} : m \in S})
InitializationOf(coll, S) ==
  IF \E m \in S : files[m].initial = "refuted" THEN "refuted"
  ELSE IF \E m \in S : UnknownIn(coll, m) # {} THEN "unknown" ELSE "likely-safe"

(* None of this depends on where an analysis is.                           *)
LEMMA EndsStay ==
  ASSUME UNCHANGED <<files, catalog, lockfiles>>
  PROVE  /\ \A ex, coll, R, S : ClosedIn(ex, coll, R, S)' = ClosedIn(ex, coll, R, S)
         /\ \A ex, coll, R, f : Upheld(ex, coll, R, f)' = Upheld(ex, coll, R, f)
         /\ \A ex, coll, R, S : LeastIn(ex, coll, R, S)' = LeastIn(ex, coll, R, S)
         /\ \A ex, coll, R, f : LowestIn(ex, coll, R, f)' = LowestIn(ex, coll, R, f)
         /\ \A ex, coll, R, S, f : Ends(ex, coll, R, S, f)' = Ends(ex, coll, R, S, f)
         /\ \A ex, coll, R, S : EvidenceOf(ex, coll, R, S)' = EvidenceOf(ex, coll, R, S)
         /\ \A coll, S : InitializationOf(coll, S)' = InitializationOf(coll, S)
<1>1. /\ \A m : Imports(m)' = Imports(m)
      /\ \A c : Direct(c)' = Direct(c)
      /\ Declared' = Declared
  BY SameBodies
<1>2. \A ex, coll, c : EdgesOf(ex, coll, c)' = EdgesOf(ex, coll, c)
  BY SightStays
<1>3. \A ex, coll, R, S : ClosedIn(ex, coll, R, S)' = ClosedIn(ex, coll, R, S)
  BY <1>1, <1>2 DEF ClosedIn
<1>4. \A ex, coll, R, f : Upheld(ex, coll, R, f)' = Upheld(ex, coll, R, f)
  BY <1>1, <1>2 DEF Upheld
<1>5. \A ex, coll, R, S : LeastIn(ex, coll, R, S)' = LeastIn(ex, coll, R, S)
  BY <1>3 DEF LeastIn
<1>6. \A ex, coll, R, f : LowestIn(ex, coll, R, f)' = LowestIn(ex, coll, R, f)
  BY <1>4 DEF LowestIn
<1>7. \A ex, coll, R, S, f : Ends(ex, coll, R, S, f)' = Ends(ex, coll, R, S, f)
  BY <1>1, <1>3, <1>4, <1>5, <1>6 DEF Ends
<1>8. \A coll, m : UnknownIn(coll, m)' = UnknownIn(coll, m)
  BY <1>1 DEF UnknownIn, Catalogued
<1>9. \A coll, S : InitializationOf(coll, S)' = InitializationOf(coll, S)
  BY <1>8 DEF InitializationOf
<1>10. \A ex, coll, R, S : EvidenceOf(ex, coll, R, S)' = EvidenceOf(ex, coll, R, S)
  BY <1>2, <1>8 DEF EvidenceOf
<1> QED
  BY <1>3, <1>4, <1>5, <1>6, <1>7, <1>9, <1>10

(* The analysis at hand.                                                   *)
LEMMA AtHand ==
  ASSUME IInv
  PROVE  /\ \A c \in reached : CollectEdges(c) = EdgesOf(exports, Collected, c)
         /\ UnknownEvidence = EvidenceOf(exports, Collected, reached, scanned)
         /\ Initialization = InitializationOf(Collected, scanned)
<1>1. \A c \in reached : CollectEdges(c) = EdgesOf(exports, Collected, c)
  BY EdgesSeen DEF IInv, Placed
<1>2. Edges = UNION {EdgesOf(exports, Collected, c) : c \in reached}
  BY <1>1 DEF Edges
<1>3. \A m : UnknownImports(m) = UnknownIn(Collected, m)
  BY DEF UnknownImports, UnknownIn
<1>4. Initialization = InitializationOf(Collected, scanned)
  BY <1>3 DEF Initialization, InitializationOf
<1>5. UnknownEvidence = EvidenceOf(exports, Collected, reached, scanned)
  BY <1>2, <1>3 DEF UnknownEvidence, EvidenceOf
<1> QED
  BY <1>1, <1>4, <1>5

-----------------------------------------------------------------------------
(* The invariant *)

(* What a collected module imports from the project is collected.          *)
Gathered ==
  /\ modules # <<>> /\ modules[1] = Entry[1]
  /\ phase = "collect" => \A i \in 1 .. at : Follows(modules[i]) \subseteq Collected
  /\ phase # "collect" => \A m \in Collected : Follows(m) \subseteq Collected

(* Only collected modules export.                                          *)
ExportsWithin ==
  \A m \in Modules : \A n \in Names : \A t \in exports[m][n] : Home(t) \in Collected

(* The entry is indexed first.                                             *)
EntryFirst ==
  /\ (phase = "index" /\ at > 0) \/ Started
  /\ CaptureTarget
  => exports[Entry[1]][Entry[2]] = {Target}

(* What is reached, scanned or queued is in whatever is closed,            *)
Least ==
  Started =>
    \A Q, T : ClosedIn(exports, Collected, Q, T) =>
      reached \subseteq Q /\ scanned \subseteq T /\ queue \subseteq Q \cup T

(* and no status is above what it has to be.                               *)
Lowest ==
  phase \in {"fixpoint", "again", "done"} => LowestIn(exports, Collected, reached, status)

(* The end of the analysis of a target.                                    *)
Concluded ==
  phase = "done" /\ CaptureTarget =>
    /\ Ends(exports, Collected, reached, scanned, status)
    /\ verdict = Join(status[Target], Initialization)

(* What was captured, for as long as nothing is edited.                    *)
Capturable == CaptureTarget /\ ValidPolicy /\ "capture" \in Directives
Recalled ==
  edits = 0 /\ (gate = "verify" \/ outcome = "captured") =>
    LET r == reviewed  coll == ToSet(r.modules)  v == Join(r.status[Target], InitializationOf(coll, r.scanned)) IN
    /\ Capturable
    /\ Ends(r.exports, coll, r.reached, r.scanned, r.status)
    /\ r.evidence = EvidenceOf(r.exports, coll, r.reached, r.scanned)
    /\ \/ v = "likely-safe" /\ case.assumption = NoAssumption
       \/ /\ v = "unknown" /\ "assume-pure" \in Directives /\ Lockfile # None
          /\ case.assumption = [sources |-> {<<m, files[m]>> : m \in r.scanned}, lockfile |-> Lockfile,
                                evidence |-> r.evidence]

Counted == edits \in Nat
Gated == IInv /\ Ordered /\ Counted
Exact == Gathered /\ ExportsWithin /\ EntryFirst /\ Least /\ Lowest /\ Concluded /\ Recalled /\ GatesAgree

-----------------------------------------------------------------------------
(* What is collected *)

(* A finite set in some order is all of it.                                *)
LEMMA InOrder ==
  ASSUME NEW S, IsFiniteSet(S)
  PROVE  SetToSeq(S) \in Seq(S) /\ ToSet(SetToSeq(S)) = S
<1> DEFINE s == SetToSeq(S)
           n == Cardinality(S)
<1>1. n \in Nat /\ ExistsBijection(1 .. n, S)
  BY FS_CardinalityType
<1>2. PICK f \in Bijection(1 .. n, S) : TRUE
  BY <1>1 DEF ExistsBijection
<1>3. f \in [1 .. n -> S] /\ IsInjective(f)
  BY <1>2 DEF Bijection, Injection, IsInjective
<1>4. s \in [1 .. n -> S] /\ IsInjective(s)
  BY <1>3 DEF SetToSeq
<1>5. s \in Seq(S) /\ DOMAIN s = 1 .. n
  BY <1>1, <1>4, SeqDef
<1>6. s \in Injection(1 .. n, S)
  BY <1>4 DEF Injection
<1>7. Cardinality(1 .. n) = n
  <2>1. Cardinality(1 .. n) = IF 1 > n THEN 0 ELSE n - 1 + 1
    BY <1>1, FS_Interval
  <2> QED
    BY <1>1, <2>1
<1>8. s \in Surjection(1 .. n, S)
  BY <1>6, <1>7, FS_Injection
<1>9. \A x \in S : \E i \in DOMAIN s : s[i] = x
  BY <1>4, <1>5, <1>8 DEF Surjection
<1> HIDE DEF s, n
<1>10. ToSet(s) = S
  <2>1. \A i \in DOMAIN s : s[i] \in S
    BY <1>4, <1>5
  <2> QED
    BY <1>9, <2>1 DEF ToSet
<1> QED
  BY <1>5, <1>10 DEF s

(* What is appended is added.                                              *)
LEMMA Appending ==
  ASSUME NEW A, NEW s \in Seq(A), NEW t \in Seq(A)
  PROVE  /\ s \o t \in Seq(A) /\ Len(s) <= Len(s \o t)
         /\ ToSet(s \o t) = ToSet(s) \cup ToSet(t)
         /\ \A i \in 1 .. Len(s) : (s \o t)[i] = s[i]
<1>1. Len(s \o t) = Len(s) + Len(t) /\ Len(s) \in Nat /\ Len(t) \in Nat /\ s \o t \in Seq(A)
  OBVIOUS
<1>2. \A i \in 1 .. Len(s \o t) : (s \o t)[i] = IF i <= Len(s) THEN s[i] ELSE t[i - Len(s)]
  OBVIOUS
<1>3. DOMAIN (s \o t) = 1 .. Len(s \o t) /\ DOMAIN s = 1 .. Len(s) /\ DOMAIN t = 1 .. Len(t)
  BY <1>1
<1>4. ToSet(s \o t) \subseteq ToSet(s) \cup ToSet(t)
  <2> SUFFICES ASSUME NEW i \in 1 .. Len(s \o t)
               PROVE  (s \o t)[i] \in ToSet(s) \cup ToSet(t)
    BY <1>3 DEF ToSet
  <2>1. CASE i <= Len(s)
    BY <1>1, <1>2, <1>3, <2>1 DEF ToSet
  <2>2. CASE ~(i <= Len(s))
    <3>1. i - Len(s) \in 1 .. Len(t)
      BY <1>1, <2>2
    <3> QED
      BY <1>2, <1>3, <2>2, <3>1 DEF ToSet
  <2> QED
    BY <2>1, <2>2
<1>5. ToSet(s) \subseteq ToSet(s \o t)
  <2> SUFFICES ASSUME NEW i \in 1 .. Len(s)
               PROVE  s[i] \in ToSet(s \o t)
    BY <1>3 DEF ToSet
  <2>1. i \in 1 .. Len(s \o t) /\ (s \o t)[i] = s[i]
    BY <1>1, <1>2
  <2> QED
    BY <1>3, <2>1 DEF ToSet
<1>6. ToSet(t) \subseteq ToSet(s \o t)
  <2> SUFFICES ASSUME NEW i \in 1 .. Len(t)
               PROVE  t[i] \in ToSet(s \o t)
    BY <1>3 DEF ToSet
  <2>1. i + Len(s) \in 1 .. Len(s \o t) /\ ~(i + Len(s) <= Len(s)) /\ (i + Len(s)) - Len(s) = i
    BY <1>1
  <2>2. (s \o t)[i + Len(s)] = t[i]
    BY <1>2, <2>1
  <2> QED
    BY <1>3, <2>1, <2>2 DEF ToSet
<1> QED
  BY <1>1, <1>2, <1>4, <1>5, <1>6

(* Collecting goes on until what the collected modules import is collected.*)
LEMMA CollectGathered ==
  ASSUME Gated, Gathered, Collect
  PROVE  Gathered'
<1>1. /\ modules \in Seq(Modules) /\ at \in Nat /\ at <= Len(modules) /\ phase = "collect"
      /\ UNCHANGED <<files, gate>>
  BY DEF Gated, IInv, Ordered, Placed, Collect, projectVars
<1>2. \A m : Follows(m)' = Follows(m)
  <2>1. \A m, n : Bound(m, n)' = Bound(m, n)
    BY <1>1 DEF Bound
  <2>2. \A m : Imports(m)' = Imports(m) /\ Reexports(m)' = Reexports(m)
    BY <1>1, <2>1 DEF Imports, Reexports
  <2> QED
    BY <1>1, <2>2 DEF Follows
<1>3. CASE at < Len(modules)
  <2> DEFINE F == Follows(modules[at + 1])
             S == F \ ToSet(modules)
             s == SetToSeq(S)
  <2>1. S \subseteq Modules /\ IsFiniteSet(S)
    BY CallGraphAssumption, FS_Subset DEF Follows
  <2>2. s \in Seq(Modules) /\ ToSet(s) = S
    <3>1. s \in Seq(S) /\ ToSet(s) = S
      BY <2>1, InOrder
    <3> HIDE DEF s, S
    <3> QED
      BY <2>1, <3>1
  <2>3. modules' = modules \o s /\ at' = at + 1 /\ phase' = phase
    BY <1>3 DEF Collect
  <2> HIDE DEF s
  <2>4. /\ ToSet(modules') = ToSet(modules) \cup S /\ modules' \in Seq(Modules) /\ Len(modules) <= Len(modules')
        /\ \A i \in 1 .. Len(modules) : modules'[i] = modules[i]
    BY <1>1, <2>2, <2>3, Appending
  <2>5. F \subseteq Collected' /\ Collected \subseteq Collected'
    BY <2>4 DEF Collected
  <2>6. ASSUME NEW i \in 1 .. at'
        PROVE  modules'[i] = modules[i] /\ Follows(modules[i]) \subseteq Collected'
    <3>1. modules'[i] = modules[i] /\ (i \in 1 .. at \/ i = at + 1)
      BY <1>1, <1>3, <2>3, <2>4
    <3>2. Follows(modules[i]) \subseteq Collected'
      BY <1>1, <2>5, <3>1 DEF Gathered
    <3> QED
      BY <3>1, <3>2
  <2>7. modules' # <<>> /\ modules'[1] = Entry[1]
    BY <1>1, <1>3, <2>4 DEF Gathered
  <2> QED
    BY <1>1, <1>2, <2>3, <2>6, <2>7 DEF Gathered
<1>4. CASE ~(at < Len(modules))
  <2>1. modules' = modules /\ phase' = "index"
    BY <1>4 DEF Collect
  <2>2. ASSUME NEW m \in Collected
        PROVE  Follows(m) \subseteq Collected
    <3>1. PICK i \in DOMAIN modules : modules[i] = m
      BY DEF Collected, ToSet
    <3>2. i \in 1 .. at
      BY <1>1, <1>4, <3>1
    <3> QED
      BY <1>1, <3>1, <3>2 DEF Gathered
  <2>3. Collected' = Collected
    BY <2>1 DEF Collected
  <2> QED
    BY <1>2, <2>1, <2>2, <2>3 DEF Gathered
<1> QED
  BY <1>3, <1>4

LEMMA GatheredStep ==
  ASSUME Gated, Gathered, [Next]_vars
  PROVE  Gathered'
<1>1. ASSUME UNCHANGED <<files, gate, modules>>, phase # "collect", phase' # "collect"
      PROVE  Gathered'
  <2>1. \A m, n : Bound(m, n)' = Bound(m, n)
    BY <1>1 DEF Bound
  <2>2. \A m : Imports(m)' = Imports(m) /\ Reexports(m)' = Reexports(m)
    BY <1>1, <2>1 DEF Imports, Reexports
  <2>3. (\A m : Follows(m)' = Follows(m)) /\ Collected' = Collected
    BY <1>1, <2>2 DEF Follows, Collected
  <2> QED
    BY <1>1, <2>3 DEF Gathered
<1>2. CASE Collect
  BY <1>2, CollectGathered
<1>3. CASE Index \/ Scan \/ Settle \/ Propagate \/ Attach \/ Conclude
  BY <1>1, <1>3 DEF Index, Scan, Settle, Propagate, Attach, NextRound, Conclude, projectVars
<1>4. CASE Capture \/ Verify
  BY <1>1, <1>4 DEF Capture, Verify, projectVars
<1>5. CASE Edit
  <2>1. phase' = "collect" /\ at' = 0 /\ modules' = modules
    BY <1>5 DEF Edit
  <2> QED
    BY <2>1 DEF Gathered
<1>6. CASE Ask
  <2>1. phase' = "collect" /\ at' = 0 /\ modules' = <<Entry[1]>>
    BY <1>6 DEF Ask, Blank
  <2> QED
    BY <2>1 DEF Gathered
<1>7. CASE UNCHANGED vars
  <2>1. UNCHANGED <<files, gate, modules, phase, at>>
    BY <1>7 DEF vars, projectVars
  <2>2. \A m, n : Bound(m, n)' = Bound(m, n)
    BY <2>1 DEF Bound
  <2>3. \A m : Imports(m)' = Imports(m) /\ Reexports(m)' = Reexports(m)
    BY <2>1, <2>2 DEF Imports, Reexports
  <2>4. (\A m : Follows(m)' = Follows(m)) /\ Collected' = Collected
    BY <2>1, <2>3 DEF Follows, Collected
  <2> QED
    BY <2>1, <2>4 DEF Gathered
<1> QED
  BY <1>2, <1>3, <1>4, <1>5, <1>6, <1>7 DEF Next, Analyze

(* Only what is collected is indexed, the entry first.                     *)
LEMMA IndexWithin ==
  ASSUME Gated, Gathered, ExportsWithin, EntryFirst, Index
  PROVE  ExportsWithin' /\ EntryFirst'
<1>1. /\ modules \in Seq(Modules) /\ at \in Nat /\ at <= Len(modules) /\ phase = "index"
      /\ UNCHANGED <<files, modules>> /\ FilesOK /\ ExportsOK /\ Collected \subseteq Modules
  BY Apart DEF Gated, IInv, Ordered, Placed, Index, projectVars
<1>2. Collected' = Collected /\ CaptureTarget' = CaptureTarget
  <2>1. \A m, n : Bound(m, n)' = Bound(m, n)
    BY <1>1 DEF Bound
  <2> QED
    BY <1>1, <2>1 DEF Collected, CaptureTarget
<1>3. Len(modules) > 0 /\ modules[1] = Entry[1]
  BY <1>1 DEF Gathered
<1>4. CASE at < Len(modules)
  <2> DEFINE m == modules[at + 1]
  <2>1. m \in Modules /\ m \in Collected
    BY <1>1, <1>4, ElementOfSeq DEF Collected, ToSet
  <2>2. exports' = [exports EXCEPT ![m] = [n \in Names |-> Exported(m, n)]] /\ phase' = phase /\ at' = at + 1
    BY <1>4 DEF Index
  <2>3. \A k \in Modules : \A n \in Names :
          exports'[k][n] = IF k = m THEN Exported(m, n) ELSE exports[k][n]
    BY <1>1, <2>1, <2>2 DEF ExportsOK
  <2>4. ASSUME NEW n \in Names, NEW t \in Exported(m, n)
        PROVE  Home(t) \in Collected
    <3>1. CASE files[m].reexports[n] # None
      <4>1. files[m].reexports[n].name \in Names
        BY <1>1, <2>1, <3>1 DEF FilesOK, Parsed
      <4> QED
        BY <1>1, <2>4, <3>1, <4>1 DEF Exported, ExportsWithin
    <3>2. CASE files[m].reexports[n] = None
      BY <2>1, <2>4, <3>2 DEF Exported, Home
    <3> QED
      BY <3>1, <3>2
  <2>5. ExportsWithin'
    <3> SUFFICES ASSUME NEW k \in Modules, NEW n \in Names, NEW t \in exports'[k][n]
                 PROVE  Home(t) \in Collected
      BY <1>2 DEF ExportsWithin, Home
    <3> QED
      BY <2>3, <2>4 DEF ExportsWithin
  <2>6. ASSUME CaptureTarget
        PROVE  exports'[Entry[1]][Entry[2]] = {Target}
    <3>1. Entry[1] \in Modules /\ Entry[2] \in Names
      BY CallGraphAssumption
    <3>2. CASE m = Entry[1]
      <4>1. Exported(Entry[1], Entry[2]) = {Target}
        BY <2>6 DEF Exported, CaptureTarget, Target
      <4> QED
        BY <2>3, <3>1, <3>2, <4>1
    <3>3. CASE m # Entry[1]
      <4>1. at > 0
        BY <1>1, <1>3, <3>3
      <4> QED
        BY <1>1, <2>3, <2>6, <3>1, <3>3, <4>1 DEF EntryFirst
    <3> QED
      BY <3>2, <3>3
  <2> QED
    BY <1>2, <2>5, <2>6 DEF EntryFirst
<1>5. CASE ~(at < Len(modules))
  <2>1. exports' = exports
    BY <1>5 DEF Index
  <2>2. ExportsWithin'
    BY <1>2, <2>1 DEF ExportsWithin, Home
  <2>3. at > 0
    BY <1>1, <1>3, <1>5
  <2> QED
    BY <1>1, <1>2, <2>1, <2>2, <2>3 DEF EntryFirst
<1> QED
  BY <1>4, <1>5

LEMMA WithinStep ==
  ASSUME Gated, Gathered, ExportsWithin, EntryFirst, [Next]_vars
  PROVE  ExportsWithin' /\ EntryFirst'
<1>1. ASSUME UNCHANGED <<files, modules, exports>>, Started,
             phase' = phase \/ Started'
      PROVE  ExportsWithin' /\ EntryFirst'
  <2>1. \A m, n : Bound(m, n)' = Bound(m, n)
    BY <1>1 DEF Bound
  <2>2. Collected' = Collected /\ CaptureTarget' = CaptureTarget
    BY <1>1, <2>1 DEF Collected, CaptureTarget
  <2> QED
    BY <1>1, <2>2 DEF ExportsWithin, Home, EntryFirst, Started
<1>2. ASSUME exports' = NoExports, phase' = "collect" \/ (phase' = "index" /\ at' = 0)
      PROVE  ExportsWithin' /\ EntryFirst'
  <2>1. \A m \in Modules : \A n \in Names : exports'[m][n] = {}
    BY <1>2 DEF NoExports
  <2> QED
    BY <1>2, <2>1 DEF ExportsWithin, EntryFirst, Started
<1>3. CASE Collect
  BY <1>2, <1>3 DEF Collect, Gated, IInv, Placed
<1>4. CASE Index
  BY <1>4, IndexWithin
<1>5. CASE Scan \/ Settle \/ Propagate \/ Attach \/ Conclude
  BY <1>1, <1>5 DEF Scan, Settle, Propagate, Attach, NextRound, Conclude, projectVars, Started
<1>6. CASE Capture \/ Verify
  BY <1>1, <1>6 DEF Capture, Verify, projectVars, Started
<1>7. CASE Edit
  BY <1>2, <1>7 DEF Edit, Gated, IInv, Placed
<1>8. CASE Ask
  BY <1>2, <1>8 DEF Ask, Blank
<1>9. CASE UNCHANGED vars
  <2>1. UNCHANGED <<files, modules, exports, phase, at>>
    BY <1>9 DEF vars, projectVars
  <2>2. \A m, n : Bound(m, n)' = Bound(m, n)
    BY <2>1 DEF Bound
  <2>3. Collected' = Collected /\ CaptureTarget' = CaptureTarget
    BY <2>1, <2>2 DEF Collected, CaptureTarget
  <2> QED
    BY <2>1, <2>3 DEF ExportsWithin, Home, EntryFirst, Started
<1> QED
  BY <1>3, <1>4, <1>5, <1>6, <1>7, <1>8, <1>9 DEF Next, Analyze

(* What a callable of a collected module calls is in a collected module.   *)
LEMMA CallsWithin ==
  ASSUME Gated, ExportsWithin, NEW c \in Declared, Home(c) \in Collected,
         NEW e \in CollectEdges(c), NEW t \in e.to
  PROVE  Home(t) \in Collected
<1>1. FilesOK /\ ExportsOK /\ Collected \subseteq Modules
  BY Apart DEF Gated, IInv, Placed
<1>2. PICK s \in BodyOf(c).sites : e \in EdgesAt(c, s)
  BY DEF CollectEdges
<1>3. s \in Site /\ s.name \in Names /\ s.form \in Forms /\ Home(c) \in Modules
  BY <1>1, <1>2, BodyTyped DEF Body, Site, Home, Declared, Callable
<1> DEFINE v == Sight(exports, Collected, Home(c))
           r == ResolveIn(v, Home(c), s.name)
           classes == ClassesIn(v, Home(c), s.name)
<1>4. \A x \in classes : x[1] \in Collected
  <2>1. classes = Classes(Home(c), s.name)
    BY <1>1, <1>3, ResolveSeen
  <2> QED
    BY <2>1 DEF Classes
<1>5. \A x \in r.to : Home(x) \in Collected
  <2>1. r = ResolveBinding(Home(c), s.name)
    BY <1>1, <1>3, ResolveSeen
  <2> DEFINE k == RealName(Home(c), s.name)
             b == Bound(Home(c), k)
  <2>2. Binding(Bound(Home(c), s.name))
    BY <1>1, <1>3 DEF FilesOK, Parsed, Bound
  <2>3. k \in Names
    BY <1>3, <2>2 DEF Binding, RealName
  <2>4. CASE b.kind = "function"
    <3>1. r = Found({<<Home(c), k, "function">>})
      BY <2>4 DEF ResolveIn
    <3> QED
      BY <3>1, Outcomes DEF Home
  <2>5. CASE b.kind = "import"
    <3>1. r = Imported(b)
      BY <2>1, <2>5 DEF ResolveBinding, RealName, Imported
    <3>2. Binding(b)
      BY <1>1, <1>3, <2>3 DEF FilesOK, Parsed, Bound
    <3>3. b.name \in Names \cup {"*"}
      BY <2>5, <3>2 DEF Binding
    <3>4. r.to # {} => b.from \in Collected /\ b.name # "*" /\ r.to = exports[b.from][b.name]
      BY <3>1, ImportedCases
    <3> QED
      BY <1>1, <3>3, <3>4 DEF ExportsWithin
  <2>6. CASE b.kind \notin {"function", "import"}
    <3>1. r = Failed("none", None, None)
      BY <2>6 DEF ResolveIn
    <3> QED
      BY <3>1, Outcomes
  <2> QED
    BY <2>4, <2>5, <2>6
<1>6. e \in EdgesAtIn(v, c, s)
  BY <1>1, <1>2, <1>3, SiteSeen
<1> HIDE DEF v, r, classes
<1>7. CASE s.form = "import"
  <2>1. e = Problem(c, s, "unknown-module")
    BY <1>6, <1>7 DEF EdgesAtIn
  <2> QED
    BY <2>1 DEF Problem, Edge
<1>8. CASE s.form \in {"call", "new"}
  <2>1. e \in InvocationIn(r, classes, c, s)
    BY <1>6, <1>8 DEF EdgesAtIn, r, classes
  <2>2. \/ e.to = r.to
        \/ e.to = {}
        \/ \E x \in classes : e = Construction(c, s, x)
    BY <2>1 DEF InvocationIn, To, Problem, Trusted, Edge
  <2>3. \A x \in classes : \A y \in Construction(c, s, x).to : Home(y) \in Collected
    BY <1>4, ConstructionIs DEF Home
  <2> QED
    BY <1>5, <2>2, <2>3
<1>9. CASE s.form \in {"method", "member"}
  <2>1. e \in MemberIn(classes, c, s)
    BY <1>6, <1>9 DEF EdgesAtIn, classes
  <2>2. \/ e.to = {}
        \/ \E x \in classes : e.to = {<<x[1], x[2], "method">>}
    BY <2>1 DEF MemberIn, Method, To, Problem, Trusted, Edge
  <2> QED
    BY <1>4, <2>2 DEF Home
<1> QED
  BY <1>3, <1>7, <1>8, <1>9 DEF Forms

-----------------------------------------------------------------------------
(* What is reached is the least, and so are the statuses *)

(* What the analysis follows leads to nothing outside of what is closed.   *)
LEMMA ScanLeast ==
  ASSUME IInv, Least, Scan
  PROVE  Least'
<1>1. /\ UNCHANGED <<files, catalog, lockfiles, exports, modules>> /\ Started /\ Item \in queue
      /\ Collected' = Collected
  BY DEF Scan, projectVars, Started, Item, Collected
<1>2. /\ Modules \cap Declared = {} /\ queue \subseteq Modules \cup Declared
  BY Apart DEF IInv, Placed
<1> SUFFICES ASSUME NEW Q, NEW T, ClosedIn(exports, Collected, Q, T)
             PROVE  reached' \subseteq Q /\ scanned' \subseteq T /\ queue' \subseteq Q \cup T
  BY <1>1, EndsStay DEF Least
<1>3. reached \subseteq Q /\ scanned \subseteq T /\ queue \subseteq Q \cup T
  BY <1>1 DEF Least
<1>4. Q \subseteq Declared /\ T \subseteq Modules
  BY DEF ClosedIn
<1>5. CASE Item \in Modules
  <2>1. Item \in T
    BY <1>1, <1>2, <1>3, <1>4, <1>5
  <2>2. Imports(Item) \cap Collected \subseteq T
    BY <2>1 DEF ClosedIn
  <2>3. /\ scanned' = scanned \cup {Item} /\ reached' = reached
        /\ queue' = (queue \cup (Imports(Item) \cap Collected)) \ scanned'
    BY <1>5 DEF Scan
  <2> QED
    BY <1>3, <2>1, <2>2, <2>3
<1>6. CASE Item \notin Modules
  <2>1. Item \in Q /\ Item \in Declared
    BY <1>1, <1>2, <1>3, <1>4, <1>6
  <2>2. CollectEdges(Item) = EdgesOf(exports, Collected, Item)
    BY <2>1, EdgesSeen DEF IInv
  <2>3. Home(Item) \in T /\ \A e \in CollectEdges(Item) : e.to \subseteq Q
    BY <2>1, <2>2 DEF ClosedIn
  <2> DEFINE callees == UNION {e.to : e \in CollectEdges(Item)}
  <2>4. callees \subseteq Q
    BY <2>3
  <2>5. /\ reached' = reached \cup {Item} /\ scanned' = scanned
        /\ queue' = (queue \cup callees \cup ({Home(Item)} \ scanned)) \ reached'
    BY <1>6 DEF Scan
  <2> HIDE DEF callees
  <2> QED
    BY <1>3, <2>1, <2>3, <2>4, <2>5
<1> QED
  BY <1>5, <1>6

LEMMA LeastStep ==
  ASSUME Gated, Least, [Next]_vars
  PROVE  Least'
<1>1. ASSUME UNCHANGED <<files, catalog, lockfiles, exports, modules, reached, scanned, queue>>, Started
      PROVE  Least'
  <2>1. Collected' = Collected
    BY <1>1 DEF Collected
  <2>2. \A Q, T : ClosedIn(exports, Collected, Q, T)' <=> ClosedIn(exports, Collected, Q, T)
    BY <1>1, <2>1, EndsStay
  <2> QED
    BY <1>1, <2>2 DEF Least
<1>2. CASE Index
  <2>1. scanned' = {} /\ reached' = {} /\ queue = {} /\ UNCHANGED <<files, catalog, lockfiles, modules>>
    BY <1>2 DEF Index, Gated, IInv, Placed, Started, projectVars
  <2>2. CASE at < Len(modules)
    BY <1>2, <2>2 DEF Index, Least, Started
  <2>3. CASE ~(at < Len(modules))
    <3>1. exports' = exports /\ queue' \subseteq exports'[Entry[1]][Entry[2]]
      BY <1>2, <2>1, <2>3 DEF Index
    <3>2. \A Q, T : ClosedIn(exports, Collected, Q, T)' => exports'[Entry[1]][Entry[2]] \subseteq Q
      BY DEF ClosedIn
    <3> QED
      BY <2>1, <3>1, <3>2 DEF Least
  <2> QED
    BY <2>2, <2>3
<1>3. CASE Scan
  BY <1>3, ScanLeast DEF Gated
<1>4. CASE Settle \/ Propagate \/ Attach \/ Conclude
  BY <1>1, <1>4 DEF Settle, Propagate, Attach, Conclude, projectVars, Started
<1>5. CASE Capture \/ Verify
  BY <1>1, <1>5 DEF Capture, Verify, projectVars, Started
<1>6. CASE Collect \/ Edit \/ Ask
  BY <1>6 DEF Collect, Edit, Ask, Blank, Least, Started
<1>7. CASE UNCHANGED vars
  <2>1. UNCHANGED <<files, catalog, lockfiles, exports, modules, reached, scanned, queue, phase>>
    BY <1>7 DEF vars, projectVars
  <2> QED
    BY <1>1, <2>1 DEF Least, Started
<1> QED
  BY <1>2, <1>3, <1>4, <1>5, <1>6, <1>7 DEF Next, Analyze

(* No status is ever above one that takes all into account.                *)
LEMMA SettleLowest ==
  ASSUME IInv, Settle
  PROVE  LowestIn(exports, Collected, reached, status')
<1> SUFFICES ASSUME NEW g, Upheld(exports, Collected, reached, g), NEW c \in reached
             PROVE  Rank(status'[c]) <= Rank(g[c])
  BY DEF LowestIn
<1>1. CollectEdges(c) = EdgesOf(exports, Collected, c)
  BY AtHand
<1>2. status'[c] = IF \E e \in CollectEdges(c) : e.evidence = "refuted" THEN "refuted" ELSE Direct(c)
  BY DEF Settle
<1>3. /\ Rank(Direct(c)) <= Rank(g[c])
      /\ \A e \in CollectEdges(c) : e.evidence = "refuted" => g[c] = "refuted"
  BY <1>1 DEF Upheld
<1> QED
  BY <1>2, <1>3, RankCases

LEMMA PropagateLowest ==
  ASSUME IInv, LowestIn(exports, Collected, reached, status), Propagate
  PROVE  LowestIn(exports, Collected, reached, status')
<1> DEFINE e == CHOOSE x \in Raising : TRUE
           t == CHOOSE x \in e.to : TRUE
<1>1. e \in Raising /\ status' = [status EXCEPT ![e.from] = Join(@, status[t])]
  BY DEF Propagate
<1>2. PICK c \in reached : e \in CollectEdges(c)
  BY <1>1 DEF Raising, Edges
<1>3. e.from = c /\ t \in e.to
  <2>1. Sane(e, c)
    BY <1>2, Apart, EdgesSane DEF IInv, Placed
  <2> QED
    BY <1>1, <2>1 DEF Sane, Raising
<1>4. status \in [reached -> Verdicts] /\ t \in reached
  BY <1>2, <1>3 DEF Propagate, IInv, Placed, Covered, Raised
<1> HIDE DEF e, t
<1> SUFFICES ASSUME NEW g, Upheld(exports, Collected, reached, g), NEW d \in reached
             PROVE  Rank(status'[d]) <= Rank(g[d])
  BY DEF LowestIn
<1>5. \A x \in reached : Rank(status[x]) <= Rank(g[x])
  BY DEF LowestIn
<1>6. CASE d = c
  <2>1. status'[d] = Join(status[c], status[t])
    BY <1>1, <1>2, <1>3, <1>4, <1>6
  <2>2. e \in EdgesOf(exports, Collected, c)
    BY <1>2, AtHand
  <2>3. Rank(g[t]) <= Rank(g[c])
    BY <1>2, <1>3, <2>2 DEF Upheld
  <2>4. {status[c], status[t], g[t], g[c]} \subseteq Verdicts
    BY <1>2, <1>4 DEF Upheld
  <2>5. Rank(status[t]) <= Rank(g[c])
    BY <1>4, <1>5, <2>3, <2>4, RankCases DEF Verdicts
  <2> QED
    BY <1>2, <1>5, <1>6, <2>1, <2>5 DEF Join
<1>7. CASE d # c
  BY <1>1, <1>3, <1>4, <1>5, <1>7
<1> QED
  BY <1>6, <1>7

LEMMA AttachLowest ==
  ASSUME IInv, LowestIn(exports, Collected, reached, status), Attach
  PROVE  LowestIn(exports, Collected, reached, status')
<1> SUFFICES ASSUME NEW g, Upheld(exports, Collected, reached, g), NEW c \in reached
             PROVE  Rank(status'[c]) <= Rank(g[c])
  BY DEF LowestIn
<1>1. CollectEdges(c) = EdgesOf(exports, Collected, c)
  BY AtHand
<1>2. Rank(status[c]) <= Rank(g[c]) /\ g[c] \in Verdicts
  BY DEF LowestIn, Upheld
<1>3. status'[c] =
        IF \E e \in CollectEdges(c) : e.problem # "none" THEN Join(status[c], "unknown") ELSE status[c]
  BY DEF Attach
<1>4. CASE \E e \in CollectEdges(c) : e.problem # "none"
  <2>1. g[c] # "likely-safe"
    BY <1>1, <1>4 DEF Upheld
  <2>2. Rank("unknown") <= Rank(g[c])
    BY <1>2, <2>1, RankCases DEF Verdicts
  <2> QED
    BY <1>2, <1>3, <1>4, <2>2 DEF Join
<1>5. CASE ~\E e \in CollectEdges(c) : e.problem # "none"
  BY <1>2, <1>3, <1>5
<1> QED
  BY <1>4, <1>5

LEMMA LowestStep ==
  ASSUME Gated, Lowest, [Next]_vars
  PROVE  Lowest'
<1>1. ASSUME UNCHANGED <<files, catalog, lockfiles, exports, modules, reached>>,
             LowestIn(exports, Collected, reached, status')
      PROVE  Lowest'
  <2>1. Collected' = Collected
    BY <1>1 DEF Collected
  <2>2. \A ex, coll, R, f : LowestIn(ex, coll, R, f)' = LowestIn(ex, coll, R, f)
    BY <1>1, EndsStay
  <2> QED
    BY <1>1, <2>1, <2>2 DEF Lowest
<1>2. CASE Index
  <2>1. reached' = {}
    BY <1>2 DEF Index, Gated, IInv, Placed, Started
  <2> QED
    BY <2>1 DEF Lowest, LowestIn
<1>3. CASE Settle
  BY <1>1, <1>3, SettleLowest DEF Settle, projectVars, Gated
<1>4. CASE Propagate
  BY <1>1, <1>4, PropagateLowest DEF Propagate, projectVars, Gated, Lowest
<1>5. CASE Attach
  BY <1>1, <1>5, AttachLowest DEF Attach, projectVars, Gated, Lowest
<1>6. CASE Conclude
  <2>1. phase \in {"fixpoint", "again", "done"}
    BY <1>6 DEF Conclude, Gated, IInv, Placed
  <2> QED
    BY <1>1, <1>6, <2>1 DEF Conclude, projectVars, Lowest
<1>7. CASE Capture \/ Verify
  BY <1>1, <1>7 DEF Capture, Verify, projectVars, Lowest
<1>8. CASE Collect \/ Scan \/ Edit \/ Ask
  BY <1>8 DEF Collect, Scan, Edit, Ask, Blank, Lowest
<1>9. CASE UNCHANGED vars
  <2>1. UNCHANGED <<files, catalog, lockfiles, exports, modules, reached, status, phase>>
    BY <1>9 DEF vars, projectVars
  <2> QED
    BY <1>1, <2>1 DEF Lowest
<1> QED
  BY <1>2, <1>3, <1>4, <1>5, <1>6, <1>7, <1>8, <1>9 DEF Next, Analyze


-----------------------------------------------------------------------------
(* The end of an analysis *)

(* The callables of the collected modules are closed under what is followed,*)
(* so nothing outside of them is scanned.                                  *)
LEMMA ScannedWithin ==
  ASSUME Gated, Gathered, ExportsWithin, Least, Started
  PROVE  scanned \subseteq Collected /\ \A m \in scanned : Imports(m) \cap Modules \subseteq Collected
<1> DEFINE Q == {c \in Declared : Home(c) \in Collected}
<1>1. FilesOK /\ ExportsOK /\ Collected \subseteq Modules /\ phase # "collect"
  BY Apart DEF Gated, IInv, Placed, Started
<1>2. \A m \in Collected : Imports(m) \cap Modules \subseteq Collected
  BY <1>1 DEF Gathered, Follows
<1>3. exports[Entry[1]][Entry[2]] \subseteq Q
  BY <1>1, CallGraphAssumption DEF ExportsOK, ExportsWithin
<1>4. ASSUME NEW c \in Q, NEW e \in EdgesOf(exports, Collected, c)
      PROVE  e.to \subseteq Q
  <2>1. c \in Declared /\ Home(c) \in Collected /\ e \in CollectEdges(c)
    BY <1>1, <1>4, EdgesSeen
  <2>2. e.to \subseteq Declared
    BY <1>1, <2>1, EdgesSane DEF Sane
  <2> QED
    BY <2>1, <2>2, CallsWithin
<1>5. ClosedIn(exports, Collected, Q, Collected)
  <2> HIDE DEF Q
  <2>1. Q \subseteq Declared /\ \A c \in Q : Home(c) \in Collected
    BY DEF Q
  <2> QED
    BY <1>1, <1>2, <1>3, <1>4, <2>1 DEF ClosedIn
<1>6. scanned \subseteq Collected
  BY <1>5 DEF Least
<1> QED
  BY <1>2, <1>6

(* Nothing is left to follow, and no status to raise.                      *)
LEMMA ConcludeEnds ==
  ASSUME Gated, Gathered, ExportsWithin, EntryFirst, Least, Lowest, Conclude, CaptureTarget
  PROVE  /\ Ends(exports, Collected, reached, scanned, status)
         /\ EntryTarget = Target
<1>1. /\ FilesOK /\ ExportsOK /\ Collected \subseteq Modules /\ phase = "again" /\ queue = {}
      /\ reached \subseteq Declared /\ scanned \subseteq Modules /\ Raising = {} /\ Started
  BY Apart DEF Gated, IInv, Placed, Conclude, Started
<1>2. exports[Entry[1]][Entry[2]] = {Target} /\ EntryTarget = Target
  BY <1>1 DEF EntryFirst, EntryTarget
<1>3. \A c \in reached : CollectEdges(c) = EdgesOf(exports, Collected, c)
  BY AtHand DEF Gated
<1>4. ClosedIn(exports, Collected, reached, scanned)
  <2>1. Target \in reached
    BY <1>1, <1>2 DEF Gated, IInv, Covered
  <2>2. \A c \in reached : Home(c) \in scanned /\ \A e \in CollectEdges(c) : e.to \subseteq reached
    BY <1>1 DEF Gated, IInv, Covered
  <2>3. \A m \in scanned : Imports(m) \cap Collected \subseteq scanned
    BY <1>1 DEF Gated, IInv, Covered
  <2> QED
    BY <1>1, <1>2, <1>3, <2>1, <2>2, <2>3 DEF ClosedIn
<1>5. LeastIn(exports, Collected, reached, scanned)
  BY <1>1 DEF Least, LeastIn
<1>6. Upheld(exports, Collected, reached, status)
  <2>1. /\ status \in [reached -> Verdicts]
        /\ \A c \in reached :
             /\ Rank(Direct(c)) <= Rank(status[c])
             /\ \A e \in CollectEdges(c) :
                  /\ e.evidence = "refuted" => status[c] = "refuted"
                  /\ e.problem # "none" => status[c] # "likely-safe"
    BY <1>1 DEF Gated, IInv, Raised
  <2>2. ASSUME NEW c \in reached, NEW e \in CollectEdges(c), NEW t \in e.to
        PROVE  Rank(status[t]) <= Rank(status[c])
    <3>1. e.from = c
      BY <1>1, EdgesSane DEF Sane
    <3>2. e \in Edges
      BY DEF Edges
    <3>3. ~(Rank(status[t]) > Rank(status[c]))
      BY <1>1, <3>1, <3>2 DEF Raising
    <3>4. t \in reached
      BY <1>1 DEF Gated, IInv, Covered
    <3>5. status[t] \in Verdicts /\ status[c] \in Verdicts
      BY <2>1, <3>4
    <3> QED
      BY <3>3, <3>5, RankCases DEF Verdicts
  <2> QED
    BY <1>3, <2>1, <2>2 DEF Upheld
<1>7. LowestIn(exports, Collected, reached, status)
  BY <1>1 DEF Lowest
<1>8. \A m \in scanned : Imports(m) \cap Modules \subseteq Collected
  BY <1>1, ScannedWithin
<1> QED
  BY <1>1, <1>2, <1>4, <1>5, <1>6, <1>7, <1>8 DEF Ends

(* What an analysis ended with stays until it is asked for again.          *)
LEMMA EndStays ==
  ASSUME UNCHANGED <<files, catalog, lockfiles, exports, modules, reached, scanned, status>>
  PROVE  /\ Ends(exports, Collected, reached, scanned, status)' = Ends(exports, Collected, reached, scanned, status)
         /\ Initialization' = Initialization /\ CaptureTarget' = CaptureTarget
<1>1. Collected' = Collected
  BY DEF Collected
<1>2. Ends(exports, Collected, reached, scanned, status)' = Ends(exports, Collected, reached, scanned, status)
  <2>1. \A ex, coll, R, S, f : Ends(ex, coll, R, S, f)' = Ends(ex, coll, R, S, f)
    BY EndsStay
  <2> QED
    BY <1>1, <2>1
<1>3. /\ \A m, n : Bound(m, n)' = Bound(m, n)
      /\ \A m : Imports(m)' = Imports(m)
  BY SameBodies
<1>4. \A m : UnknownImports(m)' = UnknownImports(m)
  BY <1>1, <1>3 DEF UnknownImports, Catalogued
<1> QED
  BY <1>2, <1>3, <1>4 DEF Initialization, CaptureTarget

LEMMA ConcludedStep ==
  ASSUME Gated, Gathered, ExportsWithin, EntryFirst, Least, Lowest, Concluded, [Next]_vars
  PROVE  Concluded'
<1>1. CASE Conclude
  <2>1. UNCHANGED <<files, catalog, lockfiles, exports, modules, reached, scanned, status>>
    BY <1>1 DEF Conclude, projectVars
  <2>2. verdict' = Join(status[EntryTarget], Initialization)
    BY <1>1 DEF Conclude
  <2>3. CaptureTarget => Ends(exports, Collected, reached, scanned, status) /\ EntryTarget = Target
    BY <1>1, ConcludeEnds
  <2>4. /\ Ends(exports, Collected, reached, scanned, status)' = Ends(exports, Collected, reached, scanned, status)
        /\ Initialization' = Initialization /\ CaptureTarget' = CaptureTarget
    BY <2>1, EndStays
  <2> QED
    BY <2>1, <2>2, <2>3, <2>4 DEF Concluded
<1>2. ASSUME UNCHANGED <<files, catalog, lockfiles, exports, modules, reached, scanned, status, phase, verdict>>
      PROVE  Concluded'
  <2>1. /\ Ends(exports, Collected, reached, scanned, status)' = Ends(exports, Collected, reached, scanned, status)
        /\ Initialization' = Initialization /\ CaptureTarget' = CaptureTarget
    BY <1>2, EndStays
  <2> QED
    BY <1>2, <2>1 DEF Concluded
<1>3. CASE Index
  <2>1. CASE phase' = "done"
    <3>1. exports[Entry[1]][Entry[2]] = {} /\ ~(at < Len(modules)) /\ phase = "index"
          /\ UNCHANGED <<files, catalog, lockfiles>>
      BY <1>3, <2>1 DEF Index, projectVars
    <3>2. at > 0
      BY <3>1 DEF Gathered, Gated, IInv, Placed, Ordered
    <3>3. ~CaptureTarget
      BY <3>1, <3>2 DEF EntryFirst
    <3>4. CaptureTarget' = CaptureTarget
      <4>1. \A m, n : Bound(m, n)' = Bound(m, n)
        BY <3>1 DEF Bound
      <4> QED
        BY <3>1, <4>1 DEF CaptureTarget
    <3> QED
      BY <3>3, <3>4 DEF Concluded
  <2>2. CASE phase' # "done"
    BY <2>2 DEF Concluded
  <2> QED
    BY <2>1, <2>2
<1>4. CASE Capture \/ Verify
  BY <1>2, <1>4 DEF Capture, Verify, projectVars
<1>5. CASE UNCHANGED vars
  BY <1>2, <1>5 DEF vars, projectVars
<1>6. CASE Collect \/ Scan \/ Settle \/ Propagate \/ Attach \/ Edit \/ Ask
  BY <1>6 DEF Collect, Scan, Settle, Propagate, Attach, NextRound, Edit, Ask, Blank, Concluded
<1> QED
  BY <1>1, <1>3, <1>4, <1>5, <1>6 DEF Next, Analyze

-----------------------------------------------------------------------------
(* What is remembered of a capture *)

(* What is recorded is what the analysis ended with.                       *)
LEMMA CaptureRecalled ==
  ASSUME Gated, Concluded, Capture
  PROVE  Recalled'
<1>1. /\ UNCHANGED <<files, catalog, lockfiles>> /\ gate' = "capture" /\ phase = "done"
      /\ outcome' = "captured" \/ outcome' = "refused"
  BY DEF Capture, projectVars
<1> SUFFICES ASSUME outcome' = "captured"
             PROVE  Recalled'
  BY <1>1 DEF Recalled
<1>2. Capturable /\ Capturable' = Capturable
  <2>1. Capturable
    BY DEF Capture, Capturable
  <2>2. \A m, n : Bound(m, n)' = Bound(m, n)
    BY <1>1 DEF Bound
  <2>3. CaptureTarget' = CaptureTarget /\ Directives' = Directives
    BY <1>1, <2>2 DEF CaptureTarget, Directives
  <2> QED
    BY <2>1, <2>3 DEF Capturable, ValidPolicy
<1>3. /\ Ends(exports, Collected, reached, scanned, status)
      /\ verdict = Join(status[Target], InitializationOf(Collected, scanned))
      /\ UnknownEvidence = EvidenceOf(exports, Collected, reached, scanned)
  BY <1>1, <1>2, AtHand DEF Concluded, Capturable, Gated
<1>4. reviewed' = [files |-> files, modules |-> modules, exports |-> exports, scanned |-> scanned,
                   reached |-> reached, status |-> status, evidence |-> UnknownEvidence]
  BY DEF Capture
<1>5. /\ reviewed'.exports = exports /\ ToSet(reviewed'.modules) = Collected /\ reviewed'.scanned = scanned
      /\ reviewed'.reached = reached /\ reviewed'.status = status /\ reviewed'.evidence = UnknownEvidence
  BY <1>4 DEF Collected
<1>6. \/ verdict = "likely-safe" /\ case'.assumption = NoAssumption
      \/ /\ verdict = "unknown" /\ "assume-pure" \in Directives /\ Lockfile # None
         /\ case'.assumption = Fingerprint
  <2>1. \/ verdict = "likely-safe" /\ case' = [assumption |-> NoAssumption]
        \/ /\ verdict = "unknown" /\ "assume-pure" \in Directives /\ Lockfile # None
           /\ case' = [assumption |-> Fingerprint]
    BY DEF Capture
  <2> QED
    BY <2>1
<1>7. Directives' = Directives /\ Lockfile' = Lockfile
  BY <1>1 DEF Directives, Lockfile
<1>8. /\ \A ex, coll, R, S, f : Ends(ex, coll, R, S, f)' = Ends(ex, coll, R, S, f)
      /\ \A ex, coll, R, S : EvidenceOf(ex, coll, R, S)' = EvidenceOf(ex, coll, R, S)
      /\ \A coll, S : InitializationOf(coll, S)' = InitializationOf(coll, S)
  BY <1>1, EndsStay
<1>9. Ends(reviewed.exports, ToSet(reviewed.modules), reviewed.reached, reviewed.scanned, reviewed.status)'
  BY <1>3, <1>5, <1>8
<1>10. (reviewed.evidence = EvidenceOf(reviewed.exports, ToSet(reviewed.modules), reviewed.reached, reviewed.scanned))'
  BY <1>3, <1>5, <1>8
<1>11. verdict = Join(reviewed.status[Target], InitializationOf(ToSet(reviewed.modules), reviewed.scanned))'
  BY <1>3, <1>5, <1>8 DEF Target
<1>12. Fingerprint = [sources |-> {<<m, files'[m]>> : m \in reviewed'.scanned}, lockfile |-> Lockfile',
                      evidence |-> reviewed'.evidence]
  BY <1>1, <1>5, <1>7 DEF Fingerprint
<1> QED
  BY <1>2, <1>6, <1>7, <1>9, <1>10, <1>11, <1>12 DEF Recalled

LEMMA RecalledStep ==
  ASSUME Gated, Concluded, Recalled, [Next]_vars
  PROVE  Recalled'
<1>1. ASSUME UNCHANGED <<files, catalog, lockfiles, case, reviewed, edits>>,
             (gate' = "verify" \/ outcome' = "captured") => (gate = "verify" \/ outcome = "captured")
      PROVE  Recalled'
  <2>1. \A m, n : Bound(m, n)' = Bound(m, n)
    BY <1>1 DEF Bound
  <2>2. CaptureTarget' = CaptureTarget /\ Directives' = Directives /\ Lockfile' = Lockfile
    BY <1>1, <2>1 DEF CaptureTarget, Directives, Lockfile
  <2>3. Capturable' = Capturable
    BY <2>2 DEF Capturable, ValidPolicy
  <2>4. /\ \A ex, coll, R, S, f : Ends(ex, coll, R, S, f)' = Ends(ex, coll, R, S, f)
        /\ \A ex, coll, R, S : EvidenceOf(ex, coll, R, S)' = EvidenceOf(ex, coll, R, S)
        /\ \A coll, S : InitializationOf(coll, S)' = InitializationOf(coll, S)
    BY <1>1, EndsStay
  <2> QED
    BY <1>1, <2>2, <2>3, <2>4 DEF Recalled, Target
<1>2. CASE Analyze
  BY <1>1, <1>2
     DEF Analyze, Collect, Index, Scan, Settle, Propagate, Attach, Conclude, projectVars, resultVars
<1>3. CASE Capture
  BY <1>3, CaptureRecalled
<1>4. CASE Verify
  BY <1>1, <1>4 DEF Verify, projectVars
<1>5. CASE Edit
  <2>1. edits' = edits + 1 /\ edits \in Nat
    BY <1>5 DEF Edit, Gated, Counted
  <2>2. edits' # 0
    BY <2>1
  <2> QED
    BY <2>2 DEF Recalled
<1>6. CASE Ask
  BY <1>1, <1>6 DEF Ask, projectVars
<1>7. CASE UNCHANGED vars
  BY <1>1, <1>7 DEF vars, projectVars, resultVars
<1> QED
  BY <1>2, <1>3, <1>4, <1>5, <1>6, <1>7 DEF Next

-----------------------------------------------------------------------------
(* Two analyses of the same project *)

(* Wherever both come, they see the same and find the same edges.          *)
LEMMA SameSight ==
  ASSUME NEW ex1, NEW coll1, NEW R1, NEW S1, NEW f1, Ends(ex1, coll1, R1, S1, f1),
         NEW ex2, NEW coll2, NEW R2, NEW S2, NEW f2, Ends(ex2, coll2, R2, S2, f2),
         \A m \in S1 : ex1[m] = ex2[m]
  PROVE  /\ \A c \in R1 \cap R2 : EdgesOf(ex1, coll1, c) = EdgesOf(ex2, coll2, c)
         /\ \A m \in S1 \cap S2 : /\ Imports(m) \cap coll1 = Imports(m) \cap coll2
                                  /\ UnknownIn(coll1, m) = UnknownIn(coll2, m)
<1>1. ASSUME NEW m \in S1 \cap S2, NEW i \in Imports(m)
      PROVE  /\ i \in coll1 <=> i \in coll2
             /\ i \in coll1 => ex1[i] = ex2[i]
  <2>1. (i \in coll1 <=> i \in Modules) /\ (i \in coll2 <=> i \in Modules)
    BY DEF Ends
  <2>2. i \in coll1 => i \in S1
    BY DEF Ends, ClosedIn
  <2> QED
    BY <2>1, <2>2
<1>2. \A m \in S1 \cap S2 : Sight(ex1, coll1, m) = Sight(ex2, coll2, m)
  BY <1>1 DEF Sight
<1>3. \A c \in R1 \cap R2 : Home(c) \in S1 \cap S2
  BY DEF Ends, ClosedIn
<1>4. \A m \in S1 \cap S2 : UnknownIn(coll1, m) = UnknownIn(coll2, m)
  BY <1>1 DEF UnknownIn
<1> QED
  BY <1>1, <1>2, <1>3, <1>4 DEF EdgesOf

(* What both reach and scan is closed, so that neither goes further.       *)
LEMMA SameEnds ==
  ASSUME NEW ex1, NEW coll1, NEW R1, NEW S1, NEW f1, Ends(ex1, coll1, R1, S1, f1),
         NEW ex2, NEW coll2, NEW R2, NEW S2, NEW f2, Ends(ex2, coll2, R2, S2, f2),
         \A m \in S1 : ex1[m] = ex2[m]
  PROVE  R1 = R2 /\ S1 = S2 /\ f1 = f2
<1> DEFINE R == R1 \cap R2
           S == S1 \cap S2
<1>1. /\ \A c \in R : EdgesOf(ex1, coll1, c) = EdgesOf(ex2, coll2, c)
      /\ \A m \in S : Imports(m) \cap coll1 = Imports(m) \cap coll2
  BY SameSight
<1>2. ClosedIn(ex1, coll1, R1, S1) /\ ClosedIn(ex2, coll2, R2, S2)
  BY DEF Ends
<1>3. /\ R \subseteq Declared /\ S \subseteq Modules
      /\ ex1[Entry[1]][Entry[2]] \subseteq R /\ ex2[Entry[1]][Entry[2]] \subseteq R
      /\ \A c \in R : Home(c) \in S
  BY <1>2 DEF ClosedIn, Ends
<1>4. \A c \in R : \A e \in EdgesOf(ex1, coll1, c) : e.to \subseteq R
  BY <1>1, <1>2 DEF ClosedIn
<1>5. \A m \in S : Imports(m) \cap coll1 \subseteq S
  BY <1>1, <1>2 DEF ClosedIn
<1> HIDE DEF R, S
<1>6. ClosedIn(ex1, coll1, R, S)
  BY <1>3, <1>4, <1>5 DEF ClosedIn
<1>7. ClosedIn(ex2, coll2, R, S)
  BY <1>1, <1>3, <1>4, <1>5 DEF ClosedIn
<1>8. R1 \subseteq R /\ S1 \subseteq S
  BY <1>6 DEF Ends, LeastIn
<1>9. R2 \subseteq R /\ S2 \subseteq S
  BY <1>7 DEF Ends, LeastIn
<1>10. R1 = R2 /\ S1 = S2 /\ R = R1
  BY <1>8, <1>9 DEF R, S
<1>11. Upheld(ex1, coll1, R1, f1) /\ Upheld(ex2, coll2, R2, f2)
  BY DEF Ends
<1>12. Upheld(ex1, coll1, R1, f2) /\ Upheld(ex2, coll2, R2, f1)
  BY <1>1, <1>10, <1>11 DEF Upheld
<1>13. \A c \in R1 : Rank(f1[c]) <= Rank(f2[c]) /\ Rank(f2[c]) <= Rank(f1[c])
  BY <1>10, <1>12 DEF Ends, LowestIn
<1>14. f1 \in [R1 -> Verdicts] /\ f2 \in [R1 -> Verdicts]
  BY <1>10, <1>11 DEF Upheld
<1>15. \A c \in R1 : f1[c] = f2[c]
  BY <1>13, <1>14, RankCases DEF Verdicts
<1> QED
  BY <1>10, <1>14, <1>15

(* So they find the same, whatever each has collected.                     *)
LEMMA SameFindings ==
  ASSUME NEW ex1, NEW coll1, NEW R1, NEW S1, NEW f1, Ends(ex1, coll1, R1, S1, f1),
         NEW ex2, NEW coll2, NEW R2, NEW S2, NEW f2, Ends(ex2, coll2, R2, S2, f2),
         \A m \in S1 : ex1[m] = ex2[m]
  PROVE  /\ R1 = R2 /\ S1 = S2 /\ f1 = f2
         /\ EvidenceOf(ex1, coll1, R1, S1) = EvidenceOf(ex2, coll2, R2, S2)
         /\ InitializationOf(coll1, S1) = InitializationOf(coll2, S2)
<1>1. R1 = R2 /\ S1 = S2 /\ f1 = f2
  BY SameEnds
<1>2. /\ \A c \in R1 : EdgesOf(ex1, coll1, c) = EdgesOf(ex2, coll2, c)
      /\ \A m \in S1 : UnknownIn(coll1, m) = UnknownIn(coll2, m)
  <2>1. R1 \cap R2 = R1 /\ S1 \cap S2 = S1
    BY <1>1
  <2> QED
    BY <2>1, SameSight
<1>3. UNION {EdgesOf(ex1, coll1, c) : c \in R1} = UNION {EdgesOf(ex2, coll2, c) : c \in R2}
  BY <1>1, <1>2
<1>4. UNION {{<<m, s>> : s \in UnknownIn(coll1, m)} : m \in S1}
        = UNION {{<<m, s>> : s \in UnknownIn(coll2, m)} : m \in S2}
  BY <1>1, <1>2
<1>5. EvidenceOf(ex1, coll1, R1, S1) = EvidenceOf(ex2, coll2, R2, S2)
  BY <1>3, <1>4 DEF EvidenceOf
<1>6. InitializationOf(coll1, S1) = InitializationOf(coll2, S2)
  BY <1>1, <1>2 DEF InitializationOf
<1> QED
  BY <1>1, <1>5, <1>6

(* Where the target is not refuted, nothing that is reached is.            *)
LEMMA NothingRefuted ==
  ASSUME NEW ex, NEW coll, NEW R, NEW S, NEW f, Ends(ex, coll, R, S, f),
         Join(f[Target], InitializationOf(coll, S)) \in {"likely-safe", "unknown"}
  PROVE  /\ \A c \in R : ~BodyOf(c).effect
         /\ \A c \in R : \A e \in EdgesOf(ex, coll, c) : e.evidence # "refuted"
         /\ \A m \in S : files[m].initial # "refuted"
<1>1. /\ ClosedIn(ex, coll, R, S) /\ LeastIn(ex, coll, R, S) /\ Upheld(ex, coll, R, f)
      /\ ex[Entry[1]][Entry[2]] = {Target} /\ Target \in R /\ f \in [R -> Verdicts]
  BY DEF Ends, ClosedIn, Upheld
<1>2. InitializationOf(coll, S) \in Verdicts /\ f[Target] \in Verdicts
  BY <1>1 DEF InitializationOf, Verdicts
<1>3. f[Target] # "refuted" /\ InitializationOf(coll, S) # "refuted"
  BY <1>2, RankCases DEF Join, Verdicts
<1>4. \A m \in S : files[m].initial # "refuted"
  BY <1>3 DEF InitializationOf
<1> DEFINE Q == {c \in R : f[c] # "refuted"}
<1>5. ASSUME NEW c \in Q, NEW e \in EdgesOf(ex, coll, c), NEW t \in e.to
      PROVE  t \in Q
  <2>1. t \in R /\ Rank(f[t]) <= Rank(f[c]) /\ f[c] # "refuted"
    BY <1>1 DEF ClosedIn, Upheld
  <2>2. f[t] \in Verdicts /\ f[c] \in Verdicts
    BY <1>1, <2>1
  <2>3. f[t] # "refuted"
    BY <2>1, <2>2, RankCases DEF Verdicts
  <2> QED
    BY <2>1, <2>3
<1>6. Q \subseteq R /\ Target \in Q
  BY <1>1, <1>3
<1>7. \A c \in Q : f[c] # "refuted"
  OBVIOUS
<1> HIDE DEF Q
<1>8. ClosedIn(ex, coll, Q, S)
  BY <1>1, <1>5, <1>6 DEF ClosedIn
<1>9. \A c \in R : f[c] # "refuted"
  BY <1>1, <1>7, <1>8 DEF LeastIn
<1>10. \A c \in R : ~BodyOf(c).effect
  <2> SUFFICES ASSUME NEW c \in R, BodyOf(c).effect
               PROVE  FALSE
    OBVIOUS
  <2>1. Direct(c) = "refuted"
    BY DEF Direct
  <2>2. Rank("refuted") <= Rank(f[c]) /\ f[c] \in Verdicts
    BY <1>1, <2>1 DEF Upheld
  <2> QED
    BY <1>9, <2>2, RankCases DEF Verdicts
<1>11. \A c \in R : \A e \in EdgesOf(ex, coll, c) : e.evidence # "refuted"
  BY <1>1, <1>9 DEF Upheld
<1> QED
  BY <1>4, <1>10, <1>11

(* Verification of what is as it was runs it.                              *)
LEMMA Agreement ==
  ASSUME Gated, Concluded, Recalled, Verify, edits = 0,
         ~(\E c \in reached : Dynamic(c)), \A m \in scanned : exports[m] = reviewed.exports[m]
  PROVE  Decide = "run"
<1> DEFINE r == reviewed
           coll == ToSet(r.modules)
           v == Join(r.status[Target], InitializationOf(coll, r.scanned))
<1>1. phase = "done" /\ gate = "verify"
  BY DEF Verify
<1>2. /\ Capturable
      /\ Ends(r.exports, coll, r.reached, r.scanned, r.status)
      /\ r.evidence = EvidenceOf(r.exports, coll, r.reached, r.scanned)
      /\ \/ v = "likely-safe" /\ case.assumption = NoAssumption
         \/ /\ v = "unknown" /\ "assume-pure" \in Directives /\ Lockfile # None
            /\ case.assumption = [sources |-> {<<m, files[m]>> : m \in r.scanned}, lockfile |-> Lockfile,
                                  evidence |-> r.evidence]
  BY <1>1 DEF Recalled
<1>3. /\ Ends(exports, Collected, reached, scanned, status)
      /\ verdict = Join(status[Target], InitializationOf(Collected, scanned))
      /\ UnknownEvidence = EvidenceOf(exports, Collected, reached, scanned)
      /\ \A c \in reached : CollectEdges(c) = EdgesOf(exports, Collected, c)
  BY <1>1, <1>2, AtHand DEF Concluded, Capturable, Gated
<1>4. /\ reached = r.reached /\ scanned = r.scanned /\ status = r.status
      /\ UnknownEvidence = r.evidence
      /\ InitializationOf(Collected, scanned) = InitializationOf(coll, r.scanned)
  <2> HIDE DEF coll
  <2> QED
    BY <1>2, <1>3, SameFindings
<1>5. verdict = v
  BY <1>3, <1>4
<1>6. ~HasRefutingEvidence
  <2>1. verdict \in {"likely-safe", "unknown"}
    BY <1>2, <1>5
  <2>2. /\ \A c \in reached : ~BodyOf(c).effect
        /\ \A c \in reached : \A e \in CollectEdges(c) : e.evidence # "refuted"
        /\ \A m \in scanned : files[m].initial # "refuted"
    BY <1>3, <2>1, NothingRefuted
  <2> QED
    BY <2>1, <2>2 DEF HasRefutingEvidence, Edges
<1>7. ExactExport /\ StillAnnotated
  BY <1>2 DEF Capturable, ExactExport, StillAnnotated
<1> HIDE DEF v, coll, r
<1>8. CASE v = "likely-safe" /\ case.assumption = NoAssumption
  BY <1>5, <1>6, <1>7, <1>8 DEF Decide
<1>9. CASE /\ v = "unknown" /\ "assume-pure" \in Directives /\ Lockfile # None
           /\ case.assumption = [sources |-> {<<m, files[m]>> : m \in r.scanned}, lockfile |-> Lockfile,
                                 evidence |-> r.evidence]
  <2>1. case.assumption = Fingerprint
    BY <1>4, <1>9 DEF Fingerprint
  <2>2. Fingerprint # NoAssumption
    <3>1. Fingerprint.lockfile # NoAssumption.lockfile
      BY <1>9 DEF Fingerprint, NoAssumption
    <3> QED
      BY <3>1
  <2> HIDE DEF Fingerprint
  <2> QED
    BY <1>6, <1>7, <1>9, <2>1, <2>2 DEF Decide
<1> QED
  BY <1>2, <1>8, <1>9

LEMMA AgreeStep ==
  ASSUME Gated, Concluded, Recalled, GatesAgree, [Next]_vars
  PROVE  GatesAgree'
<1>1. phase # "done" => outcome = None
  BY DEF Gated, IInv, Decided
<1>2. CASE Analyze \/ Edit
  BY <1>1, <1>2
     DEF Analyze, Collect, Index, Scan, Settle, Propagate, Attach, Conclude, Edit, projectVars, resultVars,
         GatesAgree, Gated, IInv, Placed
<1>3. CASE Capture
  <2>1. gate' = "capture"
    BY <1>3 DEF Capture
  <2> QED
    BY <2>1 DEF GatesAgree
<1>4. CASE Ask
  BY <1>4 DEF Ask, Blank, GatesAgree
<1>5. CASE Verify
  <2>1. UNCHANGED <<files, gate, reached, scanned, exports, reviewed, edits>> /\ outcome' = Decide
    BY <1>5 DEF Verify, projectVars
  <2>2. \A c : Dynamic(c)' = Dynamic(c)
    BY <2>1, SameBodies DEF Dynamic
  <2> QED
    BY <1>5, <2>1, <2>2, Agreement DEF GatesAgree
<1>6. CASE UNCHANGED vars
  <2>1. UNCHANGED <<files, gate, reached, scanned, exports, reviewed, edits, outcome>>
    BY <1>6 DEF vars, projectVars, resultVars
  <2>2. \A c : Dynamic(c)' = Dynamic(c)
    BY <2>1, SameBodies DEF Dynamic
  <2> QED
    BY <2>1, <2>2 DEF GatesAgree
<1> QED
  BY <1>2, <1>3, <1>4, <1>5, <1>6 DEF Next

(* Both gates come to the same in any project that is not edited, in which *)
(* no dynamic import is reached and what is scanned exports the same.      *)
THEOREM GatesConcur == Spec => []GatesAgree
<1>1. Init => Ordered /\ Linking /\ Counted /\ Exact
  <2> SUFFICES ASSUME Init
               PROVE  Ordered /\ Linking /\ Counted /\ Exact
    OBVIOUS
  <2>1. /\ modules = <<Entry[1]>> /\ at = 0 /\ exports = NoExports /\ phase = "collect"
        /\ gate = "capture" /\ outcome = None /\ edits = 0
    BY DEF Init
  <2>2. \A m \in Modules : \A n \in Names : exports[m][n] = {}
    BY <2>1 DEF NoExports
  <2>3. Ordered /\ Linking /\ Counted
    BY <2>1, <2>2 DEF Counted, Ordered, Linking
  <2>4. Gathered /\ ExportsWithin /\ EntryFirst
    BY <2>1, <2>2 DEF Gathered, ExportsWithin, EntryFirst, Started
  <2>5. Least /\ Lowest /\ Concluded
    BY <2>1 DEF Least, Started, Lowest, Concluded
  <2>6. Recalled /\ GatesAgree
    BY <2>1, CallGraphAssumption DEF Recalled, GatesAgree
  <2> QED
    BY <2>1, <2>3, <2>4, <2>5, <2>6 DEF Exact
<1>2. Counted /\ [Next]_vars => Counted'
  BY DEF Counted, Next, Analyze, Collect, Index, Scan, Settle, Propagate, Attach, Conclude, Capture, Verify, Edit, Ask,
         vars, projectVars
<1>3. IInv /\ Ordered /\ Linking /\ Counted /\ Exact /\ [Next]_vars
        => Ordered' /\ Linking' /\ Counted' /\ Exact'
  <2> SUFFICES ASSUME IInv, Ordered, Linking, Counted, Exact, [Next]_vars
               PROVE  Ordered' /\ Linking' /\ Counted' /\ Exact'
    OBVIOUS
  <2>1. Gated
    BY DEF Gated
  <2>2. Gathered' /\ ExportsWithin' /\ EntryFirst'
    BY <2>1, GatheredStep, WithinStep DEF Exact
  <2>3. Least' /\ Lowest' /\ Concluded'
    BY <2>1, LeastStep, LowestStep, ConcludedStep DEF Exact
  <2>4. Recalled' /\ GatesAgree'
    BY <2>1, RecalledStep, AgreeStep DEF Exact
  <2> QED
    BY <1>2, <2>2, <2>3, <2>4, LinkingStep DEF Exact
<1>4. Exact => GatesAgree
  BY DEF Exact
<1> QED
  BY <1>1, <1>3, <1>4, Inductive, PTL DEF Spec

=============================================================================
