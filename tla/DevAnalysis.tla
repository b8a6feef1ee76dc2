------------------------------ MODULE DevAnalysis ------------------------------
(* Which callables of a project the development server captures: the sources a
   build reads and whether they are still those on disk (dev-project-cache.ts),
   the effects of initialization and what each of them taints, and the problems a
   callable inherits from what it calls and refers to (dev-analysis.ts).

   A text is what the analysis sees of a module: its imports, its top-level
   declarations and the effects of its initialization.  A declaration is a
   function or a value; a reference names a declaration, or the namespace, of its
   own module or of one it imports.                                         *)
EXTENDS Integers, FiniteSets, Sequences

CONSTANTS
  Files, Names,
  Directory,      \* of each file: "root", which is walked, or another
  Selected,       \* files of the root the options select
  Projects,       \* what is on disk at first, and the edits that may be made of it
  None

Directories == {"root"} \cup {Directory[f] : f \in Files}

\* All that is reached from S; the longest chain leaves each node once.
Closure(S, next) ==
  LET longest == Cardinality(DOMAIN next)
      c[n \in 0 .. longest] ==
        IF n = 0 THEN S ELSE c[n - 1] \cup UNION {next[x] : x \in c[n - 1] \cap DOMAIN next}
  IN c[longest]

\* A text names what it declares or imports by name.
Callee(c) == [to |-> c.to, name |-> c.name]
Named(d) == d.refs \cup (IF d.kind = "function" THEN {Callee(c) : c \in d.calls} ELSE {})
WellFormed(f, t) ==
  t # None =>
    /\ t.imports \subseteq [to : Files, bare : BOOLEAN]
    /\ \A n \in Names : t.scope[n] # None =>
         /\ t.scope[n].kind = "function" => t.scope[n].parameters \in Nat
         /\ \A r \in Named(t.scope[n]) :
              /\ r.name \in Names \cup {"*"}
              /\ r.to = f \/ [to |-> r.to, bare |-> FALSE] \in t.imports

ASSUME DevAnalysisAssumption ==
  /\ IsFiniteSet(Files) /\ IsFiniteSet(Names)
  /\ Selected \subseteq {f \in Files : Directory[f] = "root"}
  /\ Directories \cap Files = {} /\ "*" \notin Names
  /\ None \notin Files \cup Names /\ None \notin Nat
  /\ \A p \in Projects :
       /\ p.disk = [f \in Files |-> p.disk[f]]
       /\ \A f \in Files : WellFormed(f, p.disk[f])
       /\ \A e \in p.edits : e.file \in Files /\ WellFormed(e.file, e.text)

VARIABLES
  disk, stamp,    \* each file's text, if it exists, and each path's last change
  upcoming,       \* bound: the edits still to come
  phase,
  listing,        \* what the walk found
  inputs,         \* the stats the build rests on, taken before what they vouch for
  held,           \* a missing file, and the stat of the directory that may come to vouch for it
  parents,        \* the directory that vouches for each missing file, if one does
  sources,        \* the texts read
  modules,        \* the files that are part of the program
  problems, mutated

diskVars == <<disk, stamp, upcoming>>
inputVars == <<listing, inputs, held, parents, sources, modules>>
vars == <<diskVars, phase, inputVars, problems, mutated>>

(******************************** the build *******************************)

Stat(x) == IF x \in Files /\ disk[x] = None THEN None ELSE stamp[x]
Tracked(x) == x \in DOMAIN inputs
Track(x) == [y \in DOMAIN inputs \cup {x} |-> IF Tracked(y) THEN inputs[y] ELSE Stat(x)]
IsFile(f) == Tracked(f) /\ inputs[f] # None
Known == DOMAIN sources

ImportsOf(f) == {i.to : i \in sources[f].imports}
\* What is selected, and what a module imports that was found.
Followed == Closure(Selected \cap Known, [m \in Known |-> ImportsOf(m) \cap Known])

Wanted == IF phase = "walk" THEN listing ELSE UNION {ImportsOf(m) : m \in Followed}
Untracked == {f \in Wanted : ~Tracked(f)}
Unread == {f \in Wanted : IsFile(f) /\ f \notin Known}
Absent == {f \in Wanted : Tracked(f) /\ inputs[f] = None /\ f \notin DOMAIN parents}
Item == CHOOSE f \in (IF Unread \cup Absent # {} THEN Unread \cup Absent ELSE Untracked) : TRUE
Reading == phase \in {"walk", "follow"} /\ Unread \cup Absent \cup Untracked # {}

TrackRoot ==
  /\ phase = "start"
  /\ inputs' = Track("root") /\ phase' = "list"
  /\ UNCHANGED <<diskVars, listing, held, parents, sources, modules, problems, mutated>>

List ==
  /\ phase = "list"
  /\ listing' = {f \in Files : Directory[f] = "root" /\ disk[f] # None}
  /\ phase' = "walk"
  /\ UNCHANGED <<diskVars, inputs, held, parents, sources, modules, problems, mutated>>

StatItem ==
  /\ Reading /\ ~Tracked(Item)
  /\ inputs' = Track(Item)
  /\ UNCHANGED <<diskVars, phase, listing, held, parents, sources, modules, problems, mutated>>

\* A listed file that is gone when it is read fails the build.
Read ==
  /\ Reading
  /\ \/ /\ Item \in Unread /\ disk[Item] # None
        /\ sources' = [f \in Known \cup {Item} |-> IF f = Item THEN disk[f] ELSE sources[f]]
        /\ UNCHANGED phase
     \/ /\ \/ Item \in Unread /\ disk[Item] = None
           \/ Item \in Absent /\ phase = "walk"
        /\ phase' = "failed" /\ UNCHANGED sources
  /\ UNCHANGED <<diskVars, listing, inputs, held, parents, modules, problems, mutated>>

\* Mutant: the file is not looked for again.
StillMissingAssumed(f) == TRUE
StillMissing(f) == disk[f] = None

\* A missing import: its directory is stated, and then the file looked for again.
\* Only when it is missing still does the directory vouch for it.
StatParent ==
  /\ Reading /\ phase = "follow" /\ Item \in Absent
  /\ held' = [file |-> Item, stat |-> Track(Directory[Item])[Directory[Item]]]
  /\ phase' = "missing"
  /\ UNCHANGED <<diskVars, listing, inputs, parents, sources, modules, problems, mutated>>
Missing ==
  /\ phase = "missing"
  /\ LET f == held.file  dir == Directory[f] IN
     /\ parents' = [x \in DOMAIN parents \cup {f} |->
                      IF x # f THEN parents[x] ELSE IF StillMissing(f) THEN dir ELSE None]
     /\ inputs' = IF ~StillMissing(f) THEN inputs
                  ELSE [x \in DOMAIN inputs \cup {dir} |-> IF x = dir THEN held.stat ELSE inputs[x]]
  /\ phase' = "follow" /\ held' = None
  /\ UNCHANGED <<diskVars, listing, sources, modules, problems, mutated>>

Walked ==
  /\ phase = "walk" /\ ~Reading /\ phase' = "follow"
  /\ UNCHANGED <<diskVars, inputVars, problems, mutated>>

IsCurrent ==
  \A x \in DOMAIN inputs :
    \/ x \in DOMAIN parents /\ parents[x] # None
    \/ inputs[x] = Stat(x)

Program ==
  /\ phase = "follow" /\ ~Reading
  /\ modules' = Followed /\ phase' = "program"
  /\ UNCHANGED <<diskVars, listing, inputs, held, parents, sources, problems, mutated>>

(******************************** the texts *******************************)

Declared(m, n) == sources[m].scope[n] # None
IsFunction(m, n) == Declared(m, n) /\ sources[m].scope[n].kind = "function"
Functions == {<<"function", m, n>> : m \in modules, n \in Names}
DevFunctions == {f \in Functions : IsFunction(f[2], f[3])}
BodyOf(f) == sources[f[2]].scope[f[3]]
Instrumented == {f \in DevFunctions : f[2] \in Selected /\ BodyOf(f).capture}

\* What a name refers to: a declaration, a module, or an import without a module.
Target(m, r) ==
  IF r.to # m /\ r.to \notin modules THEN {<<"import", m, r.to>>}
  ELSE IF r.name = "*" THEN {<<"namespace", r.to>>}
  ELSE IF Declared(r.to, r.name) THEN {<<"binding", r.to, r.name>>} ELSE {}

CallTarget(c) == <<"function", c.to, c.name>>
Calls(f) == {c \in BodyOf(f).calls : CallTarget(c) \in DevFunctions}
References(f) == UNION {Target(f[2], r) : r \in Named(BodyOf(f))}

\* The callables whose problems are looked for.
Called == [f \in DevFunctions |-> {CallTarget(c) : c \in Calls(f)}]
Callables == Closure(Instrumented, Called)

(*************************** initialization *******************************)

\* What a write can change: containers of the module, or the ambient objects.
WriteTier(m, x) ==
  IF x.target \in {"this", "private global", "imported"} THEN <<"module", m>>
  ELSE IF x.target \in Names THEN <<"binding", m, x.target>>
  ELSE <<"global", m>>

ContainingTier(m, x) == IF x.in = None THEN <<"module", m>> ELSE <<"binding", m, x.in>>

InitializationTier(m, x) ==
  IF x.form \in {"await", "host", "dynamic", "leak"} THEN <<"global", m>>
  ELSE IF x.form = "write" THEN WriteTier(m, x)
  ELSE ContainingTier(m, x)

Missed(m) == {i \in sources[m].imports : i.to \notin modules}
ModuleProblems(m) ==
  (IF sources[m].broken THEN {"UNSUPPORTED_SOURCE"} ELSE {})
    \cup (IF \E i \in Missed(m) : i.bare THEN {"UNKNOWN_MODULE"} ELSE {})
ImportProblems(m) == {<<"import", m, i.to>> : i \in {x \in Missed(m) : ~x.bare}}

\* What inspecting a callable itself finds, its shape and its policy included.
OwnProblems(f) ==
  BodyOf(f).own
    \cup (IF BodyOf(f).effect /\ f \notin Instrumented THEN {"UNINSTRUMENTED_EFFECT"} ELSE {})
    \cup (IF \E r \in BodyOf(f).refs : Target(f[2], r) = {} THEN {"UNKNOWN_MODULE"} ELSE {})
    \cup (IF \E c \in BodyOf(f).calls : CallTarget(c) \notin DevFunctions THEN {"UNKNOWN_CALL"} ELSE {})
    \cup (IF BodyOf(f).writes # {} \/ BodyOf(f).writesUnknown THEN {"ARGUMENT_MUTATION"} ELSE {})

Parameters(f) == 1 .. BodyOf(f).parameters
OwnWrites(f) == IF BodyOf(f).writesUnknown THEN Parameters(f) ELSE BodyOf(f).writes
Nodes == {<<x, m>> : x \in {"global", "module"}, m \in modules}
           \cup {<<"binding", m, n>> : m \in modules, n \in Names}
           \cup (UNION {ImportProblems(m) : m \in modules}) \cup Callables

Findings(x) == {y \in sources[x[2]].initial : InitializationTier(x[2], y) = x}
FirstProblems(x) ==
  (IF Findings(x) # {} THEN {"EFFECTFUL_INITIALIZATION"} ELSE {})
    \cup (IF x[1] = "global" THEN ModuleProblems(x[2]) ELSE {})
    \cup (IF x[1] = "import" THEN {"UNKNOWN_MODULE"} ELSE {})
    \cup (IF x[1] = "function" THEN OwnProblems(x) ELSE {})

Initialize ==
  /\ phase = "program"
  /\ problems' = [x \in Nodes |-> FirstProblems(x)]
  /\ mutated' = [f \in Callables |-> OwnWrites(f)]
  /\ phase' = "modules"
  /\ UNCHANGED <<diskVars, inputVars>>

(****************************** inheritance *******************************)

Reached == DOMAIN mutated
Bindings(m) == {x \in DOMAIN problems : x[1] \in {"binding", "import"} /\ x[2] = m}

Dependencies(m) == {i \in sources[m].imports : i.to \in modules}
FromDependencies(m) ==
  UNION {problems[<<"global", i.to>>] \cup (IF i.bare THEN problems[<<"module", i.to>>] ELSE {}) :
           i \in Dependencies(m)}

\* Mutant: a reference does not see the code around what it refers to.
FromReferenceAlone(m, t) == IF t[1] = "namespace" THEN {} ELSE problems[t]

\* What a reference to t from module m can observe.
FromReference(m, t) ==
  (IF t[2] # m THEN problems[<<"module", t[2]>>] ELSE {})
    \cup (IF t[1] = "namespace" THEN UNION {problems[x] : x \in Bindings(t[2])} ELSE problems[t])

Inherits(x, codes) == ~(codes \subseteq problems[x])
Inherit(x, codes) == [problems EXCEPT ![x] = @ \cup codes]

InheritModule ==
  /\ phase = "modules"
  /\ LET open == {m \in modules : Inherits(<<"global", m>>, FromDependencies(m))} IN
     IF open = {} THEN phase' = "declarations" /\ UNCHANGED problems
     ELSE LET m == CHOOSE x \in open : TRUE IN
          problems' = Inherit(<<"global", m>>, FromDependencies(m)) /\ UNCHANGED phase
  /\ UNCHANGED <<diskVars, inputVars, mutated>>

Values == {x \in DOMAIN problems : x[1] = "binding" /\ Declared(x[2], x[3]) /\ ~IsFunction(x[2], x[3])}
Mentions(x) == UNION {Target(x[2], r) : r \in sources[x[2]].scope[x[3]].refs}
FromDeclaration(x) == UNION {FromReference(x[2], t) : t \in Mentions(x) \ {x}}

InheritDeclaration ==
  /\ phase = "declarations"
  /\ LET open == {x \in Values : Inherits(x, FromDeclaration(x))} IN
     IF open = {} THEN phase' = "callables" /\ UNCHANGED problems
     ELSE LET x == CHOOSE y \in open : TRUE IN
          problems' = Inherit(x, FromDeclaration(x)) /\ UNCHANGED phase
  /\ UNCHANGED <<diskVars, inputVars, mutated>>

\* An argument is built of literals, of constant locals the call alone uses, and of
\* what its caller may not own: locals lent elsewhere or reassigned, and parameters.
Owned(a) == a.holds \subseteq {<<"literal">>, <<"local">>}
Held(f, a) ==
  IF <<"reassigned">> \in a.holds THEN Parameters(f)
  ELSE {i \in Parameters(f) : <<"parameter", i>> \in a.holds}
Inputs(f, a) == IF Held(f, a) = {} THEN Parameters(f) ELSE Held(f, a)

Spread(c) == \E i \in DOMAIN c.args : c.args[i].spread
\* Mutant: a spread argument shifts no position.
AmbiguousRest(c) == BodyOf(CallTarget(c)).rest
Ambiguous(c) == LET g == CallTarget(c) IN
  Spread(c) \/ BodyOf(g).rest \/ ("ARGUMENT_MUTATION" \in problems[g] /\ mutated[g] = {})
Borrowed(c) ==
  IF Ambiguous(c) THEN DOMAIN c.args
  ELSE {i \in mutated[CallTarget(c)] : i \in DOMAIN c.args => ~Owned(c.args[i])}

FromCall(c) ==
  IF ~Ambiguous(c) /\ Borrowed(c) = {} THEN problems[CallTarget(c)] \ {"ARGUMENT_MUTATION"}
  ELSE problems[CallTarget(c)]
MutatedBy(f, c) ==
  IF "ARGUMENT_MUTATION" \notin problems[CallTarget(c)] THEN {}
  ELSE UNION {Inputs(f, c.args[i]) : i \in Borrowed(c) \cap DOMAIN c.args}

FromAll(f) ==
  problems[<<"global", f[2]>>] \cup problems[<<"module", f[2]>>]
    \cup (UNION {FromCall(c) : c \in Calls(f)}) \cup (UNION {FromReference(f[2], t) : t \in References(f)})

\* One callable is looked at; which comes first may change what is blamed on whom.
InheritCallable ==
  /\ phase = "callables"
  /\ LET more(f) == UNION {MutatedBy(f, c) : c \in Calls(f)}
         open == {f \in Reached : Inherits(f, FromAll(f)) \/ ~(more(f) \subseteq mutated[f])}
     IN IF open = {} THEN phase' = "ready" /\ UNCHANGED <<problems, mutated>>
        ELSE \E f \in open :
          /\ problems' = Inherit(f, FromAll(f))
          /\ mutated' = [mutated EXCEPT ![f] = @ \cup more(f)] /\ UNCHANGED phase
  /\ UNCHANGED <<diskVars, inputVars>>

\* What is captured, and what of it only with plain values.
Targets == {f \in Instrumented : problems[f] = {}}
Plain == Closure({f \in Reached : BodyOf(f).implicit},
                 [g \in Reached |-> {f \in Reached : g \in Called[f]}])

(******************************* the project ******************************)

Edit ==
  /\ upcoming # {}
  /\ \E e \in upcoming :
       /\ disk[e.file] # e.text
       /\ disk' = [disk EXCEPT ![e.file] = e.text] /\ upcoming' = upcoming \ {e}
       /\ stamp' = [x \in DOMAIN stamp |->
            IF x = e.file \/ (x = Directory[e.file] /\ (disk[e.file] = None \/ e.text = None))
            THEN stamp[x] + 1 ELSE stamp[x]]
  /\ UNCHANGED <<phase, inputVars, problems, mutated>>

Init ==
  /\ \E p \in Projects : disk = p.disk /\ upcoming = p.edits
  /\ stamp = [x \in Files \cup Directories |-> 0]
  /\ phase = "start" /\ listing = {} /\ inputs = <<>> /\ held = None /\ parents = <<>> /\ sources = <<>> /\ modules = {}
  /\ problems = <<>> /\ mutated = <<>>

Build == TrackRoot \/ List \/ StatItem \/ Read \/ StatParent \/ Missing \/ Walked \/ Program
           \/ Initialize \/ InheritModule \/ InheritDeclaration \/ InheritCallable
Next == Build \/ Edit
Spec == Init /\ [][Next]_vars

(******************************* properties *******************************)

(* A build is reused only while it is what a new one would read: isCurrent tells
   every edit, creation and deletion, those made while the build was reading
   included (dev-project-cache.ts).                                          *)
CurrentIsFresh ==
  phase = "ready" /\ IsCurrent =>
    /\ listing = {f \in Files : Directory[f] = "root" /\ disk[f] # None}
    /\ \A f \in Known : sources[f] = disk[f]
    /\ \A m \in modules : \A f \in ImportsOf(m) : disk[f] # None => f \in Known

\* What can run or be read, by reachability in the program.
Loads(m) == Closure({m}, [x \in modules |-> {i.to : i \in Dependencies(x)}])
RunBy(f) == Closure({f}, Called)
Namespaces == {<<"namespace", m>> : m \in modules}
Reads ==
  [x \in Reached \cup Namespaces \cup Values |->
     IF x \in Reached THEN References(x) ELSE IF x \in Values THEN Mentions(x) ELSE Bindings(x[2])]
Seen(f) == Closure(RunBy(f), Reads)

(* What is captured replays from its arguments: of all it can run nothing has a
   problem of its own, and no initialization with an effect - of a module that is
   loaded for it, of the code around what it reads, of what it reads itself - and
   no module that was not found can be seen by it.                           *)
TargetsAreSafe ==
  phase = "ready" =>
    \A f \in Targets :
      LET seen == Seen(f)
          loaded == UNION {Loads(m) : m \in {x[2] : x \in seen}}
          initial(m) == {InitializationTier(m, y) : y \in sources[m].initial}
      IN /\ \A g \in RunBy(f) : OwnProblems(g) \subseteq {"ARGUMENT_MUTATION"}
         /\ \A m \in loaded : ModuleProblems(m) = {} /\ <<"global", m>> \notin initial(m)
         /\ \A m \in {x[2] : x \in seen} : <<"module", m>> \notin initial(m)
         /\ \A m \in loaded : \A i \in Dependencies(m) : i.bare => <<"module", i.to>> \notin initial(i.to)
         /\ \A x \in seen : x \notin initial(x[2]) /\ x[1] # "import"
         /\ (\E g \in RunBy(f) : BodyOf(g).implicit) => f \in Plain

\* The parameters a call of f can write: by itself, or by passing them on, where a
\* spread or a rest parameter moves an argument to any later position.
Reaches(c, i, j) ==
  \/ i = j
  \/ i > j /\ BodyOf(CallTarget(c)).rest
  \/ \E s \in DOMAIN c.args : s <= i /\ c.args[s].spread /\ s <= j
Slots == UNION {{f} \X Parameters(f) : f \in Reached}
Writes(v) == v[2] \in BodyOf(v[1]).writes \/ BodyOf(v[1]).writesUnknown
PassesOn(v, w) ==
  \E c \in Calls(v[1]) : CallTarget(c) = w[1] /\
    \E a \in DOMAIN c.args : Reaches(c, a, w[2]) /\ v[2] \in Held(v[1], c.args[a])
Written ==
  Closure({v \in Slots : Writes(v)}, [w \in Slots |-> {v \in Slots : PassesOn(v, w)}])

(* A mutation of what the caller lent is never hidden behind calls: a callable that
   can write a parameter, itself or through any chain of calls, is known to, at
   every order in which the callables are looked at.                         *)
BorrowedSeen ==
  phase = "ready" =>
    \A w \in Written : "ARGUMENT_MUTATION" \in problems[w[1]] /\ w[2] \in mutated[w[1]]
=============================================================================
