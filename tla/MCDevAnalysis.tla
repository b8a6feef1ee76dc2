---------------------------- MODULE MCDevAnalysis ----------------------------
(* modA is selected, modB is not, both of the project; modC is installed. *)
EXTENDS DevAnalysis, TLC

CONSTANTS modA, modB, modC, nameF, nameG

MCFiles == {modA, modB, modC}
MCNames == {nameF, nameG}
MCDirectory == [x \in MCFiles |-> IF x = modC THEN "lib" ELSE "root"]

Import(m) == [to |-> m, bare |-> FALSE]
Bare(m) == [to |-> m, bare |-> TRUE]
Ref(m, n) == [to |-> m, name |-> n]
Value(refs) == [kind |-> "value", refs |-> refs]
Body(own, effect, calls, refs, writes, unknown, parameters, rest, implicit, capture) ==
  [kind |-> "function", own |-> own, effect |-> effect, calls |-> calls, refs |-> refs,
   writes |-> writes, writesUnknown |-> unknown, parameters |-> parameters, rest |-> rest,
   implicit |-> implicit, capture |-> capture]
Reader(refs) == Body({}, FALSE, {}, refs, {}, FALSE, 0, FALSE, FALSE, TRUE)
Call(m, n, args) == [to |-> m, name |-> n, args |-> args]
Caller(calls, refs) == Body({}, FALSE, calls, refs, {}, FALSE, 0, FALSE, FALSE, TRUE)
Text(imports, first, second, initial, broken) ==
  [imports |-> imports, scope |-> (nameF :> first @@ nameG :> second), initial |-> initial, broken |-> broken]
Finding(form, in, target) == [form |-> form, in |-> in, target |-> target]
Disk(x, y, z) == (modA :> x @@ modB :> y @@ modC :> z)
Project(d, e) == [disk |-> d, edits |-> e]

\* Initialization: F of A reads or calls into B, B into C.
Effects == {Finding("await", None, None), Finding("compute", None, None), Finding("compute", nameG, None)}
  \cup {Finding("write", None, t) : t \in {"this", "private global", "imported", "ambient", nameG}}
InitialA == {Text(i, x, y, {}, FALSE) :
  i \in {{Import(modB)}, {Bare(modB)}, {Import(modB), Bare(modC)}},
  x \in {Reader({Ref(modB, nameG)}), Reader({Ref(modB, "*")}), Reader({Ref(modA, nameG)}), Caller({Call(modB, nameF, <<>>)}, {}),
         Caller({Call(modA, nameG, <<>>)}, {})},
  y \in {Value({Ref(modB, nameG)}), Reader({Ref(modB, nameF)}), None}}
InitialB == {Text(i, x, y, e, FALSE) :
  i \in {{}, {Import(modC)}, {Bare(modC)}},
  x \in {Reader({Ref(modC, nameG)}), Body({}, TRUE, {}, {}, {}, FALSE, 0, FALSE, TRUE, FALSE)},
  y \in {Value({}), Value({Ref(modC, nameG)})},
  e \in {{}} \cup {{z} : z \in Effects}}
InitialC == {None, Text({}, None, Value({}), {}, TRUE)} \cup 
  {Text({}, None, Value({}), {z}, FALSE) :
     z \in {Finding("await", None, None), Finding("compute", None, None), Finding("compute", nameG, None)}}
\* A text refers to what it imports by name only.
Bound(t) == UNION {{r.to : r \in t.scope[n].refs} : n \in {x \in MCNames : t.scope[x] # None}}
              \cup {modB : x \in {Call(modB, nameF, <<>>)} \cap UNION {t.scope[n].calls :
                         n \in {y \in MCNames : t.scope[y] # None /\ t.scope[y].kind = "function"}}}
Linked(m, texts) == {t \in texts : \A x \in Bound(t) \ {m} : Import(x) \in t.imports}
InitialProjects ==
  {Project(Disk(x, y, z), {}) : x \in Linked(modA, InitialA), y \in Linked(modB, InitialB), z \in InitialC}

\* Mutation: F of A calls its G and F of B, its G calls either F; parameters 1 and 2.
Arg(holds, spread) == [holds |-> holds, spread |-> spread]
Literal == <<"literal">>
Local == <<"local">>
Lent == <<"lent">>
Reassigned == <<"reassigned">>
Parameter(i) == <<"parameter", i>>
Args == {<<Arg({Literal}, FALSE), Arg({Parameter(2)}, FALSE)>>, <<Arg({Local, Parameter(1)}, FALSE)>>,
         <<Arg({Lent}, FALSE)>>, <<Arg({Reassigned}, FALSE)>>, <<Arg({Parameter(2)}, TRUE)>>,
         <<Arg({Literal, Local}, FALSE)>>,
         <<Arg({Parameter(2)}, FALSE), Arg({Lent, Parameter(1)}, FALSE)>>}
Passer(calls, writes, unknown, rest) == Body({}, FALSE, calls, {}, writes, unknown, 2, rest, FALSE, TRUE)
MutationProjects ==
  {Project(Disk(Text({Import(modB)}, Passer({Call(modA, nameG, x)}, {}, FALSE, FALSE),
                     Passer({Call(n[1], n[2], y)}, {}, FALSE, e), {}, FALSE),
                Text({}, Passer({}, w, u, d), None, {}, FALSE), None), {}) :
     x \in Args, y \in Args, n \in {<<modB, nameF>>, <<modA, nameF>>}, e \in BOOLEAN, d \in BOOLEAN,
     w \in SUBSET {1, 2}, u \in BOOLEAN}
  \cup {Project(Disk(Text({Import(modB)}, Passer({Call(modA, nameG, x), Call(modB, nameF, z)}, {}, FALSE, FALSE),
                     Passer({Call(modA, nameF, y)}, w, FALSE, FALSE), {}, FALSE),
                Text({}, Passer({}, {2}, FALSE, FALSE), None, {}, FALSE), None), {}) :
     x \in Args, y \in Args, z \in Args, w \in SUBSET {1, 2}}

\* Edits while the build reads: a text changes, a file comes and goes.
Leaf == Text({}, Reader({}), None, {}, FALSE)
Other == Text({}, Reader({}), Value({}), {}, FALSE)
Root == Text({Import(modB), Import(modC)}, Reader({Ref(modB, nameF)}), None, {}, FALSE)
Change(m, t) == [file |-> m, text |-> t]
EditProjects ==
  {Project(Disk(Root, x, y), e) :
     x \in {None, Leaf}, y \in {None, Leaf},
     e \in {z \in SUBSET ({Change(modA, Other)} \cup {Change(m, t) : m \in {modB, modC}, t \in {None, Leaf, Other}}) :
              Cardinality(z) \in 1 .. 2}}

MCProjects == InitialProjects \cup MutationProjects \cup EditProjects
=============================================================================
