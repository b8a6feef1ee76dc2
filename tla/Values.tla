-------------------------------- MODULE Values --------------------------------
(* The values of an observed call: how both codecs turn live objects into
   canonical trees (canonical.ts and observation-safety.ts for V1 artifacts,
   dev-values.ts for V2), what they refuse, how a recorded tree becomes live
   objects again and how a replayed completion is compared with the recorded
   one under a reviewed tolerance (project-execution.ts, dev-diff.ts).

   A heap maps objects to a prototype and the values of its properties; object 0
   is the array of the call's arguments.  A value is a leaf or a reference.  A
   canonical node is a leaf, or a kind with its children.  The two keys stand
   for an array's indices and for a record's sorted property names.         *)
EXTENDS Integers, Sequences, SequencesExt

CONSTANTS Objects,      \* the objects a call can reach
          Recorded,     \* the numbers the recorded call works with
          Replayed,     \* the numbers the replayed call answers with
          MaxDepth, MaxNodes,  \* the limits of a canonical value
          Epsilon       \* the tolerance a reviewer may grant to a number

ASSUME ValuesAssumption ==
  /\ Recorded \subseteq Int /\ Replayed \subseteq Int
  /\ MaxDepth \in Nat /\ MaxNodes \in Nat /\ Epsilon \in Nat

Keys == {0, 1}
Number(n) == [kind |-> "number", value |-> n]
Secret == [kind |-> "secret"]        \* a string the privacy patterns match
Missing == [kind |-> "missing"]      \* no such property
Ref(o) == [kind |-> "ref", to |-> o]
Values(os) == {Number(n) : n \in Recorded} \cup {Secret} \cup {Ref(o) : o \in os}

VARIABLES
  version,     \* of the artifact: 1 or 2
  progress,    \* of the observation, and of the case it becomes
  heap,        \* the objects of the observed call
  completion,  \* whether it returned or threw, and the value
  entry,       \* the canonical arguments before the call
  recorded,    \* the accepted observation's arguments and completion
  tolerated,   \* paths of the number leaves the reviewer loosened
  actual,      \* the completion of the replay, Missing one that is refused
  verdict      \* [match, path]: path leads to the difference that is told

valuesVars == <<version, progress, heap, completion, entry, recorded, tolerated, actual, verdict>>

(**************************** canonical trees *****************************)

Inner(node) == "at" \in DOMAIN node
Child(node, k) == IF Inner(node) /\ k \in DOMAIN node.at THEN node.at[k] ELSE Missing

\* The nodes of a tree, as paths from its root.
Paths == Seq(Keys)
Tuples(n) == UNION {[1..i -> Keys] : i \in 0..n}
Below(node, p) ==
  LET at[i \in 0..Len(p)] == IF i = 0 THEN node ELSE Child(at[i - 1], p[i])
  IN at[Len(p)]
PathsOf(node) == {p \in Tuples(MaxDepth + 1) : Below(node, p) # Missing}

\* Secrets are looked for in the canonical tree, payloads of adapters included;
\* V1's scan of the live values before it finds nothing that this one misses.
HasSecret(node) == \E p \in PathsOf(node) : Below(node, p) = Secret

(******************************** encoding ********************************)

\* What a walk gives: the objects it met, the nodes it counted, the node it made
\* and the reason it was given up.
Refused(code) == [seen |-> {}, nodes |-> 0, node |-> Missing, code |-> code]
Safe(s) == s.code = "ok" /\ ~HasSecret(s.node)

\* Mutant: an adapted object may be met again.
MetBuiltIn(h, seen, o) == o \in seen /\ h[o].proto # "class"

\* Cycles and repeated references are met twice in one walk.
Met(h, seen, o) == o \in seen

\* The kind of node an object becomes, and the properties it shows.  V1 knows
\* errors as thrown values only; an adapter gives a payload.
Dense(o) == o.at[1] = Missing \/ o.at[0] # Missing
KindOf(o, allow) ==
  IF o.proto = "class" /\ allow THEN "adapted"
  ELSE IF \/ o.proto = "array" /\ Dense(o)
          \/ o.proto = "record"
          \/ o.proto = "error" /\ version = 2
       THEN o.proto ELSE "unsupported"
Visible(o, kind) == {k \in IF kind = "adapted" THEN {0} ELSE Keys : o.at[k] # Missing}

\* encodeValue and encodeDevValue: the depth and the number of nodes are limited
\* and every object is met once.  A payload must be built-in; an adapter fails on
\* an object without a first property.
Starts(h) == [value : Values(DOMAIN h), depth : Nat, allow : BOOLEAN,
              seen : SUBSET DOMAIN h, nodes : Nat]
Encode(h) ==
  LET encode[g \in Starts(h)] ==
        LET v == g.value
            made == [seen |-> g.seen, nodes |-> g.nodes + 1, node |-> v, code |-> "ok"]
            o == h[v.to]
            kind == KindOf(o, g.allow)
            Property(s, k) ==
              IF s.code # "ok" \/ k \notin Visible(o, kind) THEN s
              ELSE encode[[value |-> o.at[k], depth |-> g.depth + 1,
                           allow |-> g.allow /\ kind # "adapted",
                           seen |-> s.seen, nodes |-> s.nodes]]
            first == Property([made EXCEPT !.seen = @ \cup {v.to}], 0)
            second == Property(first, 1)
        IN IF g.depth > MaxDepth \/ made.nodes > MaxNodes THEN Refused("limit")
           ELSE IF v.kind # "ref"
                THEN IF v = Secret /\ version = 2 THEN Refused("secret") ELSE made
           ELSE IF Met(h, g.seen, v.to) \/ kind = "unsupported" THEN Refused("unsupported")
           ELSE IF kind = "adapted" /\ o.at[0] = Missing THEN Refused("serialize")
           ELSE IF second.code # "ok"
                THEN Refused(IF kind = "adapted" /\ second.code = "unsupported"
                             THEN "payload" ELSE second.code)
           ELSE [made EXCEPT !.seen = second.seen, !.nodes = second.nodes, !.node =
                   [kind |-> kind,
                    at |-> [k \in Visible(o, kind) |-> IF k = 0 THEN first.node ELSE second.node]]]
  IN encode

EncodeRoot(h, v) ==
  Encode(h)[[value |-> v, depth |-> 0, allow |-> TRUE, seen |-> {}, nodes |-> 0]]

\* A thrown error without properties of its own becomes a V1 node of its own.
StandardError == [kind |-> "standard-error"]
IsStandardError(h, c) == c.kind = "throw" /\ c.value.kind = "ref" /\ h[c.value.to].proto = "error"

\* A V1 snapshot is one walk over the arguments and the completion, which is a
\* node as well, as is its standard error; V2 walks them separately.
EncodeCompletion(h, c, s) ==
  LET start == [value |-> c.value, depth |-> 1, allow |-> TRUE,
                seen |-> s.seen, nodes |-> s.nodes + 1]
  IN IF version = 2 THEN EncodeRoot(h, c.value)
     ELSE IF ~IsStandardError(h, c) THEN Encode(h)[start]
     ELSE IF Visible(h[c.value.to], "error") # {} \/ c.value.to \in s.seen
          THEN Refused("unsupported")
     ELSE IF start.depth > MaxDepth \/ start.nodes + 1 > MaxNodes THEN Refused("limit")
     ELSE [seen |-> s.seen, nodes |-> start.nodes + 1, node |-> StandardError, code |-> "ok"]

(**************************** the observed call ***************************)

\* The arguments are encoded before the call, which goes on whatever comes of it.
Snapshot ==
  /\ progress = "entered"
  /\ LET s == EncodeRoot(heap, Ref(0)) IN
     IF Safe(s) THEN entry' = s.node /\ progress' = "running"
                ELSE progress' = "blocked" /\ UNCHANGED entry
  /\ UNCHANGED <<version, heap, completion, recorded, tolerated, actual, verdict>>

\* What a property holds.
Slots == Values(Objects) \cup {Missing}

\* The callable may set a property of an object it reaches, and completes.
Run ==
  /\ progress = "running"
  /\ \/ \E o \in Objects, k \in Keys, v \in Slots :
          heap' = [heap EXCEPT ![o].at[k] = v]
     \/ UNCHANGED heap
  /\ completion' \in [kind : {"return", "throw"}, value : Values(Objects)]
  /\ progress' = "completed"
  /\ UNCHANGED <<version, entry, recorded, tolerated, actual, verdict>>

\* They must encode as they did before the call.
Unmutated(s) == s.node = entry

\* classifyObservation, and what the V2 runtime does when a call ends.
Classify ==
  /\ progress = "completed"
  /\ LET args == EncodeRoot(heap, Ref(0))
         end == EncodeCompletion(heap, completion, args)
         accepted == Safe(args) /\ Safe(end) /\ Unmutated(args)
     IN IF accepted
        THEN /\ progress' = "accepted"
             /\ recorded' = [arguments |-> entry,
                             completion |-> [kind |-> completion.kind, node |-> end.node]]
        ELSE progress' = "blocked" /\ UNCHANGED recorded
  /\ UNCHANGED <<version, heap, completion, entry, tolerated, actual, verdict>>

(******************************** decoding ********************************)

\* Mutant: the adapter's payload is given back as it is.
PrototypeOfPayload(kind) == IF kind = "adapted" THEN "record" ELSE kind

\* The prototype of a decoded node; an adapter makes its class again.
Prototype(kind) == IF kind = "adapted" THEN "class" ELSE kind

\* Every composite node becomes an object of its own, named by its path.
Decode(node) ==
  [p \in {q \in PathsOf(node) : Inner(Below(node, q))} |->
     [proto |-> Prototype(Below(node, p).kind),
      at |-> [k \in Keys |-> LET child == Below(node, Append(p, k)) IN
                             IF Inner(child) THEN Ref(Append(p, k)) ELSE child]]]

(******************************* comparison *******************************)

\* Number leaves that may be loosened; those of an adapted payload may not.
Opaque(node, p) == \E i \in 0..(Len(p) - 1) : Below(node, SubSeq(p, 1, i)).kind = "adapted"
NumberLeafPaths(node) ==
  {p \in PathsOf(node) : Below(node, p).kind = "number" /\ ~Opaque(node, p)}

\* The observation becomes a case, with a tolerance for some of its numbers; the
\* recorded call is history.
MakeCase ==
  /\ progress = "accepted"
  /\ tolerated' \in SUBSET NumberLeafPaths(recorded.completion.node)
  /\ recorded' = [recorded EXCEPT !.arguments = Missing]
  /\ progress' = "case" /\ heap' = <<>> /\ entry' = Missing
  /\ completion' = [kind |-> "return", value |-> Missing]
  /\ UNCHANGED <<version, actual, verdict>>

Absolute(n) == IF n < 0 THEN -n ELSE n

\* Mutant: a tolerance counts for every leaf under its parent.
NearSibling(l, r, p) == /\ \E q \in tolerated : Len(q) = Len(p)
                        /\ Absolute(l.value - r.value) <= Epsilon

\* A tolerance counts for the leaf of exactly this path.
Near(l, r, p) == p \in tolerated /\ Absolute(l.value - r.value) <= Epsilon

\* valuesMatch: V1 decides first.
Match(l, r) ==
  LET match[p \in Paths] ==
        LET a == Below(l, p)
            b == Below(r, p)
        IN IF a.kind = "number" /\ b.kind = "number" THEN a = b \/ Near(a, b, p)
           ELSE IF a.kind = b.kind /\ a.kind \in {"array", "record"}
                THEN /\ DOMAIN a.at = DOMAIN b.at
                     /\ \A k \in DOMAIN a.at : match[Append(p, k)]
           ELSE a = b
  IN match

\* valueDifference: and afterwards descends into the first child, of those that
\* were expected before those that were not, that does not match.
None == <<-1>>     \* no path
Least(keys) == CHOOSE k \in keys : \A j \in keys : k <= j
Difference(l, r) ==
  LET difference[p \in Paths] ==
        LET a == Below(l, p)
            b == Below(r, p)
            unlike == {k \in DOMAIN a.at \cup DOMAIN b.at :
                         ~(k \in DOMAIN a.at \cap DOMAIN b.at /\ Match(l, r)[Append(p, k)])}
            expected == unlike \cap DOMAIN a.at
            first == Least(IF expected = {} THEN unlike ELSE expected)
        IN IF a.kind # b.kind \/ a.kind \notin {"array", "record", "adapted"} THEN p
           ELSE IF unlike = {} THEN None
           ELSE IF first \in DOMAIN a.at \cap DOMAIN b.at THEN difference[Append(p, first)]
           ELSE Append(p, first)
  IN difference

\* The first difference of dev-diff.ts decides and tells at once; payloads of
\* adapters are compared exactly, as if no leaf were tolerated.
First(l, r) ==
  LET first[p \in Paths] ==
        LET a == Below(l, p)
            b == Below(r, p)
            unlike == {k \in DOMAIN a.at \cup DOMAIN b.at : first[Append(p, k)] # None}
        IN IF a.kind # b.kind THEN p
           ELSE IF a.kind = "number"
                THEN IF a = b \/ (~Opaque(l, p) /\ Near(a, b, p)) THEN None ELSE p
           ELSE IF ~Inner(a) THEN IF a = b THEN None ELSE p
           ELSE IF unlike = {} THEN None ELSE first[Append(p, Least(unlike))]
  IN first

\* The trees a replayed completion can encode to: leaves, one level, and two
\* levels in a record.
Leaves == {Number(n) : n \in Replayed}
Level(kinds, nodes) == [kind : kinds, at : [{} -> nodes] \cup [{0} -> nodes] \cup [{0, 1} -> nodes]]
Flat == Leaves \cup Level({"array", "record"}, Leaves)
          \cup [kind : {"record"}, at : [{1} -> Leaves]]
          \cup [kind : {"adapted"}, at : [{0} -> Leaves]]
Trees == Flat \cup [kind : {"record"}, at : [{0} -> Flat]]
           \cup (IF version = 1 THEN {StandardError} ELSE Level({"error"}, Leaves))

\* The case is replayed.  A completion the codec refuses is a mismatch; a
\* standard error and a value thrown in its place differ as a whole.
Replay ==
  /\ progress = "case"
  /\ actual' \in [kind : {"return", "throw"}, node : Trees \cup {Missing}]
  /\ LET l == recorded.completion.node
         r == actual'.node
         whole == actual'.kind # recorded.completion.kind \/ r = Missing
         matches == ~whole /\ Match(l, r)[<<>>]
         path == IF whole THEN <<>>
                 ELSE IF version = 2 THEN First(l, r)[<<>>]
                 ELSE IF matches THEN None ELSE Difference(l, r)[<<>>]
     IN verdict' = [match |-> IF version = 1 THEN matches ELSE path = None, path |-> path]
  /\ progress' = "replayed"
  /\ UNCHANGED <<version, heap, completion, entry, recorded, tolerated>>

Object == [proto : {"array", "record", "class", "error"}, at : [Keys -> Slots]]
            \cup {[proto |-> "odd", at |-> [k \in Keys |-> Missing]]}
Arguments == [proto : {"array"}, at : {at \in [Keys -> Slots] : at[0] # Missing}]

ValuesInit ==
  /\ version \in {1, 2} /\ progress = "entered"
  /\ \E args \in Arguments, h \in [Objects -> Object] : 
        heap = [o \in Objects \cup {0} |-> IF o = 0 THEN args ELSE h[o]]
  /\ completion = [kind |-> "return", value |-> Missing]
  /\ entry = Missing
  /\ recorded = [arguments |-> Missing, completion |-> [kind |-> "return", node |-> Missing]]
  /\ tolerated = {} /\ actual = [kind |-> "return", node |-> Missing]
  /\ verdict = [match |-> FALSE, path |-> None]

ValuesNext == Snapshot \/ Run \/ Classify \/ MakeCase \/ Replay

ValuesSpec == ValuesInit /\ [][ValuesNext]_valuesVars

(******************************* properties *******************************)

\* What a value reads when properties are followed; an adapted object shows its
\* payload only.
Step(h, w, k) ==
  IF w.kind # "ref" \/ (h[w.to].proto = "class" /\ k = 1) THEN Missing ELSE h[w.to].at[k]
Follow(h, v, p) ==
  LET at[i \in 0..Len(p)] == IF i = 0 THEN v ELSE Step(h, at[i - 1], p[i])
  IN at[Len(p)]
Reached(h, v) == {p \in Tuples(MaxDepth + 1) : Follow(h, v, p) # Missing}
Roots == {Ref(0)} \cup (IF version = 1 THEN {completion.value} ELSE {})

\* An accepted observation says all that its objects say: no object is reached
\* in two ways, no secret is, and nothing lies deeper than the record goes; its
\* arguments read after the call as they are recorded.
AcceptedIsWhole ==
  progress = "accepted" =>
    /\ \A r1, r2 \in Roots : \A p \in Reached(heap, r1), q \in Reached(heap, r2) :
         LET v == Follow(heap, r1, p) IN
         v.kind = "ref" /\ v = Follow(heap, r2, q) => r1 = r2 /\ p = q
    /\ \A r \in {Ref(0), completion.value} : \A p \in Reached(heap, r) :
         Len(p) <= MaxDepth /\ Follow(heap, r, p) # Secret
    /\ \A p \in Tuples(MaxDepth) :
         LET v == Follow(heap, Ref(0), p)
             node == Below(recorded.arguments, p)
         IN IF v.kind = "ref" THEN Inner(node) ELSE node = v

\* A recorded case can be replayed: its arguments become live objects that
\* encode to the same tree, within the same limits.
RoundTrips ==
  progress = "accepted" =>
    LET again == EncodeRoot(Decode(recorded.arguments), Ref(<<>>)) IN
    again.code = "ok" /\ again.node = recorded.arguments

\* A replay matches exactly when both completions have the same shape and every
\* leaf is equal, or is a tolerated number within epsilon; a mismatch tells the
\* path of a difference.
LeafAlike(l, r, p) ==
  LET a == Below(l, p)
      b == Below(r, p)
  IN /\ a.kind = b.kind
     /\ a.kind = "number" => \/ a = b
                             \/ p \in tolerated /\ Absolute(a.value - b.value) <= Epsilon
VerdictIsTrue ==
  progress = "replayed" =>
    LET l == recorded.completion.node
        r == actual.node
        paths == PathsOf(l) \cup PathsOf(r)
    IN /\ verdict.match = (/\ actual.kind = recorded.completion.kind
                           /\ \A p \in paths : LeafAlike(l, r, p))
       /\ verdict.match = (verdict.path = None)
       /\ ~verdict.match /\ actual.kind = recorded.completion.kind /\ r # Missing =>
            verdict.path \in paths /\ \E p \in paths :
               IsPrefix(verdict.path, p) /\ ~LeafAlike(l, r, p)
=============================================================================
