--------------------------- MODULE DevAnalysisProofs ---------------------------
(***************************************************************************)
(* What DevAnalysis decides, for any files, names, projects and edits: a   *)
(* build that counts as current is what is on disk, a target sees no       *)
(* effect, and no mutation of an argument is hidden behind calls.          *)
(***************************************************************************)
EXTENDS DevAnalysis, FiniteSetTheorems, WellFoundedInduction, TLAPS

-----------------------------------------------------------------------------
(* Closures *)

(* Induction over the naturals, without an operator parameter.             *)
LEMMA Induction ==
  ASSUME NEW S \in SUBSET Nat, 0 \in S, \A n \in S : n + 1 \in S
  PROVE  S = Nat
<1> SUFFICES ASSUME Nat \ S # {}
             PROVE  FALSE
  OBVIOUS
<1>1. PICK n \in Nat \ S : \A m \in Nat \ S : ~ (<<m, n>> \in OpToRel(<, Nat))
  BY NatLessThanWellFounded, WFMin
<1>2. n # 0 /\ n \in Nat /\ n \notin S
  OBVIOUS
<1>3. n - 1 \in S
  <2> SUFFICES ASSUME n - 1 \in Nat \ S
               PROVE  FALSE
    BY <1>2, n - 1 \in Nat
  <2>1. <<n - 1, n>> \in OpToRel(<, Nat)
    BY <1>2 DEF OpToRel
  <2> QED
    BY <1>1, <2>1
<1>4. n = (n - 1) + 1
  BY <1>2
<1> QED
  BY <1>2, <1>3, <1>4

Beyond(next, T) == UNION {next[x] : x \in T \cap DOMAIN next}
Layer(S, next, c, n) == IF n = 0 THEN S ELSE c[n - 1] \cup Beyond(next, c[n - 1])
IsLayers(S, next, c) == c = [n \in 0 .. Cardinality(DOMAIN next) |-> Layer(S, next, c, n)]
Layers(S, next) == CHOOSE c : IsLayers(S, next, c)

(* A closure is the last of its layers. *)
LEMMA ClosureIsLast ==
  ASSUME NEW S, NEW next
  PROVE  Closure(S, next) = Layers(S, next)[Cardinality(DOMAIN next)]
BY DEF Closure, Layers, IsLayers, Layer, Beyond

(* The definition by recursion over the length of chains defines a function. *)
LEMMA LayersExist ==
  ASSUME NEW S, NEW next, Cardinality(DOMAIN next) \in Nat
  PROVE  IsLayers(S, next, Layers(S, next))
<1> DEFINE Able == {n \in Nat : \E c : c = [i \in 0 .. n |-> Layer(S, next, c, i)]}
<1>1. 0 \in Able
  <2> DEFINE h == [i \in 0 .. 0 |-> S]
  <2>1. \A i \in 0 .. 0 : Layer(S, next, h, i) = S
    BY DEF Layer
  <2>2. h = [i \in 0 .. 0 |-> Layer(S, next, h, i)]
    BY <2>1
  <2> QED
    BY <2>2
<1>2. ASSUME NEW n \in Able
      PROVE  n + 1 \in Able
  <2>1. PICK c : c = [i \in 0 .. n |-> Layer(S, next, c, i)]
    BY <1>2
  <2> DEFINE h == [i \in 0 .. n + 1 |-> IF i = n + 1 THEN Layer(S, next, c, n + 1) ELSE c[i]]
  <2>2. \A i \in 0 .. n : h[i] = c[i]
    OBVIOUS
  <2>3. h[n + 1] = Layer(S, next, c, n + 1)
    OBVIOUS
  <2>4. h = [i \in 0 .. n + 1 |-> h[i]]
    OBVIOUS
  <2> HIDE DEF h
  <2>5. ASSUME NEW i \in 0 .. n + 1
        PROVE  Layer(S, next, h, i) = Layer(S, next, c, i)
    <3>1. i # 0 => h[i - 1] = c[i - 1]
      BY <2>2
    <3> QED
      BY <3>1 DEF Layer
  <2>6. ASSUME NEW i \in 0 .. n + 1
        PROVE  h[i] = Layer(S, next, c, i)
    <3>1. CASE i = n + 1
      BY <2>3, <3>1
    <3>2. CASE i \in 0 .. n
      <4>1. c[i] = Layer(S, next, c, i)
        BY <2>1, <3>2
      <4> QED
        BY <2>2, <3>2, <4>1
    <3> QED
      BY <3>1, <3>2
  <2>7. h = [i \in 0 .. n + 1 |-> Layer(S, next, h, i)]
    BY <2>4, <2>5, <2>6
  <2> QED
    BY <2>7
<1> HIDE DEF Able
<1>3. Able = Nat
  <2>1. Able \in SUBSET Nat
    BY DEF Able
  <2> QED
    BY <1>1, <1>2, <2>1, Induction
<1>4. \E c : IsLayers(S, next, c)
  BY <1>3 DEF Able, IsLayers
<1> QED
  BY <1>4 DEF Layers

LEMMA LayersAre ==
  ASSUME NEW S, NEW next, IsFiniteSet(DOMAIN next)
  PROVE  LET longest == Cardinality(DOMAIN next)  c == Layers(S, next) IN
         /\ longest \in Nat
         /\ Closure(S, next) = c[longest]
         /\ c[0] = S
         /\ \A n \in 0 .. longest - 1 : c[n + 1] = c[n] \cup Beyond(next, c[n])
<1> DEFINE longest == Cardinality(DOMAIN next)
           c == Layers(S, next)
<1>1. longest \in Nat
  BY FS_CardinalityType
<1>2. Closure(S, next) = c[longest]
  BY ClosureIsLast
<1>3. c = [n \in 0 .. longest |-> Layer(S, next, c, n)]
  BY <1>1, LayersExist DEF IsLayers
<1> HIDE DEF c, longest
<1>4. c[0] = S
  BY <1>1, <1>3 DEF Layer
<1>5. ASSUME NEW n \in 0 .. longest - 1
      PROVE  c[n + 1] = c[n] \cup Beyond(next, c[n])
  <2>1. n + 1 \in 0 .. longest /\ n + 1 # 0 /\ (n + 1) - 1 = n
    BY <1>1
  <2>2. c[n + 1] = Layer(S, next, c, n + 1)
    BY <1>3, <2>1
  <2> QED
    BY <2>1, <2>2 DEF Layer
<1> QED
  BY <1>1, <1>2, <1>4, <1>5 DEF c, longest

(* What holds S and is closed holds the closure. *)
LEMMA ClosureWithin ==
  ASSUME NEW S, NEW next, IsFiniteSet(DOMAIN next),
         NEW T, S \subseteq T, \A x \in T \cap DOMAIN next : next[x] \subseteq T
  PROVE  Closure(S, next) \subseteq T
<1> DEFINE longest == Cardinality(DOMAIN next)
           c == Layers(S, next)
           Good == {n \in Nat : n <= longest => c[n] \subseteq T}
<1>1. /\ longest \in Nat
      /\ Closure(S, next) = c[longest]
      /\ c[0] = S
      /\ \A n \in 0 .. longest - 1 : c[n + 1] = c[n] \cup Beyond(next, c[n])
  BY LayersAre
<1> HIDE DEF c, longest
<1>2. 0 \in Good
  BY <1>1
<1>3. ASSUME NEW n \in Good
      PROVE  n + 1 \in Good
  <2> SUFFICES ASSUME n + 1 <= longest
               PROVE  c[n + 1] \subseteq T
    OBVIOUS
  <2>1. c[n] \subseteq T /\ c[n + 1] = c[n] \cup Beyond(next, c[n])
    BY <1>1
  <2>2. Beyond(next, c[n]) \subseteq T
    BY <2>1 DEF Beyond
  <2> QED
    BY <2>1, <2>2
<1> HIDE DEF Good
<1>4. longest \in Good
  <2>1. Good \in SUBSET Nat
    BY DEF Good
  <2> QED
    BY <1>1, <1>2, <1>3, <2>1, Induction
<1> QED
  BY <1>1, <1>4 DEF Good

(* A closure is closed: each step that adds something leaves one node more. *)
LEMMA ClosureCloses ==
  ASSUME NEW S, NEW next, IsFiniteSet(DOMAIN next)
  PROVE  /\ S \subseteq Closure(S, next)
         /\ \A x \in Closure(S, next) \cap DOMAIN next : next[x] \subseteq Closure(S, next)
<1> DEFINE longest == Cardinality(DOMAIN next)
           c == Layers(S, next)
           D == DOMAIN next
<1>1. /\ longest \in Nat
      /\ Closure(S, next) = c[longest]
      /\ c[0] = S
      /\ \A n \in 0 .. longest - 1 : c[n + 1] = c[n] \cup Beyond(next, c[n])
  BY LayersAre
<1>2. IsFiniteSet(D) /\ longest = Cardinality(D)
  OBVIOUS
<1> HIDE DEF c, longest, D
<1> DEFINE Closed(n) == Beyond(next, c[n]) \subseteq c[n]
           Good == {n \in Nat : n <= longest => /\ S \subseteq c[n]
                                                /\ ~ Closed(n) => Cardinality(c[n] \cap D) >= n + 1}
<1>3. \A n : c[n] \cap D = {} => Closed(n)
  BY DEF Beyond, D
<1>4. \A n : IsFiniteSet(c[n] \cap D) /\ Cardinality(c[n] \cap D) \in Nat
  <2>1. \A n : c[n] \cap D \in SUBSET D
    OBVIOUS
  <2> QED
    BY <1>2, <2>1, FS_Subset, FS_CardinalityType
<1>5. 0 \in Good
  <2>1. S \subseteq c[0]
    BY <1>1
  <2>2. ~ Closed(0) => Cardinality(c[0] \cap D) # 0
    BY <1>3, <1>4, FS_EmptySet
  <2> QED
    BY <1>4, <2>1, <2>2
<1>6. ASSUME NEW n \in Good
      PROVE  n + 1 \in Good
  <2> SUFFICES ASSUME n + 1 <= longest
               PROVE  /\ S \subseteq c[n + 1]
                      /\ ~ Closed(n + 1) => Cardinality(c[n + 1] \cap D) >= (n + 1) + 1
    OBVIOUS
  <2>1. c[n + 1] = c[n] \cup Beyond(next, c[n])
    BY <1>1
  <2>2. S \subseteq c[n] /\ (~ Closed(n) => Cardinality(c[n] \cap D) >= n + 1)
    BY <1>1
  <2>3. ASSUME ~ Closed(n + 1)
        PROVE  Cardinality(c[n + 1] \cap D) >= (n + 1) + 1
    <3>1. c[n + 1] \cap D # c[n] \cap D
      <4> SUFFICES ASSUME c[n + 1] \cap D = c[n] \cap D
                   PROVE  FALSE
        OBVIOUS
      <4>1. Beyond(next, c[n + 1]) = Beyond(next, c[n])
        BY DEF Beyond, D
      <4> QED
        BY <2>1, <2>3, <4>1
    <3>2. ~ Closed(n)
      <4> SUFFICES ASSUME Closed(n)
                   PROVE  FALSE
        OBVIOUS
      <4>1. c[n + 1] = c[n]
        BY <2>1
      <4> QED
        BY <2>3, <4>1
    <3>3. c[n] \cap D \in SUBSET (c[n + 1] \cap D)
      BY <2>1
    <3>4. Cardinality(c[n] \cap D) < Cardinality(c[n + 1] \cap D)
      <4>1. /\ Cardinality(c[n] \cap D) <= Cardinality(c[n + 1] \cap D)
            /\ Cardinality(c[n + 1] \cap D) = Cardinality(c[n] \cap D) => c[n + 1] \cap D = c[n] \cap D
        BY <1>4, <3>3, FS_Subset
      <4>2. Cardinality(c[n] \cap D) \in Nat /\ Cardinality(c[n + 1] \cap D) \in Nat
        BY <1>4
      <4> DEFINE a == Cardinality(c[n] \cap D)
                 b == Cardinality(c[n + 1] \cap D)
      <4>3. a \in Nat /\ b \in Nat /\ a <= b /\ a # b
        BY <3>1, <4>1, <4>2
      <4> HIDE DEF a, b
      <4>4. a < b
        BY <4>3
      <4> QED
        BY <4>4 DEF a, b
    <3> DEFINE a == Cardinality(c[n] \cap D)
               b == Cardinality(c[n + 1] \cap D)
    <3>5. a \in Nat /\ b \in Nat /\ a < b /\ a >= n + 1
      BY <1>4, <2>2, <3>2, <3>4
    <3> HIDE DEF a, b
    <3>6. b >= (n + 1) + 1
      BY <3>5
    <3> QED
      BY <3>6 DEF b
  <2> QED
    BY <2>1, <2>2, <2>3
<1> HIDE DEF Good
<1>7. longest \in Good
  <2>1. Good \in SUBSET Nat
    BY DEF Good
  <2> QED
    BY <1>1, <1>5, <1>6, <2>1, Induction
<1>8. S \subseteq c[longest]
  BY <1>1, <1>7 DEF Good
<1>9. Closed(longest)
  <2> SUFFICES ASSUME ~ Closed(longest)
               PROVE  FALSE
    OBVIOUS
  <2>1. Cardinality(c[longest] \cap D) >= longest + 1
    BY <1>1, <1>7 DEF Good
  <2>2. Cardinality(c[longest] \cap D) <= longest
    BY <1>2, FS_Subset, c[longest] \cap D \in SUBSET D
  <2>3. Cardinality(c[longest] \cap D) \in Nat
    BY <1>4
  <2> QED
    BY <1>1, <2>1, <2>2, <2>3
<1>10. \A x \in c[longest] \cap D : next[x] \subseteq c[longest]
  BY <1>9 DEF Beyond, D
<1> QED
  BY <1>1, <1>8, <1>10 DEF D

-----------------------------------------------------------------------------
(* What the build rests on *)

Paths == Files \cup Directories
RootFiles == {f \in Files : Directory[f] = "root" /\ disk[f] # None}

OnDisk ==
  /\ disk = [f \in Files |-> disk[f]]
  /\ \A f \in Files : WellFormed(f, disk[f])
  /\ \A e \in upcoming : e.file \in Files /\ WellFormed(e.file, e.text)
  /\ stamp \in [Paths -> Nat]

\* A stat is never newer than what it was taken of.
Stats ==
  /\ DOMAIN inputs \subseteq Paths
  /\ \A x \in DOMAIN inputs :
       IF inputs[x] = None THEN x \in Files ELSE inputs[x] \in Nat /\ inputs[x] <= stamp[x]

\* A text is that of its stat.
TextsRead ==
  \A f \in DOMAIN sources :
    /\ f \in Files /\ f \in DOMAIN inputs /\ inputs[f] # None
    /\ inputs[f] = stamp[f] => sources[f] = disk[f]
    /\ sources[f] # None /\ WellFormed(f, sources[f])

\* While its directory is as it was, what it vouches for is missing.
Vouched ==
  \A f \in DOMAIN parents :
    /\ f \in Files /\ f \in DOMAIN inputs /\ inputs[f] = None
    /\ parents[f] # None =>
         /\ parents[f] = Directory[f] /\ Directory[f] \in DOMAIN inputs
         /\ inputs[Directory[f]] = stamp[Directory[f]] => disk[f] = None

Listed ==
  /\ listing \subseteq Files
  /\ phase # "start" => "root" \in DOMAIN inputs
  /\ phase \notin {"start", "list"} /\ inputs["root"] = stamp["root"] => listing = RootFiles

HeldStat ==
  phase = "missing" =>
    /\ held.file \in Files /\ held.file \in DOMAIN inputs /\ inputs[held.file] = None
    /\ held.stat \in Nat /\ held.stat <= stamp[Directory[held.file]]
    /\ Directory[held.file] \in DOMAIN inputs => held.stat = inputs[Directory[held.file]]

Late == {"program", "modules", "declarations", "callables", "ready"}

\* What a module of the program imports was read, or was found missing.
Complete ==
  phase \in Late =>
    /\ modules \subseteq DOMAIN sources
    /\ \A m \in modules : \A i \in sources[m].imports :
         /\ i.to \in DOMAIN inputs
         /\ i.to \in DOMAIN sources \/ (inputs[i.to] = None /\ i.to \in DOMAIN parents)

Fresh == OnDisk /\ Stats /\ TextsRead /\ Vouched /\ Listed /\ HeldStat /\ Complete

LEMMA PathsAre ==
  /\ "root" \in Directories
  /\ \A f \in Files : Directory[f] \in Directories
  /\ Files \subseteq Paths /\ Directories \subseteq Paths
  /\ \A x \in Directories : x \notin Files
BY DevAnalysisAssumption DEF Directories, Paths

(* A stat taken now is what the path is now. *)
LEMMA StatIs ==
  ASSUME OnDisk, NEW x \in Paths
  PROVE  IF Stat(x) = None THEN x \in Files /\ disk[x] = None
                           ELSE Stat(x) \in Nat /\ Stat(x) = stamp[x]
BY DevAnalysisAssumption DEF OnDisk, Stat

LEMMA FreshInit == Init => Fresh
<1> SUFFICES ASSUME Init PROVE Fresh
  OBVIOUS
<1>1. PICK p \in Projects : disk = p.disk /\ upcoming = p.edits
  BY DEF Init
<1>2. OnDisk
  <2>1. /\ p.disk = [f \in Files |-> p.disk[f]]
        /\ \A f \in Files : WellFormed(f, p.disk[f])
        /\ \A e \in p.edits : e.file \in Files /\ WellFormed(e.file, e.text)
    BY DevAnalysisAssumption
  <2> QED
    BY <1>1, <2>1 DEF Init, OnDisk, Paths
<1> QED
  BY <1>2 DEF Init, Fresh, Stats, TextsRead, Vouched, Listed, HeldStat, Complete, Late

(* What is on disk stays as it was. *)
LEMMA DiskStays ==
  ASSUME OnDisk, UNCHANGED diskVars
  PROVE  OnDisk'
BY DEF OnDisk, diskVars

(* A step of the analysis changes nothing of what the build read. *)
LEMMA LaterFresh ==
  ASSUME Fresh, UNCHANGED <<diskVars, inputVars>>, phase \in Late, phase' \in Late
  PROVE  Fresh'
<1>1. OnDisk'
  BY DiskStays DEF Fresh, diskVars
<1> QED
  BY <1>1 DEF Fresh, Stats, TextsRead, Vouched, Listed, RootFiles, HeldStat, Complete, Late, diskVars, inputVars

(* Stating a path that was not stated keeps what is known. *)
LEMMA TrackFresh ==
  ASSUME Fresh, NEW x \in Paths, inputs' = Track(x), phase \notin Late, phase' \notin Late,
         phase # "missing", phase' # "missing",
         UNCHANGED <<diskVars, listing, held, parents, sources, modules>>
  PROVE  OnDisk' /\ Stats' /\ TextsRead' /\ Vouched' /\ HeldStat' /\ Complete'
<1>1. OnDisk'
  BY DiskStays DEF Fresh, diskVars
<1>2. /\ DOMAIN inputs' = DOMAIN inputs \cup {x}
      /\ \A y \in DOMAIN inputs : inputs'[y] = inputs[y]
      /\ x \notin DOMAIN inputs => inputs'[x] = Stat(x)
  BY DEF Track, Tracked
<1>3. IF Stat(x) = None THEN x \in Files /\ disk[x] = None
                        ELSE Stat(x) \in Nat /\ Stat(x) = stamp[x]
  BY StatIs DEF Fresh
<1>4. Stats'
  <2> SUFFICES ASSUME NEW y \in DOMAIN inputs'
               PROVE  /\ y \in Paths
                      /\ IF inputs'[y] = None THEN y \in Files ELSE inputs'[y] \in Nat /\ inputs'[y] <= stamp[y]
    BY DEF Stats, diskVars
  <2>1. CASE y \in DOMAIN inputs
    BY <1>2, <2>1 DEF Fresh, Stats
  <2>2. CASE y \notin DOMAIN inputs
    BY <1>2, <1>3, <2>2
  <2> QED
    BY <2>1, <2>2
<1>5. TextsRead'
  BY <1>2 DEF Fresh, TextsRead, diskVars
<1>6. Vouched'
  BY <1>2 DEF Fresh, Vouched, diskVars
<1> QED
  BY <1>1, <1>4, <1>5, <1>6 DEF HeldStat, Complete

LEMMA TrackRootFresh == Fresh /\ TrackRoot => Fresh'
<1> SUFFICES ASSUME Fresh, TrackRoot PROVE Fresh'
  OBVIOUS
<1>1. "root" \in Paths
  BY PathsAre
<1>2. OnDisk' /\ Stats' /\ TextsRead' /\ Vouched' /\ HeldStat' /\ Complete'
  BY <1>1, TrackFresh DEF TrackRoot, Late
<1>3. Listed'
  BY DEF Fresh, Listed, TrackRoot, Track, RootFiles, diskVars
<1> QED
  BY <1>2, <1>3 DEF Fresh

LEMMA ListFresh == Fresh /\ List => Fresh'
<1> SUFFICES ASSUME Fresh, List PROVE Fresh'
  OBVIOUS
<1>1. OnDisk'
  BY DiskStays DEF Fresh, List
<1>2. Listed'
  BY DEF Fresh, Listed, List, RootFiles, diskVars
<1> QED
  BY <1>1, <1>2 DEF Fresh, Stats, TextsRead, Vouched, HeldStat, Complete, Late, List, diskVars

(* What the build follows was read. *)
LEMMA FollowedRead ==
  ASSUME Fresh
  PROVE  Followed \subseteq DOMAIN sources
<1> DEFINE next == [m \in Known |-> ImportsOf(m) \cap Known]
<1>1. IsFiniteSet(DOMAIN next)
  <2>1. Known \in SUBSET Files
    BY DEF Fresh, TextsRead, Known
  <2>2. IsFiniteSet(Known)
    BY <2>1, DevAnalysisAssumption, FS_Subset
  <2> QED
    BY <2>2
<1>2. \A m \in Known \cap DOMAIN next : next[m] \subseteq Known
  OBVIOUS
<1>3. Selected \cap Known \subseteq Known
  OBVIOUS
<1> HIDE DEF next
<1>4. Closure(Selected \cap Known, next) \subseteq Known
  BY <1>1, <1>2, <1>3, ClosureWithin
<1> QED
  BY <1>4 DEF Followed, Known, next

LEMMA WantedAreFiles ==
  ASSUME Fresh
  PROVE  Wanted \subseteq Files
<1>1. CASE phase = "walk"
  BY <1>1 DEF Wanted, Fresh, Listed
<1>2. CASE phase # "walk"
  <2> SUFFICES ASSUME NEW m \in Followed, NEW i \in sources[m].imports
               PROVE  i.to \in Files
    BY <1>2 DEF Wanted, ImportsOf
  <2>1. sources[m] # None /\ WellFormed(m, sources[m])
    BY FollowedRead DEF Fresh, TextsRead
  <2>2. i \in [to : Files, bare : BOOLEAN]
    BY <2>1 DEF WellFormed
  <2> QED
    BY <2>2
<1> QED
  BY <1>1, <1>2

LEMMA ItemIs ==
  ASSUME Fresh, Reading
  PROVE  /\ Item \in Files
         /\ Item \in Unread \/ Item \in Absent \/ Item \in Untracked
<1>1. Item \in Unread \cup Absent \/ Item \in Untracked
  BY DEF Item, Reading
<1> QED
  BY <1>1, WantedAreFiles DEF Unread, Absent, Untracked

LEMMA StatItemFresh == Fresh /\ StatItem => Fresh'
<1> SUFFICES ASSUME Fresh, StatItem PROVE Fresh'
  OBVIOUS
<1>1. Item \in Paths /\ phase \in {"walk", "follow"} /\ inputs' = Track(Item)
  BY ItemIs, PathsAre DEF StatItem, Reading
<1> DEFINE x == Item
<1>2. x \in Paths /\ inputs' = Track(x)
  BY <1>1
<1> HIDE DEF x
<1>3. OnDisk' /\ Stats' /\ TextsRead' /\ Vouched' /\ HeldStat' /\ Complete'
  BY <1>1, <1>2, TrackFresh DEF StatItem, Late
<1>4. Listed'
  BY <1>1, <1>2 DEF Fresh, Listed, StatItem, Track, Tracked, RootFiles, diskVars
<1> QED
  BY <1>3, <1>4 DEF Fresh

LEMMA ReadFresh == Fresh /\ Read => Fresh'
<1> SUFFICES ASSUME Fresh, Read PROVE Fresh'
  OBVIOUS
<1>1. OnDisk' /\ phase' \notin Late /\ phase' # "missing" /\ phase \in {"walk", "follow"}
      /\ phase' \notin {"start", "list"}
  BY DiskStays DEF Fresh, Read, Reading, Late
<1>2. TextsRead'
  <2>1. CASE UNCHANGED sources
    BY <2>1 DEF Fresh, TextsRead, Read, diskVars
  <2>2. CASE /\ Item \in Unread /\ disk[Item] # None
             /\ sources' = [f \in Known \cup {Item} |-> IF f = Item THEN disk[f] ELSE sources[f]]
    <3> DEFINE x == Item
    <3>1. x \in Files /\ x \in DOMAIN inputs /\ inputs[x] # None /\ disk[x] # None
      BY <2>2, ItemIs DEF Read, Unread, IsFile, Tracked
    <3>2. sources' = [f \in Known \cup {x} |-> IF f = x THEN disk[f] ELSE sources[f]]
      BY <2>2
    <3>3. WellFormed(x, disk[x])
      BY <3>1 DEF Fresh, OnDisk
    <3> HIDE DEF x
    <3> SUFFICES ASSUME NEW f \in DOMAIN sources'
                 PROVE  /\ f \in Files /\ f \in DOMAIN inputs /\ inputs[f] # None
                        /\ inputs[f] = stamp[f] => sources'[f] = disk[f]
                        /\ sources'[f] # None /\ WellFormed(f, sources'[f])
      BY DEF TextsRead, Read, diskVars
    <3>4. CASE f = x
      BY <3>1, <3>2, <3>3, <3>4
    <3>5. CASE f # x
      BY <3>2, <3>5 DEF Fresh, TextsRead, Known
    <3> QED
      BY <3>4, <3>5
  <2> QED
    BY <2>1, <2>2 DEF Read
<1>3. Stats' /\ Vouched'
  BY DEF Fresh, Stats, Vouched, Read, diskVars
<1>4. Listed'
  BY <1>1 DEF Fresh, Listed, RootFiles, Read, diskVars
<1> QED
  BY <1>1, <1>2, <1>3, <1>4 DEF Fresh, HeldStat, Complete

LEMMA StatParentFresh == Fresh /\ StatParent => Fresh'
<1> SUFFICES ASSUME Fresh, StatParent PROVE Fresh'
  OBVIOUS
<1> DEFINE x == Item
           dir == Directory[x]
<1>1. OnDisk'
  BY DiskStays DEF Fresh, StatParent
<1>2. x \in Files /\ x \in DOMAIN inputs /\ inputs[x] = None
  BY ItemIs DEF StatParent, Absent, Tracked
<1>3. held' = [file |-> x, stat |-> Track(dir)[dir]]
  BY DEF StatParent
<1>4. dir \in Paths /\ dir \notin Files
  BY <1>2, PathsAre
<1> HIDE DEF x
<1>5. Track(dir)[dir] = IF dir \in DOMAIN inputs THEN inputs[dir] ELSE Stat(dir)
  BY DEF Track, Tracked
<1>6. Stat(dir) \in Nat /\ Stat(dir) = stamp[dir]
  BY <1>4, StatIs DEF Fresh
<1>7. dir \in DOMAIN inputs => inputs[dir] \in Nat /\ inputs[dir] <= stamp[dir]
  BY <1>4 DEF Fresh, Stats
<1>8. stamp[dir] \in Nat
  BY <1>4 DEF Fresh, OnDisk
<1>9. HeldStat'
  <2>1. held'.file = x /\ held'.stat = Track(dir)[dir]
    BY <1>3
  <2> QED
    BY <1>2, <1>5, <1>6, <1>7, <1>8, <2>1 DEF HeldStat, StatParent, diskVars
<1> QED
  BY <1>1, <1>9 DEF Fresh, Stats, TextsRead, Vouched, Listed, RootFiles, Complete, Late, StatParent, diskVars

LEMMA MissingFresh == Fresh /\ Missing => Fresh'
<1> SUFFICES ASSUME Fresh, Missing PROVE Fresh'
  OBVIOUS
<1> DEFINE x == held.file
           dir == Directory[x]
<1>1. OnDisk'
  BY DiskStays DEF Fresh, Missing
<1>2. /\ x \in Files /\ x \in DOMAIN inputs /\ inputs[x] = None
      /\ held.stat \in Nat /\ held.stat <= stamp[dir]
      /\ dir \in DOMAIN inputs => held.stat = inputs[dir]
  BY DEF Fresh, HeldStat, Missing
<1>3. /\ parents' = [y \in DOMAIN parents \cup {x} |->
                       IF y # x THEN parents[y] ELSE IF StillMissing(x) THEN dir ELSE None]
      /\ inputs' = IF ~StillMissing(x) THEN inputs
                   ELSE [y \in DOMAIN inputs \cup {dir} |-> IF y = dir THEN held.stat ELSE inputs[y]]
  BY DEF Missing
<1>4. dir \in Paths /\ dir \notin Files /\ held.stat # None
  BY <1>2, PathsAre, DevAnalysisAssumption
<1> DEFINE s == held.stat
<1> HIDE DEF x, s
<1>5. /\ DOMAIN inputs \subseteq DOMAIN inputs'
      /\ \A y \in DOMAIN inputs : inputs'[y] = inputs[y]
      /\ StillMissing(x) => DOMAIN inputs' = DOMAIN inputs \cup {dir} /\ inputs'[dir] = s
      /\ ~StillMissing(x) => inputs' = inputs
  BY <1>2, <1>3 DEF s
<1>6. s \in Nat /\ s # None /\ s <= stamp[dir]
  BY <1>2, <1>4 DEF s
<1>7. Stats'
  <2> SUFFICES ASSUME NEW y \in DOMAIN inputs'
               PROVE  /\ y \in Paths
                      /\ IF inputs'[y] = None THEN y \in Files ELSE inputs'[y] \in Nat /\ inputs'[y] <= stamp[y]
    BY DEF Stats, Missing, diskVars
  <2>1. CASE y \in DOMAIN inputs
    BY <1>5, <2>1 DEF Fresh, Stats
  <2>2. CASE y \notin DOMAIN inputs
    BY <1>4, <1>5, <1>6, <2>2
  <2> QED
    BY <2>1, <2>2
<1>8. TextsRead'
  BY <1>5 DEF Fresh, TextsRead, Missing, diskVars
<1>9. Vouched'
  <2> SUFFICES ASSUME NEW f \in DOMAIN parents'
               PROVE  /\ f \in Files /\ f \in DOMAIN inputs' /\ inputs'[f] = None
                      /\ parents'[f] # None =>
                           /\ parents'[f] = Directory[f] /\ Directory[f] \in DOMAIN inputs'
                           /\ inputs'[Directory[f]] = stamp[Directory[f]] => disk[f] = None
    BY DEF Vouched, Missing, diskVars
  <2>1. CASE f = x
    BY <1>2, <1>3, <1>5, <2>1 DEF StillMissing
  <2>2. CASE f # x
    <3>1. f \in DOMAIN parents /\ parents'[f] = parents[f]
      BY <1>3, <2>2
    <3> QED
      BY <1>5, <3>1 DEF Fresh, Vouched
  <2> QED
    BY <2>1, <2>2
<1>10. Listed'
  BY <1>5 DEF Fresh, Listed, RootFiles, Missing, diskVars
<1> QED
  BY <1>1, <1>7, <1>8, <1>9, <1>10 DEF Fresh, HeldStat, Complete, Late, Missing

LEMMA WalkedFresh == Fresh /\ Walked => Fresh'
<1> SUFFICES ASSUME Fresh, Walked PROVE Fresh'
  OBVIOUS
<1>1. OnDisk'
  BY DiskStays DEF Fresh, Walked
<1> QED
  BY <1>1 DEF Fresh, Stats, TextsRead, Vouched, Listed, RootFiles, HeldStat, Complete, Late, Walked, diskVars, inputVars

LEMMA ProgramFresh == Fresh /\ Program => Fresh'
<1> SUFFICES ASSUME Fresh, Program PROVE Fresh'
  OBVIOUS
<1>1. OnDisk'
  BY DiskStays DEF Fresh, Program
<1>2. Complete'
  <2>1. modules' = Followed /\ modules' \subseteq DOMAIN sources /\ UNCHANGED <<inputs, parents, sources>>
    BY FollowedRead DEF Program
  <2> SUFFICES ASSUME NEW m \in Followed, NEW i \in sources[m].imports
               PROVE  /\ i.to \in DOMAIN inputs
                      /\ i.to \in DOMAIN sources \/ (inputs[i.to] = None /\ i.to \in DOMAIN parents)
    BY <2>1 DEF Complete
  <2>2. i.to \in Wanted
    BY DEF Wanted, ImportsOf, Program
  <2>3. Unread = {} /\ Absent = {} /\ Untracked = {}
    BY DEF Program, Reading
  <2>4. i.to \in DOMAIN inputs
    BY <2>2, <2>3 DEF Untracked, Tracked
  <2>5. inputs[i.to] # None => i.to \in DOMAIN sources
    BY <2>2, <2>3, <2>4 DEF Unread, IsFile, Tracked, Known
  <2>6. inputs[i.to] = None => i.to \in DOMAIN parents
    BY <2>2, <2>3, <2>4 DEF Absent, Tracked
  <2> QED
    BY <2>4, <2>5, <2>6
<1> QED
  BY <1>1, <1>2 DEF Fresh, Stats, TextsRead, Vouched, Listed, RootFiles, HeldStat, Program, diskVars

(* An edit makes the stats of what it changes old: those of the file, and those of
   its directory when it comes or goes.                                        *)
LEMMA EditFresh == Fresh /\ Edit => Fresh'
<1> SUFFICES ASSUME Fresh, Edit PROVE Fresh'
  OBVIOUS
<1>1. PICK e \in upcoming :
        /\ disk[e.file] # e.text
        /\ disk' = [disk EXCEPT ![e.file] = e.text] /\ upcoming' = upcoming \ {e}
        /\ stamp' = [x \in DOMAIN stamp |->
             IF x = e.file \/ (x = Directory[e.file] /\ (disk[e.file] = None \/ e.text = None))
             THEN stamp[x] + 1 ELSE stamp[x]]
  BY DEF Edit
<1> DEFINE g == e.file
           t == e.text
<1>2. /\ g \in Files /\ WellFormed(g, t) /\ disk[g] # t
      /\ disk' = [disk EXCEPT ![g] = t] /\ upcoming' \subseteq upcoming
      /\ disk = [f \in Files |-> disk[f]] /\ stamp \in [Paths -> Nat]
      /\ \A f \in Files : WellFormed(f, disk[f])
      /\ \A d \in upcoming : d.file \in Files /\ WellFormed(d.file, d.text)
  BY <1>1 DEF Fresh, OnDisk
<1>3. stamp' = [x \in Paths |-> IF x = g \/ (x = Directory[g] /\ (disk[g] = None \/ t = None))
                                THEN stamp[x] + 1 ELSE stamp[x]]
  BY <1>1, <1>2
<1> HIDE DEF g, t
<1>4. disk'[g] = t /\ \A f \in Files : f # g => disk'[f] = disk[f]
  BY <1>2
<1>5. \A x \in Paths : stamp[x] \in Nat /\ stamp'[x] \in Nat /\ stamp[x] <= stamp'[x]
  BY <1>2, <1>3
<1>6. \A x \in Paths : \A n \in Nat : n <= stamp[x] /\ n = stamp'[x] => n = stamp[x] /\ x # g
  BY <1>2, <1>3, PathsAre
<1>7. \A x \in Paths : \A n \in Nat :
        n <= stamp[x] /\ n = stamp'[x] /\ x = Directory[g] => disk[g] # None /\ t # None
  BY <1>2, <1>3, PathsAre
<1>8. UNCHANGED <<phase, listing, inputs, held, parents, sources, modules>>
  BY DEF Edit, inputVars
<1>9. OnDisk'
  <2>1. disk' = [f \in Files |-> disk'[f]]
    BY <1>2
  <2>2. \A f \in Files : WellFormed(f, disk'[f])
    BY <1>2, <1>4
  <2>3. stamp' \in [Paths -> Nat]
    BY <1>3, <1>5
  <2> QED
    BY <1>2, <2>1, <2>2, <2>3 DEF OnDisk
<1>10. Stats'
  <2> SUFFICES ASSUME NEW x \in DOMAIN inputs, inputs[x] # None
               PROVE  inputs[x] \in Nat /\ inputs[x] <= stamp'[x]
    BY <1>8 DEF Fresh, Stats
  <2>1. x \in Paths /\ inputs[x] \in Nat /\ inputs[x] <= stamp[x]
    BY DEF Fresh, Stats
  <2>2. stamp[x] \in Nat /\ stamp'[x] \in Nat /\ stamp[x] <= stamp'[x]
    BY <1>5, <2>1
  <2> QED
    BY <2>1, <2>2
<1>11. TextsRead'
  <2> SUFFICES ASSUME NEW f \in DOMAIN sources, inputs[f] = stamp'[f]
               PROVE  sources[f] = disk'[f]
    BY <1>8 DEF Fresh, TextsRead
  <2>1. f \in Files /\ f \in Paths /\ inputs[f] \in Nat /\ inputs[f] <= stamp[f]
    BY PathsAre DEF Fresh, TextsRead, Stats
  <2>2. inputs[f] = stamp[f] /\ f # g
    BY <1>6, <2>1
  <2> QED
    BY <1>4, <2>1, <2>2 DEF Fresh, TextsRead
<1>12. Vouched'
  <2> SUFFICES ASSUME NEW f \in DOMAIN parents, parents[f] # None,
                      inputs[Directory[f]] = stamp'[Directory[f]]
               PROVE  disk'[f] = None
    BY <1>8 DEF Fresh, Vouched
  <2> DEFINE dir == Directory[f]
  <2>1. f \in Files /\ dir \in DOMAIN inputs /\ (inputs[dir] = stamp[dir] => disk[f] = None)
    BY DEF Fresh, Vouched
  <2>2. dir \in Paths /\ dir \notin Files
    BY <2>1, PathsAre
  <2>3. inputs[dir] \in Nat /\ inputs[dir] <= stamp[dir]
    BY <2>1, <2>2 DEF Fresh, Stats
  <2>4. inputs[dir] = stamp[dir]
    BY <1>6, <2>2, <2>3
  <2>5. f # g
    BY <1>7, <2>1, <2>2, <2>3, <2>4
  <2> QED
    BY <1>4, <2>1, <2>4, <2>5
<1>13. Listed'
  <2>1. listing' \subseteq Files /\ (phase' # "start" => "root" \in DOMAIN inputs')
    BY <1>8 DEF Fresh, Listed
  <2>2. ASSUME phase \notin {"start", "list"}, inputs["root"] = stamp'["root"]
        PROVE  listing = {f \in Files : Directory[f] = "root" /\ disk'[f] # None}
    <3>1. "root" \in DOMAIN inputs /\ "root" \in Paths /\ "root" \notin Files
      BY <2>2, PathsAre DEF Fresh, Listed
    <3>2. inputs["root"] \in Nat /\ inputs["root"] <= stamp["root"]
      BY <3>1 DEF Fresh, Stats
    <3>3. inputs["root"] = stamp["root"]
      BY <1>6, <2>2, <3>1, <3>2
    <3>4. listing = RootFiles
      BY <2>2, <3>3 DEF Fresh, Listed
    <3>5. Directory[g] = "root" => disk[g] # None /\ t # None
      BY <1>7, <2>2, <3>1, <3>2, <3>3
    <3>6. \A f \in Files : Directory[f] = "root" => (disk[f] # None <=> disk'[f] # None)
      BY <1>2, <1>4, <3>5
    <3> QED
      BY <3>4, <3>6 DEF RootFiles
  <2> QED
    BY <1>8, <2>1, <2>2 DEF Listed, RootFiles
<1>14. HeldStat'
  <2> SUFFICES ASSUME phase = "missing"
               PROVE  held.stat <= stamp'[Directory[held.file]]
    BY <1>8 DEF Fresh, HeldStat
  <2>1. held.file \in Files /\ held.stat \in Nat /\ held.stat <= stamp[Directory[held.file]]
    BY DEF Fresh, HeldStat
  <2>2. Directory[held.file] \in Paths
    BY <2>1, PathsAre
  <2> DEFINE a == stamp[Directory[held.file]]
             b == stamp'[Directory[held.file]]
  <2>3. a \in Nat /\ b \in Nat /\ a <= b
    BY <1>5, <2>2
  <2> HIDE DEF a, b
  <2>4. held.stat <= b
    BY <2>1, <2>3 DEF a
  <2> QED
    BY <2>4 DEF b
<1>15. Complete'
  BY <1>8 DEF Fresh, Complete
<1> QED
  BY <1>9, <1>10, <1>11, <1>12, <1>13, <1>14, <1>15 DEF Fresh

LEMMA FreshStep == Fresh /\ [Next]_vars => Fresh'
<1> SUFFICES ASSUME Fresh, [Next]_vars PROVE Fresh'
  OBVIOUS
<1>1. CASE TrackRoot
  BY <1>1, TrackRootFresh
<1>2. CASE List
  BY <1>2, ListFresh
<1>3. CASE StatItem
  BY <1>3, StatItemFresh
<1>4. CASE Read
  BY <1>4, ReadFresh
<1>5. CASE StatParent
  BY <1>5, StatParentFresh
<1>6. CASE Missing
  BY <1>6, MissingFresh
<1>7. CASE Walked
  BY <1>7, WalkedFresh
<1>8. CASE Program
  BY <1>8, ProgramFresh
<1>9. CASE Initialize \/ InheritModule \/ InheritDeclaration \/ InheritCallable
  <2>1. phase \in Late /\ phase' \in Late /\ UNCHANGED <<diskVars, inputVars>>
    BY <1>9 DEF Initialize, InheritModule, InheritDeclaration, InheritCallable, Late
  <2> QED
    BY <2>1, LaterFresh
<1>10. CASE Edit
  BY <1>10, EditFresh
<1>11. CASE UNCHANGED vars
  <2>1. OnDisk'
    BY <1>11, DiskStays DEF Fresh, vars
  <2> QED
    BY <1>11, <2>1 DEF Fresh, Stats, TextsRead, Vouched, Listed, RootFiles, HeldStat, Complete, vars, diskVars, inputVars
<1> QED
  BY <1>1, <1>2, <1>3, <1>4, <1>5, <1>6, <1>7, <1>8, <1>9, <1>10, <1>11 DEF Next, Build

(* What a build rests on holds of every state, through every edit made meanwhile. *)
THEOREM FreshInductive == Spec => []Fresh
<1>1. Init => Fresh
  BY FreshInit
<1>2. Fresh /\ [Next]_vars => Fresh'
  BY FreshStep
<1> QED
  BY <1>1, <1>2, PTL DEF Spec

LEMMA FreshIsCurrent == Fresh => CurrentIsFresh
<1> SUFFICES ASSUME Fresh, phase = "ready", IsCurrent
             PROVE  /\ listing = RootFiles
                    /\ \A f \in DOMAIN sources : sources[f] = disk[f]
                    /\ \A m \in modules : \A i \in sources[m].imports : disk[i.to] # None => i.to \in DOMAIN sources
  BY DEF CurrentIsFresh, RootFiles, Known, ImportsOf
<1>1. \A x \in DOMAIN inputs : (x \in DOMAIN parents /\ parents[x] # None) \/ inputs[x] = Stat(x)
  BY DEF IsCurrent
<1>2. \A x \in Directories : x \in DOMAIN inputs => inputs[x] = stamp[x]
  BY <1>1, PathsAre DEF Stat, Fresh, Vouched
<1>3. listing = RootFiles
  BY <1>2, PathsAre DEF Fresh, Listed
<1>4. ASSUME NEW f \in DOMAIN sources
      PROVE  sources[f] = disk[f]
  <2>1. f \in DOMAIN inputs /\ inputs[f] # None
    BY DEF Fresh, TextsRead
  <2>2. f \notin DOMAIN parents
    BY <2>1 DEF Fresh, Vouched
  <2>3. inputs[f] = stamp[f]
    BY <1>1, <2>1, <2>2 DEF Stat
  <2> QED
    BY <2>3 DEF Fresh, TextsRead
<1>5. ASSUME NEW m \in modules, NEW i \in sources[m].imports, i.to \notin DOMAIN sources
      PROVE  disk[i.to] = None
  <2> DEFINE f == i.to
  <2>1. f \in DOMAIN inputs /\ inputs[f] = None /\ f \in DOMAIN parents
    BY <1>5 DEF Fresh, Complete, Late
  <2> HIDE DEF f
  <2>2. f \in Files
    BY <2>1 DEF Fresh, Vouched
  <2>3. CASE parents[f] # None
    <3>1. Directory[f] \in DOMAIN inputs /\ (inputs[Directory[f]] = stamp[Directory[f]] => disk[f] = None)
      BY <2>1, <2>3 DEF Fresh, Vouched
    <3> QED
      BY <1>2, <2>2, <3>1, PathsAre DEF f
  <2>4. CASE parents[f] = None
    <3>1. Stat(f) = None
      BY <1>1, <2>1, <2>4
    <3>2. f \in Paths
      BY <2>2, PathsAre
    <3> QED
      BY <3>1, <3>2, StatIs DEF Fresh, f
  <2> QED
    BY <2>3, <2>4
<1> QED
  BY <1>3, <1>4, <1>5

(* A build is reused only while it is what a new one would read: isCurrent tells
   every edit, creation and deletion, those made while the build was reading
   included, by stats taken before what they vouch for (dev-project-cache.ts). *)
THEOREM Current == Spec => []CurrentIsFresh
BY FreshInductive, FreshIsCurrent, PTL

-----------------------------------------------------------------------------
(* The program and its nodes *)

\* What the analysis rests on: the texts of the program's modules are well formed.
Texts ==
  /\ modules \subseteq Files
  /\ \A m \in modules : sources[m] # None /\ WellFormed(m, sources[m])

LEMMA TextsAre ==
  ASSUME Fresh, phase \in Late
  PROVE  Texts
BY DEF Fresh, Complete, TextsRead, Texts

Pairs(k, A) == {<<k, a>> : a \in A}
Triples(k, A, B) == {<<k, a, b>> : a \in A, b \in B}

LEMMA FinitePairs ==
  ASSUME NEW k, NEW A, IsFiniteSet(A)
  PROVE  IsFiniteSet(Pairs(k, A))
<1> DEFINE F == [a \in A |-> <<k, a>>]
<1>1. F \in Surjection(A, Pairs(k, A))
  BY DEF Surjection, Pairs
<1> HIDE DEF F
<1> QED
  BY <1>1, FS_Surjection

LEMMA FiniteTriples ==
  ASSUME NEW k, NEW A, IsFiniteSet(A), NEW B, IsFiniteSet(B)
  PROVE  IsFiniteSet(Triples(k, A, B))
<1> DEFINE F == [p \in A \X B |-> <<k, p[1], p[2]>>]
<1>1. IsFiniteSet(A \X B)
  BY FS_Product
<1>2. ASSUME NEW a \in A, NEW b \in B
      PROVE  <<a, b>> \in A \X B /\ F[<<a, b>>] = <<k, a, b>>
  OBVIOUS
<1>3. ASSUME NEW p \in A \X B
      PROVE  F[p] \in Triples(k, A, B)
  BY DEF Triples
<1>4. F \in [A \X B -> Triples(k, A, B)]
  BY <1>3
<1> HIDE DEF F
<1>5. ASSUME NEW t \in Triples(k, A, B)
      PROVE  \E p \in A \X B : F[p] = t
  <2>1. PICK a \in A, b \in B : t = <<k, a, b>>
    BY DEF Triples
  <2> QED
    BY <1>2, <2>1
<1>6. F \in Surjection(A \X B, Triples(k, A, B))
  BY <1>4, <1>5 DEF Surjection
<1> QED
  BY <1>1, <1>6, FS_Surjection

LEMMA FunctionsAre ==
  ASSUME NEW f \in Functions
  PROVE  f[1] = "function" /\ f[2] \in modules /\ f[3] \in Names
BY DEF Functions

LEMMA FunctionsFinite ==
  ASSUME Texts
  PROVE  IsFiniteSet(modules) /\ IsFiniteSet(Functions)
<1>1. IsFiniteSet(modules)
  BY DevAnalysisAssumption, FS_Subset DEF Texts
<1>2. IsFiniteSet(Functions)
  <2>1. Functions = Triples("function", modules, Names)
    BY DEF Functions, Triples
  <2> QED
    BY <1>1, <2>1, DevAnalysisAssumption, FiniteTriples
<1> QED
  BY <1>1, <1>2

LEMMA CalledIs ==
  ASSUME Texts
  PROVE  /\ IsFiniteSet(DOMAIN Called) /\ DOMAIN Called = DevFunctions
         /\ \A f \in DevFunctions : Called[f] = {CallTarget(c) : c \in Calls(f)} /\ Called[f] \subseteq DevFunctions
<1>1. DOMAIN Called = DevFunctions
  BY DEF Called
<1>2. IsFiniteSet(DevFunctions)
  <2>1. DevFunctions \in SUBSET Functions
    BY DEF DevFunctions
  <2> QED
    BY <2>1, FunctionsFinite, FS_Subset
<1>3. ASSUME NEW f \in DevFunctions
      PROVE  Called[f] = {CallTarget(c) : c \in Calls(f)} /\ Called[f] \subseteq DevFunctions
  BY DEF Called, Calls
<1> QED
  BY <1>1, <1>2, <1>3

LEMMA CallablesAre ==
  ASSUME Texts
  PROVE  /\ Instrumented \subseteq Callables /\ Callables \subseteq DevFunctions
         /\ \A f \in Callables : \A c \in Calls(f) : CallTarget(c) \in Callables
         /\ \A f \in Callables : Called[f] = {CallTarget(c) : c \in Calls(f)}
<1>1. /\ IsFiniteSet(DOMAIN Called) /\ DOMAIN Called = DevFunctions
      /\ \A f \in DevFunctions : Called[f] = {CallTarget(c) : c \in Calls(f)} /\ Called[f] \subseteq DevFunctions
  BY CalledIs
<1>2. Instrumented \subseteq DevFunctions
  BY DEF Instrumented
<1>3. Callables \subseteq DevFunctions
  BY <1>1, <1>2, ClosureWithin DEF Callables
<1>4. /\ Instrumented \subseteq Callables
      /\ \A f \in Callables \cap DOMAIN Called : Called[f] \subseteq Callables
  BY <1>1, ClosureCloses DEF Callables
<1> QED
  BY <1>1, <1>3, <1>4

LEMMA CallableIs ==
  ASSUME Texts, NEW f \in Callables
  PROVE  /\ f[1] = "function" /\ f[2] \in modules /\ f[3] \in Names
         /\ f \in Nodes /\ <<"global", f[2]>> \in Nodes /\ <<"module", f[2]>> \in Nodes
         /\ Declared(f[2], f[3]) /\ BodyOf(f) # None /\ BodyOf(f).kind = "function"
         /\ BodyOf(f).parameters \in Nat
<1>1. f \in DevFunctions
  BY CallablesAre
<1>2. f[1] = "function" /\ f[2] \in modules /\ f[3] \in Names /\ IsFunction(f[2], f[3])
  BY <1>1, FunctionsAre DEF DevFunctions
<1>3. Declared(f[2], f[3]) /\ BodyOf(f) # None /\ BodyOf(f).kind = "function"
  BY <1>2 DEF IsFunction, Declared, BodyOf
<1>4. BodyOf(f).parameters \in Nat
  BY <1>2, <1>3 DEF Texts, WellFormed, BodyOf
<1>5. f \in Nodes
  BY DEF Nodes
<1>6. <<"global", f[2]>> \in Nodes /\ <<"module", f[2]>> \in Nodes
  BY <1>2 DEF Nodes
<1> QED
  BY <1>2, <1>3, <1>4, <1>5, <1>6

(* What a name of a text refers to is a node, or the namespace of a module. *)
LEMMA TargetIs ==
  ASSUME Texts, NEW m \in modules, NEW n \in Names, Declared(m, n),
         NEW r \in Named(sources[m].scope[n]), NEW t \in Target(m, r)
  PROVE  /\ t[1] = "import" => t \in Nodes
         /\ t[1] = "namespace" => t = <<"namespace", t[2]>>
         /\ t[1] = "binding" => t \in Nodes
         /\ t[1] \in {"import", "namespace", "binding"}
         /\ t[2] \in modules
         /\ t[2] = m \/ \E i \in Dependencies(m) : i.to = t[2]
<1>1. /\ r.name \in Names \cup {"*"}
      /\ r.to = m \/ [to |-> r.to, bare |-> FALSE] \in sources[m].imports
  BY DEF Texts, WellFormed, Declared
<1>2. CASE r.to # m /\ r.to \notin modules
  <2>1. t = <<"import", m, r.to>>
    BY <1>2 DEF Target
  <2> DEFINE i == [to |-> r.to, bare |-> FALSE]
  <2>2. i \in Missed(m) /\ ~i.bare /\ i.to = r.to
    BY <1>1, <1>2 DEF Missed
  <2> HIDE DEF i
  <2>3. <<"import", m, r.to>> \in ImportProblems(m)
    BY <2>2 DEF ImportProblems
  <2>4. t \in Nodes
    BY <2>1, <2>3 DEF Nodes
  <2> QED
    BY <2>1, <2>4
<1>3. CASE r.to = m \/ r.to \in modules
  <2>1. t = <<"namespace", r.to>> \/ (t = <<"binding", r.to, r.name>> /\ r.name # "*")
    BY <1>3 DEF Target
  <2>2. r.to \in modules
    BY <1>3
  <2>3. r.to = m \/ \E i \in Dependencies(m) : i.to = r.to
    <3> SUFFICES ASSUME r.to # m
                 PROVE  \E i \in Dependencies(m) : i.to = r.to
      OBVIOUS
    <3> DEFINE i == [to |-> r.to, bare |-> FALSE]
    <3>1. i \in sources[m].imports /\ i.to = r.to
      BY <1>1
    <3> HIDE DEF i
    <3> QED
      BY <2>2, <3>1 DEF Dependencies
  <2>4. CASE t = <<"namespace", r.to>>
    BY <2>2, <2>3, <2>4
  <2>5. CASE t = <<"binding", r.to, r.name>> /\ r.name # "*"
    <3>1. t \in Nodes
      BY <1>1, <2>2, <2>5 DEF Nodes
    <3> QED
      BY <2>2, <2>3, <2>5, <3>1
  <2> QED
    BY <2>1, <2>4, <2>5
<1> QED
  BY <1>2, <1>3

LEMMA NodeIs ==
  ASSUME Texts, NEW x \in Nodes
  PROVE  /\ x[1] \in {"global", "module", "binding", "import", "function"}
         /\ x[2] \in modules
         /\ x[1] = "function" => x \in Callables
         /\ x[1] = "binding" => \E n \in Names : x = <<"binding", x[2], n>>
<1>1. CASE x \in {<<y, m>> : y \in {"global", "module"}, m \in modules}
  BY <1>1
<1>2. CASE x \in {<<"binding", m, n>> : m \in modules, n \in Names}
  BY <1>2
<1>3. CASE x \in UNION {ImportProblems(m) : m \in modules}
  <2>1. PICK m \in modules : \E i \in Missed(m) : x = <<"import", m, i.to>>
    BY <1>3 DEF ImportProblems
  <2>2. x[1] = "import" /\ x[2] = m
    BY <2>1
  <2> QED
    BY <2>2
<1>4. CASE x \in Callables
  <2>1. x[1] = "function" /\ x[2] \in modules
    BY <1>4, CallableIs
  <2> QED
    BY <1>4, <2>1
<1>5. \/ x \in {<<y, m>> : y \in {"global", "module"}, m \in modules}
      \/ x \in {<<"binding", m, n>> : m \in modules, n \in Names}
      \/ x \in UNION {ImportProblems(m) : m \in modules}
      \/ x \in Callables
  BY DEF Nodes
<1> QED
  BY <1>1, <1>2, <1>3, <1>4, <1>5

-----------------------------------------------------------------------------
(* A step of the analysis leaves the program as it is *)

LEMMA FunctionsStay ==
  ASSUME UNCHANGED <<sources, modules>>
  PROVE  /\ Instrumented' = Instrumented
         /\ DevFunctions' = DevFunctions
         /\ Callables' = Callables
<1>1. Functions' = Functions
  BY DEF Functions
<1>2. DevFunctions' = DevFunctions
  BY <1>1 DEF DevFunctions, IsFunction, Declared
<1>3. Instrumented' = Instrumented
  BY <1>2 DEF Instrumented, BodyOf
<1>4. ASSUME NEW f \in DevFunctions
      PROVE  Calls(f)' = Calls(f)
  BY <1>2 DEF Calls, CallTarget, BodyOf
<1>5. Called' = Called
  BY <1>2, <1>4 DEF Called, CallTarget
<1>6. Callables' = Callables
  BY <1>3, <1>5 DEF Callables
<1> QED
  BY <1>2, <1>3, <1>6

LEMMA NodesStay ==
  ASSUME UNCHANGED <<sources, modules>>
  PROVE  Nodes' = Nodes
<1>1. ASSUME NEW m
      PROVE  Missed(m)' = Missed(m)
  BY DEF Missed
<1>2. ASSUME NEW m
      PROVE  ImportProblems(m)' = ImportProblems(m)
  BY <1>1 DEF ImportProblems
<1>3. Callables' = Callables
  BY FunctionsStay
<1> QED
  BY <1>2, <1>3 DEF Nodes

LEMMA TextsStay ==
  ASSUME Texts, UNCHANGED <<sources, modules>>
  PROVE  Texts'
BY DEF Texts

LEMMA FirstStays ==
  ASSUME UNCHANGED <<sources, modules>>, NEW x
  PROVE  FirstProblems(x)' = FirstProblems(x) /\ OwnWrites(x)' = OwnWrites(x)
<1>1. Findings(x)' = Findings(x)
  BY DEF Findings
<1>2. ModuleProblems(x[2])' = ModuleProblems(x[2])
  BY DEF ModuleProblems, Missed
<1>3. Instrumented' = Instrumented /\ DevFunctions' = DevFunctions
  BY FunctionsStay
<1>4. ASSUME NEW m, NEW r
      PROVE  Target(m, r)' = Target(m, r)
  BY DEF Target, Declared
<1>5. BodyOf(x)' = BodyOf(x)
  BY DEF BodyOf
<1>6. OwnProblems(x)' = OwnProblems(x)
  BY <1>3, <1>4, <1>5 DEF OwnProblems
<1>7. OwnWrites(x)' = OwnWrites(x)
  BY <1>5 DEF OwnWrites, Parameters
<1> QED
  BY <1>1, <1>2, <1>6, <1>7 DEF FirstProblems

-----------------------------------------------------------------------------
(* What has been inherited *)

Analysed == {"modules", "declarations", "callables", "ready"}

\* Every node has its problems, and every callable the parameters it may write.
Shape ==
  phase \in Analysed =>
    /\ problems = [x \in Nodes |-> problems[x]]
    /\ mutated = [f \in Callables |-> mutated[f]]

\* What was found at first is kept.
FirstKept ==
  phase \in Analysed =>
    /\ \A x \in Nodes : FirstProblems(x) \subseteq problems[x]
    /\ \A f \in Callables : OwnWrites(f) \subseteq mutated[f]

\* Only callables write arguments.
MutationsOfCallables ==
  phase \in Analysed => \A x \in Nodes : x[1] # "function" => "ARGUMENT_MUTATION" \notin problems[x]

\* What each round looks for is found when the round ends, and kept by the next.
ModulesSettled ==
  phase \in {"declarations", "callables", "ready"} =>
    \A m \in modules : FromDependencies(m) \subseteq problems[<<"global", m>>]
DeclarationsSettled ==
  phase \in {"callables", "ready"} => \A x \in Values : FromDeclaration(x) \subseteq problems[x]
CallablesSettled ==
  phase = "ready" =>
    \A f \in Callables :
      FromAll(f) \subseteq problems[f] /\ \A c \in Calls(f) : MutatedBy(f, c) \subseteq mutated[f]

Settled ==
  Shape /\ FirstKept /\ MutationsOfCallables /\ ModulesSettled /\ DeclarationsSettled /\ CallablesSettled

\* What a module can refer to: nodes, namespaces, of it or of what it depends on.
RefersTo(m, t) ==
  /\ t[1] \in {"import", "namespace", "binding"}
  /\ t[1] = "namespace" => t = <<"namespace", t[2]>>
  /\ t[1] # "namespace" => t \in Nodes
  /\ t[2] \in modules
  /\ t[2] = m \/ \E i \in Dependencies(m) : i.to = t[2]

LEMMA ValueIs ==
  ASSUME Texts, DOMAIN problems = Nodes, NEW x \in Values
  PROVE  x[1] = "binding" /\ x[2] \in modules /\ x \in Nodes /\ x[3] \in Names /\ Declared(x[2], x[3])
         /\ x = <<"binding", x[2], x[3]>>
<1>1. x \in Nodes /\ x[1] = "binding" /\ Declared(x[2], x[3])
  BY DEF Values
<1>2. PICK n \in Names : x = <<"binding", x[2], n>>
  BY <1>1, NodeIs
<1> QED
  BY <1>1, <1>2, NodeIs

LEMMA MentionIs ==
  ASSUME Texts, DOMAIN problems = Nodes, NEW x \in Values, NEW t \in Mentions(x)
  PROVE  RefersTo(x[2], t)
<1>1. x[2] \in modules /\ x[3] \in Names /\ Declared(x[2], x[3])
  BY ValueIs
<1>2. PICK r \in sources[x[2]].scope[x[3]].refs : t \in Target(x[2], r)
  BY DEF Mentions
<1>3. r \in Named(sources[x[2]].scope[x[3]])
  BY DEF Named
<1> QED
  BY <1>1, <1>2, <1>3, TargetIs DEF RefersTo

LEMMA ReferenceIs ==
  ASSUME Texts, NEW f \in Callables, NEW t \in References(f)
  PROVE  RefersTo(f[2], t)
<1>1. f[2] \in modules /\ f[3] \in Names /\ Declared(f[2], f[3])
  BY CallableIs
<1>2. PICK r \in Named(sources[f[2]].scope[f[3]]) : t \in Target(f[2], r)
  BY DEF References, BodyOf
<1> QED
  BY <1>1, <1>2, TargetIs DEF RefersTo

LEMMA ModuleNodes ==
  ASSUME NEW m \in modules
  PROVE  <<"global", m>> \in Nodes /\ <<"module", m>> \in Nodes
BY DEF Nodes

(* Nothing that is not a callable hands on a written argument. *)
LEMMA DependenciesMutateNothing ==
  ASSUME Settled, phase \in Analysed, NEW m \in modules
  PROVE  "ARGUMENT_MUTATION" \notin FromDependencies(m)
<1>1. ASSUME NEW i \in Dependencies(m)
      PROVE  "ARGUMENT_MUTATION" \notin problems[<<"global", i.to>>] \cup problems[<<"module", i.to>>]
  <2>1. i.to \in modules
    BY DEF Dependencies
  <2> QED
    BY <2>1, ModuleNodes DEF Settled, MutationsOfCallables
<1> QED
  BY <1>1 DEF FromDependencies

LEMMA ReferenceMutatesNothing ==
  ASSUME Texts, Settled, phase \in Analysed, NEW m, NEW t, RefersTo(m, t)
  PROVE  "ARGUMENT_MUTATION" \notin FromReference(m, t)
<1>1. "ARGUMENT_MUTATION" \notin problems[<<"module", t[2]>>]
  BY ModuleNodes DEF Settled, MutationsOfCallables, RefersTo
<1>2. \A x \in Bindings(t[2]) : "ARGUMENT_MUTATION" \notin problems[x]
  BY DEF Bindings, Settled, Shape, MutationsOfCallables
<1>3. t[1] # "namespace" => "ARGUMENT_MUTATION" \notin problems[t]
  BY DEF Settled, MutationsOfCallables, RefersTo
<1> QED
  BY <1>1, <1>2, <1>3 DEF FromReference

(* What one node inherits, no other loses. *)
LEMMA InheritIs ==
  ASSUME problems = [y \in Nodes |-> problems[y]], NEW x \in Nodes, NEW codes,
         problems' = Inherit(x, codes), UNCHANGED <<sources, modules>>
  PROVE  /\ problems' = [y \in Nodes' |-> problems'[y]]
         /\ problems'[x] = problems[x] \cup codes
         /\ \A y \in Nodes : y # x => problems'[y] = problems[y]
         /\ \A y \in Nodes : problems[y] \subseteq problems'[y]
<1>1. Nodes' = Nodes
  BY NodesStay
<1>2. /\ problems' = [y \in Nodes |-> problems'[y]]
      /\ problems'[x] = problems[x] \cup codes
      /\ \A y \in Nodes : y # x => problems'[y] = problems[y]
  BY DEF Inherit
<1> QED
  BY <1>1, <1>2

(* What a module depends on hands on as before, when no module inherits. *)
LEMMA DependenciesStay ==
  ASSUME UNCHANGED <<sources, modules>>, NEW m \in modules,
         \A y \in Nodes : y[1] \in {"global", "module"} => problems'[y] = problems[y]
  PROVE  FromDependencies(m)' = FromDependencies(m)
<1>1. Dependencies(m)' = Dependencies(m)
  BY DEF Dependencies
<1>2. ASSUME NEW i \in Dependencies(m)
      PROVE  problems'[<<"global", i.to>>] = problems[<<"global", i.to>>]
             /\ problems'[<<"module", i.to>>] = problems[<<"module", i.to>>]
  <2>1. i.to \in modules
    BY DEF Dependencies
  <2> QED
    BY <2>1, ModuleNodes
<1> QED
  BY <1>1, <1>2 DEF FromDependencies

(* What is referred to hands on as before, when only callables inherit. *)
LEMMA ReferenceStays ==
  ASSUME Texts, UNCHANGED <<sources, modules>>, NEW m, NEW t, RefersTo(m, t),
         DOMAIN problems = Nodes, DOMAIN problems' = Nodes,
         \A y \in Nodes : y[1] # "function" => problems'[y] = problems[y]
  PROVE  FromReference(m, t)' = FromReference(m, t)
<1>1. problems'[<<"module", t[2]>>] = problems[<<"module", t[2]>>]
  BY ModuleNodes DEF RefersTo
<1>2. Bindings(t[2])' = Bindings(t[2])
  BY DEF Bindings
<1>3. ASSUME NEW x \in Bindings(t[2])
      PROVE  problems'[x] = problems[x]
  BY DEF Bindings
<1>4. t[1] # "namespace" => problems'[t] = problems[t]
  BY DEF RefersTo
<1> QED
  BY <1>1, <1>2, <1>3, <1>4 DEF FromReference

LEMMA DeclarationStays ==
  ASSUME Texts, UNCHANGED <<sources, modules>>,
         DOMAIN problems = Nodes, DOMAIN problems' = Nodes,
         \A y \in Nodes : y[1] # "function" => problems'[y] = problems[y]
  PROVE  /\ Values' = Values
         /\ \A x \in Values : FromDeclaration(x)' = FromDeclaration(x)
<1>1. Values' = Values
  BY DEF Values, IsFunction, Declared
<1>2. ASSUME NEW x \in Values
      PROVE  FromDeclaration(x)' = FromDeclaration(x)
  <2>1. ASSUME NEW r
        PROVE  Target(x[2], r)' = Target(x[2], r)
    BY DEF Target, Declared
  <2>2. Mentions(x)' = Mentions(x)
    BY <2>1 DEF Mentions
  <2>3. ASSUME NEW t \in Mentions(x)
        PROVE  FromReference(x[2], t)' = FromReference(x[2], t)
    BY MentionIs, ReferenceStays
  <2> QED
    BY <2>2, <2>3 DEF FromDeclaration
<1> QED
  BY <1>1, <1>2

LEMMA SettledInit == Init => Settled
BY DEF Init, Settled, Shape, FirstKept, MutationsOfCallables, ModulesSettled, DeclarationsSettled,
       CallablesSettled, Analysed

(* Before the analysis nothing has been inherited. *)
LEMMA SettledEarlier ==
  ASSUME phase' \notin Analysed
  PROVE  Settled'
BY DEF Settled, Shape, FirstKept, MutationsOfCallables, ModulesSettled, DeclarationsSettled,
       CallablesSettled, Analysed

LEMMA FirstMutatesNothing ==
  ASSUME NEW x, x[1] # "function"
  PROVE  "ARGUMENT_MUTATION" \notin FirstProblems(x)
BY DEF FirstProblems, ModuleProblems

LEMMA InitializeSettled == Initialize => Settled'
<1> SUFFICES ASSUME Initialize PROVE Settled'
  OBVIOUS
<1>1. /\ problems' = [x \in Nodes |-> FirstProblems(x)]
      /\ mutated' = [f \in Callables |-> OwnWrites(f)]
      /\ phase' = "modules" /\ UNCHANGED <<sources, modules>>
  BY DEF Initialize, inputVars
<1>2. Nodes' = Nodes /\ Callables' = Callables
  BY <1>1, NodesStay, FunctionsStay
<1>3. \A x \in Nodes : problems'[x] = FirstProblems(x)
  BY <1>1
<1>4. \A f \in Callables : mutated'[f] = OwnWrites(f)
  BY <1>1
<1>5. Shape'
  <2>1. problems' = [x \in Nodes |-> problems'[x]] /\ mutated' = [f \in Callables |-> mutated'[f]]
    BY <1>1
  <2> QED
    BY <1>2, <2>1 DEF Shape
<1>6. FirstKept'
  <2>1. ASSUME NEW x \in Nodes
        PROVE  FirstProblems(x)' \subseteq problems'[x]
    BY <1>1, <1>3, FirstStays
  <2>2. ASSUME NEW f \in Callables
        PROVE  OwnWrites(f)' \subseteq mutated'[f]
    BY <1>1, <1>4, FirstStays
  <2> QED
    BY <1>2, <2>1, <2>2 DEF FirstKept
<1>7. MutationsOfCallables'
  BY <1>2, <1>3, FirstMutatesNothing DEF MutationsOfCallables
<1> QED
  BY <1>1, <1>5, <1>6, <1>7 DEF Settled, ModulesSettled, DeclarationsSettled, CallablesSettled

(* What every round of the analysis keeps: a node may have inherited. *)
LEMMA RoundKeeps ==
  ASSUME Settled, phase \in Analysed, phase' \in Analysed, UNCHANGED <<sources, modules>>,
         UNCHANGED mutated \/
           /\ mutated' = [f \in Callables |-> mutated'[f]]
           /\ \A f \in Callables : mutated[f] \subseteq mutated'[f],
         UNCHANGED problems \/
           \E x \in Nodes : \E codes : /\ problems' = Inherit(x, codes)
                                       /\ x[1] # "function" => "ARGUMENT_MUTATION" \notin codes
  PROVE  Shape' /\ FirstKept' /\ MutationsOfCallables'
<1>1. Nodes' = Nodes /\ Callables' = Callables
  BY NodesStay, FunctionsStay
<1>2. problems = [y \in Nodes |-> problems[y]] /\ mutated = [f \in Callables |-> mutated[f]]
  BY DEF Settled, Shape
<1>3. /\ problems' = [y \in Nodes |-> problems'[y]]
      /\ \A y \in Nodes : problems[y] \subseteq problems'[y]
      /\ \A y \in Nodes : y[1] # "function" => "ARGUMENT_MUTATION" \notin problems'[y]
  <2>1. CASE UNCHANGED problems
    BY <1>2, <2>1 DEF Settled, MutationsOfCallables
  <2>2. ASSUME NEW x \in Nodes, NEW codes, problems' = Inherit(x, codes),
               x[1] # "function" => "ARGUMENT_MUTATION" \notin codes
        PROVE  /\ problems' = [y \in Nodes |-> problems'[y]]
               /\ \A y \in Nodes : problems[y] \subseteq problems'[y]
               /\ \A y \in Nodes : y[1] # "function" => "ARGUMENT_MUTATION" \notin problems'[y]
    <3>1. /\ problems' = [y \in Nodes |-> problems'[y]]
          /\ problems'[x] = problems[x] \cup codes
          /\ \A y \in Nodes : y # x => problems'[y] = problems[y]
          /\ \A y \in Nodes : problems[y] \subseteq problems'[y]
      BY <1>1, <1>2, <2>2, InheritIs
    <3> QED
      BY <2>2, <3>1 DEF Settled, MutationsOfCallables
  <2> QED
    BY <2>1, <2>2
<1>4. /\ mutated' = [f \in Callables |-> mutated'[f]]
      /\ \A f \in Callables : mutated[f] \subseteq mutated'[f]
  BY <1>2
<1>5. Shape'
  BY <1>1, <1>3, <1>4 DEF Shape
<1>6. FirstKept'
  <2>1. ASSUME NEW x \in Nodes
        PROVE  FirstProblems(x)' \subseteq problems'[x]
    BY <1>3, FirstStays DEF Settled, FirstKept
  <2>2. ASSUME NEW f \in Callables
        PROVE  OwnWrites(f)' \subseteq mutated'[f]
    BY <1>4, FirstStays DEF Settled, FirstKept
  <2> QED
    BY <1>1, <2>1, <2>2 DEF FirstKept
<1>7. MutationsOfCallables'
  BY <1>1, <1>3 DEF MutationsOfCallables
<1> QED
  BY <1>5, <1>6, <1>7

LEMMA InheritModuleSettled == Settled /\ InheritModule => Settled'
<1> SUFFICES ASSUME Settled, InheritModule PROVE Settled'
  OBVIOUS
<1>1. phase = "modules" /\ phase \in Analysed /\ UNCHANGED <<sources, modules, mutated>>
  BY DEF InheritModule, inputVars, Analysed
<1> DEFINE open == {m \in modules : Inherits(<<"global", m>>, FromDependencies(m))}
<1>2. CASE open = {}
  <2>1. phase' = "declarations" /\ UNCHANGED problems
    BY <1>2 DEF InheritModule
  <2>2. Shape' /\ FirstKept' /\ MutationsOfCallables'
    BY <1>1, <2>1, RoundKeeps DEF Analysed
  <2>3. ASSUME NEW m \in modules
        PROVE  FromDependencies(m)' \subseteq problems'[<<"global", m>>]
    <3>1. FromDependencies(m) \subseteq problems[<<"global", m>>]
      BY <1>2 DEF Inherits
    <3>2. FromDependencies(m)' = FromDependencies(m)
      BY <1>1, <2>1, DependenciesStay
    <3> QED
      BY <2>1, <3>1, <3>2
  <2>4. ModulesSettled'
    BY <1>1, <2>3 DEF ModulesSettled
  <2> QED
    BY <2>1, <2>2, <2>4 DEF Settled, DeclarationsSettled, CallablesSettled
<1>3. CASE open # {}
  <2> DEFINE m == CHOOSE x \in open : TRUE
  <2>1. problems' = Inherit(<<"global", m>>, FromDependencies(m)) /\ UNCHANGED phase
    BY <1>3 DEF InheritModule
  <2>2. m \in open
    BY <1>3
  <2>3. m \in modules
    BY <2>2
  <2> HIDE DEF m, open
  <2>4. <<"global", m>> \in Nodes
    BY <2>3, ModuleNodes
  <2>5. "ARGUMENT_MUTATION" \notin FromDependencies(m)
    BY <1>1, <2>3, DependenciesMutateNothing
  <2>6. Shape' /\ FirstKept' /\ MutationsOfCallables'
    BY <1>1, <2>1, <2>4, <2>5, RoundKeeps
  <2> QED
    BY <1>1, <2>1, <2>6 DEF Settled, ModulesSettled, DeclarationsSettled, CallablesSettled
<1> QED
  BY <1>2, <1>3

(* A declaration that inherits is no module: what modules hand on stays. *)
LEMMA ModulesStaySettled ==
  ASSUME Settled, phase \in {"declarations", "callables"}, UNCHANGED <<sources, modules>>,
         \A y \in Nodes : y[1] \in {"global", "module"} => problems'[y] = problems[y]
  PROVE  ModulesSettled'
<1>1. ASSUME NEW m \in modules
      PROVE  FromDependencies(m)' \subseteq problems'[<<"global", m>>]
  <2>1. FromDependencies(m)' = FromDependencies(m)
    BY DependenciesStay
  <2>2. problems'[<<"global", m>>] = problems[<<"global", m>>]
    BY ModuleNodes
  <2> QED
    BY <2>1, <2>2 DEF Settled, ModulesSettled
<1> QED
  BY <1>1 DEF ModulesSettled

LEMMA InheritDeclarationSettled == Texts /\ Settled /\ InheritDeclaration => Settled'
<1> SUFFICES ASSUME Texts, Settled, InheritDeclaration PROVE Settled'
  OBVIOUS
<1>1. phase = "declarations" /\ phase \in Analysed /\ UNCHANGED <<sources, modules, mutated>>
  BY DEF InheritDeclaration, inputVars, Analysed
<1>2. DOMAIN problems = Nodes /\ problems = [y \in Nodes |-> problems[y]]
  BY <1>1 DEF Settled, Shape
<1> DEFINE open == {x \in Values : Inherits(x, FromDeclaration(x))}
<1>3. CASE open = {}
  <2>1. phase' = "callables" /\ UNCHANGED problems
    BY <1>3 DEF InheritDeclaration
  <2>2. Shape' /\ FirstKept' /\ MutationsOfCallables'
    BY <1>1, <2>1, RoundKeeps DEF Analysed
  <2>3. ModulesSettled'
    BY <1>1, <2>1, ModulesStaySettled
  <2>4. Values' = Values /\ \A x \in Values : FromDeclaration(x)' = FromDeclaration(x)
    BY <1>1, <1>2, <2>1, DeclarationStays
  <2>5. \A x \in Values : FromDeclaration(x) \subseteq problems[x]
    BY <1>3 DEF Inherits
  <2>6. DeclarationsSettled'
    BY <2>1, <2>4, <2>5 DEF DeclarationsSettled
  <2> QED
    BY <2>1, <2>2, <2>3, <2>6 DEF Settled, CallablesSettled
<1>4. CASE open # {}
  <2> DEFINE x == CHOOSE y \in open : TRUE
  <2>1. problems' = Inherit(x, FromDeclaration(x)) /\ UNCHANGED phase
    BY <1>4 DEF InheritDeclaration
  <2>2. x \in open
    BY <1>4
  <2>3. x \in Values
    BY <2>2
  <2> HIDE DEF x, open
  <2>4. x \in Nodes /\ x[1] = "binding"
    BY <1>2, <2>3, ValueIs
  <2>5. "ARGUMENT_MUTATION" \notin FromDeclaration(x)
    <3>1. ASSUME NEW t \in Mentions(x)
          PROVE  "ARGUMENT_MUTATION" \notin FromReference(x[2], t)
      <4>1. RefersTo(x[2], t)
        BY <1>2, <2>3, MentionIs
      <4> QED
        BY <1>1, <4>1, ReferenceMutatesNothing
    <3> QED
      BY <3>1 DEF FromDeclaration
  <2>6. Shape' /\ FirstKept' /\ MutationsOfCallables'
    BY <1>1, <2>1, <2>4, <2>5, RoundKeeps
  <2>7. \A y \in Nodes : y[1] \in {"global", "module"} => problems'[y] = problems[y]
    BY <1>1, <1>2, <2>1, <2>4, InheritIs
  <2>8. ModulesSettled'
    BY <1>1, <2>7, ModulesStaySettled
  <2> QED
    BY <1>1, <2>1, <2>6, <2>8 DEF Settled, DeclarationsSettled, CallablesSettled
<1> QED
  BY <1>3, <1>4

(* While no problem is added, a call hands on what it did. *)
LEMMA CallsStay ==
  ASSUME UNCHANGED <<sources, modules, problems, mutated>>, NEW f
  PROVE  /\ Calls(f)' = Calls(f)
         /\ FromAll(f)' = FromAll(f)
         /\ \A c : MutatedBy(f, c)' = MutatedBy(f, c)
<1>1. Calls(f)' = Calls(f)
  BY FunctionsStay DEF Calls, BodyOf, CallTarget
<1>2. ASSUME NEW m, NEW r
      PROVE  Target(m, r)' = Target(m, r)
  BY DEF Target, Declared
<1>3. BodyOf(f)' = BodyOf(f)
  BY DEF BodyOf
<1>4. References(f)' = References(f)
  BY <1>2, <1>3 DEF References
<1>5. ASSUME NEW m
      PROVE  Bindings(m)' = Bindings(m)
  BY DEF Bindings
<1>6. ASSUME NEW m, NEW t
      PROVE  FromReference(m, t)' = FromReference(m, t)
  BY <1>5 DEF FromReference
<1>7. ASSUME NEW c
      PROVE  Ambiguous(c)' = Ambiguous(c)
  BY DEF Ambiguous, BodyOf, CallTarget, Spread
<1>8. ASSUME NEW c
      PROVE  Borrowed(c)' = Borrowed(c)
  BY <1>7 DEF Borrowed, CallTarget, Owned
<1>9. ASSUME NEW c
      PROVE  FromCall(c)' = FromCall(c)
  BY <1>7, <1>8 DEF FromCall, CallTarget
<1>10. FromAll(f)' = FromAll(f)
  BY <1>1, <1>4, <1>6, <1>9 DEF FromAll
<1>11. Parameters(f)' = Parameters(f)
  BY <1>3 DEF Parameters
<1>12. ASSUME NEW a
       PROVE  Inputs(f, a)' = Inputs(f, a)
  <2>1. Held(f, a)' = Held(f, a)
    BY <1>11 DEF Held
  <2> QED
    BY <1>11, <2>1 DEF Inputs
<1>13. ASSUME NEW c
       PROVE  MutatedBy(f, c)' = MutatedBy(f, c)
  BY <1>8, <1>12 DEF MutatedBy, CallTarget
<1> QED
  BY <1>1, <1>10, <1>13

LEMMA InheritCallableSettled == Texts /\ Settled /\ InheritCallable => Settled'
<1> SUFFICES ASSUME Texts, Settled, InheritCallable PROVE Settled'
  OBVIOUS
<1>1. phase = "callables" /\ phase \in Analysed /\ UNCHANGED <<sources, modules>>
  BY DEF InheritCallable, inputVars, Analysed
<1>2. /\ DOMAIN problems = Nodes /\ problems = [y \in Nodes |-> problems[y]]
      /\ Reached = Callables /\ mutated = [f \in Callables |-> mutated[f]]
  BY <1>1 DEF Settled, Shape, Reached
<1> DEFINE more(f) == UNION {MutatedBy(f, c) : c \in Calls(f)}
           open == {f \in Reached : Inherits(f, FromAll(f)) \/ ~(more(f) \subseteq mutated[f])}
<1>3. CASE open = {}
  <2>1. phase' = "ready" /\ UNCHANGED <<problems, mutated>>
    BY <1>3 DEF InheritCallable
  <2>2. Shape' /\ FirstKept' /\ MutationsOfCallables'
    BY <1>1, <2>1, RoundKeeps DEF Analysed
  <2>3. ModulesSettled'
    BY <1>1, <2>1, ModulesStaySettled
  <2>4. DeclarationsSettled'
    <3>1. Values' = Values /\ \A x \in Values : FromDeclaration(x)' = FromDeclaration(x)
      BY <1>1, <1>2, <2>1, DeclarationStays
    <3> QED
      BY <1>1, <2>1, <3>1 DEF Settled, DeclarationsSettled
  <2>5. ASSUME NEW f \in Callables
        PROVE  FromAll(f) \subseteq problems[f] /\ \A c \in Calls(f) : MutatedBy(f, c) \subseteq mutated[f]
    <3>1. FromAll(f) \subseteq problems[f] /\ more(f) \subseteq mutated[f]
      BY <1>2, <1>3 DEF Inherits
    <3> QED
      BY <3>1
  <2>6. CallablesSettled'
    <3>1. Callables' = Callables
      BY <1>1, FunctionsStay
    <3>2. ASSUME NEW f \in Callables
          PROVE  FromAll(f)' \subseteq problems'[f] /\ \A c \in Calls(f)' : MutatedBy(f, c)' \subseteq mutated'[f]
      BY <1>1, <2>1, <2>5, CallsStay
    <3> QED
      BY <3>1, <3>2 DEF CallablesSettled
  <2> QED
    BY <2>2, <2>3, <2>4, <2>6 DEF Settled
<1>4. CASE open # {}
  <2>1. PICK f \in open :
          /\ problems' = Inherit(f, FromAll(f))
          /\ mutated' = [mutated EXCEPT ![f] = @ \cup more(f)] /\ UNCHANGED phase
    BY <1>4 DEF InheritCallable
  <2>2. f \in Callables
    BY <1>2, <2>1
  <2>3. f \in Nodes /\ f[1] = "function"
    BY <2>2, CallableIs
  <2> HIDE DEF open, more
  <2>4. /\ mutated' = [g \in Callables |-> mutated'[g]]
        /\ \A g \in Callables : mutated[g] \subseteq mutated'[g]
    BY <1>2, <2>1, <2>2
  <2>5. Shape' /\ FirstKept' /\ MutationsOfCallables'
    BY <1>1, <2>1, <2>3, <2>4, RoundKeeps
  <2>6. /\ problems' = [y \in Nodes' |-> problems'[y]]
        /\ \A y \in Nodes : y # f => problems'[y] = problems[y]
    BY <1>1, <1>2, <2>1, <2>3, InheritIs
  <2>7. \A y \in Nodes : y[1] # "function" => problems'[y] = problems[y]
    BY <2>3, <2>6
  <2>8. ModulesSettled'
    BY <1>1, <2>7, ModulesStaySettled
  <2>9. DeclarationsSettled'
    <3>1. DOMAIN problems' = Nodes
      BY <1>1, <2>6, NodesStay
    <3>2. Values' = Values /\ \A x \in Values : FromDeclaration(x)' = FromDeclaration(x)
      BY <1>1, <1>2, <2>7, <3>1, DeclarationStays
    <3>3. \A x \in Values : x \in Nodes /\ x[1] # "function"
      BY <1>2, ValueIs
    <3> QED
      BY <1>1, <2>7, <3>2, <3>3 DEF Settled, DeclarationsSettled
  <2> QED
    BY <1>1, <2>1, <2>5, <2>8, <2>9 DEF Settled, CallablesSettled
<1> QED
  BY <1>3, <1>4

(* Once the analysis is ready an edit changes nothing of it. *)
LEMMA StutterSettled ==
  ASSUME Texts, Settled, phase \in Analysed, UNCHANGED <<phase, sources, modules, problems, mutated>>
  PROVE  Settled'
<1>1. DOMAIN problems = Nodes /\ Nodes' = Nodes /\ Callables' = Callables
  BY NodesStay, FunctionsStay DEF Settled, Shape
<1>2. Shape' /\ FirstKept' /\ MutationsOfCallables'
  BY RoundKeeps
<1>3. ModulesSettled'
  <2>1. ASSUME NEW m \in modules
        PROVE  FromDependencies(m)' = FromDependencies(m)
    BY DependenciesStay
  <2> QED
    BY <2>1 DEF Settled, ModulesSettled
<1>4. DeclarationsSettled'
  <2>1. Values' = Values /\ \A x \in Values : FromDeclaration(x)' = FromDeclaration(x)
    BY <1>1, DeclarationStays
  <2> QED
    BY <2>1 DEF Settled, DeclarationsSettled
<1>5. CallablesSettled'
  <2>1. ASSUME phase = "ready", NEW f \in Callables
        PROVE  FromAll(f)' \subseteq problems'[f] /\ \A c \in Calls(f)' : MutatedBy(f, c)' \subseteq mutated'[f]
    BY <2>1, CallsStay DEF Settled, CallablesSettled
  <2> QED
    BY <1>1, <2>1 DEF CallablesSettled
<1> QED
  BY <1>2, <1>3, <1>4, <1>5 DEF Settled

LEMMA SettledStep == Fresh /\ Settled /\ [Next]_vars => Settled'
<1> SUFFICES ASSUME Fresh, Settled, [Next]_vars PROVE Settled'
  OBVIOUS
<1>1. phase \in Late => Texts
  BY TextsAre
<1>2. CASE TrackRoot \/ List \/ StatItem \/ Read \/ StatParent \/ Missing \/ Walked \/ Program
  <2>1. phase' \notin Analysed
    BY <1>2 DEF TrackRoot, List, StatItem, Read, StatParent, Missing, Walked, Program, Reading, Analysed
  <2> QED
    BY <2>1, SettledEarlier
<1>3. CASE Initialize
  BY <1>3, InitializeSettled
<1>4. CASE InheritModule
  BY <1>4, InheritModuleSettled
<1>5. CASE InheritDeclaration
  <2>1. Texts
    BY <1>1, <1>5 DEF InheritDeclaration, Late
  <2> QED
    BY <1>5, <2>1, InheritDeclarationSettled
<1>6. CASE InheritCallable
  <2>1. Texts
    BY <1>1, <1>6 DEF InheritCallable, Late
  <2> QED
    BY <1>6, <2>1, InheritCallableSettled
<1>7. CASE Edit \/ UNCHANGED vars
  <2>1. UNCHANGED <<phase, sources, modules, problems, mutated>>
    BY <1>7 DEF Edit, vars, inputVars
  <2>2. CASE phase \in Analysed
    BY <1>1, <2>1, <2>2, StutterSettled DEF Analysed, Late
  <2>3. CASE phase \notin Analysed
    BY <2>1, <2>3, SettledEarlier
  <2> QED
    BY <2>2, <2>3
<1> QED
  BY <1>2, <1>3, <1>4, <1>5, <1>6, <1>7 DEF Next, Build

(* When a round ends nothing of what it looks for is left, and later rounds keep it so,
   in whatever order the callables are looked at (buildDevProject in dev-analysis.ts). *)
THEOREM SettledInductive == Spec => []Settled
<1>1. Init => Settled
  BY SettledInit
<1>2. Fresh /\ Settled /\ [Next]_vars => Settled'
  BY SettledStep
<1> QED
  BY <1>1, <1>2, FreshInductive, PTL DEF Spec

-----------------------------------------------------------------------------
(* No mutation is hidden *)

LEMMA ReadyIs ==
  ASSUME Fresh, Settled, phase = "ready"
  PROVE  /\ Texts
         /\ DOMAIN problems = Nodes /\ Reached = Callables
         /\ \A x \in Nodes : FirstProblems(x) \subseteq problems[x]
         /\ \A f \in Callables : OwnWrites(f) \subseteq mutated[f]
         /\ \A x \in Nodes : x[1] # "function" => "ARGUMENT_MUTATION" \notin problems[x]
         /\ \A m \in modules : FromDependencies(m) \subseteq problems[<<"global", m>>]
         /\ \A x \in Values : FromDeclaration(x) \subseteq problems[x]
         /\ \A f \in Callables :
              FromAll(f) \subseteq problems[f] /\ \A c \in Calls(f) : MutatedBy(f, c) \subseteq mutated[f]
BY TextsAre DEF Late, Analysed, Reached, Settled, Shape, FirstKept, MutationsOfCallables, ModulesSettled,
                DeclarationsSettled, CallablesSettled

LEMMA OwnIsFirst ==
  ASSUME Texts, NEW f \in Callables
  PROVE  OwnProblems(f) \subseteq FirstProblems(f)
BY CallableIs DEF FirstProblems

LEMMA SlotsFinite ==
  ASSUME Texts, Reached = Callables
  PROVE  /\ IsFiniteSet(Slots)
         /\ \A v \in Slots : v[1] \in Callables /\ v[2] \in Parameters(v[1])
<1> DEFINE F == [f \in Callables |-> {f} \X Parameters(f)]
           T == {F[f] : f \in Callables}
<1>1. IsFiniteSet(Callables)
  <2>1. Callables \in SUBSET DevFunctions /\ IsFiniteSet(DevFunctions)
    BY CallablesAre, CalledIs
  <2> QED
    BY <2>1, FS_Subset
<1>2. ASSUME NEW f \in Callables
      PROVE  IsFiniteSet({f} \X Parameters(f))
  <2>1. IsFiniteSet({f})
    BY FS_Singleton
  <2>2. IsFiniteSet(Parameters(f))
    <3>1. BodyOf(f).parameters \in Nat
      BY CallableIs
    <3>2. BodyOf(f).parameters \in Int /\ 1 \in Int
      BY <3>1
    <3> QED
      BY <3>2, FS_Interval DEF Parameters
  <2> QED
    BY <2>1, <2>2, FS_Product
<1>3. F \in Surjection(Callables, T)
  BY DEF Surjection
<1>4. IsFiniteSet(T)
  <2> HIDE DEF F, T
  <2> QED
    BY <1>1, <1>3, FS_Surjection
<1>5. \A S \in T : IsFiniteSet(S)
  BY <1>2
<1>6. Slots = UNION T
  BY DEF Slots
<1>7. IsFiniteSet(Slots)
  <2> HIDE DEF T
  <2> QED
    BY <1>4, <1>5, <1>6, FS_UNION
<1>8. ASSUME NEW v \in Slots
      PROVE  v[1] \in Callables /\ v[2] \in Parameters(v[1])
  <2>1. PICK f \in Callables : v \in {f} \X Parameters(f)
    BY DEF Slots
  <2> QED
    BY <2>1
<1> QED
  BY <1>7, <1>8

(* A callable that passes on what it was given knows that it may be written. *)
LEMMA PassedOnIsKnown ==
  ASSUME Fresh, Settled, phase = "ready", NEW v \in Slots, NEW w \in Slots, PassesOn(v, w),
         "ARGUMENT_MUTATION" \in problems[w[1]], w[2] \in mutated[w[1]]
  PROVE  "ARGUMENT_MUTATION" \in problems[v[1]] /\ v[2] \in mutated[v[1]]
<1>1. PICK c \in Calls(v[1]) : CallTarget(c) = w[1] /\
        \E a \in DOMAIN c.args : Reaches(c, a, w[2]) /\ v[2] \in Held(v[1], c.args[a])
  BY DEF PassesOn
<1>2. PICK a \in DOMAIN c.args : Reaches(c, a, w[2]) /\ v[2] \in Held(v[1], c.args[a])
  BY <1>1
<1>3. v[1] \in Callables
  BY ReadyIs, SlotsFinite
<1>4. ~Owned(c.args[a])
  BY <1>2 DEF Owned, Held
<1>5. a \in Borrowed(c)
  <2>1. CASE Ambiguous(c)
    BY <1>2, <2>1 DEF Borrowed
  <2>2. CASE ~Ambiguous(c)
    <3>1. ~Spread(c) /\ ~BodyOf(CallTarget(c)).rest
      BY <2>2 DEF Ambiguous
    <3>2. a = w[2]
      BY <1>2, <3>1 DEF Reaches, Spread
    <3> QED
      BY <1>1, <1>4, <2>2, <3>2 DEF Borrowed
  <2> QED
    BY <2>1, <2>2
<1>6. "ARGUMENT_MUTATION" \in FromCall(c)
  BY <1>1, <1>5 DEF FromCall
<1>7. v[2] \in MutatedBy(v[1], c)
  <2>1. v[2] \in Inputs(v[1], c.args[a])
    BY <1>2 DEF Inputs
  <2> QED
    BY <1>1, <1>2, <1>5, <2>1 DEF MutatedBy
<1>8. FromCall(c) \subseteq FromAll(v[1])
  BY <1>1 DEF FromAll
<1>9. FromAll(v[1]) \subseteq problems[v[1]] /\ MutatedBy(v[1], c) \subseteq mutated[v[1]]
  BY <1>1, <1>3, ReadyIs
<1> QED
  BY <1>6, <1>7, <1>8, <1>9

LEMMA BorrowedIsSeen ==
  ASSUME Fresh, Settled
  PROVE  BorrowedSeen
<1> SUFFICES ASSUME phase = "ready"
             PROVE  \A w \in Written : "ARGUMENT_MUTATION" \in problems[w[1]] /\ w[2] \in mutated[w[1]]
  BY DEF BorrowedSeen
<1> DEFINE T == {v \in Slots : "ARGUMENT_MUTATION" \in problems[v[1]] /\ v[2] \in mutated[v[1]]}
           next == [w \in Slots |-> {v \in Slots : PassesOn(v, w)}]
<1>1. IsFiniteSet(Slots) /\ \A v \in Slots : v[1] \in Callables /\ v[2] \in Parameters(v[1])
  BY ReadyIs, SlotsFinite
<1>2. ASSUME NEW v \in Slots, Writes(v)
      PROVE  v \in T
  <2>1. v[1] \in Callables /\ v[2] \in Parameters(v[1])
    BY <1>1
  <2>2. "ARGUMENT_MUTATION" \in OwnProblems(v[1])
    BY <1>2 DEF Writes, OwnProblems
  <2>3. "ARGUMENT_MUTATION" \in problems[v[1]]
    BY <2>1, <2>2, ReadyIs, OwnIsFirst, CallableIs
  <2>4. v[2] \in OwnWrites(v[1])
    BY <1>2, <2>1 DEF Writes, OwnWrites
  <2>5. v[2] \in mutated[v[1]]
    BY <2>1, <2>4, ReadyIs
  <2> QED
    BY <2>3, <2>5
<1>3. ASSUME NEW w \in T
      PROVE  next[w] \subseteq T
  BY <1>3, PassedOnIsKnown
<1>4. {v \in Slots : Writes(v)} \subseteq T
  BY <1>2
<1>5. IsFiniteSet(DOMAIN next) /\ \A w \in T \cap DOMAIN next : next[w] \subseteq T
  BY <1>1, <1>3
<1>6. Written = Closure({v \in Slots : Writes(v)}, next)
  BY DEF Written
<1> HIDE DEF next
<1>7. Written \subseteq T
  BY <1>4, <1>5, <1>6, ClosureWithin
<1> QED
  BY <1>7

(* A mutation of what the caller lent is never hidden behind calls: a callable that
   can write a parameter, itself or through any chain of calls, is known to, at
   every order in which the callables are looked at (dev-analysis.ts).       *)
THEOREM Borrows == Spec => []BorrowedSeen
BY FreshInductive, SettledInductive, BorrowedIsSeen, PTL

-----------------------------------------------------------------------------
(* What a target can run and see *)

LEMMA ClosureHolds ==
  ASSUME NEW S, NEW next, IsFiniteSet(DOMAIN next), NEW x \in S
  PROVE  x \in Closure(S, next)
BY ClosureCloses

\* Callables whose only problems are mutations, which their callers answer for.
Harmless == {f \in Callables : problems[f] \subseteq {"ARGUMENT_MUTATION"}}
Clean(m) == problems[<<"global", m>>] = {} /\ problems[<<"module", m>>] = {}

(* What a harmless callable runs is harmless. *)
LEMMA RunsHarmless ==
  ASSUME Fresh, Settled, phase = "ready", NEW f \in Harmless
  PROVE  RunBy(f) \subseteq Harmless
<1>1. Texts
  BY ReadyIs
<1>2. /\ IsFiniteSet(DOMAIN Called) /\ DOMAIN Called = DevFunctions
      /\ \A g \in Callables : Called[g] = {CallTarget(c) : c \in Calls(g)}
      /\ \A g \in Callables : \A c \in Calls(g) : CallTarget(c) \in Callables
  BY <1>1, CalledIs, CallablesAre
<1>3. ASSUME NEW g \in Harmless, NEW c \in Calls(g)
      PROVE  CallTarget(c) \in Harmless
  <2>1. g \in Callables /\ problems[g] \subseteq {"ARGUMENT_MUTATION"}
    BY DEF Harmless
  <2>2. FromCall(c) \subseteq problems[g]
    BY <2>1, ReadyIs DEF FromAll
  <2>3. problems[CallTarget(c)] \subseteq {"ARGUMENT_MUTATION"}
    BY <2>1, <2>2 DEF FromCall
  <2> QED
    BY <1>2, <2>1, <2>3 DEF Harmless
<1>4. \A g \in Harmless \cap DOMAIN Called : Called[g] \subseteq Harmless
  BY <1>2, <1>3 DEF Harmless
<1>5. {f} \subseteq Harmless
  OBVIOUS
<1> QED
  BY <1>2, <1>4, <1>5, ClosureWithin DEF RunBy

(* Around a harmless callable no initialization has an effect. *)
LEMMA HarmlessIsClean ==
  ASSUME Fresh, Settled, phase = "ready", NEW f \in Harmless
  PROVE  f[2] \in modules /\ Clean(f[2])
<1>1. f \in Callables /\ problems[f] \subseteq {"ARGUMENT_MUTATION"}
  BY DEF Harmless
<1>2. Texts
  BY ReadyIs
<1>3. f[2] \in modules /\ <<"global", f[2]>> \in Nodes /\ <<"module", f[2]>> \in Nodes
  BY <1>1, <1>2, CallableIs
<1>4. problems[<<"global", f[2]>>] \cup problems[<<"module", f[2]>>] \subseteq {"ARGUMENT_MUTATION"}
  BY <1>1, ReadyIs DEF FromAll
<1>5. "ARGUMENT_MUTATION" \notin problems[<<"global", f[2]>>] \cup problems[<<"module", f[2]>>]
  BY <1>3, ReadyIs
<1> QED
  BY <1>3, <1>4, <1>5 DEF Clean

\* What a target may see: nothing with a problem, in modules without one around it.
Safe ==
  Harmless
    \cup {x \in Namespaces : Clean(x[2]) /\ \A b \in Bindings(x[2]) : problems[b] = {}}
    \cup {x \in Nodes : x[1] = "binding" /\ Clean(x[2]) /\ problems[x] = {}}

(* A module hands on its problems to what depends on it. *)
LEMMA DependencyHandsOn ==
  ASSUME NEW m, NEW i \in Dependencies(m)
  PROVE  /\ problems[<<"global", i.to>>] \subseteq FromDependencies(m)
         /\ i.bare => problems[<<"module", i.to>>] \subseteq FromDependencies(m)
<1> DEFINE handed(j) == problems[<<"global", j.to>>] \cup (IF j.bare THEN problems[<<"module", j.to>>] ELSE {})
<1>1. FromDependencies(m) = UNION {handed(j) : j \in Dependencies(m)}
  BY DEF FromDependencies
<1>2. handed(i) \subseteq UNION {handed(j) : j \in Dependencies(m)}
  <2> HIDE DEF handed
  <2> QED
    OBVIOUS
<1>3. /\ problems[<<"global", i.to>>] \subseteq handed(i)
      /\ i.bare => problems[<<"module", i.to>>] \subseteq handed(i)
  OBVIOUS
<1> HIDE DEF handed
<1> QED
  BY <1>1, <1>2, <1>3

LEMMA ImportsHaveProblems ==
  ASSUME Fresh, Settled, phase = "ready", NEW x \in Nodes, x[1] = "import"
  PROVE  problems[x] # {}
BY ReadyIs DEF FirstProblems

(* What is referred to from a clean module without a problem is safe. *)
LEMMA ReferredIsSafe ==
  ASSUME Fresh, Settled, phase = "ready", NEW m \in modules, Clean(m), NEW t, RefersTo(m, t),
         FromReference(m, t) \subseteq {"ARGUMENT_MUTATION"}
  PROVE  t \in Safe
<1>1. FromReference(m, t) = {}
  <2>1. Texts /\ phase \in Analysed
    BY ReadyIs DEF Analysed
  <2>2. "ARGUMENT_MUTATION" \notin FromReference(m, t)
    BY <2>1, ReferenceMutatesNothing
  <2> QED
    BY <2>2
<1>2. t[2] \in modules
  BY DEF RefersTo
<1>3. Clean(t[2])
  <2>1. CASE t[2] = m
    BY <2>1
  <2>2. CASE t[2] # m
    <3>1. PICK i \in Dependencies(m) : i.to = t[2]
      BY <2>2 DEF RefersTo
    <3>2. problems[<<"global", t[2]>>] \subseteq FromDependencies(m)
      BY <3>1, DependencyHandsOn
    <3>3. FromDependencies(m) \subseteq problems[<<"global", m>>]
      BY ReadyIs
    <3>4. problems[<<"global", t[2]>>] = {}
      BY <3>2, <3>3 DEF Clean
    <3>5. problems[<<"module", t[2]>>] = {}
      BY <1>1, <2>2 DEF FromReference
    <3> QED
      BY <3>4, <3>5 DEF Clean
  <2> QED
    BY <2>1, <2>2
<1>4. CASE t[1] = "namespace"
  <2>1. t \in Namespaces
    BY <1>2, <1>4 DEF RefersTo, Namespaces
  <2>2. \A b \in Bindings(t[2]) : problems[b] = {}
    BY <1>1, <1>4 DEF FromReference
  <2> QED
    BY <1>3, <2>1, <2>2 DEF Safe
<1>5. CASE t[1] # "namespace"
  <2>1. t \in Nodes /\ problems[t] = {}
    BY <1>1, <1>5 DEF RefersTo, FromReference
  <2>2. t[1] = "binding"
    BY <1>5, <2>1, ImportsHaveProblems DEF RefersTo
  <2> QED
    BY <1>3, <2>1, <2>2 DEF Safe
<1> QED
  BY <1>4, <1>5

LEMMA ReadsFinite ==
  ASSUME Fresh, Settled, phase = "ready"
  PROVE  IsFiniteSet(DOMAIN Reads)
<1>1. Texts /\ DOMAIN problems = Nodes /\ Reached = Callables
  BY ReadyIs
<1>2. IsFiniteSet(modules) /\ IsFiniteSet(DevFunctions) /\ Callables \in SUBSET DevFunctions
  BY <1>1, FunctionsFinite, CallablesAre, CalledIs
<1>3. IsFiniteSet(Callables)
  BY <1>2, FS_Subset
<1>4. IsFiniteSet(Namespaces)
  <2>1. Namespaces = Pairs("namespace", modules)
    BY DEF Namespaces, Pairs
  <2> QED
    BY <1>2, <2>1, FinitePairs
<1>5. IsFiniteSet(Values)
  <2>1. Values \in SUBSET Triples("binding", modules, Names)
    <3>1. ASSUME NEW x \in Values
          PROVE  x \in Triples("binding", modules, Names)
      <4>1. x[2] \in modules /\ x[3] \in Names /\ x = <<"binding", x[2], x[3]>>
        BY <1>1, ValueIs
      <4> QED
        BY <4>1 DEF Triples
    <3> QED
      BY <3>1
  <2>2. IsFiniteSet(Triples("binding", modules, Names))
    BY <1>2, DevAnalysisAssumption, FiniteTriples
  <2> QED
    BY <2>1, <2>2, FS_Subset
<1>6. IsFiniteSet(Reached \cup Namespaces)
  BY <1>1, <1>3, <1>4, FS_Union
<1>7. IsFiniteSet((Reached \cup Namespaces) \cup Values)
  BY <1>5, <1>6, FS_Union
<1> QED
  BY <1>7 DEF Reads

LEMMA SeesSafe ==
  ASSUME Fresh, Settled, phase = "ready", NEW f \in Harmless
  PROVE  Seen(f) \subseteq Safe
<1>1. Texts /\ DOMAIN problems = Nodes /\ Reached = Callables
  BY ReadyIs
<1>2. DOMAIN Reads = Reached \cup Namespaces \cup Values
  BY DEF Reads
<1>3. \A x \in Callables : x[1] = "function"
  BY <1>1, CallableIs
<1>4. \A x \in Namespaces : x[1] = "namespace"
  BY DEF Namespaces
<1>5. \A x \in Values : x[1] = "binding"
  BY DEF Values
<1>6. ASSUME NEW x \in Harmless, NEW t \in Reads[x], x \in DOMAIN Reads
      PROVE  t \in Safe
  <2>1. x \in Callables /\ problems[x] \subseteq {"ARGUMENT_MUTATION"}
    BY DEF Harmless
  <2>2. t \in References(x)
    BY <1>1, <1>2, <1>6, <2>1 DEF Reads
  <2>3. RefersTo(x[2], t)
    BY <1>1, <2>1, <2>2, ReferenceIs
  <2>4. FromReference(x[2], t) \subseteq FromAll(x)
    BY <2>2 DEF FromAll
  <2>5. FromReference(x[2], t) \subseteq {"ARGUMENT_MUTATION"}
    BY <2>1, <2>4, ReadyIs
  <2>6. x[2] \in modules /\ Clean(x[2])
    BY HarmlessIsClean
  <2> QED
    BY <2>3, <2>5, <2>6, ReferredIsSafe
<1>7. ASSUME NEW x \in Namespaces, Clean(x[2]), \A b \in Bindings(x[2]) : problems[b] = {},
             NEW t \in Reads[x], x \in DOMAIN Reads
      PROVE  t \in Safe
  <2>1. x \notin Reached /\ x \notin Values
    BY <1>1, <1>3, <1>4, <1>5
  <2>2. t \in Bindings(x[2])
    BY <1>2, <1>7, <2>1 DEF Reads
  <2>3. t \in Nodes /\ t[1] \in {"binding", "import"} /\ t[2] = x[2] /\ problems[t] = {}
    BY <1>1, <1>7, <2>2 DEF Bindings
  <2>4. t[1] = "binding"
    BY <2>3, ImportsHaveProblems
  <2> QED
    BY <1>7, <2>3, <2>4 DEF Safe
<1>8. ASSUME NEW x \in Nodes, x[1] = "binding", Clean(x[2]), problems[x] = {},
             NEW t \in Reads[x], x \in DOMAIN Reads
      PROVE  t \in Safe
  <2>1. x \notin Reached /\ x \notin Namespaces
    BY <1>1, <1>3, <1>4, <1>8
  <2>2. x \in Values /\ t \in Mentions(x)
    BY <1>2, <1>8, <2>1 DEF Reads
  <2>3. CASE t = x
    BY <1>8, <2>3 DEF Safe
  <2>4. CASE t # x
    <3>1. RefersTo(x[2], t) /\ x[2] \in modules
      BY <1>1, <2>2, MentionIs, ValueIs
    <3>2. FromReference(x[2], t) \subseteq FromDeclaration(x)
      BY <2>2, <2>4 DEF FromDeclaration
    <3>3. FromReference(x[2], t) \subseteq {"ARGUMENT_MUTATION"}
      BY <1>8, <2>2, <3>2, ReadyIs
    <3> QED
      BY <1>8, <3>1, <3>3, ReferredIsSafe
  <2> QED
    BY <2>3, <2>4
<1>9. ASSUME NEW x \in Safe \cap DOMAIN Reads
      PROVE  Reads[x] \subseteq Safe
  BY <1>6, <1>7, <1>8 DEF Safe
<1>10. RunBy(f) \subseteq Safe
  BY RunsHarmless DEF Safe
<1> QED
  BY <1>9, <1>10, ReadsFinite, ClosureWithin DEF Seen

(* What is loaded for a clean module has no problem. *)
LEMMA LoadsUntroubled ==
  ASSUME Fresh, Settled, phase = "ready", NEW m \in modules, Clean(m)
  PROVE  Loads(m) \subseteq {k \in modules : problems[<<"global", k>>] = {}}
<1> DEFINE T == {k \in modules : problems[<<"global", k>>] = {}}
           next == [x \in modules |-> {i.to : i \in Dependencies(x)}]
<1>1. IsFiniteSet(modules)
  BY ReadyIs, FunctionsFinite
<1>2. ASSUME NEW x \in T, NEW i \in Dependencies(x)
      PROVE  i.to \in T
  <2>1. FromDependencies(x) = {}
    BY ReadyIs
  <2>2. problems[<<"global", i.to>>] = {}
    BY <2>1, DependencyHandsOn
  <2>3. i.to \in modules
    BY DEF Dependencies
  <2> QED
    BY <2>2, <2>3
<1>3. {m} \subseteq T
  BY DEF Clean
<1>4. IsFiniteSet(DOMAIN next) /\ \A x \in T \cap DOMAIN next : next[x] \subseteq T
  BY <1>1, <1>2
<1>5. Loads(m) = Closure({m}, next)
  BY DEF Loads
<1> HIDE DEF next, T
<1>6. Loads(m) \subseteq T
  BY <1>3, <1>4, <1>5, ClosureWithin
<1> QED
  BY <1>6 DEF T

(* A node without a problem has no effect at its initialization. *)
LEMMA NoProblemNoEffect ==
  ASSUME Fresh, Settled, phase = "ready", NEW x \in Nodes, problems[x] = {}
  PROVE  x \notin {InitializationTier(x[2], y) : y \in sources[x[2]].initial}
<1>1. FirstProblems(x) = {}
  BY ReadyIs
<1>2. Findings(x) = {}
  BY <1>1 DEF FirstProblems
<1> QED
  BY <1>2 DEF Findings

LEMMA TierIs ==
  ASSUME NEW m, NEW y
  PROVE  InitializationTier(m, y)[1] \in {"global", "module", "binding"}
BY DEF InitializationTier, WriteTier, ContainingTier

LEMMA PlainCloses ==
  ASSUME Fresh, Settled, phase = "ready", NEW f \in Callables, NEW g \in RunBy(f), BodyOf(g).implicit
  PROVE  f \in Plain
<1> DEFINE back == [h \in Reached |-> {k \in Reached : h \in Called[k]}]
           T == {h \in Callables : h \in Plain => f \in Plain}
<1>1. Texts /\ Reached = Callables
  BY ReadyIs
<1>2. /\ IsFiniteSet(DOMAIN Called) /\ DOMAIN Called = DevFunctions
      /\ \A h \in Callables : Called[h] = {CallTarget(c) : c \in Calls(h)}
      /\ \A h \in Callables : \A c \in Calls(h) : CallTarget(c) \in Callables
      /\ Callables \in SUBSET DevFunctions
  BY <1>1, CalledIs, CallablesAre
<1>3. IsFiniteSet(DOMAIN back)
  <2>1. IsFiniteSet(Callables)
    BY <1>2, FS_Subset
  <2> QED
    BY <1>1, <2>1
<1>4. Plain = Closure({h \in Reached : BodyOf(h).implicit}, back)
  BY DEF Plain
<1>5. /\ \A h \in Callables : BodyOf(h).implicit => h \in Plain
      /\ \A h \in Plain \cap Callables : \A k \in Callables : h \in Called[k] => k \in Plain
  <2>1. /\ {h \in Reached : BodyOf(h).implicit} \subseteq Plain
        /\ \A h \in Plain \cap DOMAIN back : back[h] \subseteq Plain
    <3> HIDE DEF back
    <3> QED
      BY <1>3, <1>4, ClosureCloses
  <2> QED
    BY <1>1, <2>1
<1>6. \A h \in T \cap DOMAIN Called : Called[h] \subseteq T
  BY <1>2, <1>5
<1>7. {f} \subseteq T
  OBVIOUS
<1>8. RunBy(f) \subseteq T
  <2> HIDE DEF T
  <2> QED
    BY <1>2, <1>6, <1>7, ClosureWithin DEF RunBy
<1> QED
  BY <1>5, <1>8

LEMMA TargetsSafe ==
  ASSUME Fresh, Settled
  PROVE  TargetsAreSafe
<1> SUFFICES ASSUME phase = "ready", NEW f \in Targets
             PROVE  LET seen == Seen(f)
                        loaded == UNION {Loads(m) : m \in {x[2] : x \in seen}}
                        initial(m) == {InitializationTier(m, y) : y \in sources[m].initial}
                    IN /\ \A g \in RunBy(f) : OwnProblems(g) \subseteq {"ARGUMENT_MUTATION"}
                       /\ \A m \in loaded : ModuleProblems(m) = {} /\ <<"global", m>> \notin initial(m)
                       /\ \A m \in {x[2] : x \in seen} : <<"module", m>> \notin initial(m)
                       /\ \A m \in loaded : \A i \in Dependencies(m) : i.bare => <<"module", i.to>> \notin initial(i.to)
                       /\ \A x \in seen : x \notin initial(x[2]) /\ x[1] # "import"
                       /\ (\E g \in RunBy(f) : BodyOf(g).implicit) => f \in Plain
  BY DEF TargetsAreSafe
<1> DEFINE seen == Seen(f)
           loaded == UNION {Loads(m) : m \in {x[2] : x \in seen}}
           initial(m) == {InitializationTier(m, y) : y \in sources[m].initial}
<1>1. Texts
  BY ReadyIs
<1>2. f \in Harmless /\ f \in Callables
  BY <1>1, CallablesAre DEF Targets, Harmless
<1>3. RunBy(f) \subseteq Harmless /\ seen \subseteq Safe
  BY <1>2, RunsHarmless, SeesSafe
<1>4. ASSUME NEW x \in seen
      PROVE  x[2] \in modules /\ Clean(x[2])
  <2>1. CASE x \in Harmless
    BY <2>1, HarmlessIsClean
  <2>2. CASE x \in Namespaces /\ Clean(x[2])
    BY <2>2 DEF Namespaces
  <2>3. CASE x \in Nodes /\ Clean(x[2])
    BY <1>1, <2>3, NodeIs
  <2> QED
    BY <1>3, <2>1, <2>2, <2>3 DEF Safe
<1> HIDE DEF seen
<1>5. ASSUME NEW m \in loaded
      PROVE  m \in modules /\ problems[<<"global", m>>] = {}
  <2>1. PICK x \in seen : m \in Loads(x[2])
    OBVIOUS
  <2> QED
    BY <1>4, <2>1, LoadsUntroubled
<1> HIDE DEF loaded
<1>6. ASSUME NEW g \in RunBy(f)
      PROVE  OwnProblems(g) \subseteq {"ARGUMENT_MUTATION"}
  <2>1. g \in Callables /\ problems[g] \subseteq {"ARGUMENT_MUTATION"}
    BY <1>3 DEF Harmless
  <2>2. g \in Nodes
    BY <1>1, <2>1, CallableIs
  <2> QED
    BY <1>1, <2>1, <2>2, OwnIsFirst, ReadyIs
<1>7. ASSUME NEW m \in loaded
      PROVE  ModuleProblems(m) = {} /\ <<"global", m>> \notin initial(m)
  <2>1. <<"global", m>> \in Nodes /\ problems[<<"global", m>>] = {}
    BY <1>5, ModuleNodes
  <2>2. FirstProblems(<<"global", m>>) = {}
    BY <2>1, ReadyIs
  <2>3. ModuleProblems(m) = {}
    BY <2>2 DEF FirstProblems
  <2> QED
    BY <2>1, <2>3, NoProblemNoEffect
<1>8. ASSUME NEW m \in {x[2] : x \in seen}
      PROVE  <<"module", m>> \notin initial(m)
  <2>1. m \in modules /\ problems[<<"module", m>>] = {}
    BY <1>4 DEF Clean
  <2> QED
    BY <2>1, ModuleNodes, NoProblemNoEffect
<1>9. ASSUME NEW m \in loaded, NEW i \in Dependencies(m), i.bare
      PROVE  <<"module", i.to>> \notin initial(i.to)
  <2>1. FromDependencies(m) = {}
    BY <1>5, ReadyIs
  <2>2. problems[<<"module", i.to>>] = {}
    BY <1>9, <2>1, DependencyHandsOn
  <2>3. i.to \in modules
    BY DEF Dependencies
  <2> QED
    BY <2>2, <2>3, ModuleNodes, NoProblemNoEffect
<1>10. ASSUME NEW x \in seen
       PROVE  x \notin initial(x[2]) /\ x[1] # "import"
  <2>1. CASE x \in Harmless \/ x \in Namespaces
    <3>1. x \in Harmless => x[1] = "function"
      BY <1>1, CallableIs DEF Harmless
    <3>2. x \in Namespaces => x[1] = "namespace"
      BY DEF Namespaces
    <3>3. x[1] \in {"function", "namespace"}
      BY <2>1, <3>1, <3>2
    <3> QED
      BY <3>3, TierIs
  <2>2. CASE x \in Nodes /\ x[1] = "binding" /\ problems[x] = {}
    BY <2>2, NoProblemNoEffect
  <2> QED
    BY <1>3, <2>1, <2>2 DEF Safe
<1>11. (\E g \in RunBy(f) : BodyOf(g).implicit) => f \in Plain
  BY <1>2, PlainCloses
<1> QED
  BY <1>6, <1>7, <1>8, <1>9, <1>10, <1>11 DEF seen, loaded

(* What is captured replays from its arguments: of all it can run nothing has a
   problem of its own, and no initialization with an effect - of a module that is
   loaded for it, of the code around what it reads, of what it reads itself - and
   no module that was not found can be seen by it (dev-analysis.ts).         *)
THEOREM TargetsSeeNoEffect == Spec => []TargetsAreSafe
BY FreshInductive, SettledInductive, TargetsSafe, PTL

=============================================================================
