--------------------------- MODULE DevCaptureProofs ---------------------------
(***************************************************************************)
(* Proofs about the recording runtime of DevCapture, for any program, any  *)
(* number of invocations and effects and any limits: its frames and its    *)
(* sink, and then that what it emits is the trace of what happened. Every  *)
(* observation is the transcript of its invocation's dynamic extent, the   *)
(* readers of DevTrace accept it, its response numbers resolve inside it   *)
(* and it is of one generation.                                            *)
(***************************************************************************)
EXTENDS DevCapture, FiniteSetTheorems, SequenceTheorems, WellFoundedInduction, TLAPS

-----------------------------------------------------------------------------
(* A frame stays a frame when one of its fields gets a value of its type.   *)
LEMMA FrameUpdate ==
  ASSUME NEW f \in Frame
  PROVE  /\ \A m \in Modes : [f EXCEPT !.mode = m] \in Frame
         /\ \A n \in Nat : [f EXCEPT !.session = n] \in Frame
         /\ \A t \in Seq(Event) : [f EXCEPT !.trace = t] \in Frame
         /\ \A n \in Nat : [f EXCEPT !.nextId = n] \in Frame
         /\ \A n \in Nat : [f EXCEPT !.pending = n] \in Frame
         /\ \A n \in Nat : [f EXCEPT !.children = n] \in Frame
         /\ \A b \in BOOLEAN : [f EXCEPT !.closed = b] \in Frame
         /\ \A b \in BOOLEAN : [f EXCEPT !.blocked = b] \in Frame
         /\ \A r \in [Effect -> Nat \cup {NoId}] : [f EXCEPT !.responses = r] \in Frame
<1>1. \A m \in Modes : [f EXCEPT !.mode = m] \in Frame
  BY DEF Frame
<1>2. \A n \in Nat : [f EXCEPT !.session = n] \in Frame
  BY DEF Frame
<1>3. \A t \in Seq(Event) : [f EXCEPT !.trace = t] \in Frame
  BY DEF Frame
<1>4. \A n \in Nat : [f EXCEPT !.nextId = n] \in Frame
  BY DEF Frame
<1>5. \A n \in Nat : [f EXCEPT !.pending = n] \in Frame
  BY DEF Frame
<1>6. \A n \in Nat : [f EXCEPT !.children = n] \in Frame
  BY DEF Frame
<1>7. \A b \in BOOLEAN : [f EXCEPT !.closed = b] \in Frame
  BY DEF Frame
<1>8. \A b \in BOOLEAN : [f EXCEPT !.blocked = b] \in Frame
  BY DEF Frame
<1>9. \A r \in [Effect -> Nat \cup {NoId}] : [f EXCEPT !.responses = r] \in Frame
  BY DEF Frame
<1> QED
  BY <1>1, <1>2, <1>3, <1>4, <1>5, <1>6, <1>7, <1>8, <1>9

-----------------------------------------------------------------------------
(* The shape of the frames: what observeDevCall builds and nothing undoes. *)

FramesTyped(fs) == fs \in [Invocation -> Frame]

(* gs differs from fs only in what the frames recorded, in whether they are *)
(* blocked and in calls that got no frame.                                  *)
SameLinks(fs, gs) ==
  \A i \in Invocation :
    /\ gs[i].mode = "captured" <=> fs[i].mode = "captured"
    /\ gs[i].parent = fs[i].parent
    /\ gs[i].lineage = fs[i].lineage
    /\ gs[i].children = fs[i].children
    /\ gs[i].closed = fs[i].closed

(* No call is new either. *)
SameTree(fs, gs) ==
  /\ SameLinks(fs, gs)
  /\ \A i \in Invocation :
       /\ gs[i].mode = fs[i].mode
       /\ gs[i].session = fs[i].session
       /\ gs[i].generation = fs[i].generation

LEMMA LineagesKeep ==
  ASSUME NEW fs, NEW gs, Lineages(fs),
         \A i \in Invocation : /\ gs[i].mode = "captured" <=> fs[i].mode = "captured"
                               /\ gs[i].parent = fs[i].parent
                               /\ gs[i].lineage = fs[i].lineage
  PROVE  Lineages(gs)
<1>1. Captured(gs) = Captured(fs)
  BY DEF Captured
<1>2. \A j \in Captured(fs) : j \in Invocation
  BY DEF Captured
<1> SUFFICES ASSUME NEW i \in Invocation
             PROVE  IF i \in Captured(gs)
                    THEN /\ i \in gs[i].lineage
                         /\ gs[i].lineage \subseteq Captured(gs)
                         /\ gs[i].parent \in gs[i].lineage \cup {None}
                         /\ \A j \in gs[i].lineage : gs[j].lineage \subseteq gs[i].lineage
                         /\ \A j \in gs[i].lineage \ {i} :
                              \E c \in gs[i].lineage : gs[c].parent = j
                    ELSE gs[i].lineage = {}
  BY DEF Lineages
<1> QED
  BY <1>1, <1>2 DEF Lineages

LEMMA SameLinksKeep ==
  ASSUME NEW fs, NEW gs, FramesOK(fs), SameLinks(fs, gs),
         \A i \in Invocation : fs[i].blocked => gs[i].blocked
  PROVE  /\ Lineages(gs)
         /\ ChildrenCounted(gs)
         /\ OpenAncestors(gs)
         /\ Captured(gs) = Captured(fs)
         /\ Open(gs) = Open(fs)
<1>1. Captured(gs) = Captured(fs)
  BY DEF Captured, SameLinks
<1>2. Open(gs) = Open(fs)
  BY <1>1 DEF Open, Captured, SameLinks
<1>3. \A i \in Invocation : OpenChildren(gs, i) = OpenChildren(fs, i)
  BY <1>2 DEF OpenChildren, Open, Captured, SameLinks
<1>4. ChildrenCounted(gs)
  BY <1>3 DEF FramesOK, ChildrenCounted, SameLinks
<1>5. Lineages(gs)
  BY LineagesKeep DEF SameLinks, FramesOK
<1>6. OpenAncestors(gs)
  <2>0. \A i \in Invocation : gs[i].closed => i \in Captured(gs)
    BY <1>1 DEF FramesOK, OpenAncestors, SameLinks
  <2> SUFFICES ASSUME NEW d \in Open(gs), NEW j \in gs[d].lineage, gs[j].closed
               PROVE  gs[j].blocked
    BY <2>0 DEF OpenAncestors
  <2>1. d \in Open(fs) /\ d \in Captured(fs) /\ d \in Invocation
    BY <1>2 DEF Open, Captured
  <2>2. j \in fs[d].lineage /\ j \in Invocation
    BY <2>1 DEF SameLinks, FramesOK, Lineages, Captured
  <2> QED
    BY <2>1, <2>2 DEF SameLinks, FramesOK, OpenAncestors
<1> QED
  BY <1>1, <1>2, <1>4, <1>5, <1>6

-----------------------------------------------------------------------------
(* block *)

LEMMA BlockFields ==
  ASSUME NEW fs, FramesTyped(fs), NEW B
  PROVE  /\ FramesTyped(Block(fs, B))
         /\ SameTree(fs, Block(fs, B))
         /\ \A i \in Invocation :
              /\ Block(fs, B)[i].blocked <=> fs[i].blocked \/ \E b \in B : i \in fs[b].lineage
              /\ Block(fs, B)[i].nextId = fs[i].nextId
              /\ Block(fs, B)[i].pending = fs[i].pending
              /\ Block(fs, B)[i].responses = fs[i].responses
<1> DEFINE gs == Block(fs, B)
<1>1. \A i \in Invocation : fs[i] \in Frame
  BY DEF FramesTyped
<1>2. \A i \in Invocation :
        gs[i] = IF ~fs[i].blocked /\ \E b \in B : i \in fs[b].lineage
                THEN [fs[i] EXCEPT !.blocked = TRUE, !.trace = <<>>]
                ELSE fs[i]
  BY DEF Block
<1>3. <<>> \in Seq(Event)
  OBVIOUS
<1>4. ASSUME NEW i \in Invocation
      PROVE  gs[i] \in Frame
  <2> DEFINE g == [fs[i] EXCEPT !.blocked = TRUE]
  <2>1. [g EXCEPT !.trace = <<>>] \in Frame
    <3>1. g \in Frame
      BY <1>1, FrameUpdate
    <3> HIDE DEF g
    <3> QED
      BY <1>3, <3>1, FrameUpdate
  <2> QED
    BY <1>1, <1>2, <2>1
<1>5. FramesTyped(gs)
  BY <1>4 DEF FramesTyped, Block
<1>6. SameTree(fs, gs)
  BY <1>1, <1>2 DEF SameTree, SameLinks, Frame
<1>7. \A i \in Invocation :
        /\ gs[i].blocked <=> fs[i].blocked \/ \E b \in B : i \in fs[b].lineage
        /\ gs[i].nextId = fs[i].nextId
        /\ gs[i].pending = fs[i].pending
        /\ gs[i].responses = fs[i].responses
  BY <1>1, <1>2 DEF Frame
<1> QED
  BY <1>5, <1>6, <1>7

(* Blocking any frames leaves the tree in order and takes every    *)
(* frame above them along.                                                  *)
LEMMA BlockKeeps ==
  ASSUME NEW fs, FramesOK(fs), NEW B \in SUBSET Invocation
  PROVE  /\ FramesOK(Block(fs, B))
         /\ Captured(Block(fs, B)) = Captured(fs)
         /\ Open(Block(fs, B)) = Open(fs)
<1> DEFINE gs == Block(fs, B)
<1>1. /\ FramesTyped(gs)
      /\ SameTree(fs, gs)
      /\ \A i \in Invocation :
           gs[i].blocked <=> fs[i].blocked \/ \E b \in B : i \in fs[b].lineage
  BY BlockFields DEF FramesOK, FramesTyped
<1>2. /\ Lineages(gs) /\ ChildrenCounted(gs) /\ OpenAncestors(gs)
      /\ Captured(gs) = Captured(fs) /\ Open(gs) = Open(fs)
  BY <1>1, SameLinksKeep DEF SameTree
<1>3. BlocksReachUp(gs)
  <2>0. ASSUME NEW i \in Invocation, gs[i].blocked
        PROVE  i \in Captured(fs)
    <3>1. CASE fs[i].blocked
      BY <3>1 DEF FramesOK, BlocksReachUp
    <3>2. CASE \E b \in B : i \in fs[b].lineage
      BY <3>2 DEF FramesOK, Lineages
    <3> QED
      BY <1>1, <2>0, <3>1, <3>2
  <2> SUFFICES ASSUME NEW i \in Invocation, gs[i].blocked, NEW j \in gs[i].lineage
               PROVE  gs[j].blocked
    BY <1>2, <2>0 DEF BlocksReachUp
  <2>1. i \in Captured(fs) /\ j \in fs[i].lineage
    BY <1>1, <2>0 DEF SameTree, SameLinks
  <2>2. j \in Invocation
    BY <2>1 DEF FramesOK, Lineages, Captured
  <2>3. CASE fs[i].blocked
    BY <1>1, <2>1, <2>2, <2>3 DEF FramesOK, BlocksReachUp
  <2>4. CASE \E b \in B : i \in fs[b].lineage
    <3>1. PICK b \in B : i \in fs[b].lineage
      BY <2>4
    <3>2. j \in fs[b].lineage
      BY <2>1, <3>1 DEF FramesOK, Lineages
    <3> QED
      BY <1>1, <2>2, <3>2
  <2> QED
    BY <1>1, <2>1, <2>3, <2>4
<1> QED
  BY <1>1, <1>2, <1>3 DEF FramesOK, FramesTyped

(* A frame is not blocked once it is closed, when what is blocked is open.  *)
LEMMA BlockSpares ==
  ASSUME NEW fs, FramesOK(fs), NEW B \in SUBSET Invocation,
         \A b \in B : b \in Open(fs) \/ fs[b].blocked \/ b \notin Captured(fs)
  PROVE  \A j \in Invocation : fs[j].closed => Block(fs, B)[j].blocked = fs[j].blocked
<1> SUFFICES ASSUME NEW j \in Invocation, fs[j].closed, ~fs[j].blocked
             PROVE  ~\E b \in B : j \in fs[b].lineage
  <2>1. \A j \in Invocation : Block(fs, B)[j] \in Frame /\ fs[j] \in Frame
    BY BlockFields DEF FramesOK, FramesTyped
  <2>2. \A j \in Invocation :
          Block(fs, B)[j].blocked <=> fs[j].blocked \/ \E b \in B : j \in fs[b].lineage
    BY BlockFields DEF FramesOK, FramesTyped
  <2>3. \A j \in Invocation : Block(fs, B)[j].blocked \in BOOLEAN /\ fs[j].blocked \in BOOLEAN
    BY <2>1 DEF Frame
  <2> QED
    BY <2>2, <2>3
<1> SUFFICES ASSUME NEW b \in B, j \in fs[b].lineage
             PROVE  FALSE
  OBVIOUS
<1>1. b \in Captured(fs)
  BY DEF FramesOK, Lineages
<1>2. CASE b \in Open(fs)
  BY <1>2 DEF FramesOK, OpenAncestors
<1>3. CASE fs[b].blocked
  BY <1>3 DEF FramesOK, BlocksReachUp
<1> QED
  BY <1>1, <1>2, <1>3

(* A change of what the frames recorded, none of them being blocked.        *)
LEMMA NotesKeep ==
  ASSUME NEW fs, NEW gs, FramesOK(fs), FramesTyped(gs), SameLinks(fs, gs),
         \A i \in Invocation : gs[i].blocked = fs[i].blocked
  PROVE  /\ FramesOK(gs)
         /\ Captured(gs) = Captured(fs)
         /\ Open(gs) = Open(fs)
<1>1. /\ Lineages(gs) /\ ChildrenCounted(gs) /\ OpenAncestors(gs)
      /\ Captured(gs) = Captured(fs) /\ Open(gs) = Open(fs)
  BY SameLinksKeep
<1>2. BlocksReachUp(gs)
  <2>0. \A i \in Invocation : gs[i].blocked => i \in Captured(fs)
    BY DEF FramesOK, BlocksReachUp
  <2> SUFFICES ASSUME NEW i \in Invocation, gs[i].blocked, NEW j \in gs[i].lineage
               PROVE  gs[j].blocked
    BY <1>1, <2>0 DEF BlocksReachUp
  <2>1. i \in Captured(fs) /\ j \in fs[i].lineage
    BY <2>0 DEF SameLinks
  <2>2. j \in Invocation
    BY <2>1 DEF FramesOK, Lineages, Captured
  <2> QED
    BY <2>1, <2>2 DEF FramesOK, BlocksReachUp
<1> QED
  BY <1>1, <1>2 DEF FramesOK, FramesTyped

-----------------------------------------------------------------------------
(* close *)

LEMMA CloseKeeps ==
  ASSUME NEW fs, FramesOK(fs), NEW C \in SUBSET Invocation,
         \A i \in C : i \in Open(fs) => fs[i].blocked \/ fs[i].children = 0
  PROVE  /\ FramesOK(Close(fs, C))
         /\ Captured(Close(fs, C)) = Captured(fs)
         /\ Open(Close(fs, C)) = Open(fs) \ C
         /\ \A i \in Invocation :
              /\ Close(fs, C)[i].mode = fs[i].mode
              /\ Close(fs, C)[i].parent = fs[i].parent
              /\ Close(fs, C)[i].lineage = fs[i].lineage
              /\ Close(fs, C)[i].session = fs[i].session
              /\ Close(fs, C)[i].blocked = fs[i].blocked
              /\ Close(fs, C)[i].pending = fs[i].pending
              /\ Close(fs, C)[i].closed <=> fs[i].closed \/ (i \in C /\ i \in Open(fs))
<1> DEFINE gs == Close(fs, C)
           kids(i) == OpenChildren(fs, i)
           left(i) == fs[i].children - Cardinality(kids(i) \cap C)
           over(i) == fs[i].closed \/ (i \in C /\ i \in Open(fs))
<1>1. \A i \in Invocation : fs[i] \in Frame
  BY DEF FramesOK, FramesTyped
<1>2. ASSUME NEW i \in Invocation
      PROVE  left(i) \in Nat /\ left(i) = Cardinality(kids(i) \ C)
  <2>1. kids(i) \in SUBSET Invocation
    BY DEF OpenChildren, Open, Captured
  <2>2. IsFiniteSet(kids(i))
    BY <2>1, FS_Subset, FiniteAssumption
  <2>3. /\ IsFiniteSet(kids(i) \ C)
        /\ Cardinality(kids(i) \ C) = Cardinality(kids(i)) - Cardinality(kids(i) \cap C)
    BY <2>2, FS_Difference
  <2>4. fs[i].children = Cardinality(kids(i))
    BY DEF FramesOK, ChildrenCounted
  <2> QED
    BY <2>3, <2>4, FS_CardinalityType
<1>3. \A i \in Invocation : gs[i] = [fs[i] EXCEPT !.closed = over(i), !.children = left(i)]
  BY DEF Close
<1>4. ASSUME NEW i \in Invocation
      PROVE  gs[i] \in Frame
  <2> DEFINE f == [fs[i] EXCEPT !.closed = over(i)]
  <2>1. f \in Frame
    <3>1. over(i) \in BOOLEAN
      BY <1>1 DEF Frame
    <3> HIDE DEF over
    <3> QED
      BY <1>1, <3>1, FrameUpdate
  <2>2. [f EXCEPT !.children = left(i)] \in Frame
    <3> HIDE DEF f, left
    <3> QED
      BY <1>2, <2>1, FrameUpdate
  <2> QED
    BY <1>3, <2>2
<1>5. FramesTyped(gs)
  BY <1>4 DEF FramesTyped, Close
<1>6. \A i \in Invocation :
        /\ gs[i].mode = fs[i].mode
        /\ gs[i].parent = fs[i].parent
        /\ gs[i].lineage = fs[i].lineage
        /\ gs[i].session = fs[i].session
        /\ gs[i].blocked = fs[i].blocked
        /\ gs[i].pending = fs[i].pending
        /\ gs[i].closed = over(i)
        /\ gs[i].children = left(i)
  <2> HIDE DEF over, left, gs
  <2> QED
    BY <1>1, <1>3 DEF Frame
<1>7. Captured(gs) = Captured(fs)
  BY <1>6 DEF Captured
<1>8. Open(gs) = Open(fs) \ C
  <2>1. \A i \in Captured(fs) : i \in Invocation
    BY DEF Captured
  <2> QED
    BY <1>6, <1>7, <2>1 DEF Open
<1>9. ChildrenCounted(gs)
  <2> SUFFICES ASSUME NEW i \in Invocation
               PROVE  gs[i].children = Cardinality(OpenChildren(gs, i))
    BY DEF ChildrenCounted
  <2>1. OpenChildren(gs, i) = kids(i) \ C
    <3>1. \A c \in Open(fs) : c \in Invocation
      BY DEF Open, Captured
    <3> QED
      BY <1>6, <1>8, <3>1 DEF OpenChildren
  <2> QED
    BY <1>2, <1>6, <2>1
<1>10. Lineages(gs)
  <2> HIDE DEF gs
  <2> QED
    BY <1>6, LineagesKeep DEF FramesOK
<1>11. BlocksReachUp(gs)
  <2>1. \A i \in Captured(fs) : i \in Invocation /\ fs[i].lineage \subseteq Invocation
    BY DEF FramesOK, Lineages, Captured
  <2> HIDE DEF gs
  <2> SUFFICES ASSUME NEW i \in Invocation, gs[i].blocked
               PROVE  i \in Captured(gs) /\ \A j \in gs[i].lineage : gs[j].blocked
    BY DEF BlocksReachUp
  <2>2. i \in Captured(fs) /\ fs[i].blocked
    BY <1>6 DEF FramesOK, BlocksReachUp
  <2>3. \A j \in fs[i].lineage : fs[j].blocked
    BY <2>2 DEF FramesOK, BlocksReachUp
  <2> QED
    BY <1>6, <1>7, <2>1, <2>2, <2>3
<1>12. OpenAncestors(gs)
  <2> HIDE DEF gs
  <2>0. \A i \in Invocation : gs[i].closed => i \in Captured(gs)
    BY <1>6, <1>7 DEF FramesOK, OpenAncestors, Open
  <2> SUFFICES ASSUME NEW d \in Open(gs), NEW j \in gs[d].lineage, gs[j].closed
               PROVE  gs[j].blocked
    BY <2>0 DEF OpenAncestors
  <2>1. d \in Open(fs) /\ d \notin C /\ d \in Captured(fs) /\ d \in Invocation
    BY <1>8 DEF Open, Captured
  <2>2. j \in fs[d].lineage /\ j \in Captured(fs) /\ j \in Invocation
    BY <1>6, <2>1 DEF FramesOK, Lineages, Captured
  <2>3. CASE fs[j].closed
    BY <1>6, <2>1, <2>2, <2>3 DEF FramesOK, OpenAncestors
  <2>4. CASE j \in C /\ j \in Open(fs)
    <3>1. PICK c \in fs[d].lineage : fs[c].parent = j
      BY <2>1, <2>2, <2>4 DEF FramesOK, Lineages
    <3>2. c \in Captured(fs) /\ c \in Invocation
      BY <2>1 DEF FramesOK, Lineages, Captured
    <3>3. CASE fs[c].closed
      <4>1. fs[c].blocked
        BY <2>1, <3>3 DEF FramesOK, OpenAncestors
      <4>2. j \in fs[c].lineage
        BY <2>2, <3>1, <3>2, NoneAssumption DEF FramesOK, Lineages
      <4>3. fs[j].blocked
        BY <3>2, <4>1, <4>2 DEF FramesOK, BlocksReachUp
      <4> QED
        BY <1>6, <2>2, <4>3
    <3>4. CASE ~fs[c].closed
      <4>1. c \in kids(j)
        BY <3>1, <3>2, <3>4 DEF OpenChildren, Open
      <4>2. kids(j) \in SUBSET Invocation
        BY DEF OpenChildren, Open, Captured
      <4>3. Cardinality(kids(j)) # 0
        BY <4>1, <4>2, FS_Subset, FS_EmptySet, FiniteAssumption
      <4>4. fs[j].children # 0
        BY <2>2, <4>3 DEF FramesOK, ChildrenCounted
      <4> QED
        BY <1>6, <2>2, <2>4, <4>4
    <3> QED
      BY <3>3, <3>4
  <2> QED
    BY <1>6, <2>2, <2>3, <2>4
<1> QED
  BY <1>5, <1>6, <1>7, <1>8, <1>9, <1>10, <1>11, <1>12 DEF FramesOK, FramesTyped

-----------------------------------------------------------------------------
(* devEffect *)

LEMMA SameTreeTransitive ==
  ASSUME NEW fs, NEW gs, NEW hs, SameTree(fs, gs), SameTree(gs, hs)
  PROVE  SameTree(fs, hs)
BY DEF SameTree, SameLinks

(* Projecting a call leaves the tree in order; every frame that keeps its   *)
(* evidence and is a target counts one more effect.                         *)
LEMMA RecordCallKeeps ==
  ASSUME NEW fs, FramesOK(fs), NEW i \in Invocation, NEW e \in Effect, NEW kind,
         NEW of \in Effect \cup {None}, kind = "body" => of \in Effect, NEW recordable
  PROVE  LET gs == RecordCall(fs, i, e, kind, of, recordable)
         IN  /\ FramesOK(gs)
             /\ SameTree(fs, gs)
             /\ Captured(gs) = Captured(fs)
             /\ Open(gs) = Open(fs)
             /\ \A j \in Invocation :
                  /\ fs[j].blocked => gs[j].blocked
                  /\ fs[j].closed => gs[j].blocked = fs[j].blocked
                  /\ gs[j].pending = IF j \in Projections(fs, i) /\ ~gs[j].blocked
                                     THEN fs[j].pending + 1
                                     ELSE fs[j].pending
<1> DEFINE targets == Projections(fs, i)
           failures == CallFailures(fs, i, kind, of, recordable)
           numbered == [j \in Invocation |->
                          IF j \in targets THEN [fs[j] EXCEPT !.nextId = @ + 1] ELSE fs[j]]
           cut == Block(numbered, failures)
           note(j) == [kind |-> "call", id |-> fs[j].nextId, effect |-> e,
                       responseId |-> ResponseNumber(fs, i, j, kind, of)]
           counted(j) == [cut[j] EXCEPT !.pending = @ + 1]
           gs == RecordCall(fs, i, e, kind, of, recordable)
<1>1. \A j \in Invocation : fs[j] \in Frame
  BY DEF FramesOK, FramesTyped
<1>2. FramesTyped(numbered)
  <2>1. ASSUME NEW j \in Invocation
        PROVE  [fs[j] EXCEPT !.nextId = @ + 1] \in Frame
    <3>1. fs[j] \in Frame /\ fs[j].nextId + 1 \in Nat
      BY <1>1 DEF Frame
    <3> QED
      BY <3>1, FrameUpdate
  <2> HIDE DEF targets
  <2> QED
    BY <1>1, <2>1 DEF FramesTyped
<1>3. SameTree(fs, numbered) /\ \A j \in Invocation :
        numbered[j].blocked = fs[j].blocked /\ numbered[j].pending = fs[j].pending
  <2> HIDE DEF targets
  <2> QED
    BY <1>1 DEF SameTree, SameLinks, Frame
<1>4. FramesOK(numbered) /\ Captured(numbered) = Captured(fs) /\ Open(numbered) = Open(fs)
  <2> HIDE DEF numbered
  <2> QED
    BY <1>2, <1>3, NotesKeep DEF SameTree
<1>5. failures \in SUBSET Invocation
  BY DEF CallFailures, Projections, FramesOK, FramesTyped, Frame
<1>6. /\ FramesOK(cut) /\ Captured(cut) = Captured(fs) /\ Open(cut) = Open(fs)
      /\ SameTree(numbered, cut)
      /\ \A j \in Invocation :
           /\ cut[j].pending = numbered[j].pending
           /\ numbered[j].blocked => cut[j].blocked
  <2> HIDE DEF numbered, failures
  <2> QED
    BY <1>4, <1>5, BlockKeeps, BlockFields DEF FramesOK, FramesTyped
<1>16. \A j \in Invocation : fs[j].closed => cut[j].blocked = fs[j].blocked
  <2>1. \A b \in failures : b \in Open(numbered)
    <3>1. \A b \in failures : b \in Captured(fs) /\ ~fs[b].closed
      BY DEF CallFailures, Projections, FramesOK, Lineages
    <3> HIDE DEF failures, numbered
    <3> QED
      BY <1>4, <3>1 DEF Open
  <2>2. \A j \in Invocation : numbered[j].closed = fs[j].closed
    BY <1>3 DEF SameTree, SameLinks
  <2> HIDE DEF numbered, failures
  <2> QED
    BY <1>3, <1>4, <1>5, <2>1, <2>2, BlockSpares
<1>7. SameTree(fs, cut)
  <2> HIDE DEF numbered, cut
  <2> QED
    BY <1>3, <1>6, SameTreeTransitive
<1>8. \A j \in Invocation : cut[j] \in Frame
  <2> HIDE DEF cut
  <2> QED
    BY <1>6 DEF FramesOK, FramesTyped
<1>9. \A j \in Invocation :
        gs[j] = IF j \notin targets \/ cut[j].blocked THEN cut[j]
                ELSE [counted(j) EXCEPT !.trace = Append(@, note(j))]
  <2>1. gs = [j \in Invocation |->
                IF j \notin targets \/ cut[j].blocked THEN cut[j]
                ELSE [cut[j] EXCEPT !.pending = @ + 1, !.trace = Append(@, note(j))]]
    BY DEF RecordCall
  <2>2. \A j \in Invocation :
          [cut[j] EXCEPT !.pending = @ + 1, !.trace = Append(@, note(j))]
            = [counted(j) EXCEPT !.trace = Append(@, note(j))]
    <3> HIDE DEF cut, note
    <3> QED
      BY <1>8 DEF Frame
  <2> HIDE DEF cut, note, counted, gs, targets
  <2> QED
    BY <2>1, <2>2
<1>10. \A j \in Invocation : note(j) \in Event
  <2>1. ASSUME NEW j \in Invocation
        PROVE  ResponseNumber(fs, i, j, kind, of) \in Nat \cup {NoId}
    BY <1>1 DEF ResponseNumber, Frame
  <2>2. \A j \in Invocation : fs[j].nextId \in Nat
    BY <1>1 DEF Frame
  <2> QED
    BY <2>1, <2>2 DEF Event
<1>11. ASSUME NEW j \in Invocation
       PROVE  /\ counted(j) \in Frame
              /\ [counted(j) EXCEPT !.trace = Append(@, note(j))] \in Frame
  <2>1. cut[j] \in Frame /\ cut[j].pending + 1 \in Nat
    <3> HIDE DEF cut
    <3> QED
      BY <1>8 DEF Frame
  <2>2. counted(j) \in Frame
    <3> HIDE DEF cut
    <3> QED
      BY <2>1, FrameUpdate
  <2>3. Append(counted(j).trace, note(j)) \in Seq(Event)
    <3> HIDE DEF counted, note
    <3> QED
      BY <1>10, <2>2 DEF Frame
  <2>4. [counted(j) EXCEPT !.trace = Append(@, note(j))] \in Frame
    <3> HIDE DEF counted, note
    <3> QED
      BY <2>2, <2>3, FrameUpdate
  <2> QED
    BY <2>2, <2>4
<1>12. FramesTyped(gs)
  <2>1. \A j \in Invocation : gs[j] \in Frame
    <3> HIDE DEF gs, cut, note, counted, targets
    <3> QED
      BY <1>8, <1>9, <1>11
  <2> QED
    BY <2>1 DEF FramesTyped, RecordCall
<1>13. /\ SameTree(cut, gs)
       /\ \A j \in Invocation :
            /\ gs[j].blocked = cut[j].blocked
            /\ gs[j].pending = IF j \in targets /\ ~gs[j].blocked
                               THEN cut[j].pending + 1
                               ELSE cut[j].pending
  <2> HIDE DEF gs, cut, note, targets
  <2> SUFFICES ASSUME NEW j \in Invocation
               PROVE  /\ gs[j].mode = cut[j].mode
                      /\ gs[j].parent = cut[j].parent
                      /\ gs[j].lineage = cut[j].lineage
                      /\ gs[j].session = cut[j].session
                      /\ gs[j].generation = cut[j].generation
                      /\ gs[j].children = cut[j].children
                      /\ gs[j].closed = cut[j].closed
                      /\ gs[j].blocked = cut[j].blocked
                      /\ gs[j].pending = IF j \in targets /\ ~gs[j].blocked
                                         THEN cut[j].pending + 1
                                         ELSE cut[j].pending
    BY DEF SameTree, SameLinks
  <2>1. CASE j \notin targets \/ cut[j].blocked
    BY <1>9, <2>1
  <2>2. CASE j \in targets /\ ~cut[j].blocked
    <3>1. cut[j] \in Frame /\ gs[j] = [counted(j) EXCEPT !.trace = Append(@, note(j))]
      BY <1>8, <1>9, <2>2
    <3> QED
      BY <2>2, <3>1 DEF Frame
  <2> QED
    BY <2>1, <2>2
<1>14. FramesOK(gs) /\ Captured(gs) = Captured(cut) /\ Open(gs) = Open(cut)
  <2> HIDE DEF gs, cut
  <2> QED
    BY <1>6, <1>12, <1>13, NotesKeep DEF SameTree
<1>15. SameTree(fs, gs)
  <2> HIDE DEF gs, cut
  <2> QED
    BY <1>7, <1>13, SameTreeTransitive
<1> HIDE DEF gs, cut, numbered
<1> QED
  BY <1>3, <1>6, <1>13, <1>14, <1>15, <1>16 DEF gs

(* Projecting a settlement leaves the tree in order and takes one effect    *)
(* off the count of every frame the call was projected to.                  *)
LEMMA RecordSettlementKeeps ==
  ASSUME NEW fs, FramesOK(fs), NEW i \in Invocation, NEW e \in Effect, NEW kind,
         NEW ids \in [Invocation -> Nat \cup {NoId}], NEW recordable
  PROVE  LET gs == RecordSettlement(fs, i, e, kind, ids, recordable)
         IN  /\ FramesOK(gs)
             /\ SameTree(fs, gs)
             /\ Captured(gs) = Captured(fs)
             /\ Open(gs) = Open(fs)
             /\ \A j \in Invocation :
                  /\ fs[j].blocked => gs[j].blocked
                  /\ (i \in Open(fs) \/ fs[i].blocked \/ i \notin Captured(fs)) =>
                       (fs[j].closed => gs[j].blocked = fs[j].blocked)
                  /\ gs[j].pending = IF ids[j] # NoId THEN OneLess(fs[j].pending)
                                     ELSE fs[j].pending
<1> DEFINE targets == {j \in Invocation : ids[j] # NoId}
           sealed == IF i \in recordable THEN fs ELSE Block(fs, {i})
           live == {j \in targets : ~sealed[j].closed /\ ~sealed[j].blocked}
           counted(j) == [sealed[j] EXCEPT !.pending = OneLess(@)]
           held(j) == [counted(j) EXCEPT
                         !.responses = IF kind = "fetch" THEN [@ EXCEPT ![e] = ids[j]] ELSE @]
           note(j) == [kind |-> "settle", id |-> ids[j], effect |-> e,
                       responseId |-> IF kind = "fetch" THEN ids[j] ELSE NoId]
           noted(j) == [held(j) EXCEPT !.trace = Append(@, note(j))]
           settled == [j \in Invocation |->
                         IF j \notin targets THEN sealed[j]
                         ELSE IF j \notin live THEN counted(j) ELSE noted(j)]
           gs == RecordSettlement(fs, i, e, kind, ids, recordable)
<1>1. /\ FramesOK(sealed) /\ Captured(sealed) = Captured(fs) /\ Open(sealed) = Open(fs)
      /\ SameTree(fs, sealed)
      /\ \A j \in Invocation :
           /\ fs[j].blocked => sealed[j].blocked
           /\ sealed[j].pending = fs[j].pending
  <2>1. CASE i \in recordable
    BY <2>1 DEF SameTree, SameLinks
  <2>2. CASE i \notin recordable
    <3>1. {i} \in SUBSET Invocation /\ FramesTyped(fs)
      BY DEF FramesOK, FramesTyped
    <3>2. sealed = Block(fs, {i})
      BY <2>2
    <3> HIDE DEF sealed
    <3> QED
      BY <3>1, <3>2, BlockKeeps, BlockFields
  <2> QED
    BY <2>1, <2>2
<1>12. ASSUME i \in Open(fs) \/ fs[i].blocked \/ i \notin Captured(fs)
       PROVE  \A j \in Invocation : fs[j].closed => sealed[j].blocked = fs[j].blocked
  <2>1. CASE i \in recordable
    BY <2>1
  <2>2. CASE i \notin recordable
    <3>1. {i} \in SUBSET Invocation /\ \A b \in {i} : b = i
      OBVIOUS
    <3>2. sealed = Block(fs, {i})
      BY <2>2
    <3> HIDE DEF sealed
    <3> QED
      BY <1>12, <3>1, <3>2, BlockSpares
  <2> QED
    BY <2>1, <2>2
<1> HIDE DEF sealed
<1>2. \A j \in Invocation : sealed[j] \in Frame
  BY <1>1 DEF FramesOK, FramesTyped
<1>3. ASSUME NEW j \in targets
      PROVE  counted(j) \in Frame /\ held(j) \in Frame /\ noted(j) \in Frame
  <2>1. j \in Invocation /\ ids[j] \in Nat
    OBVIOUS
  <2>2. sealed[j] \in Frame /\ OneLess(sealed[j].pending) \in Nat
    BY <1>2, <2>1 DEF Frame, OneLess
  <2>3. counted(j) \in Frame
    BY <2>2, FrameUpdate
  <2>4. held(j) \in Frame
    <3> DEFINE r == IF kind = "fetch"
                    THEN [counted(j).responses EXCEPT ![e] = ids[j]]
                    ELSE counted(j).responses
    <3>1. counted(j).responses \in [Effect -> Nat \cup {NoId}]
      <4> HIDE DEF counted
      <4> QED
        BY <2>3 DEF Frame
    <3>2. r \in [Effect -> Nat \cup {NoId}]
      <4> HIDE DEF counted
      <4> QED
        BY <2>1, <3>1
    <3>3. held(j) = [counted(j) EXCEPT !.responses = r]
      OBVIOUS
    <3> HIDE DEF r, held, counted
    <3> QED
      BY <2>3, <3>2, <3>3, FrameUpdate
  <2>5. note(j) \in Event
    BY <2>1 DEF Event
  <2>6. noted(j) \in Frame
    <3> HIDE DEF held, note
    <3>1. Append(held(j).trace, note(j)) \in Seq(Event)
      BY <2>4, <2>5 DEF Frame
    <3> QED
      BY <2>4, <3>1, FrameUpdate
  <2> HIDE DEF counted, held, noted
  <2> QED
    BY <2>3, <2>4, <2>6
<1>4. FramesTyped(settled)
  <2> HIDE DEF targets, live, counted, noted
  <2> QED
    BY <1>2, <1>3 DEF FramesTyped
<1>5. /\ SameTree(sealed, settled)
      /\ \A j \in Invocation :
           /\ settled[j].blocked = sealed[j].blocked
           /\ settled[j].pending = IF j \in targets THEN OneLess(sealed[j].pending)
                                   ELSE sealed[j].pending
  <2> SUFFICES ASSUME NEW j \in Invocation
               PROVE  /\ settled[j].mode = sealed[j].mode
                      /\ settled[j].parent = sealed[j].parent
                      /\ settled[j].lineage = sealed[j].lineage
                      /\ settled[j].session = sealed[j].session
                      /\ settled[j].generation = sealed[j].generation
                      /\ settled[j].children = sealed[j].children
                      /\ settled[j].closed = sealed[j].closed
                      /\ settled[j].blocked = sealed[j].blocked
                      /\ settled[j].pending = IF j \in targets THEN OneLess(sealed[j].pending)
                                              ELSE sealed[j].pending
    BY DEF SameTree, SameLinks
  <2>1. CASE j \notin targets
    <3> HIDE DEF targets, live, counted, noted
    <3> QED
      BY <2>1
  <2>2. CASE j \in targets /\ j \notin live
    <3>1. settled[j] = counted(j) /\ sealed[j] \in Frame
      <4> HIDE DEF targets, live, counted, noted
      <4> QED
        BY <1>2, <2>2
    <3> HIDE DEF settled, targets, live
    <3> QED
      BY <2>2, <3>1 DEF Frame
  <2>3. CASE j \in targets /\ j \in live
    <3>1. settled[j] = noted(j) /\ sealed[j] \in Frame /\ counted(j) \in Frame /\ held(j) \in Frame
      <4> HIDE DEF targets, live, counted, noted, held
      <4> QED
        BY <1>2, <1>3, <2>3
    <3> HIDE DEF settled, targets, live
    <3> QED
      BY <2>3, <3>1 DEF Frame
  <2> QED
    BY <2>1, <2>2, <2>3
<1>6. FramesOK(settled) /\ Captured(settled) = Captured(fs) /\ Open(settled) = Open(fs)
  <2> HIDE DEF settled
  <2> QED
    BY <1>1, <1>4, <1>5, NotesKeep DEF SameTree
<1>7. gs = Block(settled, live \ recordable)
  BY DEF RecordSettlement, sealed
<1>8. live \ recordable \in SUBSET Invocation
  OBVIOUS
<1>9. /\ FramesOK(gs) /\ Captured(gs) = Captured(fs) /\ Open(gs) = Open(fs)
      /\ SameTree(settled, gs)
      /\ \A j \in Invocation :
           /\ gs[j].pending = settled[j].pending
           /\ settled[j].blocked => gs[j].blocked
  <2> HIDE DEF settled, live, gs
  <2> QED
    BY <1>6, <1>7, <1>8, BlockKeeps, BlockFields DEF FramesOK, FramesTyped
<1>13. \A j \in Invocation : settled[j].closed => gs[j].blocked = settled[j].blocked
  <2>1. \A c \in live \ recordable : c \in Open(settled) \/ c \notin Captured(settled)
    <3>1. \A c \in live : c \in Invocation /\ ~sealed[c].closed
      OBVIOUS
    <3>2. \A c \in live : ~settled[c].closed
      <4> HIDE DEF settled, live
      <4> QED
        BY <1>5, <3>1 DEF SameTree, SameLinks
    <3> HIDE DEF settled, live
    <3> QED
      BY <3>2 DEF Open
  <2> HIDE DEF settled, live, gs
  <2> QED
    BY <1>6, <1>7, <1>8, <2>1, BlockSpares
<1>14. ASSUME i \in Open(fs) \/ fs[i].blocked \/ i \notin Captured(fs)
       PROVE  \A j \in Invocation : fs[j].closed => gs[j].blocked = fs[j].blocked
  <2>1. \A j \in Invocation : settled[j].closed = sealed[j].closed /\ sealed[j].closed = fs[j].closed
    <3> HIDE DEF settled
    <3> QED
      BY <1>1, <1>5 DEF SameTree, SameLinks
  <2> HIDE DEF settled, gs
  <2> QED
    BY <1>5, <1>12, <1>13, <1>14, <2>1
<1>10. SameTree(fs, gs)
  <2> HIDE DEF settled, gs
  <2> QED
    BY <1>1, <1>5, <1>9, SameTreeTransitive
<1>11. \A j \in Invocation : j \in targets <=> ids[j] # NoId
  OBVIOUS
<1> HIDE DEF gs, settled, targets
<1> QED
  BY <1>1, <1>5, <1>9, <1>10, <1>11, <1>14 DEF gs

-----------------------------------------------------------------------------
(* observeDevCall *)

InSession(fs, i, n) == [fs EXCEPT ![i].session = n]

(* A call that gets no frame leaves the tree in order.                      *)
LEMMA WithoutFrameKeeps ==
  ASSUME NEW fs, FramesOK(fs), NEW i \in Invocation, fs[i].mode = "fresh",
         NEW n \in Nat, NEW mode \in {"native", "uncaptured"}
  PROVE  LET gs == WithoutFrame(InSession(fs, i, n), i, mode)
         IN  /\ FramesOK(gs)
             /\ SameLinks(fs, gs)
             /\ Captured(gs) = Captured(fs)
             /\ Open(gs) = Open(fs)
             /\ gs[i].mode = mode
             /\ gs[i].session = n
             /\ \A j \in Invocation \ {i} : gs[j] = fs[j]
             /\ \A j \in Invocation :
                  gs[j].blocked = fs[j].blocked /\ gs[j].pending = fs[j].pending
<1> DEFINE f == [fs[i] EXCEPT !.session = n]
           g == [f EXCEPT !.mode = mode]
           gs == WithoutFrame(InSession(fs, i, n), i, mode)
<1>1. fs \in [Invocation -> Frame] /\ fs[i] \in Frame
  BY DEF FramesOK
<1>2. f \in Frame
  BY <1>1, FrameUpdate
<1>3. g \in Frame
  <2> HIDE DEF f
  <2> QED
    BY <1>2, FrameUpdate DEF Modes
<1>4. gs = [fs EXCEPT ![i] = g]
  BY <1>1 DEF WithoutFrame, InSession
<1>5. /\ g.mode = mode /\ g.session = n /\ g.parent = fs[i].parent
      /\ g.lineage = fs[i].lineage /\ g.children = fs[i].children /\ g.closed = fs[i].closed
      /\ g.blocked = fs[i].blocked /\ g.pending = fs[i].pending
  BY <1>1 DEF Frame
<1> HIDE DEF g, gs
<1>6. gs[i] = g /\ \A j \in Invocation \ {i} : gs[j] = fs[j]
  BY <1>1, <1>4
<1>7. FramesTyped(gs)
  BY <1>1, <1>3, <1>4 DEF FramesTyped
<1>8. SameLinks(fs, gs)
  BY <1>5, <1>6 DEF SameLinks
<1>9. \A j \in Invocation : gs[j].blocked = fs[j].blocked /\ gs[j].pending = fs[j].pending
  BY <1>5, <1>6
<1>10. FramesOK(gs) /\ Captured(gs) = Captured(fs) /\ Open(gs) = Open(fs)
  BY <1>7, <1>8, <1>9, NotesKeep DEF SameTree
<1> QED
  BY <1>5, <1>6, <1>8, <1>9, <1>10 DEF gs

Entered(fs, p, i, f) ==
  [(IF p = None THEN fs ELSE [fs EXCEPT ![p].children = @ + 1]) EXCEPT ![i] = f]

(* A new frame, under an open parent or none, leaves the tree in order.     *)
LEMMA EnterKeeps ==
  ASSUME NEW fs, FramesOK(fs), NEW i \in Invocation, fs[i].mode = "fresh",
         NEW p \in Open(fs) \cup {None},
         NEW f \in Frame,
         f.mode = "captured", f.parent = p, f.children = 0, ~f.closed, ~f.blocked,
         f.lineage = {i} \cup IF p = None THEN {} ELSE fs[p].lineage
  PROVE  LET gs == Entered(fs, p, i, f)
         IN  /\ FramesOK(gs)
             /\ Captured(gs) = Captured(fs) \cup {i}
             /\ Open(gs) = Open(fs) \cup {i}
             /\ gs[i] = f
             /\ \A j \in Invocation \ {i} :
                  /\ gs[j].mode = fs[j].mode
                  /\ gs[j].session = fs[j].session
                  /\ gs[j].closed = fs[j].closed
                  /\ gs[j].blocked = fs[j].blocked
                  /\ gs[j].pending = fs[j].pending
<1> DEFINE more == [fs[p] EXCEPT !.children = @ + 1]
           counted == IF p = None THEN fs ELSE [fs EXCEPT ![p].children = @ + 1]
           gs == [counted EXCEPT ![i] = f]
<1>1. fs \in [Invocation -> Frame]
  BY DEF FramesOK
<1>2. /\ i \notin Captured(fs) /\ Captured(fs) \subseteq Invocation /\ Open(fs) \subseteq Captured(fs)
      /\ p # None => p \in Open(fs) /\ p \in Captured(fs) /\ p \in Invocation /\ p # i
  BY DEF Captured, Open
<1>3. /\ counted \in [Invocation -> Frame]
      /\ \A j \in Invocation :
           /\ counted[j].mode = fs[j].mode
           /\ counted[j].parent = fs[j].parent
           /\ counted[j].lineage = fs[j].lineage
           /\ counted[j].session = fs[j].session
           /\ counted[j].closed = fs[j].closed
           /\ counted[j].blocked = fs[j].blocked
           /\ counted[j].pending = fs[j].pending
           /\ counted[j].children = IF j = p THEN fs[j].children + 1 ELSE fs[j].children
  <2>1. CASE p = None
    BY <1>1, <2>1, NoneAssumption
  <2>2. CASE p # None
    <3>1. fs[p] \in Frame /\ fs[p].children + 1 \in Nat
      BY <1>1, <1>2, <2>2 DEF Frame
    <3>2. more \in Frame
      BY <3>1, FrameUpdate
    <3>3. counted = [fs EXCEPT ![p] = more]
      BY <1>1, <2>2
    <3>4. /\ more.mode = fs[p].mode /\ more.parent = fs[p].parent /\ more.lineage = fs[p].lineage
          /\ more.session = fs[p].session /\ more.closed = fs[p].closed
          /\ more.blocked = fs[p].blocked /\ more.pending = fs[p].pending
          /\ more.children = fs[p].children + 1
      BY <3>1 DEF Frame
    <3> HIDE DEF more, counted
    <3> QED
      BY <1>1, <1>2, <2>2, <3>2, <3>3, <3>4
  <2> QED
    BY <2>1, <2>2
<1> HIDE DEF counted
<1>12. gs = Entered(fs, p, i, f)
  BY DEF Entered, counted
<1>4. FramesTyped(gs) /\ gs[i] = f /\ \A j \in Invocation \ {i} : gs[j] = counted[j]
  BY <1>3 DEF FramesTyped
<1> HIDE DEF gs
<1>5. Captured(gs) = Captured(fs) \cup {i}
  BY <1>3, <1>4 DEF Captured
<1>6. Open(gs) = Open(fs) \cup {i}
  BY <1>2, <1>3, <1>4, <1>5 DEF Open
<1>7. Lineages(gs)
  <2> SUFFICES ASSUME NEW d \in Invocation
               PROVE  IF d \in Captured(gs)
                      THEN /\ d \in gs[d].lineage
                           /\ gs[d].lineage \subseteq Captured(gs)
                           /\ gs[d].parent \in gs[d].lineage \cup {None}
                           /\ \A j \in gs[d].lineage : gs[j].lineage \subseteq gs[d].lineage
                           /\ \A j \in gs[d].lineage \ {d} :
                                \E c \in gs[d].lineage : gs[c].parent = j
                      ELSE gs[d].lineage = {}
    BY DEF Lineages
  <2>1. Lineages(fs)
    BY DEF FramesOK
  <2>2. CASE d # i
    <3>1. gs[d].lineage = fs[d].lineage /\ gs[d].parent = fs[d].parent
      BY <1>3, <1>4, <2>2
    <3>2. \A j \in Captured(fs) : /\ j \in Invocation \ {i}
                                  /\ gs[j].lineage = fs[j].lineage
                                  /\ gs[j].parent = fs[j].parent
      BY <1>2, <1>3, <1>4
    <3> QED
      BY <1>5, <2>1, <2>2, <3>1, <3>2 DEF Lineages
  <2>3. CASE d = i
    <3>1. \A j \in Captured(fs) : /\ j \in Invocation \ {i}
                                  /\ gs[j].lineage = fs[j].lineage
                                  /\ gs[j].parent = fs[j].parent
      BY <1>2, <1>3, <1>4
    <3>2. CASE p = None
      BY <1>4, <1>5, <2>3, <3>2
    <3>3. CASE p # None
      <4>1. /\ gs[i].lineage = {i} \cup fs[p].lineage
            /\ gs[i].parent = p
            /\ fs[p].lineage \subseteq Captured(fs)
            /\ p \in fs[p].lineage
        BY <1>2, <1>4, <2>1, <3>3 DEF Lineages
      <4>2. \A j \in gs[i].lineage : gs[j].lineage \subseteq gs[i].lineage
        BY <1>2, <2>1, <3>1, <3>3, <4>1 DEF Lineages
      <4>3. \A j \in gs[i].lineage \ {i} : \E c \in gs[i].lineage : gs[c].parent = j
        <5> SUFFICES ASSUME NEW j \in fs[p].lineage
                     PROVE  \E c \in {i} \cup fs[p].lineage : gs[c].parent = j
          BY <4>1
        <5>1. CASE j = p
          BY <4>1, <5>1
        <5>2. CASE j # p
          <6>1. PICK c \in fs[p].lineage : fs[c].parent = j
            BY <1>2, <2>1, <3>3, <5>2 DEF Lineages
          <6> QED
            BY <3>1, <4>1, <6>1
        <5> QED
          BY <5>1, <5>2
      <4> QED
        BY <1>5, <2>3, <4>1, <4>2, <4>3
    <3> QED
      BY <3>2, <3>3
  <2> QED
    BY <2>2, <2>3
<1>8. ChildrenCounted(gs)
  <2> SUFFICES ASSUME NEW d \in Invocation
               PROVE  gs[d].children = Cardinality(OpenChildren(gs, d))
    BY DEF ChildrenCounted
  <2>1. fs[d].children = Cardinality(OpenChildren(fs, d))
    BY DEF FramesOK, ChildrenCounted
  <2>2. \A c \in Open(fs) : c \in Invocation \ {i} /\ gs[c].parent = fs[c].parent
    BY <1>2, <1>3, <1>4
  <2>3. OpenChildren(fs, d) \in SUBSET Invocation
    BY <1>2 DEF OpenChildren
  <2>4. IsFiniteSet(OpenChildren(fs, d))
    BY <2>3, FS_Subset, FiniteAssumption
  <2>5. CASE d = i
    <3>1. OpenChildren(gs, d) = {}
      <4>1. \A c \in Open(fs) : fs[c].parent # i
        BY <1>2, NoneAssumption DEF FramesOK, Lineages
      <4> QED
        BY <1>2, <1>4, <1>6, <2>2, <2>5, <4>1, NoneAssumption DEF OpenChildren
    <3> QED
      BY <1>4, <2>5, <3>1, FS_EmptySet
  <2>6. CASE d # i /\ d # p
    <3>1. OpenChildren(gs, d) = OpenChildren(fs, d)
      BY <1>4, <1>6, <2>2, <2>6 DEF OpenChildren
    <3> QED
      BY <1>3, <1>4, <2>1, <2>6, <3>1
  <2>7. CASE d = p
    <3>1. OpenChildren(gs, d) = OpenChildren(fs, d) \cup {i}
      BY <1>4, <1>6, <2>2, <2>7 DEF OpenChildren
    <3>2. i \notin OpenChildren(fs, d)
      BY <1>2 DEF OpenChildren
    <3>3. Cardinality(OpenChildren(gs, d)) = Cardinality(OpenChildren(fs, d)) + 1
      BY <2>4, <3>1, <3>2, FS_AddElement
    <3>4. d # i
      BY <1>2, <2>7, NoneAssumption
    <3> QED
      BY <1>3, <1>4, <2>1, <2>7, <3>3, <3>4
  <2> QED
    BY <2>5, <2>6, <2>7
<1>9. BlocksReachUp(gs)
  <2> SUFFICES ASSUME NEW d \in Invocation, gs[d].blocked
               PROVE  d \in Captured(gs) /\ \A j \in gs[d].lineage : gs[j].blocked
    BY DEF BlocksReachUp
  <2>1. d # i /\ fs[d].blocked /\ gs[d].lineage = fs[d].lineage
    BY <1>3, <1>4
  <2>2. d \in Captured(fs) /\ \A j \in fs[d].lineage : fs[j].blocked
    BY <2>1 DEF FramesOK, BlocksReachUp
  <2>3. \A j \in fs[d].lineage : j \in Invocation \ {i}
    BY <1>2, <2>2 DEF FramesOK, Lineages
  <2> QED
    BY <1>3, <1>4, <1>5, <2>1, <2>2, <2>3
<1>10. OpenAncestors(gs)
  <2>0. \A d \in Invocation : gs[d].closed => d \in Captured(gs)
    BY <1>3, <1>4, <1>5 DEF FramesOK, OpenAncestors
  <2> SUFFICES ASSUME NEW d \in Open(gs), NEW j \in gs[d].lineage, gs[j].closed
               PROVE  gs[j].blocked
    BY <2>0 DEF OpenAncestors
  <2>1. \A c \in Open(fs) : \A a \in fs[c].lineage :
          /\ a \in Invocation \ {i}
          /\ fs[a].closed => fs[a].blocked
    BY <1>2 DEF FramesOK, Lineages, OpenAncestors
  <2>2. CASE d = i
    <3>1. j = i \/ (p # None /\ j \in fs[p].lineage)
      BY <1>4, <2>2
    <3> QED
      BY <1>2, <1>3, <1>4, <2>1, <3>1
  <2>3. CASE d # i
    <3>1. d \in Open(fs) /\ j \in fs[d].lineage
      BY <1>2, <1>3, <1>4, <1>6, <2>3
    <3> QED
      BY <1>3, <1>4, <2>1, <3>1
  <2> QED
    BY <2>2, <2>3
<1>11. FramesOK(gs)
  BY <1>4, <1>7, <1>8, <1>9, <1>10 DEF FramesOK, FramesTyped
<1> QED
  BY <1>3, <1>4, <1>5, <1>6, <1>11, <1>12

-----------------------------------------------------------------------------
(* The invariant, over one step *)

(* What no step undoes: an announced call keeps its mode and its session, a *)
(* blocked frame stays blocked, and a closed frame stays as it is.          *)
Forward(fs, gs) ==
  \A i \in Invocation :
    /\ fs[i].mode # "fresh" => gs[i].mode = fs[i].mode /\ gs[i].session = fs[i].session
    /\ fs[i].blocked => gs[i].blocked
    /\ fs[i].closed => gs[i].closed /\ gs[i].blocked = fs[i].blocked

LEMMA InitOK == Init => IInv
<1> SUFFICES ASSUME Init
             PROVE  IInv
  OBVIOUS
<1>1. Unused \in Frame
  BY NoneAssumption DEF Unused, Frame, Modes, NoId
<1>2. frame \in [Invocation -> Frame] /\ \A i \in Invocation : frame[i] = Unused
  BY <1>1 DEF Init
<1>3. Captured(frame) = {} /\ Open(frame) = {}
  BY <1>2 DEF Captured, Open, Unused
<1>4. FramesOK(frame)
  <2>1. Lineages(frame)
    BY <1>2, <1>3 DEF Lineages, Unused
  <2>2. ChildrenCounted(frame)
    BY <1>2, <1>3, FS_EmptySet DEF ChildrenCounted, OpenChildren, Unused
  <2>3. BlocksReachUp(frame) /\ OpenAncestors(frame)
    BY <1>2, <1>3 DEF BlocksReachUp, OpenAncestors, Unused
  <2> QED
    BY <1>2, <2>1, <2>2, <2>3 DEF FramesOK
<1>5. TypeOK
  <2>1. effect \in [Effect -> NativeEffect]
    BY DEF Init, NativeEffect
  <2>2. history \in Seq([kind : {"call", "settle"}, effect : Effect])
    BY DEF Init
  <2>3. configuration \in 0 .. MaxSession /\ sessions \in 0 .. MaxSession
    BY LimitAssumption DEF Init
  <2>4. returned \in [Invocation -> BOOLEAN] /\ extent \in [Invocation -> SUBSET Invocation]
    BY DEF Init
  <2>5. /\ observations \subseteq Observation
        /\ reports \subseteq [invocation : Invocation, session : Nat]
        /\ accepting \in BOOLEAN /\ waiting \in BOOLEAN
    BY DEF Init
  <2> QED
    BY <1>2, <2>1, <2>2, <2>3, <2>4, <2>5 DEF TypeOK
<1>6. EffectsPlaced /\ PendingCounted
  BY <1>3 DEF Init, EffectsPlaced, PendingCounted
<1>7. Sealed /\ Reported
  BY <1>2, <1>3 DEF Init, Sealed, Reported, Unused
<1> QED
  BY <1>3, <1>4, <1>5, <1>6, <1>7 DEF IInv, SessionOfOpen, FlushDrains

LEMMA ConfigureStep ==
  ASSUME IInv, Configure
  PROVE  IInv'
<1>1. UNCHANGED <<frame, observations, reports, returned, extent, effect, history, waiting>>
  BY DEF Configure, captureVars, programVars
<1>2. TypeOK'
  BY <1>1, LimitAssumption DEF IInv, TypeOK, Configure
<1>3. FramesOK(frame)'
  BY <1>1 DEF IInv
<1>4. EffectsPlaced' /\ PendingCounted' /\ Sealed' /\ Reported'
  BY <1>1 DEF IInv, EffectsPlaced, PendingCounted, Sealed, Reported, RunningIn
<1>5. SessionOfOpen'
  BY <1>1 DEF IInv, SessionOfOpen, Configure
<1> QED
  BY <1>2, <1>3, <1>4, <1>5 DEF IInv, FlushDrains, Configure

LEMMA FlushBeginStep ==
  ASSUME IInv, FlushBegin
  PROVE  IInv'
<1>1. UNCHANGED <<frame, observations, reports, returned, extent, effect, history,
                  configuration, sessions>>
  BY DEF FlushBegin, captureVars, programVars
<1>2. TypeOK'
  BY <1>1 DEF IInv, TypeOK, FlushBegin
<1>3. FramesOK(frame)'
  BY <1>1 DEF IInv
<1>4. EffectsPlaced' /\ PendingCounted' /\ Sealed' /\ Reported' /\ SessionOfOpen'
  BY <1>1 DEF IInv, EffectsPlaced, PendingCounted, Sealed, Reported, RunningIn, SessionOfOpen
<1>5. FlushDrains'
  BY <1>1 DEF FlushBegin, FlushDrains
<1> QED
  BY <1>2, <1>3, <1>4, <1>5 DEF IInv

(* The losses of a step are reported by the step. *)
LEMMA ReportedKept ==
  ASSUME NEW gs, IInv, FramesOK(gs), Forward(frame, gs), frame' = gs,
         reports \cup BlockReports(frame, gs) \subseteq reports',
         \A i \in Invocation :
           gs[i].mode = "uncaptured" =>
             frame[i].mode = "uncaptured" \/ \E r \in reports' : r.session = gs[i].session,
         \A i \in Invocation :
           returned'[i] => gs[i].mode # "fresh" /\ (i \in Captured(gs) => gs[i].closed)
  PROVE  Reported'
<1>1. ASSUME NEW i \in Invocation, gs[i].blocked
      PROVE  \E r \in reports' : r.session = gs[i].session
  <2>1. CASE frame[i].blocked
    <3>1. frame[i].mode # "fresh"
      BY <2>1 DEF IInv, FramesOK, BlocksReachUp, Captured
    <3> QED
      BY <2>1, <3>1 DEF IInv, Reported, Forward
  <2>2. CASE ~frame[i].blocked
    <3>1. [invocation |-> i, session |-> gs[i].session] \in BlockReports(frame, gs)
      BY <1>1, <2>2 DEF BlockReports
    <3> QED
      BY <3>1
  <2> QED
    BY <2>1, <2>2
<1>2. ASSUME NEW i \in Invocation, gs[i].mode = "uncaptured"
      PROVE  \E r \in reports' : r.session = gs[i].session
  <2>1. CASE frame[i].mode = "uncaptured"
    BY <2>1 DEF IInv, Reported, Forward
  <2> QED
    BY <1>2, <2>1
<1> QED
  BY <1>1, <1>2 DEF Reported

(* A step that emits nothing and closes no frame that kept its evidence.    *)
LEMMA SealedKept ==
  ASSUME NEW gs, IInv, Forward(frame, gs), frame' = gs, UNCHANGED observations,
         \A i \in Captured(gs) :
           gs[i].closed /\ ~gs[i].blocked =>
             i \in Captured(frame) /\ frame[i].closed /\ gs[i].pending = 0
  PROVE  Sealed'
<1>1. ASSUME NEW i \in Captured(gs), gs[i].closed, ~gs[i].blocked
      PROVE  gs[i].pending = 0 /\ \E o \in observations : o.invocation = i
  <2>1. i \in Invocation /\ i \in Captured(frame) /\ frame[i].closed /\ gs[i].pending = 0
    BY <1>1 DEF Captured
  <2>2. ~frame[i].blocked
    BY <1>1, <2>1 DEF Forward
  <2> QED
    BY <2>1, <2>2 DEF IInv, Sealed
<1>2. ASSUME NEW o \in observations
      PROVE  /\ o.invocation \in Captured(gs)
             /\ gs[o.invocation].closed
             /\ ~gs[o.invocation].blocked
  <2>1. /\ o.invocation \in Captured(frame) /\ o.invocation \in Invocation
        /\ frame[o.invocation].closed /\ ~frame[o.invocation].blocked
    BY DEF IInv, Sealed, Captured
  <2> QED
    BY <2>1 DEF Forward, Captured
<1> QED
  BY <1>1, <1>2 DEF Sealed

LEMMA CommitTyped ==
  ASSUME NEW gs, IInv, FramesOK(gs), Commit(gs)
  PROVE  /\ frame' = gs
         /\ FramesOK(frame)'
         /\ frame' \in [Invocation -> Frame]
         /\ reports' = reports \cup BlockReports(frame, gs)
         /\ reports' \subseteq [invocation : Invocation, session : Nat]
         /\ waiting' \in BOOLEAN
<1>1. BlockReports(frame, gs) \subseteq [invocation : Invocation, session : Nat]
  BY DEF BlockReports, FramesOK, Frame
<1>2. FramesOK(frame)'
  BY DEF Commit
<1> QED
  BY <1>1, <1>2 DEF Commit, IInv, TypeOK, FramesOK

(* Frames that stay open or close: a flush sees the same or fewer.          *)
LEMMA FlushKept ==
  ASSUME IInv, UNCHANGED <<accepting, waiting>>, Open(frame)' \subseteq Open(frame)
  PROVE  FlushDrains'
BY DEF IInv, FlushDrains

LEMMA CommitFlush ==
  ASSUME NEW gs, IInv, Commit(gs), Open(gs) \subseteq Open(frame), accepting' \in BOOLEAN,
         ~accepting' => ~accepting \/ Open(gs) = {}
  PROVE  FlushDrains'
BY DEF IInv, FlushDrains, Commit

LEMMA AbandonStep ==
  ASSUME IInv, NEW i \in Invocation, Abandon(i)
  PROVE  IInv'
<1> DEFINE bs == Block(frame, {i})
           gs == Close(bs, {i})
<1>1. FramesOK(frame) /\ {i} \in SUBSET Invocation /\ i \in Open(frame)
  BY DEF IInv, Abandon
<1>2. FramesOK(bs) /\ Captured(bs) = Captured(frame) /\ Open(bs) = Open(frame) /\ SameTree(frame, bs)
  BY <1>1, BlockKeeps, BlockFields DEF FramesOK, FramesTyped
<1>3. \A j \in Invocation :
        /\ bs[j].blocked <=> frame[j].blocked \/ \E b \in {i} : j \in frame[b].lineage
        /\ bs[j].pending = frame[j].pending
  BY <1>1, BlockFields DEF FramesOK, FramesTyped
<1>4. bs[i].blocked
  BY <1>1, <1>3 DEF FramesOK, Lineages, Open
<1>5. \A j \in Invocation : frame[j].closed => bs[j].blocked = frame[j].blocked
  BY <1>1, BlockSpares
<1> HIDE DEF bs
<1>6. /\ FramesOK(gs) /\ Captured(gs) = Captured(frame) /\ Open(gs) = Open(frame) \ {i}
      /\ \A j \in Invocation :
           /\ gs[j].mode = bs[j].mode /\ gs[j].session = bs[j].session
           /\ gs[j].blocked = bs[j].blocked /\ gs[j].pending = bs[j].pending
           /\ gs[j].closed <=> bs[j].closed \/ (j \in {i} /\ j \in Open(bs))
  <2>1. \A j \in {i} : j \in Open(bs) => bs[j].blocked \/ bs[j].children = 0
    BY <1>4
  <2> QED
    BY <1>1, <1>2, <2>1, CloseKeeps
<1>7. Commit(gs)
  BY DEF Abandon, bs
<1> HIDE DEF gs
<1>8. Forward(frame, gs)
  BY <1>2, <1>3, <1>5, <1>6 DEF Forward, SameTree, SameLinks
<1>9. UNCHANGED <<configuration, accepting, sessions, observations, returned, extent, effect, history>>
  BY DEF Abandon, programVars
<1>10. TypeOK'
  BY <1>6, <1>7, <1>9, CommitTyped DEF IInv, TypeOK
<1>11. frame' = gs /\ FramesOK(frame)'
  BY <1>6, <1>7, CommitTyped
<1>12. SessionOfOpen'
  BY <1>2, <1>6, <1>9, <1>11 DEF IInv, SessionOfOpen, SameTree, Open, Captured
<1>13. EffectsPlaced' /\ PendingCounted'
  BY <1>2, <1>3, <1>6, <1>9, <1>11 DEF IInv, EffectsPlaced, PendingCounted, RunningIn, Captured
<1>14. Sealed'
  <2>1. \A j \in Captured(gs) :
          gs[j].closed /\ ~gs[j].blocked =>
            j \in Captured(frame) /\ frame[j].closed /\ gs[j].pending = 0
    BY <1>2, <1>3, <1>4, <1>6 DEF IInv, Sealed, Captured, SameTree, SameLinks
  <2> QED
    BY <1>8, <1>9, <1>11, <2>1, SealedKept
<1>15. Reported'
  <2>1. reports \cup BlockReports(frame, gs) \subseteq reports'
    BY <1>6, <1>7, CommitTyped
  <2>2. \A j \in Invocation : gs[j].mode = frame[j].mode
    BY <1>2, <1>6 DEF SameTree
  <2>3. \A j \in Invocation :
          returned'[j] => gs[j].mode # "fresh" /\ (j \in Captured(gs) => gs[j].closed)
    BY <1>2, <1>6, <1>8, <1>9, <2>2 DEF IInv, Reported, Forward
  <2> QED
    BY <1>6, <1>8, <1>11, <2>1, <2>2, <2>3, ReportedKept
<1>16. FlushDrains'
  BY <1>6, <1>7, <1>9, CommitFlush DEF IInv, TypeOK
<1> QED
  BY <1>10, <1>11, <1>12, <1>13, <1>14, <1>15, <1>16 DEF IInv

(* Sweeping blocks and closes every open frame and touches no other.        *)
LEMMA SweepKeeps ==
  ASSUME NEW fs, FramesOK(fs)
  PROVE  /\ FramesOK(Sweep(fs))
         /\ Captured(Sweep(fs)) = Captured(fs)
         /\ Open(Sweep(fs)) = {}
         /\ Forward(fs, Sweep(fs))
         /\ \A j \in Invocation :
              /\ Sweep(fs)[j].mode = fs[j].mode
              /\ Sweep(fs)[j].pending = fs[j].pending
              /\ Sweep(fs)[j].closed <=> fs[j].closed \/ j \in Open(fs)
              /\ j \in Open(fs) => Sweep(fs)[j].blocked
<1> DEFINE bs == Block(fs, Open(fs))
           gs == Sweep(fs)
<1>1. Open(fs) \in SUBSET Invocation /\ FramesTyped(fs)
  BY DEF Open, Captured, FramesOK, FramesTyped
<1>2. FramesOK(bs) /\ Captured(bs) = Captured(fs) /\ Open(bs) = Open(fs) /\ SameTree(fs, bs)
  BY <1>1, BlockKeeps, BlockFields
<1>3. \A j \in Invocation :
        /\ bs[j].blocked <=> fs[j].blocked \/ \E b \in Open(fs) : j \in fs[b].lineage
        /\ bs[j].pending = fs[j].pending
  BY <1>1, BlockFields
<1>4. \A j \in Open(fs) : bs[j].blocked
  BY <1>1, <1>3 DEF FramesOK, Lineages, Open
<1>5. \A j \in Invocation : fs[j].closed => bs[j].blocked = fs[j].blocked
  BY <1>1, BlockSpares
<1>6. gs = Close(bs, Open(fs))
  BY <1>1, <1>2 DEF Sweep, Close, OpenChildren, Open, Captured
<1> HIDE DEF bs, gs
<1>7. /\ FramesOK(gs) /\ Captured(gs) = Captured(fs) /\ Open(gs) = Open(fs) \ Open(fs)
      /\ \A j \in Invocation :
           /\ gs[j].mode = bs[j].mode /\ gs[j].session = bs[j].session
           /\ gs[j].blocked = bs[j].blocked /\ gs[j].pending = bs[j].pending
           /\ gs[j].closed <=> bs[j].closed \/ (j \in Open(fs) /\ j \in Open(bs))
  BY <1>1, <1>2, <1>4, <1>6, CloseKeeps
<1>8. Forward(fs, gs)
  BY <1>2, <1>3, <1>5, <1>7 DEF Forward, SameTree, SameLinks
<1> QED
  BY <1>1, <1>2, <1>3, <1>4, <1>7, <1>8 DEF gs, SameTree, SameLinks

LEMMA SweepStep ==
  ASSUME IInv, Commit(Sweep(frame)),
         configuration' \in 0 .. MaxSession, accepting' \in BOOLEAN,
         UNCHANGED <<sessions, observations, returned, extent, effect, history>>
  PROVE  IInv'
<1> DEFINE gs == Sweep(frame)
<1>1. FramesOK(frame)
  BY DEF IInv
<1>2. /\ FramesOK(gs) /\ Captured(gs) = Captured(frame) /\ Open(gs) = {} /\ Forward(frame, gs)
      /\ \A j \in Invocation :
           /\ gs[j].mode = frame[j].mode
           /\ gs[j].pending = frame[j].pending
           /\ gs[j].closed <=> frame[j].closed \/ j \in Open(frame)
           /\ j \in Open(frame) => gs[j].blocked
  BY <1>1, SweepKeeps
<1> HIDE DEF gs
<1>3. Commit(gs)
  BY DEF gs
<1>4. TypeOK'
  BY <1>2, <1>3, CommitTyped DEF IInv, TypeOK
<1>5. frame' = gs /\ FramesOK(frame)'
  BY <1>2, <1>3, CommitTyped
<1>6. SessionOfOpen'
  BY <1>2, <1>5 DEF SessionOfOpen
<1>7. EffectsPlaced' /\ PendingCounted'
  <2>1. EffectsPlaced'
    BY <1>2, <1>5 DEF IInv, EffectsPlaced
  <2>2. \A j \in Captured(frame) : j \in Invocation
    BY DEF Captured
  <2>3. \A j \in Captured(frame) : ~gs[j].blocked => gs[j].pending = Cardinality(RunningIn(j))
    BY <1>2, <2>2 DEF IInv, PendingCounted, Forward
  <2> QED
    BY <1>2, <1>5, <2>1, <2>3 DEF PendingCounted, RunningIn
<1>8. Sealed'
  <2>1. \A j \in Captured(gs) :
          gs[j].closed /\ ~gs[j].blocked =>
            j \in Captured(frame) /\ frame[j].closed /\ gs[j].pending = 0
    BY <1>2 DEF IInv, Sealed, Captured, Forward
  <2> QED
    BY <1>2, <1>5, <2>1, SealedKept
<1>9. Reported'
  <2>1. reports \cup BlockReports(frame, gs) \subseteq reports'
    BY <1>2, <1>3, CommitTyped
  <2>2. \A j \in Invocation :
          returned'[j] => gs[j].mode # "fresh" /\ (j \in Captured(gs) => gs[j].closed)
    BY <1>2 DEF IInv, Reported, Forward
  <2> QED
    BY <1>2, <1>5, <2>1, <2>2, ReportedKept
<1>10. FlushDrains'
  BY <1>2, <1>3, CommitFlush
<1> QED
  BY <1>4, <1>5, <1>6, <1>7, <1>8, <1>9, <1>10 DEF IInv

LEMMA TeardownStep ==
  ASSUME IInv, Teardown
  PROVE  IInv'
<1>1. configuration' \in 0 .. MaxSession /\ accepting' \in BOOLEAN
  <2>1. 0 \in 0 .. MaxSession
    BY LimitAssumption
  <2>2. configuration' = 0 /\ accepting' = FALSE
    BY DEF Teardown
  <2> QED
    BY <2>1, <2>2
<1>2. UNCHANGED <<sessions, observations, returned, extent, effect, history>>
  BY DEF Teardown, programVars
<1>3. Commit(Sweep(frame))
  BY DEF Teardown
<1> QED
  BY <1>1, <1>2, <1>3, SweepStep

LEMMA FlushTimeoutStep ==
  ASSUME IInv, FlushTimeout
  PROVE  IInv'
<1>1. configuration' \in 0 .. MaxSession /\ accepting' \in BOOLEAN
  BY DEF FlushTimeout, IInv, TypeOK
<1>2. UNCHANGED <<sessions, observations, returned, extent, effect, history>>
  BY DEF FlushTimeout, programVars
<1>3. Commit(Sweep(frame))
  BY DEF FlushTimeout
<1> QED
  BY <1>1, <1>2, <1>3, SweepStep

-----------------------------------------------------------------------------
(* Effects *)

(* A step of devEffect: frames note and lose evidence, none opens or closes.*)
LEMMA EffectStep ==
  ASSUME NEW gs, IInv, FramesOK(gs), SameTree(frame, gs), Commit(gs),
         Captured(gs) = Captured(frame), Open(gs) = Open(frame),
         \A j \in Invocation :
           /\ frame[j].blocked => gs[j].blocked
           /\ frame[j].closed => gs[j].blocked = frame[j].blocked,
         \A j \in Captured(frame) :
           frame[j].closed /\ ~frame[j].blocked => gs[j].pending = 0,
         UNCHANGED <<configuration, accepting, sessions, observations, returned, extent>>,
         effect' \in [Effect -> NativeEffect],
         history' \in Seq([kind : {"call", "settle"}, effect : Effect]),
         EffectsPlaced', PendingCounted'
  PROVE  IInv'
<1>1. Forward(frame, gs)
  BY DEF Forward, SameTree, SameLinks
<1>2. frame' = gs /\ FramesOK(frame)'
  BY CommitTyped
<1>3. TypeOK'
  BY CommitTyped DEF IInv, TypeOK
<1>4. SessionOfOpen'
  BY <1>2 DEF IInv, SessionOfOpen, SameTree, Open, Captured
<1>5. Sealed'
  <2>1. \A j \in Captured(gs) :
          gs[j].closed /\ ~gs[j].blocked =>
            j \in Captured(frame) /\ frame[j].closed /\ gs[j].pending = 0
    BY DEF Captured, SameTree, SameLinks
  <2> QED
    BY <1>1, <1>2, <2>1, SealedKept
<1>6. Reported'
  <2>1. reports \cup BlockReports(frame, gs) \subseteq reports'
    BY CommitTyped
  <2>2. \A j \in Invocation :
          returned'[j] => gs[j].mode # "fresh" /\ (j \in Captured(gs) => gs[j].closed)
    BY DEF IInv, Reported, SameTree, SameLinks
  <2>3. \A j \in Invocation : gs[j].mode = frame[j].mode
    BY DEF SameTree
  <2> QED
    BY <1>1, <1>2, <2>1, <2>2, <2>3, ReportedKept
<1>7. FlushDrains'
  BY CommitFlush DEF IInv, TypeOK
<1> QED
  BY <1>2, <1>3, <1>4, <1>5, <1>6, <1>7 DEF IInv

LEMMA FinitelyManyRun ==
  ASSUME NEW j \in Invocation
  PROVE  IsFiniteSet(RunningIn(j)) /\ Cardinality(RunningIn(j)) \in Nat
<1>1. RunningIn(j) \in SUBSET Effect
  BY DEF RunningIn
<1> QED
  BY <1>1, FS_Subset, FS_CardinalityType, FiniteAssumption

LEMMA UnknownEffectStep ==
  ASSUME IInv, NEW i \in Invocation, NEW e \in Effect, UnknownEffect(i, e)
  PROVE  IInv'
<1> DEFINE gs == IF Records(i) THEN Block(frame, {i}) ELSE frame
<1>1. FramesOK(frame) /\ {i} \in SUBSET Invocation /\ FramesTyped(frame)
  BY DEF IInv, FramesOK, FramesTyped
<1>2. /\ FramesOK(gs) /\ SameTree(frame, gs)
      /\ Captured(gs) = Captured(frame) /\ Open(gs) = Open(frame)
      /\ \A j \in Invocation :
           /\ frame[j].blocked => gs[j].blocked
           /\ frame[j].closed => gs[j].blocked = frame[j].blocked
           /\ gs[j].pending = frame[j].pending
  <2>1. CASE Records(i)
    <3>1. i \in Open(frame) /\ gs = Block(frame, {i})
      BY <2>1 DEF Records
    <3> HIDE DEF gs
    <3> QED
      BY <1>1, <3>1, BlockKeeps, BlockFields, BlockSpares
  <2>2. CASE ~Records(i)
    BY <1>1, <2>2 DEF SameTree, SameLinks
  <2> QED
    BY <2>1, <2>2
<1>3. Commit(gs)
  BY DEF UnknownEffect
<1> HIDE DEF gs
<1>4. effect' = [effect EXCEPT ![e].status = "settled", ![e].context = i]
  BY DEF UnknownEffect
<1>5. effect \in [Effect -> NativeEffect] /\ effect[e] \in NativeEffect
  BY DEF IInv, TypeOK
<1>6. /\ effect' \in [Effect -> NativeEffect]
      /\ effect'[e].status = "settled"
      /\ \A d \in Effect \ {e} : effect'[d] = effect[d]
  <2> DEFINE n == [effect[e] EXCEPT !.status = "settled", !.context = i]
  <2>1. effect' = [effect EXCEPT ![e] = n]
    BY <1>4, <1>5
  <2>2. n \in NativeEffect /\ n.status = "settled"
    BY <1>5 DEF NativeEffect
  <2> HIDE DEF n
  <2> QED
    BY <1>5, <2>1, <2>2
<1>7. \A j \in Invocation : RunningIn(j)' = RunningIn(j)
  BY <1>6 DEF RunningIn, UnknownEffect
<1>8. frame' = gs
  BY <1>3 DEF Commit
<1>9. EffectsPlaced'
  BY <1>2, <1>6, <1>8 DEF IInv, EffectsPlaced
<1>10. PendingCounted'
  BY <1>2, <1>7, <1>8 DEF IInv, PendingCounted, Captured
<1>11. history' \in Seq([kind : {"call", "settle"}, effect : Effect])
  BY DEF IInv, TypeOK, UnknownEffect
<1>12. \A j \in Captured(frame) : frame[j].closed /\ ~frame[j].blocked => gs[j].pending = 0
  BY <1>2 DEF IInv, Sealed, Captured
<1>13. UNCHANGED <<configuration, accepting, sessions, observations, returned, extent>>
  BY DEF UnknownEffect
<1> QED
  BY <1>2, <1>3, <1>6, <1>9, <1>10, <1>11, <1>12, <1>13, EffectStep

LEMMA AsyncEffectStep ==
  ASSUME IInv, NEW i \in Invocation, NEW e \in Effect, NEW kind \in Kinds,
         NEW of \in Effect \cup {None}, NEW recordable,
         AsyncEffect(i, e, kind, of, recordable)
  PROVE  IInv'
<1> DEFINE gs == IF Records(i) THEN RecordCall(frame, i, e, kind, of, recordable) ELSE frame
           ids == IdsOf(i)
           n == [status |-> "running", kind |-> kind, context |-> i, of |-> of, ids |-> ids]
<1>1. FramesOK(frame)
  BY DEF IInv
<1>2. kind = "body" => of \in Effect
  BY DEF AsyncEffect, Perform, Subject
<1>3. /\ FramesOK(gs) /\ SameTree(frame, gs)
      /\ Captured(gs) = Captured(frame) /\ Open(gs) = Open(frame)
      /\ \A j \in Invocation :
           /\ frame[j].blocked => gs[j].blocked
           /\ frame[j].closed => gs[j].blocked = frame[j].blocked
           /\ gs[j].pending = IF Records(i) /\ j \in Projections(frame, i) /\ ~gs[j].blocked
                              THEN frame[j].pending + 1
                              ELSE frame[j].pending
  <2>1. CASE Records(i)
    <3>1. gs = RecordCall(frame, i, e, kind, of, recordable)
      BY <2>1
    <3> HIDE DEF gs
    <3> QED
      BY <1>1, <1>2, <2>1, <3>1, RecordCallKeeps
  <2>2. CASE ~Records(i)
    BY <1>1, <2>2 DEF SameTree, SameLinks
  <2> QED
    BY <2>1, <2>2
<1>4. /\ Commit(gs)
      /\ effect' = [effect EXCEPT ![e] = n]
      /\ effect[e].status = "fresh"
      /\ UNCHANGED <<configuration, accepting, sessions, observations, returned, extent>>
  BY DEF AsyncEffect, Perform
<1> HIDE DEF gs
<1>5. /\ \A j \in Invocation : ids[j] # NoId <=> Records(i) /\ j \in Projections(frame, i)
      /\ ids \in [Invocation -> Nat \cup {NoId}]
  BY DEF IdsOf, NoId, IInv, FramesOK, Frame
<1> HIDE DEF ids
<1>6. n \in NativeEffect
  BY <1>5 DEF NativeEffect
<1>7. /\ effect' \in [Effect -> NativeEffect]
      /\ effect'[e] = n
      /\ \A d \in Effect \ {e} : effect'[d] = effect[d]
  <2> HIDE DEF n
  <2> QED
    BY <1>4, <1>6 DEF IInv, TypeOK
<1>8. frame' = gs
  BY <1>4 DEF Commit
<1>9. EffectsPlaced'
  <2> SUFFICES ASSUME NEW d \in Effect, effect'[d].status = "running"
               PROVE  /\ effect'[d].context \in Invocation
                      /\ \A j \in Invocation :
                           effect'[d].ids[j] # NoId =>
                             /\ j \in Captured(gs)
                             /\ effect'[d].ids[effect'[d].context] # NoId
    BY <1>8 DEF EffectsPlaced
  <2>1. CASE d = e
    <3>1. effect'[d].context = i /\ effect'[d].ids = ids
      BY <1>7, <2>1
    <3>2. ASSUME NEW j \in Invocation, ids[j] # NoId
          PROVE  j \in Captured(frame) /\ ids[i] # NoId
      <4>1. Records(i) /\ j \in Projections(frame, i)
        BY <1>5, <3>2
      <4>2. i \in Projections(frame, i)
        BY <1>1, <4>1 DEF Records, Projections, Open, FramesOK, Lineages
      <4> QED
        BY <1>1, <1>5, <4>1, <4>2 DEF Projections, FramesOK, Lineages
    <3> QED
      BY <1>3, <3>1, <3>2
  <2>2. CASE d # e
    BY <1>3, <1>7, <2>2 DEF IInv, EffectsPlaced
  <2> QED
    BY <2>1, <2>2
<1>10. PendingCounted'
  <2> SUFFICES ASSUME NEW j \in Captured(gs), ~gs[j].blocked
               PROVE  gs[j].pending = Cardinality(RunningIn(j)')
    BY <1>8 DEF PendingCounted
  <2>1. j \in Invocation /\ frame[j].pending = Cardinality(RunningIn(j))
    BY <1>3 DEF IInv, PendingCounted, Captured
  <2>2. e \notin RunningIn(j) /\ IsFiniteSet(RunningIn(j))
    BY <1>4, <2>1, FinitelyManyRun DEF RunningIn
  <2>3. CASE Records(i) /\ j \in Projections(frame, i)
    <3>1. RunningIn(j)' = RunningIn(j) \cup {e}
      BY <1>5, <1>7, <2>1, <2>3 DEF RunningIn
    <3>2. Cardinality(RunningIn(j)') = Cardinality(RunningIn(j)) + 1
      BY <2>2, <3>1, FS_AddElement
    <3> QED
      BY <1>3, <2>1, <2>3, <3>2
  <2>4. CASE ~(Records(i) /\ j \in Projections(frame, i))
    <3>1. RunningIn(j)' = RunningIn(j)
      BY <1>4, <1>5, <1>7, <2>1, <2>4 DEF RunningIn
    <3> QED
      BY <1>3, <2>1, <2>4, <3>1
  <2> QED
    BY <2>3, <2>4
<1>11. history' \in Seq([kind : {"call", "settle"}, effect : Effect])
  BY DEF IInv, TypeOK, AsyncEffect
<1>12. \A j \in Captured(frame) : frame[j].closed /\ ~frame[j].blocked => gs[j].pending = 0
  BY <1>3 DEF IInv, Sealed, Captured, Projections
<1> QED
  BY <1>3, <1>4, <1>7, <1>9, <1>10, <1>11, <1>12, EffectStep

LEMMA SettleEffectStep ==
  ASSUME IInv, NEW e \in Effect, NEW recordable, SettleEffect(e, recordable)
  PROVE  IInv'
<1> DEFINE i == effect[e].context
           ids == effect[e].ids
           tracked == \E j \in Invocation : ids[j] # NoId
           gs == IF tracked
                 THEN RecordSettlement(frame, i, e, effect[e].kind, ids, recordable)
                 ELSE frame
<1>1. FramesOK(frame)
  BY DEF IInv
<1>2. /\ effect[e].status = "running"
      /\ effect' = [effect EXCEPT ![e].status = "settled"]
      /\ Commit(gs)
      /\ UNCHANGED <<configuration, accepting, sessions, observations, returned, extent>>
  BY DEF SettleEffect
<1>3. /\ effect \in [Effect -> NativeEffect] /\ effect[e] \in NativeEffect
      /\ ids \in [Invocation -> Nat \cup {NoId}]
      /\ i \in Invocation
  BY <1>2 DEF IInv, TypeOK, NativeEffect, EffectsPlaced
<1>4. \A j \in Invocation : ids[j] # NoId => e \in RunningIn(j)
  BY <1>2 DEF RunningIn
<1>5. ASSUME tracked
      PROVE  i \in Open(frame) \/ frame[i].blocked
  <2>1. i \in Captured(frame) /\ ids[i] # NoId
    BY <1>2, <1>3, <1>5 DEF IInv, EffectsPlaced
  <2>2. CASE frame[i].closed /\ ~frame[i].blocked
    <3>1. frame[i].pending = 0 /\ frame[i].pending = Cardinality(RunningIn(i))
      BY <2>1, <2>2 DEF IInv, Sealed, PendingCounted
    <3>2. RunningIn(i) = {}
      BY <1>3, <3>1, FinitelyManyRun, FS_EmptySet
    <3> QED
      BY <1>3, <1>4, <2>1, <3>2
  <2> QED
    BY <2>1, <2>2 DEF Open
<1>6. /\ FramesOK(gs) /\ SameTree(frame, gs)
      /\ Captured(gs) = Captured(frame) /\ Open(gs) = Open(frame)
      /\ \A j \in Invocation :
           /\ frame[j].blocked => gs[j].blocked
           /\ frame[j].closed => gs[j].blocked = frame[j].blocked
           /\ gs[j].pending = IF ids[j] # NoId THEN OneLess(frame[j].pending)
                              ELSE frame[j].pending
  <2>1. CASE tracked
    <3>1. gs = RecordSettlement(frame, i, e, effect[e].kind, ids, recordable)
      BY <2>1
    <3> HIDE DEF gs, i, ids, tracked
    <3> QED
      BY <1>1, <1>3, <1>5, <2>1, <3>1, RecordSettlementKeeps
  <2>2. CASE ~tracked
    BY <1>1, <2>2 DEF SameTree, SameLinks
  <2> QED
    BY <2>1, <2>2
<1> HIDE DEF gs
<1>7. /\ effect' \in [Effect -> NativeEffect]
      /\ effect'[e].status = "settled"
      /\ \A d \in Effect \ {e} : effect'[d] = effect[d]
  <2> DEFINE n == [effect[e] EXCEPT !.status = "settled"]
  <2>1. effect' = [effect EXCEPT ![e] = n]
    BY <1>2, <1>3
  <2>2. n \in NativeEffect /\ n.status = "settled"
    BY <1>3 DEF NativeEffect
  <2> HIDE DEF n
  <2> QED
    BY <1>3, <2>1, <2>2
<1>8. frame' = gs
  BY <1>2 DEF Commit
<1>9. EffectsPlaced'
  BY <1>6, <1>7, <1>8 DEF IInv, EffectsPlaced
<1>10. PendingCounted'
  <2> SUFFICES ASSUME NEW j \in Captured(gs), ~gs[j].blocked
               PROVE  gs[j].pending = Cardinality(RunningIn(j)')
    BY <1>8 DEF PendingCounted
  <2>1. j \in Invocation /\ frame[j].pending = Cardinality(RunningIn(j))
    BY <1>6 DEF IInv, PendingCounted, Captured
  <2>2. RunningIn(j)' = RunningIn(j) \ {e}
    BY <1>7, <2>1 DEF RunningIn
  <2>3. IsFiniteSet(RunningIn(j)) /\ Cardinality(RunningIn(j)) \in Nat
    BY <2>1, FinitelyManyRun
  <2>4. CASE ids[j] # NoId
    <3>1. e \in RunningIn(j)
      BY <1>4, <2>1, <2>4
    <3>2. Cardinality(RunningIn(j)') = Cardinality(RunningIn(j)) - 1
      BY <2>2, <2>3, <3>1, FS_RemoveElement
    <3>3. Cardinality(RunningIn(j)) > 0
      BY <2>3, <3>1, FS_EmptySet
    <3> QED
      BY <1>6, <2>1, <2>3, <2>4, <3>2, <3>3 DEF OneLess
  <2>5. CASE ids[j] = NoId
    <3>1. RunningIn(j)' = RunningIn(j)
      BY <2>2, <2>5 DEF RunningIn
    <3> QED
      BY <1>6, <2>1, <2>5, <3>1
  <2> QED
    BY <2>4, <2>5
<1>11. history' \in Seq([kind : {"call", "settle"}, effect : Effect])
  BY DEF IInv, TypeOK, SettleEffect
<1>12. \A j \in Captured(frame) : frame[j].closed /\ ~frame[j].blocked => gs[j].pending = 0
  BY <1>6 DEF IInv, Sealed, Captured, OneLess
<1> QED
  BY <1>2, <1>6, <1>7, <1>9, <1>10, <1>11, <1>12, EffectStep

LEMMA SyncEffectStep ==
  ASSUME IInv, NEW i \in Invocation, NEW e \in Effect, NEW recordable, NEW settleable,
         SyncEffect(i, e, recordable, settleable)
  PROVE  IInv'
<1> DEFINE ids == IdsOf(i)
           mid == RecordCall(frame, i, e, "sync", None, recordable)
           gs == IF Records(i) THEN RecordSettlement(mid, i, e, "sync", ids, settleable)
                 ELSE frame
           n == [status |-> "settled", kind |-> "sync", context |-> i, of |-> None, ids |-> ids]
<1>1. FramesOK(frame)
  BY DEF IInv
<1>2. /\ Commit(gs)
      /\ effect' = [effect EXCEPT ![e] = n]
      /\ effect[e].status = "fresh"
      /\ UNCHANGED <<configuration, accepting, sessions, observations, returned, extent>>
  BY DEF SyncEffect, Perform
<1>3. /\ \A j \in Invocation : ids[j] # NoId <=> Records(i) /\ j \in Projections(frame, i)
      /\ ids \in [Invocation -> Nat \cup {NoId}]
  BY DEF IdsOf, NoId, IInv, FramesOK, Frame
<1> HIDE DEF ids
<1>4. /\ FramesOK(gs) /\ SameTree(frame, gs)
      /\ Captured(gs) = Captured(frame) /\ Open(gs) = Open(frame)
      /\ \A j \in Invocation :
           /\ frame[j].blocked => gs[j].blocked
           /\ frame[j].closed => gs[j].blocked = frame[j].blocked
           /\ ~gs[j].blocked => gs[j].pending = frame[j].pending
  <2>1. CASE Records(i)
    <3>1. /\ FramesOK(mid) /\ SameTree(frame, mid)
          /\ Captured(mid) = Captured(frame) /\ Open(mid) = Open(frame)
          /\ \A j \in Invocation :
               /\ frame[j].blocked => mid[j].blocked
               /\ frame[j].closed => mid[j].blocked = frame[j].blocked
               /\ mid[j].pending = IF j \in Projections(frame, i) /\ ~mid[j].blocked
                                   THEN frame[j].pending + 1
                                   ELSE frame[j].pending
      BY <1>1, RecordCallKeeps
    <3> HIDE DEF mid
    <3>2. i \in Open(mid)
      BY <2>1, <3>1 DEF Records
    <3>3. gs = RecordSettlement(mid, i, e, "sync", ids, settleable)
      BY <2>1
    <3> HIDE DEF gs
    <3>4. /\ FramesOK(gs) /\ SameTree(mid, gs)
          /\ Captured(gs) = Captured(mid) /\ Open(gs) = Open(mid)
          /\ \A j \in Invocation :
               /\ mid[j].blocked => gs[j].blocked
               /\ mid[j].closed => gs[j].blocked = mid[j].blocked
               /\ gs[j].pending = IF ids[j] # NoId THEN OneLess(mid[j].pending)
                                  ELSE mid[j].pending
      BY <1>3, <3>1, <3>2, <3>3, RecordSettlementKeeps
    <3>5. SameTree(frame, gs)
      BY <3>1, <3>4, SameTreeTransitive
    <3>6. ASSUME NEW j \in Invocation, ~gs[j].blocked
          PROVE  gs[j].pending = frame[j].pending
      <4>1. ~mid[j].blocked /\ frame[j].pending \in Nat
        BY <1>1, <3>4, <3>6 DEF FramesOK, Frame
      <4> QED
        BY <1>3, <2>1, <3>1, <3>4, <4>1 DEF OneLess
    <3>7. \A j \in Invocation : mid[j].closed = frame[j].closed
      BY <3>1 DEF SameTree, SameLinks
    <3> QED
      BY <3>1, <3>4, <3>5, <3>6, <3>7
  <2>2. CASE ~Records(i)
    BY <1>1, <2>2 DEF SameTree, SameLinks
  <2> QED
    BY <2>1, <2>2
<1> HIDE DEF gs
<1>5. n \in NativeEffect
  BY <1>3 DEF NativeEffect
<1>6. /\ effect' \in [Effect -> NativeEffect]
      /\ effect'[e].status = "settled"
      /\ \A d \in Effect \ {e} : effect'[d] = effect[d]
  <2>1. n.status = "settled"
    OBVIOUS
  <2> HIDE DEF n
  <2> QED
    BY <1>2, <1>5, <2>1 DEF IInv, TypeOK
<1>7. \A j \in Invocation : RunningIn(j)' = RunningIn(j)
  BY <1>2, <1>6 DEF RunningIn
<1>8. frame' = gs
  BY <1>2 DEF Commit
<1>9. EffectsPlaced'
  BY <1>4, <1>6, <1>8 DEF IInv, EffectsPlaced
<1>10. PendingCounted'
  BY <1>4, <1>7, <1>8 DEF IInv, PendingCounted, Captured
<1>11. history' \in Seq([kind : {"call", "settle"}, effect : Effect])
  <2>1. << [kind |-> "call", effect |-> e], [kind |-> "settle", effect |-> e] >>
          \in Seq([kind : {"call", "settle"}, effect : Effect])
    OBVIOUS
  <2>2. history \in Seq([kind : {"call", "settle"}, effect : Effect])
    BY DEF IInv, TypeOK
  <2> QED
    BY <2>1, <2>2 DEF SyncEffect
<1>12. \A j \in Captured(frame) : frame[j].closed /\ ~frame[j].blocked => gs[j].pending = 0
  BY <1>4 DEF IInv, Sealed, Captured
<1> QED
  BY <1>2, <1>4, <1>6, <1>9, <1>10, <1>11, <1>12, EffectStep

-----------------------------------------------------------------------------
(* Calls and completions *)

LEMMA ExtentTyped ==
  ASSUME IInv, NEW i \in Invocation, NEW caller \in Callers, Begin(i, caller)
  PROVE  extent' \in [Invocation -> SUBSET Invocation]
<1>1. extent \in [Invocation -> SUBSET Invocation]
  BY DEF IInv, TypeOK
<1>2. caller = None \/ caller \in Invocation
  BY DEF Callers
<1>3. {i} \cup (IF caller = None THEN {} ELSE extent[caller]) \in SUBSET Invocation
  BY <1>1, <1>2
<1> QED
  BY <1>1, <1>3 DEF Begin

(* A call without a frame: gs is what it leaves, its caller blocked or not. *)
LEMMA UnframedStep ==
  ASSUME NEW gs, IInv, NEW i \in Invocation, NEW caller \in Callers, Begin(i, caller),
         frame' = gs, FramesOK(gs), Forward(frame, gs),
         Captured(gs) = Captured(frame), Open(gs) = Open(frame),
         \A j \in Invocation : /\ gs[j].closed = frame[j].closed
                               /\ gs[j].pending = frame[j].pending
                               /\ j # i => gs[j].mode = frame[j].mode,
         gs[i].mode \in {"native", "uncaptured"},
         reports \cup BlockReports(frame, gs) \subseteq reports',
         reports' \subseteq [invocation : Invocation, session : Nat],
         gs[i].mode = "uncaptured" => \E r \in reports' : r.session = gs[i].session,
         waiting' \in BOOLEAN,
         FlushDrains'
  PROVE  IInv'
<1>1. frame[i].mode = "fresh"
      /\ UNCHANGED <<configuration, accepting, sessions, observations, returned, effect, history>>
  BY DEF Begin
<1>2. TypeOK'
  BY <1>1, ExtentTyped DEF IInv, TypeOK, FramesOK
<1>3. FramesOK(frame)'
  OBVIOUS
<1>4. SessionOfOpen'
  BY <1>1 DEF IInv, SessionOfOpen, Forward, Open, Captured
<1>5. EffectsPlaced' /\ PendingCounted'
  <2>1. EffectsPlaced'
    BY <1>1 DEF IInv, EffectsPlaced
  <2>2. \A j \in Captured(frame) : ~gs[j].blocked => gs[j].pending = Cardinality(RunningIn(j))
    BY DEF IInv, PendingCounted, Forward, Captured
  <2> QED
    BY <1>1, <2>1, <2>2 DEF PendingCounted, RunningIn
<1>6. Sealed'
  <2>1. \A j \in Captured(gs) :
          gs[j].closed /\ ~gs[j].blocked =>
            j \in Captured(frame) /\ frame[j].closed /\ gs[j].pending = 0
    BY DEF IInv, Sealed, Captured, Forward
  <2> QED
    BY <1>1, <2>1, SealedKept
<1>7. Reported'
  <2>1. \A j \in Invocation :
          gs[j].mode = "uncaptured" =>
            frame[j].mode = "uncaptured" \/ \E r \in reports' : r.session = gs[j].session
    OBVIOUS
  <2>2. \A j \in Invocation :
          returned'[j] => gs[j].mode # "fresh" /\ (j \in Captured(gs) => gs[j].closed)
    BY <1>1 DEF IInv, Reported, Captured
  <2> QED
    BY <2>1, <2>2, ReportedKept
<1> QED
  BY <1>2, <1>3, <1>4, <1>5, <1>6, <1>7 DEF IInv

LEMMA CallNativeStep ==
  ASSUME IInv, NEW i \in Invocation, NEW caller \in Callers, CallNative(i, caller)
  PROVE  IInv'
<1> DEFINE gs == WithoutFrame(frame, i, "native")
<1>1. Begin(i, caller) /\ Commit(gs) /\ frame[i].mode = "fresh"
  BY DEF CallNative, Begin
<1>2. FramesOK(frame) /\ frame \in [Invocation -> Frame] /\ frame[i].session \in Nat
  BY DEF IInv, FramesOK, Frame
<1>3. gs = WithoutFrame(InSession(frame, i, frame[i].session), i, "native")
  <2>1. InSession(frame, i, frame[i].session) = frame
    BY <1>2 DEF Frame, InSession
  <2> QED
    BY <2>1
<1> HIDE DEF gs
<1>4. /\ FramesOK(gs) /\ SameLinks(frame, gs)
      /\ Captured(gs) = Captured(frame) /\ Open(gs) = Open(frame)
      /\ gs[i].mode = "native"
      /\ \A j \in Invocation \ {i} : gs[j] = frame[j]
      /\ \A j \in Invocation : gs[j].blocked = frame[j].blocked /\ gs[j].pending = frame[j].pending
  <2> DEFINE n == frame[i].session
             mode == "native"
  <2>1. n \in Nat /\ mode \in {"native", "uncaptured"}
    BY <1>2
  <2>2. gs = WithoutFrame(InSession(frame, i, n), i, mode)
    BY <1>3
  <2>3. mode = "native"
    OBVIOUS
  <2> HIDE DEF n, mode
  <2> QED
    BY <1>1, <1>2, <2>1, <2>2, <2>3, WithoutFrameKeeps
<1>5. Forward(frame, gs)
  BY <1>1, <1>4 DEF Forward, SameLinks
<1>6. \A j \in Invocation : /\ gs[j].closed = frame[j].closed
                            /\ gs[j].pending = frame[j].pending
                            /\ j # i => gs[j].mode = frame[j].mode
  BY <1>4 DEF SameLinks
<1>7. FlushDrains'
  BY <1>1, <1>4, CommitFlush DEF Begin, IInv, TypeOK
<1>8. /\ frame' = gs
      /\ reports \cup BlockReports(frame, gs) \subseteq reports'
      /\ reports' \subseteq [invocation : Invocation, session : Nat]
      /\ waiting' \in BOOLEAN
  BY <1>1, <1>4, CommitTyped
<1> QED
  BY <1>1, <1>4, <1>5, <1>6, <1>7, <1>8, UnframedStep

LEMMA DeclineStep ==
  ASSUME IInv, NEW i \in Invocation, NEW caller \in Callers, Decline(i, caller)
  PROVE  IInv'
<1> DEFINE parent == ParentOf(caller)
           declined == WithoutFrame(InSession(frame, i, configuration), i, "uncaptured")
           gs == IF parent = None THEN declined ELSE Block(declined, {parent})
<1>1. /\ Begin(i, caller) /\ frame[i].mode = "fresh"
      /\ frame' = gs
      /\ reports' = reports \cup BlockReports(frame, gs)
                      \cup IF parent = None
                           THEN {[invocation |-> i, session |-> configuration]}
                           ELSE {}
      /\ UNCHANGED <<waiting, accepting>>
  BY DEF Decline, Begin, InSession
<1>2. FramesOK(frame) /\ frame \in [Invocation -> Frame] /\ configuration \in Nat
  BY LimitAssumption DEF IInv, FramesOK, TypeOK
<1>3. parent # None => parent \in Open(frame) /\ parent \in Invocation
  BY DEF ParentOf, Open, Captured
<1> HIDE DEF parent
<1>4. /\ FramesOK(declined) /\ SameLinks(frame, declined)
      /\ Captured(declined) = Captured(frame) /\ Open(declined) = Open(frame)
      /\ declined[i].mode = "uncaptured" /\ declined[i].session = configuration
      /\ \A j \in Invocation \ {i} : declined[j] = frame[j]
      /\ \A j \in Invocation : /\ declined[j].blocked = frame[j].blocked
                               /\ declined[j].pending = frame[j].pending
  <2> DEFINE mode == "uncaptured"
  <2>1. mode \in {"native", "uncaptured"}
    OBVIOUS
  <2>2. declined = WithoutFrame(InSession(frame, i, configuration), i, mode)
    OBVIOUS
  <2>3. mode = "uncaptured"
    OBVIOUS
  <2> HIDE DEF declined, mode
  <2> QED
    BY <1>1, <1>2, <2>1, <2>2, <2>3, WithoutFrameKeeps
<1> HIDE DEF declined
<1>5. /\ FramesOK(gs) /\ SameTree(declined, gs)
      /\ Captured(gs) = Captured(frame) /\ Open(gs) = Open(frame)
      /\ \A j \in Invocation :
           /\ declined[j].blocked => gs[j].blocked
           /\ declined[j].closed => gs[j].blocked = declined[j].blocked
           /\ gs[j].pending = declined[j].pending
      /\ parent # None => gs[parent].blocked
  <2>1. CASE parent = None
    BY <1>4, <2>1 DEF SameTree, SameLinks
  <2>2. CASE parent # None
    <3>1. {parent} \in SUBSET Invocation /\ FramesTyped(declined)
      BY <1>3, <1>4, <2>2 DEF FramesOK, FramesTyped
    <3>2. \A b \in {parent} : b \in Open(declined)
      BY <1>3, <1>4, <2>2
    <3>3. gs = Block(declined, {parent})
      BY <2>2
    <3>4. parent \in declined[parent].lineage
      BY <1>3, <1>4, <2>2 DEF FramesOK, Lineages, Open
    <3> HIDE DEF gs
    <3>5. /\ FramesOK(gs) /\ SameTree(declined, gs)
          /\ Captured(gs) = Captured(frame) /\ Open(gs) = Open(frame)
      BY <1>4, <3>1, <3>3, BlockKeeps, BlockFields
    <3>6. \A j \in Invocation :
            /\ gs[j].blocked <=>
                 declined[j].blocked \/ \E b \in {parent} : j \in declined[b].lineage
            /\ gs[j].pending = declined[j].pending
      BY <3>1, <3>3, BlockFields
    <3>7. \A j \in Invocation : declined[j].closed => gs[j].blocked = declined[j].blocked
      BY <1>4, <3>1, <3>2, <3>3, BlockSpares
    <3> QED
      BY <1>3, <2>2, <3>4, <3>5, <3>6, <3>7
  <2> QED
    BY <2>1, <2>2
<1> HIDE DEF gs
<1>6. Forward(frame, gs)
  BY <1>1, <1>4, <1>5 DEF Forward, SameTree, SameLinks
<1>7. \A j \in Invocation : /\ gs[j].closed = frame[j].closed
                            /\ gs[j].pending = frame[j].pending
                            /\ j # i => gs[j].mode = frame[j].mode
  BY <1>4, <1>5 DEF SameTree, SameLinks
<1>8. gs[i].mode = "uncaptured" /\ gs[i].session = configuration
  BY <1>4, <1>5 DEF SameTree
<1>9. reports' \subseteq [invocation : Invocation, session : Nat]
  <2>1. BlockReports(frame, gs) \subseteq [invocation : Invocation, session : Nat]
    BY <1>5 DEF BlockReports, FramesOK, Frame
  <2> QED
    BY <1>1, <1>2, <2>1 DEF IInv, TypeOK
<1>12. reports \cup BlockReports(frame, gs) \subseteq reports'
  BY <1>1
<1>10. \E r \in reports' : r.session = gs[i].session
  <2>1. CASE parent = None
    <3>1. [invocation |-> i, session |-> configuration] \in reports'
      BY <1>1, <2>1
    <3> QED
      BY <1>8, <3>1
  <2>2. CASE parent # None
    <3>1. /\ gs[parent].blocked
          /\ frame[parent].session = configuration
          /\ frame[parent].mode = "captured"
      BY <1>3, <1>5, <2>2 DEF IInv, SessionOfOpen, Open, Captured
    <3>2. CASE frame[parent].blocked
      <4>1. \E r \in reports : r.session = frame[parent].session
        BY <1>3, <2>2, <3>2 DEF IInv, Reported
      <4> QED
        BY <1>8, <1>12, <3>1, <4>1
    <3>3. CASE ~frame[parent].blocked
      <4>1. [invocation |-> parent, session |-> gs[parent].session] \in BlockReports(frame, gs)
        BY <1>3, <2>2, <3>1, <3>3 DEF BlockReports
      <4>2. gs[parent].session = configuration
        BY <1>3, <1>6, <2>2, <3>1 DEF Forward
      <4> QED
        BY <1>8, <1>12, <4>1, <4>2
    <3> QED
      BY <3>2, <3>3
  <2> QED
    BY <2>1, <2>2
<1>11. FlushDrains' /\ waiting' \in BOOLEAN
  BY <1>1, <1>5, FlushKept DEF IInv, TypeOK
<1> QED
  BY <1>1, <1>4, <1>5, <1>6, <1>7, <1>8, <1>9, <1>10, <1>11, <1>12, UnframedStep

LEMMA CallCapturedStep ==
  ASSUME IInv, NEW i \in Invocation, NEW caller \in Callers, NEW generation \in Generation,
         NEW encodes \in BOOLEAN, CallCaptured(i, caller, generation, encodes)
  PROVE  IInv'
<1> DEFINE p == ParentOf(caller)
           f == NewFrame(p, i, generation)
           entered == Entered(frame, p, i, f)
           gs == IF encodes THEN entered ELSE Block(entered, {i})
<1>1. /\ Begin(i, caller) /\ frame[i].mode = "fresh"
      /\ Commit(gs)
      /\ configuration # 0 /\ (p # None \/ accepting)
  BY DEF CallCaptured, Begin, Observable, Entered
<1>2. FramesOK(frame) /\ configuration \in Nat
  BY LimitAssumption DEF IInv, TypeOK
<1>3. p \in Open(frame) \cup {None}
  BY DEF ParentOf
<1> HIDE DEF p
<1>4. /\ f \in Frame
      /\ f.mode = "captured" /\ f.parent = p /\ f.children = 0 /\ ~f.closed /\ ~f.blocked
      /\ f.lineage = {i} \cup IF p = None THEN {} ELSE frame[p].lineage
      /\ f.session = configuration /\ f.pending = 0
  <2>1. p \in Invocation \cup {None} /\ (p # None => frame[p].lineage \in SUBSET Invocation)
    BY <1>2, <1>3 DEF Open, Captured, FramesOK, Frame
  <2>2. {i} \cup (IF p = None THEN {} ELSE frame[p].lineage) \in SUBSET Invocation
    BY <2>1
  <2>3. /\ <<>> \in Seq(Event)
        /\ [e \in Effect |-> NoId] \in [Effect -> Nat \cup {NoId}]
    OBVIOUS
  <2> QED
    BY <1>2, <2>1, <2>2, <2>3 DEF NewFrame, Frame, Modes
<1> HIDE DEF f
<1>5. /\ FramesOK(entered)
      /\ Captured(entered) = Captured(frame) \cup {i}
      /\ Open(entered) = Open(frame) \cup {i}
      /\ entered[i] = f
      /\ \A j \in Invocation \ {i} :
           /\ entered[j].mode = frame[j].mode
           /\ entered[j].session = frame[j].session
           /\ entered[j].closed = frame[j].closed
           /\ entered[j].blocked = frame[j].blocked
           /\ entered[j].pending = frame[j].pending
  BY <1>1, <1>2, <1>3, <1>4, EnterKeeps
<1> HIDE DEF entered
<1>6. /\ FramesOK(gs) /\ SameTree(entered, gs)
      /\ Captured(gs) = Captured(entered) /\ Open(gs) = Open(entered)
      /\ \A j \in Invocation :
           /\ entered[j].blocked => gs[j].blocked
           /\ entered[j].closed => gs[j].blocked = entered[j].blocked
           /\ gs[j].pending = entered[j].pending
  <2>1. CASE encodes
    BY <1>5, <2>1 DEF SameTree, SameLinks
  <2>2. CASE ~encodes
    <3>1. {i} \in SUBSET Invocation /\ FramesTyped(entered) /\ \A b \in {i} : b \in Open(entered)
      BY <1>5 DEF FramesOK, FramesTyped
    <3>2. gs = Block(entered, {i})
      BY <2>2
    <3> HIDE DEF gs
    <3> QED
      BY <1>5, <3>1, <3>2, BlockKeeps, BlockFields, BlockSpares
  <2> QED
    BY <2>1, <2>2
<1> HIDE DEF gs
<1>7. i \notin Captured(frame) /\ ~frame[i].blocked /\ Captured(frame) \subseteq Invocation
  BY <1>1, <1>2 DEF Captured, FramesOK, BlocksReachUp
<1>8. ASSUME NEW j \in Invocation \ {i}
      PROVE  /\ gs[j].mode = frame[j].mode /\ gs[j].session = frame[j].session
             /\ gs[j].closed = frame[j].closed /\ gs[j].pending = frame[j].pending
             /\ frame[j].blocked => gs[j].blocked
             /\ frame[j].closed => gs[j].blocked = frame[j].blocked
  BY <1>5, <1>6 DEF SameTree, SameLinks
<1>9. /\ gs[i].mode = "captured" /\ gs[i].session = configuration
      /\ ~gs[i].closed /\ gs[i].pending = 0
  BY <1>4, <1>5, <1>6 DEF SameTree, SameLinks
<1>10. ~frame[i].closed
  BY <1>2, <1>7 DEF FramesOK, OpenAncestors
<1>11. Forward(frame, gs)
  BY <1>1, <1>7, <1>8, <1>9, <1>10 DEF Forward
<1>12. /\ UNCHANGED <<configuration, accepting, sessions, observations, returned, effect, history>>
       /\ frame' = gs
  BY <1>1 DEF Begin, Commit
<1>13. TypeOK'
  BY <1>1, <1>6, <1>12, ExtentTyped, CommitTyped DEF IInv, TypeOK
<1>14. FramesOK(frame)'
  BY <1>1, <1>6, CommitTyped
<1>15. SessionOfOpen'
  <2>1. \A j \in Open(frame) : j \in Invocation \ {i}
    BY <1>7 DEF Open
  <2> QED
    BY <1>1, <1>5, <1>6, <1>8, <1>9, <1>12, <2>1 DEF IInv, SessionOfOpen
<1>16. EffectsPlaced'
  BY <1>5, <1>6, <1>12 DEF IInv, EffectsPlaced
<1>17. PendingCounted'
  <2> SUFFICES ASSUME NEW j \in Captured(gs), ~gs[j].blocked
               PROVE  gs[j].pending = Cardinality(RunningIn(j))
    BY <1>12 DEF PendingCounted, RunningIn
  <2>1. CASE j = i
    <3>1. RunningIn(i) = {}
      BY <1>7 DEF IInv, EffectsPlaced, RunningIn
    <3> QED
      BY <1>9, <2>1, <3>1, FS_EmptySet
  <2>2. CASE j # i
    BY <1>5, <1>6, <1>7, <1>8, <2>2 DEF IInv, PendingCounted
  <2> QED
    BY <2>1, <2>2
<1>18. Sealed'
  <2>1. \A j \in Captured(gs) :
          gs[j].closed /\ ~gs[j].blocked =>
            j \in Captured(frame) /\ frame[j].closed /\ gs[j].pending = 0
    BY <1>5, <1>6, <1>7, <1>8, <1>9 DEF IInv, Sealed
  <2> QED
    BY <1>11, <1>12, <2>1, SealedKept
<1>19. Reported'
  <2>1. reports \cup BlockReports(frame, gs) \subseteq reports'
    BY <1>1, <1>6, CommitTyped
  <2>2. \A j \in Invocation : gs[j].mode = "uncaptured" => frame[j].mode = "uncaptured"
    BY <1>8, <1>9
  <2>3. \A j \in Invocation :
          returned'[j] => gs[j].mode # "fresh" /\ (j \in Captured(gs) => gs[j].closed)
    BY <1>1, <1>8, <1>9, <1>12 DEF IInv, Reported, Captured
  <2> QED
    BY <1>6, <1>11, <1>12, <2>1, <2>2, <2>3, ReportedKept
<1>20. FlushDrains'
  <2>1. ~accepting => p \in Open(frame)
    BY <1>1, <1>3
  <2> QED
    BY <1>1, <1>5, <1>6, <1>12, <2>1 DEF IInv, FlushDrains, Commit
<1> QED
  BY <1>13, <1>14, <1>15, <1>16, <1>17, <1>18, <1>19, <1>20 DEF IInv

(* A return emits the frame when it has its evidence and else blocks it;    *)
(* either way it is closed.                                                 *)
LEMMA ReturnStep ==
  ASSUME IInv, NEW i \in Invocation, NEW encodes \in BOOLEAN, NEW stores \in BOOLEAN,
         Return(i, encodes, stores)
  PROVE  IInv'
<1> DEFINE evidence == i \in Open(frame) /\ ~frame[i].blocked /\ ~Incomplete(frame[i]) /\ encodes
           emits == evidence /\ stores
           kept == IF emits THEN frame ELSE Block(frame, {i})
           gs == IF i \in Open(frame) THEN Close(kept, {i}) ELSE frame
           o == [invocation |-> i, session |-> frame[i].session, trace |-> frame[i].trace]
<1>1. /\ Commit(gs)
      /\ Running(i)
      /\ returned' = [returned EXCEPT ![i] = TRUE]
      /\ observations' = IF emits THEN observations \cup {o} ELSE observations
      /\ UNCHANGED <<configuration, accepting, sessions, extent, effect, history>>
  BY DEF Return
<1>2. FramesOK(frame) /\ {i} \in SUBSET Invocation /\ FramesTyped(frame)
  BY DEF IInv, FramesOK, FramesTyped
<1>3. emits => /\ i \in Open(frame) /\ ~frame[i].blocked
               /\ frame[i].pending = 0 /\ frame[i].children = 0
  BY DEF Incomplete
<1> HIDE DEF emits
<1>4. ASSUME i \in Open(frame)
      PROVE  /\ FramesOK(kept) /\ SameTree(frame, kept)
             /\ Captured(kept) = Captured(frame) /\ Open(kept) = Open(frame)
             /\ \A j \in Invocation :
                  /\ frame[j].blocked => kept[j].blocked
                  /\ frame[j].closed => kept[j].blocked = frame[j].blocked
                  /\ kept[j].pending = frame[j].pending
             /\ IF emits THEN ~kept[i].blocked /\ kept[i].children = 0 ELSE kept[i].blocked
  <2>1. CASE emits
    BY <1>2, <1>3, <2>1 DEF SameTree, SameLinks
  <2>2. CASE ~emits
    <3>1. \A b \in {i} : b \in Open(frame)
      BY <1>4
    <3>2. kept = Block(frame, {i})
      BY <2>2
    <3>3. i \in frame[i].lineage
      BY <1>2, <1>4 DEF FramesOK, Lineages, Open
    <3> HIDE DEF kept
    <3>4. kept[i].blocked
      BY <1>2, <3>2, <3>3, BlockFields
    <3> QED
      BY <1>2, <2>2, <3>1, <3>2, <3>4, BlockKeeps, BlockFields, BlockSpares
  <2> QED
    BY <2>1, <2>2
<1> HIDE DEF kept
<1>5. ASSUME i \in Open(frame)
      PROVE  /\ FramesOK(gs) /\ Captured(gs) = Captured(frame) /\ Open(gs) = Open(frame) \ {i}
             /\ \A j \in Invocation :
                  /\ gs[j].mode = frame[j].mode /\ gs[j].session = frame[j].session
                  /\ gs[j].blocked = kept[j].blocked /\ gs[j].pending = frame[j].pending
                  /\ gs[j].closed <=> frame[j].closed \/ j = i
  <2>1. \A j \in {i} : j \in Open(kept) => kept[j].blocked \/ kept[j].children = 0
    BY <1>4, <1>5
  <2>2. gs = Close(kept, {i})
    BY <1>5
  <2> HIDE DEF gs
  <2>3. /\ FramesOK(gs) /\ Captured(gs) = Captured(kept) /\ Open(gs) = Open(kept) \ {i}
        /\ \A j \in Invocation :
             /\ gs[j].mode = kept[j].mode /\ gs[j].session = kept[j].session
             /\ gs[j].blocked = kept[j].blocked /\ gs[j].pending = kept[j].pending
             /\ gs[j].closed <=> kept[j].closed \/ (j \in {i} /\ j \in Open(kept))
    BY <1>2, <1>4, <1>5, <2>1, <2>2, CloseKeeps
  <2> QED
    BY <1>4, <1>5, <2>3 DEF SameTree, SameLinks
<1>6. i \notin Open(frame) => gs = frame
  OBVIOUS
<1> HIDE DEF gs
<1>7. FramesOK(gs) /\ Captured(gs) = Captured(frame) /\ Open(gs) = Open(frame) \ {i}
  BY <1>2, <1>5, <1>6
<1>8. Forward(frame, gs)
  BY <1>4, <1>5, <1>6 DEF Forward
<1>9. \A j \in Invocation : gs[j].mode = frame[j].mode /\ gs[j].session = frame[j].session
  BY <1>5, <1>6
<1>10. frame' = gs /\ FramesOK(frame)'
  BY <1>1, <1>7, CommitTyped
<1>11. TypeOK'
  <2>1. returned' \in [Invocation -> BOOLEAN]
    BY <1>1 DEF IInv, TypeOK
  <2>2. o \in Observation
    BY <1>2 DEF FramesTyped, Frame, Observation
  <2>3. observations' \subseteq Observation
    <3> HIDE DEF o
    <3> QED
      BY <1>1, <2>2 DEF IInv, TypeOK
  <2> QED
    BY <1>1, <1>7, <2>1, <2>3, CommitTyped DEF IInv, TypeOK
<1>12. SessionOfOpen'
  <2>1. \A j \in Open(frame) : j \in Invocation
    BY DEF Open, Captured
  <2> QED
    BY <1>1, <1>7, <1>9, <1>10, <2>1 DEF IInv, SessionOfOpen
<1>13. EffectsPlaced'
  BY <1>1, <1>7, <1>10 DEF IInv, EffectsPlaced
<1>14. PendingCounted'
  <2>1. \A j \in Captured(frame) : j \in Invocation
    BY DEF Captured
  <2>2. \A j \in Captured(frame) : ~gs[j].blocked => gs[j].pending = Cardinality(RunningIn(j))
    BY <1>5, <1>6, <1>8, <2>1 DEF IInv, PendingCounted, Forward
  <2> QED
    BY <1>1, <1>7, <1>10, <2>2 DEF PendingCounted, RunningIn
<1>15. Sealed'
  <2>1. ASSUME NEW j \in Captured(gs), gs[j].closed, ~gs[j].blocked
        PROVE  gs[j].pending = 0 /\ \E q \in observations' : q.invocation = j
    <3>1. j \in Invocation /\ j \in Captured(frame)
      BY <1>7 DEF Captured
    <3>2. CASE frame[j].closed
      <4>1. ~frame[j].blocked
        BY <1>8, <2>1, <3>1, <3>2 DEF Forward
      <4>2. frame[j].pending = 0 /\ \E q \in observations : q.invocation = j
        BY <3>1, <3>2, <4>1 DEF IInv, Sealed
      <4>3. observations \subseteq observations'
        BY <1>1
      <4> QED
        BY <1>5, <1>6, <3>1, <4>2, <4>3
    <3>3. CASE ~frame[j].closed
      <4>1. i \in Open(frame) /\ j = i
        BY <1>5, <1>6, <2>1, <3>1, <3>3
      <4>2. emits
        BY <1>4, <1>5, <2>1, <4>1
      <4>3. o \in observations' /\ o.invocation = i
        BY <1>1, <4>2
      <4> QED
        BY <1>3, <1>5, <4>1, <4>2, <4>3
    <3> QED
      BY <3>2, <3>3
  <2>2. ASSUME NEW q \in observations'
        PROVE  /\ q.invocation \in Captured(gs)
               /\ gs[q.invocation].closed
               /\ ~gs[q.invocation].blocked
    <3>1. CASE q \in observations
      <4>1. /\ q.invocation \in Captured(frame) /\ q.invocation \in Invocation
            /\ frame[q.invocation].closed /\ ~frame[q.invocation].blocked
        BY <3>1 DEF IInv, Sealed, Captured
      <4> QED
        BY <1>7, <1>8, <4>1 DEF Forward
    <3>2. CASE q \notin observations
      <4>1. emits /\ q.invocation = i
        BY <1>1, <3>2
      <4>2. i \in Open(frame) /\ i \in Captured(frame)
        BY <1>3, <4>1 DEF Open
      <4> QED
        BY <1>4, <1>5, <1>7, <4>1, <4>2
    <3> QED
      BY <3>1, <3>2
  <2> QED
    BY <1>10, <2>1, <2>2 DEF Sealed
<1>16. Reported'
  <2>1. reports \cup BlockReports(frame, gs) \subseteq reports'
    BY <1>1, <1>7, CommitTyped
  <2>2. ASSUME NEW j \in Invocation, returned'[j]
        PROVE  gs[j].mode # "fresh" /\ (j \in Captured(gs) => gs[j].closed)
    <3>1. CASE j = i
      BY <1>1, <1>5, <1>6, <1>7, <1>9, <3>1 DEF Running, Open
    <3>2. CASE j # i
      <4>1. returned[j]
        BY <1>1, <2>2, <3>2 DEF IInv, TypeOK
      <4> QED
        BY <1>7, <1>8, <1>9, <4>1 DEF IInv, Reported, Forward
    <3> QED
      BY <3>1, <3>2
  <2> QED
    BY <1>7, <1>8, <1>9, <1>10, <2>1, <2>2, ReportedKept
<1>17. FlushDrains'
  BY <1>1, <1>7, CommitFlush DEF IInv, TypeOK
<1> QED
  BY <1>10, <1>11, <1>12, <1>13, <1>14, <1>15, <1>16, <1>17 DEF IInv

-----------------------------------------------------------------------------
(* The theorems *)

LEMMA StutterStep ==
  ASSUME IInv, UNCHANGED vars
  PROVE  IInv'
<1>1. UNCHANGED <<configuration, accepting, waiting, sessions, frame, observations,
                  reports, returned, extent, effect, history>>
  BY DEF vars
<1>2. TypeOK' /\ FlushDrains'
  BY <1>1 DEF IInv, TypeOK, FlushDrains
<1>3. FramesOK(frame)' /\ SessionOfOpen' /\ EffectsPlaced'
  BY <1>1 DEF IInv, SessionOfOpen, EffectsPlaced
<1>4. PendingCounted' /\ Sealed' /\ Reported'
  BY <1>1 DEF IInv, PendingCounted, RunningIn, Sealed, Reported
<1> QED
  BY <1>2, <1>3, <1>4 DEF IInv

LEMMA NextStep == IInv /\ [Next]_vars => IInv'
<1> SUFFICES ASSUME IInv, [Next]_vars
             PROVE  IInv'
  OBVIOUS
<1>1. CASE Call
  <2>1. ASSUME NEW i \in Invocation, NEW caller \in Callers, CallNative(i, caller)
        PROVE  IInv'
    BY <2>1, CallNativeStep
  <2>2. ASSUME NEW i \in Invocation, NEW caller \in Callers, NEW generation \in Generation,
               \/ CallMismatched(i, caller, generation)
               \/ CallOverLimit(i, caller, generation)
               \/ CallTampered(i, caller, generation)
        PROVE  IInv'
    BY <2>2, DeclineStep DEF CallMismatched, CallOverLimit, CallTampered
  <2>3. ASSUME NEW i \in Invocation, NEW caller \in Callers, NEW generation \in Generation,
               NEW encodes \in BOOLEAN, CallCaptured(i, caller, generation, encodes)
        PROVE  IInv'
    BY <2>3, CallCapturedStep
  <2> QED
    BY <1>1, <2>1, <2>2, <2>3 DEF Call
<1>2. CASE Outside
  <2>1. ASSUME NEW e \in Effect, NEW recordable \in Recordable, SettleEffect(e, recordable)
        PROVE  IInv'
    BY <2>1, SettleEffectStep
  <2>2. ASSUME NEW e \in Effect, NEW i \in Invocation, UnknownEffect(i, e)
        PROVE  IInv'
    BY <2>2, UnknownEffectStep
  <2>3. ASSUME NEW e \in Effect, NEW i \in Invocation, NEW recordable \in Recordable,
               NEW settleable \in Recordable, SyncEffect(i, e, recordable, settleable)
        PROVE  IInv'
    BY <2>3, SyncEffectStep
  <2>4. ASSUME NEW e \in Effect, NEW i \in Invocation, NEW kind \in Kinds,
               NEW of \in Effect \cup {None}, NEW recordable \in Recordable,
               AsyncEffect(i, e, kind, of, recordable)
        PROVE  IInv'
    BY <2>4, AsyncEffectStep
  <2> QED
    BY <1>2, <2>1, <2>2, <2>3, <2>4 DEF Outside
<1>3. CASE Complete
  <2>1. ASSUME NEW i \in Invocation, Abandon(i)
        PROVE  IInv'
    BY <2>1, AbandonStep
  <2>2. ASSUME NEW i \in Invocation, NEW encodes \in BOOLEAN, NEW stores \in BOOLEAN,
               Return(i, encodes, stores)
        PROVE  IInv'
    BY <2>2, ReturnStep
  <2> QED
    BY <1>3, <2>1, <2>2 DEF Complete
<1>4. CASE Recording
  BY <1>4, ConfigureStep, TeardownStep, FlushBeginStep, FlushTimeoutStep DEF Recording
<1>5. CASE UNCHANGED vars
  BY <1>5, StutterStep
<1> QED
  BY <1>1, <1>2, <1>3, <1>4, <1>5 DEF Next

(* The strengthening holds in every reachable state, for every program.     *)
THEOREM Inductive == Spec => []IInv
<1> QED
  BY InitOK, NextStep, PTL DEF Spec

(* Every variable keeps its type; in particular no counter of a frame is    *)
(* ever decremented below zero, which finish would read as "still pending". *)
THEOREM TypeCorrect == Spec => []TypeOK
<1>1. IInv => TypeOK
  BY DEF IInv
<1> QED
  BY <1>1, Inductive, PTL

(* A frame that lost its evidence has taken every caller along: block walks *)
(* the parents, and no caller can finish with evidence before it does.      *)
THEOREM LossReachesCallers == Spec => []BlockedUpward
<1>1. IInv => BlockedUpward
  BY DEF IInv, FramesOK, BlocksReachUp, BlockedUpward, Captured
<1> QED
  BY <1>1, Inductive, PTL

(* children and pending count what finish takes them to count, however the  *)
(* calls, settlements, blocks, closings and sweeps interleave.              *)
THEOREM CountersExact == Spec => []CountersRight
<1>1. IInv => CountersRight
  <2> SUFFICES ASSUME IInv
               PROVE  CountersRight
    OBVIOUS
  <2>1. \A i \in Captured(frame) : i \in Invocation
    BY DEF Captured
  <2> QED
    BY <2>1 DEF IInv, FramesOK, ChildrenCounted, PendingCounted, RunningIn, CountersRight
<1> QED
  BY <1>1, Inductive, PTL

(* Every announced invocation that is over was either observed or reported  *)
(* lost, and no closed frame is both or neither.                            *)
THEOREM EveryLossReported == Spec => []NothingLost
<1>1. IInv => NothingLost
  <2> SUFFICES ASSUME IInv
               PROVE  NothingLost
    OBVIOUS
  <2>1. ASSUME NEW i \in Captured(frame), frame[i].closed
        PROVE  frame[i].blocked <=> ~\E o \in observations : o.invocation = i
    BY <2>1 DEF IInv, Sealed
  <2>2. ASSUME NEW i \in Invocation, returned[i], frame[i].mode \in {"captured", "uncaptured"}
        PROVE  \/ \E o \in observations : o.invocation = i
               \/ \E r \in reports : r.session = frame[i].session
    <3>1. CASE frame[i].mode = "uncaptured"
      BY <3>1 DEF IInv, Reported
    <3>2. CASE frame[i].mode = "captured"
      <4>1. i \in Captured(frame) /\ frame[i].closed
        BY <2>2, <3>2 DEF IInv, Reported, Captured
      <4> QED
        BY <2>1, <4>1 DEF IInv, Reported
    <3> QED
      BY <2>2, <3>1, <3>2
  <2> QED
    BY <2>1, <2>2 DEF NothingLost
<1> QED
  BY <1>1, Inductive, PTL

(* A flush that has resolved leaves nothing open and lets nothing open.     *)
THEOREM FlushIsComplete == Spec => []FlushDrains
<1>1. IInv => FlushDrains
  BY DEF IInv
<1> QED
  BY <1>1, Inductive, PTL

(* An observation is emitted in its own session and never taken back.       *)
THEOREM SinkDisciplined == Spec => SinkDiscipline
<1> DEFINE Disciplined ==
      /\ observations \subseteq observations'
      /\ \A o \in observations' \ observations :
           o.session = configuration /\ configuration' = configuration
<1>1. IInv /\ [Next]_vars => [Disciplined]_vars
  <2> SUFFICES ASSUME IInv, Next
               PROVE  Disciplined
    OBVIOUS
  <2>1. ASSUME NEW i \in Invocation, NEW encodes \in BOOLEAN, NEW stores \in BOOLEAN,
               Return(i, encodes, stores)
        PROVE  Disciplined
    <3> DEFINE o == [invocation |-> i, session |-> frame[i].session, trace |-> frame[i].trace]
    <3>1. /\ configuration' = configuration
          /\ \/ observations' = observations
             \/ observations' = observations \cup {o} /\ i \in Open(frame)
      BY <2>1 DEF Return
    <3>2. i \in Open(frame) => o.session = configuration
      BY DEF IInv, SessionOfOpen
    <3> HIDE DEF o
    <3> QED
      BY <3>1, <3>2
  <2>2. CASE UNCHANGED observations
    BY <2>2
  <2>3. \/ \E i \in Invocation : \E encodes, stores \in BOOLEAN : Return(i, encodes, stores)
        \/ UNCHANGED observations
    <3>1. CASE Call
      <4>1. ASSUME NEW i \in Invocation, NEW caller \in Callers, CallNative(i, caller)
            PROVE  UNCHANGED observations
        BY <4>1 DEF CallNative, Begin
      <4>2. ASSUME NEW i \in Invocation, NEW caller \in Callers, Decline(i, caller)
            PROVE  UNCHANGED observations
        BY <4>2 DEF Decline, Begin
      <4>3. ASSUME NEW i \in Invocation, NEW caller \in Callers,
                   NEW generation \in Generation, NEW encodes \in BOOLEAN,
                   CallCaptured(i, caller, generation, encodes)
            PROVE  UNCHANGED observations
        BY <4>3 DEF CallCaptured, Begin
      <4> QED
        BY <3>1, <4>1, <4>2, <4>3 DEF Call, CallMismatched, CallOverLimit, CallTampered
    <3>2. CASE Outside
      <4>1. ASSUME NEW i \in Invocation, NEW e \in Effect, NEW kind, NEW of, NEW status,
                   Perform(i, e, kind, of, status)
            PROVE  UNCHANGED observations
        BY <4>1 DEF Perform
      <4>2. ASSUME NEW e \in Effect, NEW recordable, SettleEffect(e, recordable)
            PROVE  UNCHANGED observations
        BY <4>2 DEF SettleEffect
      <4>3. ASSUME NEW i \in Invocation, NEW e \in Effect, UnknownEffect(i, e)
            PROVE  UNCHANGED observations
        BY <4>3 DEF UnknownEffect
      <4>4. ASSUME NEW i \in Invocation, NEW e \in Effect, NEW recordable, NEW settleable,
                   SyncEffect(i, e, recordable, settleable)
            PROVE  UNCHANGED observations
        BY <4>1, <4>4 DEF SyncEffect
      <4>5. ASSUME NEW i \in Invocation, NEW e \in Effect, NEW kind, NEW of, NEW recordable,
                   AsyncEffect(i, e, kind, of, recordable)
            PROVE  UNCHANGED observations
        BY <4>1, <4>5 DEF AsyncEffect
      <4> QED
        BY <3>2, <4>2, <4>3, <4>4, <4>5 DEF Outside
    <3>3. CASE Complete
      BY <3>3 DEF Complete, Abandon
    <3>4. CASE Recording
      BY <3>4 DEF Recording, Configure, Teardown, FlushBegin, FlushTimeout, captureVars
    <3> QED
      BY <3>1, <3>2, <3>3, <3>4 DEF Next
  <2> QED
    BY <2>1, <2>2, <2>3
<1> QED
  BY <1>1, Inductive, PTL DEF Spec, SinkDiscipline

-----------------------------------------------------------------------------
(* Reading a trace, event by event *)

(* Induction over the naturals, without an operator parameter.             *)
LEMMA Induction ==
  ASSUME NEW S \in SUBSET Nat, 0 \in S, \A n \in S : n + 1 \in S
  PROVE  S = Nat
<1> SUFFICES ASSUME Nat \ S # {}
             PROVE  FALSE
  OBVIOUS
<1>1. PICK n \in Nat \ S : \A m \in Nat \ S : ~ (<<m, n>> \in OpToRel(<, Nat))
  BY NatLessThanWellFounded, WFMin
<1>2. n # 0 /\ n \in Nat /\ n \notin S
  OBVIOUS
<1>3. n - 1 \in S
  <2> SUFFICES ASSUME n - 1 \in Nat \ S
               PROVE  FALSE
    BY <1>2, n - 1 \in Nat
  <2>1. <<n - 1, n>> \in OpToRel(<, Nat)
    BY <1>2 DEF OpToRel
  <2> QED
    BY <1>1, <2>1
<1>4. n = (n - 1) + 1
  BY <1>2
<1> QED
  BY <1>2, <1>3, <1>4

Runs(g, N, S, start, step) ==
  /\ \A n \in 0 .. N : g[n] \in S
  /\ g[0] = start
  /\ \A n \in 1 .. N : g[n] = step[n][g[n - 1]]

(* The recursion of a reader has a value at every event,                   *)
LEMMA RunExists ==
  ASSUME NEW S, NEW start \in S, NEW N \in Nat, NEW step \in [1 .. N -> [S -> S]]
  PROVE  \E g \in [0 .. N -> S] : Runs(g, N, S, start, step)
<1> DEFINE Able == {n \in Nat : n <= N => \E g \in [0 .. n -> S] : Runs(g, n, S, start, step)}
<1>1. 0 \in Able
  <2>1. Runs([m \in 0 .. 0 |-> start], 0, S, start, step)
    BY DEF Runs
  <2> QED
    BY <2>1
<1>2. ASSUME NEW n \in Able
      PROVE  n + 1 \in Able
  <2> SUFFICES ASSUME n + 1 <= N
               PROVE  \E g \in [0 .. n + 1 -> S] : Runs(g, n + 1, S, start, step)
    OBVIOUS
  <2>1. PICK g \in [0 .. n -> S] : Runs(g, n, S, start, step)
    BY <1>2
  <2> DEFINE h == [m \in 0 .. n + 1 |-> IF m <= n THEN g[m] ELSE step[n + 1][g[n]]]
  <2>2. g[n] \in S /\ step[n + 1] \in [S -> S]
    BY <2>1 DEF Runs
  <2>3. h \in [0 .. n + 1 -> S] /\ h[0] = start
    BY <2>1, <2>2 DEF Runs
  <2>4. \A m \in 1 .. n + 1 : h[m] = step[m][h[m - 1]]
    BY <2>1 DEF Runs
  <2> QED
    BY <2>3, <2>4 DEF Runs
<1> HIDE DEF Able
<1>3. Able = Nat
  <2>1. Able \in SUBSET Nat
    BY DEF Able
  <2> QED
    BY <1>1, <1>2, <2>1, Induction
<1> QED
  BY <1>3 DEF Able

(* and only one, whichever definition it is taken from.                    *)
LEMMA RunUnique ==
  ASSUME NEW S, NEW start, NEW N \in Nat, NEW M \in Nat, N <= M, NEW step, NEW more,
         \A n \in 1 .. N : step[n] = more[n],
         NEW g, NEW h, Runs(g, N, S, start, step), Runs(h, M, S, start, more)
  PROVE  h[N] = g[N]
<1> DEFINE Same == {n \in Nat : n <= N => h[n] = g[n]}
<1>1. 0 \in Same
  BY DEF Runs
<1>2. ASSUME NEW n \in Same
      PROVE  n + 1 \in Same
  BY DEF Runs
<1> HIDE DEF Same
<1>3. Same = Nat
  <2>1. Same \in SUBSET Nat
    BY DEF Same
  <2> QED
    BY <1>1, <1>2, <2>1, Induction
<1> QED
  BY <1>3 DEF Same

Readers == [ok : BOOLEAN, previousId : Int, pending : SUBSET Int]

StoreStep(t) ==
  [n \in 1 .. Len(t) |->
     [r \in Readers |-> IF ~r.ok THEN Rejected
                        ELSE ReadEvent(r, t[n], t[n].id = r.previousId + 1)]]

ReplayStep(t) ==
  [n \in 1 .. Len(t) |->
     [r \in Readers |-> IF ~r.ok THEN Rejected
                        ELSE ReadEvent(r, t[n], t[n].id > r.previousId)]]

(* What a reader keeps stays well formed.                                  *)
LEMMA ReadTyped ==
  ASSUME NEW r \in Readers, NEW event, event.id \in Int, NEW numbered \in BOOLEAN
  PROVE  ReadEvent(r, event, numbered) \in Readers
<1>1. Rejected \in Readers
  BY DEF Rejected, Readers
<1>2. [r EXCEPT !.previousId = event.id, !.pending = r.pending \cup {event.id}] \in Readers
  <2> DEFINE p == event.id
             q == r.pending \cup {event.id}
  <2>1. p \in Int /\ q \in SUBSET Int
    BY DEF Readers
  <2> HIDE DEF p, q
  <2> SUFFICES [r EXCEPT !.previousId = p, !.pending = q] \in Readers
    BY DEF p, q
  <2> QED
    BY <2>1 DEF Readers
<1>3. [r EXCEPT !.pending = r.pending \ {event.id}] \in Readers
  BY DEF Readers
<1> QED
  BY <1>1, <1>2, <1>3 DEF ReadEvent

(* So does what either reader keeps, event by event.                       *)
LEMMA StepsTyped ==
  ASSUME NEW T, NEW t \in Seq(T), \A event \in T : event.id \in Int
  PROVE  /\ StoreStep(t) \in [1 .. Len(t) -> [Readers -> Readers]]
         /\ ReplayStep(t) \in [1 .. Len(t) -> [Readers -> Readers]]
<1>1. \A n \in 1 .. Len(t) : t[n].id \in Int
  BY ElementOfSeq
<1>2. Rejected \in Readers
  BY DEF Rejected, Readers
<1>3. ASSUME NEW n \in 1 .. Len(t), NEW r \in Readers
      PROVE  /\ ReadEvent(r, t[n], t[n].id = r.previousId + 1) \in Readers
             /\ ReadEvent(r, t[n], t[n].id > r.previousId) \in Readers
  <2> DEFINE p == t[n].id = r.previousId + 1
             q == t[n].id > r.previousId
  <2>1. p \in BOOLEAN /\ q \in BOOLEAN
    OBVIOUS
  <2> HIDE DEF p, q
  <2>2. ReadEvent(r, t[n], p) \in Readers /\ ReadEvent(r, t[n], q) \in Readers
    BY <1>1, <2>1, ReadTyped
  <2> QED
    BY <2>2 DEF p, q
<1> QED
  BY <1>2, <1>3 DEF StoreStep, ReplayStep

(* The values of a reader's recursion.                                     *)
LEMMA RunDefined ==
  ASSUME NEW S, NEW start \in S, NEW N \in Nat, NEW step \in [1 .. N -> [S -> S]],
         NEW f, f[0] = start,
         \A n \in 1 .. N : f[n - 1] \in S => f[n] = step[n][f[n - 1]]
  PROVE  Runs(f, N, S, start, step)
<1> DEFINE Typed == {n \in Nat : n <= N => f[n] \in S}
<1>1. Typed \in SUBSET Nat /\ 0 \in Typed
  OBVIOUS
<1>2. ASSUME NEW n \in Typed
      PROVE  n + 1 \in Typed
  OBVIOUS
<1>3. Typed = Nat
  <2> HIDE DEF Typed
  <2> QED
    BY <1>1, <1>2, Induction
<1>4. \A n \in 0 .. N : f[n] \in S
  BY <1>3
<1> HIDE DEF Typed
<1> QED
  BY <1>4 DEF Runs

(* StoreReader is such a recursion,                                        *)
LEMMA StoreRuns ==
  ASSUME NEW T, NEW t \in Seq(T), \A event \in T : event.id \in Int
  PROVE  \E g : Runs(g, Len(t), Readers, Fresh, StoreStep(t)) /\ StoreReader(t) = g[Len(t)]
<1> DEFINE Reads(g) ==
      g = [n \in 0 .. Len(t) |->
             IF n = 0 THEN Fresh
             ELSE LET r == g[n - 1]
                  IN  IF ~r.ok THEN Rejected
                      ELSE ReadEvent(r, t[n], t[n].id = r.previousId + 1)]
           read == CHOOSE g : Reads(g)
<1>1. Fresh \in Readers /\ Len(t) \in Nat
  BY DEF Fresh, Readers
<1>2. PICK g \in [0 .. Len(t) -> Readers] : Runs(g, Len(t), Readers, Fresh, StoreStep(t))
  BY <1>1, StepsTyped, RunExists
<1>3. Reads(g)
  <2>1. \A n \in 1 .. Len(t) : g[n - 1] \in Readers
    BY <1>1, <1>2 DEF Runs
  <2>2. \A n \in 1 .. Len(t) :
          g[n] = IF ~g[n - 1].ok THEN Rejected
                 ELSE ReadEvent(g[n - 1], t[n], t[n].id = g[n - 1].previousId + 1)
    BY <1>2, <2>1 DEF Runs, StoreStep
  <2> QED
    BY <1>1, <1>2, <2>2 DEF Runs
<1>4. Reads(read)
  <2> HIDE DEF Reads
  <2> QED
    BY <1>3
<1>5. ASSUME NEW f, Reads(f)
      PROVE  Runs(f, Len(t), Readers, Fresh, StoreStep(t))
  <2>1. f[0] = Fresh
    BY <1>1, <1>5
  <2>2. \A n \in 1 .. Len(t) :
          f[n] = IF ~f[n - 1].ok THEN Rejected
                 ELSE ReadEvent(f[n - 1], t[n], t[n].id = f[n - 1].previousId + 1)
    BY <1>1, <1>5
  <2>3. \A n \in 1 .. Len(t) : f[n - 1] \in Readers => f[n] = StoreStep(t)[n][f[n - 1]]
    BY <2>2 DEF StoreStep
  <2> QED
    BY <1>1, <2>1, <2>3, StepsTyped, RunDefined
<1>6. StoreReader(t) = read[Len(t)]
  BY DEF StoreReader
<1> QED
  BY <1>4, <1>5, <1>6

(* and ReplayReader is another.                                            *)
LEMMA ReplayRuns ==
  ASSUME NEW T, NEW t \in Seq(T), \A event \in T : event.id \in Int
  PROVE  \E g : Runs(g, Len(t), Readers, Fresh, ReplayStep(t)) /\ ReplayReader(t) = g[Len(t)]
<1> DEFINE Reads(g) ==
      g = [n \in 0 .. Len(t) |->
             IF n = 0 THEN Fresh
             ELSE LET r == g[n - 1]
                  IN  IF ~r.ok THEN Rejected
                      ELSE ReadEvent(r, t[n], t[n].id > r.previousId)]
           read == CHOOSE g : Reads(g)
<1>1. Fresh \in Readers /\ Len(t) \in Nat
  BY DEF Fresh, Readers
<1>2. PICK g \in [0 .. Len(t) -> Readers] : Runs(g, Len(t), Readers, Fresh, ReplayStep(t))
  BY <1>1, StepsTyped, RunExists
<1>3. Reads(g)
  <2>1. \A n \in 1 .. Len(t) : g[n - 1] \in Readers
    BY <1>1, <1>2 DEF Runs
  <2>2. \A n \in 1 .. Len(t) :
          g[n] = IF ~g[n - 1].ok THEN Rejected
                 ELSE ReadEvent(g[n - 1], t[n], t[n].id > g[n - 1].previousId)
    BY <1>2, <2>1 DEF Runs, ReplayStep
  <2> QED
    BY <1>1, <1>2, <2>2 DEF Runs
<1>4. Reads(read)
  <2> HIDE DEF Reads
  <2> QED
    BY <1>3
<1>5. ASSUME NEW f, Reads(f)
      PROVE  Runs(f, Len(t), Readers, Fresh, ReplayStep(t))
  <2>1. f[0] = Fresh
    BY <1>1, <1>5
  <2>2. \A n \in 1 .. Len(t) :
          f[n] = IF ~f[n - 1].ok THEN Rejected
                 ELSE ReadEvent(f[n - 1], t[n], t[n].id > f[n - 1].previousId)
    BY <1>1, <1>5
  <2>3. \A n \in 1 .. Len(t) : f[n - 1] \in Readers => f[n] = ReplayStep(t)[n][f[n - 1]]
    BY <2>2 DEF ReplayStep
  <2> QED
    BY <1>1, <2>1, <2>3, StepsTyped, RunDefined
<1>6. ReplayReader(t) = read[Len(t)]
  BY DEF ReplayReader
<1> QED
  BY <1>4, <1>5, <1>6

(* Reading one event more is one step more.                                *)
LEMMA ReadersAppend ==
  ASSUME NEW T, NEW t \in Seq(T), NEW event \in T, \A x \in T : x.id \in Int
  PROVE  LET s == StoreReader(t)
             r == ReplayReader(t)
         IN  /\ StoreReader(Append(t, event)) =
                  IF ~s.ok THEN Rejected
                  ELSE ReadEvent(s, event, event.id = s.previousId + 1)
             /\ ReplayReader(Append(t, event)) =
                  IF ~r.ok THEN Rejected
                  ELSE ReadEvent(r, event, event.id > r.previousId)
<1> DEFINE more == Append(t, event)
           n == Len(t)
<1>1. /\ more \in Seq(T)
      /\ Len(more) = n + 1
      /\ \A m \in 1 .. n : more[m] = t[m]
      /\ more[n + 1] = event
      /\ n = Len(t) /\ n \in Nat /\ n + 1 \in Nat /\ n <= n + 1
      /\ n + 1 \in 1 .. n + 1 /\ n \in 0 .. n + 1 /\ (n + 1) - 1 = n
  BY AppendProperties
<1> HIDE DEF more, n
<1>2. /\ \A m \in 1 .. n : StoreStep(t)[m] = StoreStep(more)[m]
      /\ \A m \in 1 .. n : ReplayStep(t)[m] = ReplayStep(more)[m]
  <2> SUFFICES ASSUME NEW m \in 1 .. n
               PROVE  /\ StoreStep(t)[m] = StoreStep(more)[m]
                      /\ ReplayStep(t)[m] = ReplayStep(more)[m]
    OBVIOUS
  <2>1. m \in 1 .. Len(t) /\ m \in 1 .. Len(more) /\ more[m] = t[m]
    BY <1>1
  <2>2. StoreStep(t)[m] = StoreStep(more)[m]
    BY <2>1 DEF StoreStep
  <2>3. ReplayStep(t)[m] = ReplayStep(more)[m]
    BY <2>1 DEF ReplayStep
  <2> QED
    BY <2>2, <2>3
<1>3. StoreReader(more) =
        LET s == StoreReader(t)
        IN  IF ~s.ok THEN Rejected ELSE ReadEvent(s, event, event.id = s.previousId + 1)
  <2>1. PICK g : Runs(g, n, Readers, Fresh, StoreStep(t)) /\ StoreReader(t) = g[n]
    BY StoreRuns DEF n
  <2>2. PICK h : /\ Runs(h, n + 1, Readers, Fresh, StoreStep(more))
                 /\ StoreReader(more) = h[n + 1]
    BY <1>1, StoreRuns
  <2>3. h[n] = g[n]
    <3> DEFINE before == StoreStep(t)
               after == StoreStep(more)
    <3>1. \A m \in 1 .. n : before[m] = after[m]
      BY <1>2
    <3>2. Runs(g, n, Readers, Fresh, before) /\ Runs(h, n + 1, Readers, Fresh, after)
      BY <2>1, <2>2
    <3>3. n \in Nat /\ n + 1 \in Nat /\ n <= n + 1
      BY <1>1
    <3> HIDE DEF before, after
    <3> QED
      BY <3>1, <3>2, <3>3, RunUnique
  <2>4. h[n + 1] = StoreStep(more)[n + 1][h[n]] /\ h[n] \in Readers
    BY <1>1, <2>2 DEF Runs
  <2> QED
    BY <1>1, <2>1, <2>2, <2>3, <2>4 DEF StoreStep
<1>4. ReplayReader(more) =
        LET r == ReplayReader(t)
        IN  IF ~r.ok THEN Rejected ELSE ReadEvent(r, event, event.id > r.previousId)
  <2>1. PICK g : Runs(g, n, Readers, Fresh, ReplayStep(t)) /\ ReplayReader(t) = g[n]
    BY ReplayRuns DEF n
  <2>2. PICK h : /\ Runs(h, n + 1, Readers, Fresh, ReplayStep(more))
                 /\ ReplayReader(more) = h[n + 1]
    BY <1>1, ReplayRuns
  <2>3. h[n] = g[n]
    <3> DEFINE before == ReplayStep(t)
               after == ReplayStep(more)
    <3>1. \A m \in 1 .. n : before[m] = after[m]
      BY <1>2
    <3>2. Runs(g, n, Readers, Fresh, before) /\ Runs(h, n + 1, Readers, Fresh, after)
      BY <2>1, <2>2
    <3>3. n \in Nat /\ n + 1 \in Nat /\ n <= n + 1
      BY <1>1
    <3> HIDE DEF before, after
    <3> QED
      BY <3>1, <3>2, <3>3, RunUnique
  <2>4. h[n + 1] = ReplayStep(more)[n + 1][h[n]] /\ h[n] \in Readers
    BY <1>1, <2>2 DEF Runs
  <2> QED
    BY <1>1, <2>1, <2>2, <2>3, <2>4 DEF ReplayStep
<1> QED
  BY <1>3, <1>4 DEF more, n

(* Before the first event.                                                 *)
LEMMA ReadersStart == StoreReader(<<>>) = Fresh /\ ReplayReader(<<>>) = Fresh
<1> DEFINE t == << >>
           T == {}
<1>1. t \in Seq(T) /\ Len(t) = 0 /\ \A x \in T : x.id \in Int
  OBVIOUS
<1> HIDE DEF t, T
<1>2. PICK g : Runs(g, Len(t), Readers, Fresh, StoreStep(t)) /\ StoreReader(t) = g[Len(t)]
  BY <1>1, StoreRuns
<1>3. PICK h : Runs(h, Len(t), Readers, Fresh, ReplayStep(t)) /\ ReplayReader(t) = h[Len(t)]
  BY <1>1, ReplayRuns
<1> QED
  BY <1>1, <1>2, <1>3 DEF Runs, t

(* A call with the next number is accepted and pending from then on. *)
LEMMA ReadersCall ==
  ASSUME NEW T, NEW t \in Seq(T), NEW event \in T, \A x \in T : x.id \in Int,
         NEW p \in Int, NEW P,
         StoreReader(t) = [ok |-> TRUE, previousId |-> p, pending |-> P],
         ReplayReader(t) = [ok |-> TRUE, previousId |-> p, pending |-> P],
         event.kind = "call", event.id = p + 1
  PROVE  /\ StoreReader(Append(t, event)) =
              [ok |-> TRUE, previousId |-> event.id, pending |-> P \cup {event.id}]
         /\ ReplayReader(Append(t, event)) =
              [ok |-> TRUE, previousId |-> event.id, pending |-> P \cup {event.id}]
<1> DEFINE r == [ok |-> TRUE, previousId |-> p, pending |-> P]
<1>1. /\ ReadEvent(r, event, event.id = p + 1) =
           [ok |-> TRUE, previousId |-> event.id, pending |-> P \cup {event.id}]
      /\ ReadEvent(r, event, event.id > p) =
           [ok |-> TRUE, previousId |-> event.id, pending |-> P \cup {event.id}]
  <2> DEFINE next == event.id = p + 1
             later == event.id > p
  <2>1. next /\ later
    OBVIOUS
  <2> HIDE DEF next, later
  <2>2. /\ ReadEvent(r, event, next) =
             [ok |-> TRUE, previousId |-> event.id, pending |-> P \cup {event.id}]
        /\ ReadEvent(r, event, later) =
             [ok |-> TRUE, previousId |-> event.id, pending |-> P \cup {event.id}]
    BY <2>1 DEF ReadEvent
  <2> QED
    BY <2>2 DEF next, later
<1>2. r.ok /\ r.previousId = p
  OBVIOUS
<1>3. /\ StoreReader(Append(t, event)) = ReadEvent(r, event, event.id = p + 1)
      /\ ReplayReader(Append(t, event)) = ReadEvent(r, event, event.id > p)
  <2>1. StoreReader(t) = r /\ ReplayReader(t) = r
    OBVIOUS
  <2> HIDE DEF r
  <2> QED
    BY <1>2, <2>1, ReadersAppend, Zenon
<1> QED
  BY <1>1, <1>3

(* The settlement of a pending call is accepted and ends it. *)
LEMMA ReadersSettle ==
  ASSUME NEW T, NEW t \in Seq(T), NEW event \in T, \A x \in T : x.id \in Int,
         NEW p, NEW P,
         StoreReader(t) = [ok |-> TRUE, previousId |-> p, pending |-> P],
         ReplayReader(t) = [ok |-> TRUE, previousId |-> p, pending |-> P],
         event.kind # "call", event.id \in P
  PROVE  /\ StoreReader(Append(t, event)) =
              [ok |-> TRUE, previousId |-> p, pending |-> P \ {event.id}]
         /\ ReplayReader(Append(t, event)) =
              [ok |-> TRUE, previousId |-> p, pending |-> P \ {event.id}]
<1> DEFINE r == [ok |-> TRUE, previousId |-> p, pending |-> P]
<1>1. /\ ReadEvent(r, event, event.id = p + 1) =
           [ok |-> TRUE, previousId |-> p, pending |-> P \ {event.id}]
      /\ ReadEvent(r, event, event.id > p) =
           [ok |-> TRUE, previousId |-> p, pending |-> P \ {event.id}]
  BY DEF ReadEvent
<1>2. r.ok /\ r.previousId = p
  OBVIOUS
<1>3. /\ StoreReader(Append(t, event)) = ReadEvent(r, event, event.id = p + 1)
      /\ ReplayReader(Append(t, event)) = ReadEvent(r, event, event.id > p)
  <2>1. StoreReader(t) = r /\ ReplayReader(t) = r
    OBVIOUS
  <2> HIDE DEF r
  <2> QED
    BY <1>2, <2>1, ReadersAppend, Zenon
<1> QED
  BY <1>1, <1>3

(* The places of a transcript are numbered without a gap.                  *)
LEMMA RankBounds ==
  ASSUME NEW n \in Nat, NEW S \in SUBSET (1 .. n)
  PROVE  /\ IsFiniteSet(S) /\ Cardinality(S) \in Nat
         /\ \A m \in S : Rank(S, m) \in 1 .. Cardinality(S)
<1>1. IsFiniteSet(S) /\ Cardinality(S) \in Nat
  <2>1. IsFiniteSet(1 .. n)
    BY FS_Interval
  <2>2. S \subseteq 1 .. n
    OBVIOUS
  <2> QED
    BY <2>1, <2>2, FS_Subset, FS_CardinalityType
<1>2. ASSUME NEW m \in S
      PROVE  Rank(S, m) \in 1 .. Cardinality(S)
  <2> DEFINE below == {k \in S : k <= m}
  <2>1. below \subseteq S /\ m \in below
    OBVIOUS
  <2> HIDE DEF below
  <2>2. /\ IsFiniteSet(below) /\ Cardinality(below) \in Nat
        /\ Cardinality(below) <= Cardinality(S)
    BY <1>1, <2>1, FS_Subset, FS_CardinalityType
  <2>3. Cardinality(below) # 0
    BY <2>1, <2>2, FS_EmptySet
  <2> QED
    BY <1>1, <2>2, <2>3 DEF Rank, below
<1> QED
  BY <1>1, <1>2

(* A transcript does not mind what happens outside its places.             *)
LEMMA TranscriptExtends ==
  ASSUME NEW H, NEW h \in Seq(H), NEW x \in H, NEW S \in SUBSET (1 .. Len(h)), NEW trace,
         Transcript(trace, S, h)
  PROVE  Transcript(trace, S, Append(h, x))
<1>1. \A m \in S : Append(h, x)[m] = h[m]
  BY AppendProperties
<1> QED
  BY <1>1 DEF Transcript

(* What happens inside is its next event.                                  *)
LEMMA TranscriptGrows ==
  ASSUME NEW H, NEW h \in Seq(H), NEW x \in H, NEW S \in SUBSET (1 .. Len(h)),
         NEW T, NEW trace \in Seq(T), NEW event \in T,
         Transcript(trace, S, h), event.kind = x.kind, event.effect = x.effect
  PROVE  Transcript(Append(trace, event), S \cup {Len(h) + 1}, Append(h, x))
<1> DEFINE n == Len(h) + 1
           more == S \cup {n}
<1>1. n \in Nat /\ n \notin S /\ more \in SUBSET (1 .. n) /\ \A k \in S : k <= n
  <2>1. Len(h) \in Nat
    OBVIOUS
  <2>2. \A k \in S : k \in 1 .. Len(h)
    OBVIOUS
  <2>3. \A k \in S : k \in 1 .. n /\ k <= n /\ k # n
    BY <2>1, <2>2
  <2>4. n \in Nat /\ n \in 1 .. n
    BY <2>1
  <2>5. \A k \in more : k \in 1 .. n
    BY <2>3, <2>4
  <2> HIDE DEF n, more
  <2> QED
    BY <2>3, <2>4, <2>5
<1>2. /\ IsFiniteSet(S) /\ Cardinality(S) \in Nat
      /\ \A m \in S : Rank(S, m) \in 1 .. Cardinality(S)
  BY <1>1, RankBounds
<1>3. Cardinality(more) = Cardinality(S) + 1
  BY <1>1, <1>2, FS_AddElement
<1>4. /\ Len(Append(trace, event)) = Len(trace) + 1
      /\ Append(trace, event)[Len(trace) + 1] = event
      /\ \A m \in 1 .. Len(trace) : Append(trace, event)[m] = trace[m]
  BY AppendProperties
<1>5. /\ Append(h, x)[n] = x
      /\ \A m \in S : Append(h, x)[m] = h[m]
  BY AppendProperties
<1>6. ASSUME NEW m \in S
      PROVE  Rank(more, m) = Rank(S, m)
  <2>1. {k \in more : k <= m} = {k \in S : k <= m}
    BY <1>1
  <2> QED
    BY <2>1 DEF Rank
<1>7. Rank(more, n) = Cardinality(S) + 1
  <2>1. {k \in more : k <= n} = more
    BY <1>1
  <2> QED
    BY <1>3, <2>1 DEF Rank
<1> SUFFICES Transcript(Append(trace, event), more, Append(h, x))
  OBVIOUS
<1>8. \A m \in more : m = n \/ m \in S
  OBVIOUS
<1>9. Len(trace) = Cardinality(S) /\ \A m \in S : /\ trace[Rank(S, m)].kind = h[m].kind
                                               /\ trace[Rank(S, m)].effect = h[m].effect
  BY DEF Transcript
<1> HIDE DEF n, more
<1>10. ASSUME NEW m \in more
       PROVE  /\ Append(trace, event)[Rank(more, m)].kind = Append(h, x)[m].kind
              /\ Append(trace, event)[Rank(more, m)].effect = Append(h, x)[m].effect
  <2>1. CASE m = n
    BY <1>4, <1>5, <1>7, <1>9, <2>1
  <2>2. CASE m \in S
    BY <1>2, <1>4, <1>5, <1>6, <1>9, <2>2
  <2> QED
    BY <1>8, <2>1, <2>2
<1> QED
  BY <1>3, <1>4, <1>9, <1>10 DEF Transcript

-----------------------------------------------------------------------------
(* What one frame has recorded *)

(* Among the first n events of the trace, call id is that of effect e. *)
Numbers(trace, n, id, e) ==
  \E m \in 1 .. n : trace[m].kind = "call" /\ trace[m].id = id /\ trace[m].effect = e

(* The effect whose call produced the response an event names. *)
Producer(event, eff) == IF event.kind = "call" THEN eff[event.effect].of ELSE event.effect

(* The running effects recorded in the frame of i. *)
Recorded(i, eff) == {e \in Effect : eff[e].status = "running" /\ eff[e].ids[i] # NoId}

Numbered(i, f, eff) ==
  \A e \in Recorded(i, eff) :
    /\ eff[e].ids[i] < f.nextId
    /\ Numbers(f.trace, Len(f.trace), eff[e].ids[i], e)
    /\ \A d \in Recorded(i, eff) : eff[d].ids[i] = eff[e].ids[i] => d = e

Resolved(f, eff) ==
  /\ \A n \in 1 .. Len(f.trace) :
       f.trace[n].responseId # NoId =>
         Numbers(f.trace, n - 1, f.trace[n].responseId, Producer(f.trace[n], eff))
  /\ \A e \in Effect :
       f.responses[e] # NoId => Numbers(f.trace, Len(f.trace), f.responses[e], e)

Issued(i, f, eff, ext) ==
  \A n \in 1 .. Len(f.trace) :
    LET e == f.trace[n].effect
    IN  eff[e].status # "fresh" /\ i \in ext[eff[e].context]

Reading(i, f, eff) ==
  [ok |-> TRUE, previousId |-> f.nextId - 1,
   pending |-> {eff[e].ids[i] : e \in Recorded(i, eff)}]

Readable(i, f, eff) ==
  StoreReader(f.trace) = Reading(i, f, eff) /\ ReplayReader(f.trace) = Reading(i, f, eff)

Faithful(i, f, eff, ext, h, S) ==
  /\ Numbered(i, f, eff)
  /\ Resolved(f, eff)
  /\ Issued(i, f, eff, ext)
  /\ Readable(i, f, eff)
  /\ Transcript(f.trace, S, h)

Happening == [kind : {"call", "settle"}, effect : Effect]

(* A call once recorded keeps its number.                                  *)
LEMMA NumbersKept ==
  ASSUME NEW T, NEW t \in Seq(T), NEW event \in T, NEW n \in 0 .. Len(t), NEW id, NEW e,
         Numbers(t, n, id, e)
  PROVE  /\ Numbers(Append(t, event), n, id, e)
         /\ Numbers(Append(t, event), Len(t), id, e)
         /\ Numbers(Append(t, event), Len(t) + 1, id, e)
<1>1. PICK m \in 1 .. n : t[m].kind = "call" /\ t[m].id = id /\ t[m].effect = e
  BY DEF Numbers
<1>2. Append(t, event)[m] = t[m]
  BY AppendProperties
<1>3. m \in 1 .. Len(t) /\ m \in 1 .. Len(t) + 1
  OBVIOUS
<1> QED
  BY <1>1, <1>2, <1>3 DEF Numbers

(* The call of an effect, recorded under the next number. *)
LEMMA CallRecorded ==
  ASSUME NEW i \in Invocation, NEW f \in Frame, NEW g \in Frame,
         NEW eff \in [Effect -> NativeEffect], NEW eff2 \in [Effect -> NativeEffect],
         NEW ext, NEW h \in Seq(Happening), NEW S \in SUBSET (1 .. Len(h)),
         NEW e \in Effect, NEW rid \in Nat \cup {NoId},
         Faithful(i, f, eff, ext, h, S),
         eff[e].status = "fresh",
         \A d \in Effect \ {e} : eff2[d] = eff[d],
         eff2[e].status = "running", eff2[e].ids[i] = f.nextId, i \in ext[eff2[e].context],
         rid # NoId => eff2[e].of \in Effect /\ f.responses[eff2[e].of] = rid,
         g.trace = Append(f.trace, [kind |-> "call", id |-> f.nextId, effect |-> e,
                                    responseId |-> rid]),
         g.nextId = f.nextId + 1,
         g.responses = f.responses
  PROVE  Faithful(i, g, eff2, ext, Append(h, [kind |-> "call", effect |-> e]),
                  S \cup {Len(h) + 1})
<1> DEFINE event == [kind |-> "call", id |-> f.nextId, effect |-> e, responseId |-> rid]
           t == f.trace
           u == g.trace
           n == f.nextId
<1>1. /\ t \in Seq(Event) /\ event \in Event /\ u = Append(t, event)
      /\ n \in Nat /\ n # NoId
      /\ event.kind = "call" /\ event.id = n /\ event.effect = e /\ event.responseId = rid
  BY DEF Frame, Event, NoId
<1> HIDE DEF event
<1>2. /\ Len(t) \in Nat /\ Len(u) = Len(t) + 1
      /\ \A m \in 1 .. Len(t) : u[m] = t[m] /\ t[m] \in Event
      /\ u[Len(u)] = event
  BY <1>1, AppendProperties, ElementOfSeq
<1>3. /\ Recorded(i, eff2) = Recorded(i, eff) \cup {e} /\ e \notin Recorded(i, eff)
      /\ \A d \in Recorded(i, eff) : d \in Effect /\ eff2[d] = eff[d]
  BY <1>1 DEF Recorded
<1>4. ASSUME NEW m \in 0 .. Len(t), NEW id, NEW d, Numbers(t, m, id, d)
      PROVE  Numbers(u, m, id, d) /\ Numbers(u, Len(t), id, d) /\ Numbers(u, Len(u), id, d)
  BY <1>1, <1>2, <1>4, NumbersKept
<1>5. Numbered(i, g, eff2)
  <2>1. Numbers(u, Len(u), n, e)
    BY <1>1, <1>2 DEF Numbers
  <2>2. ASSUME NEW d \in Recorded(i, eff)
        PROVE  /\ eff2[d].ids[i] < n /\ Numbers(u, Len(u), eff2[d].ids[i], d)
               /\ \A c \in Recorded(i, eff) : eff2[c].ids[i] = eff2[d].ids[i] => c = d
    <3>1. Numbers(t, Len(t), eff[d].ids[i], d) /\ Len(t) \in 0 .. Len(t)
      BY <1>2 DEF Faithful, Numbered
    <3> QED
      BY <1>3, <1>4, <3>1 DEF Faithful, Numbered
  <2>3. \A d \in Recorded(i, eff) : eff2[d].ids[i] \in Nat
    BY <1>3 DEF NativeEffect, Recorded
  <2>4. g.nextId = n + 1 /\ eff2[e].ids[i] = n
    OBVIOUS
  <2> HIDE DEF u, n, t
  <2>5. ASSUME NEW d \in Recorded(i, eff2)
        PROVE  eff2[d].ids[i] < g.nextId /\ Numbers(u, Len(u), eff2[d].ids[i], d)
    BY <1>1, <1>3, <2>1, <2>2, <2>3, <2>4
  <2>6. ASSUME NEW d \in Recorded(i, eff2), NEW c \in Recorded(i, eff2),
               eff2[c].ids[i] = eff2[d].ids[i]
        PROVE  c = d
    BY <1>1, <1>3, <2>2, <2>3, <2>4, <2>6
  <2> QED
    BY <2>5, <2>6 DEF Numbered, u
<1>6. Issued(i, g, eff2, ext)
  <2>1. ASSUME NEW m \in 1 .. Len(t)
        PROVE  t[m].effect \in Effect \ {e} /\ eff2[t[m].effect] = eff[t[m].effect]
    BY <1>2 DEF Faithful, Issued, Event
  <2>2. \A m \in 1 .. Len(u) : m \in 1 .. Len(t) \/ m = Len(u)
    BY <1>2
  <2> QED
    BY <1>1, <1>2, <2>1, <2>2 DEF Faithful, Issued
<1>7. Resolved(g, eff2)
  <2>1. ASSUME NEW m \in 1 .. Len(u), u[m].responseId # NoId
        PROVE  Numbers(u, m - 1, u[m].responseId, Producer(u[m], eff2))
    <3>1. CASE m \in 1 .. Len(t)
      <4>1. u[m] = t[m] /\ t[m].effect \in Effect \ {e} /\ m - 1 \in 0 .. Len(t)
        BY <1>2, <3>1 DEF Faithful, Issued, Event
      <4>2. Producer(u[m], eff2) = Producer(t[m], eff)
        BY <4>1 DEF Producer
      <4>3. Numbers(t, m - 1, t[m].responseId, Producer(t[m], eff))
        BY <2>1, <3>1, <4>1 DEF Faithful, Resolved
      <4> QED
        BY <1>4, <4>1, <4>2, <4>3
    <3>2. CASE m = Len(u)
      <4>1. u[m] = event /\ m - 1 = Len(t) /\ Len(t) \in 0 .. Len(t)
        BY <1>2, <3>2
      <4>2. rid # NoId /\ Producer(u[m], eff2) = eff2[e].of
        BY <1>1, <2>1, <4>1 DEF Producer
      <4>3. Numbers(t, Len(t), rid, eff2[e].of)
        BY <4>2 DEF Faithful, Resolved
      <4> QED
        BY <1>1, <1>4, <4>1, <4>2, <4>3
    <3> QED
      BY <1>2, <3>1, <3>2
  <2>2. ASSUME NEW d \in Effect, g.responses[d] # NoId
        PROVE  Numbers(u, Len(u), g.responses[d], d)
    <3>1. Numbers(t, Len(t), f.responses[d], d) /\ Len(t) \in 0 .. Len(t)
      BY <1>2, <2>2 DEF Faithful, Resolved
    <3> QED
      BY <1>4, <3>1
  <2> QED
    BY <2>1, <2>2 DEF Resolved
<1>8. Readable(i, g, eff2)
  <2> DEFINE P == {eff[d].ids[i] : d \in Recorded(i, eff)}
             Q == {eff2[d].ids[i] : d \in Recorded(i, eff2)}
  <2>1. Q = P \cup {n}
    BY <1>3
  <2>2. \A x \in Event : x.id \in Int
    BY DEF Event
  <2>3. /\ StoreReader(t) = [ok |-> TRUE, previousId |-> n - 1, pending |-> P]
        /\ ReplayReader(t) = [ok |-> TRUE, previousId |-> n - 1, pending |-> P]
    BY DEF Faithful, Readable, Reading
  <2> HIDE DEF P, Q, n, t
  <2>4. /\ StoreReader(u) = [ok |-> TRUE, previousId |-> n, pending |-> P \cup {n}]
        /\ ReplayReader(u) = [ok |-> TRUE, previousId |-> n, pending |-> P \cup {n}]
    <3>1. n - 1 \in Int /\ event.id = (n - 1) + 1
      BY <1>1
    <3> HIDE DEF u
    <3> QED
      BY <1>1, <2>2, <2>3, <3>1, ReadersCall
  <2>5. g.nextId - 1 = n
    BY <1>1 DEF n
  <2> QED
    BY <2>1, <2>4, <2>5 DEF Readable, Reading, Q
<1>9. Transcript(u, S \cup {Len(h) + 1}, Append(h, [kind |-> "call", effect |-> e]))
  <2>1. [kind |-> "call", effect |-> e] \in Happening
    BY DEF Happening
  <2>2. Transcript(t, S, h)
    BY DEF Faithful
  <2> HIDE DEF t, u
  <2> QED
    BY <1>1, <2>1, <2>2, TranscriptGrows
<1> QED
  BY <1>5, <1>6, <1>7, <1>8, <1>9 DEF Faithful

(* The settlement of an effect, recorded under the number of its call. *)
(* The places S of h, and the next one. *)
Later(S, h) == S \cup {Len(h) + 1}

(* e, which was running, settles. *)
Settles(e, eff, eff2) ==
  /\ eff \in [Effect -> NativeEffect] /\ eff2 \in [Effect -> NativeEffect]
  /\ \A d \in Effect \ {e} : eff2[d] = eff[d]
  /\ eff[e].status = "running" /\ eff2[e].status = "settled"
  /\ eff2[e].of = eff[e].of /\ eff2[e].context = eff[e].context

(* That e, numbered id, settled is the last thing g has recorded. *)
SettlementAdded(f, g, e, id, rid) ==
  /\ g.trace = Append(f.trace, [kind |-> "settle", id |-> id, effect |-> e,
                                responseId |-> rid])
  /\ g.nextId = f.nextId
  /\ \A d \in Effect : g.responses[d] = f.responses[d] \/ (d = e /\ g.responses[d] = id)

(* A settlement, recorded under the number of its call.                    *)
LEMMA SettlementRecorded ==
  ASSUME NEW i \in Invocation, NEW f \in Frame, NEW g \in Frame,
         NEW eff \in [Effect -> NativeEffect], NEW eff2 \in [Effect -> NativeEffect],
         NEW ext, NEW h \in Seq(Happening), NEW S \in SUBSET (1 .. Len(h)),
         NEW e \in Effect, NEW id \in Nat, NEW rid \in {id, NoId},
         Faithful(i, f, eff, ext, h, S), Settles(e, eff, eff2),
         eff[e].ids[i] = id, i \in ext[eff[e].context], SettlementAdded(f, g, e, id, rid)
  PROVE  Faithful(i, g, eff2, ext, Append(h, [kind |-> "settle", effect |-> e]), Later(S, h))
<1>0. /\ \A d \in Effect \ {e} : eff2[d] = eff[d]
      /\ eff[e].status = "running" /\ eff2[e].status = "settled"
      /\ eff2[e].of = eff[e].of /\ eff2[e].context = eff[e].context
      /\ g.trace = Append(f.trace, [kind |-> "settle", id |-> id, effect |-> e,
                                    responseId |-> rid])
      /\ g.nextId = f.nextId
      /\ \A d \in Effect : g.responses[d] = f.responses[d] \/ (d = e /\ g.responses[d] = id)
  BY DEF Settles, SettlementAdded
<1> USE <1>0
<1> DEFINE event == [kind |-> "settle", id |-> id, effect |-> e, responseId |-> rid]
           t == f.trace
           u == g.trace
<1>1. /\ t \in Seq(Event) /\ event \in Event /\ u = Append(t, event) /\ id # NoId
      /\ event.kind = "settle" /\ event.id = id /\ event.effect = e /\ event.responseId = rid
  BY DEF Frame, Event, NoId
<1> HIDE DEF event
<1>2. /\ Len(t) \in Nat /\ Len(u) = Len(t) + 1
      /\ \A m \in 1 .. Len(t) : u[m] = t[m] /\ t[m] \in Event
      /\ u[Len(u)] = event
  BY <1>1, AppendProperties, ElementOfSeq
<1>3. /\ Recorded(i, eff2) = Recorded(i, eff) \ {e} /\ e \in Recorded(i, eff)
      /\ \A d \in Recorded(i, eff2) : d \in Effect /\ d # e /\ eff2[d] = eff[d]
  BY <1>1 DEF Recorded
<1>4. ASSUME NEW m \in 0 .. Len(t), NEW n, NEW d, Numbers(t, m, n, d)
      PROVE  Numbers(u, m, n, d) /\ Numbers(u, Len(t), n, d) /\ Numbers(u, Len(u), n, d)
  BY <1>1, <1>2, <1>4, NumbersKept
<1>5. Numbered(i, g, eff2)
  <2>1. ASSUME NEW d \in Recorded(i, eff2)
        PROVE  eff2[d].ids[i] < g.nextId /\ Numbers(u, Len(u), eff2[d].ids[i], d)
    <3>1. Numbers(t, Len(t), eff[d].ids[i], d) /\ Len(t) \in 0 .. Len(t)
      BY <1>2, <1>3 DEF Faithful, Numbered
    <3> QED
      BY <1>3, <1>4, <3>1 DEF Faithful, Numbered
  <2>2. ASSUME NEW d \in Recorded(i, eff2), NEW c \in Recorded(i, eff2),
               eff2[c].ids[i] = eff2[d].ids[i]
        PROVE  c = d
    BY <1>3, <2>2 DEF Faithful, Numbered
  <2> QED
    BY <2>1, <2>2 DEF Numbered
<1>6. Issued(i, g, eff2, ext)
  <2>1. ASSUME NEW m \in 1 .. Len(u)
        PROVE  /\ u[m].effect \in Effect
               /\ eff2[u[m].effect].status # "fresh"
               /\ i \in ext[eff2[u[m].effect].context]
    <3>1. CASE m \in 1 .. Len(t)
      <4>1. /\ u[m] = t[m] /\ t[m].effect \in Effect
            /\ eff[t[m].effect].status # "fresh" /\ i \in ext[eff[t[m].effect].context]
        BY <1>2, <3>1 DEF Faithful, Issued, Event
      <4>2. CASE t[m].effect = e
        BY <4>1, <4>2
      <4>3. CASE t[m].effect # e
        BY <4>1, <4>3
      <4> QED
        BY <4>2, <4>3
    <3>2. CASE m = Len(u)
      BY <1>1, <1>2, <3>2
    <3> QED
      BY <1>2, <3>1, <3>2
  <2> QED
    BY <2>1 DEF Issued
<1>7. Resolved(g, eff2)
  <2>1. Numbers(t, Len(t), id, e) /\ Len(t) \in 0 .. Len(t)
    BY <1>2, <1>3 DEF Faithful, Numbered
  <2>2. ASSUME NEW m \in 1 .. Len(u), u[m].responseId # NoId
        PROVE  Numbers(u, m - 1, u[m].responseId, Producer(u[m], eff2))
    <3>1. CASE m \in 1 .. Len(t)
      <4>1. u[m] = t[m] /\ t[m].effect \in Effect /\ m - 1 \in 0 .. Len(t)
        BY <1>2, <3>1 DEF Event
      <4>2. Producer(u[m], eff2) = Producer(t[m], eff)
        BY <4>1 DEF Producer
      <4>3. Numbers(t, m - 1, t[m].responseId, Producer(t[m], eff))
        BY <2>2, <3>1, <4>1 DEF Faithful, Resolved
      <4> QED
        BY <1>4, <4>1, <4>2, <4>3
    <3>2. CASE m = Len(u)
      <4>1. u[m] = event /\ m - 1 = Len(t)
        BY <1>2, <3>2
      <4>2. u[m].responseId = id /\ Producer(u[m], eff2) = e
        BY <1>1, <2>2, <4>1 DEF Producer
      <4> QED
        BY <1>4, <2>1, <4>1, <4>2
    <3> QED
      BY <1>2, <3>1, <3>2
  <2>3. ASSUME NEW d \in Effect, g.responses[d] # NoId
        PROVE  Numbers(u, Len(u), g.responses[d], d)
    <3>1. CASE g.responses[d] = f.responses[d]
      <4>1. Numbers(t, Len(t), f.responses[d], d)
        BY <2>3, <3>1 DEF Faithful, Resolved
      <4> QED
        BY <1>4, <2>1, <3>1, <4>1
    <3>2. CASE d = e /\ g.responses[d] = id
      BY <1>4, <2>1, <3>2
    <3> QED
      BY <3>1, <3>2
  <2> QED
    BY <2>2, <2>3 DEF Resolved
<1>8. Readable(i, g, eff2)
  <2> DEFINE P == {eff[d].ids[i] : d \in Recorded(i, eff)}
             Q == {eff2[d].ids[i] : d \in Recorded(i, eff2)}
             n == f.nextId
  <2>1. Q = P \ {id} /\ id \in P
    BY <1>3 DEF Faithful, Numbered
  <2>2. \A x \in Event : x.id \in Int
    BY DEF Event
  <2>3. /\ StoreReader(t) = [ok |-> TRUE, previousId |-> n - 1, pending |-> P]
        /\ ReplayReader(t) = [ok |-> TRUE, previousId |-> n - 1, pending |-> P]
    BY DEF Faithful, Readable, Reading
  <2>4. n = g.nextId
    OBVIOUS
  <2> HIDE DEF P, Q, n, t
  <2>5. /\ StoreReader(u) = [ok |-> TRUE, previousId |-> n - 1, pending |-> P \ {id}]
        /\ ReplayReader(u) = [ok |-> TRUE, previousId |-> n - 1, pending |-> P \ {id}]
    <3> HIDE DEF u
    <3> QED
      BY <1>1, <2>1, <2>2, <2>3, ReadersSettle
  <2> QED
    BY <2>1, <2>4, <2>5 DEF Readable, Reading, Q
<1>9. Transcript(u, S \cup {Len(h) + 1}, Append(h, [kind |-> "settle", effect |-> e]))
  <2>1. [kind |-> "settle", effect |-> e] \in Happening
    BY DEF Happening
  <2>2. Transcript(t, S, h)
    BY DEF Faithful
  <2> HIDE DEF t, u
  <2> QED
    BY <1>1, <2>1, <2>2, TranscriptGrows
<1> QED
  BY <1>5, <1>6, <1>7, <1>8, <1>9 DEF Faithful, Later

(* What happens elsewhere is not recorded. *)
LEMMA NotRecorded ==
  ASSUME NEW i \in Invocation, NEW f \in Frame, NEW g,
         NEW eff, NEW eff2, NEW ext, NEW ext2, NEW h, NEW h2, NEW S,
         Faithful(i, f, eff, ext, h, S),
         g.trace = f.trace, g.nextId = f.nextId, g.responses = f.responses,
         Recorded(i, eff2) = Recorded(i, eff),
         \A d \in Recorded(i, eff) : eff2[d].ids[i] = eff[d].ids[i],
         \A d \in Effect : eff[d].status # "fresh" =>
           /\ eff2[d].status # "fresh"
           /\ eff2[d].of = eff[d].of
           /\ i \in ext[eff[d].context] => i \in ext2[eff2[d].context],
         Transcript(f.trace, S, h2)
  PROVE  Faithful(i, g, eff2, ext2, h2, S)
<1>1. \A m \in 1 .. Len(f.trace) :
        f.trace[m] \in Event /\ f.trace[m].effect \in Effect
  <2>1. f.trace \in Seq(Event)
    BY DEF Frame
  <2>2. \A m \in 1 .. Len(f.trace) : f.trace[m] \in Event
    BY <2>1, ElementOfSeq
  <2> QED
    BY <2>2 DEF Event
<1>2. Numbered(i, g, eff2)
  BY DEF Faithful, Numbered
<1>3. Issued(i, g, eff2, ext2)
  BY <1>1 DEF Faithful, Issued
<1>4. Resolved(g, eff2)
  <2>1. \A m \in 1 .. Len(f.trace) : Producer(f.trace[m], eff2) = Producer(f.trace[m], eff)
    BY <1>1 DEF Faithful, Issued, Producer
  <2> QED
    BY <2>1 DEF Faithful, Resolved
<1>5. Readable(i, g, eff2)
  <2>1. {eff2[d].ids[i] : d \in Recorded(i, eff2)} = {eff[d].ids[i] : d \in Recorded(i, eff)}
    OBVIOUS
  <2> QED
    BY <2>1 DEF Faithful, Readable, Reading
<1> QED
  BY <1>2, <1>3, <1>4, <1>5 DEF Faithful

-----------------------------------------------------------------------------
(* What the operations on frames do to the frames that keep their evidence *)

(* Block changes nothing in a frame it does not block.                     *)
LEMMA BlockLeaves ==
  ASSUME NEW fs, FramesTyped(fs), NEW B
  PROVE  \A j \in Invocation : ~Block(fs, B)[j].blocked => Block(fs, B)[j] = fs[j]
<1> SUFFICES ASSUME NEW j \in Invocation, ~Block(fs, B)[j].blocked
             PROVE  Block(fs, B)[j] = fs[j]
  OBVIOUS
<1>1. fs[j] \in Frame
  BY DEF FramesTyped
<1>2. [fs[j] EXCEPT !.blocked = TRUE, !.trace = <<>>].blocked
  BY <1>1 DEF Frame
<1>3. Block(fs, B)[j] = IF ~fs[j].blocked /\ \E b \in B : j \in fs[b].lineage
                        THEN [fs[j] EXCEPT !.blocked = TRUE, !.trace = <<>>]
                        ELSE fs[j]
  BY DEF Block
<1> QED
  BY <1>2, <1>3

(* Close changes nothing that is recorded.                                 *)
LEMMA CloseLeaves ==
  ASSUME NEW fs, FramesTyped(fs), NEW C
  PROVE  \A j \in Invocation :
           /\ Close(fs, C)[j].generation = fs[j].generation
           /\ Close(fs, C)[j].trace = fs[j].trace
           /\ Close(fs, C)[j].nextId = fs[j].nextId
           /\ Close(fs, C)[j].responses = fs[j].responses
<1> SUFFICES ASSUME NEW j \in Invocation
             PROVE  /\ Close(fs, C)[j].generation = fs[j].generation
                    /\ Close(fs, C)[j].trace = fs[j].trace
                    /\ Close(fs, C)[j].nextId = fs[j].nextId
                    /\ Close(fs, C)[j].responses = fs[j].responses
  OBVIOUS
<1> DEFINE closed == fs[j].closed \/ (j \in C /\ j \in Open(fs))
           children == fs[j].children - Cardinality(OpenChildren(fs, j) \cap C)
<1>1. fs[j] \in Frame
  BY DEF FramesTyped
<1>2. Close(fs, C)[j] = [fs[j] EXCEPT !.closed = closed, !.children = children]
  BY DEF Close
<1> HIDE DEF closed, children
<1> QED
  BY <1>1, <1>2 DEF Frame

(* The event a frame j records of the call of e. *)
CallEvent(fs, i, j, e, kind, of) ==
  [kind |-> "call", id |-> fs[j].nextId, effect |-> e,
   responseId |-> ResponseNumber(fs, i, j, kind, of)]

(* What is left of a frame that keeps its evidence when a call is recorded. *)
CallLeft(fs, gs, i, j, e, kind, of) ==
  /\ gs[j].responses = fs[j].responses
  /\ j \notin Projections(fs, i) =>
       gs[j].trace = fs[j].trace /\ gs[j].nextId = fs[j].nextId
  /\ j \in Projections(fs, i) =>
       /\ gs[j].trace = Append(fs[j].trace, CallEvent(fs, i, j, e, kind, of))
       /\ gs[j].nextId = fs[j].nextId + 1

(* RecordCall appends one event in each projected frame.                   *)
LEMMA RecordCallLeaves ==
  ASSUME NEW fs, FramesOK(fs), NEW i \in Invocation, NEW e \in Effect, NEW kind,
         NEW of \in Effect \cup {None}, NEW recordable
  PROVE  LET gs == RecordCall(fs, i, e, kind, of, recordable)
         IN  \A j \in Invocation : ~gs[j].blocked =>
               CallLeft(fs, gs, i, j, e, kind, of)
<1> DEFINE targets == Projections(fs, i)
           failures == CallFailures(fs, i, kind, of, recordable)
           numbered == [j \in Invocation |->
                          IF j \in targets THEN [fs[j] EXCEPT !.nextId = @ + 1] ELSE fs[j]]
           cut == Block(numbered, failures)
           note(j) == CallEvent(fs, i, j, e, kind, of)
           gs == RecordCall(fs, i, e, kind, of, recordable)
<1> SUFFICES ASSUME NEW j \in Invocation, ~gs[j].blocked
             PROVE  /\ gs[j].responses = fs[j].responses
                    /\ j \notin targets =>
                         gs[j].trace = fs[j].trace /\ gs[j].nextId = fs[j].nextId
                    /\ j \in targets =>
                         /\ gs[j].trace = Append(fs[j].trace, note(j))
                         /\ gs[j].nextId = fs[j].nextId + 1
  BY Zenon DEF CallLeft
<1>1. \A k \in Invocation : fs[k] \in Frame
  BY DEF FramesOK, FramesTyped
<1>2. /\ FramesTyped(numbered)
      /\ \A k \in Invocation : numbered[k].lineage = fs[k].lineage
  <2>1. ASSUME NEW k \in Invocation
        PROVE  /\ [fs[k] EXCEPT !.nextId = @ + 1] \in Frame
               /\ [fs[k] EXCEPT !.nextId = @ + 1].lineage = fs[k].lineage
    <3>1. fs[k] \in Frame /\ fs[k].nextId + 1 \in Nat
      BY <1>1 DEF Frame
    <3> QED
      BY <3>1, FrameUpdate DEF Frame
  <2> HIDE DEF targets
  <2> QED
    BY <1>1, <2>1 DEF FramesTyped
<1>3. gs[j] = IF j \notin targets \/ cut[j].blocked THEN cut[j]
              ELSE [cut[j] EXCEPT !.pending = @ + 1, !.trace = Append(@, note(j))]
  BY DEF RecordCall, CallEvent
<1>4. /\ FramesTyped(cut)
      /\ cut[j].blocked <=> numbered[j].blocked \/ \E b \in failures : j \in numbered[b].lineage
      /\ ~cut[j].blocked => cut[j] = numbered[j]
  <2> HIDE DEF numbered, failures
  <2> QED
    BY <1>2, BlockFields, BlockLeaves
<1>5. cut[j] \in Frame
  <2> HIDE DEF cut
  <2> QED
    BY <1>4 DEF FramesTyped
<1>6. gs[j] = cut[j] \/ (gs[j].trace = Append(cut[j].trace, note(j))
                         /\ gs[j].nextId = cut[j].nextId /\ gs[j].responses = cut[j].responses
                         /\ gs[j].blocked = cut[j].blocked)
  <2> HIDE DEF cut, note, targets, gs
  <2> QED
    BY <1>3, <1>5 DEF Frame
<1>7. ~cut[j].blocked
  <2> HIDE DEF cut, note, targets, gs
  <2> QED
    BY <1>6
<1>8. cut[j] = numbered[j]
  BY <1>4, <1>7
<1>9. CASE j \notin targets
  <2>1. gs[j] = cut[j] /\ numbered[j] = fs[j]
    BY <1>3, <1>9
  <2> HIDE DEF cut, note, targets, gs, numbered
  <2> QED
    BY <1>8, <1>9, <2>1
<1>10. CASE j \in targets
  <2>1. gs[j] = [cut[j] EXCEPT !.pending = @ + 1, !.trace = Append(@, note(j))]
    <3> HIDE DEF cut, note, targets, gs
    <3> QED
      BY <1>3, <1>7, <1>10
  <2>2. numbered[j] = [fs[j] EXCEPT !.nextId = @ + 1]
    BY <1>10
  <2>3. /\ cut[j].trace = fs[j].trace
        /\ cut[j].nextId = fs[j].nextId + 1
        /\ cut[j].responses = fs[j].responses
    <3> HIDE DEF cut, numbered
    <3> QED
      BY <1>1, <1>8, <2>2 DEF Frame
  <2>4. /\ gs[j].trace = Append(cut[j].trace, note(j))
        /\ gs[j].nextId = cut[j].nextId
        /\ gs[j].responses = cut[j].responses
    <3> HIDE DEF cut, note, gs
    <3> QED
      BY <1>5, <2>1 DEF Frame
  <2> HIDE DEF cut, note, targets, gs, numbered
  <2> QED
    BY <1>10, <2>3, <2>4
<1> QED
  BY <1>9, <1>10

(* The same, of one frame.                                                 *)
LEMMA CallLeaves ==
  ASSUME NEW fs, FramesOK(fs), NEW i \in Invocation, NEW e \in Effect, NEW kind,
         NEW of \in Effect \cup {None}, NEW recordable, NEW gs,
         gs = RecordCall(fs, i, e, kind, of, recordable), NEW j \in Invocation, ~gs[j].blocked
  PROVE  CallLeft(fs, gs, i, j, e, kind, of)
BY RecordCallLeaves

(* The event a frame records when e, which it numbered id, settles. *)
SettleEvent(id, e, kind) ==
  [kind |-> "settle", id |-> id, effect |-> e,
   responseId |-> IF kind = "fetch" THEN id ELSE NoId]

(* What is left of a frame that keeps its evidence when e settles. *)
SettlementLeft(fs, gs, ids, j, e, kind) ==
  /\ gs[j].nextId = fs[j].nextId
  /\ ids[j] = NoId \/ fs[j].closed =>
       gs[j].trace = fs[j].trace /\ gs[j].responses = fs[j].responses
  /\ ids[j] # NoId /\ ~fs[j].closed =>
       /\ gs[j].trace = Append(fs[j].trace, SettleEvent(ids[j], e, kind))
       /\ \A d \in Effect : \/ gs[j].responses[d] = fs[j].responses[d]
                            \/ d = e /\ gs[j].responses[d] = ids[j]

(* RecordSettlement appends one event in each open frame of e.             *)
LEMMA RecordSettlementLeaves ==
  ASSUME NEW fs, FramesOK(fs), NEW i \in Invocation, NEW e \in Effect, NEW kind,
         NEW ids \in [Invocation -> Nat \cup {NoId}], NEW recordable
  PROVE  LET gs == RecordSettlement(fs, i, e, kind, ids, recordable)
         IN  \A j \in Invocation : ~gs[j].blocked =>
               SettlementLeft(fs, gs, ids, j, e, kind)
<1> DEFINE targets == {j \in Invocation : ids[j] # NoId}
           sealed == IF i \in recordable THEN fs ELSE Block(fs, {i})
           live == {j \in targets : ~sealed[j].closed /\ ~sealed[j].blocked}
           counted(j) == [sealed[j] EXCEPT !.pending = OneLess(@)]
           held(j) == [counted(j) EXCEPT
                         !.responses = IF kind = "fetch" THEN [@ EXCEPT ![e] = ids[j]] ELSE @]
           note(j) == SettleEvent(ids[j], e, kind)
           noted(j) == [held(j) EXCEPT !.trace = Append(@, note(j))]
           settled == [j \in Invocation |->
                         IF j \notin targets THEN sealed[j]
                         ELSE IF j \notin live THEN counted(j) ELSE noted(j)]
           gs == RecordSettlement(fs, i, e, kind, ids, recordable)
<1>3. gs = Block(settled, live \ recordable)
  <2> HIDE DEF sealed
  <2> QED
    BY DEF RecordSettlement, SettleEvent, sealed
<1> SUFFICES ASSUME NEW j \in Invocation, ~gs[j].blocked
             PROVE  /\ gs[j].nextId = fs[j].nextId
                    /\ ids[j] = NoId \/ fs[j].closed =>
                         gs[j].trace = fs[j].trace /\ gs[j].responses = fs[j].responses
                    /\ ids[j] # NoId /\ ~fs[j].closed =>
                         /\ gs[j].trace = Append(fs[j].trace, note(j))
                         /\ \A d \in Effect : \/ gs[j].responses[d] = fs[j].responses[d]
                                              \/ d = e /\ gs[j].responses[d] = ids[j]
  BY Zenon DEF SettlementLeft
<1>1. \A k \in Invocation : fs[k] \in Frame
  BY DEF FramesOK, FramesTyped
<1>2. /\ \A k \in Invocation : sealed[k] \in Frame /\ sealed[k].closed = fs[k].closed
      /\ ~sealed[j].blocked => sealed[j] = fs[j]
  <2>1. CASE i \in recordable
    BY <1>1, <2>1
  <2>2. CASE i \notin recordable
    <3>1. FramesTyped(fs) /\ sealed = Block(fs, {i})
      BY <2>2 DEF FramesOK, FramesTyped
    <3> HIDE DEF sealed
    <3> QED
      BY <3>1, BlockFields, BlockLeaves DEF FramesTyped, SameTree, SameLinks
  <2> QED
    BY <2>1, <2>2
<1> HIDE DEF sealed
<1>4. ASSUME NEW k \in targets
      PROVE  /\ counted(k) \in Frame /\ held(k) \in Frame /\ noted(k) \in Frame
             /\ \A d \in Effect : \/ held(k).responses[d] = sealed[k].responses[d]
                                  \/ d = e /\ held(k).responses[d] = ids[k]
  <2>1. k \in Invocation /\ ids[k] \in Nat
    OBVIOUS
  <2>2. sealed[k] \in Frame /\ OneLess(sealed[k].pending) \in Nat
    BY <1>2, <2>1 DEF Frame, OneLess
  <2>3. counted(k) \in Frame /\ counted(k).responses = sealed[k].responses
    <3>1. counted(k) \in Frame
      BY <2>2, FrameUpdate
    <3> QED
      BY <2>2, <3>1 DEF Frame
  <2>4. /\ held(k) \in Frame
        /\ \A d \in Effect : \/ held(k).responses[d] = sealed[k].responses[d]
                             \/ d = e /\ held(k).responses[d] = ids[k]
    <3> DEFINE r == IF kind = "fetch"
                    THEN [counted(k).responses EXCEPT ![e] = ids[k]]
                    ELSE counted(k).responses
    <3>1. counted(k).responses \in [Effect -> Nat \cup {NoId}]
      <4> HIDE DEF counted
      <4> QED
        BY <2>3 DEF Frame
    <3>2. /\ r \in [Effect -> Nat \cup {NoId}]
          /\ \A d \in Effect : \/ r[d] = counted(k).responses[d]
                               \/ d = e /\ r[d] = ids[k]
      <4> HIDE DEF counted
      <4> QED
        BY <2>1, <3>1
    <3>3. held(k) = [counted(k) EXCEPT !.responses = r]
      OBVIOUS
    <3> HIDE DEF r, held, counted
    <3>4. held(k) \in Frame
      BY <2>3, <3>2, <3>3, FrameUpdate
    <3>5. held(k).responses = r
      BY <2>3, <3>3 DEF Frame
    <3> QED
      BY <2>3, <3>2, <3>4, <3>5
  <2>5. note(k) \in Event
    BY <2>1 DEF Event, SettleEvent
  <2>6. noted(k) \in Frame
    <3> HIDE DEF held, note
    <3>1. Append(held(k).trace, note(k)) \in Seq(Event)
      BY <2>4, <2>5 DEF Frame
    <3> QED
      BY <2>4, <3>1, FrameUpdate
  <2> HIDE DEF counted, held, noted
  <2> QED
    BY <2>3, <2>4, <2>6
<1>5. FramesTyped(settled)
  <2> HIDE DEF targets, live, counted, noted
  <2> QED
    BY <1>2, <1>4 DEF FramesTyped
<1>6. gs[j] = settled[j]
  <2> HIDE DEF settled, live, gs
  <2> QED
    BY <1>3, <1>5, BlockLeaves
<1>7. /\ j \in targets <=> ids[j] # NoId
      /\ settled[j] = IF j \notin targets THEN sealed[j]
                      ELSE IF j \notin live THEN counted(j) ELSE noted(j)
      /\ j \in live <=> j \in targets /\ ~fs[j].closed /\ ~sealed[j].blocked
  <2> HIDE DEF counted, noted
  <2> QED
    BY <1>2
<1>8. ASSUME j \in targets
      PROVE  /\ counted(j).blocked = sealed[j].blocked
             /\ counted(j).nextId = sealed[j].nextId
             /\ counted(j).trace = sealed[j].trace
             /\ counted(j).responses = sealed[j].responses
             /\ noted(j).blocked = sealed[j].blocked
             /\ noted(j).nextId = sealed[j].nextId
             /\ noted(j).trace = Append(sealed[j].trace, note(j))
             /\ noted(j).responses = held(j).responses
  <2>1. sealed[j] \in Frame
    BY <1>2
  <2>2. counted(j) \in Frame /\ held(j) \in Frame
    <3> HIDE DEF counted, held, targets, noted
    <3> QED
      BY <1>4, <1>8
  <2>3. /\ counted(j).blocked = sealed[j].blocked
        /\ counted(j).nextId = sealed[j].nextId
        /\ counted(j).trace = sealed[j].trace
        /\ counted(j).responses = sealed[j].responses
    BY <2>1 DEF Frame
  <2>4. /\ held(j).blocked = counted(j).blocked
        /\ held(j).nextId = counted(j).nextId
        /\ held(j).trace = counted(j).trace
    <3> HIDE DEF counted
    <3> QED
      BY <2>2 DEF Frame
  <2>5. /\ noted(j).blocked = held(j).blocked
        /\ noted(j).nextId = held(j).nextId
        /\ noted(j).trace = Append(held(j).trace, note(j))
        /\ noted(j).responses = held(j).responses
    <3> HIDE DEF held, note
    <3> QED
      BY <2>2 DEF Frame
  <2> HIDE DEF counted, noted, note, held
  <2> QED
    BY <2>3, <2>4, <2>5
<1>9. sealed[j].blocked = FALSE
  <2>1. sealed[j].blocked \in BOOLEAN
    BY <1>2 DEF Frame
  <2> HIDE DEF settled, live, counted, noted, gs, targets
  <2> QED
    BY <1>6, <1>7, <1>8, <2>1
<1>10. sealed[j] = fs[j]
  BY <1>2, <1>9
<1>11. CASE ids[j] = NoId \/ fs[j].closed
  <2>1. settled[j] = sealed[j] \/ (j \in targets /\ settled[j] = counted(j))
    <3> HIDE DEF settled, live, counted, noted, gs, targets
    <3> QED
      BY <1>7, <1>11
  <2> HIDE DEF settled, live, counted, noted, gs, targets
  <2> QED
    BY <1>6, <1>8, <1>10, <1>11, <2>1
<1>12. CASE ids[j] # NoId /\ ~fs[j].closed
  <2>1. j \in targets /\ settled[j] = noted(j)
    <3> HIDE DEF settled, live, counted, noted, gs, targets
    <3> QED
      BY <1>7, <1>9, <1>12
  <2>2. \A d \in Effect : \/ held(j).responses[d] = sealed[j].responses[d]
                          \/ d = e /\ held(j).responses[d] = ids[j]
    <3> HIDE DEF settled, live, counted, noted, gs, targets, held
    <3> QED
      BY <1>4, <2>1
  <2> HIDE DEF settled, live, counted, noted, gs, targets, held, note
  <2> QED
    BY <1>6, <1>8, <1>10, <1>12, <2>1, <2>2
<1> QED
  BY <1>11, <1>12

(* The same, of one frame.                                                 *)
LEMMA SettlementLeaves ==
  ASSUME NEW fs, FramesOK(fs), NEW i \in Invocation, NEW e \in Effect, NEW kind,
         NEW ids \in [Invocation -> Nat \cup {NoId}], NEW recordable, NEW gs,
         gs = RecordSettlement(fs, i, e, kind, ids, recordable),
         NEW j \in Invocation, ~gs[j].blocked
  PROVE  SettlementLeft(fs, gs, ids, j, e, kind)
BY RecordSettlementLeaves

-----------------------------------------------------------------------------
(* What the frames have recorded together *)

Begun(i) == frame[i].mode # "fresh"
Kept(i) == i \in Captured(frame) /\ ~frame[i].blocked

(* Only what has begun is in an extent or the context of an effect, and     *)
(* only effects that were performed happened.                               *)
Contexts ==
  /\ \A e \in Effect :
       effect[e].status # "fresh" =>
         effect[e].context \in Invocation /\ Begun(effect[e].context)
  /\ \A m \in 1 .. Len(history) : effect[history[m].effect].status # "fresh"
  /\ \A c \in Invocation : \A i \in extent[c] : Begun(i) /\ Begun(c)

(* A frame is in its own extent, with the frames above it.  Whatever runs   *)
(* in the extent of a frame that has its evidence is below it by frames.    *)
Within ==
  \A i \in Captured(frame) :
    /\ frame[i].lineage \subseteq extent[i]
    /\ ~frame[i].blocked =>
         \A c \in Invocation :
           i \in extent[c] => /\ c \in Captured(frame)
                              /\ i \in frame[c].lineage
                              /\ frame[c].closed => returned[c]

Generations ==
  \A i \in Captured(frame) : \A j \in frame[i].lineage :
    frame[j].generation = frame[i].generation

(* It follows the running effects of its extent, and no others. *)
Followed ==
  \A i \in Invocation : Kept(i) =>
    \A e \in Effect :
      effect[e].status = "running" =>
        (effect[e].ids[i] # NoId <=> i \in extent[effect[e].context])

Transcribed ==
  \A i \in Invocation :
    Kept(i) => Faithful(i, frame[i], effect, extent, history, Places(i))

Emitted == \A o \in observations : o.trace = frame[o.invocation].trace

Traced ==
  /\ Contexts
  /\ Within
  /\ Generations
  /\ Followed
  /\ Transcribed
  /\ Emitted

(* A step that only blocks, closes or emits. *)
LEMMA QuietStep ==
  ASSUME IInv, Traced, IInv',
         UNCHANGED <<extent, effect, history>>,
         \A j \in Invocation :
           /\ frame'[j].mode = frame[j].mode
           /\ frame'[j].lineage = frame[j].lineage
           /\ frame'[j].generation = frame[j].generation
           /\ frame[j].blocked => frame'[j].blocked
           /\ ~frame'[j].blocked => /\ frame'[j].trace = frame[j].trace
                                    /\ frame'[j].nextId = frame[j].nextId
                                    /\ frame'[j].responses = frame[j].responses
           /\ returned[j] => returned'[j]
           /\ frame'[j].closed /\ ~frame'[j].blocked => frame[j].closed \/ returned'[j],
         \A o \in observations' : o \in observations \/ o.trace = frame'[o.invocation].trace
  PROVE  Traced'
<1>1. \A i \in Invocation : /\ i \in Captured(frame)' <=> i \in Captured(frame)
                            /\ Kept(i)' => Kept(i)
                            /\ Begun(i)' <=> Begun(i)
  BY DEF Captured, Kept, Begun
<1>2. Contexts'
  <2>1. /\ \A e \in Effect : effect[e].status # "fresh" =>
             effect[e].context \in Invocation /\ Begun(effect[e].context)
        /\ \A c \in Invocation : \A i \in extent[c] : i \in Invocation /\ Begun(i) /\ Begun(c)
    BY DEF Traced, Contexts, IInv, TypeOK
  <2> QED
    BY <1>1, <2>1 DEF Traced, Contexts
<1>3. Within'
  <2> SUFFICES ASSUME NEW i \in Captured(frame)'
               PROVE  /\ frame'[i].lineage \subseteq extent'[i]
                      /\ ~frame'[i].blocked =>
                           \A c \in Invocation :
                             i \in extent'[c] => /\ c \in Captured(frame)'
                                                 /\ i \in frame'[c].lineage
                                                 /\ frame'[c].closed => returned'[c]
    BY DEF Within
  <2>1. i \in Invocation /\ i \in Captured(frame)
    BY <1>1 DEF Captured
  <2>2. ASSUME ~frame'[i].blocked, NEW c \in Invocation, i \in extent'[c]
        PROVE  /\ c \in Captured(frame)' /\ i \in frame'[c].lineage
               /\ frame'[c].closed => returned'[c]
    <3>1. /\ c \in Captured(frame) /\ i \in frame[c].lineage
          /\ frame[c].closed => returned[c]
      BY <2>1, <2>2 DEF Traced, Within
    <3>2. ~frame'[c].blocked
      BY <2>2, <3>1 DEF IInv, FramesOK, BlocksReachUp
    <3> QED
      BY <1>1, <3>1, <3>2
  <2> QED
    BY <2>1, <2>2 DEF Traced, Within
<1>4. Generations'
  <2>1. \A i \in Captured(frame) : i \in Invocation /\ frame[i].lineage \subseteq Invocation
    BY DEF Captured, IInv, FramesOK, Frame
  <2>2. \A i \in Captured(frame)' : i \in Captured(frame)
    BY DEF Captured
  <2> QED
    BY <2>1, <2>2 DEF Traced, Generations
<1>5. Followed'
  BY <1>1 DEF Traced, Followed
<1>6. Transcribed'
  <2> SUFFICES ASSUME NEW i \in Invocation, Kept(i)'
               PROVE  Faithful(i, frame'[i], effect, extent, history, Places(i))
    BY DEF Transcribed, Places
  <2>1. Kept(i) /\ ~frame'[i].blocked
    BY <1>1 DEF Kept
  <2>2. Faithful(i, frame[i], effect, extent, history, Places(i))
    BY <2>1 DEF Traced, Transcribed
  <2>3. frame[i] \in Frame
    BY DEF IInv, TypeOK
  <2>4. Transcript(frame[i].trace, Places(i), history)
    BY <2>2 DEF Faithful
  <2>5. /\ frame'[i].trace = frame[i].trace
        /\ frame'[i].nextId = frame[i].nextId
        /\ frame'[i].responses = frame[i].responses
    BY <2>1
  <2> QED
    BY <2>2, <2>3, <2>4, <2>5, NotRecorded
<1>7. Emitted'
  <2> SUFFICES ASSUME NEW o \in observations, o \in observations'
               PROVE  o.trace = frame'[o.invocation].trace
    BY DEF Emitted
  <2>1. o.invocation \in Invocation /\ ~frame'[o.invocation].blocked
    BY DEF IInv, Sealed, Captured
  <2> QED
    BY <2>1 DEF Traced, Emitted
<1> QED
  BY <1>2, <1>3, <1>4, <1>5, <1>6, <1>7 DEF Traced

(* Starting a recording or a flush touches no frame.                       *)
LEMMA ConfigureTraced ==
  ASSUME IInv, Traced, IInv', Configure \/ FlushBegin \/ UNCHANGED vars
  PROVE  Traced'
<1>1. UNCHANGED <<frame, observations, returned, extent, effect, history>>
  BY DEF Configure, FlushBegin, captureVars, programVars, vars
<1> QED
  BY <1>1, QuietStep

(* A teardown or a flush timeout blocks and closes every open frame.       *)
LEMMA SweepTraced ==
  ASSUME IInv, Traced, IInv', Teardown \/ FlushTimeout
  PROVE  Traced'
<1> DEFINE cut == Block(frame, Open(frame))
           gs == Sweep(frame)
<1>1. frame' = gs /\ UNCHANGED <<observations, returned, extent, effect, history>>
  BY DEF Teardown, FlushTimeout, Commit, programVars
<1>2. FramesOK(frame) /\ FramesTyped(frame) /\ Open(frame) \in SUBSET Invocation
  BY DEF IInv, FramesOK, FramesTyped, Open, Captured
<1>3. FramesOK(cut) /\ FramesTyped(cut) /\ Open(cut) = Open(frame)
  <2>1. FramesOK(cut) /\ Open(cut) = Open(frame)
    BY <1>2, BlockKeeps
  <2> QED
    BY <2>1 DEF FramesOK, FramesTyped
<1>4. gs = Close(cut, Open(frame))
  BY DEF Sweep
<1>5. \A i \in Open(frame) : i \in Open(cut) => cut[i].blocked \/ cut[i].children = 0
  <2>1. \A i \in Open(frame) : i \in frame[i].lineage /\ i \in Invocation
    BY <1>2 DEF FramesOK, Lineages, Open, Captured
  <2> HIDE DEF cut
  <2> QED
    BY <1>2, <2>1, BlockFields DEF cut
<1>6. \A j \in Invocation :
        /\ gs[j].mode = cut[j].mode
        /\ gs[j].lineage = cut[j].lineage
        /\ gs[j].blocked = cut[j].blocked
        /\ gs[j].closed <=> cut[j].closed \/ (j \in Open(frame) /\ j \in Open(cut))
  <2> HIDE DEF cut, gs
  <2> QED
    BY <1>2, <1>3, <1>4, <1>5, CloseKeeps
<1>7. \A j \in Invocation :
        /\ gs[j].generation = cut[j].generation
        /\ gs[j].trace = cut[j].trace
        /\ gs[j].nextId = cut[j].nextId
        /\ gs[j].responses = cut[j].responses
  <2> HIDE DEF cut, gs
  <2> QED
    BY <1>3, <1>4, CloseLeaves
<1>8. \A j \in Invocation :
        /\ cut[j].mode = frame[j].mode
        /\ cut[j].lineage = frame[j].lineage
        /\ cut[j].generation = frame[j].generation
        /\ cut[j].closed = frame[j].closed
        /\ frame[j].blocked => cut[j].blocked
        /\ j \in Open(frame) => cut[j].blocked
        /\ ~cut[j].blocked => cut[j] = frame[j]
  <2>1. \A j \in Open(frame) : j \in frame[j].lineage
    BY <1>2 DEF FramesOK, Lineages, Open
  <2> QED
    BY <1>2, <2>1, BlockFields, BlockLeaves DEF SameTree, SameLinks
<1> HIDE DEF cut, gs
<1> QED
  BY <1>1, <1>6, <1>7, <1>8, QuietStep

(* An abandoned frame loses its evidence.                                  *)
LEMMA AbandonTraced ==
  ASSUME IInv, Traced, IInv', NEW i \in Invocation, Abandon(i)
  PROVE  Traced'
<1> DEFINE cut == Block(frame, {i})
           gs == Close(cut, {i})
<1>1. /\ frame' = gs /\ UNCHANGED <<observations, returned, extent, effect, history>>
      /\ i \in Open(frame)
  BY DEF Abandon, Commit, programVars
<1>2. FramesOK(frame) /\ FramesTyped(frame) /\ {i} \in SUBSET Invocation /\ i \in frame[i].lineage
  BY <1>1 DEF IInv, FramesOK, FramesTyped, Lineages, Open
<1>3. FramesOK(cut) /\ FramesTyped(cut)
  <2>1. FramesOK(cut)
    BY <1>2, BlockKeeps
  <2> QED
    BY <2>1 DEF FramesOK, FramesTyped
<1>4. \A j \in Invocation :
        /\ cut[j].mode = frame[j].mode
        /\ cut[j].lineage = frame[j].lineage
        /\ cut[j].generation = frame[j].generation
        /\ cut[j].closed = frame[j].closed
        /\ frame[j].blocked => cut[j].blocked
        /\ ~cut[j].blocked => cut[j] = frame[j]
  BY <1>2, BlockFields, BlockLeaves DEF SameTree, SameLinks
<1>5. cut[i].blocked
  BY <1>2, BlockFields
<1> HIDE DEF cut
<1>6. \A j \in Invocation :
        /\ gs[j].mode = cut[j].mode
        /\ gs[j].lineage = cut[j].lineage
        /\ gs[j].blocked = cut[j].blocked
        /\ gs[j].closed <=> cut[j].closed \/ (j \in {i} /\ j \in Open(cut))
  BY <1>2, <1>3, <1>5, CloseKeeps
<1>7. \A j \in Invocation :
        /\ gs[j].generation = cut[j].generation
        /\ gs[j].trace = cut[j].trace
        /\ gs[j].nextId = cut[j].nextId
        /\ gs[j].responses = cut[j].responses
  BY <1>3, CloseLeaves
<1> HIDE DEF gs
<1> QED
  BY <1>1, <1>4, <1>5, <1>6, <1>7, QuietStep

(* finish seals a frame whose extent is over, or blocks it.                *)
LEMMA ReturnTraced ==
  ASSUME IInv, Traced, IInv', NEW i \in Invocation, NEW encodes \in BOOLEAN,
         NEW stores \in BOOLEAN, Return(i, encodes, stores)
  PROVE  Traced'
<1> DEFINE evidence == i \in Open(frame) /\ ~frame[i].blocked /\ ~Incomplete(frame[i]) /\ encodes
           kept == IF evidence /\ stores THEN frame ELSE Block(frame, {i})
           gs == Close(kept, {i})
           o == [invocation |-> i, session |-> frame[i].session, trace |-> frame[i].trace]
<1>1. /\ returned' = [returned EXCEPT ![i] = TRUE]
      /\ observations' = IF evidence /\ stores THEN observations \cup {o} ELSE observations
      /\ frame' = IF i \in Open(frame) THEN gs ELSE frame
      /\ UNCHANGED <<extent, effect, history>>
  BY DEF Return, Commit
<1>2. \A j \in Invocation : (returned[j] => returned'[j]) /\ returned'[i]
  BY <1>1 DEF IInv, TypeOK
<1>3. FramesOK(frame) /\ FramesTyped(frame) /\ {i} \in SUBSET Invocation
  BY DEF IInv, FramesOK, FramesTyped
<1>4. /\ FramesOK(kept) /\ FramesTyped(kept)
      /\ \A j \in Invocation :
           /\ kept[j].mode = frame[j].mode
           /\ kept[j].lineage = frame[j].lineage
           /\ kept[j].generation = frame[j].generation
           /\ kept[j].closed = frame[j].closed
           /\ frame[j].blocked => kept[j].blocked
           /\ ~kept[j].blocked => kept[j] = frame[j]
  <2>1. CASE evidence /\ stores
    <3>1. kept = frame
      BY <2>1
    <3> HIDE DEF kept
    <3> QED
      BY <1>3, <3>1
  <2>2. CASE ~(evidence /\ stores)
    <3>1. kept = Block(frame, {i})
      BY <2>2
    <3> HIDE DEF kept
    <3>2. FramesOK(kept)
      BY <1>3, <3>1, BlockKeeps
    <3> QED
      BY <1>3, <3>1, <3>2, BlockFields, BlockLeaves DEF FramesOK, FramesTyped, SameTree,
         SameLinks
  <2> QED
    BY <2>1, <2>2
<1>5. ASSUME i \in Open(frame)
      PROVE  kept[i].blocked \/ kept[i].children = 0
  <2>1. CASE evidence /\ stores
    BY <2>1 DEF Incomplete
  <2>2. CASE ~(evidence /\ stores)
    <3>1. kept = Block(frame, {i}) /\ i \in frame[i].lineage
      BY <1>3, <1>5, <2>2 DEF FramesOK, Lineages, Open
    <3> HIDE DEF kept
    <3> QED
      BY <1>3, <3>1, BlockFields
  <2> QED
    BY <2>1, <2>2
<1>6. ASSUME i \in Open(frame)
      PROVE  \A j \in Invocation :
               /\ gs[j].mode = kept[j].mode
               /\ gs[j].lineage = kept[j].lineage
               /\ gs[j].blocked = kept[j].blocked
               /\ gs[j].closed <=> kept[j].closed \/ (j \in {i} /\ j \in Open(kept))
  <2>1. \A j \in {i} : j \in Open(kept) => kept[j].blocked \/ kept[j].children = 0
    BY <1>5, <1>6
  <2> HIDE DEF kept
  <2> QED
    BY <1>3, <1>4, <2>1, CloseKeeps
<1>7. \A j \in Invocation :
        /\ gs[j].generation = kept[j].generation
        /\ gs[j].trace = kept[j].trace
        /\ gs[j].nextId = kept[j].nextId
        /\ gs[j].responses = kept[j].responses
  <2> HIDE DEF kept
  <2> QED
    BY <1>4, CloseLeaves
<1>8. \A p \in observations' : p \in observations \/ p.trace = frame'[p.invocation].trace
  <2> SUFFICES ASSUME evidence, stores
               PROVE  o.trace = frame'[o.invocation].trace
    BY <1>1
  <2>1. kept = frame /\ frame' = gs
    BY <1>1
  <2> HIDE DEF kept, gs
  <2> QED
    BY <1>7, <2>1
<1> HIDE DEF kept, gs, evidence, o
<1>9. ASSUME NEW j \in Invocation
      PROVE  /\ frame'[j].mode = frame[j].mode
             /\ frame'[j].lineage = frame[j].lineage
             /\ frame'[j].generation = frame[j].generation
             /\ frame[j].blocked => frame'[j].blocked
             /\ ~frame'[j].blocked => /\ frame'[j].trace = frame[j].trace
                                      /\ frame'[j].nextId = frame[j].nextId
                                      /\ frame'[j].responses = frame[j].responses
             /\ frame'[j].closed /\ ~frame'[j].blocked => frame[j].closed \/ returned'[j]
  <2>1. CASE i \in Open(frame)
    BY <1>1, <1>2, <1>4, <1>6, <1>7, <2>1
  <2>2. CASE i \notin Open(frame)
    BY <1>1, <2>2
  <2> QED
    BY <2>1, <2>2
<1> QED
  BY <1>1, <1>2, <1>8, <1>9, QuietStep

-----------------------------------------------------------------------------
(* observeDevCall *)

(* A caller in the extent of a frame that has its evidence is below it.     *)
LEMMA CallerBelow ==
  ASSUME IInv, Traced, NEW caller \in Callers, caller # None,
         NEW k \in extent[caller], Kept(k)
  PROVE  /\ caller \in Open(frame) /\ ParentOf(caller) = caller
         /\ k \in frame[caller].lineage
         /\ configuration # 0
<1>1. caller \in Invocation /\ ~returned[caller]
  BY DEF Callers, Running
<1>2. /\ caller \in Captured(frame)
      /\ k \in frame[caller].lineage
      /\ frame[caller].closed => returned[caller]
  BY <1>1 DEF Kept, Traced, Within
<1>3. caller \in Open(frame)
  BY <1>1, <1>2 DEF Open
<1> QED
  BY <1>2, <1>3 DEF ParentOf, IInv, SessionOfOpen

(* Once a call has begun, whatever frame it was given. *)
LEMMA BeginTraced ==
  ASSUME IInv, Traced, IInv', NEW i \in Invocation, NEW caller \in Callers, Begin(i, caller),
         \A j \in Invocation \ {i} :
           /\ frame'[j].mode = frame[j].mode
           /\ frame'[j].lineage = frame[j].lineage
           /\ frame'[j].generation = frame[j].generation
           /\ frame'[j].closed = frame[j].closed
           /\ frame[j].blocked => frame'[j].blocked
           /\ ~frame'[j].blocked => /\ frame'[j].trace = frame[j].trace
                                    /\ frame'[j].nextId = frame[j].nextId
                                    /\ frame'[j].responses = frame[j].responses,
         frame'[i].mode # "fresh",
         frame'[i].mode = "captured" =>
           /\ frame'[i].lineage =
                {i} \cup (IF ParentOf(caller) = None THEN {} ELSE frame[caller].lineage)
           /\ ParentOf(caller) # None => frame[caller].generation = frame'[i].generation
           /\ ~frame'[i].closed
           /\ ~frame'[i].blocked => /\ frame'[i].trace = << >>
                                    /\ frame'[i].nextId = 0
                                    /\ \A e \in Effect : frame'[i].responses[e] = NoId,
         caller # None =>
           \A k \in extent[caller] :
             Kept(k) => frame'[k].blocked \/ frame'[i].mode = "captured"
  PROVE  Traced'
<1>1. /\ frame[i].mode = "fresh" /\ i \notin Captured(frame)
      /\ UNCHANGED <<observations, returned, effect, history>>
  BY DEF Begin, Captured
<1>2. /\ extent'[i] = {i} \cup (IF caller = None THEN {} ELSE extent[caller])
      /\ \A j \in Invocation \ {i} : extent'[j] = extent[j]
  BY DEF Begin, IInv, TypeOK
<1>3. /\ \A c \in Invocation : i \notin extent[c]
      /\ \A c \in Invocation : extent[c] \subseteq Invocation
  BY <1>1 DEF Traced, Contexts, Begun, IInv, TypeOK
<1>4. caller # None =>
        /\ caller \in Invocation \ {i} /\ Begun(caller) /\ ~returned[caller]
  BY <1>1 DEF Callers, Running, Begun
<1>5. \A j \in Invocation \ {i} :
        /\ j \in Captured(frame)' <=> j \in Captured(frame)
        /\ Kept(j)' => Kept(j)
        /\ Begun(j)' <=> Begun(j)
  BY DEF Captured, Kept, Begun
<1>6. Begun(i)' /\ (i \in Captured(frame)' <=> frame'[i].mode = "captured")
  BY DEF Begun, Captured
<1>7. \A e \in Effect : effect[e].status # "fresh" =>
        /\ effect[e].context \in Invocation \ {i}
        /\ extent'[effect[e].context] = extent[effect[e].context]
  BY <1>1, <1>2 DEF Traced, Contexts, Begun
<1>8. Contexts'
  <2>1. \A e \in Effect :
          effect[e].status # "fresh" =>
            effect[e].context \in Invocation /\ frame'[effect[e].context].mode # "fresh"
    BY <1>7 DEF Traced, Contexts, Begun
  <2>2. \A c \in Invocation \ {i} : \A k \in extent[c] : Begun(k)' /\ Begun(c)'
    BY <1>3, <1>5 DEF Traced, Contexts
  <2>3. \A c \in Invocation : \A k \in extent'[c] : Begun(k)' /\ Begun(c)'
    BY <1>2, <1>4, <1>6, <2>2
  <2>4. \A m \in 1 .. Len(history') : effect'[history'[m].effect].status # "fresh"
    BY <1>1 DEF Traced, Contexts
  <2> QED
    BY <1>1, <2>1, <2>3, <2>4 DEF Contexts, Begun
<1>9. ASSUME NEW k \in Invocation \ {i}, Kept(k), ~frame'[k].blocked, k \in extent'[i]
      PROVE  /\ i \in Captured(frame)' /\ k \in frame'[i].lineage /\ ~frame'[i].closed
  <2>1. caller # None /\ k \in extent[caller]
    BY <1>2, <1>9
  <2>2. frame'[i].mode = "captured"
    BY <1>9, <2>1
  <2>3. ParentOf(caller) = caller /\ k \in frame[caller].lineage
    BY <1>9, <2>1, CallerBelow
  <2> QED
    BY <1>6, <2>1, <2>2, <2>3
<1>10. Within'
  <2> SUFFICES ASSUME NEW k \in Captured(frame)'
               PROVE  /\ frame'[k].lineage \subseteq extent'[k]
                      /\ ~frame'[k].blocked =>
                           \A c \in Invocation :
                             k \in extent'[c] => /\ c \in Captured(frame)'
                                                 /\ k \in frame'[c].lineage
                                                 /\ frame'[c].closed => returned'[c]
    BY DEF Within
  <2>1. k \in Invocation
    BY DEF Captured
  <2>2. CASE k = i
    <3>1. frame'[i].lineage \subseteq extent'[i]
      <4>1. CASE ParentOf(caller) = None
        BY <1>2, <1>6, <2>2, <4>1
      <4>2. CASE ParentOf(caller) # None
        <5>1. caller # None /\ caller \in Captured(frame)
          BY <4>2 DEF ParentOf, Open
        <5>2. frame[caller].lineage \subseteq extent[caller]
          BY <5>1 DEF Traced, Within
        <5> QED
          BY <1>2, <1>6, <2>2, <4>2, <5>1, <5>2
      <4> QED
        BY <4>1, <4>2
    <3>2. \A c \in Invocation : i \in extent'[c] => c = i
      BY <1>2, <1>3
    <3> QED
      BY <1>6, <2>2, <3>1, <3>2
  <2>3. CASE k # i
    <3>1. k \in Captured(frame) /\ frame'[k].lineage \subseteq extent'[k]
      BY <1>2, <1>5, <2>1, <2>3 DEF Traced, Within
    <3>2. ASSUME ~frame'[k].blocked, NEW c \in Invocation, k \in extent'[c]
          PROVE  /\ c \in Captured(frame)' /\ k \in frame'[c].lineage
                 /\ frame'[c].closed => returned'[c]
      <4>1. Kept(k)
        BY <2>1, <2>3, <3>1, <3>2 DEF Kept
      <4>2. CASE c = i
        BY <1>9, <2>1, <2>3, <3>2, <4>1, <4>2
      <4>3. CASE c # i
        <5>1. k \in extent[c]
          BY <1>2, <3>2, <4>3
        <5>2. /\ c \in Captured(frame) /\ k \in frame[c].lineage
              /\ frame[c].closed => returned[c]
          BY <3>1, <4>1, <5>1 DEF Kept, Traced, Within
        <5> QED
          BY <1>1, <1>5, <4>3, <5>2
      <4> QED
        BY <4>2, <4>3
    <3> QED
      BY <3>1, <3>2
  <2> QED
    BY <2>2, <2>3
<1>11. Generations'
  <2>1. \A k \in Captured(frame) :
          k # i /\ k \in Invocation /\ frame[k].lineage \subseteq Captured(frame)
    BY <1>1 DEF Captured, IInv, FramesOK, Lineages
  <2>2. ASSUME NEW k \in Captured(frame), NEW j \in frame[k].lineage
        PROVE  frame'[j].generation = frame'[k].generation
    BY <2>1, <2>2 DEF Traced, Generations
  <2>3. ASSUME frame'[i].mode = "captured", NEW j \in frame'[i].lineage
        PROVE  frame'[j].generation = frame'[i].generation
    <3>1. CASE j = i
      BY <3>1
    <3>2. CASE j # i
      <4>1. ParentOf(caller) # None /\ j \in frame[caller].lineage
        BY <2>3, <3>2
      <4>2. caller \in Captured(frame) /\ caller # i
        BY <2>1, <4>1 DEF ParentOf, Open
      <4>3. frame'[caller].generation = frame'[i].generation
        BY <2>1, <2>3, <4>1, <4>2
      <4> QED
        BY <2>2, <4>1, <4>2, <4>3
    <3> QED
      BY <3>1, <3>2
  <2>4. \A k \in Captured(frame)' :
          k = i \/ (k \in Captured(frame) /\ frame'[k].lineage = frame[k].lineage)
    BY <1>5 DEF Captured
  <2> QED
    BY <1>6, <2>2, <2>3, <2>4 DEF Generations
<1>12. \A e \in Effect : effect[e].status = "running" => effect[e].ids[i] = NoId
  BY <1>1 DEF IInv, EffectsPlaced
<1>13. Followed'
  <2> SUFFICES ASSUME NEW k \in Invocation, Kept(k)', NEW e \in Effect, effect[e].status = "running"
               PROVE  effect[e].ids[k] # NoId <=> k \in extent'[effect[e].context]
    BY <1>1 DEF Followed
  <2>1. CASE k = i
    BY <1>3, <1>7, <1>12, <2>1
  <2>2. CASE k # i
    BY <1>5, <1>7, <2>2 DEF Traced, Followed
  <2> QED
    BY <2>1, <2>2
<1>14. /\ history \in Seq(Happening) /\ \A m \in 1 .. Len(history) : history[m].effect \in Effect
  <2>1. history \in Seq(Happening)
    BY DEF IInv, TypeOK, Happening
  <2>2. \A m \in 1 .. Len(history) : history[m] \in Happening
    BY <2>1, ElementOfSeq
  <2> QED
    BY <2>1, <2>2 DEF Happening
<1>15. \A k \in Invocation : Places(k)' = Places(k)
  <2>1. \A m \in 1 .. Len(history) :
          extent'[effect[history[m].effect].context] = extent[effect[history[m].effect].context]
    BY <1>7, <1>14 DEF Traced, Contexts
  <2> QED
    BY <1>1, <2>1 DEF Places
<1>16. Transcribed'
  <2> SUFFICES ASSUME NEW k \in Invocation, Kept(k)'
               PROVE  Faithful(k, frame'[k], effect, extent', history, Places(k))
    BY <1>1, <1>15 DEF Transcribed
  <2>1. CASE k # i
    <3>1. Kept(k) /\ ~frame'[k].blocked
      BY <1>5, <2>1 DEF Kept
    <3>2. Faithful(k, frame[k], effect, extent, history, Places(k)) /\ frame[k] \in Frame
      BY <3>1 DEF Traced, Transcribed, IInv, TypeOK
    <3>3. Transcript(frame[k].trace, Places(k), history)
      BY <3>2 DEF Faithful
    <3>4. /\ frame'[k].trace = frame[k].trace
          /\ frame'[k].nextId = frame[k].nextId
          /\ frame'[k].responses = frame[k].responses
      BY <2>1, <3>1
    <3> QED
      BY <1>7, <3>2, <3>3, <3>4, NotRecorded
  <2>2. CASE k = i
    <3>1. /\ frame'[i].trace = << >> /\ frame'[i].nextId = 0
          /\ \A e \in Effect : frame'[i].responses[e] = NoId
      BY <1>6, <2>2 DEF Kept
    <3>2. Recorded(i, effect) = {}
      BY <1>12 DEF Recorded
    <3>3. Places(i) = {}
      BY <1>3, <1>7, <1>14 DEF Places, Traced, Contexts
    <3>4. Transcript(<< >>, {}, history)
      BY FS_EmptySet DEF Transcript
    <3>5. Readable(i, frame'[i], effect)
      BY <3>1, <3>2, ReadersStart DEF Readable, Reading, Fresh
    <3>6. /\ Numbered(i, frame'[i], effect)
          /\ Resolved(frame'[i], effect)
          /\ Issued(i, frame'[i], effect, extent')
      BY <3>1, <3>2 DEF Numbered, Resolved, Issued
    <3> QED
      BY <2>2, <3>1, <3>3, <3>4, <3>5, <3>6 DEF Faithful
  <2> QED
    BY <2>1, <2>2
<1>17. Emitted'
  <2> SUFFICES ASSUME NEW o \in observations
               PROVE  o.trace = frame'[o.invocation].trace
    BY <1>1 DEF Emitted
  <2>1. o.invocation \in Invocation \ {i} /\ ~frame'[o.invocation].blocked
    BY <1>1 DEF IInv, Sealed, Captured
  <2> QED
    BY <2>1 DEF Traced, Emitted
<1> QED
  BY <1>8, <1>10, <1>11, <1>13, <1>16, <1>17 DEF Traced

(* A call without a frame is in no extent that keeps its evidence.         *)
LEMMA CallNativeTraced ==
  ASSUME IInv, Traced, IInv', NEW i \in Invocation, NEW caller \in Callers, CallNative(i, caller)
  PROVE  Traced'
<1>1. /\ Begin(i, caller) /\ frame' = [frame EXCEPT ![i].mode = "native"]
      /\ configuration = 0 \/ (ParentOf(caller) = None /\ ~accepting)
  BY DEF CallNative, Commit, WithoutFrame
<1>2. frame \in [Invocation -> Frame]
  BY DEF IInv, TypeOK
<1>3. /\ \A j \in Invocation \ {i} : frame'[j] = frame[j]
      /\ frame'[i].mode = "native"
  BY <1>1, <1>2 DEF Frame
<1>4. caller # None => \A k \in extent[caller] : ~Kept(k)
  BY <1>1, CallerBelow, NoneAssumption DEF Open, Captured
<1> QED
  BY <1>1, <1>3, <1>4, BeginTraced

(* A declined call blocks whatever it is in the extent of.                 *)
LEMMA DeclineTraced ==
  ASSUME IInv, Traced, IInv', NEW i \in Invocation, NEW caller \in Callers, Decline(i, caller)
  PROVE  Traced'
<1> DEFINE parent == ParentOf(caller)
           declined == WithoutFrame(InSession(frame, i, configuration), i, "uncaptured")
           gs == IF parent = None THEN declined ELSE Block(declined, {parent})
<1>1. Begin(i, caller) /\ frame[i].mode = "fresh" /\ frame' = gs
  BY DEF Decline, Begin, InSession
<1>2. frame \in [Invocation -> Frame] /\ configuration \in Nat
  BY LimitAssumption DEF IInv, TypeOK
<1>3. /\ FramesTyped(declined)
      /\ \A j \in Invocation \ {i} : declined[j] = frame[j]
      /\ declined[i].mode = "uncaptured"
  <2> DEFINE f == [frame[i] EXCEPT !.session = configuration]
             g == [f EXCEPT !.mode = "uncaptured"]
  <2>1. f \in Frame
    BY <1>2, FrameUpdate
  <2>2. g \in Frame /\ g.mode = "uncaptured"
    <3>1. "uncaptured" \in Modes
      BY DEF Modes
    <3> HIDE DEF f
    <3> QED
      BY <2>1, <3>1, FrameUpdate DEF Frame
  <2>3. declined = [frame EXCEPT ![i] = g]
    BY <1>2 DEF WithoutFrame, InSession
  <2> HIDE DEF declined, g
  <2> QED
    BY <1>2, <2>2, <2>3 DEF FramesTyped
<1> HIDE DEF declined
<1>4. ASSUME NEW j \in Invocation
      PROVE  /\ gs[j].mode = declined[j].mode
             /\ gs[j].lineage = declined[j].lineage
             /\ gs[j].generation = declined[j].generation
             /\ gs[j].closed = declined[j].closed
             /\ declined[j].blocked => gs[j].blocked
             /\ ~gs[j].blocked => gs[j] = declined[j]
             /\ parent # None /\ j \in declined[parent].lineage => gs[j].blocked
  <2>1. CASE parent = None
    BY <2>1
  <2>2. CASE parent # None
    BY <1>3, <2>2, BlockFields, BlockLeaves DEF SameTree, SameLinks
  <2> QED
    BY <2>1, <2>2
<1>5. caller # None =>
        \A k \in extent[caller] : Kept(k) => gs[k].blocked
  <2> SUFFICES ASSUME caller # None, NEW k \in extent[caller], Kept(k)
               PROVE  gs[k].blocked
    OBVIOUS
  <2>1. caller \in Open(frame) /\ parent = caller /\ k \in frame[caller].lineage
    BY CallerBelow
  <2>2. caller \in Invocation \ {i} /\ k \in Invocation
    BY <1>1, <2>1 DEF Open, Captured, Kept
  <2> HIDE DEF gs, parent
  <2> QED
    BY <1>3, <1>4, <2>1, <2>2, NoneAssumption
<1> HIDE DEF gs
<1> QED
  BY <1>1, <1>3, <1>4, <1>5, BeginTraced

(* A new frame changes nothing that the others recorded.                   *)
LEMMA EnterLeaves ==
  ASSUME NEW fs, FramesTyped(fs), NEW i \in Invocation, NEW p \in Invocation \cup {None}, NEW f
  PROVE  \A j \in Invocation \ {i} :
           /\ Entered(fs, p, i, f)[j].lineage = fs[j].lineage
           /\ Entered(fs, p, i, f)[j].generation = fs[j].generation
           /\ Entered(fs, p, i, f)[j].trace = fs[j].trace
           /\ Entered(fs, p, i, f)[j].nextId = fs[j].nextId
           /\ Entered(fs, p, i, f)[j].responses = fs[j].responses
<1> SUFFICES ASSUME NEW j \in Invocation \ {i}
             PROVE  /\ Entered(fs, p, i, f)[j].lineage = fs[j].lineage
                    /\ Entered(fs, p, i, f)[j].generation = fs[j].generation
                    /\ Entered(fs, p, i, f)[j].trace = fs[j].trace
                    /\ Entered(fs, p, i, f)[j].nextId = fs[j].nextId
                    /\ Entered(fs, p, i, f)[j].responses = fs[j].responses
  OBVIOUS
<1>1. fs[j] \in Frame /\ DOMAIN fs = Invocation
  BY DEF FramesTyped
<1>2. \/ Entered(fs, p, i, f)[j] = fs[j]
      \/ Entered(fs, p, i, f)[j] = [fs[j] EXCEPT !.children = @ + 1]
  BY <1>1 DEF Entered
<1> QED
  BY <1>1, <1>2 DEF Frame

(* A captured call joins the extents of the frames it is below.            *)
LEMMA CallCapturedTraced ==
  ASSUME IInv, Traced, IInv', NEW i \in Invocation, NEW caller \in Callers,
         NEW generation \in Generation, NEW encodes \in BOOLEAN,
         CallCaptured(i, caller, generation, encodes)
  PROVE  Traced'
<1> DEFINE p == ParentOf(caller)
           f == NewFrame(p, i, generation)
           entered == Entered(frame, p, i, f)
           gs == IF encodes THEN entered ELSE Block(entered, {i})
<1>1. /\ Begin(i, caller) /\ frame[i].mode = "fresh" /\ frame' = gs
      /\ ~MixesGenerations(caller, generation)
  BY DEF CallCaptured, Begin, Entered, Commit
<1>2. FramesOK(frame) /\ FramesTyped(frame) /\ configuration \in Nat
  BY LimitAssumption DEF IInv, TypeOK, FramesOK, FramesTyped
<1>3. /\ p \in Open(frame) \cup {None} /\ p \in Invocation \cup {None}
      /\ p # None => p = caller
  BY DEF ParentOf, Open, Captured
<1>10. p # None => frame[caller].generation = generation
  BY <1>1 DEF MixesGenerations
<1> HIDE DEF p
<1>4. /\ f \in Frame
      /\ f.mode = "captured" /\ f.parent = p /\ f.children = 0 /\ ~f.closed /\ ~f.blocked
      /\ f.lineage = {i} \cup IF p = None THEN {} ELSE frame[p].lineage
      /\ f.generation = generation /\ f.trace = << >> /\ f.nextId = 0
      /\ \A e \in Effect : f.responses[e] = NoId
  <2>1. p # None => frame[p].lineage \in SUBSET Invocation
    BY <1>2, <1>3 DEF Open, Captured, FramesOK, Frame
  <2>2. {i} \cup (IF p = None THEN {} ELSE frame[p].lineage) \in SUBSET Invocation
    BY <2>1
  <2>3. /\ << >> \in Seq(Event)
        /\ [e \in Effect |-> NoId] \in [Effect -> Nat \cup {NoId}]
    OBVIOUS
  <2> QED
    BY <1>2, <1>3, <2>1, <2>2, <2>3 DEF NewFrame, Frame, Modes
<1> HIDE DEF f
<1>5. /\ FramesOK(entered) /\ FramesTyped(entered) /\ entered[i] = f
      /\ \A j \in Invocation \ {i} :
           /\ entered[j].mode = frame[j].mode
           /\ entered[j].closed = frame[j].closed
           /\ entered[j].blocked = frame[j].blocked
  <2>1. p \in Open(frame) \cup {None}
    BY <1>3
  <2>2. /\ f \in Frame
        /\ f.mode = "captured" /\ f.parent = p /\ f.children = 0 /\ ~f.closed /\ ~f.blocked
        /\ f.lineage = {i} \cup IF p = None THEN {} ELSE frame[p].lineage
    BY <1>4
  <2>3. /\ FramesOK(entered) /\ entered[i] = f
        /\ \A j \in Invocation \ {i} :
             /\ entered[j].mode = frame[j].mode
             /\ entered[j].closed = frame[j].closed
             /\ entered[j].blocked = frame[j].blocked
    BY <1>1, <1>2, <2>1, <2>2, EnterKeeps
  <2> QED
    BY <2>3 DEF FramesOK, FramesTyped
<1>6. \A j \in Invocation \ {i} :
        /\ entered[j].lineage = frame[j].lineage
        /\ entered[j].generation = frame[j].generation
        /\ entered[j].trace = frame[j].trace
        /\ entered[j].nextId = frame[j].nextId
        /\ entered[j].responses = frame[j].responses
  BY <1>2, <1>3, EnterLeaves
<1> HIDE DEF entered
<1>7. ASSUME NEW j \in Invocation
      PROVE  /\ gs[j].mode = entered[j].mode
             /\ gs[j].lineage = entered[j].lineage
             /\ gs[j].generation = entered[j].generation
             /\ gs[j].closed = entered[j].closed
             /\ entered[j].blocked => gs[j].blocked
             /\ ~gs[j].blocked => gs[j] = entered[j]
  <2>1. CASE encodes
    BY <2>1
  <2>2. CASE ~encodes
    BY <1>5, <2>2, BlockFields, BlockLeaves DEF SameTree, SameLinks
  <2> QED
    BY <2>1, <2>2
<1> HIDE DEF gs
<1>8. \A j \in Invocation \ {i} :
        /\ frame'[j].mode = frame[j].mode
        /\ frame'[j].lineage = frame[j].lineage
        /\ frame'[j].generation = frame[j].generation
        /\ frame'[j].closed = frame[j].closed
        /\ frame[j].blocked => frame'[j].blocked
        /\ ~frame'[j].blocked => /\ frame'[j].trace = frame[j].trace
                                 /\ frame'[j].nextId = frame[j].nextId
                                 /\ frame'[j].responses = frame[j].responses
  BY <1>1, <1>5, <1>6, <1>7
<1>9. /\ frame'[i].mode = "captured"
      /\ frame'[i].lineage = {i} \cup (IF p = None THEN {} ELSE frame[caller].lineage)
      /\ p # None => frame[caller].generation = frame'[i].generation
      /\ ~frame'[i].closed
      /\ ~frame'[i].blocked => /\ frame'[i].trace = << >>
                               /\ frame'[i].nextId = 0
                               /\ \A e \in Effect : frame'[i].responses[e] = NoId
  BY <1>1, <1>3, <1>4, <1>5, <1>7, <1>10
<1> QED
  BY <1>1, <1>8, <1>9, BeginTraced DEF p

-----------------------------------------------------------------------------
(* devEffect *)

(* Whatever runs in the extent of a frame that has its evidence records     *)
(* into it, and nothing else does.                                          *)
LEMMA Covered ==
  ASSUME IInv, Traced, NEW c \in Invocation, Running(c), NEW i \in Invocation, Kept(i)
  PROVE  i \in extent[c] <=> Records(c) /\ i \in Projections(frame, c)
<1>1. ASSUME i \in extent[c]
      PROVE  Records(c) /\ i \in Projections(frame, c)
  <2>1. /\ c \in Captured(frame) /\ i \in frame[c].lineage /\ ~frame[c].closed
    BY <1>1 DEF Traced, Within, Kept, Running
  <2>2. ~frame[c].blocked
    BY <2>1 DEF IInv, FramesOK, BlocksReachUp, Kept
  <2>3. ~frame[i].closed
    BY <2>1 DEF IInv, FramesOK, OpenAncestors, Open, Kept
  <2> QED
    BY <2>1, <2>2, <2>3 DEF Records, Projections, Open, Kept
<1>2. ASSUME Records(c), i \in Projections(frame, c)
      PROVE  i \in extent[c]
  BY <1>2 DEF Records, Projections, Open, Traced, Within
<1> QED
  BY <1>1, <1>2

PlacesOf(i, eff, ext, h) == {m \in 1 .. Len(h) : i \in ext[eff[h[m].effect].context]}

(* The effects of h are where they were. *)
SameContexts(eff, eff2, h) ==
  \A m \in 1 .. Len(h) : eff2[h[m].effect].context = eff[h[m].effect].context

(* Places are places of the history.                                       *)
LEMMA PlacesTyped ==
  ASSUME NEW i, NEW eff, NEW ext, NEW h
  PROVE  PlacesOf(i, eff, ext, h) \in SUBSET (1 .. Len(h))
BY DEF PlacesOf

(* Where the history grows by one happening.                               *)
LEMMA PlacesGrow ==
  ASSUME NEW i, NEW eff, NEW eff2, NEW ext, NEW h \in Seq(Happening), NEW x \in Happening,
         SameContexts(eff, eff2, h)
  PROVE  /\ PlacesOf(i, eff, ext, h) \in SUBSET (1 .. Len(h))
         /\ i \in ext[eff2[x.effect].context] =>
              PlacesOf(i, eff2, ext, Append(h, x)) = Later(PlacesOf(i, eff, ext, h), h)
         /\ i \notin ext[eff2[x.effect].context] =>
              PlacesOf(i, eff2, ext, Append(h, x)) = PlacesOf(i, eff, ext, h)
<1> DEFINE u == Append(h, x)
<1>1. /\ Len(h) \in Nat /\ Len(u) = Len(h) + 1
      /\ \A m \in 1 .. Len(h) : u[m] = h[m]
      /\ u[Len(h) + 1] = x
  BY AppendProperties
<1> HIDE DEF u
<1>2. \A m \in 1 .. Len(u) : m \in 1 .. Len(h) \/ m = Len(h) + 1
  BY <1>1
<1>3. PlacesOf(i, eff2, ext, u) = PlacesOf(i, eff, ext, h) \cup
        (IF i \in ext[eff2[x.effect].context] THEN {Len(h) + 1} ELSE {})
  <2>1. ASSUME NEW m
        PROVE  m \in PlacesOf(i, eff2, ext, u) <=>
                 \/ m \in PlacesOf(i, eff, ext, h)
                 \/ m = Len(h) + 1 /\ i \in ext[eff2[x.effect].context]
    <3>1. CASE m \in 1 .. Len(h)
      BY <1>1, <3>1 DEF PlacesOf, SameContexts
    <3>2. CASE m = Len(h) + 1
      BY <1>1, <3>2 DEF PlacesOf
    <3>3. CASE m \notin 1 .. Len(h) /\ m # Len(h) + 1
      BY <1>2, <3>3 DEF PlacesOf
    <3> QED
      BY <3>1, <3>2, <3>3
  <2> QED
    BY <2>1
<1> QED
  BY <1>3 DEF PlacesOf, Later, u

(* Two happenings are one after the other.                                 *)
LEMMA TwoMore ==
  ASSUME NEW H, NEW h \in Seq(H), NEW x \in H, NEW y \in H
  PROVE  /\ h \o <<x, y>> = Append(Append(h, x), y)
         /\ Append(h, x) \in Seq(H)
         /\ Len(Append(h, x)) = Len(h) + 1
<1>1. /\ Len(h \o <<x, y>>) = Len(h) + 2 /\ h \o <<x, y>> \in Seq(H)
      /\ \A m \in 1 .. Len(h) + 2 :
           (h \o <<x, y>>)[m] = IF m <= Len(h) THEN h[m] ELSE <<x, y>>[m - Len(h)]
  <2>1. <<x, y>> \in Seq(H) /\ Len(<<x, y>>) = 2
    OBVIOUS
  <2> QED
    BY <2>1, ConcatProperties
<1>2. /\ Append(h, x) \in Seq(H) /\ Len(Append(h, x)) = Len(h) + 1
      /\ \A m \in 1 .. Len(h) : Append(h, x)[m] = h[m]
      /\ Append(h, x)[Len(h) + 1] = x
      /\ Len(h) \in Nat
  BY AppendProperties
<1> DEFINE u == Append(h, x)
<1>3. /\ Append(u, y) \in Seq(H) /\ Len(Append(u, y)) = Len(u) + 1
      /\ \A m \in 1 .. Len(u) : Append(u, y)[m] = u[m]
      /\ Append(u, y)[Len(u) + 1] = y
  <2> HIDE DEF u
  <2> QED
    BY <1>2, AppendProperties DEF u
<1>4. Append(u, y) = h \o <<x, y>>
  <2>1. \A m \in 1 .. Len(h) + 2 : m \in 1 .. Len(h) \/ m = Len(h) + 1 \/ m = Len(h) + 2
    BY <1>2
  <2>2. /\ (h \o <<x, y>>)[Len(h) + 1] = x
        /\ (h \o <<x, y>>)[Len(h) + 2] = y
    BY <1>1, <1>2
  <2>3. \A m \in 1 .. Len(h) + 2 : Append(u, y)[m] = (h \o <<x, y>>)[m]
    BY <1>1, <1>2, <1>3, <2>1, <2>2
  <2>4. Len(Append(u, y)) = Len(h \o <<x, y>>)
    BY <1>1, <1>2, <1>3
  <2> HIDE DEF u
  <2> QED
    BY <1>1, <1>3, <2>3, <2>4, SeqEqual
<1> QED
  BY <1>2, <1>4

(* What a history longer by two consists of.                               *)
LEMMA AfterTwo ==
  ASSUME NEW h \in Seq(Happening), NEW x \in Happening, NEW y \in Happening
  PROVE  \A m \in 1 .. Len(h \o <<x, y>>) :
           (h \o <<x, y>>)[m] \in {x, y} \/ (m \in 1 .. Len(h) /\ (h \o <<x, y>>)[m] = h[m])
<1> DEFINE u == Append(h, x)
<1>1. h \o <<x, y>> = Append(u, y) /\ u \in Seq(Happening)
  BY TwoMore
<1>2. /\ \A m \in 1 .. Len(h) : u[m] = h[m]
      /\ u[Len(h) + 1] = x /\ Len(u) = Len(h) + 1 /\ Len(h) \in Nat
  BY AppendProperties
<1> HIDE DEF u
<1>3. /\ \A m \in 1 .. Len(u) : Append(u, y)[m] = u[m]
      /\ Append(u, y)[Len(u) + 1] = y /\ Len(Append(u, y)) = Len(u) + 1
  BY <1>1, AppendProperties
<1> QED
  BY <1>1, <1>2, <1>3

(* A happening inside the extent is one place more.                        *)
LEMMA PlacesInside ==
  ASSUME NEW i, NEW eff, NEW eff2, NEW ext, NEW h \in Seq(Happening), NEW x \in Happening,
         SameContexts(eff, eff2, h),
         i \in ext[eff2[x.effect].context]
  PROVE  PlacesOf(i, eff2, ext, Append(h, x)) = Later(PlacesOf(i, eff, ext, h), h)
BY PlacesGrow

(* One outside changes neither the places nor the transcript.              *)
LEMMA PlacesOutside ==
  ASSUME NEW i, NEW eff, NEW eff2, NEW ext, NEW h \in Seq(Happening), NEW x \in Happening,
         SameContexts(eff, eff2, h),
         i \notin ext[eff2[x.effect].context],
         NEW t, Transcript(t, PlacesOf(i, eff, ext, h), h)
  PROVE  /\ PlacesOf(i, eff2, ext, Append(h, x)) = PlacesOf(i, eff, ext, h)
         /\ Transcript(t, PlacesOf(i, eff2, ext, Append(h, x)), Append(h, x))
<1>1. PlacesOf(i, eff, ext, h) \in SUBSET (1 .. Len(h))
  BY PlacesGrow
<1>2. PlacesOf(i, eff2, ext, Append(h, x)) = PlacesOf(i, eff, ext, h)
  BY PlacesGrow
<1>3. Transcript(t, PlacesOf(i, eff, ext, h), Append(h, x))
  BY <1>1, TranscriptExtends
<1> QED
  BY <1>1, <1>2, <1>3

(* Two events of one effect on which nothing is known before. *)
LEMMA PlacesOutsideTwice ==
  ASSUME NEW i, NEW e \in Effect, NEW eff, NEW eff2, NEW ext, NEW h \in Seq(Happening),
         SameContexts(eff, eff2, h),
         i \notin ext[eff2[e].context],
         NEW t, Transcript(t, PlacesOf(i, eff, ext, h), h)
  PROVE  LET u == h \o << [kind |-> "call", effect |-> e], [kind |-> "settle", effect |-> e] >>
         IN  /\ PlacesOf(i, eff2, ext, u) = PlacesOf(i, eff, ext, h)
             /\ Transcript(t, PlacesOf(i, eff, ext, h), u)
<1> DEFINE x == [kind |-> "call", effect |-> e]
           y == [kind |-> "settle", effect |-> e]
<1>0. x \in Happening /\ y \in Happening /\ x.effect = e /\ y.effect = e
  BY DEF Happening
<1> HIDE DEF x, y
<1> DEFINE u == Append(h, x)
<1>1. h \o <<x, y>> = Append(u, y) /\ u \in Seq(Happening)
  BY <1>0, TwoMore
<1>2. /\ PlacesOf(i, eff2, ext, u) = PlacesOf(i, eff, ext, h)
      /\ Transcript(t, PlacesOf(i, eff2, ext, u), u)
  BY <1>0, PlacesOutside
<1> HIDE DEF u
<1>4. SameContexts(eff2, eff2, u)
  BY DEF SameContexts
<1>3. /\ PlacesOf(i, eff2, ext, Append(u, y)) = PlacesOf(i, eff2, ext, u)
      /\ Transcript(t, PlacesOf(i, eff2, ext, Append(u, y)), Append(u, y))
  BY <1>0, <1>1, <1>2, <1>4, PlacesOutside
<1> QED
  BY <1>1, <1>2, <1>3 DEF x, y

(* What a frame g of i knows of e, issued by c, once it is as in eff2 and    *)
(* what happened is h.                                                      *)
Heard(i, c, e, g, eff2, h) ==
  /\ frame[i].closed => g.trace = frame[i].trace
  /\ eff2[e].status = "running" => (eff2[e].ids[i] # NoId <=> i \in extent[c])
  /\ Faithful(i, g, eff2, extent, h, PlacesOf(i, eff2, extent, h))

(* A step of one effect, whatever the frames made of it. *)
LEMMA EffectTraced ==
  ASSUME IInv, Traced, IInv', NEW gs, frame' = gs, SameTree(frame, gs),
         \A j \in Invocation : frame[j].blocked => gs[j].blocked,
         UNCHANGED <<observations, returned, extent>>,
         NEW e \in Effect, NEW c \in Invocation, Begun(c),
         effect'[e].status # "fresh", effect'[e].context = c,
         \A d \in Effect \ {e} : effect'[d] = effect[d],
         \A m \in 1 .. Len(history') :
           history'[m].effect = e \/ (m \in 1 .. Len(history) /\ history'[m] = history[m]),
         \A i \in Invocation : Kept(i) /\ ~gs[i].blocked =>
           Heard(i, c, e, gs[i], effect', history')
  PROVE  Traced'
<1>0. \A i \in Invocation : Kept(i) /\ ~gs[i].blocked =>
        /\ frame[i].closed => gs[i].trace = frame[i].trace
        /\ effect'[e].status = "running" => (effect'[e].ids[i] # NoId <=> i \in extent[c])
        /\ Faithful(i, gs[i], effect', extent, history', PlacesOf(i, effect', extent, history'))
  BY DEF Heard
<1>1. \A i \in Invocation :
        /\ gs[i].mode = frame[i].mode
        /\ gs[i].lineage = frame[i].lineage
        /\ gs[i].generation = frame[i].generation
        /\ gs[i].closed = frame[i].closed
  BY DEF SameTree, SameLinks
<1>2. \A i \in Invocation : /\ i \in Captured(frame)' <=> i \in Captured(frame)
                            /\ Kept(i)' => Kept(i) /\ ~gs[i].blocked
                            /\ Begun(i)' <=> Begun(i)
  BY <1>1 DEF Captured, Kept, Begun
<1>3. Contexts'
  <2>1. \A d \in Effect :
          effect'[d].status # "fresh" =>
            effect'[d].context \in Invocation /\ frame[effect'[d].context].mode # "fresh"
    BY DEF Traced, Contexts, Begun
  <2>2. \A d \in Effect :
          effect'[d].status # "fresh" =>
            effect'[d].context \in Invocation /\ frame'[effect'[d].context].mode # "fresh"
    BY <1>1, <2>1
  <2>3. \A k \in Invocation : \A i \in extent[k] : i \in Invocation /\ Begun(i) /\ Begun(k)
    BY DEF Traced, Contexts, IInv, TypeOK
  <2>4. \A m \in 1 .. Len(history') : effect'[history'[m].effect].status # "fresh"
    <3> SUFFICES ASSUME NEW m \in 1 .. Len(history')
                 PROVE  effect'[history'[m].effect].status # "fresh"
      OBVIOUS
    <3>1. CASE history'[m].effect = e
      BY <3>1
    <3>2. CASE history'[m].effect # e
      <4>1. m \in 1 .. Len(history) /\ history'[m] = history[m]
        BY <3>2
      <4>2. history[m].effect \in Effect
        <5>1. history \in Seq(Happening)
          BY DEF IInv, TypeOK, Happening
        <5>2. history[m] \in Happening
          BY <4>1, <5>1, ElementOfSeq
        <5> QED
          BY <5>2 DEF Happening
      <4> QED
        BY <3>2, <4>1, <4>2 DEF Traced, Contexts
    <3> QED
      BY <3>1, <3>2
  <2> QED
    BY <1>2, <2>2, <2>3, <2>4 DEF Contexts, Begun
<1>4. Within'
  <2>1. \A i \in Captured(frame) : i \in Invocation
    BY DEF Captured
  <2> QED
    BY <1>1, <1>2, <2>1 DEF Traced, Within, Captured
<1>5. Generations'
  <2>1. \A i \in Captured(frame) : i \in Invocation /\ frame[i].lineage \subseteq Invocation
    BY DEF Captured, IInv, FramesOK, Frame
  <2>2. \A i \in Captured(frame)' : i \in Captured(frame)
    BY <1>1 DEF Captured
  <2> QED
    BY <1>1, <2>1, <2>2 DEF Traced, Generations
<1>6. Followed'
  <2> SUFFICES ASSUME NEW i \in Invocation, Kept(i)', NEW d \in Effect, effect'[d].status = "running"
               PROVE  effect'[d].ids[i] # NoId <=> i \in extent'[effect'[d].context]
    BY DEF Followed
  <2>1. Kept(i) /\ ~gs[i].blocked
    BY <1>2
  <2>2. CASE d = e
    BY <1>0, <2>1, <2>2
  <2>3. CASE d # e
    BY <2>1, <2>3 DEF Traced, Followed
  <2> QED
    BY <2>2, <2>3
<1>7. Transcribed'
  <2> SUFFICES ASSUME NEW i \in Invocation, Kept(i)'
               PROVE  Faithful(i, frame'[i], effect', extent', history', Places(i)')
    BY DEF Transcribed
  <2>1. Places(i)' = PlacesOf(i, effect', extent, history')
    BY DEF Places, PlacesOf
  <2> QED
    BY <1>0, <1>2, <2>1
<1>8. Emitted'
  <2> SUFFICES ASSUME NEW o \in observations
               PROVE  o.trace = frame'[o.invocation].trace
    BY DEF Emitted
  <2>1. /\ o.invocation \in Invocation /\ Kept(o.invocation)
        /\ frame[o.invocation].closed /\ ~frame'[o.invocation].blocked
    BY DEF IInv, Sealed, Captured, Kept
  <2> QED
    BY <1>0, <2>1 DEF Traced, Emitted
<1> QED
  BY <1>3, <1>4, <1>5, <1>6, <1>7, <1>8 DEF Traced

(* What a step of e tells a frame of which it is not in the extent. *)
LEMMA ElsewhereTraced ==
  ASSUME IInv, Traced, NEW i \in Invocation, Kept(i), NEW g,
         NEW e \in Effect, NEW c \in Invocation, NEW eff2,
         effect[e].status = "fresh" \/ (eff2[e].of = effect[e].of /\ effect[e].context = c),
         \A d \in Effect \ {e} : eff2[d] = effect[d],
         eff2[e].status # "fresh", eff2[e].context = c, i \notin extent[c],
         e \in Recorded(i, eff2) <=> e \in Recorded(i, effect),
         eff2[e].ids[i] = effect[e].ids[i] \/ e \notin Recorded(i, effect),
         g.trace = frame[i].trace, g.nextId = frame[i].nextId,
         g.responses = frame[i].responses,
         NEW h2, Transcript(frame[i].trace, Places(i), h2)
  PROVE  Faithful(i, g, eff2, extent, h2, Places(i))
<1>1. Faithful(i, frame[i], effect, extent, history, Places(i)) /\ frame[i] \in Frame
  BY DEF Traced, Transcribed, IInv, TypeOK
<1>2. Recorded(i, eff2) = Recorded(i, effect)
  BY DEF Recorded
<1>3. \A d \in Recorded(i, effect) : eff2[d].ids[i] = effect[d].ids[i]
  BY DEF Recorded
<1>4. \A d \in Effect : effect[d].status # "fresh" =>
        /\ eff2[d].status # "fresh"
        /\ eff2[d].of = effect[d].of
        /\ i \in extent[effect[d].context] => i \in extent[eff2[d].context]
  OBVIOUS
<1> QED
  BY <1>1, <1>2, <1>3, <1>4, NotRecorded

(* History is well formed, and what is in it happened in its context. *)
LEMMA HistoryTyped ==
  ASSUME IInv, Traced
  PROVE  /\ history \in Seq(Happening)
         /\ \A m \in 1 .. Len(history) : /\ history[m].effect \in Effect
                                         /\ effect[history[m].effect].status # "fresh"
<1>1. history \in Seq(Happening)
  BY DEF IInv, TypeOK, Happening
<1>2. \A m \in 1 .. Len(history) : history[m] \in Happening
  BY <1>1, ElementOfSeq
<1> QED
  BY <1>1, <1>2 DEF Traced, Contexts, Happening

(* An unknown operation blocks every frame it is in the extent of.         *)
LEMMA UnknownEffectTraced ==
  ASSUME IInv, Traced, IInv', NEW c \in Invocation, NEW e \in Effect, UnknownEffect(c, e)
  PROVE  Traced'
<1> DEFINE gs == IF Records(c) THEN Block(frame, {c}) ELSE frame
           x == [kind |-> "call", effect |-> e]
           y == [kind |-> "settle", effect |-> e]
<1>1. /\ Running(c) /\ effect[e].status = "fresh"
      /\ effect' = [effect EXCEPT ![e].status = "settled", ![e].context = c]
      /\ history' = history \o <<x, y>>
      /\ frame' = gs
      /\ UNCHANGED <<observations, returned, extent>>
  BY DEF UnknownEffect, Commit
<1>2. FramesTyped(frame) /\ FramesOK(frame) /\ Begun(c)
  BY <1>1 DEF IInv, FramesOK, FramesTyped, Running, Begun
<1>3. /\ SameTree(frame, gs)
      /\ \A j \in Invocation : /\ frame[j].blocked => gs[j].blocked
                               /\ ~gs[j].blocked => gs[j] = frame[j]
                               /\ Records(c) /\ j \in frame[c].lineage => gs[j].blocked
  <2>1. CASE Records(c)
    BY <1>2, <2>1, BlockFields, BlockLeaves
  <2>2. CASE ~Records(c)
    BY <2>2 DEF SameTree, SameLinks
  <2> QED
    BY <2>1, <2>2
<1> HIDE DEF gs
<1>4. /\ effect'[e].status = "settled" /\ effect'[e].context = c
      /\ \A d \in Effect \ {e} : effect'[d] = effect[d]
  <2> DEFINE n == [effect[e] EXCEPT !.status = "settled", !.context = c]
  <2>1. effect \in [Effect -> NativeEffect] /\ effect[e] \in NativeEffect
    BY DEF IInv, TypeOK
  <2>2. effect' = [effect EXCEPT ![e] = n]
    BY <1>1, <2>1
  <2>3. n.status = "settled" /\ n.context = c
    BY <2>1 DEF NativeEffect
  <2> HIDE DEF n
  <2> QED
    BY <2>1, <2>2, <2>3
<1>5. /\ history \in Seq(Happening) /\ x \in Happening /\ y \in Happening
      /\ \A m \in 1 .. Len(history) : /\ history[m].effect \in Effect
                                      /\ history[m].effect # e
  BY <1>1, HistoryTyped DEF Happening
<1> HIDE DEF x, y
<1>6. x.effect = e /\ y.effect = e
  BY DEF x, y
<1>7. \A m \in 1 .. Len(history') :
        history'[m].effect = e \/ (m \in 1 .. Len(history) /\ history'[m] = history[m])
  BY <1>1, <1>5, <1>6, AfterTwo
<1>8. ASSUME NEW i \in Invocation, Kept(i), ~gs[i].blocked
      PROVE  Heard(i, c, e, gs[i], effect', history')
  <2>1. gs[i] = frame[i] /\ i \notin extent[c]
    BY <1>1, <1>3, <1>8, Covered DEF Projections
  <2>2. SameContexts(effect, effect', history)
    BY <1>4, <1>5 DEF SameContexts
  <2>3. /\ PlacesOf(i, effect', extent, history') = Places(i)
        /\ Transcript(frame[i].trace, Places(i), history')
    <3>1. Transcript(frame[i].trace, PlacesOf(i, effect, extent, history), history)
      BY <1>8 DEF Traced, Transcribed, Faithful, Places, PlacesOf
    <3> DEFINE u == history \o <<x, y>>
    <3>2. /\ PlacesOf(i, effect', extent, u) = PlacesOf(i, effect, extent, history)
          /\ Transcript(frame[i].trace, PlacesOf(i, effect, extent, history), u)
      <4>1. history \in Seq(Happening) /\ i \notin extent[(effect')[e].context]
        BY <1>4, <1>5, <2>1
      <4> QED
        BY <2>2, <3>1, <4>1, PlacesOutsideTwice DEF x, y
    <3>3. Places(i) = PlacesOf(i, effect, extent, history)
      BY DEF Places, PlacesOf
    <3> QED
      BY <1>1, <3>2, <3>3
  <2>4. /\ e \notin Recorded(i, effect) /\ e \notin Recorded(i, effect')
    BY <1>1, <1>4 DEF Recorded
  <2>5. Faithful(i, gs[i], effect', extent, history', Places(i))
    BY <1>1, <1>4, <1>8, <2>1, <2>3, <2>4, ElsewhereTraced
  <2> QED
    BY <1>4, <2>1, <2>3, <2>5 DEF Heard
<1> QED
  BY <1>1, <1>2, <1>3, <1>4, <1>7, <1>8, EffectTraced

(* c issues e, which the frames of IdsOf number. *)
Issue(c, e, of, eff2) ==
  /\ eff2 \in [Effect -> NativeEffect]
  /\ \A d \in Effect \ {e} : eff2[d] = effect[d]
  /\ eff2[e].status = "running" /\ eff2[e].context = c /\ eff2[e].of = of
  /\ eff2[e].ids = IdsOf(c)

(* The frames once the call of e is recorded, where its context records. *)
AfterCall(c, e, kind, of, recordable) ==
  IF Records(c) THEN RecordCall(frame, c, e, kind, of, recordable) ELSE frame

(* What recording the call of e leaves in a frame that keeps its evidence. *)
LEMMA CallFaithful ==
  ASSUME IInv, Traced, NEW c \in Invocation, Running(c), NEW i \in Invocation, Kept(i),
         NEW e \in Effect, effect[e].status = "fresh",
         NEW kind, NEW of \in Effect \cup {None}, Subject(kind, of),
         NEW recordable, NEW gs,
         gs = AfterCall(c, e, kind, of, recordable),
         ~gs[i].blocked,
         NEW eff2, Issue(c, e, of, eff2),
         NEW h, h = Append(history, [kind |-> "call", effect |-> e])
  PROVE  Heard(i, c, e, gs[i], eff2, h)
<1> DEFINE x == [kind |-> "call", effect |-> e]
           rid == ResponseNumber(frame, c, i, kind, of)
           S == PlacesOf(i, effect, extent, history)
<1>0. /\ eff2 \in [Effect -> NativeEffect] /\ \A d \in Effect \ {e} : eff2[d] = effect[d]
      /\ eff2[e].status = "running" /\ eff2[e].context = c /\ eff2[e].of = of
      /\ eff2[e].ids = IdsOf(c)
  BY DEF Issue
<1>1. /\ FramesOK(frame) /\ effect \in [Effect -> NativeEffect]
      /\ frame[i] \in Frame /\ history \in Seq(Happening)
      /\ x \in Happening /\ x.effect = e /\ h = Append(history, x)
      /\ SameContexts(effect, eff2, history)
  BY <1>0, HistoryTyped DEF IInv, TypeOK, FramesOK, Happening, SameContexts
<1>2. /\ i \in extent[c] <=> Records(c) /\ i \in Projections(frame, c)
      /\ IdsOf(c)[i] = IF i \in extent[c] THEN frame[i].nextId ELSE NoId
      /\ frame[i].nextId \in Nat /\ frame[i].nextId # NoId
  BY <1>1, Covered DEF IdsOf, Frame, NoId
<1>3. Faithful(i, frame[i], effect, extent, history, S) /\ S = Places(i)
  BY DEF Traced, Transcribed, Places, PlacesOf
<1>4. CASE i \in extent[c]
  <2>1. /\ gs = RecordCall(frame, c, e, kind, of, recordable)
        /\ i \in Projections(frame, c) /\ ~frame[i].closed
    BY <1>2, <1>4 DEF Projections, AfterCall
  <2>2. /\ gs[i].trace = Append(frame[i].trace, [kind |-> "call", id |-> frame[i].nextId,
                                                 effect |-> e, responseId |-> rid])
        /\ gs[i].nextId = frame[i].nextId + 1
        /\ gs[i].responses = frame[i].responses
    <3>1. CallLeft(frame, gs, c, i, e, kind, of)
      BY <1>1, <2>1, CallLeaves, Zenon
    <3> QED
      BY <2>1, <3>1 DEF CallLeft, CallEvent
  <2>3. gs[i] \in Frame
    <3>1. FramesOK(gs)
      BY <1>1, <2>1, RecordCallKeeps DEF Subject
    <3> QED
      BY <3>1 DEF FramesOK
  <2>4. /\ rid \in Nat \cup {NoId}
        /\ rid # NoId => eff2[e].of \in Effect /\ frame[i].responses[eff2[e].of] = rid
    <3>1. \A d \in Effect : frame[i].responses[d] \in Nat \cup {NoId}
      BY <1>1 DEF Frame
    <3> QED
      BY <1>0, <3>1 DEF ResponseNumber, Subject
  <2>5. /\ S \in SUBSET (1 .. Len(history))
        /\ PlacesOf(i, eff2, extent, h) = S \cup {Len(history) + 1}
    <3>1. i \in extent[eff2[x.effect].context]
      BY <1>0, <1>1, <1>4
    <3> HIDE DEF x
    <3> QED
      <4>1. PlacesOf(i, eff2, extent, Append(history, x)) =
              Later(PlacesOf(i, effect, extent, history), history)
        <5>1. /\ history \in Seq(Happening) /\ x \in Happening
              /\ SameContexts(effect, eff2, history)
          BY <1>1
        <5> QED
          BY <3>1, <5>1, PlacesInside
      <4> QED
        BY <1>1, <4>1, PlacesTyped DEF Later
  <2> HIDE DEF rid, S
  <2>6. eff2[e].ids[i] = frame[i].nextId /\ i \in extent[eff2[e].context]
    BY <1>0, <1>2, <1>4
  <2>7. Faithful(i, gs[i], eff2, extent, h, S \cup {Len(history) + 1})
    <3>1. /\ frame[i] \in Frame /\ effect \in [Effect -> NativeEffect]
          /\ history \in Seq(Happening) /\ S \in SUBSET (1 .. Len(history))
          /\ Faithful(i, frame[i], effect, extent, history, S)
      BY <1>1, <1>3, <2>5
    <3>2. Faithful(i, gs[i], eff2, extent,
                   Append(history, [kind |-> "call", effect |-> e]), S \cup {Len(history) + 1})
      BY <1>0, <2>2, <2>3, <2>4, <2>6, <3>1, CallRecorded
    <3> QED
      BY <3>2
  <2> QED
    BY <1>0, <1>2, <1>4, <2>1, <2>5, <2>6, <2>7 DEF Heard
<1>5. CASE i \notin extent[c]
  <2>1. /\ gs[i].trace = frame[i].trace
        /\ gs[i].nextId = frame[i].nextId
        /\ gs[i].responses = frame[i].responses
    <3>1. CASE Records(c)
      <4>1. gs = RecordCall(frame, c, e, kind, of, recordable) /\ i \notin Projections(frame, c)
        BY <1>2, <1>5, <3>1 DEF AfterCall
      <4> QED
        <5>1. CallLeft(frame, gs, c, i, e, kind, of)
          BY <1>1, <4>1, CallLeaves, Zenon
        <5> QED
          BY <4>1, <5>1 DEF CallLeft
    <3>2. CASE ~Records(c)
      BY <3>2 DEF AfterCall
    <3> QED
      BY <3>1, <3>2
  <2>2. Transcript(frame[i].trace, S, history)
    BY <1>3 DEF Faithful
  <2>3. /\ PlacesOf(i, eff2, extent, h) = S
        /\ Transcript(frame[i].trace, PlacesOf(i, eff2, extent, h), h)
    <3>1. i \notin extent[eff2[x.effect].context]
      BY <1>0, <1>1, <1>5
    <3> HIDE DEF x
    <3> QED
      BY <1>1, <2>2, <3>1, PlacesOutside
  <2>4. e \notin Recorded(i, effect) /\ e \notin Recorded(i, eff2)
    BY <1>0, <1>2, <1>5 DEF Recorded
  <2> HIDE DEF S
  <2>5. Faithful(i, gs[i], eff2, extent, h, Places(i))
    BY <1>0, <1>3, <1>5, <2>1, <2>3, <2>4, ElsewhereTraced
  <2> QED
    BY <1>0, <1>2, <1>3, <1>5, <2>1, <2>3, <2>5 DEF Heard
<1> QED
  BY <1>4, <1>5

(* An effect is issued.                                                    *)
LEMMA AsyncEffectTraced ==
  ASSUME IInv, Traced, IInv', NEW c \in Invocation, NEW e \in Effect, NEW kind \in Kinds,
         NEW of \in Effect \cup {None}, NEW recordable,
         AsyncEffect(c, e, kind, of, recordable)
  PROVE  Traced'
<1> DEFINE gs == IF Records(c) THEN RecordCall(frame, c, e, kind, of, recordable) ELSE frame
           n == [status |-> "running", kind |-> kind, context |-> c, of |-> of,
                 ids |-> IdsOf(c)]
           x == [kind |-> "call", effect |-> e]
<1>1. /\ Running(c) /\ effect[e].status = "fresh"
      /\ effect' = [effect EXCEPT ![e] = n]
      /\ history' = Append(history, x)
      /\ frame' = gs
      /\ UNCHANGED <<observations, returned, extent>>
      /\ Subject(kind, of)
  BY DEF AsyncEffect, Perform, Commit
<1>2. FramesOK(frame) /\ Begun(c)
  BY <1>1 DEF IInv, Running, Begun
<1>3. SameTree(frame, gs) /\ \A j \in Invocation : frame[j].blocked => gs[j].blocked
  <2>1. CASE Records(c)
    <3>1. gs = RecordCall(frame, c, e, kind, of, recordable)
      BY <2>1
    <3> HIDE DEF gs
    <3> QED
      BY <1>1, <1>2, <3>1, RecordCallKeeps DEF Subject
  <2>2. CASE ~Records(c)
    BY <2>2 DEF SameTree, SameLinks
  <2> QED
    BY <2>1, <2>2
<1>4. gs = AfterCall(c, e, kind, of, recordable)
  BY DEF AfterCall
<1> HIDE DEF gs
<1>5. n.status = "running" /\ n.context = c /\ n.of = of /\ n.ids = IdsOf(c)
  OBVIOUS
<1> HIDE DEF n
<1>6. /\ effect' \in [Effect -> NativeEffect]
      /\ effect'[e].status = "running" /\ effect'[e].context = c /\ effect'[e].of = of
      /\ effect'[e].ids = IdsOf(c)
      /\ \A d \in Effect \ {e} : effect'[d] = effect[d]
  BY <1>1, <1>5 DEF IInv, TypeOK
<1>7. \A m \in 1 .. Len(history') :
        history'[m].effect = e \/ (m \in 1 .. Len(history) /\ history'[m] = history[m])
  <2>1. history \in Seq(Happening) /\ x \in Happening /\ x.effect = e
    BY HistoryTyped DEF Happening
  <2> HIDE DEF x
  <2>2. /\ Len(history') = Len(history) + 1 /\ history'[Len(history) + 1] = x
        /\ \A m \in 1 .. Len(history) : history'[m] = history[m]
        /\ Len(history) \in Nat
    BY <1>1, <2>1, AppendProperties
  <2> QED
    BY <2>1, <2>2
<1>8. ASSUME NEW i \in Invocation, Kept(i), ~gs[i].blocked
      PROVE  Heard(i, c, e, gs[i], effect', history')
  <2>1. Heard(i, c, e, gs[i], effect', history')
    <3>1. Running(c) /\ effect[e].status = "fresh" /\ Subject(kind, of)
          /\ history' = Append(history, x)
      BY <1>1
    <3>2. Issue(c, e, of, effect')
      BY <1>6 DEF Issue
    <3> QED
      BY <1>4, <1>8, <3>1, <3>2, CallFaithful, Zenon
  <2> QED
    BY <2>1
<1>9. frame' = gs /\ UNCHANGED <<observations, returned, extent>>
  BY <1>1
<1>10. /\ effect'[e].status # "fresh" /\ effect'[e].context = c
       /\ \A d \in Effect \ {e} : effect'[d] = effect[d]
  BY <1>6
<1> QED
  BY <1>2, <1>3, <1>7, <1>8, <1>9, <1>10, EffectTraced

(* What recording that e settled leaves in a frame that keeps its evidence. *)
LEMMA SettlementFaithful ==
  ASSUME NEW i \in Invocation, NEW fs, NEW gs, fs[i] \in Frame, gs[i] \in Frame,
         NEW e \in Effect, NEW kind, NEW ids \in [Invocation -> Nat \cup {NoId}],
         SettlementLeft(fs, gs, ids, i, e, kind), ids[i] # NoId, ~fs[i].closed,
         NEW eff, NEW eff2, Settles(e, eff, eff2), eff[e].ids = ids,
         NEW ext, i \in ext[eff[e].context], NEW h \in Seq(Happening),
         Faithful(i, fs[i], eff, ext, h, PlacesOf(i, eff, ext, h))
  PROVE  LET u == Append(h, [kind |-> "settle", effect |-> e])
         IN  Faithful(i, gs[i], eff2, ext, u, PlacesOf(i, eff2, ext, u))
<1> DEFINE x == [kind |-> "settle", effect |-> e]
           S == PlacesOf(i, eff, ext, h)
           rid == IF kind = "fetch" THEN ids[i] ELSE NoId
<1>1. /\ eff \in [Effect -> NativeEffect] /\ eff2 \in [Effect -> NativeEffect]
      /\ \A d \in Effect \ {e} : eff2[d] = eff[d]
      /\ eff[e].status = "running" /\ eff2[e].status = "settled"
      /\ eff2[e].of = eff[e].of /\ eff2[e].context = eff[e].context
  BY DEF Settles
<1>2. SettlementAdded(fs[i], gs[i], e, ids[i], rid)
  BY DEF SettlementLeft, SettleEvent, SettlementAdded
<1>3. ids[i] \in Nat /\ rid \in {ids[i], NoId} /\ eff[e].ids[i] = ids[i]
  OBVIOUS
<1> HIDE DEF rid
<1>4. PlacesOf(i, eff2, ext, Append(h, x)) = Later(S, h) /\ S \in SUBSET (1 .. Len(h))
  <2>1. x \in Happening /\ i \in ext[eff2[x.effect].context]
    BY <1>1 DEF Happening
  <2>2. SameContexts(eff, eff2, h)
    <3>1. \A m \in 1 .. Len(h) : h[m].effect \in Effect
      <4>1. \A m \in 1 .. Len(h) : h[m] \in Happening
        BY ElementOfSeq
      <4> QED
        BY <4>1 DEF Happening
    <3> QED
      BY <1>1, <3>1 DEF SameContexts
  <2> HIDE DEF x
  <2> QED
    BY <2>1, <2>2, PlacesInside, PlacesTyped
<1> HIDE DEF S
<1>5. Faithful(i, gs[i], eff2, ext, Append(h, [kind |-> "settle", effect |-> e]), Later(S, h))
  <2>1. Faithful(i, fs[i], eff, ext, h, S)
    BY DEF S
  <2>2. S \in SUBSET (1 .. Len(h))
    BY <1>4
  <2>3. ids[i] \in Nat /\ rid \in {ids[i], NoId} /\ eff[e].ids[i] = ids[i]
    BY <1>3
  <2> QED
    BY <1>1, <1>2, <2>1, <2>2, <2>3, SettlementRecorded
<1> QED
  BY <1>4, <1>5

(* An effect settles in the frames that recorded its call.                 *)
LEMMA SettleEffectTraced ==
  ASSUME IInv, Traced, IInv', NEW e \in Effect, NEW recordable, SettleEffect(e, recordable)
  PROVE  Traced'
<1> DEFINE c == effect[e].context
           ids == effect[e].ids
           kind == effect[e].kind
           tracked == \E j \in Invocation : ids[j] # NoId
           gs == IF tracked THEN RecordSettlement(frame, c, e, kind, ids, recordable) ELSE frame
           x == [kind |-> "settle", effect |-> e]
<1>1. /\ effect[e].status = "running"
      /\ effect' = [effect EXCEPT ![e].status = "settled"]
      /\ history' = Append(history, x)
      /\ frame' = gs
      /\ UNCHANGED <<observations, returned, extent>>
  BY DEF SettleEffect, Commit
<1>2. /\ FramesOK(frame) /\ effect \in [Effect -> NativeEffect] /\ effect[e] \in NativeEffect
      /\ ids \in [Invocation -> Nat \cup {NoId}]
      /\ c \in Invocation /\ Begun(c)
  BY <1>1 DEF IInv, TypeOK, NativeEffect, EffectsPlaced, Traced, Contexts
<1>3. Settles(e, effect, effect')
  <2> DEFINE n == [effect[e] EXCEPT !.status = "settled"]
  <2>1. effect' = [effect EXCEPT ![e] = n]
    BY <1>1, <1>2
  <2>2. /\ n \in NativeEffect /\ n.status = "settled"
        /\ n.of = effect[e].of /\ n.context = effect[e].context
    BY <1>2 DEF NativeEffect
  <2> HIDE DEF n
  <2> QED
    BY <1>1, <1>2, <2>1, <2>2 DEF Settles
<1> HIDE DEF c, ids, kind
<1>4. tracked => gs = RecordSettlement(frame, c, e, kind, ids, recordable)
  OBVIOUS
<1>5. ~tracked => gs = frame
  OBVIOUS
<1> HIDE DEF gs, tracked
<1>6. /\ SameTree(frame, gs) /\ FramesOK(gs)
      /\ \A j \in Invocation : frame[j].blocked => gs[j].blocked
  <2>1. CASE tracked
    BY <1>2, <1>4, <2>1, RecordSettlementKeeps
  <2>2. CASE ~tracked
    BY <1>2, <1>5, <2>2 DEF SameTree, SameLinks
  <2> QED
    BY <2>1, <2>2
<1>7. /\ history \in Seq(Happening) /\ x \in Happening /\ x.effect = e
      /\ SameContexts(effect, effect', history)
  BY <1>3, HistoryTyped DEF Happening, SameContexts, Settles
<1>8. \A m \in 1 .. Len(history') :
        history'[m].effect = e \/ (m \in 1 .. Len(history) /\ history'[m] = history[m])
  <2> HIDE DEF x
  <2>1. /\ Len(history') = Len(history) + 1 /\ history'[Len(history) + 1] = x
        /\ \A m \in 1 .. Len(history) : history'[m] = history[m]
        /\ Len(history) \in Nat
    BY <1>1, <1>7, AppendProperties
  <2> QED
    BY <1>7, <2>1
<1>9. ASSUME NEW i \in Invocation, Kept(i), ~gs[i].blocked
      PROVE  Heard(i, c, e, gs[i], effect', history')
  <2>1. /\ ids[i] # NoId <=> i \in extent[c]
        /\ frame[i].closed => ids[i] = NoId
    <3>1. ids[i] # NoId <=> i \in extent[c]
      BY <1>1, <1>9 DEF Traced, Followed, c, ids
    <3>2. ASSUME frame[i].closed
          PROVE  RunningIn(i) = {}
      <4>1. frame[i].pending = 0 /\ frame[i].pending = Cardinality(RunningIn(i))
        BY <1>9, <3>2 DEF Kept, IInv, Sealed, PendingCounted
      <4> QED
        BY <4>1, FinitelyManyRun, FS_EmptySet
    <3>3. ids[i] # NoId => e \in RunningIn(i)
      BY <1>1 DEF RunningIn, ids
    <3> QED
      BY <3>1, <3>2, <3>3
  <2>2. tracked => SettlementLeft(frame, gs, ids, i, e, kind)
    BY <1>2, <1>4, <1>9, SettlementLeaves
  <2>3. Faithful(i, frame[i], effect, extent, history, PlacesOf(i, effect, extent, history))
    BY <1>9 DEF Traced, Transcribed, Places, PlacesOf
  <2>4. CASE i \in extent[c]
    <3>1. ids[i] # NoId /\ ~frame[i].closed /\ SettlementLeft(frame, gs, ids, i, e, kind)
      BY <2>1, <2>2, <2>4 DEF tracked
    <3>2. /\ frame[i] \in Frame /\ gs[i] \in Frame /\ effect[e].ids = ids
          /\ i \in extent[effect[e].context]
      BY <1>2, <1>6, <2>4 DEF FramesOK, c, ids
    <3>3. Faithful(i, gs[i], effect', extent, history', PlacesOf(i, effect', extent, history'))
      BY <1>1, <1>2, <1>3, <1>7, <2>3, <3>1, <3>2, SettlementFaithful
    <3> QED
      BY <1>3, <3>1, <3>3 DEF Heard, Settles
  <2>5. CASE i \notin extent[c]
    <3>1. ids[i] = NoId
      BY <2>1, <2>5
    <3>2. /\ gs[i].trace = frame[i].trace
          /\ gs[i].nextId = frame[i].nextId
          /\ gs[i].responses = frame[i].responses
      BY <1>5, <2>2, <3>1 DEF SettlementLeft
    <3>3. /\ PlacesOf(i, effect', extent, history') = PlacesOf(i, effect, extent, history)
          /\ Transcript(frame[i].trace, PlacesOf(i, effect', extent, history'), history')
      <4>1. i \notin extent[(effect')[x.effect].context]
        BY <1>3, <1>7, <2>5 DEF Settles, c
      <4>2. Transcript(frame[i].trace, PlacesOf(i, effect, extent, history), history)
        BY <2>3 DEF Faithful
      <4>3. history \in Seq(Happening) /\ x \in Happening /\ SameContexts(effect, effect', history)
        BY <1>7
      <4> HIDE DEF x
      <4>4. /\ PlacesOf(i, effect', extent, Append(history, x)) =
                 PlacesOf(i, effect, extent, history)
            /\ Transcript(frame[i].trace, PlacesOf(i, effect', extent, Append(history, x)),
                          Append(history, x))
        BY <4>1, <4>2, <4>3, PlacesOutside
      <4> QED
        BY <1>1, <4>4
    <3>4. PlacesOf(i, effect, extent, history) = Places(i)
      BY DEF Places, PlacesOf
    <3>5. e \notin Recorded(i, effect) /\ e \notin Recorded(i, effect')
      BY <1>3, <3>1 DEF Recorded, Settles, ids
    <3>6. /\ effect'[e].of = effect[e].of /\ effect[e].context = c /\ effect'[e].context = c
          /\ effect'[e].status # "fresh" /\ \A d \in Effect \ {e} : effect'[d] = effect[d]
      BY <1>3 DEF Settles, c
    <3>7. Transcript(frame[i].trace, Places(i), history')
      BY <3>3, <3>4
    <3>8. Faithful(i, gs[i], effect', extent, history', Places(i))
      BY <1>2, <1>9, <2>5, <3>2, <3>5, <3>6, <3>7, ElsewhereTraced
    <3> QED
      BY <1>3, <3>2, <3>3, <3>4, <3>8 DEF Heard, Settles
  <2> QED
    BY <2>4, <2>5
<1>10. /\ effect'[e].status # "fresh" /\ effect'[e].context = c
       /\ \A d \in Effect \ {e} : effect'[d] = effect[d]
  BY <1>3 DEF Settles, c
<1>11. frame' = gs /\ UNCHANGED <<observations, returned, extent>>
  BY <1>1
<1> QED
  BY <1>2, <1>6, <1>8, <1>9, <1>10, <1>11, EffectTraced

(* A synchronous effect is issued and settles in one step.                 *)
LEMMA SyncEffectTraced ==
  ASSUME IInv, Traced, IInv', NEW c \in Invocation, NEW e \in Effect,
         NEW recordable, NEW settleable, SyncEffect(c, e, recordable, settleable)
  PROVE  Traced'
<1> DEFINE ids == IdsOf(c)
           ms == AfterCall(c, e, "sync", None, recordable)
           gs == IF Records(c) THEN RecordSettlement(ms, c, e, "sync", ids, settleable)
                 ELSE frame
           n == [status |-> "settled", kind |-> "sync", context |-> c, of |-> None, ids |-> ids]
           k == [status |-> "running", kind |-> "sync", context |-> c, of |-> None, ids |-> ids]
           eff == [effect EXCEPT ![e] = k]
           x == [kind |-> "call", effect |-> e]
           y == [kind |-> "settle", effect |-> e]
           h == Append(history, x)
<1>1. /\ Running(c) /\ effect[e].status = "fresh" /\ Subject("sync", None)
      /\ effect' = [effect EXCEPT ![e] = n]
      /\ history' = history \o <<x, y>>
      /\ frame' = gs
      /\ UNCHANGED <<observations, returned, extent>>
  BY DEF SyncEffect, Perform, Commit, AfterCall
<1>2. /\ FramesOK(frame) /\ Begun(c)
      /\ \A j \in Invocation : ids[j] # NoId <=> Records(c) /\ j \in Projections(frame, c)
      /\ ids \in [Invocation -> Nat \cup {NoId}]
  <2>1. FramesOK(frame) /\ Begun(c)
    BY <1>1 DEF IInv, Running, Begun
  <2>2. \A j \in Invocation : frame[j].nextId \in Nat
    BY <2>1 DEF FramesOK, Frame
  <2> QED
    BY <2>1, <2>2 DEF IdsOf, NoId
<1>3. /\ FramesOK(ms) /\ SameTree(frame, ms)
      /\ \A j \in Invocation : frame[j].blocked => ms[j].blocked
      /\ ~Records(c) => ms = frame
  <2>1. CASE Records(c)
    <3>1. ms = RecordCall(frame, c, e, "sync", None, recordable)
      BY <2>1 DEF AfterCall
    <3> HIDE DEF ms
    <3> QED
      BY <1>2, <2>1, <3>1, RecordCallKeeps
  <2>2. CASE ~Records(c)
    BY <1>2, <2>2 DEF SameTree, SameLinks, AfterCall
  <2> QED
    BY <2>1, <2>2
<1>4. /\ Records(c) => gs = RecordSettlement(ms, c, e, "sync", ids, settleable)
      /\ ~Records(c) => gs = frame
      /\ ms = AfterCall(c, e, "sync", None, recordable)
  OBVIOUS
<1> HIDE DEF ms, gs
<1>5. /\ SameTree(frame, gs) /\ FramesOK(gs)
      /\ \A j \in Invocation : ms[j].blocked => gs[j].blocked
      /\ \A j \in Invocation : frame[j].blocked => gs[j].blocked
  <2>1. CASE Records(c)
    <3> HIDE DEF ids
    <3>1. /\ SameTree(ms, gs) /\ FramesOK(gs)
          /\ \A j \in Invocation : ms[j].blocked => gs[j].blocked
      BY <1>2, <1>3, <1>4, <2>1, RecordSettlementKeeps
    <3> QED
      BY <1>3, <3>1, SameTreeTransitive
  <2>2. CASE ~Records(c)
    BY <1>2, <1>3, <1>4, <2>2 DEF SameTree, SameLinks
  <2> QED
    BY <2>1, <2>2
<1>6. /\ n \in NativeEffect /\ n.status = "settled" /\ n.context = c /\ n.of = None
      /\ k \in NativeEffect /\ k.status = "running" /\ k.context = c /\ k.of = None
      /\ k.ids = ids
  <2> HIDE DEF ids
  <2> QED
    BY <1>2 DEF NativeEffect
<1> HIDE DEF n, k
<1>7. /\ effect' \in [Effect -> NativeEffect] /\ effect \in [Effect -> NativeEffect]
      /\ effect'[e] = n /\ \A d \in Effect \ {e} : effect'[d] = effect[d]
      /\ eff \in [Effect -> NativeEffect]
      /\ eff[e] = k /\ \A d \in Effect \ {e} : eff[d] = effect[d]
  BY <1>1, <1>6 DEF IInv, TypeOK
<1> HIDE DEF eff
<1>8. Settles(e, eff, effect')
  BY <1>6, <1>7 DEF Settles
<1>9. Issue(c, e, None, eff)
  BY <1>6, <1>7 DEF Issue
<1>10. /\ history \in Seq(Happening) /\ x \in Happening /\ y \in Happening
       /\ x.effect = e /\ y.effect = e
       /\ SameContexts(effect, effect', history)
  BY <1>1, <1>7, HistoryTyped DEF Happening, SameContexts
<1> HIDE DEF y
<1>11. h \in Seq(Happening) /\ history' = Append(h, y)
  <2> HIDE DEF x
  <2> QED
    BY <1>1, <1>10, TwoMore
<1>12. \A m \in 1 .. Len(history') :
         history'[m].effect = e \/ (m \in 1 .. Len(history) /\ history'[m] = history[m])
  <2> HIDE DEF x
  <2> QED
    BY <1>1, <1>10, AfterTwo
<1>13. ASSUME NEW i \in Invocation, Kept(i), ~gs[i].blocked
       PROVE  Heard(i, c, e, gs[i], effect', history')
  <2>1. /\ ids[i] # NoId <=> i \in extent[c]
        /\ i \in extent[c] <=> Records(c) /\ i \in Projections(frame, c)
        /\ ~ms[i].blocked
    BY <1>1, <1>2, <1>5, <1>13, Covered
  <2>2. Records(c) => SettlementLeft(ms, gs, ids, i, e, "sync")
    <3> HIDE DEF ids
    <3> QED
      BY <1>2, <1>3, <1>4, <1>13, SettlementLeaves
  <2>3. CASE i \in extent[c]
    <3>1. ids[i] # NoId /\ ~ms[i].closed /\ ~frame[i].closed
      BY <1>3, <2>1, <2>3 DEF Projections, SameTree, SameLinks
    <3>2. ms[i] \in Frame /\ gs[i] \in Frame
      BY <1>3, <1>5 DEF FramesOK
    <3>3. Heard(i, c, e, ms[i], eff, h)
      <4>1. Running(c) /\ effect[e].status = "fresh" /\ Subject("sync", None)
        BY <1>1
      <4> QED
        BY <1>4, <1>9, <1>13, <2>1, <4>1, CallFaithful
    <3> HIDE DEF h
    <3>4. Faithful(i, ms[i], eff, extent, h, PlacesOf(i, eff, extent, h))
      BY <3>3 DEF Heard
    <3>5. eff[e].ids = ids /\ i \in extent[eff[e].context]
      BY <1>6, <1>7, <2>3
    <3> HIDE DEF ids
    <3>6. Faithful(i, gs[i], effect', extent, history', PlacesOf(i, effect', extent, history'))
      BY <1>2, <1>8, <1>11, <2>1, <2>2, <2>3, <3>1, <3>2, <3>4, <3>5, SettlementFaithful DEF y
    <3> QED
      BY <1>6, <1>7, <3>1, <3>6 DEF Heard
  <2>4. CASE i \notin extent[c]
    <3>1. /\ gs[i].trace = frame[i].trace
          /\ gs[i].nextId = frame[i].nextId
          /\ gs[i].responses = frame[i].responses
      <4>1. CASE Records(c)
        <5>1. ms = RecordCall(frame, c, e, "sync", None, recordable)
          BY <1>4, <4>1 DEF AfterCall
        <5>2. CallLeft(frame, ms, c, i, e, "sync", None)
          BY <1>2, <2>1, <5>1, CallLeaves
        <5>3. ids[i] = NoId /\ i \notin Projections(frame, c)
          BY <2>1, <2>4, <4>1
        <5> HIDE DEF ids
        <5> QED
          BY <2>2, <4>1, <5>2, <5>3 DEF CallLeft, SettlementLeft
      <4>2. CASE ~Records(c)
        BY <1>4, <4>2
      <4> QED
        BY <4>1, <4>2
    <3>2. Transcript(frame[i].trace, PlacesOf(i, effect, extent, history), history)
      BY <1>13 DEF Traced, Transcribed, Faithful, Places, PlacesOf
    <3>3. history \in Seq(Happening) /\ i \notin extent[(effect')[e].context]
      BY <1>6, <1>7, <1>10, <2>4
    <3>4. /\ PlacesOf(i, effect', extent, history') = PlacesOf(i, effect, extent, history)
          /\ Transcript(frame[i].trace, PlacesOf(i, effect, extent, history), history')
      <4> DEFINE u == history \o <<x, y>>
      <4>1. SameContexts(effect, effect', history)
        BY <1>10
      <4>2. /\ PlacesOf(i, effect', extent, u) = PlacesOf(i, effect, extent, history)
            /\ Transcript(frame[i].trace, PlacesOf(i, effect, extent, history), u)
        BY <3>2, <3>3, <4>1, PlacesOutsideTwice DEF y
      <4> QED
        BY <1>1, <4>2
    <3>5. Places(i) = PlacesOf(i, effect, extent, history)
      BY DEF Places, PlacesOf
    <3>6. e \notin Recorded(i, effect) /\ e \notin Recorded(i, effect')
      BY <1>1, <1>6, <1>7 DEF Recorded
    <3>7. /\ effect'[e].context = c /\ effect'[e].status # "fresh"
          /\ \A d \in Effect \ {e} : effect'[d] = effect[d]
      BY <1>6, <1>7
    <3>8. Faithful(i, gs[i], effect', extent, history', Places(i))
      BY <1>1, <1>13, <2>4, <3>1, <3>4, <3>5, <3>6, <3>7, ElsewhereTraced
    <3> QED
      BY <1>6, <1>7, <3>1, <3>4, <3>5, <3>8 DEF Heard
  <2> QED
    BY <2>3, <2>4
<1>14. /\ effect'[e].status # "fresh" /\ effect'[e].context = c
       /\ \A d \in Effect \ {e} : effect'[d] = effect[d]
  BY <1>6, <1>7
<1>15. frame' = gs /\ UNCHANGED <<observations, returned, extent>>
  BY <1>1
<1> QED
  BY <1>2, <1>5, <1>12, <1>13, <1>14, <1>15, EffectTraced

-----------------------------------------------------------------------------
(* The strengthening is inductive *)

(* It holds at the start,                                                  *)
LEMMA InitTraced == Init => Traced
<1> SUFFICES ASSUME Init
             PROVE  Traced
  OBVIOUS
<1>1. /\ \A i \in Invocation : frame[i].mode = "fresh" /\ extent[i] = {}
      /\ \A e \in Effect : effect[e].status = "fresh"
      /\ observations = {} /\ history = << >>
  BY DEF Init, Unused
<1>2. \A i \in Invocation : i \notin Captured(frame) /\ ~Kept(i)
  BY <1>1 DEF Captured, Kept
<1>3. Captured(frame) = {}
  BY <1>2 DEF Captured
<1>4. 1 .. Len(history) = {}
  BY <1>1
<1> QED
  BY <1>1, <1>2, <1>3, <1>4 DEF Traced, Contexts, Within, Generations, Followed, Transcribed,
     Emitted

(* and every step of the runtime and of the program keeps it.              *)
LEMMA NextTraced == IInv /\ Traced /\ [Next]_vars => Traced'
<1> SUFFICES ASSUME IInv, Traced, [Next]_vars
             PROVE  Traced'
  OBVIOUS
<1>0. IInv'
  BY NextStep
<1>1. CASE Call
  <2>1. ASSUME NEW i \in Invocation, NEW caller \in Callers, CallNative(i, caller)
        PROVE  Traced'
    BY <1>0, <2>1, CallNativeTraced
  <2>2. ASSUME NEW i \in Invocation, NEW caller \in Callers, NEW generation \in Generation,
               \/ CallMismatched(i, caller, generation)
               \/ CallOverLimit(i, caller, generation)
               \/ CallTampered(i, caller, generation)
        PROVE  Traced'
    BY <1>0, <2>2, DeclineTraced DEF CallMismatched, CallOverLimit, CallTampered
  <2>3. ASSUME NEW i \in Invocation, NEW caller \in Callers, NEW generation \in Generation,
               NEW encodes \in BOOLEAN, CallCaptured(i, caller, generation, encodes)
        PROVE  Traced'
    BY <1>0, <2>3, CallCapturedTraced
  <2> QED
    BY <1>1, <2>1, <2>2, <2>3 DEF Call
<1>2. CASE Outside
  <2>1. ASSUME NEW e \in Effect, NEW recordable \in Recordable, SettleEffect(e, recordable)
        PROVE  Traced'
    BY <1>0, <2>1, SettleEffectTraced
  <2>2. ASSUME NEW e \in Effect, NEW i \in Invocation, UnknownEffect(i, e)
        PROVE  Traced'
    BY <1>0, <2>2, UnknownEffectTraced
  <2>3. ASSUME NEW e \in Effect, NEW i \in Invocation, NEW recordable \in Recordable,
               NEW settleable \in Recordable, SyncEffect(i, e, recordable, settleable)
        PROVE  Traced'
    BY <1>0, <2>3, SyncEffectTraced
  <2>4. ASSUME NEW e \in Effect, NEW i \in Invocation, NEW kind \in Kinds,
               NEW of \in Effect \cup {None}, NEW recordable \in Recordable,
               AsyncEffect(i, e, kind, of, recordable)
        PROVE  Traced'
    BY <1>0, <2>4, AsyncEffectTraced
  <2> QED
    BY <1>2, <2>1, <2>2, <2>3, <2>4 DEF Outside
<1>3. CASE Complete
  <2>1. ASSUME NEW i \in Invocation, Abandon(i)
        PROVE  Traced'
    BY <1>0, <2>1, AbandonTraced
  <2>2. ASSUME NEW i \in Invocation, NEW encodes \in BOOLEAN, NEW stores \in BOOLEAN,
               Return(i, encodes, stores)
        PROVE  Traced'
    BY <1>0, <2>2, ReturnTraced
  <2> QED
    BY <1>3, <2>1, <2>2 DEF Complete
<1>4. CASE Recording
  BY <1>0, <1>4, ConfigureTraced, SweepTraced DEF Recording
<1>5. CASE UNCHANGED vars
  BY <1>0, <1>5, ConfigureTraced
<1> QED
  BY <1>1, <1>2, <1>3, <1>4, <1>5 DEF Next

(* The agreement of extents, frames and history, for every program.        *)
THEOREM TracedInductive == Spec => [](IInv /\ Traced)
<1>1. Init => IInv /\ Traced
  BY InitOK, InitTraced
<1>2. IInv /\ Traced /\ [Next]_vars => (IInv /\ Traced)'
  BY NextStep, NextTraced
<1> QED
  BY <1>1, <1>2, PTL DEF Spec

(* An observed frame kept its evidence and has nothing running.            *)
LEMMA ObservedFaithful ==
  ASSUME IInv, Traced, NEW o \in observations
  PROVE  LET i == o.invocation
         IN  /\ i \in Invocation /\ Kept(i) /\ o.trace = frame[i].trace
             /\ Faithful(i, frame[i], effect, extent, history, Places(i))
             /\ Recorded(i, effect) = {}
             /\ o.trace \in Seq(Event)
<1> DEFINE i == o.invocation
<1>1. i \in Captured(frame) /\ frame[i].closed /\ ~frame[i].blocked /\ i \in Invocation
  BY DEF IInv, Sealed, Captured
<1>2. Kept(i) /\ o.trace = frame[i].trace
  BY <1>1 DEF Kept, Traced, Emitted
<1>3. Faithful(i, frame[i], effect, extent, history, Places(i))
  BY <1>1, <1>2 DEF Traced, Transcribed
<1>4. Recorded(i, effect) = {}
  <2>1. frame[i].pending = 0 /\ frame[i].pending = Cardinality(RunningIn(i))
    BY <1>1 DEF IInv, Sealed, PendingCounted
  <2> QED
    BY <1>1, <2>1, FinitelyManyRun, FS_EmptySet DEF RunningIn, Recorded
<1>5. frame[i].trace \in Seq(Event)
  BY <1>1 DEF IInv, FramesOK, Frame
<1> QED
  BY <1>1, <1>2, <1>3, <1>4, <1>5

(* Every emitted trace is, event by event, what happened in the dynamic     *)
(* extent of its invocation, and all of it.                                 *)
THEOREM TracesExact == Spec => []TraceExact
<1>1. IInv /\ Traced => TraceExact
  <2> SUFFICES ASSUME IInv, Traced, NEW o \in observations
               PROVE  Transcript(o.trace, Places(o.invocation), history)
    BY DEF TraceExact
  <2> QED
    BY ObservedFaithful DEF Faithful
<1> QED
  BY <1>1, TracedInductive, PTL

(* Both readers accept every emitted trace, whatever the projections and    *)
(* settlements interleaved.                                                 *)
THEOREM TracesReadable == Spec => []TraceReadable
<1>1. IInv /\ Traced => TraceReadable
  <2> SUFFICES ASSUME IInv, Traced, NEW o \in observations
               PROVE  TraceEvents(o.trace) /\ ValidTrace(o.trace)
    BY DEF TraceReadable
  <2> DEFINE i == o.invocation
  <2>1. /\ o.trace = frame[i].trace /\ Recorded(i, effect) = {}
        /\ Readable(i, frame[i], effect)
    BY ObservedFaithful DEF Faithful
  <2>2. Reading(i, frame[i], effect).ok /\ Reading(i, frame[i], effect).pending = {}
    BY <2>1 DEF Reading
  <2> QED
    BY <2>1, <2>2 DEF Readable, TraceEvents, ValidTrace
<1> QED
  BY <1>1, TracedInductive, PTL

(* A response number of an emitted trace names an earlier call of the same  *)
(* trace, and the one that produced the response.                           *)
THEOREM ResponsesAreResolved == Spec => []ResponsesResolve
<1>1. IInv /\ Traced => ResponsesResolve
  <2> SUFFICES ASSUME IInv, Traced, NEW o \in observations, NEW n \in DOMAIN o.trace,
                      o.trace[n].responseId # NoId
               PROVE  \E m \in DOMAIN o.trace :
                        /\ m < n
                        /\ o.trace[m].kind = "call"
                        /\ o.trace[m].id = o.trace[n].responseId
                        /\ o.trace[m].effect = Producer(o.trace[n], effect)
    BY DEF ResponsesResolve, Producer
  <2>1. /\ o.trace = frame[o.invocation].trace /\ Resolved(frame[o.invocation], effect)
        /\ o.trace \in Seq(Event)
    BY ObservedFaithful DEF Faithful
  <2>2. DOMAIN o.trace = 1 .. Len(o.trace) /\ Len(o.trace) \in Nat
    BY <2>1
  <2>3. Numbers(o.trace, n - 1, o.trace[n].responseId, Producer(o.trace[n], effect))
    BY <2>1, <2>2 DEF Resolved
  <2>4. PICK m \in 1 .. n - 1 :
          /\ o.trace[m].kind = "call" /\ o.trace[m].id = o.trace[n].responseId
          /\ o.trace[m].effect = Producer(o.trace[n], effect)
    BY <2>3 DEF Numbers
  <2>5. m \in DOMAIN o.trace /\ m < n
    BY <2>2
  <2> QED
    BY <2>4, <2>5
<1> QED
  BY <1>1, TracedInductive, PTL

(* Every effect in an emitted trace was issued by a frame of the generation *)
(* of the observed one.                                                     *)
THEOREM GenerationsApart == Spec => []OneGeneration
<1>1. IInv /\ Traced => OneGeneration
  <2> SUFFICES ASSUME IInv, Traced, NEW o \in observations, NEW n \in DOMAIN o.trace
               PROVE  frame[effect[o.trace[n].effect].context].generation =
                        frame[o.invocation].generation
    BY DEF OneGeneration
  <2> DEFINE i == o.invocation
             e == o.trace[n].effect
             c == effect[e].context
  <2>1. /\ i \in Invocation /\ Kept(i) /\ o.trace = frame[i].trace
        /\ Issued(i, frame[i], effect, extent) /\ o.trace \in Seq(Event)
    BY ObservedFaithful DEF Faithful
  <2>2. n \in 1 .. Len(o.trace) /\ o.trace[n] \in Event
    BY <2>1, ElementOfSeq
  <2>3. e \in Effect
    BY <2>2 DEF Event
  <2>4. effect[e].status # "fresh" /\ i \in extent[c]
    BY <2>1, <2>2 DEF Issued
  <2>5. c \in Invocation
    BY <2>3, <2>4 DEF Traced, Contexts
  <2>6. c \in Captured(frame) /\ i \in frame[c].lineage
    BY <2>1, <2>4, <2>5 DEF Kept, Traced, Within
  <2> QED
    BY <2>6 DEF Traced, Generations
<1> QED
  BY <1>1, TracedInductive, PTL
=============================================================================
