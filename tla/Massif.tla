------------------------------- MODULE Massif -------------------------------
(***************************************************************************)
(* massifs/massifcontext.go: one writer's view of the log, a massif at a   *)
(* time.  A massif blob holds a header, the index (one entry for a leaf),  *)
(* the stack of peaks carried over from earlier massifs and the nodes of   *)
(* the massif.  A massif is self contained: what later leaves and proofs   *)
(* need of earlier massifs is in its stack.                                *)
(*                                                                         *)
(* The part of the blob after the index is one sequence of values, split   *)
(* where PeakStackLen says.  Module Committer models how writers race for  *)
(* the blobs.                                                              *)
(***************************************************************************)
EXTENDS MMRProof

CONSTANTS Heights,      \* massif heights, counted from 1
          MaxLeaves     \* bound: leaves in the log

(* A massif has more than one leaf, massifcontext.go:39 *)
ASSUME HeightsAssumption == Heights \subseteq Nat \ {0, 1}
ASSUME MaxLeavesAssumption == MaxLeaves \in Nat

VARIABLES
  mc,         \* the MassifContext
  kept,       \* a copy of the context of the massif before, as the caller kept it
  leaves,     \* history: leaves added to the log
  failed      \* history: has AddHashedLeaf erred on a massif with room

vars == <<mc, kept, leaves, failed>>

(* Stands for a nil map: -1 is no index *)
NoMap == [p \in {-1} |-> 0]

(* The value and the id of the n-th leaf, counted from 0 *)
LeafValue(n) == <<"leaf", n>>
IdTimestamp(n) == n + 1

-----------------------------------------------------------------------------
(* The header and the layout *)

IndexLen(height) == 2^height
TreeCount(height) == 2^height - 1
TreeLastLeafIndex(height) == 2^height - height - 1
InitIndexData(height) == [k \in 0 .. IndexLen(height) - 1 |-> 0]

MassifFirstLeaf(height, massifIndex) ==
  MMRIndex(((2^height - 1 + 1) \div 2) * massifIndex)

PeakStackLen(massifIndex) == LeafMinusSpurSum(massifIndex)

(* What reading the blob of c gives: the rest is not in the blob *)
DecodeMassifStart(c) ==
  [c EXCEPT !.firstIndex = MassifFirstLeaf(c.height, c.massifIndex),
            !.peakStackLen = PeakStackLen(c.massifIndex),
            !.nextAncestor = 0,
            !.peakStackMap = NoMap]

Stack(c) == SubSeq(c.data, 1, c.peakStackLen)
Count(c) == Len(c.data) - c.peakStackLen
RangeCount(c) == c.firstIndex + Count(c)
MassifLeafCount(c) == LeafCount(RangeCount(c)) - LeafCount(c.firstIndex)

(* GetCurrentContext's test, and AddHashedLeaf's *)
HasSpace(c) == Count(c) < TreeCount(c.height)
IsFullByCount(c) == MassifLeafCount(c) > 2^(c.height - 1)
MassifFull(c) == RangeCount(c) > c.firstIndex + TreeLastLeafIndex(c.height)

MassifIndexFromLeafIndex(height, leafIndex) ==
  leafIndex \div HeightIndexLeafCount(height - 1)
MassifIndexFromMMRIndex(height, i) ==
  MassifIndexFromLeafIndex(height, LeafIndex(i))

-----------------------------------------------------------------------------
(* Reading nodes *)

(* Slip: the peaks as high as a massif are left out *)
PeakStackMapAbove(height, i) ==
  [p \in {q \in {Peaks(i)[k] : k \in DOMAIN Peaks(i)} :
            IndexHeight(q) > height - 1} |->
     (CHOOSE k \in DOMAIN Peaks(i) : Peaks(i)[k] = p) - 1]

(* From the indices of the peaks to their places in the stack, from 0 *)
PeakStackMap(height, i) ==
  [p \in {q \in {Peaks(i)[k] : k \in DOMAIN Peaks(i)} :
            IndexHeight(q) >= height - 1} |->
     (CHOOSE k \in DOMAIN Peaks(i) : Peaks(i)[k] = p) - 1]

(* Without a map the index asked for plays no part: the ancestors come in  *)
(* the order in which adding the last leaf needs them.                     *)
peakStackIndex(c, i) ==
  IF c.peakStackMap = NoMap THEN c.nextAncestor ELSE c.peakStackMap[i]

Readable(c, i) ==
  IF i >= c.firstIndex THEN i < RangeCount(c)
  ELSE /\ c.firstIndex # 0
       /\ IF c.peakStackMap = NoMap THEN c.nextAncestor >= 0
          ELSE i \in DOMAIN c.peakStackMap
       /\ peakStackIndex(c, i) < c.peakStackLen

Get(c, i) ==
  IF i >= c.firstIndex THEN c.data[c.peakStackLen + i - c.firstIndex + 1]
  ELSE c.data[peakStackIndex(c, i) + 1]

(* The context after a read: an ancestor read without a map is used up *)
AfterGet(c, i) ==
  IF i < c.firstIndex /\ c.peakStackMap = NoMap
  THEN [c EXCEPT !.nextAncestor = @ - 1] ELSE c

(* GetTrieEntry, by the mmr index of any node that was added with the leaf *)
GetMassifLeafIndex(c, leafIndex) == leafIndex - LeafCount(c.firstIndex)
GetTrieEntry(c, i) == c.trie[GetMassifLeafIndex(c, LeafIndex(i))]

-----------------------------------------------------------------------------
(* Adding leaves *)

Init ==
  /\ \E h \in Heights :
       mc = [height |-> h, massifIndex |-> 0, firstIndex |-> 0, lastID |-> 0,
             peakStackLen |-> 0, trie |-> InitIndexData(h), data |-> << >>,
             nextAncestor |-> 0, peakStackMap |-> NoMap]
  /\ kept = << >>
  /\ leaves = 0
  /\ failed = FALSE

(* mmr.AddHashedLeaf on context c: it may err when it reads an ancestor *)
BackFill(c) ==
  LET round(at, g) ==
        LET i == RangeCount(at.c)
            iLeft == i - 2^g
            value == HashPosPair64(i + 1, Get(at.c, iLeft), Get(at.c, i - 1))
        IN IF at.err \/ IndexHeight(i) <= g - 1 THEN at
           ELSE IF ~Readable(at.c, iLeft) THEN [at EXCEPT !.err = TRUE]
           ELSE [at EXCEPT !.c = [AfterGet(at.c, iLeft) EXCEPT
                                    !.data = Append(@, value)]]
  IN FoldLeft(round, [c |-> c, err |-> FALSE],
              [g \in 1 .. BitLength(RangeCount(c)) + 1 |-> g])

(* Slips: the next ancestor is the one below the top of the stack; the     *)
(* index entry is written after the leaf was added                         *)
AncestorsBelowTop(c) == [c EXCEPT !.nextAncestor = c.peakStackLen - 2]
EntryAfterAppend(c) == MassifLeafCount(c) + 1

(* The last leaf needs ancestors, the top of the stack first *)
SetNextAncestor(c) ==
  IF RangeCount(c) = c.firstIndex + TreeLastLeafIndex(c.height)
  THEN [c EXCEPT !.nextAncestor = c.peakStackLen - 1] ELSE c

(* The index entry the next leaf gets *)
NextLeafIndex(c) == MassifLeafCount(c)

(* On error the whole update is discarded: the context is as before *)
AddLeaf ==
  /\ leaves < MaxLeaves
  /\ ~MassifFull(mc)
  /\ LET c == [SetNextAncestor(mc) EXCEPT
                 !.trie[NextLeafIndex(mc)] = IdTimestamp(leaves),
                 !.lastID = IdTimestamp(leaves),
                 !.data = Append(@, LeafValue(leaves))]
         added == BackFill(c)
     IN IF added.err
        THEN failed' = TRUE /\ UNCHANGED <<mc, leaves>>
        ELSE mc' = added.c /\ leaves' = leaves + 1 /\ UNCHANGED failed
  /\ UNCHANGED kept

(* The blob is put, and read again later *)
Reopen ==
  /\ mc' = DecodeMassifStart(mc)
  /\ UNCHANGED <<kept, leaves, failed>>

CreatePeakStackMap ==
  /\ mc' = [mc EXCEPT !.peakStackMap = PeakStackMap(mc.height, mc.firstIndex)]
  /\ UNCHANGED <<kept, leaves, failed>>

-----------------------------------------------------------------------------
(* The next massif *)

(* Slip: nothing is popped *)
NextPeakStackUnpopped(c) == Append(Stack(c), c.data[Len(c.data)])

NextPeakStack(c) ==
  Append(SubSeq(Stack(c), 1, c.peakStackLen - SpurHeightLeaf(c.massifIndex)),
         c.data[Len(c.data)])

(* NextPeakStack slices the data of the context and appends to the slice.  *)
(* The append goes to the same array: a copy of the context that the       *)
(* caller kept shares it.  An empty stack is a nil slice and is copied.    *)
WrittenByAppend(c) ==
  IF c.peakStackLen = 0 THEN c
  ELSE [c EXCEPT !.data[c.peakStackLen - SpurHeightLeaf(c.massifIndex) + 1] =
                    c.data[Len(c.data)]]

StartNextMassif(c) ==
  LET stack == NextPeakStack(c)
  IN [c EXCEPT !.massifIndex = @ + 1, !.firstIndex = RangeCount(c),
               !.peakStackLen = Len(stack), !.data = stack,
               !.trie = InitIndexData(c.height)]

(* In the code it is a context just read that is full; the tests also go   *)
(* on with the context they added to.                                      *)
NextMassif ==
  /\ ~HasSpace(mc)
  /\ mc' = StartNextMassif(mc)
  /\ kept' = <<WrittenByAppend(mc)>>
  /\ UNCHANGED <<leaves, failed>>

Next == AddLeaf \/ Reopen \/ CreatePeakStackMap \/ NextMassif

Spec == Init /\ [][Next]_vars

-----------------------------------------------------------------------------
(* Properties *)

(* The log as one range, whatever the massifs *)
FullLog ==
  StoreOf(FoldLeft(AddHashedLeaf, << >>, [n \in 1 .. MaxLeaves |-> LeafValue(n - 1)]))

(* The nodes of the massif are those of the whole log, and its stack has   *)
(* the peaks of the log before it, the highest first.  Where the massif    *)
(* begins and how long its stack is follow from its header, though neither *)
(* is in the blob: a context that was read is the one that was written.    *)
NodesAndStack ==
  LET stack == Stack(mc)
  IN /\ mc.firstIndex = MassifFirstLeaf(mc.height, mc.massifIndex)
     /\ mc.peakStackLen = PeakStackLen(mc.massifIndex)
     /\ RangeCount(mc) = MMRIndex(leaves)
     /\ \A i \in mc.firstIndex .. RangeCount(mc) - 1 : Get(mc, i) = FullLog[i]
     /\ stack = IF mc.firstIndex = 0 THEN << >>
                ELSE PeakHashes(FullLog, mc.firstIndex - 1)

(* The test for room of GetCurrentContext, by size, agrees with that of    *)
(* AddHashedLeaf, by index: a massif is full when it has its 2^(h-1)       *)
(* leaves, and no node is in the wrong massif.                             *)
FullAgrees ==
  /\ MassifFull(mc) <=> ~HasSpace(mc)
  /\ MassifFull(mc) <=> MassifLeafCount(mc) = HeightIndexLeafCount(mc.height - 1)
  /\ \A i \in mc.firstIndex .. RangeCount(mc) - 1 :
       MassifIndexFromMMRIndex(mc.height, i) = mc.massifIndex

MapIsFresh ==
  mc.peakStackMap \in {NoMap, PeakStackMap(mc.height, mc.firstIndex)}

(* A leaf is refused only by a full massif, or by a context whose map is   *)
(* that of an earlier massif.                                              *)
RoomForLeaves == [][failed' => failed \/ ~MapIsFresh]_vars

(* The index entry of a leaf, found by the mmr index of any node that was  *)
(* added with it, has the leaf's id; the other entries are free.  The last *)
(* id of the log is in the header, in that of a massif without leaves too. *)
IndexMatchesLeaves ==
  /\ mc.lastID = leaves
  /\ \A i \in mc.firstIndex .. RangeCount(mc) - 1 :
       GetTrieEntry(mc, i) = IdTimestamp(LeafIndex(i))
  /\ \A k \in MassifLeafCount(mc) .. IndexLen(mc.height) - 1 : mc.trie[k] = 0

(* "proving or verifying a node in the current massif benefits from the    *)
(* same property": with a map, every node of the massif and every peak of  *)
(* its stack is proved from the massif alone, in any range that ends in it. *)
SelfContained ==
  LET c == [mc EXCEPT !.peakStackMap = PeakStackMap(mc.height, mc.firstIndex)]
      last == RangeCount(mc) - 1
      peaks == DOMAIN c.peakStackMap
      store == [i \in {j \in peaks \cup (mc.firstIndex .. last) : Readable(c, j)} |->
                  Get(c, i)]
      complete == {j \in mc.firstIndex - 1 .. last : j >= 0 /\ Peaks(j) # << >>}
  IN Count(mc) > 0 =>
       \A j \in complete, i \in peaks \cup (mc.firstIndex .. last) :
         i <= j => /\ Provable(store, j, i)
                   /\ InclusionProof(store, j, i) = InclusionProof(FullLog, j, i)

(* "These are all the nodes that will be (or were) referenced when adding  *)
(* the last leaf to the current massif": the stack of a massif does not    *)
(* change when the next one is started (massifcontext.go:490).             *)
KeptIsIntact ==
  kept # << >> =>
    LET c == kept[1]
    IN Stack(c) = IF c.firstIndex = 0 THEN << >>
                  ELSE PeakHashes(FullLog, c.firstIndex - 1)

=============================================================================
