------------------------------ MODULE MMRBuild ------------------------------
(***************************************************************************)
(* mmr/add.go: AddHashedLeaf appends a leaf to a store of nodes and, while *)
(* the next index is higher in the tree, the parent of the last node.  The *)
(* loop knows nothing but the next index.                                  *)
(***************************************************************************)
EXTENDS MMRTree

CONSTANT MaxAdded       \* bound: leaves added

ASSUME MaxAddedAssumption == MaxAdded \in Nat

VARIABLES
  appended,     \* the nodes, by index: what a node is made from
  nextIndex,    \* the index of the next node
  loopHeight,   \* the loop's height
  adding,       \* is AddHashedLeaf running
  leavesAdded   \* history: leaves added

buildVars == <<appended, nextIndex, loopHeight, adding, leavesAdded>>

(* Slip: the sibling of a level below *)
leftIndexShort(n, g) == n - 2^g

leftIndex(n, g) == n - 2 * 2^g
MoreToFill(n, g) == IndexHeight(n) > g

BuildInit ==
  /\ appended = [n \in {} |-> << >>]
  /\ nextIndex = 0 /\ loopHeight = 0 /\ adding = FALSE /\ leavesAdded = 0

AppendNode(value) ==
  /\ appended' = [n \in DOMAIN appended \cup {nextIndex} |->
                    IF n = nextIndex THEN value ELSE appended[n]]
  /\ nextIndex' = nextIndex + 1

(* The call, and its first append *)
AppendLeaf ==
  /\ ~adding
  /\ leavesAdded < MaxAdded
  /\ AppendNode(<<"leaf", leavesAdded>>)
  /\ leavesAdded' = leavesAdded + 1
  /\ adding' = TRUE
  /\ loopHeight' = 0

(* One round of the loop: the hash of the position, iLeft and iRight *)
AppendParent ==
  /\ adding
  /\ MoreToFill(nextIndex, loopHeight)
  /\ AppendNode(<<nextIndex + 1, leftIndex(nextIndex, loopHeight), nextIndex - 1>>)
  /\ loopHeight' = loopHeight + 1
  /\ UNCHANGED <<adding, leavesAdded>>

Return ==
  /\ adding
  /\ ~MoreToFill(nextIndex, loopHeight)
  /\ adding' = FALSE
  /\ loopHeight' = 0
  /\ UNCHANGED <<appended, nextIndex, leavesAdded>>

BuildNext == AppendLeaf \/ AppendParent \/ Return

BuildSpec == BuildInit /\ [][BuildNext]_buildVars

-----------------------------------------------------------------------------
(* Properties.  Each looks at the node appended last: the earlier ones were *)
(* looked at when they were.                                                *)

IndexIn == [m \in Nodes(MaxAdded) |-> IndexOf(m)]

(* The index of the node appended last, and its place in the tree *)
lastIndex == nextIndex - 1
Newest == CHOOSE m \in Nodes(leavesAdded) : IndexIn[m] = lastIndex

(* AddHashedLeaf builds the mountain range, no node more and none less:    *)
(* each interior node hashes its two children, read when they are there.   *)
BuildsTheTree ==
  nextIndex > 0 =>
    /\ appended[lastIndex] =
         IF Newest[1] = 0 THEN <<"leaf", Newest[2]>>
         ELSE <<nextIndex, IndexIn[Left(Newest)], IndexIn[Right(Newest)]>>
    /\ ~adding => nextIndex = Cardinality(Nodes(leavesAdded))

(* The height of a node, its children and siblings and the nodes on both   *)
(* sides of the climb from it follow from its index, by every method the   *)
(* package has.                                                            *)
NavigationMatches ==
  nextIndex > 0 =>
    LET h == Newest[1]
    IN /\ IndexHeight(lastIndex) = h /\ IndexHeight2(lastIndex) = h
       /\ h = 0 => LeftChild(nextIndex) = 0 /\ LeftAncestors(lastIndex) = << >>
       /\ h > 0 =>
            LET left == IndexIn[Left(Newest)]
                climb == LeftAncestors(lastIndex)
            IN /\ LeftChild(nextIndex) = left + 1
               /\ JumpRightSibling(left + 1) = IndexIn[Right(Newest)] + 1
               /\ lastIndex = left + ParentOffset(h - 1)
               /\ HeightIndexLeafCount(h) = 2^h
               /\ climb[1] = left
               /\ Len(climb) = SpurHeightLeaf(leavesAdded - 1) - h + 1
               /\ \A k \in DOMAIN climb :
                    /\ Ancestors(lastIndex)[2 * k - 1] = climb[k]
                    /\ Ancestors(lastIndex)[2 * k] = lastIndex + k - 2

(* Peaks lists the peaks of a complete range and nothing for an incomplete *)
(* one; the bitmap counts the leaves, of the largest complete range for an *)
(* incomplete one.                                                         *)
PeaksMatch ==
  nextIndex > 0 =>
    /\ Peaks(lastIndex) = IF MoreToFill(nextIndex, loopHeight) THEN << >>
                     ELSE Ascending({IndexIn[m] : m \in PeakNodes(leavesAdded)})
    /\ PeaksOld(nextIndex) = PosPeaks(nextIndex)
    /\ PeaksBitmap(nextIndex)
         = IF MoreToFill(nextIndex, loopHeight) THEN leavesAdded - 1 ELSE leavesAdded
    /\ ~MoreToFill(nextIndex, loopHeight) =>
         /\ Len(Peaks(lastIndex)) = LeafMinusSpurSum(leavesAdded)
         /\ MaxPeakHeight(lastIndex) = IndexHeight(Peaks(lastIndex)[1])
         /\ TopPeak(lastIndex) = Peaks(lastIndex)[1]
         /\ TopHeight(lastIndex) = IndexHeight(Peaks(lastIndex)[1])
         /\ IsPow2(leavesAdded) <=> Peaks(lastIndex) = <<HeightMaxIndex(IndexHeight(lastIndex))>>

(* Leaves are numbered by MMRIndex and found again by LeafIndex from any   *)
(* node that was added with them; the range that has them first is the one *)
(* that AddHashedLeaf returns.                                             *)
LeafNumbering ==
  nextIndex > 0 =>
    /\ LeafIndex(lastIndex) = leavesAdded - 1
    /\ adding => MMRIndex(leavesAdded - 1) + loopHeight = lastIndex
    /\ TreeIndexOld(leavesAdded - 1) = MMRIndex(leavesAdded - 1)
    /\ ~adding => /\ FirstMMRSize(MMRIndex(leavesAdded - 1)) = nextIndex
                  /\ nextIndex = MMRIndex(leavesAdded - 1) + SpurHeightLeaf(leavesAdded - 1) + 1

=============================================================================
