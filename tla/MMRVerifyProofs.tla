--------------------------- MODULE MMRVerifyProofs ---------------------------
(***************************************************************************)
(* How a range is built and what is shown of it, for every number of       *)
(* leaves.  AddHashedLeaf, one append at a time, builds the Merkle         *)
(* mountain range that the navigation functions walk (module MMRBuild).    *)
(* The peaks are enough, and so is their bag: a verifier that keeps the    *)
(* size and the peaks of the range it knows accepts the ranges that extend *)
(* it, and no others; a proof of inclusion shows the value of one node     *)
(* (module MMRVerify).                                                     *)
(***************************************************************************)
EXTENDS MMRBuild, MMRVerify, MMRProofs

-----------------------------------------------------------------------------
(* One append at a time *)

(* What the node over the k-th run of 2^h leaves is made from *)
NodeValue(h, k) ==
  IF h = 0 THEN <<"leaf", k>>
  ELSE <<NodePos(h, k), NodePos(h - 1, 2 * k) - 1, NodePos(h - 1, 2 * k + 1) - 1>>

(* The loop is at the node over the last run of the leaves, whose length  *)
(* is that of the height; between calls the range is complete.             *)
LoopAtLastRun ==
  IF adding
  THEN \E k \in Nat : leavesAdded = (k + 1) * 2^loopHeight /\ nextIndex = NodePos(loopHeight, k)
  ELSE loopHeight = 0 /\ nextIndex = MMRIndex(leavesAdded)

StoreIsTree ==
  \A h, k \in Nat : NodePos(h, k) <= nextIndex => appended[NodePos(h, k) - 1] = NodeValue(h, k)

BuildInv ==
  /\ leavesAdded \in Nat /\ leavesAdded <= MaxAdded
  /\ nextIndex \in Nat /\ loopHeight \in Nat /\ adding \in BOOLEAN
  /\ DOMAIN appended = {n \in Nat : n < nextIndex}
  /\ LoopAtLastRun
  /\ StoreIsTree

(* A node appended at the next index is the one that belongs there. *)
LEMMA AppendKeepsTree ==
  ASSUME BuildInv, NEW h \in Nat, NEW k \in Nat,
         nextIndex + 1 = NodePos(h, k), AppendNode(NodeValue(h, k))
  PROVE  /\ nextIndex' = NodePos(h, k) /\ nextIndex' \in Nat
         /\ (DOMAIN appended = {n \in Nat : n < nextIndex})'
         /\ StoreIsTree'
<1>1. /\ nextIndex \in Nat /\ nextIndex' = nextIndex + 1
      /\ DOMAIN appended = {n \in Nat : n < nextIndex}
      /\ appended' = [n \in DOMAIN appended \cup {nextIndex} |->
                     IF n = nextIndex THEN NodeValue(h, k) ELSE appended[n]]
  BY DEF BuildInv, AppendNode
<1>2. (DOMAIN appended)' = {n \in Nat : n < nextIndex + 1}
  BY <1>1
<1>3. ASSUME NEW g \in Nat, NEW l \in Nat, NodePos(g, l) <= nextIndex + 1
      PROVE  appended'[NodePos(g, l) - 1] = NodeValue(g, l)
  <2>1. NodePos(g, l) \in Nat /\ NodePos(g, l) > 0
    BY NodePosBounds
  <2>2. CASE NodePos(g, l) = nextIndex + 1
    <3>1. g = h /\ l = k
      BY <2>2, NodePosUnique
    <3>2. NodePos(g, l) - 1 = nextIndex
      BY <2>2, <1>1
    <3> QED BY <3>1, <3>2, <1>1
  <2>3. CASE NodePos(g, l) # nextIndex + 1
    <3>1. NodePos(g, l) <= nextIndex
      BY <2>1, <2>3, <1>1, <1>3
    <3>2. appended[NodePos(g, l) - 1] = NodeValue(g, l)
      BY <3>1 DEF BuildInv, StoreIsTree
    <3>3. NodePos(g, l) - 1 \in DOMAIN appended /\ NodePos(g, l) - 1 # nextIndex
      BY <3>1, <2>1, <1>1
    <3> QED BY <3>2, <3>3, <1>1
  <2> QED BY <2>2, <2>3
<1> QED BY <1>1, <1>2, <1>3 DEF StoreIsTree

(* Nothing is stored at first. *)
LEMMA BuildInitInv == BuildInit => BuildInv
<1> SUFFICES ASSUME BuildInit PROVE BuildInv
  OBVIOUS
<1>1. nextIndex = 0 /\ loopHeight = 0 /\ adding = FALSE /\ leavesAdded = 0 /\ MaxAdded \in Nat
  BY MaxAddedAssumption DEF BuildInit
<1>2. DOMAIN appended = {n \in Nat : n < nextIndex}
  BY DEF BuildInit
<1>3. StoreIsTree
  BY <1>1, NodePosBounds DEF StoreIsTree
<1>4. LoopAtLastRun
  BY <1>1, MMRIndexBounds DEF LoopAtLastRun
<1>5. leavesAdded \in Nat /\ leavesAdded <= MaxAdded /\ nextIndex \in Nat /\ loopHeight \in Nat
  BY <1>1
<1>6. adding \in BOOLEAN
  BY <1>1
<1> QED BY <1>2, <1>3, <1>4, <1>5, <1>6 DEF BuildInv

(* The first append puts the leaf where MMRIndex says. *)
LEMMA AppendLeafInv ==
  ASSUME BuildInv, AppendLeaf
  PROVE  BuildInv'
<1>1. ~ adding /\ nextIndex = MMRIndex(leavesAdded) /\ leavesAdded \in Nat /\ leavesAdded < MaxAdded
  BY DEF BuildInv, LoopAtLastRun, AppendLeaf
<1>2. nextIndex + 1 = NodePos(0, leavesAdded)
  BY <1>1, LeafPos
<1>3. AppendNode(NodeValue(0, leavesAdded))
  BY DEF AppendLeaf, NodeValue
<1>4. nextIndex' = NodePos(0, leavesAdded) /\ nextIndex' \in Nat
      /\ (DOMAIN appended = {n \in Nat : n < nextIndex})' /\ StoreIsTree'
  <2>1. 0 \in Nat
    OBVIOUS
  <2> QED BY <1>1, <1>2, <1>3, <2>1, AppendKeepsTree
<1>5. leavesAdded' = leavesAdded + 1 /\ adding' = TRUE /\ loopHeight' = 0
  BY DEF AppendLeaf
<1>6. (leavesAdded + 1) * 2^0 = leavesAdded + 1
  BY <1>1, PowZero
<1>7. leavesAdded' \in Nat /\ leavesAdded' <= MaxAdded /\ loopHeight' \in Nat /\ adding' \in BOOLEAN
  BY <1>1, <1>5, MaxAddedAssumption
<1>8. LoopAtLastRun'
  BY <1>1, <1>4, <1>5, <1>6 DEF LoopAtLastRun
<1> QED BY <1>4, <1>7, <1>8 DEF BuildInv

(* There is more to fill exactly after a right child, and what is appended *)
(* then is its parent.                                                     *)
LEMMA BackFillInv ==
  ASSUME BuildInv, AppendParent
  PROVE  BuildInv'
<1>1. PICK k \in Nat : leavesAdded = (k + 1) * 2^loopHeight /\ nextIndex = NodePos(loopHeight, k)
  BY DEF BuildInv, LoopAtLastRun, AppendParent
<1>2. loopHeight \in Nat /\ nextIndex \in Nat /\ PosHeight(nextIndex + 1) > loopHeight
  BY DEF BuildInv, AppendParent, MoreToFill, IndexHeight
<1>3. PICK j \in Nat : k = 2 * j + 1
  <2>1. PICK j \in Nat : k = 2 * j \/ k = 2 * j + 1
    BY EvenOrOdd
  <2>2. k # 2 * j
    <3>1. k = 2 * j => PosHeight(nextIndex + 1) = 0
      BY <1>1, <1>2, HeightAfter
    <3> QED BY <3>1, <1>2
  <2> QED BY <2>1, <2>2
<1>4. /\ nextIndex + 1 = NodePos(loopHeight + 1, j)
      /\ NodePos(loopHeight, 2 * j) = nextIndex - (2 * 2^loopHeight - 1)
  BY <1>1, <1>2, <1>3, ParentPos
<1>5. 2^loopHeight \in Nat /\ 2^(loopHeight + 1) = 2 * 2^loopHeight /\ loopHeight + 1 \in Nat
  BY <1>2, PowType, PowStep
<1>6. NodeValue(loopHeight + 1, j)
        = <<nextIndex + 1, leftIndex(nextIndex, loopHeight), nextIndex - 1>>
  <2>1. loopHeight + 1 # 0 /\ (loopHeight + 1) - 1 = loopHeight
    BY <1>2
  <2>2. NodePos(loopHeight, 2 * j) - 1 = leftIndex(nextIndex, loopHeight)
    BY <1>2, <1>4, <1>5 DEF leftIndex
  <2> QED BY <2>1, <2>2, <1>1, <1>3, <1>4 DEF NodeValue
<1>7. AppendNode(NodeValue(loopHeight + 1, j))
  BY <1>6 DEF AppendParent
<1>8. nextIndex' = NodePos(loopHeight + 1, j) /\ nextIndex' \in Nat
      /\ (DOMAIN appended = {n \in Nat : n < nextIndex})' /\ StoreIsTree'
  BY <1>4, <1>5, <1>7, AppendKeepsTree
<1>9. leavesAdded = (j + 1) * 2^(loopHeight + 1)
  BY <1>1, <1>3, <1>5
<1>10. loopHeight' = loopHeight + 1 /\ adding' = adding /\ leavesAdded' = leavesAdded /\ adding
  BY DEF AppendParent
<1>11. LoopAtLastRun'
  BY <1>8, <1>9, <1>10 DEF LoopAtLastRun
<1> QED BY <1>5, <1>8, <1>10, <1>11 DEF BuildInv

(* When the loop ends the range is complete. *)
LEMMA ReturnInv ==
  ASSUME BuildInv, Return
  PROVE  BuildInv'
<1>1. PICK k \in Nat : leavesAdded = (k + 1) * 2^loopHeight /\ nextIndex = NodePos(loopHeight, k)
  BY DEF BuildInv, LoopAtLastRun, Return
<1>2. loopHeight \in Nat /\ nextIndex \in Nat /\ ~ (PosHeight(nextIndex + 1) > loopHeight)
  BY DEF BuildInv, Return, MoreToFill, IndexHeight
<1>3. PICK j \in Nat : k = 2 * j
  <2>1. PICK j \in Nat : k = 2 * j \/ k = 2 * j + 1
    BY EvenOrOdd
  <2>2. k # 2 * j + 1
    <3>1. k = 2 * j + 1 => PosHeight(nextIndex + 1) = loopHeight + 1
      BY <1>1, <1>2, HeightAfter
    <3> QED BY <3>1, <1>2
  <2> QED BY <2>1, <2>2
<1>4. nextIndex = MMRIndex(leavesAdded)
  BY <1>1, <1>2, <1>3, NextLeafPos
<1>5. UNCHANGED <<appended, nextIndex, leavesAdded>> /\ adding' = FALSE /\ loopHeight' = 0
  BY DEF Return
<1>6. LoopAtLastRun'
  BY <1>4, <1>5 DEF LoopAtLastRun
<1> QED BY <1>5, <1>6 DEF BuildInv, StoreIsTree

(* What the store holds and where the loop is, throughout. *)
THEOREM StoreBuilt == BuildSpec => []BuildInv
<1>1. BuildInv /\ [BuildNext]_buildVars => BuildInv'
  <2> SUFFICES ASSUME BuildInv, [BuildNext]_buildVars PROVE BuildInv'
    OBVIOUS
  <2>1. CASE AppendLeaf
    BY <2>1, AppendLeafInv
  <2>2. CASE AppendParent
    BY <2>2, BackFillInv
  <2>3. CASE Return
    BY <2>3, ReturnInv
  <2>4. CASE UNCHANGED buildVars
    BY <2>4 DEF buildVars, BuildInv, LoopAtLastRun, StoreIsTree
  <2> QED BY <2>1, <2>2, <2>3, <2>4 DEF BuildNext
<1> QED BY <1>1, BuildInitInv, PTL DEF BuildSpec


---------------------------------------------------------------------------
(* What is appended last is the node over a run that ends the leaves: the *)
(* longest of them when the call has returned.                             *)
LEMMA LastNode ==
  ASSUME BuildInv, nextIndex > 0
  PROVE  \E h, k \in Nat :
           /\ nextIndex = NodePos(h, k) /\ leavesAdded = (k + 1) * 2^h
           /\ adding => h = loopHeight
           /\ ~ adding => loopHeight = 0 /\ \E j \in Nat : k = 2 * j
           /\ Newest = <<h, k>> /\ IndexIn[Newest] = lastIndex
<1> DEFINE At(h, k) ==
      /\ nextIndex = NodePos(h, k) /\ leavesAdded = (k + 1) * 2^h
      /\ adding => h = loopHeight
      /\ ~ adding => loopHeight = 0 /\ \E j \in Nat : k = 2 * j
<1>1. \E h, k \in Nat : At(h, k)
  <2>1. CASE adding
    BY <2>1 DEF BuildInv, LoopAtLastRun
  <2>2. CASE ~ adding
    <3>1. /\ nextIndex = MMRIndex(leavesAdded)
          /\ leavesAdded \in Nat /\ leavesAdded # 0 /\ loopHeight = 0
      BY <2>2, MMRIndexBounds DEF BuildInv, LoopAtLastRun
    <3>2. PICK h, j \in Nat : leavesAdded = (2 * j + 1) * 2^h
      BY <3>1, OddRuns
    <3>3. 2 * j \in Nat /\ nextIndex = NodePos(h, 2 * j)
      BY <3>1, <3>2, NextLeafPos
    <3> QED BY <2>2, <3>1, <3>2, <3>3
  <2> QED BY <2>1, <2>2
<1>2. PICK h, k \in Nat : At(h, k)
  BY <1>1
<1>3. MaxAdded \in Nat /\ leavesAdded \in Nat /\ leavesAdded <= MaxAdded
  BY MaxAddedAssumption DEF BuildInv
<1>4. \A g, l \in Nat :
        <<g, l>> \in Nodes(leavesAdded) =>
          IndexIn[<<g, l>>] = NodePos(g, l) - 1
  <2>1. SUFFICES ASSUME NEW g \in Nat, NEW l \in Nat, <<g, l>> \in Nodes(leavesAdded)
                 PROVE  IndexIn[<<g, l>>] = NodePos(g, l) - 1
    OBVIOUS
  <2>2. (l + 1) * 2^g <= leavesAdded /\ (l + 1) * 2^g \in Nat
    BY <2>1, <1>3, NodesIs, NodePosBounds
  <2>3. <<g, l>> \in Nodes(MaxAdded)
    BY <2>2, <1>3, NodesIs
  <2>4. IndexIn[<<g, l>>] = IndexOf(<<g, l>>)
    BY <2>3 DEF IndexIn
  <2> QED BY <2>4, IndexOfNode
<1>5. <<h, k>> \in Nodes(leavesAdded) /\ IndexIn[<<h, k>>] = lastIndex
  <2>1. <<h, k>> \in Nodes(leavesAdded)
    BY <1>2, <1>3, NodesIs
  <2> QED BY <2>1, <1>2, <1>4 DEF lastIndex
<1>6. ASSUME NEW m \in Nodes(leavesAdded), IndexIn[m] = lastIndex
      PROVE  m = <<h, k>>
  <2>1. PICK g, l \in Nat : m = <<g, l>>
    BY <1>3, NodesIs
  <2>2. NodePos(g, l) - 1 = lastIndex /\ NodePos(g, l) \in Nat /\ nextIndex \in Nat
    BY <2>1, <1>4, <1>6, NodePosBounds DEF BuildInv
  <2>3. NodePos(g, l) = NodePos(h, k)
    BY <2>2, <1>2 DEF lastIndex
  <2> QED BY <2>1, <2>3, NodePosUnique
<1>7. Newest = <<h, k>>
  BY <1>5, <1>6 DEF Newest
<1> QED BY <1>2, <1>5, <1>7

(* The index of a node of the range *)
LEMMA IndexInIs ==
  ASSUME BuildInv, NEW h \in Nat, NEW k \in Nat, (k + 1) * 2^h <= leavesAdded
  PROVE  <<h, k>> \in Nodes(leavesAdded) /\ IndexIn[<<h, k>>] = NodePos(h, k) - 1
<1>1. MaxAdded \in Nat /\ leavesAdded \in Nat /\ leavesAdded <= MaxAdded /\ (k + 1) * 2^h \in Nat
  BY MaxAddedAssumption, NodePosBounds DEF BuildInv
<1>2. <<h, k>> \in Nodes(leavesAdded) /\ <<h, k>> \in Nodes(MaxAdded)
  BY <1>1, NodesIs
<1> QED BY <1>2, IndexOfNode DEF IndexIn

(* The children of the node over a run are over its halves. *)
LEMMA ChildRuns ==
  ASSUME NEW g \in Nat, NEW k \in Nat
  PROVE  /\ 2 * k \in Nat /\ 2 * k + 1 \in Nat /\ 2^g \in Nat
         /\ (2 * k + 1) * 2^g <= (k + 1) * 2^(g + 1)
         /\ (2 * k + 1 + 1) * 2^g = (k + 1) * 2^(g + 1)
<1>1. 2^g \in Nat /\ 2^(g + 1) = 2 * 2^g
  BY PowType, PowStep
<1>2. ASSUME NEW x \in Nat
      PROVE  (2 * k + 1) * x <= (k + 1) * (2 * x) /\ (2 * k + 1 + 1) * x = (k + 1) * (2 * x)
  OBVIOUS
<1> QED BY <1>1, <1>2

(* The tree is built as it should be. *)
LEMMA BuildsTheTreeInv == BuildInv => BuildsTheTree
<1> SUFFICES ASSUME BuildInv, nextIndex > 0
             PROVE  /\ appended[lastIndex] =
                         IF Newest[1] = 0 THEN <<"leaf", Newest[2]>>
                         ELSE <<nextIndex, IndexIn[Left(Newest)], IndexIn[Right(Newest)]>>
                    /\ ~adding => nextIndex = Cardinality(Nodes(leavesAdded))
  BY DEF BuildsTheTree
<1>1. PICK h, k \in Nat :
        nextIndex = NodePos(h, k) /\ leavesAdded = (k + 1) * 2^h /\ Newest = <<h, k>>
  BY LastNode
<1>2. appended[lastIndex] = NodeValue(h, k)
  <2>1. NodePos(h, k) \in Nat /\ NodePos(h, k) <= nextIndex
    BY <1>1, NodePosBounds
  <2> QED BY <1>1, <2>1 DEF BuildInv, StoreIsTree, lastIndex
<1>3. ~adding => nextIndex = Cardinality(Nodes(leavesAdded))
  BY NodesCount DEF BuildInv, LoopAtLastRun
<1>4. CASE h = 0
  BY <1>1, <1>2, <1>3, <1>4 DEF NodeValue
<1>5. CASE h # 0
  <2>1. h - 1 \in Nat /\ (h - 1) + 1 = h
    BY <1>5
  <2>2. /\ 2 * k \in Nat /\ 2 * k + 1 \in Nat
        /\ (2 * k + 1) * 2^(h - 1) <= leavesAdded /\ (2 * k + 1 + 1) * 2^(h - 1) = leavesAdded
    BY <2>1, <1>1, ChildRuns
  <2>3. leavesAdded \in Nat
    BY DEF BuildInv
  <2>4. IndexIn[<<h - 1, 2 * k>>] = NodePos(h - 1, 2 * k) - 1
    BY <2>1, <2>2, IndexInIs
  <2>5. IndexIn[<<h - 1, 2 * k + 1>>] = NodePos(h - 1, 2 * k + 1) - 1
    BY <2>1, <2>2, <2>3, IndexInIs
  <2>6. Left(Newest) = <<h - 1, 2 * k>> /\ Right(Newest) = <<h - 1, 2 * k + 1>> /\ Newest[1] = h
    BY <1>1 DEF Left, Right
  <2> QED BY <1>1, <1>2, <1>3, <1>5, <2>4, <2>5, <2>6 DEF NodeValue
<1> QED BY <1>4, <1>5

(* AddHashedLeaf appends exactly the nodes of the mountain range, each     *)
(* made from its leaf or from its two children, for every number of        *)
(* leaves.                                                                 *)
THEOREM TreeBuilt == BuildSpec => []BuildsTheTree
BY StoreBuilt, BuildsTheTreeInv, PTL

(* Where the leaf added last is, and its climb. *)
LEMMA LeafNumberingInv == BuildInv => LeafNumbering
<1> SUFFICES ASSUME BuildInv, nextIndex > 0
             PROVE  /\ LeafIndex(lastIndex) = leavesAdded - 1
                    /\ adding => MMRIndex(leavesAdded - 1) + loopHeight = lastIndex
                    /\ TreeIndexOld(leavesAdded - 1) = MMRIndex(leavesAdded - 1)
                    /\ ~adding => /\ FirstMMRSize(MMRIndex(leavesAdded - 1)) = nextIndex
                                  /\ nextIndex = MMRIndex(leavesAdded - 1) + SpurHeightLeaf(leavesAdded - 1) + 1
  BY DEF LeafNumbering
<1>1. PICK h, k \in Nat :
        /\ nextIndex = NodePos(h, k) /\ leavesAdded = (k + 1) * 2^h
        /\ adding => h = loopHeight
        /\ ~ adding => \E j \in Nat : k = 2 * j
  BY LastNode
<1>2. leavesAdded - 1 \in Nat /\ nextIndex = MMRIndex(leavesAdded - 1) + 1 + h
      /\ MMRIndex(leavesAdded - 1) \in Nat
  BY <1>1, LastLeafPos, MMRIndexBounds
<1>3. LeafIndex(lastIndex) = leavesAdded - 1
  BY <1>1, LeafIndexOf DEF lastIndex
<1>4. TreeIndexOld(leavesAdded - 1) = MMRIndex(leavesAdded - 1)
  BY <1>2, TreeIndexIs
<1>5. adding => MMRIndex(leavesAdded - 1) + loopHeight = lastIndex
  BY <1>1, <1>2 DEF lastIndex
<1>6. ASSUME ~ adding
      PROVE  /\ FirstMMRSize(MMRIndex(leavesAdded - 1)) = nextIndex
             /\ nextIndex = MMRIndex(leavesAdded - 1) + SpurHeightLeaf(leavesAdded - 1) + 1
  <2>1. PICK j \in Nat : k = 2 * j
    BY <1>1, <1>6
  <2>2. TrailingZeros(leavesAdded) = h
    BY <1>1, <2>1, TrailingZerosIs
  <2>3. leavesAdded - 1 + 1 = leavesAdded /\ leavesAdded \in Nat
    BY <1>2 DEF BuildInv
  <2>4. MMRIndex(leavesAdded - 1) = NodePos(0, leavesAdded - 1) - 1
    BY <1>2, LeafPos
  <2>5. (leavesAdded - 1 + 1) * 2^0 = leavesAdded
    BY <2>3, PowZero
  <2>6. FirstMMRSize(NodePos(0, leavesAdded - 1) - 1) = MMRIndex(leavesAdded)
    <3>1. FirstMMRSize(NodePos(0, leavesAdded - 1) - 1) = MMRIndex((leavesAdded - 1 + 1) * 2^0)
      <4>1. 0 \in Nat
        OBVIOUS
      <4> QED BY <1>2, <4>1, FirstMMRSizeOf
    <3> QED BY <2>5, <3>1
  <2>7. nextIndex = MMRIndex(leavesAdded)
    BY <1>6 DEF BuildInv, LoopAtLastRun
  <2>8. SpurHeightLeaf(leavesAdded - 1) = h
    BY <2>2, <2>3 DEF SpurHeightLeaf
  <2> QED BY <1>2, <2>4, <2>6, <2>7, <2>8
<1> QED BY <1>3, <1>4, <1>5, <1>6

(* Every leaf is where MMRIndex says, LeafIndex finds its number again     *)
(* from any node that was added with it, and the range AddHashedLeaf       *)
(* returns is the first that has it, for every number of leaves.          *)
THEOREM LeavesNumbered == BuildSpec => []LeafNumbering
BY StoreBuilt, LeafNumberingInv, PTL

-----------------------------------------------------------------------------
(* indexheight.go: the height by remainders                                *)

(* The loop of IndexHeight2, a round unfolded                              *)
LEMMA RemainderDef ==
  ASSUME NEW i \in Nat, NEW k \in Nat
  PROVE  remainder[<<i, k>>] =
           IF k = 0 THEN i
           ELSE remainder[<<IF i >= HeightSize(k) THEN i - HeightSize(k) ELSE i, k - 1>>]
<1> DEFINE S == Nat \X Nat
           next(x) == <<IF x[1] >= HeightSize(x[2]) THEN x[1] - HeightSize(x[2]) ELSE x[1], x[2] - 1>>
           B(f, x) == IF x[2] = 0 THEN x[1] ELSE f[next(x)]
           D == [p \in [S -> Nat] \X S |-> B(p[1], p[2])]
           m == [x \in S |-> x[2]]
<1>1. \A x \in S : /\ x[1] \in Nat
                   /\ x[2] # 0 => next(x) \in S /\ m[next(x)] < m[x]
  <2> SUFFICES ASSUME NEW p \in Nat, NEW j \in Nat
               PROVE  j # 0 => /\ j - 1 \in Nat /\ j - 1 < j
                               /\ p >= HeightSize(j) => p - HeightSize(j) \in Nat
    OBVIOUS
  <2>1. 2^j \in Nat /\ 2^j > 0
    BY PowType
  <2> QED BY <2>1 DEF HeightSize
<1> HIDE DEF next
<1>2. \A f \in [S -> Nat], x \in S : B(f, x) \in Nat /\ D[<<f, x>>] = B(f, x)
  <2>1. ASSUME NEW f \in [S -> Nat], NEW x \in S PROVE B(f, x) \in Nat
    <3>1. x[2] # 0 => f[next(x)] \in Nat
      <4>1. x[2] # 0 => next(x) \in S
        BY <1>1
      <4> HIDE DEF S
      <4> QED BY <4>1
    <3> QED BY <1>1, <3>1
  <2> HIDE DEF B, S
  <2> QED BY <2>1
<1>3. D \in [[S -> Nat] \X S -> Nat]
  <2> HIDE DEF B, S
  <2> QED BY <1>2
<1>4. ASSUME NEW f \in [S -> Nat], NEW g \in [S -> Nat], NEW x \in S,
             \A y \in S : m[y] < m[x] => f[y] = g[y]
      PROVE  D[<<f, x>>] = D[<<g, x>>]
  <2>1. x[2] # 0 => f[next(x)] = g[next(x)]
    <3>1. x[2] # 0 => next(x) \in S /\ m[next(x)] < m[x]
      BY <1>1
    <3> HIDE DEF S, m
    <3> QED BY <1>4, <3>1
  <2>2. B(f, x) = B(g, x)
    BY <2>1
  <2> HIDE DEF B, S
  <2> QED BY <1>2, <2>2
<1>5. \E f \in [S -> Nat] : \A x \in S : f[x] = D[<<f, x>>]
  <2>1. Nat # {} /\ m \in [S -> Nat]
    OBVIOUS
  <2> HIDE DEF D, S, m
  <2>2. LooksBelow(S, Nat, m, D)
    BY <2>1, <1>3, <1>4 DEF LooksBelow
  <2> QED BY <2>2, Recursion
<1>6. PICK F : F = [x \in S |-> B(F, x)]
  <2>1. PICK f \in [S -> Nat] : \A x \in S : f[x] = D[<<f, x>>]
    BY <1>5
  <2>2. \A x \in S : f[x] = B(f, x)
    <3> HIDE DEF B, D, S
    <3> QED BY <1>2, <2>1
  <2> HIDE DEF B, S
  <2> QED BY <2>2
<1>7. remainder = [x \in S |-> B(remainder, x)]
  BY <1>6 DEF remainder, next
<1>8. \A x \in S : remainder[x] = B(remainder, x)
  <2> HIDE DEF B
  <2> QED BY <1>7
<1>9. /\ <<i, k>> \in S
      /\ next(<<i, k>>) = <<IF i >= HeightSize(k) THEN i - HeightSize(k) ELSE i, k - 1>>
  BY DEF next
<1> QED BY <1>8, <1>9

(* At the top of a perfect tree every round takes one off.                 *)
LEMMA RemainderOfTop ==
  ASSUME NEW b \in Nat
  PROVE  \A e \in Nat : remainder[<<2 * 2^b - 2 + e, b>>] = b + e
<1> DEFINE S == {c \in Nat : \A e \in Nat : remainder[<<2 * 2^c - 2 + e, c>>] = c + e}
<1>1. 0 \in S
  <2> SUFFICES ASSUME NEW e \in Nat PROVE remainder[<<2 * 2^0 - 2 + e, 0>>] = 0 + e
    OBVIOUS
  <2>1. 2 * 2^0 - 2 + e = e
    BY PowZero
  <2>2. remainder[<<e, 0>>] = e
    <3>1. 0 \in Nat
      OBVIOUS
    <3> QED BY <3>1, RemainderDef
  <2> QED BY <2>1, <2>2
<1>2. ASSUME NEW c \in 1 .. b, c - 1 \in S PROVE c \in S
  <2>1. PICK d \in Nat : c = d + 1 /\ d \in S
    <3>1. c - 1 \in Nat /\ c = (c - 1) + 1
      OBVIOUS
    <3> QED BY <3>1, <1>2
  <2>2. 2^c = 2 * 2^d /\ 2^d \in Nat /\ 2^d > 0 /\ c \in Nat /\ c # 0
    BY <2>1, PowStep, PowType
  <2>3. ASSUME NEW e \in Nat PROVE remainder[<<2 * 2^c - 2 + e, c>>] = c + e
    <3>1. PICK y \in Nat : y = 2^d /\ 2^c = 2 * y /\ y > 0
      BY <2>2
    <3>2. e + 1 \in Nat
      OBVIOUS
    <3>3. remainder[<<2 * 2^c - 2 + e, c>>] = remainder[<<2 * 2^d - 2 + (e + 1), d>>]
      <4>1. c - 1 = d
        BY <2>1
      <4>2. PICK i \in Nat, r \in Nat : i = 4 * y - 2 + e /\ r = 2 * y - 1 + e
        <5>1. 4 * y - 2 + e \in Nat /\ 2 * y - 1 + e \in Nat
          BY <3>1
        <5> QED BY <5>1
      <4>3. 2 * 2^c - 2 + e = i
        BY <3>1, <4>2
      <4>4. 2 * 2^d - 2 + (e + 1) = r
        BY <3>1, <4>2
      <4>5. HeightSize(c) = 2 * y - 1
        BY <3>1 DEF HeightSize
      <4>6. i >= HeightSize(c) /\ i - HeightSize(c) = r
        BY <3>1, <4>2, <4>5
      <4>7. remainder[<<i, c>>] = remainder[<<r, c - 1>>]
        BY <2>2, <4>6, RemainderDef
      <4> QED BY <4>1, <4>3, <4>4, <4>7
    <3>4. remainder[<<2 * 2^d - 2 + (e + 1), d>>] = d + (e + 1)
      BY <2>1, <3>2
    <3> QED BY <2>1, <3>3, <3>4
  <2> QED BY <2>2, <2>3
<1>3. b \in S
  <2> HIDE DEF S
  <2>1. \A c \in 0 .. b : c \in S
    BY <1>1, <1>2, UpTo
  <2> QED BY <2>1
<1> QED BY <1>3

(* Taking off the perfect trees to the left of a node, the largest first,  *)
(* leaves its height.                                                      *)
LEMMA RemainderIs ==
  ASSUME NEW b \in Nat
  PROVE  \A h, k \in Nat : NodePos(h, k) <= 2 * 2^b - 1 => remainder[<<NodePos(h, k) - 1, b>>] = h
<1> DEFINE S == {c \in Nat : \A h, k \in Nat :
                   NodePos(h, k) <= 2 * 2^c - 1 => remainder[<<NodePos(h, k) - 1, c>>] = h}
<1>0. ASSUME NEW c \in Nat, NEW h \in Nat, NEW k \in Nat, NodePos(h, k) = 2 * 2^c - 1
      PROVE  h = c /\ remainder[<<NodePos(h, k) - 1, c>>] = h
  <2>1. NodePos(c, 0) = 2 * 2^c - 1
    <3>1. 0 * 2^c = 0 /\ MMRIndex(0) = 0 /\ 2^c \in Nat
      BY PowType, MMRIndexPow
    <3> QED BY <3>1 DEF NodePos
  <2>2. h = c
    <3>1. 0 \in Nat /\ NodePos(h, k) = NodePos(c, 0)
      BY <1>0, <2>1
    <3> QED BY <3>1, NodePosUnique
  <2>3. NodePos(h, k) - 1 = 2 * 2^c - 2 + 0
    <3>1. 2^c \in Nat
      BY PowType
    <3> QED BY <1>0, <3>1
  <2>4. remainder[<<2 * 2^c - 2 + 0, c>>] = c + 0
    <3>1. 0 \in Nat
      OBVIOUS
    <3> QED BY <3>1, RemainderOfTop
  <2> QED BY <2>2, <2>3, <2>4
<1>1. 0 \in S
  <2> SUFFICES ASSUME NEW h \in Nat, NEW k \in Nat, NodePos(h, k) <= 2 * 2^0 - 1
               PROVE  remainder[<<NodePos(h, k) - 1, 0>>] = h
    OBVIOUS
  <2>1. NodePos(h, k) = 2 * 2^0 - 1
    <3>1. 2 * 2^0 - 1 = 1
      BY PowZero
    <3>2. NodePos(h, k) \in Nat /\ NodePos(h, k) > 0
      BY NodePosBounds
    <3> QED BY <3>1, <3>2
  <2> QED BY <2>1, <1>0
<1>2. ASSUME NEW c \in 1 .. b, c - 1 \in S PROVE c \in S
  <2>1. PICK d \in Nat : c = d + 1 /\ d \in S
    <3>1. c - 1 \in Nat /\ c = (c - 1) + 1
      OBVIOUS
    <3> QED BY <3>1, <1>2
  <2>2. 2^c = 2 * 2^d /\ 2^d \in Nat /\ 2^d > 0 /\ c \in Nat /\ c # 0 /\ c - 1 = d
    BY <2>1, PowStep, PowType
  <2>3. ASSUME NEW h \in Nat, NEW k \in Nat, NodePos(h, k) <= 2 * 2^c - 1
        PROVE  remainder[<<NodePos(h, k) - 1, c>>] = h
    <3> DEFINE i == NodePos(h, k) - 1
    <3>1. NodePos(h, k) \in Nat /\ NodePos(h, k) > 0 /\ i \in Nat
      BY NodePosBounds
    <3>2. HeightSize(c) = 2 * 2^d - 1
      BY <2>2 DEF HeightSize
    <3>3. remainder[<<i, c>>] = IF i >= HeightSize(c) THEN remainder[<<i - HeightSize(c), d>>]
                                ELSE remainder[<<i, d>>]
      <4> HIDE DEF i
      <4> QED BY <2>2, <3>1, RemainderDef
    <3>4. CASE NodePos(h, k) = 2 * 2^c - 1
      BY <2>2, <3>4, <1>0
    <3>5. CASE ~ (i >= HeightSize(c))
      <4>1. NodePos(h, k) <= 2 * 2^d - 1
        BY <2>2, <3>1, <3>2, <3>5
      <4> QED BY <2>1, <3>3, <3>5, <4>1
    <3>6. CASE i >= HeightSize(c) /\ NodePos(h, k) # 2 * 2^c - 1
      <4>1. /\ 2 * 2^d - 1 < NodePos(h, k)
            /\ NodePos(h, k) < 2 * 2^c - 1
        BY <2>2, <2>3, <3>1, <3>2, <3>6
      <4>2. ~ ((k + 1) * 2^h <= 2^d) /\ (k + 1) * 2^h <= 2 * 2^d
        <5>1. MMRIndex(2^d) = 2 * 2^d - 1 /\ MMRIndex(2^c) = 2 * 2^c - 1
          BY <2>2, MMRIndexPow
        <5>2. ~ (NodePos(h, k) <= MMRIndex(2^d)) /\ NodePos(h, k) <= MMRIndex(2^c)
          BY <2>2, <3>1, <4>1, <5>1
        <5>3. 2^c \in Nat
          BY <2>2, PowType
        <5>4. ~ ((k + 1) * 2^h <= 2^d) /\ (k + 1) * 2^h <= 2^c
          BY <2>2, <5>2, <5>3, NodeInRange
        <5> QED BY <2>2, <5>4
      <4>3. h <= d
        <5>1. 2 * 2^h - 1 <= NodePos(h, k) /\ 2^h \in Nat
          BY NodePosBounds, PowType
        <5>2. 2^h < 2^c
          BY <2>2, <3>1, <4>1, <5>1
        <5>3. h < c
          BY <2>2, <5>2, PowMono
        <5> QED BY <2>1, <5>3
      <4>4. 2^d <= k * 2^h /\ k * 2^h < 2 * 2^d
        <5>1. k * 2^h \in Nat /\ k * 2^h < (k + 1) * 2^h /\ (k + 1) * 2^h \in Nat
          BY RunEnds
        <5>2. k * 2^h < 2^d => (k + 1) * 2^h <= 2^d
          BY <4>3, RunFits
        <5> QED BY <2>2, <4>2, <5>1, <5>2
      <4>5. /\ k - 2^(d - h) \in Nat
            /\ (k - 2^(d - h)) * 2^h = k * 2^h - 2^d
        <5>1. \/ k # 0 /\ d < h
              \/ k - 2^(d - h) \in Nat /\ (k - 2^(d - h)) * 2^h = k * 2^h - 2^d
          BY <4>4, RunInRest
        <5> QED BY <4>3, <5>1
      <4>6. k * 2^h \in Nat
        BY RunEnds
      <4>7. MMRIndex(k * 2^h) = 2 * 2^d - 1 + MMRIndex(k * 2^h - 2^d)
        BY <4>4, <4>6, MMRIndexAt
      <4>8. PICK l \in Nat : l = k - 2^(d - h) /\ l * 2^h = k * 2^h - 2^d
        BY <4>5
      <4>9. NodePos(h, l) = MMRIndex(l * 2^h) + 2 * 2^h - 1 /\ NodePos(h, l) \in Nat
            /\ MMRIndex(l * 2^h) \in Nat /\ 2^h \in Nat
        <5>1. l * 2^h \in Nat /\ 2^h \in Nat
          BY RunEnds, PowType
        <5> QED BY <5>1, NodePosBounds, MMRIndexBounds DEF NodePos
      <4>10. NodePos(h, k) = 2 * 2^d - 1 + NodePos(h, l)
        <5>1. NodePos(h, k) = MMRIndex(k * 2^h) + 2 * 2^h - 1
          BY DEF NodePos
        <5>2. MMRIndex(k * 2^h) = 2 * 2^d - 1 + MMRIndex(l * 2^h)
          BY <4>7, <4>8
        <5> QED BY <2>2, <4>9, <5>1, <5>2
      <4>11. i - HeightSize(c) = NodePos(h, l) - 1 /\ NodePos(h, l) <= 2 * 2^d - 1
        BY <2>2, <3>1, <3>2, <4>1, <4>9, <4>10
      <4>12. remainder[<<NodePos(h, l) - 1, d>>] = h
        BY <2>1, <4>11
      <4>13. remainder[<<i, c>>] = remainder[<<i - HeightSize(c), d>>]
        BY <3>3, <3>6
      <4> QED BY <4>11, <4>12, <4>13
    <3> QED BY <3>4, <3>5, <3>6
  <2> QED BY <2>2, <2>3
<1>3. b \in S
  <2> HIDE DEF S
  <2>1. \A c \in 0 .. b : c \in S
    BY <1>1, <1>2, UpTo
  <2> QED BY <2>1
<1> QED BY <1>3

(* Both functions of the package find the height.                          *)
LEMMA IndexHeight2Is ==
  ASSUME NEW h \in Nat, NEW k \in Nat
  PROVE  IndexHeight2(NodePos(h, k) - 1) = h
<1>1. PICK i \in Nat : i = NodePos(h, k) - 1 /\ NodePos(h, k) = i + 1
  <2>1. NodePos(h, k) \in Nat /\ NodePos(h, k) > 0
    BY NodePosBounds
  <2>2. NodePos(h, k) - 1 \in Nat
    BY <2>1
  <2> QED BY <2>1, <2>2
<1>2. BitLength(i) \in Nat /\ i < 2^BitLength(i)
  BY BelowBitLength
<1>3. NodePos(h, k) <= 2 * 2^BitLength(i) - 1
  <2>1. PICK y \in Nat : y = 2^BitLength(i) /\ y > 0
    BY <1>2, PowType
  <2> QED BY <1>1, <1>2, <2>1
<1>4. remainder[<<NodePos(h, k) - 1, BitLength(i)>>] = h
  BY <1>2, <1>3, RemainderIs
<1> QED BY <1>1, <1>4 DEF IndexHeight2

-----------------------------------------------------------------------------
(* ancestors.go: the nodes on both sides of a climb                        *)

(* Both loops go on with the next index while it is higher: they end at a  *)
(* leaf.                                                                   *)
LEMMA ClimbLoop ==
  ASSUME NEW item, \A x \in Nat \X Nat : item[x] \in Seq(Int)
  PROVE  \E F : F = [x \in Nat \X Nat |->
                      IF IndexHeight(x[1]) > x[2] THEN item[x] \o F[<<x[1] + 1, x[2] + 1>>]
                      ELSE << >>]
<1> DEFINE S == Nat \X Nat
           V == Seq(Int)
           next(x) == <<x[1] + 1, x[2] + 1>>
           B(f, x) == IF IndexHeight(x[1]) > x[2] THEN item[x] \o f[next(x)] ELSE << >>
           D == [p \in [S -> V] \X S |-> B(p[1], p[2])]
           m == [x \in S |-> IF x[1] = 0 THEN 0 ELSE NextLeaf(x[1] - 1)]
<1>1. ASSUME NEW x \in S
      PROVE  /\ item[x] \in V /\ m[x] \in Nat /\ next(x) \in S
             /\ IndexHeight(x[1]) > x[2] => m[next(x)] < m[x]
  <2>1. PICK j \in Nat, h \in Nat : x = <<j, h>>
    OBVIOUS
  <2>2. m[x] = (IF j = 0 THEN 0 ELSE NextLeaf(j - 1)) /\ next(x) = <<j + 1, h + 1>> /\ next(x) \in S
    BY <2>1
  <2>3. m[next(x)] = NextLeaf(j)
    <3>1. j + 1 # 0 /\ j + 1 - 1 = j /\ <<j + 1, h + 1>> \in S
      OBVIOUS
    <3>2. m[<<j + 1, h + 1>>] = NextLeaf(j + 1 - 1)
      BY <3>1
    <3> HIDE DEF m, next
    <3> QED BY <2>2, <3>1, <3>2
  <2>4. m[x] \in Nat
    <3>1. j # 0 => j - 1 \in Nat
      OBVIOUS
    <3>2. j # 0 => NextLeaf(j - 1) \in Nat
      BY <3>1, NextLeafIs
    <3> HIDE DEF m
    <3> QED BY <2>2, <3>2
  <2>5. item[x] \in V
    OBVIOUS
  <2>6. ASSUME IndexHeight(j) > h PROVE NextLeaf(j) < m[x]
    <3>1. j # 0
      <4>1. 0 \in Nat /\ MMRIndex(0) = 0
        BY MMRIndexBounds
      <4>2. NodePos(0, 0) = 0 + 1
        BY <4>1, LeafPos
      <4>3. IndexHeight(0) = 0
        BY <4>1, <4>2, HeightOfNode DEF IndexHeight
      <4> QED BY <2>6, <4>3
    <3>2. j - 1 \in Nat /\ j - 1 + 1 = j
      BY <3>1
    <3>3. IndexHeight(j - 1 + 1) # 0
      BY <2>6, <3>2
    <3>4. NextLeaf(j) = NextLeaf(j - 1) - 1 /\ NextLeaf(j - 1) \in Nat
      BY <3>2, <3>3, NextLeafIs
    <3> HIDE DEF m
    <3> QED BY <2>2, <3>1, <3>4
  <2>7. x[1] = j /\ x[2] = h
    BY <2>1
  <2> HIDE DEF m, next
  <2> QED BY <2>2, <2>3, <2>4, <2>5, <2>6, <2>7
<1> HIDE DEF m, next
<1>2. \A f \in [S -> V], x \in S : B(f, x) \in V /\ D[<<f, x>>] = B(f, x)
  <2>1. ASSUME NEW f \in [S -> V], NEW x \in S PROVE B(f, x) \in V
    <3>1. f[next(x)] \in V
      <4>1. next(x) \in S
        BY <1>1
      <4> HIDE DEF S, V
      <4> QED BY <4>1
    <3>2. << >> \in V /\ item[x] \in V
      BY <1>1
    <3>3. item[x] \o f[next(x)] \in V
      BY <3>1, <3>2
    <3> HIDE DEF V
    <3> QED BY <3>2, <3>3
  <2> HIDE DEF B, S, V
  <2> QED BY <2>1
<1>3. D \in [[S -> V] \X S -> V]
  <2> HIDE DEF B, S, V
  <2> QED BY <1>2
<1>4. ASSUME NEW f \in [S -> V], NEW f2 \in [S -> V], NEW x \in S,
             \A y \in S : m[y] < m[x] => f[y] = f2[y]
      PROVE  D[<<f, x>>] = D[<<f2, x>>]
  <2>1. IndexHeight(x[1]) > x[2] => f[next(x)] = f2[next(x)]
    <3> HIDE DEF S, V
    <3> QED BY <1>1, <1>4
  <2>2. B(f, x) = B(f2, x)
    BY <2>1
  <2> HIDE DEF B, S, V
  <2> QED BY <1>2, <2>2
<1>5. \E f \in [S -> V] : \A x \in S : f[x] = D[<<f, x>>]
  <2>1. V # {}
    <3>1. << >> \in V
      OBVIOUS
    <3> QED BY <3>1
  <2>2. m \in [S -> Nat]
    <3>1. m = [x \in S |-> m[x]]
      BY DEF m
    <3> HIDE DEF S
    <3> QED BY <1>1, <3>1
  <2> HIDE DEF D, S, V
  <2>3. LooksBelow(S, V, m, D)
    BY <2>1, <2>2, <1>3, <1>4 DEF LooksBelow
  <2> QED BY <2>3, Recursion
<1>6. PICK F : F = [x \in S |-> B(F, x)]
  <2>1. PICK f \in [S -> V] : \A x \in S : f[x] = D[<<f, x>>]
    BY <1>5
  <2>2. \A x \in S : f[x] = B(f, x)
    <3> HIDE DEF B, D, S, V
    <3> QED BY <1>2, <2>1
  <2> HIDE DEF B, S, V
  <2> QED BY <2>2
<1>7. F = [x \in Nat \X Nat |->
             IF IndexHeight(x[1]) > x[2] THEN item[x] \o F[<<x[1] + 1, x[2] + 1>>] ELSE << >>]
  BY <1>6 DEF next
<1> QED BY <1>7

(* The loop of LeftAncestors, a round unfolded                              *)
LEMMA LeftOfDef ==
  ASSUME NEW i \in Nat, NEW g \in Nat
  PROVE  leftOf[<<i, g>>] =
           IF IndexHeight(i) > g THEN <<i - 2 * 2^g>> \o leftOf[<<i + 1, g + 1>>]
           ELSE << >>
<1> DEFINE S == Nat \X Nat
           I == [x \in S |-> <<x[1] - 2 * 2^x[2]>>]
           B(f, x) == IF IndexHeight(x[1]) > x[2] THEN I[x] \o f[<<x[1] + 1, x[2] + 1>>] ELSE << >>
<1>1. ASSUME NEW x \in S PROVE I[x] \in Seq(Int)
  <2>1. PICK j \in Nat, h \in Nat : x = <<j, h>>
    OBVIOUS
  <2>2. j - 2 * 2^h \in Int /\ j - 2 * 2^h + SiblingOffset(h) \in Int
    <3>1. 2^h \in Nat
      BY PowType
    <3> QED BY <3>1 DEF SiblingOffset
  <2>3. \A a, b \in Int : <<a>> \in Seq(Int) /\ <<a, b>> \in Seq(Int)
    OBVIOUS
  <2>4. I[x] = <<j - 2 * 2^h>>
    BY <2>1
  <2> HIDE DEF I
  <2> QED BY <2>2, <2>3, <2>4
<1>2. PICK F : F = [x \in S |-> B(F, x)]
  <2>1. \A x \in S : I[x] \in Seq(Int)
    BY <1>1
  <2>2. PICK item : item = I
    OBVIOUS
  <2>3. \A x \in Nat \X Nat : item[x] \in Seq(Int)
    <3> HIDE DEF I
    <3> QED BY <2>1, <2>2
  <2>4. \E F : F = [x \in Nat \X Nat |->
                   IF IndexHeight(x[1]) > x[2] THEN item[x] \o F[<<x[1] + 1, x[2] + 1>>]
                   ELSE << >>]
    BY <2>3, ClimbLoop
  <2> HIDE DEF I
  <2> QED BY <2>2, <2>4
<1>3. \A f, x : x \in S => B(f, x) =
         IF IndexHeight(x[1]) > x[2] THEN <<x[1] - 2 * 2^x[2]>> \o f[<<x[1] + 1, x[2] + 1>>]
         ELSE << >>
  OBVIOUS
<1> HIDE DEF B
<1>4. F = [x \in S |-> IF IndexHeight(x[1]) > x[2]
                      THEN <<x[1] - 2 * 2^x[2]>> \o F[<<x[1] + 1, x[2] + 1>>]
                      ELSE << >>]
  <2>1. \A x \in S : B(F, x) =
          IF IndexHeight(x[1]) > x[2] THEN <<x[1] - 2 * 2^x[2]>> \o F[<<x[1] + 1, x[2] + 1>>]
          ELSE << >>
    BY <1>3
  <2> HIDE DEF S
  <2> QED BY <1>2, <2>1
<1>5. leftOf = [x \in S |-> IF IndexHeight(x[1]) > x[2]
                         THEN <<x[1] - 2 * 2^x[2]>> \o leftOf[<<x[1] + 1, x[2] + 1>>]
                         ELSE << >>]
  BY <1>4 DEF leftOf
<1> QED BY <1>5

(* The loop of Ancestors, a round unfolded                                  *)
LEMMA BothOfDef ==
  ASSUME NEW i \in Nat, NEW g \in Nat
  PROVE  bothOf[<<i, g>>] =
           IF IndexHeight(i) > g THEN <<i - 2 * 2^g, i - 2 * 2^g + SiblingOffset(g)>> \o bothOf[<<i + 1, g + 1>>]
           ELSE << >>
<1> DEFINE S == Nat \X Nat
           I == [x \in S |-> <<x[1] - 2 * 2^x[2], x[1] - 2 * 2^x[2] + SiblingOffset(x[2])>>]
           B(f, x) == IF IndexHeight(x[1]) > x[2] THEN I[x] \o f[<<x[1] + 1, x[2] + 1>>] ELSE << >>
<1>1. ASSUME NEW x \in S PROVE I[x] \in Seq(Int)
  <2>1. PICK j \in Nat, h \in Nat : x = <<j, h>>
    OBVIOUS
  <2>2. j - 2 * 2^h \in Int /\ j - 2 * 2^h + SiblingOffset(h) \in Int
    <3>1. 2^h \in Nat
      BY PowType
    <3> QED BY <3>1 DEF SiblingOffset
  <2>3. \A a, b \in Int : <<a>> \in Seq(Int) /\ <<a, b>> \in Seq(Int)
    OBVIOUS
  <2>4. I[x] = <<j - 2 * 2^h, j - 2 * 2^h + SiblingOffset(h)>>
    BY <2>1
  <2> HIDE DEF I
  <2> QED BY <2>2, <2>3, <2>4
<1>2. PICK F : F = [x \in S |-> B(F, x)]
  <2>1. \A x \in S : I[x] \in Seq(Int)
    BY <1>1
  <2>2. PICK item : item = I
    OBVIOUS
  <2>3. \A x \in Nat \X Nat : item[x] \in Seq(Int)
    <3> HIDE DEF I
    <3> QED BY <2>1, <2>2
  <2>4. \E F : F = [x \in Nat \X Nat |->
                   IF IndexHeight(x[1]) > x[2] THEN item[x] \o F[<<x[1] + 1, x[2] + 1>>]
                   ELSE << >>]
    BY <2>3, ClimbLoop
  <2> HIDE DEF I
  <2> QED BY <2>2, <2>4
<1>3. \A f, x : x \in S => B(f, x) =
         IF IndexHeight(x[1]) > x[2] THEN <<x[1] - 2 * 2^x[2], x[1] - 2 * 2^x[2] + SiblingOffset(x[2])>> \o f[<<x[1] + 1, x[2] + 1>>]
         ELSE << >>
  OBVIOUS
<1> HIDE DEF B
<1>4. F = [x \in S |-> IF IndexHeight(x[1]) > x[2]
                      THEN <<x[1] - 2 * 2^x[2], x[1] - 2 * 2^x[2] + SiblingOffset(x[2])>> \o F[<<x[1] + 1, x[2] + 1>>]
                      ELSE << >>]
  <2>1. \A x \in S : B(F, x) =
          IF IndexHeight(x[1]) > x[2] THEN <<x[1] - 2 * 2^x[2], x[1] - 2 * 2^x[2] + SiblingOffset(x[2])>> \o F[<<x[1] + 1, x[2] + 1>>]
          ELSE << >>
    BY <1>3
  <2> QED BY <1>2, <2>1
<1>5. bothOf = [x \in S |-> IF IndexHeight(x[1]) > x[2]
                         THEN <<x[1] - 2 * 2^x[2], x[1] - 2 * 2^x[2] + SiblingOffset(x[2])>> \o bothOf[<<x[1] + 1, x[2] + 1>>]
                         ELSE << >>]
  BY <1>4 DEF bothOf
<1> QED BY <1>5

(* L has the nodes to the left of the n rounds of a climb from i at the    *)
(* height g, and B those on both sides of each.                            *)
BothSides(L, B, i, g, n) ==
  /\ L \in Seq(Int) /\ B \in Seq(Int) /\ Len(L) = n /\ Len(B) = 2 * n
  /\ n # 0 => L[1] = i - 2 * 2^g
  /\ \A m \in 1 .. n : B[2 * m - 1] = L[m] /\ B[2 * m] = i + m - 2

(* Two items in front of a sequence                                        *)
BeginsWithTwo(Q, x, y, W) ==
  /\ Q \in Seq(Int) /\ Len(Q) = Len(W) + 2 /\ Q[1] = x /\ Q[2] = y
  /\ \A m \in 1 .. Len(W) : Q[m + 2] = W[m]

LEMMA ConsTwo ==
  ASSUME NEW x \in Int, NEW y \in Int, NEW W \in Seq(Int)
  PROVE  BeginsWithTwo(<<x, y>> \o W, x, y, W)
BY DEF BeginsWithTwo

(* A round more                                                            *)
LEMMA BothSidesCons ==
  ASSUME NEW i \in Nat, NEW g \in Nat, NEW n \in Nat, IndexHeight(i) > g,
         BothSides(leftOf[<<i + 1, g + 1>>], bothOf[<<i + 1, g + 1>>], i + 1, g + 1, n)
  PROVE  BothSides(leftOf[<<i, g>>], bothOf[<<i, g>>], i, g, n + 1)
<1> DEFINE a == i - 2 * 2^g
<1>1. PICK L, B : L = leftOf[<<i + 1, g + 1>>] /\ B = bothOf[<<i + 1, g + 1>>]
  OBVIOUS
<1>2. /\ L \in Seq(Int) /\ B \in Seq(Int) /\ Len(L) = n /\ Len(B) = 2 * n
      /\ \A m \in 1 .. n : B[2 * m - 1] = L[m] /\ B[2 * m] = i + 1 + m - 2
  BY <1>1 DEF BothSides
<1>3. a \in Int /\ a + SiblingOffset(g) = i - 1
  <2>1. 2^g \in Nat
    BY PowType
  <2> QED BY <2>1 DEF SiblingOffset
<1>4. leftOf[<<i, g>>] = <<a>> \o L /\ bothOf[<<i, g>>] = <<a, i - 1>> \o B
  <2>1. leftOf[<<i, g>>] = <<a>> \o leftOf[<<i + 1, g + 1>>]
    BY LeftOfDef
  <2>2. bothOf[<<i, g>>] = <<a, a + SiblingOffset(g)>> \o bothOf[<<i + 1, g + 1>>]
    BY BothOfDef
  <2> HIDE DEF a
  <2> QED BY <1>1, <1>3, <2>1, <2>2
<1> HIDE DEF a
<1>5. PICK P, Q : P = <<a>> \o L /\ Q = <<a, i - 1>> \o B
  OBVIOUS
<1>6. /\ P \in Seq(Int) /\ Len(P) = n + 1 /\ P[1] = a
      /\ \A m \in 1 .. n : P[m + 1] = L[m]
  <2>1. \A x \in Int : \A W \in Seq(Int) :
          /\ <<x>> \o W \in Seq(Int) /\ Len(<<x>> \o W) = Len(W) + 1 /\ (<<x>> \o W)[1] = x
          /\ \A m \in 1 .. Len(W) : (<<x>> \o W)[m + 1] = W[m]
    OBVIOUS
  <2>2. /\ <<a>> \o L \in Seq(Int) /\ Len(<<a>> \o L) = Len(L) + 1 /\ (<<a>> \o L)[1] = a
        /\ \A m \in 1 .. Len(L) : (<<a>> \o L)[m + 1] = L[m]
    BY <2>1, <1>2, <1>3
  <2> QED BY <2>2, <1>2, <1>5
<1>7. /\ Q \in Seq(Int) /\ Len(Q) = 2 * n + 2 /\ Q[1] = a /\ Q[2] = i - 1
      /\ \A m \in 1 .. 2 * n : Q[m + 2] = B[m]
  <2>2. PICK e \in Int : e = i - 1
    OBVIOUS
  <2>3. Q = <<a, e>> \o B
    BY <1>5, <2>2
  <2>4. B \in Seq(Int) /\ a \in Int /\ Len(B) = 2 * n
    BY <1>2, <1>3
  <2>5. BeginsWithTwo(Q, a, e, B)
    BY <2>2, <2>3, <2>4, ConsTwo
  <2> QED BY <2>2, <2>4, <2>5 DEF BeginsWithTwo
<1>8. ASSUME NEW m \in 1 .. n + 1
      PROVE  Q[2 * m - 1] = P[m] /\ Q[2 * m] = i + m - 2
  <2>1. CASE m = 1
    BY <1>6, <1>7, <2>1
  <2>2. CASE m # 1
    <3>1. PICK d \in 1 .. n : m = d + 1
      <4>1. m - 1 \in 1 .. n /\ m = (m - 1) + 1
        BY <2>2
      <4> QED BY <4>1
    <3>2. 2 * d - 1 \in 1 .. 2 * n /\ 2 * d \in 1 .. 2 * n
          /\ 2 * m - 1 = (2 * d - 1) + 2 /\ 2 * m = 2 * d + 2
      BY <3>1
    <3>3. Q[2 * m - 1] = B[2 * d - 1] /\ Q[2 * m] = B[2 * d]
      BY <1>7, <3>2
    <3>4. P[m] = L[d] /\ B[2 * d - 1] = L[d] /\ B[2 * d] = i + 1 + d - 2
      BY <1>2, <1>6, <3>1
    <3> QED BY <3>1, <3>3, <3>4
  <2> QED BY <2>1, <2>2
<1>9. BothSides(P, Q, i, g, n + 1)
  <2>1. 2 * (n + 1) = 2 * n + 2
    OBVIOUS
  <2> QED BY <1>6, <1>7, <1>8, <2>1 DEF BothSides, a
<1> QED BY <1>4, <1>5, <1>9

(* A climb ends below the node over the last run that begins where the     *)
(* leaves counted by an odd number of runs end.                            *)
LEMMA BothSidesAre ==
  ASSUME NEW r \in Nat
  PROVE  \A g, k, j \in Nat : k + 1 = (2 * j + 1) * 2^r =>
           BothSides(leftOf[<<NodePos(g + 1, k) - 1, g>>], bothOf[<<NodePos(g + 1, k) - 1, g>>],
                     NodePos(g + 1, k) - 1, g, r + 1)
<1> DEFINE Sides(i, g, n) == BothSides(leftOf[<<i, g>>], bothOf[<<i, g>>], i, g, n)
           S == {s \in Nat : \A g, k, j \in Nat : k + 1 = (2 * j + 1) * 2^s =>
                   Sides(NodePos(g + 1, k) - 1, g, s + 1)}
<1>1. ASSUME NEW g \in Nat, NEW k \in Nat
      PROVE  \E i \in Nat : i = NodePos(g + 1, k) - 1 /\ i + 1 = NodePos(g + 1, k) /\ IndexHeight(i) > g
  <2>1. g + 1 \in Nat
    OBVIOUS
  <2>2. NodePos(g + 1, k) \in Nat /\ NodePos(g + 1, k) > 0
    BY <2>1, NodePosBounds
  <2>3. NodePos(g + 1, k) - 1 \in Nat /\ NodePos(g + 1, k) - 1 + 1 = NodePos(g + 1, k)
    BY <2>2
  <2>4. PosHeight(NodePos(g + 1, k)) = g + 1
    BY <2>1, HeightOfNode
  <2> QED BY <2>3, <2>4 DEF IndexHeight
<1>2. 0 \in S
  <2> SUFFICES ASSUME NEW g \in Nat, NEW k \in Nat, NEW j \in Nat, k + 1 = (2 * j + 1) * 2^0
               PROVE  Sides(NodePos(g + 1, k) - 1, g, 0 + 1)
    OBVIOUS
  <2>1. k = 2 * j
    <3>1. (2 * j + 1) * 2^0 = 2 * j + 1
      BY PowZero
    <3> QED BY <3>1
  <2>2. PICK i \in Nat : i = NodePos(g + 1, k) - 1 /\ i + 1 = NodePos(g + 1, k) /\ IndexHeight(i) > g
    BY <1>1
  <2>3. IndexHeight(i + 1) = 0
    <3>1. g + 1 \in Nat
      OBVIOUS
    <3>2. PosHeight(NodePos(g + 1, 2 * j) + 1) = 0
      BY <3>1, HeightAfter
    <3> QED BY <2>1, <2>2, <3>2 DEF IndexHeight
  <2>4. leftOf[<<i + 1, g + 1>>] = << >> /\ bothOf[<<i + 1, g + 1>>] = << >>
    <3>1. i + 1 \in Nat /\ g + 1 \in Nat /\ ~ (IndexHeight(i + 1) > g + 1)
      BY <2>3
    <3> QED BY <3>1, LeftOfDef, BothOfDef
  <2>5. BothSides(<< >>, << >>, i + 1, g + 1, 0)
    <3>1. << >> \in Seq(Int) /\ Len(<< >>) = 0
      OBVIOUS
    <3> QED BY <3>1 DEF BothSides
  <2>6. BothSides(leftOf[<<i, g>>], bothOf[<<i, g>>], i, g, 0 + 1)
    <3>1. 0 \in Nat
      OBVIOUS
    <3> QED BY <2>2, <2>4, <2>5, <3>1, BothSidesCons
  <2> QED BY <2>2, <2>6
<1>3. ASSUME NEW s \in 1 .. r, s - 1 \in S PROVE s \in S
  <2>1. PICK d \in Nat : s = d + 1 /\ d \in S
    <3>1. s - 1 \in Nat /\ s = (s - 1) + 1
      OBVIOUS
    <3> QED BY <3>1, <1>3
  <2>2. ASSUME NEW g \in Nat, NEW k \in Nat, NEW j \in Nat, k + 1 = (2 * j + 1) * 2^s
        PROVE  Sides(NodePos(g + 1, k) - 1, g, s + 1)
    <3>1. PICK y \in Nat : y = (2 * j + 1) * 2^d /\ k + 1 = 2 * y /\ y # 0
      <4>1. 2^s = 2 * 2^d /\ 2^d \in Nat /\ 2^d > 0
        BY <2>1, PowStep, PowType
      <4>2. ASSUME NEW x \in Nat, x > 0
            PROVE  (2 * j + 1) * x \in Nat /\ (2 * j + 1) * (2 * x) = 2 * ((2 * j + 1) * x)
        OBVIOUS
      <4>3. (2 * j + 1) * 2^d \in Nat /\ k + 1 = 2 * ((2 * j + 1) * 2^d)
        BY <2>2, <4>1, <4>2
      <4> QED BY <4>3
    <3>2. PICK l \in Nat : y = l + 1 /\ k = 2 * l + 1
      <4>1. y - 1 \in Nat /\ y = (y - 1) + 1 /\ k = 2 * (y - 1) + 1
        BY <3>1
      <4> QED BY <4>1
    <3>3. PICK i \in Nat : i = NodePos(g + 1, k) - 1 /\ i + 1 = NodePos(g + 1, k) /\ IndexHeight(i) > g
      BY <1>1
    <3>4. NodePos(g + 1 + 1, l) - 1 = i + 1 /\ g + 1 \in Nat
      <4>1. g + 1 \in Nat
        OBVIOUS
      <4>2. NodePos(g + 1 + 1, l) = NodePos(g + 1, 2 * l + 1) + 1
        BY <4>1, ParentPos
      <4> QED BY <3>2, <3>3, <4>2
    <3>5. Sides(NodePos(g + 1 + 1, l) - 1, g + 1, d + 1)
      <4>1. l + 1 = (2 * j + 1) * 2^d
        BY <3>1, <3>2
      <4> HIDE DEF Sides
      <4> QED BY <2>1, <3>4, <4>1
    <3>6. BothSides(leftOf[<<i + 1, g + 1>>], bothOf[<<i + 1, g + 1>>], i + 1, g + 1, d + 1)
      BY <3>4, <3>5
    <3>7. BothSides(leftOf[<<i, g>>], bothOf[<<i, g>>], i, g, d + 1 + 1)
      <4>1. d + 1 \in Nat
        OBVIOUS
      <4> QED BY <3>3, <3>6, <4>1, BothSidesCons
    <3> QED BY <2>1, <3>3, <3>7
  <2> HIDE DEF Sides
  <2> QED BY <2>1, <2>2
<1>4. r \in S
  <2> HIDE DEF S
  <2>1. \A c \in 0 .. r : c \in S
    BY <1>2, <1>3, UpTo
  <2> QED BY <2>1
<1> QED BY <1>4

(* The climb from an interior node, by both functions of the package       *)
LEMMA ClimbFrom ==
  ASSUME NEW g \in Nat, NEW k \in Nat, NEW r \in Nat, NEW j \in Nat,
         k + 1 = (2 * j + 1) * 2^r
  PROVE  BothSides(LeftAncestors(NodePos(g + 1, k) - 1), Ancestors(NodePos(g + 1, k) - 1),
                   NodePos(g + 1, k) - 1, g, r + 1)
<1>1. NodePos(g + 1, k) \in Nat /\ NodePos(g + 1, k) - 1 + 1 = NodePos(g + 1, k) /\ g + 1 \in Nat
  <2>1. g + 1 \in Nat
    OBVIOUS
  <2>2. NodePos(g + 1, k) \in Nat
    BY <2>1, NodePosBounds
  <2> QED BY <2>1, <2>2
<1>2. IndexHeight(NodePos(g + 1, k) - 1) = g + 1
  BY <1>1, HeightOfNode DEF IndexHeight
<1>3. ~ (g + 1 < 1) /\ g + 1 - 1 = g
  OBVIOUS
<1>4. /\ LeftAncestors(NodePos(g + 1, k) - 1) = leftOf[<<NodePos(g + 1, k) - 1, g>>]
      /\ Ancestors(NodePos(g + 1, k) - 1) = bothOf[<<NodePos(g + 1, k) - 1, g>>]
  BY <1>2, <1>3 DEF LeftAncestors, Ancestors
<1> QED BY <1>4, BothSidesAre

(* Where the children of node i, over the k-th run of 2^(g + 1) leaves,    *)
(* are, and the nodes on both sides of the climb from it                   *)
LeadsFrom(i, left, g, k) ==
  /\ LeftChild(i + 1) = left + 1
  /\ JumpRightSibling(left + 1) = NodePos(g, 2 * k + 1)
  /\ i = left + ParentOffset(g)
  /\ i \in Nat /\ left \in Nat
  /\ LeftAncestors(i)[1] = left
  /\ Len(LeftAncestors(i)) = SpurHeightLeaf((k + 1) * 2^(g + 1) - 1) - g
  /\ \A m \in DOMAIN LeftAncestors(i) :
       /\ Ancestors(i)[2 * m - 1] = LeftAncestors(i)[m]
       /\ Ancestors(i)[2 * m] = i + m - 2

(* The node over the k-th run of 2^(g+1) leaves, its children and its climb *)
LEMMA NavigationOf ==
  ASSUME NEW g \in Nat, NEW k \in Nat,
         NEW i, i = NodePos(g + 1, k) - 1, NEW left, left = NodePos(g, 2 * k) - 1
  PROVE  LeadsFrom(i, left, g, k)
<1>1. /\ NodePos(g + 1, k) = NodePos(g, 2 * k + 1) + 1
      /\ NodePos(g, 2 * k) = NodePos(g, 2 * k + 1) - (2 * 2^g - 1)
  BY ParentPos
<1>2. PICK p, q, y \in Nat : /\ p = NodePos(g, 2 * k) /\ q = NodePos(g, 2 * k + 1) /\ p > 0
                             /\ y = 2^g /\ 2^(g + 1) = 2 * y /\ y > 0
  <2>1. 2 * k \in Nat /\ 2 * k + 1 \in Nat
    OBVIOUS
  <2>2. NodePos(g, 2 * k) \in Nat /\ NodePos(g, 2 * k) > 0 /\ NodePos(g, 2 * k + 1) \in Nat
    BY <2>1, NodePosBounds
  <2> QED BY <2>2, PowType, PowStep
<1>3. p = q - (2 * y - 1) /\ i = q /\ left = p - 1 /\ i \in Nat /\ left \in Nat
      /\ i + 1 = NodePos(g + 1, k) /\ left + 1 = NodePos(g, 2 * k)
  BY <1>1, <1>2
<1>4. PosHeight(i + 1) = g + 1 /\ PosHeight(left + 1) = g /\ g + 1 \in Nat
  <2>1. 2 * k \in Nat /\ g + 1 \in Nat
    OBVIOUS
  <2> QED BY <2>1, <1>3, HeightOfNode
<1>5. LeftChild(i + 1) = left + 1
  <2>1. LeftChild(i + 1) = i + 1 - 2 * y
    BY <1>2, <1>4 DEF LeftChild
  <2> QED BY <1>3, <2>1
<1>6. JumpRightSibling(left + 1) = q
  <2>1. JumpRightSibling(left + 1) = left + 1 + 2 * y - 1
    BY <1>2, <1>4 DEF JumpRightSibling
  <2> QED BY <1>3, <2>1
<1>7. i = left + ParentOffset(g)
  BY <1>2, <1>3 DEF ParentOffset
<1>8. PICK r \in Nat, j \in Nat : k + 1 = (2 * j + 1) * 2^r
  <2>1. k + 1 \in Nat /\ k + 1 # 0
    OBVIOUS
  <2> QED BY <2>1, OddRuns
<1>9. BothSides(LeftAncestors(i), Ancestors(i), i, g, r + 1)
  BY <1>3, <1>8, ClimbFrom
<1>10. SpurHeightLeaf((k + 1) * 2^(g + 1) - 1) = r + (g + 1)
  <2>1. (k + 1) * 2^(g + 1) = (2 * j + 1) * 2^(r + (g + 1))
    <3>1. 2^(r + (g + 1)) = 2^r * 2^(g + 1)
      BY <1>4, PowAdd
    <3>2. \A a, b \in Nat : (2 * j + 1) * a * b = (2 * j + 1) * (a * b)
      OBVIOUS
    <3>3. 2^r \in Nat /\ 2^(g + 1) \in Nat
      BY <1>4, PowType
    <3> QED BY <1>8, <3>1, <3>2, <3>3
  <2>2. r + (g + 1) \in Nat
    OBVIOUS
  <2> QED BY <2>1, <2>2, PeaksLeft
<1>11. /\ LeftAncestors(i)[1] = i - 2 * y
       /\ LeftAncestors(i) \in Seq(Int) /\ Len(LeftAncestors(i)) = r + 1
       /\ \A m \in 1 .. r + 1 : /\ Ancestors(i)[2 * m - 1] = LeftAncestors(i)[m]
                                /\ Ancestors(i)[2 * m] = i + m - 2
  BY <1>2, <1>9 DEF BothSides
<1>12. LeftAncestors(i)[1] = left
  <2>1. i - 2 * y = left
    BY <1>3
  <2> QED BY <1>11, <2>1
<1>13. DOMAIN LeftAncestors(i) = 1 .. r + 1
  BY <1>11
<1>14. Len(LeftAncestors(i)) = SpurHeightLeaf((k + 1) * 2^(g + 1) - 1) - g
  <2>1. r + 1 = r + (g + 1) - g
    OBVIOUS
  <2>2. Len(LeftAncestors(i)) = r + (g + 1) - g
    BY <1>11, <2>1
  <2> QED BY <1>10, <2>2
<1> QED BY <1>2, <1>3, <1>5, <1>6, <1>7, <1>11, <1>12, <1>13, <1>14 DEF LeadsFrom

-----------------------------------------------------------------------------
(* The list of the peaks, and the other functions that look for them       *)

(* There are as many items before an item of an ascending list as its place says. *)
LEMMA SmallerItems ==
  ASSUME NEW q \in Seq(Nat), \A i, j \in 1 .. Len(q) : i < j => q[i] < q[j],
         NEW n \in 0 .. Len(q)
  PROVE  Cardinality({q[i] : i \in 1 .. n}) = n
<1> DEFINE S == 1 .. n
           T == {q[i] : i \in S}
           f == [i \in S |-> q[i]]
<1>1. n \in Nat /\ \A i \in S : i \in 1 .. Len(q) /\ i \in Nat
  OBVIOUS
<1>2. f \in [S -> T] /\ \A i \in S : f[i] = q[i]
  OBVIOUS
<1>3. \A a, b \in S : f[a] = f[b] => a = b
  <2>1. \A a, b \in S : a < b => q[a] < q[b]
    BY <1>1
  <2>2. \A a \in S : q[a] \in Nat
    BY <1>1
  <2>3. \A a, b \in S : q[a] = q[b] => ~ (a < b) /\ ~ (b < a)
    BY <2>1, <2>2
  <2>4. \A a \in S : a \in Nat /\ f[a] = q[a]
    BY <1>1, <1>2
  <2>5. \A a, b \in Nat : ~ (a < b) /\ ~ (b < a) => a = b
    OBVIOUS
  <2> HIDE DEF S, f
  <2> SUFFICES ASSUME NEW a \in S, NEW b \in S, f[a] = f[b] PROVE a = b
    OBVIOUS
  <2>6. q[a] = q[b]
    BY <2>4
  <2> QED BY <2>3, <2>4, <2>5, <2>6
<1>4. \A b \in T : \E i \in S : f[i] = b
  BY <1>2
<1>5. ExistsBijection(S, T)
  <2> HIDE DEF S, T, f
  <2>1. f \in Bijection(S, T)
    BY <1>2, <1>3, <1>4, Fun_IsBij
  <2> QED BY <2>1 DEF ExistsBijection
<1>6. IsFiniteSet(S) /\ Cardinality(S) = n
  <2>1. 1 \in Int /\ n \in Int /\ (1 > n => n = 0) /\ n - 1 + 1 = n
    OBVIOUS
  <2>2. IsFiniteSet(1 .. n) /\ Cardinality(1 .. n) = IF 1 > n THEN 0 ELSE n - 1 + 1
    BY <2>1, FS_Interval
  <2> QED BY <2>1, <2>2
<1> HIDE DEF S, T
<1>7. Cardinality(T) = n
  BY <1>5, <1>6, FS_Bijection
<1> QED BY <1>7 DEF S, T

(* An ascending list is its items in ascending order. *)
LEMMA AscendingIs ==
  ASSUME NEW q \in Seq(Nat), \A i, j \in 1 .. Len(q) : i < j => q[i] < q[j],
         NEW S, S = {q[i] : i \in 1 .. Len(q)}
  PROVE  Ascending(S) = q
<1>1. Len(q) \in Nat /\ \A i \in 1 .. Len(q) : i \in Nat /\ q[i] \in Nat
  OBVIOUS
<1>2. Cardinality(S) = Len(q)
  <2>1. Len(q) \in 0 .. Len(q)
    BY <1>1
  <2> QED BY <2>1, SmallerItems
<1>3. ASSUME NEW j \in 1 .. Len(q)
      PROVE  Cardinality({y \in S : y < q[j]}) = j - 1
  <2>1. {y \in S : y < q[j]} = {q[i] : i \in 1 .. j - 1}
    <3>1. ASSUME NEW i \in 1 .. Len(q) PROVE q[i] < q[j] <=> i \in 1 .. j - 1
      <4>1. i < j => q[i] < q[j]
        OBVIOUS
      <4>2. j < i => q[j] < q[i]
        OBVIOUS
      <4> QED BY <1>1, <4>1, <4>2
    <3>2. \A i \in 1 .. j - 1 : i \in 1 .. Len(q)
      BY <1>1
    <3> QED BY <3>1, <3>2
  <2>2. j - 1 \in 0 .. Len(q)
    BY <1>1
  <2> QED BY <2>1, <2>2, SmallerItems
<1>4. ASSUME NEW j \in 1 .. Len(q)
      PROVE  (CHOOSE x \in S : Cardinality({y \in S : y < x}) = j - 1) = q[j]
  <2> DEFINE Place(x) == Cardinality({y \in S : y < x})
  <2>1. q[j] \in S /\ Place(q[j]) = j - 1
    BY <1>3
  <2>2. ASSUME NEW x \in S, Place(x) = j - 1 PROVE x = q[j]
    <3>1. PICK i \in 1 .. Len(q) : x = q[i]
      OBVIOUS
    <3>2. Place(x) = i - 1
      BY <1>3, <3>1
    <3>3. i = j
      <4> HIDE DEF Place
      <4>1. i - 1 = j - 1
        BY <2>2, <3>2
      <4> QED BY <1>1, <4>1
    <3> QED BY <3>1, <3>3
  <2> HIDE DEF Place
  <2>3. (CHOOSE x \in S : Place(x) = j - 1) = q[j]
    BY <2>1, <2>2
  <2> QED BY <2>3 DEF Place
<1>5. Ascending(S) = [j \in 1 .. Len(q) |-> CHOOSE x \in S : Cardinality({y \in S : y < x}) = j - 1]
  BY <1>2 DEF Ascending
<1>6. Ascending(S) = [j \in 1 .. Len(q) |-> q[j]]
  BY <1>4, <1>5
<1> QED BY <1>6

(* Peaks lists the nodes of the range that have no parent, in their order. *)
LEMMA PeaksAscend ==
  ASSUME NEW n \in Nat, n # 0, NEW index,
         \A h, k \in Nat : (k + 1) * 2^h <= n => index[<<h, k>>] = NodePos(h, k) - 1
  PROVE  Peaks(MMRIndex(n) - 1) = Ascending({index[m] : m \in PeakNodes(n)})
<1> DEFINE q == Peaks(MMRIndex(n) - 1)
           S == {index[m] : m \in PeakNodes(n)}
<1>1. ListsPeaks(q, 0, n) /\ Tiles(q, n)
  BY PeaksAre, PeaksTile
<1> HIDE DEF q
<1>2. q \in Seq(Nat) /\ \A i, j \in 1 .. Len(q) : i < j => q[i] < q[j]
  BY <1>1 DEF ListsPeaks
<1>3. ASSUME NEW h \in Nat, NEW k \in Nat
      PROVE  <<h, k>> \in PeakNodes(n) <=> PeakOver(n, h, k)
  <2>1. PICK j \in Nat : k = 2 * j \/ k = 2 * j + 1
    BY EvenOrOdd
  <2>2. Parent(<<h, k>>) = <<h + 1, j>> /\ h + 1 \in Nat
    <3>1. k \div 2 = j
      BY <2>1
    <3> QED BY <3>1 DEF Parent
  <2>3. <<h, k>> \in Nodes(n) <=> (k + 1) * 2^h <= n
    BY NodesIs
  <2>4. <<h + 1, j>> \in Nodes(n) <=> (j + 1) * 2^(h + 1) <= n
    BY <2>2, NodesIs
  <2>5. PICK y \in Nat : y = 2^h /\ y > 0 /\ 2^(h + 1) = 2 * y
    BY PowType, PowStep
  <2>6. (j + 1) * (2 * y) = (2 * j + 2) * y /\ (j + 1) * (2 * y) \in Nat
    BY <2>5
  <2>7. <<h, k>> \in PeakNodes(n) <=> (k + 1) * y <= n /\ ~ ((2 * j + 2) * y <= n)
    BY <2>2, <2>3, <2>4, <2>5, <2>6 DEF PeakNodes
  <2>8. CASE k = 2 * j
    <3>1. PeakOver(n, h, k) <=> (k + 1) * y <= n /\ n < (k + 2) * y
      BY <2>5, <2>8 DEF PeakOver
    <3>2. (2 * j + 2) * y = (k + 2) * y /\ (k + 2) * y \in Nat
      BY <2>8
    <3> QED BY <2>7, <3>1, <3>2
  <2>9. CASE k = 2 * j + 1
    <3>1. \A i \in Nat : k # 2 * i
      BY <2>9
    <3>2. (2 * j + 2) * y = (k + 1) * y
      BY <2>9
    <3> QED BY <2>7, <3>1, <3>2 DEF PeakOver
  <2> QED BY <2>1, <2>8, <2>9
<1>4. PeakNodes(n) \subseteq Nat \X Nat
  BY NodesIs DEF PeakNodes
<1>5. ASSUME NEW h \in Nat, NEW k \in Nat, PeakOver(n, h, k)
      PROVE  index[<<h, k>>] = NodePos(h, k) - 1
  BY <1>5 DEF PeakOver
<1>6. ASSUME NEW h \in Nat, NEW k \in Nat, PeakOver(n, h, k)
      PROVE  \E j \in 1 .. Len(q) : q[j] = NodePos(h, k) - 1
  <2>1. k * 2^h \in Nat /\ InRun(k * 2^h, h, k) /\ k * 2^h < (k + 1) * 2^h /\ (k + 1) * 2^h \in Nat
    BY RunEnds
  <2>2. k * 2^h < n
    BY <1>6, <2>1 DEF PeakOver
  <2>3. PICK j \in 1 .. Len(q), g \in Nat, l \in Nat : PeakAt(q, n, j, g, l) /\ InRun(k * 2^h, g, l)
    BY <1>1, <2>1, <2>2 DEF Tiles
  <2>4. h = g /\ k = l
    BY <1>6, <2>1, <2>3, OnePeak DEF PeakAt
  <2> QED BY <2>3, <2>4 DEF PeakAt
<1>7. ASSUME NEW j \in 1 .. Len(q)
      PROVE  \E h, k \in Nat : PeakOver(n, h, k) /\ q[j] = NodePos(h, k) - 1
  BY <1>1 DEF Tiles, PeakAt
<1>8. S = {q[i] : i \in 1 .. Len(q)}
  <2>1. ASSUME NEW x \in S PROVE \E i \in 1 .. Len(q) : x = q[i]
    <3>1. PICK m \in PeakNodes(n) : x = index[m]
      OBVIOUS
    <3>2. PICK h \in Nat, k \in Nat : m = <<h, k>>
      BY <1>4
    <3>3. PeakOver(n, h, k)
      BY <1>3, <3>2
    <3> QED BY <1>5, <1>6, <3>1, <3>2, <3>3
  <2>2. ASSUME NEW i \in 1 .. Len(q) PROVE q[i] \in S
    <3>1. PICK h \in Nat, k \in Nat : PeakOver(n, h, k) /\ q[i] = NodePos(h, k) - 1
      BY <1>7
    <3>2. <<h, k>> \in PeakNodes(n) /\ q[i] = index[<<h, k>>]
      BY <1>3, <1>5, <3>1
    <3> QED BY <3>2
  <2> HIDE DEF S
  <2> QED BY <2>1, <2>2
<1> HIDE DEF S
<1>9. Ascending(S) = q
  BY <1>2, <1>8, AscendingIs
<1> QED BY <1>9 DEF S, q

-----------------------------------------------------------------------------
(* peaksold.go: the peaks by jumps to the right                            *)

(* The left child of a node is before it, and there is none at a leaf.     *)
LEMMA LeftChildIs ==
  ASSUME NEW g \in Nat, NEW l \in Nat
  PROVE  /\ LeftChild(NodePos(0, l)) = 0
         /\ LeftChild(NodePos(g + 1, l)) = NodePos(g, 2 * l)
         /\ NodePos(g, 2 * l) < NodePos(g + 1, l)
<1>1. PosHeight(NodePos(0, l)) = 0 /\ PosHeight(NodePos(g + 1, l)) = g + 1
  <2>1. 0 \in Nat /\ g + 1 \in Nat
    OBVIOUS
  <2> QED BY <2>1, HeightOfNode
<1>2. LeftChild(NodePos(0, l)) = 0
  BY <1>1 DEF LeftChild
<1>3. PICK y \in Nat : y = 2^g /\ 2^(g + 1) = 2 * y /\ y > 0
  BY PowType, PowStep
<1>4. LeftChild(NodePos(g + 1, l)) = NodePos(g + 1, l) - 2 * y
  <2>1. g + 1 # 0
    OBVIOUS
  <2> QED BY <1>1, <1>3, <2>1 DEF LeftChild
<1>5. /\ NodePos(g + 1, l) = NodePos(g, 2 * l + 1) + 1
      /\ NodePos(g, 2 * l) = NodePos(g, 2 * l + 1) - (2 * y - 1)
  BY <1>3, ParentPos
<1>6. NodePos(g, 2 * l + 1) \in Nat
  <2>1. 2 * l + 1 \in Nat
    OBVIOUS
  <2> QED BY <2>1, NodePosBounds
<1>7. PICK z \in Nat : z = NodePos(g, 2 * l + 1)
  BY <1>6
<1>8. NodePos(g + 1, l) = z + 1 /\ NodePos(g, 2 * l) = z - (2 * y - 1)
  BY <1>5, <1>7
<1>9. NodePos(g + 1, l) - 2 * y = NodePos(g, 2 * l) /\ NodePos(g, 2 * l) < NodePos(g + 1, l)
  BY <1>3, <1>7, <1>8
<1> QED BY <1>2, <1>4, <1>9

(* And so with any position.                                               *)
LEMMA LeftChildBelow ==
  ASSUME NEW pos \in Nat, pos # 0
  PROVE  LeftChild(pos) \in Nat /\ LeftChild(pos) < pos
<1>1. PICK h \in Nat, k \in Nat : pos = NodePos(h, k)
  BY EveryPosition
<1>2. CASE h = 0
  <2>1. LeftChild(pos) = 0
    BY <1>1, <1>2, LeftChildIs
  <2> QED BY <2>1
<1>3. CASE h # 0
  <2>1. PICK g \in Nat : h = g + 1
    <3>1. h - 1 \in Nat /\ h = (h - 1) + 1
      BY <1>3
    <3> QED BY <3>1
  <2>2. LeftChild(pos) = NodePos(g, 2 * k) /\ NodePos(g, 2 * k) < pos
    BY <1>1, <2>1, LeftChildIs
  <2>3. NodePos(g, 2 * k) \in Nat
    <3>1. 2 * k \in Nat
      OBVIOUS
    <3> QED BY <3>1, NodePosBounds
  <2> QED BY <2>2, <2>3
<1> QED BY <1>2, <1>3

(* The inner loop of PeaksOld, a round unfolded                            *)
LEMMA DownToDef ==
  ASSUME NEW pos \in Nat, NEW size \in Nat
  PROVE  /\ downTo[<<pos, size>>] \in Nat /\ downTo[<<pos, size>>] <= size
         /\ downTo[<<pos, size>>] =
              IF pos <= size THEN pos
              ELSE IF LeftChild(pos) = 0 THEN 0 ELSE downTo[<<LeftChild(pos), size>>]
<1> DEFINE S == Nat \X Nat
           next(x) == <<LeftChild(x[1]), x[2]>>
           B(f, x) == IF x[1] <= x[2] THEN x[1]
                      ELSE IF LeftChild(x[1]) = 0 THEN 0 ELSE f[next(x)]
           D == [p \in [S -> Nat] \X S |-> B(p[1], p[2])]
           m == [x \in S |-> x[1]]
<1>1. ASSUME NEW x \in S, ~ (x[1] <= x[2])
      PROVE  next(x) \in S /\ m[next(x)] < m[x]
  <2>1. PICK p \in Nat, s \in Nat : x = <<p, s>>
    OBVIOUS
  <2>2. x[1] = p /\ x[2] = s /\ m[x] = p /\ next(x) = <<LeftChild(p), s>>
    BY <2>1
  <2>3. p # 0
    BY <1>1, <2>2
  <2>4. LeftChild(p) \in Nat /\ LeftChild(p) < p
    BY <2>3, LeftChildBelow
  <2>5. next(x) \in S /\ m[next(x)] = LeftChild(p)
    BY <2>2, <2>4
  <2> HIDE DEF m, next, S
  <2> QED BY <2>2, <2>4, <2>5
<1> HIDE DEF next
<1>2. \A f \in [S -> Nat], x \in S : B(f, x) \in Nat /\ D[<<f, x>>] = B(f, x)
  <2>1. ASSUME NEW f \in [S -> Nat], NEW x \in S PROVE B(f, x) \in Nat
    <3>1. ~ (x[1] <= x[2]) => f[next(x)] \in Nat
      <4> HIDE DEF S
      <4> QED BY <1>1
    <3>2. x[1] \in Nat
      OBVIOUS
    <3> QED BY <3>1, <3>2
  <2> HIDE DEF B, S
  <2> QED BY <2>1
<1>3. D \in [[S -> Nat] \X S -> Nat]
  <2> HIDE DEF B, S
  <2> QED BY <1>2
<1>4. ASSUME NEW f \in [S -> Nat], NEW f2 \in [S -> Nat], NEW x \in S,
             \A y \in S : m[y] < m[x] => f[y] = f2[y]
      PROVE  D[<<f, x>>] = D[<<f2, x>>]
  <2>1. ~ (x[1] <= x[2]) => f[next(x)] = f2[next(x)]
    <3> HIDE DEF S, m
    <3> QED BY <1>1, <1>4
  <2>2. B(f, x) = B(f2, x)
    BY <2>1
  <2> HIDE DEF B, S
  <2> QED BY <1>2, <2>2
<1>5. \E f \in [S -> Nat] : \A x \in S : f[x] = D[<<f, x>>]
  <2>1. Nat # {} /\ m \in [S -> Nat]
    OBVIOUS
  <2> HIDE DEF D, S, m
  <2>2. LooksBelow(S, Nat, m, D)
    BY <2>1, <1>3, <1>4 DEF LooksBelow
  <2> QED BY <2>2, Recursion
<1>6. PICK F : F = [x \in S |-> B(F, x)]
  <2>1. PICK f \in [S -> Nat] : \A x \in S : f[x] = D[<<f, x>>]
    BY <1>5
  <2>2. \A x \in S : f[x] = B(f, x)
    <3> HIDE DEF B, D, S
    <3> QED BY <1>2, <2>1
  <2> HIDE DEF B, S
  <2> QED BY <2>2
<1>7. downTo = [x \in S |-> B(downTo, x)]
  BY <1>6 DEF downTo, next
<1>8. \A x \in S : downTo[x] = B(downTo, x)
  <2> HIDE DEF B
  <2> QED BY <1>7
<1>9. \A p, s \in Nat : downTo[<<p, s>>] =
        IF p <= s THEN p ELSE IF LeftChild(p) = 0 THEN 0 ELSE downTo[<<LeftChild(p), s>>]
  BY <1>8 DEF next
<1>10. downTo[<<pos, size>>] \in Nat /\ downTo[<<pos, size>>] <= size
  <2> DEFINE Good(p) == downTo[<<p, size>>] \in Nat /\ downTo[<<p, size>>] <= size
             T == {n \in Nat : \A p \in Nat : p <= n => Good(p)}
  <2>1. 0 \in T
    <3>1. ASSUME NEW p \in Nat, p <= 0 PROVE Good(p)
      <4>1. p <= size
        BY <3>1
      <4>2. downTo[<<p, size>>] = p
        BY <4>1, <1>9
      <4> QED BY <4>1, <4>2
    <3> QED BY <3>1
  <2>2. ASSUME NEW n \in 1 .. pos, n - 1 \in T PROVE n \in T
    <3>1. n \in Nat /\ n # 0 /\ n - 1 \in Nat
      OBVIOUS
    <3>2. ASSUME NEW p \in Nat, p <= n PROVE Good(p)
      <4>1. CASE p <= size
        <5>1. downTo[<<p, size>>] = p
          BY <4>1, <1>9
        <5> QED BY <4>1, <5>1
      <4>2. CASE ~ (p <= size) /\ LeftChild(p) = 0
        <5>1. downTo[<<p, size>>] = 0
          BY <4>2, <1>9
        <5> QED BY <5>1
      <4>3. CASE ~ (p <= size) /\ LeftChild(p) # 0
        <5>1. downTo[<<p, size>>] = downTo[<<LeftChild(p), size>>]
          BY <4>3, <1>9
        <5>2. LeftChild(p) \in Nat /\ LeftChild(p) <= n - 1
          <6>1. p # 0
            BY <4>3
          <6>2. LeftChild(p) \in Nat /\ LeftChild(p) < p
            BY <6>1, LeftChildBelow
          <6> QED BY <3>1, <3>2, <6>2
        <5>3. Good(LeftChild(p))
          <6> HIDE DEF Good
          <6> QED BY <2>2, <5>2
        <5> QED BY <5>1, <5>3
      <4> QED BY <4>1, <4>2, <4>3
    <3> HIDE DEF Good
    <3> QED BY <3>1, <3>2
  <2>3. pos \in T
    <3> HIDE DEF T
    <3>1. \A n \in 0 .. pos : n \in T
      BY <2>1, <2>2, UpTo
    <3> QED BY <3>1
  <2> HIDE DEF Good
  <2>4. Good(pos)
    BY <2>3
  <2> QED BY <2>4 DEF Good
<1> QED BY <1>9, <1>10

(* The outer loop of PeaksOld, a round unfolded                            *)
LEMMA JumpsRightDef ==
  ASSUME NEW peak \in Nat, NEW size \in Nat,
         NEW next, next = downTo[<<JumpRightSibling(peak), size>>]
  PROVE  jumpsRight[<<peak, size>>] =
           IF next <= peak THEN << >> ELSE <<next>> \o jumpsRight[<<next, size>>]
<1> DEFINE S == Nat \X Nat
           V == Seq(Nat)
           to(x) == downTo[<<JumpRightSibling(x[1]), x[2]>>]
           B(f, x) == IF to(x) <= x[1] THEN << >> ELSE <<to(x)>> \o f[<<to(x), x[2]>>]
           D == [p \in [S -> V] \X S |-> B(p[1], p[2])]
           m == [x \in S |-> IF x[1] <= x[2] THEN x[2] - x[1] ELSE 0]
<1>1. ASSUME NEW x \in S
      PROVE  /\ to(x) \in Nat /\ m[x] \in Nat /\ <<to(x), x[2]>> \in S
             /\ ~ (to(x) <= x[1]) => m[<<to(x), x[2]>>] < m[x]
  <2>1. PICK p \in Nat, s \in Nat : x = <<p, s>>
    OBVIOUS
  <2>2. x[1] = p /\ x[2] = s /\ m[x] = (IF p <= s THEN s - p ELSE 0) /\ m[x] \in Nat
    BY <2>1
  <2>3. JumpRightSibling(p) \in Nat
    <3>1. CASE p = 0
      <4>1. AllOnes(0) /\ BitLength(0) = 0
        <5>1. AllOnes(0) <=> \E k \in Nat : 0 = 2^k - 1
          <6>1. 0 \in Nat
            OBVIOUS
          <6> QED BY <6>1, AllOnesIs
        <5>2. 0 = 2^0 - 1
          BY PowZero
        <5>3. 0 \in Nat
          OBVIOUS
        <5> QED BY <5>1, <5>2, <5>3, BitLengthZero
      <4>2. PosHeight(0) = 0 - 1
        <5>1. 0 \in Nat
          OBVIOUS
        <5>2. PosHeight(0) = BitLength(0) - 1
          BY <4>1, <5>1, PosHeightDef
        <5> QED BY <4>1, <5>2
      <4>3. JumpRightSibling(0) = 0 + 2^0 - 1
        <5>1. 0 - 1 + 1 = 0
          OBVIOUS
        <5>2. JumpRightSibling(0) = 0 + 2^(0 - 1 + 1) - 1
          BY <4>2 DEF JumpRightSibling
        <5> QED BY <5>1, <5>2
      <4> QED BY <3>1, <4>3, PowZero
    <3>2. CASE p # 0
      <4>1. PICK h \in Nat, k \in Nat : p = NodePos(h, k)
        BY <3>2, EveryPosition
      <4>2. PosHeight(p) = h
        BY <4>1, HeightOfNode
      <4>3. PICK y \in Nat : y = 2^(h + 1) /\ y > 0
        <5>1. h + 1 \in Nat
          OBVIOUS
        <5> QED BY <5>1, PowType
      <4>4. JumpRightSibling(p) = p + y - 1
        BY <4>2, <4>3 DEF JumpRightSibling
      <4> QED BY <4>3, <4>4
    <3> QED BY <3>1, <3>2
  <2>4. to(x) = downTo[<<JumpRightSibling(p), s>>] /\ to(x) \in Nat /\ to(x) <= s
    <3>1. to(x) = downTo[<<JumpRightSibling(p), s>>]
      BY <2>2
    <3>2. PICK a : a = JumpRightSibling(p)
      OBVIOUS
    <3>3. downTo[<<a, s>>] \in Nat /\ downTo[<<a, s>>] <= s
      BY <2>3, <3>2, DownToDef
    <3> HIDE DEF to
    <3> QED BY <3>1, <3>2, <3>3
  <2> HIDE DEF to
  <2>5. <<to(x), x[2]>> \in S
    BY <2>2, <2>4
  <2>6. m[<<to(x), x[2]>>] = s - to(x)
    BY <2>2, <2>4, <2>5
  <2>7. ~ (to(x) <= x[1]) => s - to(x) < m[x]
    BY <2>2, <2>4
  <2> HIDE DEF m, S
  <2> QED BY <2>2, <2>4, <2>5, <2>6, <2>7
<1> HIDE DEF m, to
<1>2. \A f \in [S -> V], x \in S : B(f, x) \in V /\ D[<<f, x>>] = B(f, x)
  <2>1. ASSUME NEW f \in [S -> V], NEW x \in S PROVE B(f, x) \in V
    <3>1. f[<<to(x), x[2]>>] \in V
      <4>1. <<to(x), x[2]>> \in S
        BY <1>1
      <4> HIDE DEF S, V
      <4> QED BY <4>1
    <3>2. << >> \in V /\ <<to(x)>> \in V
      <4>1. \A n \in Nat : <<n>> \in Seq(Nat)
        OBVIOUS
      <4>2. to(x) \in Nat
        BY <1>1
      <4> QED BY <4>1, <4>2
    <3>3. <<to(x)>> \o f[<<to(x), x[2]>>] \in V
      BY <3>1, <3>2
    <3> HIDE DEF V
    <3> QED BY <3>2, <3>3
  <2> HIDE DEF B, S, V
  <2> QED BY <2>1
<1>3. D \in [[S -> V] \X S -> V]
  <2> HIDE DEF B, S, V
  <2> QED BY <1>2
<1>4. ASSUME NEW f \in [S -> V], NEW f2 \in [S -> V], NEW x \in S,
             \A y \in S : m[y] < m[x] => f[y] = f2[y]
      PROVE  D[<<f, x>>] = D[<<f2, x>>]
  <2>1. ~ (to(x) <= x[1]) => f[<<to(x), x[2]>>] = f2[<<to(x), x[2]>>]
    <3>1. ~ (to(x) <= x[1]) => <<to(x), x[2]>> \in S /\ m[<<to(x), x[2]>>] < m[x]
      BY <1>1
    <3> HIDE DEF S, V
    <3> QED BY <3>1, <1>4
  <2>2. B(f, x) = B(f2, x)
    BY <2>1
  <2> HIDE DEF B, S, V
  <2> QED BY <1>2, <2>2
<1>5. \E f \in [S -> V] : \A x \in S : f[x] = D[<<f, x>>]
  <2>1. V # {}
    <3>1. << >> \in V
      OBVIOUS
    <3> QED BY <3>1
  <2>2. m \in [S -> Nat]
    <3>1. m = [x \in S |-> m[x]]
      BY DEF m
    <3> HIDE DEF S
    <3> QED BY <1>1, <3>1
  <2> HIDE DEF D, S, V
  <2>3. LooksBelow(S, V, m, D)
    BY <2>1, <2>2, <1>3, <1>4 DEF LooksBelow
  <2> QED BY <2>3, Recursion
<1>6. PICK F : F = [x \in S |-> B(F, x)]
  <2>1. PICK f \in [S -> V] : \A x \in S : f[x] = D[<<f, x>>]
    BY <1>5
  <2>2. \A x \in S : f[x] = B(f, x)
    <3> HIDE DEF B, D, S, V
    <3> QED BY <1>2, <2>1
  <2> HIDE DEF B, S, V
  <2> QED BY <2>2
<1>7. jumpsRight = [x \in S |-> B(jumpsRight, x)]
  BY <1>6 DEF jumpsRight, to
<1>8. \A x \in S : jumpsRight[x] = B(jumpsRight, x)
  <2> HIDE DEF B
  <2> QED BY <1>7
<1>9. <<peak, size>> \in S /\ to(<<peak, size>>) = next
  BY DEF to
<1> QED BY <1>8, <1>9

(* Steps down from a node that does not fit come to the longest run that   *)
(* begins where its run does and fits.                                     *)
LEMMA DownToIs ==
  ASSUME NEW n \in Nat, NEW g \in Nat
  PROVE  \A l \in Nat : l * 2^g <= n =>
           LET next == downTo[<<NodePos(g, l), MMRIndex(n)>>]
           IN IF l * 2^g = n THEN next = 0
              ELSE \E b, c \in Nat : /\ next = NodePos(b, c) /\ c * 2^b = l * 2^g
                                     /\ (c + 1) * 2^b <= n
                                     /\ b = g \/ (b < g /\ n < (c + 2) * 2^b)
<1> DEFINE size == MMRIndex(n)
           Down(a, l, next) ==
             IF l * 2^a = n THEN next = 0
             ELSE \E b, c \in Nat : /\ next = NodePos(b, c) /\ c * 2^b = l * 2^a
                                    /\ (c + 1) * 2^b <= n
                                    /\ b = a \/ (b < a /\ n < (c + 2) * 2^b)
           S == {a \in Nat : \A l \in Nat : l * 2^a <= n =>
                               Down(a, l, downTo[<<NodePos(a, l), size>>])}
<1>0. size \in Nat
  BY MMRIndexBounds
<1>1. ASSUME NEW a \in Nat, NEW l \in Nat
      PROVE  /\ NodePos(a, l) \in Nat /\ l * 2^a \in Nat /\ l * 2^a < (l + 1) * 2^a
             /\ (l + 1) * 2^a \in Nat
             /\ NodePos(a, l) <= size <=> (l + 1) * 2^a <= n
             /\ downTo[<<NodePos(a, l), size>>] =
                  IF NodePos(a, l) <= size THEN NodePos(a, l)
                  ELSE IF LeftChild(NodePos(a, l)) = 0 THEN 0
                       ELSE downTo[<<LeftChild(NodePos(a, l)), size>>]
  <2>1. NodePos(a, l) \in Nat
    BY NodePosBounds
  <2>2. NodePos(a, l) <= size <=> (l + 1) * 2^a <= n
    BY NodeInRange
  <2> HIDE DEF size
  <2> QED BY <1>0, <2>1, <2>2, RunEnds, DownToDef
<1>2. ASSUME NEW a \in Nat, NEW l \in Nat, NodePos(a, l) <= size
      PROVE  Down(a, l, downTo[<<NodePos(a, l), size>>])
  <2>1. (l + 1) * 2^a <= n /\ l * 2^a < (l + 1) * 2^a
        /\ l * 2^a \in Nat /\ (l + 1) * 2^a \in Nat
        /\ downTo[<<NodePos(a, l), size>>] = NodePos(a, l)
    BY <1>1, <1>2
  <2>2. l * 2^a # n
    BY <2>1
  <2>3. \E b, c \in Nat : /\ NodePos(a, l) = NodePos(b, c) /\ c * 2^b = l * 2^a
                          /\ (c + 1) * 2^b <= n /\ b = a
    BY <2>1
  <2> HIDE DEF size
  <2> QED BY <2>1, <2>2, <2>3
<1>3. 0 \in S
  <2>1. ASSUME NEW l \in Nat, l * 2^0 <= n
        PROVE  Down(0, l, downTo[<<NodePos(0, l), size>>])
    <3>0. 0 \in Nat
      OBVIOUS
    <3>1. CASE NodePos(0, l) <= size
      BY <1>2, <3>0, <3>1
    <3>2. CASE ~ (NodePos(0, l) <= size)
      <4>1. downTo[<<NodePos(0, l), size>>] = 0
        <5>1. LeftChild(NodePos(0, l)) = 0
          BY LeftChildIs
        <5> HIDE DEF size
        <5> QED BY <1>1, <3>0, <3>2, <5>1
      <4>2. ~ ((l + 1) * 2^0 <= n)
        BY <1>1, <3>0, <3>2
      <4>3. (l + 1) * 2^0 = l + 1 /\ l * 2^0 = l
        BY PowZero
      <4>4. l * 2^0 = n
        BY <2>1, <4>2, <4>3
      <4> QED BY <4>1, <4>4
    <3> QED BY <3>1, <3>2
  <2> HIDE DEF Down, size
  <2> QED BY <2>1
<1>4. ASSUME NEW a \in 1 .. g, a - 1 \in S PROVE a \in S
  <2>1. PICK d \in Nat : a = d + 1 /\ d \in S
    <3>1. a - 1 \in Nat /\ a = (a - 1) + 1
      OBVIOUS
    <3> QED BY <3>1, <1>4
  <2>2. ASSUME NEW l \in Nat, l * 2^a <= n
        PROVE  Down(a, l, downTo[<<NodePos(a, l), size>>])
    <3>0. a \in Nat /\ 2 * l \in Nat
      OBVIOUS
    <3>1. CASE NodePos(a, l) <= size
      BY <1>2, <3>0, <3>1
    <3>2. CASE ~ (NodePos(a, l) <= size)
      <4>1. /\ 2 * l * 2^d = l * 2^a /\ (2 * l + 2) * 2^d = (l + 1) * 2^a
        <5>1. PICK y \in Nat : y = 2^d /\ 2^a = 2 * y
          BY <2>1, PowType, PowStep
        <5>2. 2 * l * y = l * (2 * y) /\ (2 * l + 2) * y = (l + 1) * (2 * y)
          BY <5>1
        <5> QED BY <5>1, <5>2
      <4>2. n < (l + 1) * 2^a
        <5>1. ~ ((l + 1) * 2^a <= n) /\ (l + 1) * 2^a \in Nat
          <6> HIDE DEF size, Down
          <6> QED BY <1>1, <3>0, <3>2
        <5> QED BY <5>1
      <4>3. NodePos(d, 2 * l) # 0 /\ LeftChild(NodePos(a, l)) = NodePos(d, 2 * l)
        <5>1. NodePos(d, 2 * l) \in Nat /\ NodePos(d, 2 * l) > 0
          BY <3>0, NodePosBounds
        <5>2. LeftChild(NodePos(a, l)) = NodePos(d, 2 * l)
          BY <2>1, LeftChildIs
        <5> QED BY <5>1, <5>2
      <4>4. downTo[<<NodePos(a, l), size>>] = downTo[<<NodePos(d, 2 * l), size>>]
        <5> HIDE DEF size
        <5> QED BY <1>1, <3>0, <3>2, <4>3
      <4>5. PICK next : next = downTo[<<NodePos(a, l), size>>]
        OBVIOUS
      <4>6. Down(d, 2 * l, next)
        <5>1. 2 * l * 2^d <= n
          BY <2>2, <4>1
        <5>2. Down(d, 2 * l, downTo[<<NodePos(d, 2 * l), size>>])
          <6> HIDE DEF Down, size
          <6> QED BY <2>1, <3>0, <5>1
        <5> HIDE DEF Down, size
        <5> QED BY <4>4, <4>5, <5>2
      <4>7. Down(a, l, next)
        <5>1. CASE l * 2^a = n
          BY <4>1, <4>6, <5>1
        <5>2. CASE l * 2^a # n
          <6>1. PICK b \in Nat, c \in Nat :
                  /\ next = NodePos(b, c) /\ c * 2^b = l * 2^a /\ (c + 1) * 2^b <= n
                  /\ b = d \/ (b < d /\ n < (c + 2) * 2^b)
            BY <4>1, <4>6, <5>2
          <6>2. b < a
            BY <2>1, <6>1
          <6>3. n < (c + 2) * 2^b
            <7>1. CASE b = d
              <8>1. PICK y \in Nat : y = 2^d /\ y > 0
                BY PowType
              <8>2. c * y = 2 * l * y
                BY <4>1, <6>1, <7>1, <8>1
              <8>3. (c + 2) * y = (2 * l + 2) * y
                <9>1. (c + 2) * y = c * y + 2 * y /\ (2 * l + 2) * y = 2 * l * y + 2 * y
                  OBVIOUS
                <9> QED BY <8>2, <9>1
              <8>4. n < (2 * l + 2) * y
                BY <4>1, <4>2, <8>1
              <8> QED BY <7>1, <8>1, <8>3, <8>4
            <7> QED BY <6>1, <7>1
          <6> QED BY <5>2, <6>1, <6>2, <6>3
        <5> QED BY <5>1, <5>2
      <4> HIDE DEF Down, size
      <4> QED BY <4>5, <4>7
    <3> QED BY <3>1, <3>2
  <2> HIDE DEF Down, size
  <2> QED BY <2>1, <2>2
<1>5. g \in S
  <2> HIDE DEF S
  <2>1. \A a \in 0 .. g : a \in S
    BY <1>3, <1>4, UpTo
  <2> QED BY <2>1
<1> QED BY <1>5

(* The last peak is over the last leaves.                                  *)
LEMMA LastTile ==
  ASSUME NEW n \in Nat, NEW q, Tiles(q, n),
         NEW j \in 1 .. Len(q), NEW h \in Nat, NEW k \in Nat, PeakAt(q, n, j, h, k)
  PROVE  j = Len(q) <=> (k + 1) * 2^h = n
<1> DEFINE e == (k + 1) * 2^h
<1>1. e \in Nat /\ e <= n /\ k * 2^h \in Nat /\ k * 2^h < e
  BY RunEnds DEF PeakAt, PeakOver
<1>2. q \in Seq(Nat)
  BY DEF Tiles
<1>3. ASSUME j # Len(q) PROVE e # n
  <2>1. j + 1 \in 1 .. Len(q)
    BY <1>2, <1>3
  <2>2. PICK g \in Nat, l \in Nat : PeakAt(q, n, j + 1, g, l)
    BY <2>1 DEF Tiles
  <2>3. l * 2^g = e
    BY <2>1, <2>2, NextTile
  <2>4. l * 2^g \in Nat /\ (l + 1) * 2^g \in Nat /\ l * 2^g < (l + 1) * 2^g /\ (l + 1) * 2^g <= n
    BY <2>2, RunEnds DEF PeakAt, PeakOver
  <2> HIDE DEF e
  <2> QED BY <1>1, <2>3, <2>4
<1>4. ASSUME e # n PROVE j # Len(q)
  <2>1. e < n
    BY <1>1, <1>4
  <2>2. PICK y \in 1 .. Len(q), g \in Nat, l \in Nat : PeakAt(q, n, y, g, l) /\ InRun(e, g, l)
    BY <1>1, <2>1 DEF Tiles
  <2>3. (l + 1) * 2^g \in Nat /\ l * 2^g \in Nat /\ e < (l + 1) * 2^g
    BY <2>2, RunEnds DEF InRun
  <2>4. ~ (y < j)
    <3>1. y < j => (l + 1) * 2^g <= k * 2^h
      BY <2>2 DEF Tiles
    <3> HIDE DEF e
    <3> QED BY <1>1, <2>3, <3>1
  <2>5. y # j
    <3> SUFFICES ASSUME y = j PROVE FALSE
      OBVIOUS
    <3>1. NodePos(h, k) \in Nat /\ NodePos(g, l) \in Nat
      BY NodePosBounds
    <3>2. NodePos(h, k) = NodePos(g, l)
      BY <2>2, <3>1 DEF PeakAt
    <3>3. h = g /\ k = l
      BY <3>2, NodePosUnique
    <3> QED BY <1>1, <2>3, <3>3
  <2> QED BY <1>2, <2>4, <2>5
<1> QED BY <1>3, <1>4 DEF e

(* The jump to the right of a peak, and the steps down from there, end at  *)
(* the next peak, and at 0 after the last.                                 *)
LEMMA NextPeakJump ==
  ASSUME NEW n \in Nat, NEW q, Tiles(q, n),
         NEW j \in 1 .. Len(q), NEW h \in Nat, NEW k \in Nat, PeakAt(q, n, j, h, k)
  PROVE  downTo[<<JumpRightSibling(q[j] + 1), MMRIndex(n)>>]
           = IF j = Len(q) THEN 0 ELSE q[j + 1] + 1
<1> DEFINE e == (k + 1) * 2^h
<1>0. e \in Nat /\ e <= n /\ n < (k + 2) * 2^h /\ k + 1 \in Nat /\ q \in Seq(Nat)
  BY RunEnds DEF PeakAt, PeakOver, Tiles
<1>1. PICK i \in Nat : k = 2 * i
  BY DEF PeakAt, PeakOver
<1>2. JumpRightSibling(q[j] + 1) = NodePos(h, k + 1)
  <2>1. PICK y \in Nat : y = 2^h /\ 2^(h + 1) = 2 * y
    BY PowType, PowStep
  <2>2. PICK z \in Nat : z = NodePos(h, k)
    BY NodePosBounds
  <2>3. PICK u \in Nat : u = NodePos(h, k + 1)
    BY <1>0, NodePosBounds
  <2>4. z = u - (2 * y - 1)
    BY <1>1, <2>1, <2>2, <2>3, ParentPos
  <2>5. q[j] + 1 = z
    BY <2>2 DEF PeakAt
  <2>6. PosHeight(z) = h
    BY <2>2, HeightOfNode
  <2>7. JumpRightSibling(z) = z + 2 * y - 1
    BY <2>1, <2>6 DEF JumpRightSibling
  <2> QED BY <2>3, <2>4, <2>5, <2>7
<1>3. PICK next : next = downTo[<<NodePos(h, k + 1), MMRIndex(n)>>]
  OBVIOUS
<1>4. IF e = n THEN next = 0
      ELSE \E b, c \in Nat : /\ next = NodePos(b, c) /\ c * 2^b = e
                             /\ (c + 1) * 2^b <= n
                             /\ b = h \/ (b < h /\ n < (c + 2) * 2^b)
  <2>1. PICK l \in Nat : l = k + 1 /\ l * 2^h = e
    BY <1>0
  <2>2. l * 2^h <= n /\ next = downTo[<<NodePos(h, l), MMRIndex(n)>>]
    BY <1>0, <1>3, <2>1
  <2>3. IF l * 2^h = n THEN next = 0
        ELSE \E b, c \in Nat : /\ next = NodePos(b, c) /\ c * 2^b = l * 2^h
                               /\ (c + 1) * 2^b <= n
                               /\ b = h \/ (b < h /\ n < (c + 2) * 2^b)
    BY <2>2, DownToIs
  <2> HIDE DEF e
  <2> QED BY <2>1, <2>3
<1>5. CASE e = n
  <2>1. j = Len(q)
    BY <1>5, LastTile
  <2> QED BY <1>2, <1>3, <1>4, <1>5, <2>1
<1>6. CASE e # n
  <2>1. j # Len(q) /\ j + 1 \in 1 .. Len(q)
    BY <1>0, <1>6, LastTile
  <2>2. PICK g \in Nat, l \in Nat : PeakAt(q, n, j + 1, g, l)
    BY <2>1 DEF Tiles
  <2>3. l * 2^g = e
    BY <2>1, <2>2, NextTile
  <2>4. PICK b \in Nat, c \in Nat :
          /\ next = NodePos(b, c) /\ c * 2^b = e /\ (c + 1) * 2^b <= n
          /\ b = h \/ (b < h /\ n < (c + 2) * 2^b)
    BY <1>4, <1>6
  <2>5. b # h
    <3> SUFFICES ASSUME b = h PROVE FALSE
      OBVIOUS
    <3>1. PICK y \in Nat : y = 2^h /\ y > 0
      BY PowType
    <3>2. c * y = (k + 1) * y /\ (c + 1) * y <= n /\ n < (k + 2) * y
      BY <1>0, <2>4, <3>1
    <3>3. (c + 1) * y = c * y + y /\ (k + 2) * y = (k + 1) * y + y
          /\ c * y \in Nat /\ (k + 1) * y \in Nat
      BY <1>0, <3>1
    <3> HIDE DEF e
    <3> QED BY <3>1, <3>2, <3>3
  <2>6. b < h /\ n < (c + 2) * 2^b
    BY <2>4, <2>5
  <2>7. \E d \in Nat : c = 2 * d
    <3>1. PICK d \in Nat : h = b + (d + 1)
      <4>1. h - b - 1 \in Nat /\ h = b + ((h - b - 1) + 1)
        BY <2>6
      <4> QED BY <4>1
    <3>2. PICK y \in Nat : y = 2^b /\ y > 0
      BY PowType
    <3>3. PICK z \in Nat : z = 2^d /\ 2^(d + 1) = 2 * z
      BY PowType, PowStep
    <3>4. 2^h = y * (2 * z)
      <4>1. d + 1 \in Nat
        OBVIOUS
      <4>2. 2^(b + (d + 1)) = 2^b * 2^(d + 1)
        BY <4>1, PowAdd
      <4> QED BY <3>1, <3>2, <3>3, <4>2
    <3>5. c * y = (2 * ((k + 1) * z)) * y
      <4>1. c * y = (k + 1) * (y * (2 * z))
        BY <2>4, <3>2, <3>4
      <4>2. (k + 1) * (y * (2 * z)) = (2 * ((k + 1) * z)) * y
        BY <3>2, <3>3, <1>0
      <4> QED BY <4>1, <4>2
    <3>6. (k + 1) * z \in Nat
      BY <3>3
    <3>7. \A u, v \in Nat : u * y = v * y => u = v
      BY <3>2
    <3>8. c = 2 * ((k + 1) * z)
      <4>1. 2 * ((k + 1) * z) \in Nat
        BY <3>6
      <4> QED BY <3>5, <3>7, <4>1
    <3> QED BY <3>6, <3>8
  <2>8. PeakOver(n, b, c) /\ PeakOver(n, g, l)
    BY <2>2, <2>4, <2>6, <2>7 DEF PeakOver, PeakAt
  <2>9. InRun(e, b, c) /\ InRun(e, g, l)
    <3>1. InRun(c * 2^b, b, c) /\ InRun(l * 2^g, g, l)
      BY RunEnds
    <3> QED BY <2>3, <2>4, <3>1
  <2>10. b = g /\ c = l
    BY <1>0, <2>8, <2>9, OnePeak
  <2>11. next = q[j + 1] + 1
    <3>1. NodePos(g, l) \in Nat
      BY NodePosBounds
    <3> QED BY <2>2, <2>4, <2>10, <3>1 DEF PeakAt
  <2> QED BY <1>2, <1>3, <2>1, <2>11
<1> QED BY <1>5, <1>6

(* From a peak the jumps list the peaks after it.                          *)
LEMMA JumpsRightAre ==
  ASSUME NEW n \in Nat, NEW q, Tiles(q, n), NEW j \in 1 .. Len(q)
  PROVE  jumpsRight[<<q[j] + 1, MMRIndex(n)>>] = [i \in 1 .. Len(q) - j |-> q[j + i] + 1]
<1> DEFINE size == MMRIndex(n)
           After(a) == [i \in 1 .. Len(q) - a |-> q[a + i] + 1]
           S == {s \in Nat : \A a \in 1 .. Len(q) :
                   Len(q) - a = s => jumpsRight[<<q[a] + 1, size>>] = After(a)}
<1>0. size \in Nat /\ q \in Seq(Nat) /\ Len(q) \in Nat
  BY MMRIndexBounds DEF Tiles
<1>1. ASSUME NEW a \in 1 .. Len(q)
      PROVE  jumpsRight[<<q[a] + 1, size>>] =
               IF a = Len(q) THEN << >>
               ELSE <<q[a + 1] + 1>> \o jumpsRight[<<q[a + 1] + 1, size>>]
  <2>1. PICK h \in Nat, k \in Nat : PeakAt(q, n, a, h, k)
    BY DEF Tiles
  <2>2. PICK next : next = downTo[<<JumpRightSibling(q[a] + 1), size>>]
    OBVIOUS
  <2>3. next = IF a = Len(q) THEN 0 ELSE q[a + 1] + 1
    BY <2>1, <2>2, NextPeakJump
  <2>4. PICK p \in Nat : p = q[a] + 1 /\ p > 0
    BY <1>0
  <2>5. jumpsRight[<<p, size>>] =
          IF next <= p THEN << >> ELSE <<next>> \o jumpsRight[<<next, size>>]
    <3>1. next = downTo[<<JumpRightSibling(p), size>>]
      BY <2>2, <2>4
    <3> HIDE DEF size
    <3> QED BY <1>0, <3>1, JumpsRightDef
  <2>6. CASE a = Len(q)
    BY <2>3, <2>4, <2>5, <2>6
  <2>7. CASE a # Len(q)
    <3>1. a + 1 \in 1 .. Len(q) /\ q[a + 1] \in Nat /\ q[a] \in Nat
      BY <1>0, <2>7
    <3>2. q[a] < q[a + 1]
      <4>1. PICK g \in Nat, l \in Nat : PeakAt(q, n, a + 1, g, l)
        BY <3>1 DEF Tiles
      <4>2. (k + 1) * 2^h <= l * 2^g
        <5>1. a < a + 1
          OBVIOUS
        <5> QED BY <2>1, <3>1, <4>1, <5>1 DEF Tiles
      <4>3. NodePos(h, k) < NodePos(g, l)
        BY <4>2, PosInOrder
      <4>4. NodePos(h, k) \in Nat /\ NodePos(g, l) \in Nat
        BY NodePosBounds
      <4> QED BY <2>1, <4>1, <4>3, <4>4 DEF PeakAt
    <3>3. ~ (next <= p)
      BY <2>3, <2>4, <2>7, <3>1, <3>2
    <3> QED BY <2>3, <2>4, <2>5, <2>7, <3>3
  <2> QED BY <2>6, <2>7
<1>2. 0 \in S
  <2>1. ASSUME NEW a \in 1 .. Len(q), Len(q) - a = 0
        PROVE  jumpsRight[<<q[a] + 1, size>>] = After(a)
    <3>1. a = Len(q) /\ 1 .. Len(q) - a = {}
      BY <1>0, <2>1
    <3>2. After(a) = << >>
      BY <3>1
    <3> QED BY <1>1, <3>1, <3>2
  <2> HIDE DEF After, size
  <2> QED BY <2>1
<1>3. ASSUME NEW s \in 1 .. Len(q) - j, s - 1 \in S PROVE s \in S
  <2>1. ASSUME NEW a \in 1 .. Len(q), Len(q) - a = s
        PROVE  jumpsRight[<<q[a] + 1, size>>] = After(a)
    <3>1. a # Len(q) /\ a + 1 \in 1 .. Len(q) /\ Len(q) - (a + 1) = s - 1
      BY <1>0, <2>1
    <3>2. jumpsRight[<<q[a + 1] + 1, size>>] = After(a + 1)
      <4> HIDE DEF After, size
      <4> QED BY <1>3, <3>1
    <3>3. <<q[a + 1] + 1>> \o After(a + 1) = After(a)
      <4>1. After(a + 1) \in Seq(Nat) /\ Len(After(a + 1)) = s - 1
            /\ After(a) \in Seq(Nat) /\ Len(After(a)) = s
        <5>1. \A i \in 1 .. s - 1 : q[(a + 1) + i] + 1 \in Nat
          <6>1. \A i \in 1 .. s - 1 : (a + 1) + i \in 1 .. Len(q)
            BY <1>0, <3>1
          <6>2. \A y \in 1 .. Len(q) : q[y] + 1 \in Nat
            BY <1>0
          <6> QED BY <6>1, <6>2
        <5>2. \A i \in 1 .. s : q[a + i] + 1 \in Nat
          <6>1. \A i \in 1 .. s : a + i \in 1 .. Len(q)
            BY <1>0, <2>1
          <6>2. \A y \in 1 .. Len(q) : q[y] + 1 \in Nat
            BY <1>0
          <6> QED BY <6>1, <6>2
        <5>3. s \in Nat /\ s - 1 \in Nat
          OBVIOUS
        <5>4. \A m \in Nat : \A f : (\A i \in 1 .. m : f[i] \in Nat) =>
                [i \in 1 .. m |-> f[i]] \in Seq(Nat) /\ Len([i \in 1 .. m |-> f[i]]) = m
          OBVIOUS
        <5>5. After(a) \in Seq(Nat) /\ Len(After(a)) = s
          <6>1. After(a) = [i \in 1 .. s |-> q[a + i] + 1]
            BY <2>1
          <6>2. \A i \in 1 .. s : After(a)[i] \in Nat
            BY <5>2, <6>1
          <6>3. After(a) = [i \in 1 .. s |-> After(a)[i]]
            BY <6>1
          <6> HIDE DEF After
          <6> QED BY <5>3, <5>4, <6>2, <6>3
        <5>6. After(a + 1) \in Seq(Nat) /\ Len(After(a + 1)) = s - 1
          <6>1. After(a + 1) = [i \in 1 .. s - 1 |-> q[(a + 1) + i] + 1]
            BY <3>1
          <6>2. \A i \in 1 .. s - 1 : After(a + 1)[i] \in Nat
            BY <5>1, <6>1
          <6>3. After(a + 1) = [i \in 1 .. s - 1 |-> After(a + 1)[i]]
            BY <6>1
          <6> HIDE DEF After
          <6> QED BY <5>3, <5>4, <6>2, <6>3
        <5> HIDE DEF After
        <5> QED BY <5>5, <5>6
      <4>2. \A i \in 1 .. s : After(a)[i] = (<<q[a + 1] + 1>> \o After(a + 1))[i]
        <5>1. ASSUME NEW i \in 1 .. s
              PROVE  After(a)[i] = (<<q[a + 1] + 1>> \o After(a + 1))[i]
          <6>1. After(a)[i] = q[a + i] + 1
            BY <2>1
          <6>2. CASE i = 1
            <7>1. (<<q[a + 1] + 1>> \o After(a + 1))[1] = q[a + 1] + 1
              <8> HIDE DEF After
              <8> QED BY <4>1
            <7> QED BY <6>1, <6>2, <7>1
          <6>3. CASE i # 1
            <7>1. i - 1 \in 1 .. s - 1 /\ i \in 1 .. 1 + Len(After(a + 1))
              BY <4>1, <6>3
            <7>2. (<<q[a + 1] + 1>> \o After(a + 1))[i] = After(a + 1)[i - 1]
              <8> HIDE DEF After
              <8> QED BY <4>1, <6>3, <7>1
            <7>3. After(a + 1)[i - 1] = q[(a + 1) + (i - 1)] + 1
              BY <3>1, <7>1
            <7>4. (a + 1) + (i - 1) = a + i
              OBVIOUS
            <7> QED BY <6>1, <7>2, <7>3, <7>4
          <6> QED BY <6>2, <6>3
        <5> QED BY <5>1
      <4>3. <<q[a + 1] + 1>> \o After(a + 1) \in Seq(Nat)
            /\ Len(<<q[a + 1] + 1>> \o After(a + 1)) = s
        <5>1. q[a + 1] + 1 \in Nat
          BY <1>0, <3>1
        <5>2. <<q[a + 1] + 1>> \in Seq(Nat) /\ Len(<<q[a + 1] + 1>>) = 1
          BY <5>1
        <5> HIDE DEF After
        <5> QED BY <4>1, <5>2
      <4> HIDE DEF After
      <4>4. PICK u : u = After(a)
        OBVIOUS
      <4>5. PICK v : v = <<q[a + 1] + 1>> \o After(a + 1)
        OBVIOUS
      <4>6. u \in Seq(Nat) /\ v \in Seq(Nat) /\ Len(u) = Len(v)
            /\ \A i \in 1 .. Len(u) : u[i] = v[i]
        BY <4>1, <4>2, <4>3, <4>4, <4>5
      <4>7. u = v
        <5>1. u = [i \in 1 .. Len(u) |-> u[i]]
          BY <4>6
        <5>2. v = [i \in 1 .. Len(v) |-> v[i]]
          BY <4>6
        <5>3. [i \in 1 .. Len(u) |-> u[i]] = [i \in 1 .. Len(v) |-> v[i]]
          BY <4>6
        <5> QED BY <5>1, <5>2, <5>3
      <4> QED BY <4>4, <4>5, <4>7
    <3> HIDE DEF After, size
    <3> QED BY <1>1, <3>1, <3>2, <3>3
  <2> HIDE DEF After, size
  <2>2. s \in Nat
    OBVIOUS
  <2> QED BY <2>1, <2>2
<1>4. Len(q) - j \in S
  <2> HIDE DEF S
  <2>1. Len(q) - j \in Nat /\ Len(q) - j \in 0 .. Len(q) - j
    BY <1>0
  <2>2. \A s \in 0 .. Len(q) - j : s \in S
    BY <1>2, <1>3, <2>1, UpTo
  <2> QED BY <2>1, <2>2
<1> QED BY <1>4

(* There are peaks, and the first is the highest that fits.                *)
LEMMA TopPeakOf ==
  ASSUME NEW n \in Nat, n # 0, NEW q, q = Peaks(MMRIndex(n) - 1), NEW size, size = MMRIndex(n)
  PROVE  /\ size \in Nat /\ size # 0
         /\ ~ (PosHeight(size + 1) > PosHeight(size))
         /\ Tiles(q, n) /\ 1 \in 1 .. Len(q)
         /\ q[1] = TopPeak(size - 1)
         /\ \E K \in Nat : /\ TopPeak(size - 1) = NodePos(K, 0) - 1
                           /\ TopHeight(size - 1) = K
                           /\ MaxPeakHeight(size - 1) = K
<1>1. size \in Nat /\ size # 0
  BY MMRIndexBounds
<1>2. Tiles(q, n)
  BY PeaksTile
<1>3. 1 \in 1 .. Len(q)
  <2>1. 0 < n /\ 0 \in Nat
    OBVIOUS
  <2>2. \E j \in 1 .. Len(q) : TRUE
    BY <1>2, <2>1 DEF Tiles
  <2>3. Len(q) \in Nat
    BY <1>2 DEF Tiles
  <2> QED BY <2>2, <2>3
<1>4. size - 1 + 2 = size + 1 /\ size - 1 + 1 = size
  BY <1>1
<1>5. ~ (PosHeight(size + 1) > PosHeight(size)) /\ q = peaksAfter[<<0, size>>]
  <2>1. q = IF PosHeight(size + 1) > PosHeight(size) THEN << >> ELSE peaksAfter[<<0, size>>]
    BY <1>4 DEF Peaks
  <2>2. Len(<< >>) = 0
    OBVIOUS
  <2> QED BY <1>3, <2>1, <2>2
<1>6. q[1] = TopPeak(size - 1)
  <2>1. PICK r : r = peaksAfter[<<0 + FirstPeak(size), size - FirstPeak(size)>>]
    OBVIOUS
  <2>2. FirstPeak(size) \in Nat /\ FirstPeak(size) > 0 /\ size - FirstPeak(size) \in Nat
    BY <1>1, FirstPeakIs
  <2>3. r \in Seq(Nat)
    <3>1. 0 + FirstPeak(size) \in Nat
      BY <2>2
    <3> QED BY <2>1, <2>2, <3>1, PeaksAfterDef
  <2>4. q = <<0 + FirstPeak(size) - 1>> \o r
    <3>1. 0 \in Nat
      OBVIOUS
    <3>2. peaksAfter[<<0, size>>] = <<0 + FirstPeak(size) - 1>> \o r
      BY <1>1, <2>1, <3>1, PeaksAfterDef
    <3> QED BY <1>5, <3>2
  <2>5. PICK x \in Nat : x = 0 + FirstPeak(size) - 1
    BY <2>2
  <2>6. q[1] = x
    <3>1. <<x>> \in Seq(Nat) /\ Len(<<x>>) = 1 /\ <<x>>[1] = x
      OBVIOUS
    <3>2. (<<x>> \o r)[1] = x
      BY <2>3, <3>1
    <3> QED BY <2>4, <2>5, <3>2
  <2>7. PICK t : t = TopPeak(size - 1)
    OBVIOUS
  <2>8. FirstPeak(size) = t + 1
    BY <2>7 DEF FirstPeak
  <2>9. t \in Int
    <3>1. BitLength(size + 1) \in Nat /\ BitLength(size + 1) # 0
      <4>1. size + 1 \in Nat /\ size + 1 # 0
        BY <1>1
      <4>2. \E k \in Nat : BitLength(size + 1) = k + 1
        BY <4>1, BitLengthBounds
      <4> QED BY <4>2
    <3>2. PICK k \in Nat : k = BitLength(size + 1) - 1
      BY <3>1
    <3>3. t = 2^k - 2 /\ 2^k \in Nat
      BY <1>4, <2>7, <3>2, PowType DEF TopPeak
    <3> QED BY <3>3
  <2> QED BY <2>5, <2>6, <2>7, <2>8, <2>9
<1>7. PICK K \in Nat : 2^K <= n /\ n < 2 * 2^K
  BY BitLengthBounds
<1>8. PICK y \in Nat : y = 2^K /\ y > 0 /\ 2^(K + 1) = 2 * y /\ 2 * 2^(K + 1) = 4 * y
  BY PowType, PowStep
<1>9. 2 * y - 1 <= size /\ size + 1 < 4 * y
  <2>1. MMRIndex(y) = 2 * y - 1
    BY <1>8, MMRIndexPow
  <2>2. MMRIndex(2 * y) = 4 * y - 1
    <3>1. K + 1 \in Nat
      OBVIOUS
    <3>2. MMRIndex(2^(K + 1)) = 2 * 2^(K + 1) - 1
      BY <3>1, MMRIndexPow
    <3> QED BY <1>8, <3>2
  <2>3. MMRIndex(y) + (n - y) <= MMRIndex(n)
    BY <1>7, <1>8, MMRIndexMono
  <2>4. MMRIndex(n) + (2 * y - n) <= MMRIndex(2 * y)
    <3>1. n <= 2 * y /\ 2 * y \in Nat
      BY <1>7, <1>8
    <3> QED BY <3>1, MMRIndexMono
  <2> QED BY <1>1, <1>7, <1>8, <2>1, <2>2, <2>3, <2>4
<1>10. BitLength(size + 1) = K + 2
  <2>1. K + 1 \in Nat /\ size + 1 \in Nat /\ 2^(K + 1) <= size + 1 /\ size + 1 < 2 * 2^(K + 1)
    BY <1>1, <1>8, <1>9
  <2>2. BitLength(size + 1) = (K + 1) + 1
    BY <2>1, BitLengthIs
  <2> QED BY <2>2
<1>11. TopHeight(size - 1) = K
  <2>1. TopHeight(size - 1) = K + 2 - 2
    BY <1>4, <1>10 DEF TopHeight
  <2> QED BY <2>1
<1>12. TopPeak(size - 1) = NodePos(K, 0) - 1
  <2>1. TopPeak(size - 1) = 2 * y - 2
    <3>1. K + 2 - 1 = K + 1
      OBVIOUS
    <3>2. TopPeak(size - 1) = 2^(K + 2 - 1) - 2
      BY <1>4, <1>10 DEF TopPeak
    <3> QED BY <1>8, <3>1, <3>2
  <2>2. NodePos(K, 0) = 2 * y - 1
    <3>1. 0 * 2^K = 0 /\ MMRIndex(0) = 0
      BY <1>8, MMRIndexPow
    <3> QED BY <1>8, <3>1 DEF NodePos
  <2> QED BY <1>8, <2>1, <2>2
<1>13. MaxPeakHeight(size - 1) = K
  <2>1. MaxPeakHeight(size - 1) =
          IF AllOnes(size) THEN BitLength(size) - 1 ELSE BitLength(size) - 2
    BY <1>4 DEF MaxPeakHeight
  <2>2. CASE size = 2 * y - 1
    <3>1. AllOnes(size)
      <4>1. K + 1 \in Nat /\ size = 2^(K + 1) - 1
        BY <1>8, <2>2
      <4> QED BY <1>1, <4>1, AllOnesIs
    <3>2. BitLength(size) = K + 1
      <4>1. 2^K <= size /\ size < 2 * 2^K
        BY <1>8, <2>2
      <4> QED BY <1>1, <4>1, BitLengthIs
    <3> QED BY <2>1, <3>1, <3>2
  <2>3. CASE size # 2 * y - 1
    <3>1. ~ AllOnes(size)
      <4> SUFFICES ASSUME AllOnes(size) PROVE FALSE
        OBVIOUS
      <4>1. PICK k \in Nat : size = 2^k - 1
        BY <1>1, AllOnesIs
      <4>2. PICK z \in Nat : z = 2^k
        BY PowType
      <4>3. z > 2 * y /\ z < 4 * y
        BY <1>8, <1>9, <2>3, <4>1, <4>2
      <4>4. K + 1 \in Nat
        OBVIOUS
      <4>5. K + 1 < k => 2 * 2^(K + 1) <= 2^k
        BY <4>4, PowMono
      <4>6. k <= K + 1 => 2^k <= 2^(K + 1)
        BY <4>4, PowMono
      <4> QED BY <1>8, <4>2, <4>3, <4>5, <4>6
    <3>2. BitLength(size) = K + 2
      <4>1. 2^(K + 1) <= size /\ size < 2 * 2^(K + 1) /\ K + 1 \in Nat
        BY <1>1, <1>8, <1>9, <2>3
      <4>2. BitLength(size) = (K + 1) + 1
        BY <1>1, <4>1, BitLengthIs
      <4> QED BY <4>2
    <3> QED BY <2>1, <3>1, <3>2
  <2> QED BY <2>2, <2>3
<1> QED BY <1>1, <1>2, <1>3, <1>5, <1>6, <1>11, <1>12, <1>13

(* PeaksOld lists what Peaks lists.                                        *)
LEMMA PeaksOldIs ==
  ASSUME NEW n \in Nat, n # 0, NEW size, size = MMRIndex(n)
  PROVE  PeaksOld(size) = PosPeaks(size)
<1>1. PICK q : q = Peaks(MMRIndex(n) - 1)
  OBVIOUS
<1>2. /\ size \in Nat /\ size # 0
      /\ ~ (PosHeight(size + 1) > PosHeight(size))
      /\ Tiles(q, n) /\ 1 \in 1 .. Len(q)
      /\ q[1] = TopPeak(size - 1)
  BY <1>1, TopPeakOf
<1>3. q \in Seq(Nat) /\ Len(q) \in Nat
  BY <1>2 DEF Tiles
<1>4. PosPeaks(size) = [k \in 1 .. Len(q) |-> q[k] + 1]
  <2>1. DOMAIN q = 1 .. Len(q)
    BY <1>3
  <2> QED BY <1>1, <2>1 DEF PosPeaks
<1>5. PICK r : r = [i \in 1 .. Len(q) - 1 |-> q[1 + i] + 1]
  OBVIOUS
<1>6. PeaksOld(size) = <<q[1] + 1>> \o r
  <2>1. \A j \in 1 .. Len(q) :
          jumpsRight[<<q[j] + 1, MMRIndex(n)>>] = [i \in 1 .. Len(q) - j |-> q[j + i] + 1]
    BY <1>2, JumpsRightAre
  <2>2. jumpsRight[<<q[1] + 1, size>>] = r
    BY <1>2, <1>5, <2>1
  <2> QED BY <1>2, <2>2 DEF PeaksOld
<1>7. r \in Seq(Nat) /\ Len(r) = Len(q) - 1
  <2>1. \A i \in 1 .. Len(q) - 1 : q[1 + i] + 1 \in Nat
    BY <1>3
  <2>2. \A i \in 1 .. Len(q) - 1 : r[i] \in Nat
    BY <1>5, <2>1
  <2>3. Len(q) - 1 \in Nat
    BY <1>2, <1>3
  <2>4. r = [i \in 1 .. Len(q) - 1 |-> r[i]]
    BY <1>5
  <2>5. \A m \in Nat : \A f : (\A i \in 1 .. m : f[i] \in Nat) =>
          [i \in 1 .. m |-> f[i]] \in Seq(Nat) /\ Len([i \in 1 .. m |-> f[i]]) = m
    OBVIOUS
  <2> QED BY <2>2, <2>3, <2>4, <2>5
<1>8. PICK x \in Nat : x = q[1] + 1
  BY <1>2, <1>3
<1>9. <<x>> \o r = [k \in 1 .. Len(q) |-> (<<x>> \o r)[k]]
  <2>1. <<x>> \o r \in Seq(Nat) /\ Len(<<x>> \o r) = Len(q)
    <3>1. <<x>> \in Seq(Nat) /\ Len(<<x>>) = 1
      OBVIOUS
    <3> QED BY <1>2, <1>3, <1>7, <3>1
  <2>2. PICK s : s = <<x>> \o r
    OBVIOUS
  <2>3. s = [k \in 1 .. Len(s) |-> s[k]]
    BY <2>1, <2>2
  <2> QED BY <2>1, <2>2, <2>3
<1>10. ASSUME NEW k \in 1 .. Len(q) PROVE (<<x>> \o r)[k] = q[k] + 1
  <2>1. CASE k = 1
    <3>1. <<x>> \in Seq(Nat) /\ Len(<<x>>) = 1 /\ <<x>>[1] = x
      OBVIOUS
    <3>2. (<<x>> \o r)[1] = x
      BY <1>7, <3>1
    <3> QED BY <1>8, <2>1, <3>2
  <2>2. CASE k # 1
    <3>1. k - 1 \in 1 .. Len(q) - 1 /\ 1 + (k - 1) = k /\ k \in 1 .. 1 + Len(r)
      BY <1>3, <1>7, <2>2
    <3>2. (<<x>> \o r)[k] = r[k - 1]
      BY <1>7, <2>2, <3>1
    <3>3. r[k - 1] = q[1 + (k - 1)] + 1
      BY <1>5, <3>1
    <3> QED BY <3>1, <3>2, <3>3
  <2> QED BY <2>1, <2>2
<1> QED BY <1>4, <1>6, <1>8, <1>9, <1>10

(* Neither lists anything for an incomplete range.                         *)
LEMMA NoOldPeaks ==
  ASSUME NEW size \in Nat, size # 0, PosHeight(size + 1) > PosHeight(size)
  PROVE  PeaksOld(size) = PosPeaks(size) /\ Peaks(size - 1) = << >>
<1>1. size - 1 + 2 = size + 1 /\ size - 1 + 1 = size
  OBVIOUS
<1>2. Peaks(size - 1) = << >>
  BY <1>1 DEF Peaks
<1>3. DOMAIN << >> = {}
  OBVIOUS
<1>4. PosPeaks(size) = [k \in {} |-> << >>[k] + 1]
  BY <1>2, <1>3 DEF PosPeaks
<1>5. [k \in {} |-> << >>[k] + 1] = << >>
  OBVIOUS
<1> QED BY <1>2, <1>4, <1>5 DEF PeaksOld

(* The range is one tree when the leaves are a power of 2.                 *)
LEMMA OnlyPeak ==
  ASSUME NEW n \in Nat, n # 0, NEW q, q = Peaks(MMRIndex(n) - 1), NEW size, size = MMRIndex(n)
  PROVE  IsPow2(n) <=> q = <<HeightMaxIndex(IndexHeight(size - 1))>>
<1>1. PICK h \in Nat, j \in Nat : n = (2 * j + 1) * 2^h
  BY OddRuns
<1>2. PICK y \in Nat : y = 2^h /\ y > 0
  BY PowType
<1>3. IsPow2(n) <=> n = y
  <2>1. TrailingZeros(n) = h
    BY <1>1, TrailingZerosIs
  <2> QED BY <1>2, <2>1 DEF IsPow2
<1>4. /\ size \in Nat /\ size # 0 /\ Tiles(q, n) /\ 1 \in 1 .. Len(q)
  BY TopPeakOf
<1>5. HeightMaxIndex(IndexHeight(size - 1)) = NodePos(h, 0) - 1
  <2>1. size = NodePos(h, 2 * j)
    BY <1>1, NextLeafPos
  <2>2. PosHeight(size) = h
    <3>1. 2 * j \in Nat
      OBVIOUS
    <3> QED BY <2>1, <3>1, HeightOfNode
  <2>3. IndexHeight(size - 1) = h
    <3>1. size - 1 + 1 = size
      BY <1>4
    <3> QED BY <2>2, <3>1 DEF IndexHeight
  <2>4. NodePos(h, 0) = 2 * y - 1
    <3>1. 0 * 2^h = 0 /\ MMRIndex(0) = 0
      BY <1>2, MMRIndexPow
    <3> QED BY <1>2, <3>1 DEF NodePos
  <2> QED BY <1>2, <2>3, <2>4 DEF HeightMaxIndex
<1>6. PICK g \in Nat, k \in Nat : PeakAt(q, n, 1, g, k)
  BY <1>4 DEF Tiles
<1>7. q \in Seq(Nat)
  BY <1>4 DEF Tiles
<1>8. 1 = Len(q) <=> (k + 1) * 2^g = n
  <2>1. PICK a \in 1 .. Len(q) : a = 1
    BY <1>4
  <2>2. PeakAt(q, n, a, g, k) /\ Tiles(q, n)
    BY <1>4, <1>6, <2>1
  <2>3. a = Len(q) <=> (k + 1) * 2^g = n
    BY <2>2, LastTile
  <2> QED BY <2>1, <2>3
<1>9. ASSUME q = <<NodePos(h, 0) - 1>> PROVE n = y
  <2>1. Len(q) = 1 /\ q[1] = NodePos(h, 0) - 1
    BY <1>9
  <2>2. NodePos(h, 0) \in Nat /\ NodePos(g, k) \in Nat
    BY NodePosBounds
  <2>3. NodePos(h, 0) = NodePos(g, k)
    BY <1>6, <2>1, <2>2 DEF PeakAt
  <2>4. h = g /\ k = 0
    BY <2>3, NodePosUnique
  <2> QED BY <1>2, <1>8, <2>1, <2>4
<1>10. ASSUME n = y PROVE q = <<NodePos(h, 0) - 1>>
  <2>1. PeakOver(n, h, 0)
    <3>1. (0 + 1) * y <= n /\ n < (0 + 2) * y /\ 0 = 2 * 0
      BY <1>2, <1>10
    <3> QED BY <1>2, <3>1 DEF PeakOver
  <2>2. InRun(0, h, 0)
    <3>1. 0 * y <= 0 /\ 0 < (0 + 1) * y
      BY <1>2
    <3> QED BY <1>2, <3>1 DEF InRun
  <2>3. InRun(0, g, k)
    <3>1. k * 2^g = 0
      <4>1. 1 = 1 <=> k * 2^g = 0
        BY <1>4, <1>6, FirstTile
      <4> QED BY <4>1
    <3>2. InRun(k * 2^g, g, k)
      BY RunEnds
    <3> QED BY <3>1, <3>2
  <2>4. h = g /\ 0 = k
    <3>1. PeakOver(n, g, k)
      BY <1>6 DEF PeakAt
    <3> QED BY <2>1, <2>2, <2>3, <3>1, OnePeak
  <2>5. Len(q) = 1
    <3>1. (0 + 1) * y = n
      BY <1>2, <1>10
    <3> QED BY <1>2, <1>8, <2>4, <3>1
  <2>6. q[1] = NodePos(h, 0) - 1
    BY <1>6, <2>4 DEF PeakAt
  <2> QED BY <1>7, <2>5, <2>6
<1> QED BY <1>3, <1>5, <1>9, <1>10

(* There are as many peaks as LeafMinusSpurSum says.                       *)
LEMMA HowManyPeaks ==
  ASSUME NEW n \in Nat
  PROVE  Len(PeaksOver(n)) = LeafMinusSpurSum(n)
<1> DEFINE T == {m \in Nat : Len(PeaksOver(m)) = LeafMinusSpurSum(m)}
<1>1. 0 \in T
  <2>1. Len(PeaksOver(0)) = 0
    BY DEF PeaksOver
  <2>2. LeafMinusSpurSum(0) = 0
    <3>1. 0 \div 2 = 0
      OBVIOUS
    <3>2. halves[0] = 0
      BY HalvesDef
    <3> QED BY <3>1, <3>2 DEF LeafMinusSpurSum
  <2> QED BY <2>1, <2>2
<1>2. ASSUME NEW e \in 1 .. n, e - 1 \in T PROVE e \in T
  <2>1. PICK m \in Nat : e = m + 1 /\ m \in T
    <3>1. e - 1 \in Nat /\ e = (e - 1) + 1
      OBVIOUS
    <3> QED BY <1>2, <3>1
  <2>2. PICK f \in Nat, c \in Nat : e = (2 * c + 1) * 2^f
    <3>1. e \in Nat /\ e # 0
      OBVIOUS
    <3> QED BY <3>1, OddRuns
  <2>3. PICK q : q = PeaksOver(m)
    OBVIOUS
  <2>4. PICK r : r = PeaksOver(e)
    OBVIOUS
  <2>5. Tiles(q, m) /\ Tiles(r, e)
    <3>1. e \in Nat
      OBVIOUS
    <3> QED BY <2>3, <2>4, <3>1, PeaksOverTile
  <2>6. Continues(q, r, f, NodePos(f, 2 * c))
    <3>1. 0 \in Nat /\ 0 <= f /\ f = f - 0 /\ f \in Nat
      OBVIOUS
    <3>2. e = m + 2^0
      BY <2>1, PowZero
    <3>3. PICK p : p = NodePos(f, 2 * c)
      OBVIOUS
    <3>4. Continues(q, r, f, p)
      BY <2>2, <2>5, <3>1, <3>2, <3>3, NextPeaks
    <3> QED BY <3>3, <3>4
  <2>7. Len(r) = Len(q) - f + 1
    BY <2>6 DEF Continues
  <2>8. LeafMinusSpurSum(e) = LeafMinusSpurSum(m) + 1 - f
    <3>1. LeafMinusSpurSum((2 * c + 1) * 2^f)
            = LeafMinusSpurSum((2 * c + 1) * 2^f - 1) + 1 - f
      BY PeaksLeft
    <3>2. (2 * c + 1) * 2^f - 1 = m
      BY <2>1, <2>2
    <3> QED BY <2>2, <3>1, <3>2
  <2>9. Len(q) = LeafMinusSpurSum(m) /\ Len(q) \in Nat
    BY <2>1, <2>3, <2>5 DEF Tiles
  <2>10. Len(r) = LeafMinusSpurSum(e)
    BY <2>7, <2>8, <2>9
  <2> QED BY <2>4, <2>10
<1>3. n \in T
  <2> HIDE DEF T
  <2>1. \A m \in 0 .. n : m \in T
    BY <1>1, <1>2, UpTo
  <2> QED BY <2>1
<1> QED BY <1>3

-----------------------------------------------------------------------------
(* What is known of the last node                                          *)

(* Whether the loop goes on follows from the run that the last node is     *)
(* over: it is the second half of a longer one, or not.                    *)
LEMMA LoopGoesOn ==
  ASSUME BuildInv, nextIndex > 0
  PROVE  \E h, k, j \in Nat :
           /\ nextIndex = NodePos(h, k) /\ leavesAdded = (k + 1) * 2^h
           /\ Newest = <<h, k>> /\ leavesAdded \in Nat /\ leavesAdded # 0
           /\ MoreToFill(nextIndex, loopHeight) => k = 2 * j + 1
           /\ ~ MoreToFill(nextIndex, loopHeight) => k = 2 * j /\ nextIndex = MMRIndex(leavesAdded)
<1>1. PICK h, k \in Nat :
        /\ nextIndex = NodePos(h, k) /\ leavesAdded = (k + 1) * 2^h
        /\ adding => h = loopHeight
        /\ ~ adding => loopHeight = 0 /\ \E j \in Nat : k = 2 * j
        /\ Newest = <<h, k>>
  BY LastNode
<1>2. PICK j \in Nat : k = 2 * j \/ k = 2 * j + 1
  BY EvenOrOdd
<1>3. leavesAdded \in Nat /\ leavesAdded # 0 /\ loopHeight \in Nat
  <2>1. (k + 1) * 2^h \in Nat /\ k * 2^h \in Nat /\ k * 2^h < (k + 1) * 2^h
    BY RunEnds
  <2> QED BY <1>1, <2>1 DEF BuildInv
<1>4. CASE k = 2 * j
  <2>1. IndexHeight(nextIndex) = 0
    BY <1>1, <1>4, HeightAfter DEF IndexHeight
  <2>2. ~ MoreToFill(nextIndex, loopHeight)
    BY <1>3, <2>1 DEF MoreToFill
  <2>3. nextIndex = MMRIndex(leavesAdded)
    BY <1>1, <1>4, NextLeafPos
  <2> QED BY <1>1, <1>3, <1>4, <2>2, <2>3
<1>5. CASE k = 2 * j + 1
  <2>1. \A l \in Nat : k # 2 * l
    BY <1>5
  <2>2. IndexHeight(nextIndex) = h + 1
    BY <1>1, <1>5, HeightAfter DEF IndexHeight
  <2>3. MoreToFill(nextIndex, loopHeight)
    BY <1>1, <2>1, <2>2 DEF MoreToFill
  <2> QED BY <1>1, <1>3, <1>5, <2>3
<1> QED BY <1>2, <1>4, <1>5

(* Where the node appended last is, by every method. *)
LEMMA NavigationMatchesInv == BuildInv => NavigationMatches
<1> SUFFICES ASSUME BuildInv, nextIndex > 0
             PROVE  NavigationMatches
  BY DEF NavigationMatches
<1>1. PICK h, k \in Nat :
        nextIndex = NodePos(h, k) /\ leavesAdded = (k + 1) * 2^h /\ Newest = <<h, k>>
  BY LastNode
<1>2. nextIndex \in Nat /\ lastIndex + 1 = nextIndex /\ lastIndex = NodePos(h, k) - 1 /\ Newest[1] = h
  BY <1>1 DEF BuildInv, lastIndex
<1>3. IndexHeight(lastIndex) = h /\ IndexHeight2(lastIndex) = h /\ PosHeight(nextIndex) = h
  <2>1. PosHeight(nextIndex) = h
    BY <1>1, HeightOfNode
  <2>2. IndexHeight2(lastIndex) = h
    BY <1>2, IndexHeight2Is
  <2> QED BY <1>2, <2>1, <2>2 DEF IndexHeight
<1>4. CASE h = 0
  <2>1. LeftChild(nextIndex) = 0
    BY <1>3, <1>4 DEF LeftChild
  <2>2. LeftAncestors(lastIndex) = << >>
    BY <1>3, <1>4 DEF LeftAncestors
  <2> QED BY <1>2, <1>3, <1>4, <2>1, <2>2 DEF NavigationMatches
<1>5. CASE h # 0
  <2>1. PICK g \in Nat : h = g + 1 /\ h - 1 = g
    <3>1. h - 1 \in Nat /\ h = (h - 1) + 1
      BY <1>5
    <3> QED BY <3>1
  <2>2. /\ 2 * k \in Nat /\ 2 * k + 1 \in Nat
        /\ (2 * k + 1) * 2^g <= leavesAdded /\ (2 * k + 1 + 1) * 2^g = leavesAdded
        /\ leavesAdded \in Nat
    BY <1>1, <2>1, ChildRuns DEF BuildInv
  <2>3. IndexIn[<<g, 2 * k>>] = NodePos(g, 2 * k) - 1
    BY <2>1, <2>2, IndexInIs
  <2>4. IndexIn[<<g, 2 * k + 1>>] = NodePos(g, 2 * k + 1) - 1
    BY <2>1, <2>2, IndexInIs
  <2>5. Left(Newest) = <<g, 2 * k>> /\ Right(Newest) = <<g, 2 * k + 1>>
    BY <1>1, <2>1 DEF Left, Right
  <2>6. PICK left : left = IndexIn[Left(Newest)]
    OBVIOUS
  <2>7. PICK lefts : lefts = LeftAncestors(lastIndex)
    OBVIOUS
  <2>8. NodePos(g, 2 * k + 1) \in Nat
    BY <2>2, NodePosBounds
  <2>9. /\ LeftChild(lastIndex + 1) = left + 1
        /\ JumpRightSibling(left + 1) = NodePos(g, 2 * k + 1)
        /\ lastIndex = left + ParentOffset(g)
        /\ lastIndex \in Nat /\ left \in Nat
        /\ lefts[1] = left
        /\ Len(lefts) = SpurHeightLeaf((k + 1) * 2^(g + 1) - 1) - g
        /\ \A m \in DOMAIN lefts :
             /\ Ancestors(lastIndex)[2 * m - 1] = lefts[m]
             /\ Ancestors(lastIndex)[2 * m] = lastIndex + m - 2
    <3>1. lastIndex = NodePos(g + 1, k) - 1
      BY <1>2, <2>1
    <3>2. left = NodePos(g, 2 * k) - 1
      BY <2>3, <2>5, <2>6
    <3>3. PICK i : i = lastIndex
      OBVIOUS
    <3>4. i = NodePos(g + 1, k) - 1
      BY <3>1, <3>3
    <3>5. LeadsFrom(i, left, g, k)
      BY <3>2, <3>4, NavigationOf
    <3>6. LeftAncestors(i) = lefts
      BY <2>7, <3>3
    <3> QED BY <3>3, <3>5, <3>6 DEF LeadsFrom
  <2>10. JumpRightSibling(left + 1) = IndexIn[Right(Newest)] + 1
    <3>1. PICK z \in Nat : z = NodePos(g, 2 * k + 1)
      BY <2>8
    <3>2. IndexIn[Right(Newest)] = z - 1
      BY <2>4, <2>5, <3>1
    <3>3. JumpRightSibling(left + 1) = z
      BY <2>9, <3>1
    <3> QED BY <3>1, <3>2, <3>3
  <2>11. HeightIndexLeafCount(h) = 2^h
    <3>1. PICK y \in Nat : y = 2^h
      BY PowType
    <3>2. (2 * y - 1 + 1) \div 2 = y
      OBVIOUS
    <3> QED BY <3>1, <3>2 DEF HeightIndexLeafCount, HeightIndexSize
  <2>12. Len(lefts) = SpurHeightLeaf(leavesAdded - 1) - h + 1
    <3>1. PICK s : s = SpurHeightLeaf(leavesAdded - 1)
      OBVIOUS
    <3>2. Len(lefts) = s - g
      BY <1>1, <2>1, <2>9, <3>1
    <3>3. PICK r \in Nat, j \in Nat : leavesAdded = (2 * j + 1) * 2^r
      <4>1. leavesAdded # 0
        <5>1. (k + 1) * 2^h \in Nat /\ k * 2^h \in Nat /\ k * 2^h < (k + 1) * 2^h
          BY RunEnds
        <5> QED BY <1>1, <5>1
      <4> QED BY <2>2, <4>1, OddRuns
    <3>4. s = r
      BY <3>1, <3>3, PeaksLeft
    <3> QED BY <2>1, <3>1, <3>2, <3>4
  <2>13. LeftChild(nextIndex) = left + 1 /\ lastIndex = left + ParentOffset(h - 1)
    BY <1>2, <2>1, <2>9
  <2> QED BY <1>2, <1>3, <1>5, <2>6, <2>7, <2>9, <2>10, <2>11, <2>12, <2>13 DEF NavigationMatches
<1> QED BY <1>4, <1>5

(* The height of every node, its children, its siblings and the nodes on   *)
(* both sides of its lefts follow from its index, by every method the      *)
(* package has, for every number of leaves.                                *)
THEOREM NodesNavigated == BuildSpec => []NavigationMatches
BY StoreBuilt, NavigationMatchesInv, PTL

(* The peaks of the range as it is now. *)
LEMMA PeaksMatchInv == BuildInv => PeaksMatch
<1> SUFFICES ASSUME BuildInv, nextIndex > 0
             PROVE  PeaksMatch
  BY DEF PeaksMatch
<1>1. PICK h, k, j \in Nat :
        /\ nextIndex = NodePos(h, k) /\ leavesAdded = (k + 1) * 2^h
        /\ Newest = <<h, k>> /\ leavesAdded \in Nat /\ leavesAdded # 0
        /\ MoreToFill(nextIndex, loopHeight) => k = 2 * j + 1
        /\ ~ MoreToFill(nextIndex, loopHeight) => k = 2 * j /\ nextIndex = MMRIndex(leavesAdded)
  BY LoopGoesOn
<1>2. nextIndex \in Nat /\ nextIndex # 0 /\ lastIndex = nextIndex - 1
  BY DEF BuildInv, lastIndex
<1>3. CASE MoreToFill(nextIndex, loopHeight)
  <2>1. k = 2 * j + 1
    BY <1>1, <1>3
  <2>2. PosHeight(nextIndex + 1) > PosHeight(nextIndex)
    <3>1. PosHeight(nextIndex) = h
      BY <1>1, HeightOfNode
    <3>2. PosHeight(nextIndex + 1) = h + 1
      BY <1>1, <2>1, HeightAfter
    <3> QED BY <3>1, <3>2
  <2>3. PeaksOld(nextIndex) = PosPeaks(nextIndex) /\ Peaks(lastIndex) = << >>
    BY <1>2, <2>2, NoOldPeaks
  <2>4. PeaksBitmap(nextIndex) = leavesAdded - 1
    <3>1. leavesAdded - 1 \in Nat /\ leavesAdded - 1 + 1 = leavesAdded
      BY <1>1
    <3>2. nextIndex = MMRIndex(leavesAdded - 1) + 1 + h
      BY <1>1, LastLeafPos
    <3>3. MMRIndex(leavesAdded - 1) <= nextIndex
      BY <3>1, <3>2, MMRIndexBounds
    <3>4. nextIndex < MMRIndex(leavesAdded)
      <4>1. NodePos(h + 1, j) = nextIndex + 1
        BY <1>1, <2>1, ParentPos
      <4>2. (j + 1) * 2^(h + 1) = leavesAdded
        <5>1. PICK y \in Nat : y = 2^h /\ 2^(h + 1) = 2 * y
          BY PowType, PowStep
        <5>2. (j + 1) * (2 * y) = (2 * j + 1 + 1) * y
          OBVIOUS
        <5> QED BY <1>1, <2>1, <5>1, <5>2
      <4>3. NodePos(h + 1, j) <= MMRIndex(leavesAdded)
        <5>1. (j + 1) * 2^(h + 1) <= leavesAdded /\ h + 1 \in Nat
          BY <1>1, <4>2
        <5> QED BY <1>1, <5>1, NodeInRange
      <4>4. MMRIndex(leavesAdded) \in Nat
        BY <1>1, MMRIndexBounds
      <4> QED BY <1>2, <4>1, <4>3, <4>4
    <3>5. PICK n \in Nat : n = leavesAdded - 1 /\ n + 1 = leavesAdded
      BY <3>1
    <3>6. MMRIndex(n) <= nextIndex /\ nextIndex < MMRIndex(n + 1)
      BY <3>3, <3>4, <3>5
    <3>7. PeaksBitmap(nextIndex) = n
      BY <1>2, <3>6, PeaksBitmapIs
    <3> QED BY <3>5, <3>7
  <2> QED BY <1>3, <2>3, <2>4 DEF PeaksMatch
<1>4. CASE ~ MoreToFill(nextIndex, loopHeight)
  <2>1. PICK n \in Nat : n = leavesAdded /\ n # 0 /\ nextIndex = MMRIndex(n)
    BY <1>1, <1>4
  <2>2. PICK q : q = Peaks(lastIndex)
    OBVIOUS
  <2>3. q = Peaks(MMRIndex(n) - 1)
    BY <1>2, <2>1, <2>2
  <2>4. q = Ascending({IndexIn[m] : m \in PeakNodes(leavesAdded)})
    <3>1. \A g, l \in Nat : (l + 1) * 2^g <= n => IndexIn[<<g, l>>] = NodePos(g, l) - 1
      BY <2>1, IndexInIs
    <3>2. Peaks(MMRIndex(n) - 1) = Ascending({IndexIn[m] : m \in PeakNodes(n)})
      BY <2>1, <3>1, PeaksAscend
    <3> QED BY <2>1, <2>3, <3>2
  <2>5. PeaksOld(nextIndex) = PosPeaks(nextIndex)
    BY <2>1, PeaksOldIs
  <2>6. PeaksBitmap(nextIndex) = leavesAdded
    <3>1. MMRIndex(n) <= nextIndex
      BY <1>2, <2>1
    <3>2. nextIndex < MMRIndex(n + 1)
      <4>1. n + 1 \in Nat /\ n <= n + 1
        OBVIOUS
      <4>2. MMRIndex(n) + (n + 1 - n) <= MMRIndex(n + 1) /\ MMRIndex(n + 1) \in Nat
        BY <4>1, MMRIndexMono, MMRIndexBounds
      <4> QED BY <1>2, <2>1, <4>2
    <3>3. PeaksBitmap(nextIndex) = n
      BY <1>2, <3>1, <3>2, PeaksBitmapIs
    <3> QED BY <2>1, <3>3
  <2>7. Len(q) = LeafMinusSpurSum(leavesAdded)
    <3>1. Len(PeaksOver(n)) = LeafMinusSpurSum(n)
      BY HowManyPeaks
    <3> QED BY <2>1, <2>3, <3>1 DEF PeaksOver
  <2>8. /\ MaxPeakHeight(lastIndex) = IndexHeight(q[1])
        /\ TopPeak(lastIndex) = q[1]
        /\ TopHeight(lastIndex) = IndexHeight(q[1])
    <3>1. /\ q[1] = TopPeak(nextIndex - 1)
          /\ \E K \in Nat : /\ TopPeak(nextIndex - 1) = NodePos(K, 0) - 1
                            /\ TopHeight(nextIndex - 1) = K
                            /\ MaxPeakHeight(nextIndex - 1) = K
      BY <2>1, <2>3, TopPeakOf
    <3>2. PICK K \in Nat : /\ q[1] = NodePos(K, 0) - 1
                           /\ TopHeight(lastIndex) = K
                           /\ MaxPeakHeight(lastIndex) = K
      BY <1>2, <3>1
    <3>3. IndexHeight(q[1]) = K
      <4>1. 0 \in Nat
        OBVIOUS
      <4>2. NodePos(K, 0) \in Nat /\ PosHeight(NodePos(K, 0)) = K
        BY <4>1, NodePosBounds, HeightOfNode
      <4>3. q[1] + 1 = NodePos(K, 0)
        BY <3>2, <4>2
      <4> QED BY <4>2, <4>3 DEF IndexHeight
    <3> QED BY <1>2, <3>1, <3>2, <3>3
  <2>9. IsPow2(leavesAdded) <=> q = <<HeightMaxIndex(IndexHeight(lastIndex))>>
    <3>1. IsPow2(n) <=> q = <<HeightMaxIndex(IndexHeight(nextIndex - 1))>>
      BY <2>1, <2>3, OnlyPeak
    <3> QED BY <1>2, <2>1, <3>1
  <2> QED BY <1>4, <2>2, <2>4, <2>5, <2>6, <2>7, <2>8, <2>9 DEF PeaksMatch
<1> QED BY <1>3, <1>4

(* Peaks lists the peaks of a complete range from left to right, PeaksOld  *)
(* the same, and both nothing for an incomplete one; their number, the     *)
(* first of them and the bitmap of the sizes follow from the number of     *)
(* leaves, whatever that is.                                               *)
THEOREM PeaksListed == BuildSpec => []PeaksMatch
BY StoreBuilt, PeaksMatchInv, PTL

-----------------------------------------------------------------------------
(* proofbagged.go: the bag of the peaks                                    *)

(* The hash of a pair tells what was hashed. *)
LEMMA PairTells ==
  ASSUME NEW a, NEW b, NEW c, NEW d, HashPair(a, b) = HashPair(c, d)
  PROVE  a = c /\ b = d
BY DEF HashPair

(* The bags of the peaks from each one on, the last of which is a peak *)
Bags(ph, B) ==
  /\ B[Len(ph)] = ph[Len(ph)]
  /\ \A y \in 1 .. Len(ph) - 1 : B[y] = HashPair(B[y + 1], ph[y])

(* A part of a sequence *)
LEMMA PartOf ==
  ASSUME NEW H, NEW s \in Seq(H), NEW a \in Nat, NEW b \in Nat, a >= 1, b <= Len(s), a <= b + 1
  PROVE  /\ SubSeq(s, a, b) \in Seq(H) /\ Len(SubSeq(s, a, b)) = b - a + 1
         /\ \A x \in 1 .. b - a + 1 : SubSeq(s, a, b)[x] = s[a + x - 1]
<1>1. \A x \in 1 .. b - a + 1 : a + x - 1 \in 1 .. Len(s) /\ x \in Nat
  OBVIOUS
<1>2. \A x \in 1 .. b - a + 1 : s[a + x - 1] \in H
  BY <1>1
<1>3. SubSeq(s, a, b) = [x \in 1 .. b - a + 1 |-> s[a + x - 1]]
  OBVIOUS
<1>4. b - a + 1 \in Nat
  OBVIOUS
<1> DEFINE t == [x \in 1 .. b - a + 1 |-> s[a + x - 1]]
<1>5. t \in Seq(H) /\ Len(t) = b - a + 1 /\ \A x \in 1 .. b - a + 1 : t[x] = s[a + x - 1]
  BY <1>2, <1>4
<1> QED BY <1>3, <1>5

(* HashPeaksRHS makes them, from the last to the first. *)
LEMMA BagIs ==
  ASSUME NEW H, PairsOf(H) \subseteq H, NEW ph \in Seq(H), ph # << >>
  PROVE  \E B \in [1 .. Len(ph) -> H] : Bags(ph, B) /\ HashPeaksRHS(ph) = B[1]
<1> DEFINE N == Len(ph)
           base == ph[N]
           seq == Reverse(Front(ph))
           Op == [p \in H \X H |-> HashPair(p[1], p[2])]
           Is(f) == f = [s \in SUBSET DOMAIN seq |->
                           IF s = {} THEN base ELSE HashPair(f[s \ {Max(s)}], seq[Max(s)])]
           F == CHOOSE f : Is(f)
<1>1. HashPeaksRHS(ph) = F[DOMAIN seq]
  BY DEF HashPeaksRHS, FoldLeft, MapThenFoldSet, Last
<1>2. N \in Nat /\ N # 0 /\ N - 1 \in Nat /\ base \in H /\ \A y \in 1 .. N : ph[y] \in H
  BY DEF Last
<1>3. seq \in Seq(H) /\ Len(seq) = N - 1 /\ \A j \in 1 .. N - 1 : seq[j] = ph[N - j]
  <2>1. Front(ph) \in Seq(H) /\ Len(Front(ph)) = N - 1 /\ \A x \in 1 .. N - 1 : Front(ph)[x] = ph[x]
    <3>1. 1 \in Nat /\ 1 >= 1 /\ N - 1 <= N /\ 1 <= N - 1 + 1 /\ N - 1 - 1 + 1 = N - 1
      BY <1>2
    <3>2. /\ Front(ph) \in Seq(H) /\ Len(Front(ph)) = N - 1 - 1 + 1
          /\ \A x \in 1 .. N - 1 - 1 + 1 : Front(ph)[x] = ph[1 + x - 1]
      BY <1>2, <3>1, PartOf DEF Front
    <3>3. \A x \in 1 .. N - 1 : 1 + x - 1 = x
      BY <1>2
    <3> HIDE DEF N
    <3> QED BY <3>1, <3>2, <3>3
  <2>2. seq = [x \in 1 .. N - 1 |-> Front(ph)[N - 1 - x + 1]]
    BY <2>1 DEF Reverse
  <2>3. ASSUME NEW x \in 1 .. N - 1 PROVE seq[x] = ph[N - x] /\ seq[x] \in H
    <3>1. N - 1 - x + 1 = N - x /\ N - x \in 1 .. N - 1 /\ N - x \in 1 .. N
      BY <1>2
    <3>2. Front(ph)[N - x] = ph[N - x]
      BY <2>1, <3>1
    <3> HIDE DEF seq
    <3> QED BY <1>2, <2>2, <3>1, <3>2
  <2> HIDE DEF seq
  <2>4. seq \in Seq(H) /\ Len(seq) = N - 1
    BY <1>2, <2>2, <2>3
  <2> QED BY <2>3, <2>4
<1>4. /\ Op \in [H \X H -> H]
      /\ \A a, b \in H : Op[<<a, b>>] = HashPair(a, b) /\ HashPair(a, b) \in H
  <2>1. \A a, b \in H : HashPair(a, b) \in H
    <3>1. 0 \in Nat
      OBVIOUS
    <3> QED BY <3>1 DEF HashPair, PairsOf
  <2> QED BY <2>1
<1> HIDE DEF Op, N, base, seq
<1>5. \E f : Is(f)
  <2>1. PICK f : FoldEquation(f, H, Op, base, seq)
    BY <1>2, <1>3, <1>4, FoldSolution
  <2>2. /\ f \in [SUBSET DOMAIN seq -> H]
        /\ f = [s \in SUBSET DOMAIN seq |->
                 IF s = {} THEN base ELSE Op[<<f[s \ {Max(s)}], seq[Max(s)]>>]]
    BY <2>1 DEF FoldEquation
  <2>3. ASSUME NEW s \in SUBSET DOMAIN seq, s # {}
        PROVE  Op[<<f[s \ {Max(s)}], seq[Max(s)]>>] = HashPair(f[s \ {Max(s)}], seq[Max(s)])
    <3>1. seq[Max(s)] \in H
      BY <1>3, <2>3, MaxOfIndices
    <3>2. f[s \ {Max(s)}] \in H
      BY <2>2
    <3> QED BY <1>4, <3>1, <3>2
  <2>4. Is(f)
    BY <2>2, <2>3
  <2> QED BY <2>4
<1>6. Is(F)
  <2> HIDE DEF Is
  <2> QED BY <1>5
<1> HIDE DEF F
<1>7. PICK r : FoldsTo(r, H, Op, base, seq, F[DOMAIN seq])
  <2>1. F[{}] = base
    BY <1>6
  <2>2. ASSUME NEW s \in SUBSET DOMAIN seq, s # {}, F[s \ {Max(s)}] \in H
        PROVE  F[s] = Op[<<F[s \ {Max(s)}], seq[Max(s)]>>]
    <3>1. seq[Max(s)] \in H
      BY <1>3, <2>2, MaxOfIndices
    <3>2. F[s] = HashPair(F[s \ {Max(s)}], seq[Max(s)])
      BY <1>6, <2>2
    <3> HIDE DEF Is
    <3> QED BY <1>4, <2>2, <3>1, <3>2
  <2> HIDE DEF Is
  <2> QED BY <1>2, <1>3, <1>4, <2>1, <2>2, FoldRun
<1>8. /\ r \in [0 .. N - 1 -> H] /\ r[0] = base /\ r[N - 1] = HashPeaksRHS(ph)
      /\ \A j \in 1 .. N - 1 : r[j] = HashPair(r[j - 1], ph[N - j])
  <2>1. r \in [0 .. N - 1 -> H] /\ r[0] = base /\ r[N - 1] = HashPeaksRHS(ph)
    BY <1>1, <1>3, <1>7 DEF FoldsTo
  <2>2. ASSUME NEW j \in 1 .. N - 1 PROVE r[j] = HashPair(r[j - 1], ph[N - j])
    <3>1. j - 1 \in 0 .. N - 1 /\ N - j \in 1 .. N
      BY <1>2
    <3>2. r[j] = Op[<<r[j - 1], seq[j]>>]
      BY <1>3, <1>7 DEF FoldsTo
    <3>3. r[j - 1] \in H /\ seq[j] = ph[N - j] /\ ph[N - j] \in H
      BY <1>2, <1>3, <2>1, <3>1
    <3> QED BY <1>4, <3>2, <3>3
  <2> QED BY <2>1, <2>2
<1> DEFINE B == [y \in 1 .. N |-> r[N - y]]
<1>9. B \in [1 .. N -> H] /\ B[1] = HashPeaksRHS(ph) /\ B[N] = ph[N]
  <2>1. 1 \in 1 .. N /\ N \in 1 .. N /\ N - N = 0 /\ \A y \in 1 .. N : N - y \in 0 .. N - 1
    BY <1>2
  <2> QED BY <1>8, <2>1 DEF base
<1>10. ASSUME NEW y \in 1 .. N - 1 PROVE B[y] = HashPair(B[y + 1], ph[y])
  <2>1. /\ N - y \in 1 .. N - 1 /\ N - (y + 1) = N - y - 1 /\ N - (N - y) = y
        /\ y \in 1 .. N /\ y + 1 \in 1 .. N
    BY <1>2
  <2>2. B[y] = r[N - y] /\ B[y + 1] = r[N - y - 1]
    BY <2>1
  <2>3. r[N - y] = HashPair(r[N - y - 1], ph[N - (N - y)])
    BY <1>8, <2>1
  <2> QED BY <2>1, <2>2, <2>3
<1> HIDE DEF B
<1>11. Bags(ph, B)
  BY <1>9, <1>10 DEF Bags, N
<1> QED BY <1>9, <1>11 DEF N

(* The bags are what the peaks make them. *)
LEMMA BagsUnique ==
  ASSUME NEW H, NEW ph \in Seq(H), ph # << >>, NEW B, Bags(ph, B), NEW C, Bags(ph, C),
         NEW y \in 1 .. Len(ph)
  PROVE  B[y] = C[y]
<1> DEFINE N == Len(ph)
           S == {x \in Nat : B[N - x] = C[N - x]}
<1>1. N \in Nat /\ N - 1 \in Nat
  OBVIOUS
<1>2. 0 \in S
  <2>1. N - 0 = N
    BY <1>1
  <2> QED BY <2>1 DEF Bags
<1>3. ASSUME NEW x \in 1 .. N - 1, x - 1 \in S PROVE x \in S
  <2>1. x \in Nat /\ N - x \in 1 .. N - 1 /\ N - (x - 1) = N - x + 1
    BY <1>1
  <2>2. B[N - x + 1] = C[N - x + 1]
    BY <1>3, <2>1
  <2>3. B[N - x] = HashPair(B[N - x + 1], ph[N - x]) /\ C[N - x] = HashPair(C[N - x + 1], ph[N - x])
    BY <2>1 DEF Bags
  <2> QED BY <2>1, <2>2, <2>3
<1>4. N - y \in 0 .. N - 1 /\ N - (N - y) = y
  BY <1>1
<1>5. N - y \in S
  <2> HIDE DEF S, N
  <2>1. \A x \in 0 .. N - 1 : x \in S
    BY <1>1, <1>2, <1>3, UpTo
  <2> QED BY <1>4, <2>1
<1> QED BY <1>4, <1>5

(* The bag of the peaks from one on *)
LEMMA BagFrom ==
  ASSUME NEW H, PairsOf(H) \subseteq H, NEW ph \in Seq(H), ph # << >>, NEW B, Bags(ph, B),
         NEW y \in 1 .. Len(ph)
  PROVE  HashPeaksRHS(SubSeq(ph, y, Len(ph))) = B[y]
<1> DEFINE N == Len(ph)
           s == SubSeq(ph, y, N)
           C == [x \in 1 .. N - y + 1 |-> B[y + x - 1]]
<1>1. /\ N \in Nat /\ y \in Nat /\ y >= 1 /\ y <= N /\ N - y + 1 \in Nat /\ N - y + 1 # 0
  OBVIOUS
<1>2. s \in Seq(H) /\ Len(s) = N - y + 1 /\ s # << >>
      /\ \A x \in 1 .. N - y + 1 : s[x] = ph[y + x - 1]
  <2>1. N <= Len(ph) /\ y <= N + 1
    BY <1>1
  <2>2. /\ s \in Seq(H) /\ Len(s) = N - y + 1
        /\ \A x \in 1 .. N - y + 1 : s[x] = ph[y + x - 1]
    BY <1>1, <2>1, PartOf
  <2> HIDE DEF s, N
  <2>3. s # << >>
    BY <1>1, <2>2
  <2> QED BY <2>2, <2>3
<1> HIDE DEF s
<1>3. PICK A \in [1 .. Len(s) -> H] : Bags(s, A) /\ HashPeaksRHS(s) = A[1]
  BY <1>2, BagIs
<1>4. C[N - y + 1] = s[N - y + 1]
  <2>1. y + (N - y + 1) - 1 = N /\ N - y + 1 \in 1 .. N - y + 1
    BY <1>1
  <2>2. s[N - y + 1] = ph[N]
    BY <1>2, <2>1
  <2>3. C[N - y + 1] = B[N]
    BY <2>1
  <2> QED BY <2>2, <2>3 DEF Bags
<1>5. ASSUME NEW x \in 1 .. N - y + 1 - 1 PROVE C[x] = HashPair(C[x + 1], s[x])
  <2>1. /\ x \in 1 .. N - y + 1 /\ x + 1 \in 1 .. N - y + 1 /\ y + x - 1 \in 1 .. N - 1
        /\ y + (x + 1) - 1 = y + x - 1 + 1
    BY <1>1
  <2>2. C[x] = B[y + x - 1] /\ C[x + 1] = B[y + x - 1 + 1] /\ s[x] = ph[y + x - 1]
    BY <1>2, <2>1
  <2>3. B[y + x - 1] = HashPair(B[y + x - 1 + 1], ph[y + x - 1])
    BY <2>1 DEF Bags
  <2> QED BY <2>2, <2>3
<1>6. C[1] = B[y]
  <2>1. 1 \in 1 .. N - y + 1 /\ y + 1 - 1 = y
    BY <1>1
  <2> QED BY <2>1
<1> HIDE DEF C
<1>7. Bags(s, C)
  BY <1>2, <1>4, <1>5 DEF Bags
<1>8. A[1] = C[1]
  <2>1. 1 \in 1 .. Len(s)
    BY <1>1, <1>2
  <2> QED BY <1>2, <1>3, <1>7, <2>1, BagsUnique
<1> QED BY <1>3, <1>6, <1>8 DEF s

(* The bag tells the peaks, of two lists of the same length, and of any    *)
(* lists if no peak can be taken for a bag.                                *)
LEMMA BagTells ==
  ASSUME NEW H, PairsOf(H) \subseteq H, NEW ph \in Seq(H), ph # << >>,
         NEW qh \in Seq(H), qh # << >>, HashPeaksRHS(ph) = HashPeaksRHS(qh),
         \/ Len(ph) = Len(qh)
         \/ \A a, b : ph[Len(ph)] # HashPair(a, b) /\ qh[Len(qh)] # HashPair(a, b)
  PROVE  ph = qh
<1> DEFINE N == Len(ph)
           M == Len(qh)
<1>1. N \in Nat /\ N # 0 /\ M \in Nat /\ M # 0
  OBVIOUS
<1>2. PICK B \in [1 .. N -> H] : Bags(ph, B) /\ HashPeaksRHS(ph) = B[1]
  BY BagIs
<1>3. PICK C \in [1 .. M -> H] : Bags(qh, C) /\ HashPeaksRHS(qh) = C[1]
  BY BagIs
<1> HIDE DEF N, M
<1> DEFINE S == {x \in Nat : B[x + 1] = C[x + 1] /\ \A y \in 1 .. x : ph[y] = qh[y]}
           L == IF N <= M THEN N ELSE M
<1>4. L \in Nat /\ L # 0 /\ L <= N /\ L <= M /\ (L = N \/ L = M) /\ L - 1 \in Nat
  BY <1>1
<1> HIDE DEF L
<1>5. 0 \in S
  <2>1. 0 + 1 = 1 /\ 1 .. 0 = {}
    OBVIOUS
  <2> QED BY <1>2, <1>3, <2>1
<1>6. ASSUME NEW x \in 1 .. L - 1, x - 1 \in S PROVE x \in S
  <2>1. x \in Nat /\ x - 1 + 1 = x /\ x \in 1 .. N - 1 /\ x \in 1 .. M - 1
    BY <1>1, <1>4
  <2>2. B[x] = C[x] /\ \A y \in 1 .. x - 1 : ph[y] = qh[y]
    BY <1>6, <2>1
  <2>3. B[x] = HashPair(B[x + 1], ph[x]) /\ C[x] = HashPair(C[x + 1], qh[x])
    BY <1>2, <1>3, <2>1 DEF Bags, N, M
  <2>4. B[x + 1] = C[x + 1] /\ ph[x] = qh[x]
    <3>1. HashPair(B[x + 1], ph[x]) = HashPair(C[x + 1], qh[x])
      BY <2>2, <2>3
    <3> QED BY <3>1, PairTells
  <2>5. \A y \in 1 .. x : y = x \/ y \in 1 .. x - 1
    BY <2>1
  <2> QED BY <2>1, <2>2, <2>4, <2>5
<1>7. L - 1 \in S
  <2> HIDE DEF S
  <2>1. \A x \in 0 .. L - 1 : x \in S
    BY <1>4, <1>5, <1>6, UpTo
  <2>2. L - 1 \in 0 .. L - 1
    BY <1>4
  <2> QED BY <2>1, <2>2
<1>8. B[L] = C[L] /\ \A y \in 1 .. L - 1 : ph[y] = qh[y]
  <2>1. L - 1 + 1 = L
    BY <1>4
  <2> QED BY <1>7, <2>1
<1>9. N = M
  <2>1. ASSUME L = N, L # M PROVE FALSE
    <3>1. L \in 1 .. M - 1
      BY <1>1, <1>4, <2>1
    <3>2. C[L] = HashPair(C[L + 1], qh[L]) /\ B[L] = ph[N]
      BY <1>2, <1>3, <2>1, <3>1 DEF Bags, N, M
    <3>3. N # M
      BY <2>1
    <3> QED BY <1>8, <3>2, <3>3 DEF N, M
  <2>2. ASSUME L = M, L # N PROVE FALSE
    <3>1. L \in 1 .. N - 1
      BY <1>1, <1>4, <2>2
    <3>2. B[L] = HashPair(B[L + 1], ph[L]) /\ C[L] = qh[M]
      BY <1>2, <1>3, <2>2, <3>1 DEF Bags, N, M
    <3>3. N # M
      BY <2>2
    <3> QED BY <1>8, <3>2, <3>3 DEF N, M
  <2> QED BY <1>4, <2>1, <2>2
<1>10. \A y \in 1 .. N : ph[y] = qh[y]
  <2>1. L = N /\ B[L] = ph[N] /\ C[L] = qh[N]
    BY <1>2, <1>3, <1>4, <1>9 DEF Bags, N, M
  <2>2. \A y \in 1 .. N : y = N \/ y \in 1 .. N - 1
    BY <1>1
  <2> QED BY <1>8, <2>1, <2>2
<1>11. ph = [y \in 1 .. N |-> ph[y]] /\ qh = [y \in 1 .. N |-> qh[y]]
  BY <1>9 DEF N, M
<1> QED BY <1>10, <1>11

Ascends(q) == \A i, j \in 1 .. Len(q) : i < j => q[i] < q[j]

(* The positions of some nodes, and what is read there *)
PosOf(q) == [k \in DOMAIN q |-> q[k] + 1]
ReadAt(store, q) == [k \in DOMAIN q |-> store[q[k]]]

(* How many peaks there are up to one of them *)
LEMMA PeaksUpTo ==
  ASSUME NEW q \in Seq(Nat), Ascends(q), NEW y \in 1 .. Len(q)
  PROVE  /\ Cardinality({k \in DOMAIN PosOf(q) : PosOf(q)[k] <= q[y] + 1}) = y
         /\ Cardinality({k \in DOMAIN PosOf(q) : PosOf(q)[k] < q[y] + 1}) = y - 1
         /\ Cardinality({k \in DOMAIN PosOf(q) : PosOf(q)[k] <= 0}) = 0
<1> DEFINE P == PosOf(q)
<1>1. DOMAIN P = 1 .. Len(q) /\ Len(q) \in Nat /\ \A k \in 1 .. Len(q) : P[k] = q[k] + 1 /\ q[k] \in Nat
  BY DEF PosOf
<1>2. ASSUME NEW k \in 1 .. Len(q)
      PROVE  /\ P[k] <= q[y] + 1 <=> k <= y
             /\ P[k] < q[y] + 1 <=> k < y
             /\ ~ (P[k] <= 0)
  <2>1. P[k] = q[k] + 1 /\ q[k] \in Nat /\ q[y] \in Nat
    BY <1>1
  <2>2. /\ k < y => q[k] < q[y]
        /\ y < k => q[y] < q[k]
    BY DEF Ascends
  <2>3. k \in Nat /\ y \in Nat
    BY <1>1
  <2> QED BY <2>1, <2>2, <2>3
<1>3. {k \in DOMAIN P : P[k] <= q[y] + 1} = 1 .. y
  <2>1. \A k : k \in 1 .. y <=> k \in 1 .. Len(q) /\ k <= y
    BY <1>1
  <2> QED BY <1>1, <1>2, <2>1
<1>4. {k \in DOMAIN P : P[k] < q[y] + 1} = 1 .. y - 1
  <2>1. \A k : k \in 1 .. y - 1 <=> k \in 1 .. Len(q) /\ k < y
    BY <1>1
  <2> QED BY <1>1, <1>2, <2>1
<1>5. {k \in DOMAIN P : P[k] <= 0} = 1 .. 0
  <2>1. 1 .. 0 = {}
    OBVIOUS
  <2> QED BY <1>1, <1>2, <2>1
<1>6. \A z \in Nat : Cardinality(1 .. z) = z
  <2> SUFFICES ASSUME NEW z \in Nat PROVE Cardinality(1 .. z) = z
    OBVIOUS
  <2>1. Cardinality(1 .. z) = IF 1 > z THEN 0 ELSE z - 1 + 1
    BY FS_Interval
  <2> QED BY <2>1
<1>7. y \in Nat /\ y - 1 \in Nat /\ 0 \in Nat
  BY <1>1
<1> QED BY <1>3, <1>4, <1>5, <1>6, <1>7

(* The hashes of some of the peaks *)
LEMMA HashesOfPart ==
  ASSUME NEW q \in Seq(Nat), NEW store,
         NEW a \in Nat, NEW b \in Nat, a >= 1, b <= Len(q), a <= b + 1
  PROVE  HashesAt(store, SubSeq(PosOf(q), a, b)) = SubSeq(ReadAt(store, q), a, b)
<1> DEFINE P == PosOf(q)
           ph == ReadAt(store, q)
           W == {store[q[k]] : k \in DOMAIN q}
           u == SubSeq(P, a, b)
           w == SubSeq(ph, a, b)
<1>1. DOMAIN q = 1 .. Len(q) /\ Len(q) \in Nat /\ \A k \in 1 .. Len(q) : q[k] \in Nat
  OBVIOUS
<1>2. P \in Seq(Nat) /\ Len(P) = Len(q) /\ \A k \in 1 .. Len(q) : P[k] = q[k] + 1
  BY <1>1 DEF PosOf
<1>3. ph \in Seq(W) /\ Len(ph) = Len(q) /\ \A k \in 1 .. Len(q) : ph[k] = store[q[k]]
  BY <1>1 DEF ReadAt
<1>4. /\ u \in Seq(Nat) /\ Len(u) = b - a + 1
      /\ \A x \in 1 .. b - a + 1 : u[x] = P[a + x - 1]
  BY <1>2, PartOf
<1>5. /\ w \in Seq(W) /\ Len(w) = b - a + 1
      /\ \A x \in 1 .. b - a + 1 : w[x] = ph[a + x - 1]
  <2> HIDE DEF W
  <2> QED BY <1>3, PartOf
<1> HIDE DEF u, w, W, P, ph
<1>6. \A x \in 1 .. b - a + 1 : store[u[x] - 1] = w[x]
  <2> SUFFICES ASSUME NEW x \in 1 .. b - a + 1 PROVE store[u[x] - 1] = w[x]
    OBVIOUS
  <2>1. a + x - 1 \in 1 .. Len(q)
    BY <1>1
  <2>2. u[x] = q[a + x - 1] + 1 /\ w[x] = store[q[a + x - 1]] /\ q[a + x - 1] \in Nat
    BY <1>1, <1>2, <1>3, <1>4, <1>5, <2>1
  <2> DEFINE z == q[a + x - 1]
  <2>3. u[x] = z + 1 /\ z \in Nat /\ w[x] = store[z]
    BY <2>2
  <2> HIDE DEF z
  <2>4. u[x] - 1 = z
    BY <2>3
  <2> QED BY <2>3, <2>4
<1>7. HashesAt(store, u) = [x \in 1 .. b - a + 1 |-> store[u[x] - 1]]
  <2>1. DOMAIN u = 1 .. b - a + 1
    BY <1>4
  <2> QED BY <2>1 DEF HashesAt
<1>8. w = [x \in 1 .. b - a + 1 |-> w[x]]
  BY <1>5
<1> QED BY <1>6, <1>7, <1>8 DEF u, w, P, ph

(* The hashes of all the peaks, and of those on each side of one *)
LEMMA PeaksAside ==
  ASSUME NEW store, NEW q \in Seq(Nat), Ascends(q), NEW y \in 1 .. Len(q)
  PROVE  /\ PeakBagRHS(store, q[y] + 1, PosOf(q)) = SubSeq(ReadAt(store, q), y + 1, Len(q))
         /\ PeaksLHS(store, q[y] + 1, PosOf(q)) = SubSeq(ReadAt(store, q), 1, y - 1)
         /\ PeakBagRHS(store, 0, PosOf(q)) = ReadAt(store, q)
<1> DEFINE P == PosOf(q)
           ph == ReadAt(store, q)
           M == Len(q)
<1>1. M \in Nat /\ y \in Nat /\ 1 <= y /\ y <= M
  OBVIOUS
<1>3. Len(P) = M /\ Len(ph) = M
  <2>1. DOMAIN q = 1 .. M
    OBVIOUS
  <2> QED BY <1>1, <2>1 DEF PosOf, ReadAt
<1> HIDE DEF P, ph
<1>4. /\ Cardinality({k \in DOMAIN P : P[k] <= q[y] + 1}) = y
      /\ Cardinality({k \in DOMAIN P : P[k] < q[y] + 1}) = y - 1
      /\ Cardinality({k \in DOMAIN P : P[k] <= 0}) = 0
  BY PeaksUpTo DEF P
<1>5. PeakBagRHS(store, q[y] + 1, P) = SubSeq(ph, y + 1, M)
  <2>1. PeakBagRHS(store, q[y] + 1, P) = HashesAt(store, SubSeq(P, y + 1, M))
    BY <1>3, <1>4 DEF PeakBagRHS
  <2>2. y + 1 \in Nat /\ y + 1 >= 1 /\ M <= Len(q) /\ y + 1 <= M + 1
    BY <1>1
  <2> QED BY <1>1, <2>1, <2>2, HashesOfPart DEF P, ph
<1>6. PeaksLHS(store, q[y] + 1, P) = SubSeq(ph, 1, y - 1)
  <2>1. PeaksLHS(store, q[y] + 1, P) = HashesAt(store, SubSeq(P, 1, y - 1))
    BY <1>4 DEF PeaksLHS
  <2>2. y - 1 \in Nat /\ 1 \in Nat /\ 1 >= 1 /\ y - 1 <= Len(q) /\ 1 <= y - 1 + 1
    BY <1>1
  <2> QED BY <1>1, <2>1, <2>2, HashesOfPart DEF P, ph
<1>7. PeakBagRHS(store, 0, P) = ph
  <2>1. PeakBagRHS(store, 0, P) = HashesAt(store, SubSeq(P, 1, M))
    <3>1. 0 + 1 = 1
      OBVIOUS
    <3> QED BY <1>3, <1>4, <3>1 DEF PeakBagRHS
  <2>2. 1 \in Nat /\ 1 >= 1 /\ M <= Len(q) /\ 1 <= M + 1
    BY <1>1
  <2>3. HashesAt(store, SubSeq(P, 1, M)) = SubSeq(ph, 1, M)
    BY <1>1, <2>2, HashesOfPart DEF P, ph
  <2>4. SubSeq(ph, 1, M) = ph
    <3> DEFINE W == {store[q[k]] : k \in DOMAIN q}
               w == SubSeq(ph, 1, M)
    <3>1. ph \in Seq(W)
      <4>1. \A k \in 1 .. M : ph[k] \in W
        BY DEF ReadAt, ph
      <4>2. ph = [k \in 1 .. M |-> ph[k]]
        BY DEF ReadAt, ph
      <4> HIDE DEF W
      <4> QED BY <1>1, <4>1, <4>2
    <3>2. 1 <= M + 1 /\ M <= Len(ph) /\ M - 1 + 1 = M
      BY <1>1, <1>3
    <3>3. 1 \in Nat /\ 1 >= 1
      OBVIOUS
    <3> HIDE DEF W
    <3>4. w \in Seq(W) /\ Len(w) = M /\ \A x \in 1 .. M - 1 + 1 : w[x] = ph[1 + x - 1]
      BY <1>1, <3>1, <3>2, <3>3, PartOf
    <3>5. \A x \in 1 .. M : w[x] = ph[x]
      <4>1. \A x \in 1 .. M : 1 + x - 1 = x
        BY <1>1
      <4> QED BY <3>2, <3>4, <4>1
    <3> HIDE DEF w
    <3>6. w = [x \in 1 .. M |-> w[x]] /\ ph = [x \in 1 .. M |-> ph[x]]
      BY <1>3, <3>1, <3>4
    <3>7. w = ph
      BY <3>5, <3>6
    <3> QED BY <3>7 DEF w
  <2> QED BY <2>1, <2>3, <2>4
<1> QED BY <1>5, <1>6, <1>7 DEF P, ph

(* The peaks of a range, and their hashes: all but the last peak are       *)
(* interior nodes, whose hash has their position.                          *)
PeaksOfRange(H, ns, n, q, ph) ==
  /\ Tiles(q, n) /\ q # << >> /\ Ascends(q)
  /\ ph \in Seq(H) /\ Len(ph) = Len(q)
  /\ \A j \in 1 .. Len(q), h, k \in Nat : PeakAt(q, n, j, h, k) => ph[j] = ns[NodePos(h, k)]
  /\ \A j \in 1 .. Len(q) : j # Len(q) => \E a, b : ph[j] = HashPosPair64(q[j] + 1, a, b)

(* Peaks and PeakHashes list them. *)
LEMMA PeaksOfRangeAre ==
  ASSUME NEW LeafValues, NEW H, NEW ns, NEW vs, TreeOf(LeafValues, H, ns, vs), Len(vs) # 0
  PROVE  /\ PeaksOfRange(H, ns, Len(vs), Peaks(Len(ns) - 1), PeakHashes(StoreOf(ns), Len(ns) - 1))
         /\ PosPeaks(Len(ns)) = PosOf(Peaks(Len(ns) - 1))
         /\ PeakHashes(StoreOf(ns), Len(ns) - 1) = ReadAt(StoreOf(ns), Peaks(Len(ns) - 1))
<1> DEFINE q == Peaks(Len(ns) - 1)
           ph == PeakHashes(StoreOf(ns), Len(ns) - 1)
           n == Len(vs)
<1>1. n \in Nat /\ n # 0 /\ Len(ns) = MMRIndex(n) /\ PeakList(LeafValues, H, ns, vs, q, ph)
  <2>1. n \in Nat /\ Len(ns) = MMRIndex(n)
    BY TreeNodes DEF TreeOf, RangeOver
  <2> QED BY <2>1, PeakHashesOf
<1>2. ListsPeaks(q, 0, n)
  BY <1>1, PeaksAre
<1>3. Tiles(q, n)
  BY <1>1, PeaksTile
<1>4. PosPeaks(Len(ns)) = PosOf(q) /\ ph = ReadAt(StoreOf(ns), q)
  BY DEF PosPeaks, PosOf, PeakHashes, ReadAt
<1> HIDE DEF q, ph, n
<1>5. q \in Seq(Nat) /\ ph \in Seq(H) /\ Len(ph) = Len(q) /\ Ascends(q)
  BY <1>1, <1>2 DEF PeakList, ListsPeaks, Ascends
<1>6. Len(q) \in Nat /\ q # << >>
  <2>1. 0 < n
    BY <1>1
  <2>2. \E j \in 1 .. Len(q) : TRUE
    BY <2>1, <1>3 DEF Tiles
  <2> QED BY <1>5, <2>2
<1>7. ASSUME NEW j \in 1 .. Len(q), NEW h \in Nat, NEW k \in Nat, PeakAt(q, n, j, h, k)
      PROVE  ph[j] = ns[NodePos(h, k)] /\ Stamped(LeafValues, ph[j], h, k)
  <2>1. PICK g \in Nat, l \in Nat :
          /\ IsPeak(q[j], n, g, l) /\ ph[j] = ns[NodePos(g, l)]
          /\ Stamped(LeafValues, ns[NodePos(g, l)], g, l)
    BY <1>1 DEF PeakList, n
  <2>2. g = h /\ l = k
    <3>1. NodePos(g, l) \in Nat /\ NodePos(h, k) \in Nat
      BY NodePosBounds
    <3>2. NodePos(g, l) = NodePos(h, k)
      BY <1>7, <2>1, <3>1 DEF IsPeak, PeakAt
    <3> QED BY <3>2, NodePosUnique
  <2> QED BY <2>1, <2>2
<1>8. ASSUME NEW j \in 1 .. Len(q), j # Len(q)
      PROVE  \E a, b : ph[j] = HashPosPair64(q[j] + 1, a, b)
  <2>1. Len(q) \in 1 .. Len(q) /\ j < Len(q)
    BY <1>6, <1>8
  <2>2. PICK h \in Nat, k \in Nat : PeakAt(q, n, j, h, k)
    BY <1>3 DEF Tiles
  <2>3. PICK g \in Nat, l \in Nat : PeakAt(q, n, Len(q), g, l)
    BY <1>3, <2>1 DEF Tiles
  <2>4. g < h
    BY <1>1, <1>3, <2>1, <2>2, <2>3, PeaksDescend
  <2>5. h # 0
    BY <2>4
  <2>6. q[j] + 1 = NodePos(h, k)
    <3>1. NodePos(h, k) \in Nat
      BY NodePosBounds
    <3> QED BY <2>2, <3>1 DEF PeakAt
  <2>7. Stamped(LeafValues, ph[j], h, k)
    BY <1>7, <2>2
  <2> QED BY <2>5, <2>6, <2>7 DEF Stamped
<1>9. PeaksOfRange(H, ns, n, q, ph)
  BY <1>3, <1>5, <1>6, <1>7, <1>8 DEF PeaksOfRange
<1> QED BY <1>4, <1>9 DEF q, ph, n

(* Where a climb is: not above the peak it ends at, on no peak before it   *)
(* ends, and to the right of the peaks before.                             *)
Climbs(q, n, p, K, h, k, y) ==
  /\ \A x \in 0 .. Len(p) :
       /\ K[x] \in Nat
       /\ NodePos(h + x, K[x]) <= NodePos(h + Len(p), K[Len(p)])
       /\ x # Len(p) => \A j \in 1 .. Len(q) : q[j] + 1 # NodePos(h + x, K[x])
  /\ \A j \in 1 .. Len(q) : j < y => q[j] + 1 < NodePos(h, k)

(* Every climb to the peak is like that. *)
LEMMA ClimbsBelow ==
  ASSUME NEW n \in Nat, NEW h \in Nat, NEW k \in Nat, NEW p, NEW K, ClimbsFrom(p, K, n, h, k),
         NEW q, Tiles(q, n), NEW y \in 1 .. Len(q), PeakAt(q, n, y, h + Len(p), K[Len(p)])
  PROVE  Climbs(q, n, p, K, h, k, y)
<1> DEFINE N == Len(p)
           top == NodePos(h + N, K[N])
<1>1. p \in Seq(Nat) /\ K \in [0 .. N -> Nat] /\ K[0] = k /\ N \in Nat
  <2>1. p \in Seq(Nat) /\ K \in [0 .. N -> Nat] /\ K[0] = k
    BY DEF ClimbsFrom, Climbing
  <2> QED BY <2>1
<1>2. \A x \in 0 .. N : K[x] \in Nat /\ h + x \in Nat /\ NodePos(h + x, K[x]) \in Nat
  <2> SUFFICES ASSUME NEW x \in 0 .. N
               PROVE  K[x] \in Nat /\ h + x \in Nat /\ NodePos(h + x, K[x]) \in Nat
    OBVIOUS
  <2>1. K[x] \in Nat /\ h + x \in Nat
    BY <1>1
  <2> QED BY <2>1, NodePosBounds
<1>3. ASSUME NEW x \in 1 .. N
      PROVE  /\ K[x - 1] = 2 * K[x] \/ K[x - 1] = 2 * K[x] + 1
             /\ (K[x] + 1) * 2^(h + x) <= n
             /\ h + x - 1 \in Nat /\ h + x - 1 + 1 = h + x /\ h + (x - 1) = h + x - 1
             /\ x \in 0 .. N /\ x - 1 \in 0 .. N /\ x \in Nat
  <2>1. x \in 0 .. N /\ x - 1 \in 0 .. N /\ x \in Nat /\ h + x - 1 \in Nat
        /\ h + x - 1 + 1 = h + x /\ h + (x - 1) = h + x - 1
    BY <1>1
  <2> QED BY <2>1 DEF ClimbsFrom, Climbing
<1> HIDE DEF N
<1>4. ASSUME NEW x \in 1 .. N
      PROVE  NodePos(h + (x - 1), K[x - 1]) < NodePos(h + x, K[x])
  <2> DEFINE g == h + x - 1
             j == K[x]
             l == K[x - 1]
  <2>1. g \in Nat /\ g + 1 = h + x /\ h + (x - 1) = g /\ j \in Nat /\ l \in Nat
        /\ (l = 2 * j \/ l = 2 * j + 1)
    BY <1>2, <1>3
  <2> HIDE DEF g, j, l
  <2>2. /\ NodePos(g + 1, j) = NodePos(g, 2 * j + 1) + 1
        /\ NodePos(g, 2 * j) \in Nat /\ NodePos(g, 2 * j + 1) \in Nat
        /\ NodePos(g, 2 * j) < NodePos(g, 2 * j + 1)
    BY <2>1, ChildPos
  <2>3. NodePos(g, l) = NodePos(g, 2 * j) \/ NodePos(g, l) = NodePos(g, 2 * j + 1)
    BY <2>1
  <2>4. NodePos(g, l) < NodePos(g + 1, j)
    BY <2>2, <2>3
  <2> QED BY <2>1, <2>4 DEF j, l
<1>5. \A x \in 0 .. N : NodePos(h + x, K[x]) <= top
  <2> DEFINE S == {z \in Nat : NodePos(h + (N - z), K[N - z]) <= top}
  <2>1. 0 \in S
    <3>1. N - 0 = N /\ N \in 0 .. N
      BY <1>1
    <3>2. top \in Nat
      BY <1>2, <3>1
    <3> HIDE DEF top
    <3>3. top <= top
      BY <3>2
    <3> QED BY <3>1, <3>3 DEF top
  <2>2. ASSUME NEW z \in 1 .. N, z - 1 \in S PROVE z \in S
    <3>1. /\ z \in Nat /\ N - (z - 1) \in 1 .. N /\ N - (z - 1) - 1 = N - z
          /\ N - z \in 0 .. N /\ N - (z - 1) \in 0 .. N /\ N \in 0 .. N
      BY <1>1
    <3>2. NodePos(h + (N - z), K[N - z]) < NodePos(h + (N - (z - 1)), K[N - (z - 1)])
      BY <1>4, <3>1
    <3>3. /\ NodePos(h + (N - z), K[N - z]) \in Nat
          /\ NodePos(h + (N - (z - 1)), K[N - (z - 1)]) \in Nat /\ top \in Nat
      BY <1>2, <3>1
    <3>4. NodePos(h + (N - (z - 1)), K[N - (z - 1)]) <= top
      BY <2>2
    <3> HIDE DEF top
    <3>5. NodePos(h + (N - z), K[N - z]) <= top
      BY <3>2, <3>3, <3>4
    <3> QED BY <3>1, <3>5
  <2> HIDE DEF S
  <2>3. \A z \in 0 .. N : z \in S
    BY <1>1, <2>1, <2>2, UpTo
  <2> SUFFICES ASSUME NEW x \in 0 .. N PROVE NodePos(h + x, K[x]) <= top
    OBVIOUS
  <2>4. N - x \in 0 .. N /\ N - (N - x) = x
    BY <1>1
  <2>5. N - x \in S
    BY <2>3, <2>4
  <2> HIDE DEF top
  <2> QED BY <2>4, <2>5 DEF S
<1>6. ASSUME NEW x \in 0 .. N, x # N, NEW j \in 1 .. Len(q), q[j] + 1 = NodePos(h + x, K[x])
      PROVE  FALSE
  <2> DEFINE g == h + x
             c == K[x + 1]
  <2>1. x + 1 \in 1 .. N /\ x + 1 - 1 = x /\ h + (x + 1) = g + 1 /\ g \in Nat
    BY <1>1, <1>6
  <2>2. c \in Nat /\ (K[x] = 2 * c \/ K[x] = 2 * c + 1) /\ (c + 1) * 2^(g + 1) <= n
    BY <1>2, <1>3, <2>1
  <2>3. PICK f \in Nat, l \in Nat : PeakAt(q, n, j, f, l)
    BY DEF Tiles
  <2>4. f = g /\ l = K[x]
    <3>1. NodePos(f, l) \in Nat /\ NodePos(g, K[x]) \in Nat /\ K[x] \in Nat
      BY <1>2, NodePosBounds
    <3>2. NodePos(f, l) = NodePos(g, K[x])
      BY <1>6, <2>3, <3>1 DEF PeakAt
    <3> QED BY <2>1, <3>1, <3>2, NodePosUnique
  <2>5. n < (K[x] + 2) * 2^g /\ \E i \in Nat : K[x] = 2 * i
    BY <2>3, <2>4 DEF PeakAt, PeakOver
  <2> HIDE DEF g, c
  <2>6. K[x] = 2 * c
    <3>1. PICK i \in Nat : K[x] = 2 * i
      BY <2>5
    <3>2. 2 * i # 2 * c + 1
      BY <2>2
    <3> QED BY <2>2, <3>1, <3>2
  <2>7. 2^g \in Nat /\ 2^(g + 1) = 2 * 2^g
    BY <2>1, PowType, PowStep
  <2>8. ASSUME NEW z \in Nat
        PROVE  (c + 1) * (2 * z) = (2 * c + 2) * z /\ (2 * c + 2) * z \in Nat
    BY <2>2
  <2>9. (2 * c + 2) * 2^g \in Nat /\ (2 * c + 2) * 2^g <= n /\ n < (2 * c + 2) * 2^g
    BY <2>2, <2>5, <2>6, <2>7, <2>8
  <2> QED BY <2>9
<1>7. Under(h, k, h + N, K[N])
  <2> DEFINE S == {x \in Nat : Under(h, k, h + x, K[x])}
  <2>1. 0 \in S
    <3>1. h + 0 = h /\ k * 2^h \in Nat /\ (k + 1) * 2^h \in Nat
      BY RunEnds
    <3> QED BY <1>1, <3>1 DEF Under
  <2>2. ASSUME NEW x \in 1 .. N, x - 1 \in S PROVE x \in S
    <3>1. Under(h, k, h + x - 1, K[x - 1])
      BY <1>3, <2>2
    <3>2. Under(h, k, h + x - 1 + 1, K[x])
      <4>1. h + x - 1 \in Nat /\ K[x - 1] \in Nat /\ K[x] \in Nat
        BY <1>2, <1>3
      <4>2. K[x - 1] = 2 * K[x] \/ K[x - 1] = 2 * K[x] + 1
        BY <1>3
      <4> QED BY <3>1, <4>1, <4>2, UnderParent
    <3> QED BY <1>3, <3>2
  <2> HIDE DEF S
  <2>3. \A x \in 0 .. N : x \in S
    BY <1>1, <2>1, <2>2, UpTo
  <2>4. N \in 0 .. N
    BY <1>1
  <2> QED BY <2>3, <2>4 DEF S
<1>8. ASSUME NEW j \in 1 .. Len(q), j < y PROVE q[j] + 1 < NodePos(h, k)
  <2>1. PICK g \in Nat, l \in Nat : PeakAt(q, n, j, g, l)
    BY DEF Tiles
  <2>2. h + N \in Nat /\ K[N] \in Nat
    <3>1. N \in 0 .. N
      BY <1>1
    <3> QED BY <1>2, <3>1
  <2>3. PeakAt(q, n, y, h + N, K[N])
    BY DEF N
  <2>4. (l + 1) * 2^g <= K[N] * 2^(h + N)
    BY <1>8, <2>1, <2>2, <2>3 DEF Tiles
  <2>5. K[N] * 2^(h + N) <= k * 2^h
    BY <1>7 DEF Under
  <2>6. (l + 1) * 2^g <= k * 2^h
    <3>1. (l + 1) * 2^g \in Nat /\ K[N] * 2^(h + N) \in Nat /\ k * 2^h \in Nat
      BY <2>2, RunEnds
    <3> QED BY <2>4, <2>5, <3>1
  <2>7. NodePos(g, l) < NodePos(h, k)
    BY <2>6, PosInOrder
  <2>8. NodePos(g, l) \in Nat /\ q[j] = NodePos(g, l) - 1
    BY <2>1, NodePosBounds DEF PeakAt
  <2> QED BY <2>7, <2>8
<1>9. \A x \in 0 .. N : x # N => \A j \in 1 .. Len(q) : q[j] + 1 # NodePos(h + x, K[x])
  BY <1>6
<1> QED BY <1>2, <1>5, <1>8, <1>9 DEF Climbs, N

-----------------------------------------------------------------------------
(* verifybagged.go: the loop over a proof                                  *)

(* The peak that the node i is under *)
PeakFrom(P, i) ==
  LET above == {p \in Range(P) : p >= i + 1}
  IN IF above = {} THEN 0 ELSE Min(above)

(* Where the loop is after each element of the proof s *)
BagScan(H) == [node : [pos : Nat, g : Nat, hash : H], used : Nat, found : BOOLEAN]
BagStart(i, v) ==
  [node |-> [pos |-> i + 1, g |-> IndexHeight(i), hash |-> v], used |-> 0, found |-> FALSE]
BagRun(r, H, P, i, v, s, root) ==
  /\ r \in [0 .. Len(s) -> BagScan(H)] /\ r[0] = BagStart(i, v)
  /\ \A j \in 1 .. Len(s) : r[j] = BaggedRound(r[j - 1], s[j], P, PeakFrom(P, i), root)

(* A round has a hash and a place again. *)
LEMMA BaggedRoundType ==
  ASSUME NEW H, PairsOf(H) \subseteq H, NEW P \in Seq(Nat), NEW lp, NEW root,
         NEW at \in BagScan(H), NEW x \in H
  PROVE  BaggedRound(at, x, P, lp, root) \in BagScan(H)
<1> DEFINE node == at.node
           next == AccumulateBagged(node, x, P, lp)
<1>1. /\ node \in [pos : Nat, g : Nat, hash : H] /\ at.used + 1 \in Nat
      /\ node.pos \in Nat /\ node.g \in Nat /\ node.hash \in H
  BY DEF BagScan
<1>2. \A a \in Nat, b \in H, c \in H : HashPosPair64(a, b, c) \in H /\ HashPair(b, c) \in H
  <2> SUFFICES ASSUME NEW a \in Nat, NEW b \in H, NEW c \in H
               PROVE  HashPosPair64(a, b, c) \in H /\ HashPair(b, c) \in H
    OBVIOUS
  <2>1. <<a, b, c>> \in PairsOf(H) /\ <<0, b, c>> \in PairsOf(H)
    BY DEF PairsOf
  <2> QED BY <2>1 DEF HashPosPair64, HashPair
<1> HIDE DEF node
<1>3. next \in [pos : Nat, g : Nat, hash : H]
  <2>1. CASE node.pos \in Range(P)
    <3>1. Last(P) \in Nat
      <4>1. PICK y \in DOMAIN P : node.pos = P[y]
        BY <2>1 DEF Range
      <4>2. Len(P) \in 1 .. Len(P)
        BY <4>1
      <4> QED BY <4>2 DEF Last
    <3>2. \A h \in H : [node EXCEPT !.pos = Last(P), !.hash = h] \in [pos : Nat, g : Nat, hash : H]
      BY <1>1, <3>1
    <3>3. HashPair(node.hash, x) \in H /\ HashPair(x, node.hash) \in H
      BY <1>1, <1>2
    <3>4. next = [node EXCEPT !.pos = Last(P),
                   !.hash = IF node.pos = Last(P) THEN HashPair(node.hash, x) ELSE HashPair(x, node.hash)]
      BY <1>1, <2>1 DEF AccumulateBagged
    <3>5. (IF node.pos = Last(P) THEN HashPair(node.hash, x) ELSE HashPair(x, node.hash)) \in H
      BY <3>3
    <3> HIDE DEF next
    <3> QED BY <3>2, <3>4, <3>5
  <2>2. CASE ~ (node.pos \in Range(P))
    <3>1. /\ node.pos + 1 \in Nat /\ node.g + 1 \in Nat /\ node.pos + 2 * 2^node.g \in Nat
      BY <1>1, PowType
    <3>2. \A a \in Nat, b \in H, c \in H :
            (IF a <= lp THEN HashPosPair64(a, b, c) ELSE HashPair(b, c)) \in H
      BY <1>2
    <3>3. \A a \in Nat, g \in Nat, h \in H : [pos |-> a, g |-> g, hash |-> h] \in [pos : Nat, g : Nat, hash : H]
      OBVIOUS
    <3>4. CASE PosHeight(node.pos + 1) > node.g
      <4>1. next = [pos |-> node.pos + 1, g |-> node.g + 1,
                    hash |-> IF node.pos + 1 <= lp THEN HashPosPair64(node.pos + 1, x, node.hash)
                             ELSE HashPair(x, node.hash)]
        BY <2>2, <3>4 DEF AccumulateBagged
      <4> HIDE DEF next
      <4> QED BY <1>1, <3>1, <3>2, <3>3, <4>1
    <3>5. CASE ~ (PosHeight(node.pos + 1) > node.g)
      <4>1. next = [pos |-> node.pos + 2 * 2^node.g, g |-> node.g + 1,
                    hash |-> IF node.pos + 2 * 2^node.g <= lp
                             THEN HashPosPair64(node.pos + 2 * 2^node.g, node.hash, x)
                             ELSE HashPair(node.hash, x)]
        BY <2>2, <3>5 DEF AccumulateBagged
      <4> HIDE DEF next
      <4> QED BY <1>1, <3>1, <3>2, <3>3, <4>1
    <3> QED BY <3>4, <3>5
  <2> QED BY <2>1, <2>2
<1> HIDE DEF next
<1>4. BaggedRound(at, x, P, lp, root)
        = IF at.found THEN at
          ELSE [node |-> next, used |-> at.used + 1, found |-> next.hash = root]
  BY DEF BaggedRound, next, node
<1>5. (next.hash = root) \in BOOLEAN
  OBVIOUS
<1>6. [node |-> next, used |-> at.used + 1, found |-> next.hash = root] \in BagScan(H)
  BY <1>1, <1>3, <1>5 DEF BagScan
<1> QED BY <1>4, <1>6

(* What the loop tells in the end *)
BagVerdict(first, r, v, s, root) ==
  first = IF Len(s) = 0 /\ v = root THEN <<TRUE, 0>> ELSE <<r[Len(s)].found, r[Len(s)].used>>

(* VerifyFirstInclusionPathBagged is such a loop. *)
LEMMA BaggedRun ==
  ASSUME NEW H, PairsOf(H) \subseteq H, NEW size, PosPeaks(size) \in Seq(Nat),
         NEW i \in Nat, IndexHeight(i) \in Nat, NEW v \in H, NEW s \in Seq(H), NEW root
  PROVE  \E r : /\ BagRun(r, H, PosPeaks(size), i, v, s, root)
                /\ BagVerdict(VerifyFirstInclusionPathBagged(size, v, i, s, root), r, v, s, root)
<1> DEFINE P == PosPeaks(size)
           lp == PeakFrom(P, i)
           V == BagScan(H)
           N == Len(s)
           base == BagStart(i, v)
           Op == [p \in V \X H |-> BaggedRound(p[1], p[2], P, lp, root)]
           Is(f) == f = [d \in SUBSET DOMAIN s |->
                           IF d = {} THEN base
                           ELSE BaggedRound(f[d \ {Max(d)}], s[Max(d)], P, lp, root)]
           F == CHOOSE f : Is(f)
<1>1. VerifyFirstInclusionPathBagged(size, v, i, s, root)
        = IF Len(s) = 0 /\ v = root THEN <<TRUE, 0>>
          ELSE <<F[DOMAIN s].found, F[DOMAIN s].used>>
  BY DEF VerifyFirstInclusionPathBagged, FoldLeft, MapThenFoldSet, PeakFrom, BagStart
<1>2. N \in Nat /\ DOMAIN s = 1 .. N /\ P \in Seq(Nat)
  OBVIOUS
<1> HIDE DEF P, lp
<1>3. ASSUME NEW at \in V, NEW x \in H PROVE BaggedRound(at, x, P, lp, root) \in V
  BY <1>2, BaggedRoundType
<1>4. /\ Op \in [V \X H -> V] /\ base \in V
      /\ \A at \in V, x \in H : Op[<<at, x>>] = BaggedRound(at, x, P, lp, root)
  <2>1. base \in V
    <3>1. i + 1 \in Nat /\ 0 \in Nat
      OBVIOUS
    <3> QED BY <3>1 DEF BagScan, BagStart
  <2> HIDE DEF V, base
  <2> QED BY <1>3, <2>1
<1> HIDE DEF Op, N
<1>5. \E f : Is(f)
  <2> HIDE DEF V, base
  <2>1. PICK f : FoldEquation(f, V, Op, base, s)
    BY <1>4, FoldSolution
  <2>2. /\ f \in [SUBSET DOMAIN s -> V]
        /\ f = [d \in SUBSET DOMAIN s |->
                 IF d = {} THEN base ELSE Op[<<f[d \ {Max(d)}], s[Max(d)]>>]]
    BY <2>1 DEF FoldEquation
  <2>3. ASSUME NEW d \in SUBSET DOMAIN s, d # {}
        PROVE  Op[<<f[d \ {Max(d)}], s[Max(d)]>>]
                 = BaggedRound(f[d \ {Max(d)}], s[Max(d)], P, lp, root)
    <3>1. s[Max(d)] \in H
      BY <2>3, MaxOfIndices
    <3>2. f[d \ {Max(d)}] \in V
      BY <2>2
    <3> QED BY <1>4, <3>1, <3>2
  <2>4. Is(f)
    BY <2>2, <2>3
  <2> QED BY <2>4
<1>6. Is(F)
  <2> HIDE DEF Is
  <2> QED BY <1>5
<1> HIDE DEF F
<1>7. PICK r : FoldsTo(r, V, Op, base, s, F[DOMAIN s])
  <2> HIDE DEF V, base
  <2>1. F[{}] = base
    BY <1>6
  <2>2. ASSUME NEW d \in SUBSET DOMAIN s, d # {}, F[d \ {Max(d)}] \in V
        PROVE  F[d] = Op[<<F[d \ {Max(d)}], s[Max(d)]>>]
    <3>1. s[Max(d)] \in H
      BY <2>2, MaxOfIndices
    <3>2. F[d] = BaggedRound(F[d \ {Max(d)}], s[Max(d)], P, lp, root)
      BY <1>6, <2>2
    <3> HIDE DEF Is
    <3> QED BY <1>4, <2>2, <3>1, <3>2
  <2> HIDE DEF Is
  <2> QED BY <1>4, <2>1, <2>2, FoldRun
<1>8. ASSUME NEW j \in 1 .. Len(s) PROVE r[j] = BaggedRound(r[j - 1], s[j], P, lp, root)
  <2>1. j - 1 \in 0 .. Len(s) /\ j \in 1 .. Len(s)
    OBVIOUS
  <2>2. r[j - 1] \in V /\ r[j] = Op[<<r[j - 1], s[j]>>] /\ s[j] \in H
    <3> HIDE DEF V, Op, base, F
    <3>1. r[j - 1] \in V
      BY <1>7, <2>1 DEF FoldsTo
    <3>2. r[j] = Op[<<r[j - 1], s[j]>>]
      BY <1>7, <2>1 DEF FoldsTo
    <3>3. s[j] \in H
      BY <2>1
    <3> QED BY <3>1, <3>2, <3>3
  <2> HIDE DEF V
  <2> QED BY <1>4, <2>2
<1>9. r \in [0 .. Len(s) -> V] /\ r[0] = base /\ F[DOMAIN s] = r[Len(s)]
  BY <1>7 DEF FoldsTo
<1> HIDE DEF V, base
<1>10. BagRun(r, H, P, i, v, s, root)
  BY <1>8, <1>9 DEF BagRun, V, base, lp
<1> QED BY <1>1, <1>9, <1>10 DEF P, BagVerdict

(* The node over the k-th run of 2^h leaves is under the y-th of the peaks *)
(* q of the range ns over vs, whose hashes are ph and bags B.              *)
UnderPeak(H, ns, vs, q, ph, B, p, K, h, k, y) ==
  /\ PeaksOfRange(H, ns, Len(vs), q, ph) /\ Bags(ph, B)
  /\ ClimbsFrom(p, K, Len(vs), h, k)
  /\ y \in 1 .. Len(q) /\ PeakAt(q, Len(vs), y, h + Len(p), K[Len(p)])
  /\ Climbs(q, Len(vs), p, K, h, k, y)

(* The loop has climbed t rounds from v, where the range has c.            *)
BelowPeak(node, ns, K, h, t, v, c) ==
  /\ node = [pos |-> NodePos(h + t, K[t]), g |-> h + t, hash |-> node.hash]
  /\ node.hash = ns[NodePos(h + t, K[t])] <=> v = c
  /\ t # 0 => \E a, b : node.hash = HashPosPair64(NodePos(h + t, K[t]), a, b)

(* It has bagged the peaks from the u-th on. *)
AbovePeak(node, q, ph, B, u, v, c) ==
  /\ node.pos = q[Len(q)] + 1
  /\ \E z, w : node.hash = HashPair(z, w) /\ (v = c => w = ph[u])
  /\ node.hash = B[u] <=> v = c

(* The positions of the peaks, and the one the loop takes the node to be   *)
(* under                                                                   *)
PeakFound(q, p, K, h, k, y) ==
  /\ PosOf(q) \in Seq(Nat) /\ Last(PosOf(q)) = q[Len(q)] + 1
  /\ \A j \in 1 .. Len(q) : PosOf(q)[j] = q[j] + 1 /\ PosOf(q)[j] \in Range(PosOf(q))
  /\ \A z : z \in Range(PosOf(q)) => \E j \in 1 .. Len(q) : z = q[j] + 1
  /\ PeakFrom(PosOf(q), NodePos(h, k) - 1) = q[y] + 1
  /\ q[y] + 1 = NodePos(h + Len(p), K[Len(p)])

(* It is the peak it is under. *)
LEMMA PeakFromIs ==
  ASSUME NEW H, NEW ns, NEW vs, NEW q, NEW ph, NEW B, NEW p, NEW K,
         NEW h \in Nat, NEW k \in Nat, NEW y, UnderPeak(H, ns, vs, q, ph, B, p, K, h, k, y)
  PROVE  PeakFound(q, p, K, h, k, y)
<1> DEFINE P == PosOf(q)
           i == NodePos(h, k) - 1
<1>1. /\ q \in Seq(Nat) /\ Ascends(q) /\ y \in 1 .. Len(q) /\ Len(q) \in Nat
      /\ Climbs(q, Len(vs), p, K, h, k, y) /\ PeakAt(q, Len(vs), y, h + Len(p), K[Len(p)])
  BY DEF UnderPeak, PeaksOfRange, Tiles
<1>2. P = [j \in 1 .. Len(q) |-> q[j] + 1]
  BY <1>1 DEF PosOf
<1>3. P \in Seq(Nat) /\ Len(P) = Len(q) /\ \A j \in 1 .. Len(q) : P[j] = q[j] + 1 /\ q[j] \in Nat
  <2> HIDE DEF P
  <2>1. \A j \in 1 .. Len(q) : q[j] \in Nat /\ q[j] + 1 \in Nat
    <3>1. \A j \in 1 .. Len(q) : q[j] \in Nat
      BY <1>1
    <3> QED BY <3>1
  <2>2. P \in Seq(Nat) /\ Len(P) = Len(q)
    BY <1>1, <1>2, <2>1
  <2>3. \A j \in 1 .. Len(q) : P[j] = q[j] + 1
    BY <1>2
  <2> QED BY <2>1, <2>2, <2>3
<1>4. p \in Seq(Nat) /\ Len(p) \in Nat /\ K \in [0 .. Len(p) -> Nat] /\ K[0] = k
  BY DEF UnderPeak, ClimbsFrom, Climbing
<1>5. q[y] + 1 = NodePos(h + Len(p), K[Len(p)])
  <2>1. NodePos(h + Len(p), K[Len(p)]) \in Nat
    <3>1. h + Len(p) \in Nat /\ K[Len(p)] \in Nat
      BY <1>4
    <3> QED BY <3>1, NodePosBounds
  <2> QED BY <1>1, <2>1 DEF PeakAt
<1>6. NodePos(h, k) \in Nat /\ i + 1 = NodePos(h, k)
  BY NodePosBounds
<1>7. NodePos(h, k) <= q[y] + 1
  <2>1. 0 \in 0 .. Len(p) /\ h + 0 = h
    BY <1>4
  <2>2. NodePos(h + 0, K[0]) <= NodePos(h + Len(p), K[Len(p)])
    BY <1>1, <2>1 DEF Climbs
  <2> QED BY <1>4, <1>5, <2>1, <2>2
<1>8. \A j \in 1 .. Len(q) : j < y => q[j] + 1 < NodePos(h, k)
  BY <1>1 DEF Climbs
<1> HIDE DEF P, i
<1>9. Range(P) = {P[j] : j \in 1 .. Len(q)}
  <2>1. DOMAIN P = 1 .. Len(q)
    BY <1>1, <1>2
  <2> QED BY <2>1 DEF Range
<1> DEFINE above == {x \in Range(P) : x >= i + 1}
<1>10. q[y] + 1 \in above
  <2>1. q[y] + 1 \in Range(P)
    BY <1>1, <1>3, <1>9
  <2>2. q[y] + 1 >= i + 1
    BY <1>1, <1>3, <1>6, <1>7
  <2> QED BY <2>1, <2>2
<1>11. \A x \in above : q[y] + 1 <= x
  <2> SUFFICES ASSUME NEW x \in Range(P), x >= i + 1 PROVE q[y] + 1 <= x
    OBVIOUS
  <2>1. PICK j \in 1 .. Len(q) : x = q[j] + 1
    BY <1>3, <1>9
  <2>2. ~ (j < y)
    BY <1>3, <1>6, <1>8, <2>1
  <2>3. y = j \/ y < j
    BY <1>1, <2>2
  <2>4. q[j] \in Nat /\ q[y] \in Nat
    BY <1>1, <1>3
  <2>5. y < j => q[y] < q[j]
    BY <1>1 DEF Ascends
  <2> QED BY <2>1, <2>3, <2>4, <2>5
<1>12. above \subseteq Int
  BY <1>3, <1>9
<1> HIDE DEF above
<1>13. Min(above) = q[y] + 1
  <2>1. Min(above) \in above /\ \A x \in above : Min(above) <= x
    BY <1>10, <1>11 DEF Min
  <2>2. Min(above) <= q[y] + 1 /\ q[y] + 1 <= Min(above)
    BY <1>10, <1>11, <2>1
  <2>3. Min(above) \in Int /\ q[y] + 1 \in Int
    BY <1>10, <1>12, <2>1
  <2> QED BY <2>2, <2>3
<1>14. PeakFrom(P, i) = q[y] + 1
  BY <1>10, <1>13 DEF PeakFrom, above
<1>15. Last(P) = q[Len(q)] + 1
  <2>1. Len(q) \in 1 .. Len(q)
    BY <1>1
  <2> QED BY <1>3, <2>1 DEF Last
<1>16. \A j \in 1 .. Len(q) : P[j] \in Range(P)
  BY <1>9
<1>17. \A z : z \in Range(P) => \E j \in 1 .. Len(q) : z = q[j] + 1
  BY <1>3, <1>9
<1> QED BY <1>3, <1>5, <1>14, <1>15, <1>16, <1>17 DEF P, i, PeakFound

(* A round below the peak *)
LEMMA BaggedBelow ==
  ASSUME NEW P, NEW lp, NEW g \in Nat, NEW j \in Nat, NEW l \in Nat, NEW node, NEW s, NEW R,
         node = [pos |-> NodePos(g, l), g |-> g, hash |-> R],
         NodePos(g, l) \notin Range(P), NodePos(g + 1, j) <= lp
  PROVE  /\ l = 2 * j => AccumulateBagged(node, s, P, lp) =
              [pos |-> NodePos(g + 1, j), g |-> g + 1, hash |-> HashPosPair64(NodePos(g + 1, j), R, s)]
         /\ l = 2 * j + 1 => AccumulateBagged(node, s, P, lp) =
              [pos |-> NodePos(g + 1, j), g |-> g + 1, hash |-> HashPosPair64(NodePos(g + 1, j), s, R)]
<1>1. 2 * j \in Nat /\ 2 * j + 1 \in Nat /\ g + 1 \in Nat /\ 2^g \in Nat
  BY PowType
<1>2. /\ NodePos(g + 1, j) = NodePos(g, 2 * j + 1) + 1
      /\ NodePos(g, 2 * j) = NodePos(g, 2 * j + 1) - (2 * 2^g - 1)
  BY ParentPos
<1>3. NodePos(g, 2 * j + 1) \in Nat /\ NodePos(g, 2 * j) \in Nat /\ NodePos(g + 1, j) \in Nat
  BY <1>1, NodePosBounds
<1>4. node.pos = NodePos(g, l) /\ node.g = g /\ node.hash = R
  OBVIOUS
<1>5. ASSUME l = 2 * j
      PROVE  AccumulateBagged(node, s, P, lp) =
              [pos |-> NodePos(g + 1, j), g |-> g + 1, hash |-> HashPosPair64(NodePos(g + 1, j), R, s)]
  <2>1. PosHeight(node.pos + 1) = 0
    BY <1>4, <1>5, HeightAfter
  <2>2. node.pos + 2 * 2^node.g = NodePos(g + 1, j)
    <3>1. node.pos = NodePos(g, 2 * j)
      BY <1>4, <1>5
    <3> QED BY <1>1, <1>2, <1>3, <1>4, <3>1
  <2>3. ~ (PosHeight(node.pos + 1) > node.g)
    BY <1>4, <2>1
  <2>4. ~ (node.pos \in Range(P))
    BY <1>4
  <2> QED BY <1>4, <2>2, <2>3, <2>4 DEF AccumulateBagged
<1>6. ASSUME l = 2 * j + 1
      PROVE  AccumulateBagged(node, s, P, lp) =
              [pos |-> NodePos(g + 1, j), g |-> g + 1, hash |-> HashPosPair64(NodePos(g + 1, j), s, R)]
  <2>1. PosHeight(node.pos + 1) = g + 1
    BY <1>4, <1>6, HeightAfter
  <2>2. node.pos + 1 = NodePos(g + 1, j)
    BY <1>2, <1>4, <1>6
  <2>3. PosHeight(node.pos + 1) > node.g
    BY <1>4, <2>1
  <2>4. ~ (node.pos \in Range(P))
    BY <1>4
  <2> QED BY <1>4, <2>2, <2>3, <2>4 DEF AccumulateBagged
<1> QED BY <1>5, <1>6

(* From below the peak to below or on the peak *)
LEMMA TrailBelow ==
  ASSUME NEW LeafValues, NEW H, NEW ns, NEW vs, TreeOf(LeafValues, H, ns, vs),
         NEW q, NEW ph, NEW B, NEW p, NEW K,
         NEW h \in Nat, NEW k \in Nat, NEW y, UnderPeak(H, ns, vs, q, ph, B, p, K, h, k, y),
         NEW t \in 1 .. Len(p), NEW v, NEW c, NEW node, BelowPeak(node, ns, K, h, t - 1, v, c)
  PROVE  BelowPeak(AccumulateBagged(node, ns[p[t] + 1], PosOf(q), q[y] + 1), ns, K, h, t, v, c)
<1> DEFINE g == h + (t - 1)
           j == K[t]
           l == K[t - 1]
           R == node.hash
           x == ns[p[t] + 1]
           next == AccumulateBagged(node, x, PosOf(q), q[y] + 1)
<1>0. ASSUME NEW f \in Nat, NEW m \in Nat, (m + 1) * 2^(f + 1) <= Len(vs)
      PROVE  ns[NodePos(f + 1, m)]
               = HashPosPair64(NodePos(f + 1, m), ns[NodePos(f, 2 * m)], ns[NodePos(f, 2 * m + 1)])
  BY <1>0, TreeNodes DEF TreeOf
<1>1. p \in Seq(Nat) /\ Len(p) \in Nat /\ K \in [0 .. Len(p) -> Nat]
  BY DEF UnderPeak, ClimbsFrom, Climbing
<1>found. PeakFound(q, p, K, h, k, y)
  BY PeakFromIs
<1>2. /\ g \in Nat /\ g + 1 = h + t /\ j \in Nat /\ l \in Nat /\ h + t - 1 = g
      /\ t # 0 /\ t - 1 \in 0 .. Len(p) /\ t \in 0 .. Len(p) /\ t - 1 # Len(p)
  <2>1. t # 0 /\ t - 1 \in 0 .. Len(p) /\ t \in 0 .. Len(p) /\ t - 1 # Len(p)
    BY <1>1
  <2>2. j \in Nat /\ l \in Nat
    BY <1>1, <2>1
  <2>3. g \in Nat /\ g + 1 = h + t /\ h + t - 1 = g
    BY <1>1
  <2> QED BY <2>1, <2>2, <2>3
<1>3. /\ (j + 1) * 2^(h + t) <= Len(vs)
      /\ \/ l = 2 * j /\ p[t] = NodePos(h + t - 1, 2 * j + 1) - 1
         \/ l = 2 * j + 1 /\ p[t] = NodePos(h + t - 1, 2 * j) - 1
  BY DEF UnderPeak, ClimbsFrom, Climbing
<1>4. node = [pos |-> NodePos(g, l), g |-> g, hash |-> R] /\ (R = ns[NodePos(g, l)] <=> v = c)
  BY DEF BelowPeak
<1>5. NodePos(g, l) \notin Range(PosOf(q))
  <2>1. \A i \in 1 .. Len(q) : q[i] + 1 # NodePos(g, l)
    BY <1>2 DEF UnderPeak, Climbs
  <2>2. \A z : z \in Range(PosOf(q)) => \E i \in 1 .. Len(q) : z = q[i] + 1
    BY <1>found DEF PeakFound
  <2> HIDE DEF g, l
  <2> QED BY <2>1, <2>2
<1>6. NodePos(g + 1, j) <= q[y] + 1
  <2>1. NodePos(h + t, K[t]) <= NodePos(h + Len(p), K[Len(p)])
    BY <1>2 DEF UnderPeak, Climbs
  <2>2. q[y] + 1 = NodePos(h + Len(p), K[Len(p)])
    BY <1>found DEF PeakFound
  <2> QED BY <1>2, <2>1, <2>2
<1> HIDE DEF g, j, l, R
<1>7. /\ l = 2 * j => next = [pos |-> NodePos(g + 1, j), g |-> g + 1,
                              hash |-> HashPosPair64(NodePos(g + 1, j), R, x)]
      /\ l = 2 * j + 1 => next = [pos |-> NodePos(g + 1, j), g |-> g + 1,
                                  hash |-> HashPosPair64(NodePos(g + 1, j), x, R)]
  BY <1>2, <1>4, <1>5, <1>6, BaggedBelow
<1>8. ns[NodePos(g + 1, j)]
        = HashPosPair64(NodePos(g + 1, j), ns[NodePos(g, 2 * j)], ns[NodePos(g, 2 * j + 1)])
  BY <1>0, <1>2, <1>3
<1>9. NodePos(g, 2 * j) \in Nat /\ NodePos(g, 2 * j + 1) \in Nat
  BY <1>2, ChildPos
<1> HIDE DEF next
<1>10. /\ next = [pos |-> NodePos(g + 1, j), g |-> g + 1, hash |-> next.hash]
       /\ \E a, b : next.hash = HashPosPair64(NodePos(g + 1, j), a, b)
       /\ next.hash = ns[NodePos(g + 1, j)] <=> R = ns[NodePos(g, l)]
  <2>1. CASE l = 2 * j /\ p[t] = NodePos(h + t - 1, 2 * j + 1) - 1
    <3>0. p[t] + 1 = NodePos(g, 2 * j + 1)
      <4> HIDE DEF x
      <4>1. p[t] = NodePos(g, 2 * j + 1) - 1
        BY <1>2, <2>1
      <4> QED BY <1>9, <4>1
    <3>1. x = ns[NodePos(g, 2 * j + 1)]
      BY <3>0
    <3> HIDE DEF x
    <3>2. next.hash = HashPosPair64(NodePos(g + 1, j), R, x)
          /\ next = [pos |-> NodePos(g + 1, j), g |-> g + 1, hash |-> next.hash]
      BY <1>7, <2>1
    <3>3. next.hash = ns[NodePos(g + 1, j)] <=> R = ns[NodePos(g, 2 * j)]
      BY <1>8, <3>1, <3>2 DEF HashPosPair64
    <3> QED BY <2>1, <3>2, <3>3
  <2>2. CASE l = 2 * j + 1 /\ p[t] = NodePos(h + t - 1, 2 * j) - 1
    <3>0. p[t] + 1 = NodePos(g, 2 * j)
      <4> HIDE DEF x
      <4>1. p[t] = NodePos(g, 2 * j) - 1
        BY <1>2, <2>2
      <4> QED BY <1>9, <4>1
    <3>1. x = ns[NodePos(g, 2 * j)]
      BY <3>0
    <3> HIDE DEF x
    <3>2. next.hash = HashPosPair64(NodePos(g + 1, j), x, R)
          /\ next = [pos |-> NodePos(g + 1, j), g |-> g + 1, hash |-> next.hash]
      BY <1>7, <2>2
    <3>3. next.hash = ns[NodePos(g + 1, j)] <=> R = ns[NodePos(g, 2 * j + 1)]
      BY <1>8, <3>1, <3>2 DEF HashPosPair64
    <3> QED BY <2>2, <3>2, <3>3
  <2> QED BY <1>3, <2>1, <2>2
<1>11. BelowPeak(next, ns, K, h, t, v, c)
  <2>1. next.hash = ns[NodePos(g + 1, j)] <=> v = c
    BY <1>4, <1>10
  <2>2. /\ next = [pos |-> NodePos(h + t, K[t]), g |-> h + t, hash |-> next.hash]
        /\ \E a, b : next.hash = HashPosPair64(NodePos(h + t, K[t]), a, b)
        /\ next.hash = ns[NodePos(h + t, K[t])] <=> v = c
    BY <1>2, <1>10, <2>1 DEF j
  <2> QED BY <2>2 DEF BelowPeak
<1> QED BY <1>11 DEF next, x

(* A round on the last peak *)
LEMMA TrailAbove ==
  ASSUME NEW H, NEW ns, NEW vs, NEW q, NEW ph, NEW B, NEW p, NEW K,
         NEW h \in Nat, NEW k \in Nat, NEW y, UnderPeak(H, ns, vs, q, ph, B, p, K, h, k, y),
         NEW u \in 1 .. Len(ph) - 1, NEW v, NEW c,
         NEW node \in [pos : Nat, g : Nat, hash : H], node.pos = q[Len(q)] + 1,
         node.hash = B[u + 1] <=> v = c
  PROVE  AbovePeak(AccumulateBagged(node, ph[u], PosOf(q), q[y] + 1), q, ph, B, u, v, c)
<1> DEFINE next == AccumulateBagged(node, ph[u], PosOf(q), q[y] + 1)
<1>1. PeakFound(q, p, K, h, k, y)
  BY PeakFromIs
<1>2. Len(q) \in Nat /\ y \in 1 .. Len(q) /\ B[u] = HashPair(B[u + 1], ph[u])
  BY DEF UnderPeak, PeaksOfRange, Tiles, Bags
<1>3. node.pos \in Range(PosOf(q)) /\ node.pos = Last(PosOf(q))
  <2>1. Len(q) \in 1 .. Len(q)
    BY <1>2
  <2> QED BY <1>1, <2>1 DEF PeakFound
<1>4. next = [node EXCEPT !.pos = Last(PosOf(q)), !.hash = HashPair(node.hash, ph[u])]
  BY <1>3 DEF AccumulateBagged
<1> HIDE DEF next
<1>5. next.pos = q[Len(q)] + 1 /\ next.hash = HashPair(node.hash, ph[u])
  BY <1>3, <1>4
<1>6. next.hash = B[u] <=> node.hash = B[u + 1]
  <2>1. HashPair(node.hash, ph[u]) = HashPair(B[u + 1], ph[u]) => node.hash = B[u + 1]
    BY PairTells
  <2> QED BY <1>2, <1>5, <2>1
<1> QED BY <1>5, <1>6 DEF AbovePeak, next

(* The round on the peak the node is under, if it is not the last *)
LEMMA TrailOnPeak ==
  ASSUME NEW H, NEW ns, NEW vs, NEW q, NEW ph, NEW B, NEW p, NEW K,
         NEW h \in Nat, NEW k \in Nat, NEW y, UnderPeak(H, ns, vs, q, ph, B, p, K, h, k, y),
         y # Len(ph), NEW v, NEW c,
         NEW node \in [pos : Nat, g : Nat, hash : H], node.pos = q[y] + 1,
         node.hash = ph[y] <=> v = c
  PROVE  AbovePeak(AccumulateBagged(node, B[y + 1], PosOf(q), q[y] + 1), q, ph, B, y, v, c)
<1> DEFINE next == AccumulateBagged(node, B[y + 1], PosOf(q), q[y] + 1)
<1>1. PeakFound(q, p, K, h, k, y)
  BY PeakFromIs
<1>2. Len(q) \in Nat /\ y \in 1 .. Len(q) /\ q \in Seq(Nat) /\ Ascends(q) /\ Len(ph) = Len(q)
  BY DEF UnderPeak, PeaksOfRange, Tiles
<1>3. B[y] = HashPair(B[y + 1], ph[y])
  <2>1. y \in 1 .. Len(ph) - 1
    BY <1>2
  <2> QED BY <2>1 DEF UnderPeak, Bags
<1>4. node.pos \in Range(PosOf(q)) /\ node.pos # Last(PosOf(q))
  <2>1. Len(q) \in 1 .. Len(q) /\ y < Len(q)
    BY <1>2
  <2>2. q[y] < q[Len(q)] /\ q[y] \in Nat /\ q[Len(q)] \in Nat
    BY <1>2, <2>1 DEF Ascends
  <2>3. /\ PosOf(q)[y] = q[y] + 1 /\ PosOf(q)[y] \in Range(PosOf(q))
        /\ Last(PosOf(q)) = q[Len(q)] + 1
    BY <1>1, <1>2 DEF PeakFound
  <2> QED BY <2>2, <2>3
<1>5. next = [node EXCEPT !.pos = Last(PosOf(q)), !.hash = HashPair(B[y + 1], node.hash)]
  BY <1>4 DEF AccumulateBagged
<1> HIDE DEF next
<1>6. next.pos = Last(PosOf(q)) /\ next.hash = HashPair(B[y + 1], node.hash)
  BY <1>5
<1>7. next.pos = q[Len(q)] + 1
  BY <1>1, <1>6 DEF PeakFound
<1>8. next.hash = B[y] <=> node.hash = ph[y]
  <2>1. HashPair(B[y + 1], node.hash) = HashPair(B[y + 1], ph[y]) => node.hash = ph[y]
    BY PairTells
  <2> QED BY <1>3, <1>6, <2>1
<1> QED BY <1>6, <1>7, <1>8 DEF AbovePeak, next

(* The length of a proof against the single root, and what it begins with: *)
(* the path to the peak, the bag to the right, the peaks to the left.      *)
TrailLength(p, ph, y) == Len(p) + (IF y = Len(ph) THEN 0 ELSE 1) + (y - 1)
BagBegins(s, H, ns, ph, B, p, y) ==
  /\ s \in Seq(H) /\ TrailLength(p, ph, y) <= Len(s)
  /\ \A x \in 1 .. Len(p) : s[x] = ns[p[x] + 1]
  /\ y # Len(ph) => s[Len(p) + 1] = B[y + 1]
  /\ \A u \in 1 .. y - 1 : s[TrailLength(p, ph, y) + 1 - u] = ph[u]

(* Where the loop is after t elements of it, if it did not return before *)
OnTrail(at, ns, q, ph, B, p, K, h, y, t, v, c, root) ==
  /\ at.used = t /\ (t # 0 => (at.found <=> at.node.hash = root))
  /\ t <= Len(p) => BelowPeak(at.node, ns, K, h, t, v, c)
  /\ t > Len(p) => /\ TrailLength(p, ph, y) + 1 - t \in 1 .. Len(ph) - 1
                   /\ AbovePeak(at.node, q, ph, B, TrailLength(p, ph, y) + 1 - t, v, c)

(* It starts there. *)
LEMMA TrailStart ==
  ASSUME NEW H, NEW ns, NEW vs, NEW q, NEW ph, NEW B, NEW p, NEW K,
         NEW h \in Nat, NEW k \in Nat, NEW y, UnderPeak(H, ns, vs, q, ph, B, p, K, h, k, y),
         NEW v, NEW root
  PROVE  /\ OnTrail(BagStart(NodePos(h, k) - 1, v), ns, q, ph, B, p, K, h, y, 0, v, ns[NodePos(h, k)], root)
         /\ NodePos(h, k) - 1 \in Nat /\ IndexHeight(NodePos(h, k) - 1) \in Nat
<1> DEFINE i == NodePos(h, k) - 1
           at == BagStart(i, v)
<1>1. i \in Nat /\ i + 1 = NodePos(h, k) /\ IndexHeight(i) = h
  <2>1. NodePos(h, k) \in Nat /\ NodePos(h, k) > 0
    BY NodePosBounds
  <2>2. i \in Nat /\ i + 1 = NodePos(h, k)
    BY <2>1
  <2> QED BY <2>2, HeightOfNode DEF IndexHeight
<1>2. at.node = [pos |-> NodePos(h, k), g |-> h, hash |-> v] /\ at.used = 0
  BY <1>1 DEF BagStart
<1>3. K[0] = k /\ h + 0 = h /\ Len(p) \in Nat
  <2>1. p \in Seq(Nat) /\ K[0] = k
    BY DEF UnderPeak, ClimbsFrom, Climbing
  <2> QED BY <2>1
<1> HIDE DEF at
<1>4. BelowPeak(at.node, ns, K, h, 0, v, ns[NodePos(h, k)])
  <2>1. at.node = [pos |-> NodePos(h + 0, K[0]), g |-> h + 0, hash |-> at.node.hash] /\ at.node.hash = v
    BY <1>2, <1>3
  <2>2. NodePos(h + 0, K[0]) = NodePos(h, k)
    BY <1>3
  <2> QED BY <2>1, <2>2 DEF BelowPeak
<1>5. ~ (0 > Len(p)) /\ 0 <= Len(p)
  BY <1>3
<1> QED BY <1>1, <1>2, <1>4, <1>5 DEF OnTrail, at

(* And stays there. *)
LEMMA TrailStep ==
  ASSUME NEW LeafValues, NEW H, NEW ns, NEW vs, TreeOf(LeafValues, H, ns, vs),
         NEW q, NEW ph, NEW B, NEW p, NEW K,
         NEW h \in Nat, NEW k \in Nat, NEW y, UnderPeak(H, ns, vs, q, ph, B, p, K, h, k, y),
         NEW s, BagBegins(s, H, ns, ph, B, p, y), NEW v, NEW c, NEW root,
         NEW t \in 1 .. TrailLength(p, ph, y), NEW at \in BagScan(H), ~ at.found,
         OnTrail(at, ns, q, ph, B, p, K, h, y, t - 1, v, c, root)
  PROVE  OnTrail(BaggedRound(at, s[t], PosOf(q), q[y] + 1, root),
                 ns, q, ph, B, p, K, h, y, t, v, c, root)
<1> DEFINE N == Len(p)
           T == TrailLength(p, ph, y)
           node == at.node
           next == AccumulateBagged(node, s[t], PosOf(q), q[y] + 1)
           u == T + 1 - t
<1>1. /\ p \in Seq(Nat) /\ N \in Nat /\ K \in [0 .. N -> Nat]
      /\ Len(q) \in Nat /\ y \in 1 .. Len(q) /\ Len(ph) = Len(q)
      /\ PeakAt(q, Len(vs), y, h + N, K[N])
  BY DEF UnderPeak, ClimbsFrom, Climbing, PeaksOfRange, Tiles
<1>2. /\ node \in [pos : Nat, g : Nat, hash : H] /\ at.used = t - 1
      /\ node.pos \in Nat /\ node.hash \in H
  BY DEF BagScan, OnTrail
<1>3. /\ T = N + (IF y = Len(ph) THEN 0 ELSE 1) + (y - 1) /\ T \in Nat /\ t \in Nat
      /\ t - 1 \in Nat /\ u \in Nat /\ t # 0
  BY <1>1 DEF TrailLength
<1>len. (y # Len(ph) => T = N + y) /\ (y = Len(ph) => T = N + (y - 1))
  <2> HIDE DEF T
  <2> QED BY <1>1, <1>3
<1>4. PeakFound(q, p, K, h, k, y)
  BY PeakFromIs
<1>5. ph[y] = ns[NodePos(h + N, K[N])]
  <2>0. N \in Nat /\ N \in 0 .. N
    BY <1>1
  <2>1. h + N \in Nat /\ K[N] \in Nat
    <3> HIDE DEF N
    <3> QED BY <1>1, <2>0
  <2>2. PeaksOfRange(H, ns, Len(vs), q, ph)
    BY DEF UnderPeak
  <2> HIDE DEF N
  <2> QED BY <1>1, <2>1, <2>2 DEF PeaksOfRange
<1>6. BaggedRound(at, s[t], PosOf(q), q[y] + 1, root)
        = [node |-> next, used |-> t, found |-> next.hash = root]
  <2>1. at.used + 1 = t
    BY <1>2, <1>3
  <2> HIDE DEF next
  <2> QED BY <2>1 DEF BaggedRound, next
<1>7. /\ t <= N => BelowPeak(next, ns, K, h, t, v, c)
      /\ t > N => u \in 1 .. Len(ph) - 1 /\ AbovePeak(next, q, ph, B, u, v, c)
  <2>1. CASE t <= N
    <3>1. t \in 1 .. Len(p) /\ t - 1 <= N
      BY <1>1, <1>3, <2>1
    <3>2. BelowPeak(node, ns, K, h, t - 1, v, c)
      BY <3>1 DEF OnTrail
    <3>3. s[t] = ns[p[t] + 1]
      BY <3>1 DEF BagBegins
    <3> HIDE DEF node
    <3>4. BelowPeak(AccumulateBagged(node, ns[p[t] + 1], PosOf(q), q[y] + 1), ns, K, h, t, v, c)
      BY <3>1, <3>2, TrailBelow
    <3> QED BY <1>1, <1>3, <2>1, <3>3, <3>4
  <2>2. ASSUME t = N + 1
        PROVE  node.pos = q[y] + 1 /\ (node.hash = ph[y] <=> v = c)
    <3>1. t - 1 = N /\ t - 1 <= N
      BY <1>1, <2>2
    <3>2. BelowPeak(node, ns, K, h, N, v, c)
      BY <3>1 DEF OnTrail
    <3>3. node.pos = NodePos(h + N, K[N]) /\ (node.hash = ns[NodePos(h + N, K[N])] <=> v = c)
      <4> HIDE DEF node, N
      <4> QED BY <3>2 DEF BelowPeak
    <3> QED BY <1>4, <1>5, <3>3 DEF PeakFound
  <2>3. CASE t = N + 1 /\ y # Len(ph)
    <3>1. u = y /\ s[t] = B[y + 1] /\ ~ (t <= N) /\ y \in 1 .. Len(ph) - 1
      <4>1. s[Len(p) + 1] = B[y + 1]
        BY <2>3 DEF BagBegins
      <4>2. u = y /\ ~ (t <= N) /\ y \in 1 .. Len(ph) - 1
        <5> HIDE DEF T, N
        <5> QED BY <1>1, <1>3, <1>len, <2>3
      <4> QED BY <2>3, <4>1, <4>2
    <3>2. node.pos = q[y] + 1 /\ (node.hash = ph[y] <=> v = c)
      BY <2>2, <2>3
    <3> HIDE DEF node, u
    <3>3. AbovePeak(AccumulateBagged(node, B[y + 1], PosOf(q), q[y] + 1), q, ph, B, y, v, c)
      BY <1>2, <2>3, <3>2, TrailOnPeak
    <3> QED BY <3>1, <3>3
  <2>4. CASE t > N /\ ~ (t = N + 1 /\ y # Len(ph))
    <3>1. u \in 1 .. y - 1 /\ u \in 1 .. Len(ph) - 1 /\ u \in 1 .. Len(ph) /\ t = T + 1 - u
      <4> HIDE DEF T, N
      <4>1. t <= T
        BY <1>3 DEF T
      <4>2. (y = Len(ph) /\ t > N) \/ t > N + 1
        BY <1>1, <1>3, <2>4
      <4>3. u <= y - 1 /\ u >= 1
        BY <1>1, <1>3, <1>len, <4>1, <4>2
      <4>4. y \in Nat /\ y <= Len(ph) /\ Len(ph) \in Nat
        BY <1>1
      <4>5. T \in Nat /\ t \in Nat /\ u = T + 1 - t /\ u \in Nat
        BY <1>3
      <4>6. t = T + 1 - u
        BY <4>5
      <4> HIDE DEF u
      <4> QED BY <4>3, <4>4, <4>5, <4>6
    <3>2. s[t] = ph[u]
      BY <3>1 DEF BagBegins
    <3>3. node.pos = q[Len(q)] + 1 /\ (node.hash = B[u + 1] <=> v = c)
      <4>1. CASE t = N + 1
        <5>1. y = Len(ph) /\ u + 1 = y
          BY <1>1, <1>3, <2>4, <4>1
        <5>2. B[y] = ph[y]
          BY <5>1 DEF UnderPeak, Bags
        <5>3. node.pos = q[y] + 1 /\ (node.hash = ph[y] <=> v = c)
          BY <2>2, <4>1
        <5> HIDE DEF node, u
        <5> QED BY <1>1, <5>1, <5>2, <5>3
      <4>2. CASE t # N + 1
        <5>1. t - 1 > Len(p) /\ TrailLength(p, ph, y) + 1 - (t - 1) = u + 1
          <6>1. t - 1 > N /\ T + 1 - (t - 1) = u + 1
            <7> HIDE DEF T, N
            <7> QED BY <1>1, <1>3, <2>4, <4>2
          <6> QED BY <6>1
        <5>2. AbovePeak(node, q, ph, B, TrailLength(p, ph, y) + 1 - (t - 1), v, c)
          BY <5>1 DEF OnTrail
        <5> HIDE DEF node, u
        <5>3. AbovePeak(node, q, ph, B, u + 1, v, c)
          BY <5>1, <5>2
        <5> QED BY <5>3 DEF AbovePeak
      <4> QED BY <4>1, <4>2
    <3> HIDE DEF node, u
    <3>4. AbovePeak(AccumulateBagged(node, ph[u], PosOf(q), q[y] + 1), q, ph, B, u, v, c)
      BY <1>2, <3>1, <3>3, TrailAbove
    <3>5. ~ (t <= N)
      BY <1>1, <1>3, <2>4
    <3> QED BY <3>1, <3>2, <3>4, <3>5
  <2>5. t <= N \/ t > N
    BY <1>1, <1>3
  <2> QED BY <2>1, <2>3, <2>4, <2>5
<1> HIDE DEF next
<1>8. OnTrail([node |-> next, used |-> t, found |-> next.hash = root],
              ns, q, ph, B, p, K, h, y, t, v, c, root)
  BY <1>7 DEF OnTrail
<1> QED BY <1>6, <1>8

(* The loop is on the trail as long as it did not return before. *)
LEMMA Trail ==
  ASSUME NEW LeafValues, NEW H, NEW ns, NEW vs, TreeOf(LeafValues, H, ns, vs),
         NEW q, NEW ph, NEW B, NEW p, NEW K,
         NEW h \in Nat, NEW k \in Nat, NEW y, UnderPeak(H, ns, vs, q, ph, B, p, K, h, k, y),
         NEW s, BagBegins(s, H, ns, ph, B, p, y), NEW v, NEW root,
         NEW r, BagRun(r, H, PosOf(q), NodePos(h, k) - 1, v, s, root),
         NEW t \in 0 .. TrailLength(p, ph, y), \A j \in 0 .. t - 1 : ~ r[j].found
  PROVE  OnTrail(r[t], ns, q, ph, B, p, K, h, y, t, v, ns[NodePos(h, k)], root)
<1> DEFINE T == TrailLength(p, ph, y)
           c == ns[NodePos(h, k)]
           Ok(x) == OnTrail(r[x], ns, q, ph, B, p, K, h, y, x, v, c, root)
           S == {x \in Nat : x <= t => Ok(x)}
<1>1. T \in Nat /\ T <= Len(s) /\ s \in Seq(H) /\ Len(s) \in Nat
  <2>1. /\ p \in Seq(Nat) /\ Len(p) \in Nat /\ Len(q) \in Nat /\ y \in 1 .. Len(q)
    BY DEF UnderPeak, ClimbsFrom, Climbing, PeaksOfRange, Tiles
  <2> QED BY <2>1 DEF TrailLength, BagBegins
<1>2. PeakFrom(PosOf(q), NodePos(h, k) - 1) = q[y] + 1
  <2>1. PeakFound(q, p, K, h, k, y)
    BY PeakFromIs
  <2> QED BY <2>1 DEF PeakFound
<1> HIDE DEF T
<1>3. 0 \in S
  <2>1. r[0] = BagStart(NodePos(h, k) - 1, v)
    BY DEF BagRun
  <2>2. OnTrail(BagStart(NodePos(h, k) - 1, v), ns, q, ph, B, p, K, h, y, 0, v, ns[NodePos(h, k)], root)
    BY TrailStart
  <2>3. Ok(0)
    BY <2>1, <2>2
  <2> QED BY <2>3
<1>4. ASSUME NEW x \in 1 .. t, x - 1 \in S PROVE x \in S
  <2>1. t \in 0 .. T
    BY DEF T
  <2>2. x \in Nat /\ x <= t /\ x - 1 <= t /\ x - 1 \in 0 .. t - 1 /\ x \in 1 .. Len(s) /\ x \in 1 .. T
        /\ x - 1 \in 0 .. Len(s)
    BY <1>1, <2>1
  <2>3. Ok(x - 1)
    BY <1>4, <2>2
  <2>4. ~ r[x - 1].found /\ r[x - 1] \in BagScan(H)
        /\ r[x] = BaggedRound(r[x - 1], s[x], PosOf(q), PeakFrom(PosOf(q), NodePos(h, k) - 1), root)
    BY <2>2 DEF BagRun
  <2>5. r[x] = BaggedRound(r[x - 1], s[x], PosOf(q), q[y] + 1, root)
    BY <1>2, <2>4
  <2>6. x \in 1 .. TrailLength(p, ph, y)
    BY <2>2 DEF T
  <2> HIDE DEF c
  <2>7. OnTrail(BaggedRound(r[x - 1], s[x], PosOf(q), q[y] + 1, root),
                 ns, q, ph, B, p, K, h, y, x, v, c, root)
    BY <2>3, <2>4, <2>6, TrailStep
  <2>8. Ok(x)
    BY <2>5, <2>7
  <2> QED BY <2>2, <2>8
<1> HIDE DEF S
<1>5. t \in Nat /\ t \in 0 .. t
  <2>1. t \in 0 .. T
    BY DEF T
  <2> QED BY <1>1, <2>1
<1>6. \A x \in 0 .. t : x \in S
  BY <1>3, <1>4, <1>5, UpTo
<1> QED BY <1>5, <1>6 DEF S

(* Once it has returned nothing changes, and no more was used than was     *)
(* there.                                                                  *)
LEMMA BaggedReturns ==
  ASSUME NEW H, NEW P, NEW i, NEW v, NEW s \in Seq(H), NEW root, NEW r, BagRun(r, H, P, i, v, s, root),
         NEW a \in 0 .. Len(s), NEW b \in a .. Len(s)
  PROVE  r[a].used <= a /\ (r[a].found => r[b] = r[a])
<1> DEFINE S == {x \in Nat : r[x].used <= x}
           C == {x \in Nat : r[a].found => r[a + x] = r[a]}
<1>1. ASSUME NEW x \in 1 .. Len(s)
      PROVE  /\ r[x - 1].found => r[x] = r[x - 1]
             /\ r[x].used = r[x - 1].used \/ r[x].used = r[x - 1].used + 1
             /\ r[x - 1].used \in Nat
  <2>1. r[x - 1] \in BagScan(H) /\ r[x] = BaggedRound(r[x - 1], s[x], P, PeakFrom(P, i), root)
    <3>1. x - 1 \in 0 .. Len(s)
      OBVIOUS
    <3> QED BY <3>1 DEF BagRun
  <2> QED BY <2>1 DEF BaggedRound, BagScan
<1>2. 0 \in S
  BY DEF BagRun, BagStart
<1>3. ASSUME NEW x \in 1 .. a, x - 1 \in S PROVE x \in S
  <2>1. x \in Nat /\ x \in 1 .. Len(s)
    OBVIOUS
  <2>2. r[x - 1].used <= x - 1
    BY <1>3
  <2>3. r[x].used <= x
    <3> DEFINE before == r[x - 1].used
               after == r[x].used
    <3>1. (after = before \/ after = before + 1) /\ before \in Nat /\ before <= x - 1
      BY <1>1, <2>1, <2>2
    <3> HIDE DEF before, after
    <3>2. after <= x
      BY <2>1, <3>1
    <3> QED BY <3>2 DEF after
  <2> QED BY <2>1, <2>3
<1> HIDE DEF S
<1>4. a \in Nat /\ a \in 0 .. a
  OBVIOUS
<1>5. \A x \in 0 .. a : x \in S
  BY <1>2, <1>3, <1>4, UpTo
<1>6. 0 \in C
  OBVIOUS
<1>7. ASSUME NEW x \in 1 .. b - a, x - 1 \in C PROVE x \in C
  <2>1. x \in Nat /\ a + x \in 1 .. Len(s) /\ a + x - 1 = a + (x - 1)
    OBVIOUS
  <2>2. r[a + (x - 1)].found => r[a + x] = r[a + (x - 1)]
    BY <1>1, <2>1
  <2>3. r[a].found => r[a + (x - 1)] = r[a]
    BY <1>7
  <2> QED BY <2>1, <2>2, <2>3
<1> HIDE DEF C
<1>8. b - a \in Nat /\ b - a \in 0 .. b - a /\ a + (b - a) = b
  OBVIOUS
<1>9. \A x \in 0 .. b - a : x \in C
  BY <1>6, <1>7, <1>8, UpTo
<1>10. r[a].found => r[a + (b - a)] = r[a]
  BY <1>8, <1>9 DEF C
<1>11. r[a].used <= a
  BY <1>4, <1>5 DEF S
<1> QED BY <1>8, <1>10, <1>11

(* What the end of the trail tells: the root is there for the value of the *)
(* range and no other.                                                     *)
LEMMA TrailEnd ==
  ASSUME NEW H, NEW ns, NEW vs, NEW q, NEW ph, NEW B, NEW p, NEW K,
         NEW h \in Nat, NEW k \in Nat, NEW y, UnderPeak(H, ns, vs, q, ph, B, p, K, h, k, y),
         NEW v, NEW c, NEW at, NEW root,
         OnTrail(at, ns, q, ph, B, p, K, h, y, TrailLength(p, ph, y), v, c, root)
  PROVE  /\ TrailLength(p, ph, y) \in Nat
         /\ at.node.hash = B[1] <=> v = c
<1> DEFINE N == Len(p)
           T == TrailLength(p, ph, y)
<1>1. /\ p \in Seq(Nat) /\ N \in Nat /\ K \in [0 .. N -> Nat]
      /\ Len(q) \in Nat /\ y \in 1 .. Len(q) /\ Len(ph) = Len(q)
      /\ PeakAt(q, Len(vs), y, h + N, K[N])
  BY DEF UnderPeak, ClimbsFrom, Climbing, PeaksOfRange, Tiles
<1>2. /\ T = N + (IF y = Len(ph) THEN 0 ELSE 1) + (y - 1) /\ T \in Nat
  BY <1>1 DEF TrailLength
<1>3. ph[y] = ns[NodePos(h + N, K[N])]
  <2>1. h + N \in Nat /\ K[N] \in Nat
    BY <1>1
  <2>2. PeaksOfRange(H, ns, Len(vs), q, ph)
    BY DEF UnderPeak
  <2> HIDE DEF N
  <2> QED BY <1>1, <2>1, <2>2 DEF PeaksOfRange
<1>4. CASE T > N
  <2>1. T + 1 - T = 1
    <3> HIDE DEF T
    <3> QED BY <1>2
  <2>2. AbovePeak(at.node, q, ph, B, T + 1 - T, v, c)
    BY <1>4 DEF OnTrail
  <2>3. AbovePeak(at.node, q, ph, B, 1, v, c)
    <3> HIDE DEF T
    <3> QED BY <2>1, <2>2
  <2> QED BY <1>2, <2>3 DEF AbovePeak
<1>5. CASE ~ (T > N)
  <2>1. T = N /\ y = 1 /\ Len(ph) = 1
    <3> HIDE DEF T
    <3> QED BY <1>1, <1>2, <1>5
  <2>2. BelowPeak(at.node, ns, K, h, T, v, c)
    <3>1. T <= N
      <4> HIDE DEF T
      <4> QED BY <1>1, <2>1
    <3> QED BY <3>1 DEF OnTrail
  <2>3. at.node.hash = ns[NodePos(h + T, K[T])] <=> v = c
    BY <2>2 DEF BelowPeak
  <2>4. ns[NodePos(h + T, K[T])] = ph[1]
    BY <1>3, <2>1
  <2>5. B[1] = ph[1]
    BY <2>1 DEF UnderPeak, Bags
  <2> HIDE DEF T, N
  <2> QED BY <1>2, <2>3, <2>4, <2>5 DEF T
<1> QED BY <1>4, <1>5

(* Before the end of the trail the value of the range does not lead to the *)
(* root.                                                                   *)
LEMMA NoEarlyRoot ==
  ASSUME NEW LeafValues, NEW H, NEW ns, NEW vs, TreeOf(LeafValues, H, ns, vs),
         NEW q, NEW ph, NEW B, NEW p, NEW K,
         NEW h \in Nat, NEW k \in Nat, NEW y, UnderPeak(H, ns, vs, q, ph, B, p, K, h, k, y),
         NEW t \in 1 .. TrailLength(p, ph, y) - 1, NEW v, NEW at,
         OnTrail(at, ns, q, ph, B, p, K, h, y, t, v, v, B[1])
  PROVE  ~ at.found
<1> DEFINE N == Len(p)
           T == TrailLength(p, ph, y)
           x == at.node.hash
<1>0. ASSUME NEW f \in Nat, NEW m \in Nat, (m + 1) * 2^(f + 1) <= Len(vs)
      PROVE  ns[NodePos(f + 1, m)]
               = HashPosPair64(NodePos(f + 1, m), ns[NodePos(f, 2 * m)], ns[NodePos(f, 2 * m + 1)])
  BY <1>0, TreeNodes DEF TreeOf
<1>1. /\ p \in Seq(Nat) /\ N \in Nat /\ K \in [0 .. N -> Nat]
      /\ q \in Seq(Nat) /\ Ascends(q)
      /\ Len(q) \in Nat /\ y \in 1 .. Len(q) /\ Len(ph) = Len(q)
      /\ PeakAt(q, Len(vs), y, h + N, K[N])
  BY DEF UnderPeak, ClimbsFrom, Climbing, PeaksOfRange, Tiles
<1>2. T = N + (IF y = Len(ph) THEN 0 ELSE 1) + (y - 1) /\ T \in Nat /\ t \in Nat /\ t # 0
  BY <1>1 DEF TrailLength
<1>len. T \in Nat /\ t \in Nat /\ t < T /\ (y = Len(ph) => T = N + (y - 1))
  <2>1. t \in 1 .. T - 1
    BY DEF T
  <2> HIDE DEF T
  <2> QED BY <1>1, <1>2, <2>1
<1>3. ph[y] = ns[NodePos(h + N, K[N])]
  <2>1. h + N \in Nat /\ K[N] \in Nat
    <3>1. N \in 0 .. N /\ K \in [0 .. N -> Nat] /\ N \in Nat
      BY <1>1
    <3> QED BY <3>1
  <2>2. PeaksOfRange(H, ns, Len(vs), q, ph)
    BY DEF UnderPeak
  <2> HIDE DEF N
  <2> QED BY <1>1, <2>1, <2>2 DEF PeaksOfRange
<1>4. \A j \in 1 .. Len(q) : j # Len(q) =>
        (\E a, b : ph[j] = HashPosPair64(q[j] + 1, a, b)) /\ q[j] \in Nat
  <2>1. PeaksOfRange(H, ns, Len(vs), q, ph)
    BY DEF UnderPeak
  <2> QED BY <1>1, <2>1 DEF PeaksOfRange
<1>5. Len(ph) # 1 => B[1] = HashPair(B[2], ph[1])
  <2> SUFFICES ASSUME Len(ph) # 1 PROVE B[1] = HashPair(B[2], ph[1])
    OBVIOUS
  <2>1. 1 \in 1 .. Len(ph) - 1 /\ 1 + 1 = 2
    BY <1>1
  <2> QED BY <2>1 DEF UnderPeak, Bags
<1>6. x # B[1]
  <2>1. CASE t <= N
    <3>1. BelowPeak(at.node, ns, K, h, t, v, v)
      BY <2>1 DEF OnTrail
    <3>2. /\ x = ns[NodePos(h + t, K[t])]
          /\ \E a, b : x = HashPosPair64(NodePos(h + t, K[t]), a, b)
      BY <1>2, <3>1 DEF BelowPeak
    <3>3. h + t \in Nat /\ K[t] \in Nat /\ NodePos(h + t, K[t]) > 0 /\ NodePos(h + t, K[t]) \in Nat
      <4>1. h + t \in Nat /\ K[t] \in Nat
        <5>1. t \in 0 .. N /\ K \in [0 .. N -> Nat] /\ t \in Nat
          BY <1>1, <1>2, <2>1
        <5> QED BY <5>1
      <4> QED BY <4>1, NodePosBounds
    <3> HIDE DEF x, T, N
    <3>4. CASE Len(ph) # 1
      <4>1. PICK a, b : x = HashPosPair64(NodePos(h + t, K[t]), a, b)
        BY <3>2
      <4>2. HashPosPair64(NodePos(h + t, K[t]), a, b)[1] = NodePos(h + t, K[t])
        BY DEF HashPosPair64
      <4>3. HashPair(B[2], ph[1])[1] = 0
        BY DEF HashPair
      <4>4. x[1] # B[1][1]
        BY <1>5, <3>3, <3>4, <4>1, <4>2, <4>3
      <4> QED BY <4>4
    <3>5. CASE Len(ph) = 1
      <4>1. y = 1 /\ y = Len(ph) /\ T = N /\ N > 0 /\ t < N
        <5>1. y = 1 /\ y = Len(ph)
          BY <1>1, <3>5
        <5>2. N \in Nat
          BY <1>1
        <5> QED BY <1>len, <5>1, <5>2
      <4>2. B[1] = ns[NodePos(h + N, K[N])]
        <5>1. B[1] = ph[1]
          BY <3>5 DEF UnderPeak, Bags
        <5> QED BY <1>3, <4>1, <5>1
      <4>3. /\ h + (N - 1) \in Nat /\ h + (N - 1) + 1 = h + N /\ h + N \in Nat /\ K[N] \in Nat
        <5>1. N - 1 \in Nat /\ N \in 0 .. N
          BY <1>1, <4>1
        <5> QED BY <1>1, <4>1, <5>1
      <4>4. (K[N] + 1) * 2^(h + N) <= Len(vs)
        BY <1>1 DEF PeakAt, PeakOver
      <4>5. \E a, b : ns[NodePos(h + N, K[N])] = HashPosPair64(NodePos(h + N, K[N]), a, b)
        <5> DEFINE f == h + (N - 1)
        <5>1. f \in Nat /\ f + 1 = h + N
          BY <4>3
        <5> HIDE DEF f
        <5>2. (K[N] + 1) * 2^(f + 1) <= Len(vs)
          BY <4>4, <5>1
        <5>3. ns[NodePos(f + 1, K[N])]
               = HashPosPair64(NodePos(f + 1, K[N]), ns[NodePos(f, 2 * K[N])], ns[NodePos(f, 2 * K[N] + 1)])
          BY <1>0, <4>3, <5>1, <5>2
        <5> QED BY <5>1, <5>3
      <4>6. NodePos(h + N, K[N]) # NodePos(h + t, K[t])
        <5>1. h + N # h + t
          BY <1>1, <1>2, <4>1
        <5> QED BY <3>3, <4>3, <5>1, NodePosUnique
      <4>7. PICK a, b : B[1] = HashPosPair64(NodePos(h + N, K[N]), a, b)
        BY <4>2, <4>5
      <4>8. PICK d, e : x = HashPosPair64(NodePos(h + t, K[t]), d, e)
        BY <3>2
      <4>9. B[1][1] = NodePos(h + N, K[N]) /\ x[1] = NodePos(h + t, K[t])
        BY <4>7, <4>8 DEF HashPosPair64
      <4> QED BY <4>6, <4>9
    <3> QED BY <3>4, <3>5
  <2>2. CASE t > N
    <3> DEFINE u == T + 1 - t
    <3>1. u \in 1 .. Len(ph) - 1 /\ AbovePeak(at.node, q, ph, B, u, v, v)
      BY <2>2 DEF OnTrail
    <3>2. PICK z, w : x = HashPair(z, w) /\ w = ph[u]
      BY <3>1 DEF AbovePeak
    <3>3. u # 1 /\ Len(ph) # 1 /\ u \in 1 .. Len(q) /\ u # Len(q) /\ 1 \in 1 .. Len(q) /\ 1 # Len(q)
      <4>1. Len(q) \in Nat /\ Len(ph) = Len(q)
        BY <1>1
      <4> HIDE DEF T
      <4>2. u # 1
        BY <1>len
      <4> HIDE DEF u
      <4>3. u \in 1 .. Len(q) - 1
        BY <3>1, <4>1
      <4> QED BY <4>1, <4>2, <4>3
    <3>4. PICK a, b : ph[1] = HashPosPair64(q[1] + 1, a, b)
      BY <1>4, <3>3
    <3>5. PICK d, e : ph[u] = HashPosPair64(q[u] + 1, d, e)
      BY <1>4, <3>3
    <3> HIDE DEF u, x, T, N
    <3>6. q[u] + 1 # q[1] + 1
      <4>1. 1 < u /\ q[u] \in Nat /\ q[1] \in Nat
        BY <1>4, <3>1, <3>3
      <4>2. q[1] < q[u]
        BY <1>1, <3>3, <4>1 DEF Ascends
      <4> QED BY <4>1, <4>2
    <3>7. ph[u] # ph[1]
      <4>1. ph[1][1] = q[1] + 1 /\ ph[u][1] = q[u] + 1
        BY <3>4, <3>5 DEF HashPosPair64
      <4> QED BY <3>6, <4>1
    <3>8. HashPair(z, w) = HashPair(B[2], ph[1]) => w = ph[1]
      BY PairTells
    <3> QED BY <1>5, <3>2, <3>3, <3>7, <3>8
  <2>3. t <= N \/ t > N
    <3> HIDE DEF T
    <3> QED BY <1>1, <1>2
  <2> QED BY <2>1, <2>2, <2>3
<1>7. at.found <=> x = B[1]
  BY <1>2 DEF OnTrail
<1> QED BY <1>6, <1>7

(* What the loop finds: the root after as much of the proof as the node    *)
(* needs, if it has the value of the range and the proof is not empty, and *)
(* at the end of its own proof only then.                                  *)
BaggedFinds(first, ph, p, y, s, right) ==
  LET T == TrailLength(p, ph, y)
  IN /\ right /\ T # 0 => first = <<TRUE, T>>
     /\ Len(s) = T => (first = <<TRUE, T>> <=> right)

(* It does. *)
LEMMA BaggedFound ==
  ASSUME NEW LeafValues, NEW H, PairsOf(H) \subseteq H, NEW ns, NEW vs, TreeOf(LeafValues, H, ns, vs),
         NEW q, NEW ph, NEW B, NEW p, NEW K,
         NEW h \in Nat, NEW k \in Nat, NEW y, UnderPeak(H, ns, vs, q, ph, B, p, K, h, k, y),
         NEW s, BagBegins(s, H, ns, ph, B, p, y), NEW v \in H,
         NEW size, PosPeaks(size) = PosOf(q)
  PROVE  BaggedFinds(VerifyFirstInclusionPathBagged(size, v, NodePos(h, k) - 1, s, B[1]),
                     ph, p, y, s, v = ns[NodePos(h, k)])
<1> DEFINE T == TrailLength(p, ph, y)
           i == NodePos(h, k) - 1
           c == ns[NodePos(h, k)]
           root == B[1]
           first == VerifyFirstInclusionPathBagged(size, v, i, s, root)
           M == Len(s)
<1>1. s \in Seq(H) /\ M \in Nat /\ T <= M
  BY DEF BagBegins
<1>2. PosPeaks(size) \in Seq(Nat)
  <2>1. PeakFound(q, p, K, h, k, y)
    BY PeakFromIs
  <2> QED BY <2>1 DEF PeakFound
<1>3. i \in Nat /\ IndexHeight(i) \in Nat
        /\ OnTrail(BagStart(i, v), ns, q, ph, B, p, K, h, y, 0, v, c, root)
  <2>1. /\ OnTrail(BagStart(NodePos(h, k) - 1, v), ns, q, ph, B, p, K, h, y, 0, v, ns[NodePos(h, k)], root)
        /\ NodePos(h, k) - 1 \in Nat /\ IndexHeight(NodePos(h, k) - 1) \in Nat
    BY TrailStart
  <2> QED BY <2>1
<1> HIDE DEF i
<1>run. PICK r : BagRun(r, H, PosPeaks(size), i, v, s, root) /\ BagVerdict(first, r, v, s, root)
  <2> HIDE DEF root
  <2> QED BY <1>1, <1>2, <1>3, BaggedRun
<1>4. /\ BagRun(r, H, PosPeaks(size), i, v, s, root)
      /\ first = IF M = 0 /\ v = root THEN <<TRUE, 0>> ELSE <<r[M].found, r[M].used>>
  BY <1>run DEF BagVerdict
<1>5. BagRun(r, H, PosOf(q), i, v, s, root)
  BY <1>4
<1>6. ASSUME NEW t \in 0 .. T, \A j \in 0 .. t - 1 : ~ r[j].found
      PROVE  OnTrail(r[t], ns, q, ph, B, p, K, h, y, t, v, c, root)
  <2>1. BagRun(r, H, PosOf(q), NodePos(h, k) - 1, v, s, root)
    BY <1>5 DEF i
  <2> HIDE DEF root
  <2> QED BY <1>6, <2>1, Trail
<1>7. \A x : OnTrail(x, ns, q, ph, B, p, K, h, y, T, v, c, root)
               => T \in Nat /\ (x.node.hash = root <=> v = c)
  <2> SUFFICES ASSUME NEW x, OnTrail(x, ns, q, ph, B, p, K, h, y, T, v, c, root)
               PROVE  T \in Nat /\ (x.node.hash = root <=> v = c)
    OBVIOUS
  <2> HIDE DEF c
  <2> QED BY TrailEnd
<1>8. /\ p \in Seq(Nat) /\ Len(p) \in Nat /\ Len(q) \in Nat /\ y \in 1 .. Len(q) /\ Len(ph) = Len(q)
  BY DEF UnderPeak, ClimbsFrom, Climbing, PeaksOfRange, Tiles
<1>9. T \in Nat
  BY <1>8 DEF TrailLength
<1>10. r[0] = BagStart(i, v) /\ ~ r[0].found
  BY <1>5 DEF BagRun, BagStart
<1>11. ASSUME v = c, T # 0 PROVE first = <<TRUE, T>>
  <2> DEFINE S == {x \in Nat : x < T => \A j \in 0 .. x : ~ r[j].found}
  <2>1. 0 \in S
    <3>1. \A j \in 0 .. 0 : j = 0
      OBVIOUS
    <3> QED BY <1>10, <3>1
  <2>2. ASSUME NEW x \in 1 .. T - 1, x - 1 \in S PROVE x \in S
    <3>1. x \in Nat /\ x - 1 < T /\ x \in 0 .. T /\ x < T
      BY <1>9
    <3>2. \A j \in 0 .. x - 1 : ~ r[j].found
      BY <2>2, <3>1
    <3>3. OnTrail(r[x], ns, q, ph, B, p, K, h, y, x, v, c, root)
      BY <1>6, <3>1, <3>2
    <3>4. OnTrail(r[x], ns, q, ph, B, p, K, h, y, x, v, v, B[1])
      BY <1>11, <3>3
    <3>5. x \in 1 .. TrailLength(p, ph, y) - 1
      BY <2>2
    <3> HIDE DEF root
    <3>6. ~ r[x].found
      BY <3>4, <3>5, NoEarlyRoot
    <3>7. \A j \in 0 .. x : j = x \/ j \in 0 .. x - 1
      BY <3>1
    <3> QED BY <3>1, <3>2, <3>6, <3>7
  <2> HIDE DEF S, T
  <2>3. T - 1 \in Nat /\ T - 1 < T /\ T \in 0 .. T /\ T - 1 \in 0 .. T - 1
    BY <1>9, <1>11
  <2>4. \A x \in 0 .. T - 1 : x \in S
    BY <2>1, <2>2, <2>3, UpTo
  <2>5. \A j \in 0 .. T - 1 : ~ r[j].found
    BY <2>3, <2>4 DEF S
  <2>6. OnTrail(r[T], ns, q, ph, B, p, K, h, y, T, v, c, root)
    BY <1>6, <2>3, <2>5
  <2>7. r[T].found /\ r[T].used = T
    <3>1. r[T].node.hash = root
      BY <1>7, <1>11, <2>6
    <3> HIDE DEF root
    <3> QED BY <1>11, <2>6, <3>1 DEF OnTrail
  <2>8. r[M] = r[T]
    <3>1. T \in 0 .. Len(s) /\ M \in T .. Len(s)
      BY <1>1, <1>9
    <3>2. r[T].used <= T /\ (r[T].found => r[M] = r[T])
      <4> HIDE DEF root, M
      <4> QED BY <1>1, <1>5, <3>1, BaggedReturns DEF M
    <3> QED BY <2>7, <3>2
  <2>9. M # 0
    BY <1>1, <1>9, <1>11
  <2> QED BY <1>4, <2>7, <2>8, <2>9
<1>12. ASSUME M = T, T # 0, first = <<TRUE, T>> PROVE v = c
  <2>1. r[T].found /\ r[T].used = T
    <3> HIDE DEF T, M
    <3>1. first = <<r[T].found, r[T].used>>
      BY <1>4, <1>12
    <3> HIDE DEF first
    <3>2. \A a, b : <<TRUE, T>> = <<a, b>> => a = TRUE /\ b = T
      OBVIOUS
    <3>3. <<TRUE, T>> = <<r[T].found, r[T].used>>
      BY <1>12, <3>1
    <3>4. r[T].found = TRUE /\ r[T].used = T
      BY <3>2, <3>3, Zenon
    <3> QED BY <3>4
  <2>2. ASSUME NEW j \in 0 .. T - 1 PROVE ~ r[j].found
    <3>1. j \in 0 .. Len(s) /\ T \in j .. Len(s) /\ j < T /\ j \in Nat
      BY <1>1, <1>9
    <3>2. r[j].used <= j /\ (r[j].found => r[T] = r[j])
      <4> HIDE DEF root, T
      <4> QED BY <1>1, <1>5, <3>1, BaggedReturns
    <3> HIDE DEF T
    <3>3. ASSUME r[j].found PROVE FALSE
      <4>1. r[j].used = T
        BY <2>1, <3>2, <3>3
      <4> QED BY <1>9, <3>1, <3>2, <4>1
    <3> QED BY <3>3
  <2>3. T \in 0 .. T
    BY <1>9
  <2>4. OnTrail(r[T], ns, q, ph, B, p, K, h, y, T, v, c, root)
    BY <1>6, <2>2, <2>3
  <2>5. r[T].node.hash = root
    <3> HIDE DEF root, T
    <3> QED BY <1>12, <2>1, <2>4 DEF OnTrail
  <2> QED BY <1>7, <2>4, <2>5
<1>13. ASSUME M = T, T = 0 PROVE first = <<TRUE, T>> <=> v = c
  <2>1. OnTrail(r[0], ns, q, ph, B, p, K, h, y, T, v, c, root)
    BY <1>3, <1>10, <1>13
  <2>2. r[0].node.hash = v
    BY <1>10 DEF BagStart
  <2>3. v = root <=> v = c
    BY <1>7, <2>1, <2>2
  <2>4. v = root => first = <<TRUE, T>>
    BY <1>4, <1>13
  <2>5. ASSUME v # root PROVE first # <<TRUE, T>>
    <3> HIDE DEF root, T, M
    <3>1. first = <<r[0].found, r[0].used>>
      BY <1>4, <1>13, <2>5
    <3> HIDE DEF first
    <3>2. ~ (<<r[0].found, r[0].used>>[1])
      BY <1>10
    <3> QED BY <3>1, <3>2
  <2> QED BY <2>3, <2>4, <2>5
<1>14. M = T => (first = <<TRUE, T>> <=> v = c)
  <2> HIDE DEF first, T, M, c
  <2> QED BY <1>11, <1>12, <1>13
<1> HIDE DEF first
<1>15. BaggedFinds(first, ph, p, y, s, v = c)
  BY <1>11, <1>14 DEF BaggedFinds
<1> QED BY <1>15 DEF first, i

(* The proof of the node over the k-th run of 2^h leaves, all of which the *)
(* loop goes through                                                       *)
BaggedProofIs(s, H, ns, vs, q, ph, B, h, k) ==
  \E p, K, y : /\ UnderPeak(H, ns, vs, q, ph, B, p, K, h, k, y)
               /\ BagBegins(s, H, ns, ph, B, p, y) /\ Len(s) = TrailLength(p, ph, y)

(* The three parts of such a proof *)
LEMMA BaggedParts ==
  ASSUME NEW H, NEW ns, NEW vs, NEW q, NEW ph, NEW B \in [1 .. Len(ph) -> H], NEW p, NEW K,
         NEW h \in Nat, NEW k \in Nat, NEW y, UnderPeak(H, ns, vs, q, ph, B, p, K, h, k, y),
         NEW a, Siblings(a, H, ns, p), NEW b, NEW c,
         b = IF y = Len(ph) THEN << >> ELSE <<B[y + 1]>>,
         c = Reverse(SubSeq(ph, 1, y - 1))
  PROVE  BaggedProofIs(a \o b \o c, H, ns, vs, q, ph, B, h, k)
<1> DEFINE N == Len(p)
           T == TrailLength(p, ph, y)
           e == IF y = Len(ph) THEN 0 ELSE 1
           s == a \o b \o c
<1>1. /\ p \in Seq(Nat) /\ N \in Nat /\ ph \in Seq(H) /\ Len(ph) \in Nat
      /\ Len(q) \in Nat /\ y \in 1 .. Len(q) /\ Len(ph) = Len(q)
  BY DEF UnderPeak, ClimbsFrom, Climbing, PeaksOfRange, Tiles
<1>2. a \in Seq(H) /\ Len(a) = N /\ \A x \in 1 .. N : a[x] = ns[p[x] + 1]
  BY DEF Siblings
<1>3. e \in Nat /\ b \in Seq(H) /\ Len(b) = e /\ (y # Len(ph) => e = 1 /\ b[1] = B[y + 1])
  <2>1. CASE y = Len(ph)
    BY <2>1
  <2>2. CASE y # Len(ph)
    <3>1. B[y + 1] \in H
      <4>1. y + 1 \in 1 .. Len(ph)
        BY <1>1, <2>2
      <4> QED BY <4>1
    <3> QED BY <2>2, <3>1
  <2> QED BY <2>1, <2>2
<1>4. /\ SubSeq(ph, 1, y - 1) \in Seq(H) /\ Len(SubSeq(ph, 1, y - 1)) = y - 1
      /\ \A x \in 1 .. y - 1 : SubSeq(ph, 1, y - 1)[x] = ph[x]
  <2>1. 1 \in Nat /\ y - 1 \in Nat /\ 1 >= 1 /\ y - 1 <= Len(ph) /\ 1 <= y - 1 + 1 /\ y - 1 - 1 + 1 = y - 1
    BY <1>1
  <2>2. /\ SubSeq(ph, 1, y - 1) \in Seq(H) /\ Len(SubSeq(ph, 1, y - 1)) = y - 1 - 1 + 1
        /\ \A x \in 1 .. y - 1 - 1 + 1 : SubSeq(ph, 1, y - 1)[x] = ph[1 + x - 1]
    BY <1>1, <2>1, PartOf
  <2>3. \A x \in 1 .. y - 1 : 1 + x - 1 = x
    BY <1>1
  <2> QED BY <2>1, <2>2, <2>3
<1>5. c \in Seq(H) /\ Len(c) = y - 1 /\ \A u \in 1 .. y - 1 : c[y - u] = ph[u]
  <2> DEFINE d == SubSeq(ph, 1, y - 1)
  <2> HIDE DEF d
  <2>1. c = [z \in 1 .. y - 1 |-> d[y - 1 - z + 1]]
    BY <1>4 DEF Reverse, d
  <2>2. y - 1 \in Nat
    BY <1>1
  <2>3. \A z \in 1 .. y - 1 : y - 1 - z + 1 \in 1 .. y - 1
    BY <1>1
  <2>7. d \in Seq(H) /\ Len(d) = y - 1
    BY <1>4 DEF d
  <2>8. \A z \in 1 .. y - 1 : d[z] \in H
    BY <2>2, <2>7
  <2>4. \A z \in 1 .. y - 1 : d[y - 1 - z + 1] \in H
    BY <2>3, <2>8
  <2>5. c \in Seq(H) /\ Len(c) = y - 1
    BY <2>1, <2>2, <2>4
  <2>6. ASSUME NEW u \in 1 .. y - 1 PROVE c[y - u] = ph[u]
    <3>1. y - u \in 1 .. y - 1 /\ y - 1 - (y - u) + 1 = u
      BY <1>1
    <3>2. c[y - u] = d[y - 1 - (y - u) + 1]
      BY <2>1, <3>1
    <3>3. d[u] = ph[u]
      BY <1>4 DEF d
    <3> QED BY <3>1, <3>2, <3>3
  <2> QED BY <2>5, <2>6
<1>6. T = N + e + (y - 1) /\ T \in Nat
  BY <1>1, <1>3 DEF TrailLength
<1> HIDE DEF T, e
<1> DEFINE ab == a \o b
<1>7. /\ ab \in Seq(H) /\ Len(ab) = N + e
      /\ \A x \in 1 .. N : ab[x] = a[x]
      /\ \A x \in 1 .. e : ab[N + x] = b[x]
  <2>1. ab \in Seq(H) /\ Len(ab) = N + e
    BY <1>2, <1>3
  <2>2. \A x \in 1 .. N : ab[x] = a[x]
    BY <1>1, <1>2, <1>3
  <2>3. ASSUME NEW x \in 1 .. e PROVE ab[N + x] = b[x]
    <3>1. N + x \in 1 .. N + e /\ ~ (N + x <= N) /\ N + x - N = x
      BY <1>1, <1>3
    <3> QED BY <1>2, <1>3, <3>1
  <2> QED BY <2>1, <2>2, <2>3
<1> HIDE DEF ab
<1>8. /\ s \in Seq(H) /\ Len(s) = T
      /\ \A x \in 1 .. N + e : s[x] = ab[x]
      /\ \A x \in 1 .. y - 1 : s[N + e + x] = c[x]
  <2>0. s = ab \o c
    BY DEF ab
  <2> HIDE DEF s
  <2>1. s \in Seq(H) /\ Len(s) = T
    BY <1>5, <1>6, <1>7, <2>0
  <2>2. N + e \in Nat /\ y - 1 \in Nat
    BY <1>1, <1>3
  <2>3. \A x \in 1 .. N + e : s[x] = ab[x]
    BY <1>5, <1>7, <2>0, <2>2
  <2>4. ASSUME NEW x \in 1 .. y - 1 PROVE s[N + e + x] = c[x]
    <3> DEFINE m == N + e
               z == m + x
    <3>1. m \in Nat /\ Len(ab) = m /\ Len(c) = y - 1 /\ y - 1 \in Nat
      BY <1>5, <1>7, <2>2
    <3> HIDE DEF m
    <3>2. z \in 1 .. Len(ab) + Len(c) /\ ~ (z <= Len(ab)) /\ z - Len(ab) = x
      BY <3>1
    <3> HIDE DEF z
    <3>3. (ab \o c)[z] = c[x]
      <4>1. ab \in Seq(H) /\ c \in Seq(H)
        BY <1>5, <1>7
      <4>2. (ab \o c)[z] = c[z - Len(ab)]
        BY <3>2, <4>1
      <4> QED BY <3>2, <4>2
    <3> QED BY <2>0, <3>3 DEF z, m
  <2> QED BY <2>1, <2>3, <2>4
<1> HIDE DEF s
<1>9. \A x \in 1 .. Len(p) : s[x] = ns[p[x] + 1]
  <2>1. \A x \in 1 .. N : x \in 1 .. N + e
    BY <1>1, <1>3
  <2> QED BY <1>2, <1>7, <1>8, <2>1
<1>10. y # Len(ph) => s[Len(p) + 1] = B[y + 1]
  <2> SUFFICES ASSUME y # Len(ph) PROVE s[N + 1] = B[y + 1]
    OBVIOUS
  <2>1. 1 \in 1 .. e /\ N + 1 \in 1 .. N + e
    BY <1>1, <1>3
  <2> QED BY <1>3, <1>7, <1>8, <2>1
<1>11. \A u \in 1 .. y - 1 : s[T + 1 - u] = ph[u]
  <2> SUFFICES ASSUME NEW u \in 1 .. y - 1 PROVE s[T + 1 - u] = ph[u]
    OBVIOUS
  <2>1. y - u \in 1 .. y - 1 /\ T + 1 - u = N + e + (y - u)
    BY <1>1, <1>3, <1>6
  <2> QED BY <1>5, <1>8, <2>1
<1>12. BagBegins(s, H, ns, ph, B, p, y)
  BY <1>6, <1>8, <1>9, <1>10, <1>11 DEF BagBegins, T
<1> QED BY <1>8, <1>12 DEF BaggedProofIs, s, T

(* The proof that the log makes is like that. *)
LEMMA BaggedProofOf ==
  ASSUME NEW LeafValues, NEW H, PairsOf(H) \subseteq H, NEW ns, NEW vs, TreeOf(LeafValues, H, ns, vs), Len(vs) # 0,
         NEW h \in Nat, NEW k \in Nat, (k + 1) * 2^h <= Len(vs),
         NEW B \in [1 .. Len(PeakHashes(StoreOf(ns), Len(ns) - 1)) -> H],
         Bags(PeakHashes(StoreOf(ns), Len(ns) - 1), B)
  PROVE  BaggedProofIs(InclusionProofBagged(Len(ns), StoreOf(ns), NodePos(h, k) - 1),
                       H, ns, vs, Peaks(Len(ns) - 1), PeakHashes(StoreOf(ns), Len(ns) - 1), B, h, k)
<1> DEFINE n == Len(vs)
           q == Peaks(Len(ns) - 1)
           st == StoreOf(ns)
           ph == PeakHashes(StoreOf(ns), Len(ns) - 1)
           i == NodePos(h, k) - 1
           p == InclusionProofPath(Len(ns) - 1, i)
           a == InclusionProof(st, Len(ns) - 1, i)
           P == PosPeaks(Len(ns))
<1>1. PeaksOfRange(H, ns, n, q, ph) /\ P = PosOf(q) /\ ph = ReadAt(st, q)
  BY PeaksOfRangeAre
<1>2. PICK K : ClimbsFrom(p, K, n, h, k)
  BY InclusionProofOf DEF ProofOf
<1>3. Siblings(a, H, ns, p)
  BY InclusionProofOf DEF ProofOf
<1>4. n \in Nat /\ Len(ns) = MMRIndex(n) /\ Len(ns) \in Nat
  <2>1. n \in Nat /\ Len(ns) = MMRIndex(n)
    BY TreeNodes DEF TreeOf, RangeOver
  <2> QED BY <2>1, MMRIndexBounds
<1>5. i < Len(ns) /\ i \in Nat
  <2>1. NodePos(h, k) \in 1 .. Len(ns)
    BY NodeStamped
  <2> QED BY <1>4, <2>1
<1>6. q \in Seq(Nat) /\ Ascends(q) /\ Len(q) \in Nat /\ ph \in Seq(H) /\ Len(ph) = Len(q) /\ Tiles(q, n)
  <2> HIDE DEF n, q, ph
  <2>1. Tiles(q, n) /\ Ascends(q) /\ ph \in Seq(H) /\ Len(ph) = Len(q)
    BY <1>1 DEF PeaksOfRange
  <2>2. q \in Seq(Nat)
    BY <2>1 DEF Tiles
  <2>3. Len(q) \in Nat
    BY <2>2
  <2> QED BY <2>1, <2>2, <2>3
<1>7. LocalPeak(Len(ns), i) \in Range(q)
  <2> HIDE DEF p
  <2> QED BY <1>2, LocalPeakListed
<1>8. LocalPeak(Len(ns), i) = NodePos(h + Len(p), K[Len(p)]) - 1
  <2> HIDE DEF p, n
  <2>1. LocalPeak(MMRIndex(n), NodePos(h, k) - 1) = NodePos(h + Len(p), K[Len(p)]) - 1
    BY <1>2, <1>4, LocalPeakIs
  <2> QED BY <1>4, <2>1
<1> HIDE DEF q, ph, st, p, a, P, n
<1>9. PICK y \in 1 .. Len(q) : LocalPeak(Len(ns), i) = q[y]
  BY <1>6, <1>7 DEF Range
<1>10. PeakAt(q, n, y, h + Len(p), K[Len(p)])
  BY <1>2, <1>8, <1>9 DEF PeakAt, ClimbsFrom
<1>11. Climbs(q, n, p, K, h, k, y)
  BY <1>2, <1>4, <1>6, <1>10, ClimbsBelow
<1>12. UnderPeak(H, ns, vs, q, ph, B, p, K, h, k, y)
  BY <1>1, <1>2, <1>10, <1>11 DEF UnderPeak, n, ph
<1>13. /\ PeakBagRHS(st, q[y] + 1, PosOf(q)) = SubSeq(ph, y + 1, Len(q))
       /\ PeaksLHS(st, q[y] + 1, PosOf(q)) = SubSeq(ph, 1, y - 1)
  BY <1>1, <1>6, PeaksAside
<1>14. RightSibling(st, q[y] + 1, P) = IF y = Len(ph) THEN << >> ELSE <<B[y + 1]>>
  <2>1. RightSibling(st, q[y] + 1, P)
          = IF SubSeq(ph, y + 1, Len(q)) = << >> THEN << >> ELSE <<HashPeaksRHS(SubSeq(ph, y + 1, Len(q)))>>
    BY <1>1, <1>13 DEF RightSibling, BagPeaksRHS
  <2>2. Len(SubSeq(ph, y + 1, Len(q))) = Len(q) - y
    <3>1. y + 1 \in Nat /\ Len(q) \in Nat /\ y + 1 >= 1 /\ Len(q) <= Len(ph) /\ y + 1 <= Len(q) + 1
          /\ Len(q) - (y + 1) + 1 = Len(q) - y
      BY <1>6
    <3>2. Len(SubSeq(ph, y + 1, Len(q))) = Len(q) - (y + 1) + 1
      BY <1>6, <3>1, PartOf
    <3> QED BY <3>1, <3>2
  <2>3. CASE y = Len(ph)
    <3>1. y + 1 > Len(q)
      BY <1>6, <2>3
    <3>2. SubSeq(ph, y + 1, Len(q)) = << >>
      BY <1>6, <3>1
    <3> QED BY <2>1, <2>3, <3>2
  <2>4. CASE y # Len(ph)
    <3>1. SubSeq(ph, y + 1, Len(q)) # << >>
      <4>1. Len(q) - y # 0 /\ Len(<< >>) = 0
        BY <1>6, <2>4
      <4> QED BY <2>2, <4>1
    <3>2. HashPeaksRHS(SubSeq(ph, y + 1, Len(ph))) = B[y + 1]
      <4>1. y + 1 \in 1 .. Len(ph) /\ ph # << >>
        BY <1>6, <2>4
      <4>2. Bags(ph, B)
        BY DEF ph
      <4> QED BY <1>6, <4>1, <4>2, BagFrom
    <3> QED BY <1>6, <2>1, <2>4, <3>1, <3>2
  <2> QED BY <2>3, <2>4
<1>15. InclusionProofLocal(Len(ns), st, i) = a
  <2>1. ~ (i >= Len(ns))
    BY <1>4, <1>5
  <2> HIDE DEF i
  <2> QED BY <2>1 DEF InclusionProofLocal, a
<1> DEFINE b == RightSibling(st, q[y] + 1, P)
           c == Reverse(PeaksLHS(st, q[y] + 1, P))
<1>16. InclusionProofBagged(Len(ns), st, i) = a \o b \o c
  BY <1>9, <1>15 DEF InclusionProofBagged, P
<1>17. B \in [1 .. Len(ph) -> H]
  BY DEF ph
<1>18. c = Reverse(SubSeq(ph, 1, y - 1))
  BY <1>1, <1>13
<1> HIDE DEF b, c
<1>19. b = IF y = Len(ph) THEN << >> ELSE <<B[y + 1]>>
  BY <1>14 DEF b
<1>20. BaggedProofIs(a \o b \o c, H, ns, vs, q, ph, B, h, k)
  BY <1>3, <1>12, <1>17, <1>18, <1>19, BaggedParts
<1> QED BY <1>16, <1>20 DEF q, ph, st

(* The single root of a range is the bag of all its peaks. *)
LEMMA RootIsBag ==
  ASSUME NEW LeafValues, NEW H, NEW ns, NEW vs, TreeOf(LeafValues, H, ns, vs), Len(vs) # 0
  PROVE  GetRoot(Len(ns), StoreOf(ns)) = HashPeaksRHS(PeakHashes(StoreOf(ns), Len(ns) - 1))
<1> DEFINE q == Peaks(Len(ns) - 1)
           st == StoreOf(ns)
           ph == PeakHashes(StoreOf(ns), Len(ns) - 1)
<1>1. PeaksOfRange(H, ns, Len(vs), q, ph) /\ PosPeaks(Len(ns)) = PosOf(q) /\ ph = ReadAt(st, q)
  BY PeaksOfRangeAre
<1> HIDE DEF q, ph, st
<1>2. q \in Seq(Nat) /\ Ascends(q) /\ 1 \in 1 .. Len(q)
  <2>1. q \in Seq(Nat) /\ Ascends(q) /\ q # << >>
    BY <1>1 DEF PeaksOfRange, Tiles
  <2> QED BY <2>1
<1>3. PeakBagRHS(st, 0, PosOf(q)) = ReadAt(st, q)
  BY <1>2, PeaksAside
<1> QED BY <1>1, <1>3 DEF GetRoot, BagPeaksRHS, st, ph

(* Against the root of the range, the proof of a node shows its value and  *)
(* no other.                                                               *)
LEMMA BaggedShown ==
  ASSUME NEW LeafValues, NEW H, PairsOf(H) \subseteq H, NEW ns, NEW vs, TreeOf(LeafValues, H, ns, vs), Len(vs) # 0,
         NEW i \in 0 .. Len(ns) - 1, NEW v \in H
  PROVE  VerifyInclusionBagged(Len(ns), v, i, InclusionProofBagged(Len(ns), StoreOf(ns), i),
                               GetRoot(Len(ns), StoreOf(ns)))
           <=> v = StoreOf(ns)[i]
<1> DEFINE n == Len(vs)
           size == Len(ns)
           st == StoreOf(ns)
           q == Peaks(Len(ns) - 1)
           ph == PeakHashes(StoreOf(ns), Len(ns) - 1)
           s == InclusionProofBagged(Len(ns), StoreOf(ns), i)
           root == GetRoot(Len(ns), StoreOf(ns))
           first == VerifyFirstInclusionPathBagged(Len(ns), v, i, s, root)
<1>1. n \in Nat /\ size = MMRIndex(n) /\ size \in Nat /\ i \in Nat /\ i + 1 \in Nat /\ i + 1 # 0
      /\ i + 1 <= size
  <2>1. n \in Nat /\ size = MMRIndex(n) /\ ns \in Seq(H)
    BY DEF TreeOf, RangeOver
  <2>2. size \in Nat
    BY <2>1
  <2> HIDE DEF size, n
  <2>3. i \in 0 .. size - 1
    BY DEF size
  <2> QED BY <2>1, <2>2, <2>3
<1>2. PICK h \in Nat, k \in Nat : i + 1 = NodePos(h, k)
  BY <1>1, EveryPosition
<1>3. (k + 1) * 2^h <= n /\ i = NodePos(h, k) - 1
  <2>1. (k + 1) * 2^h <= n
    <3> HIDE DEF n, size
    <3>1. NodePos(h, k) <= MMRIndex(n)
      BY <1>1, <1>2
    <3> QED BY <1>1, <3>1, NodeInRange
  <2>2. i = NodePos(h, k) - 1
    BY <1>1, <1>2
  <2> QED BY <2>1, <2>2
<1>4. st[i] = ns[NodePos(h, k)]
  BY <1>2 DEF StoreOf
<1>5. PeaksOfRange(H, ns, n, q, ph) /\ PosPeaks(size) = PosOf(q)
  BY PeaksOfRangeAre
<1>6. ph \in Seq(H) /\ ph # << >>
  <2>1. q # << >> /\ q \in Seq(Nat) /\ ph \in Seq(H) /\ Len(ph) = Len(q)
    BY <1>5 DEF PeaksOfRange, Tiles
  <2> HIDE DEF q, ph
  <2>2. Len(q) # 0
    BY <2>1
  <2>3. Len(ph) # 0
    BY <2>1, <2>2
  <2> QED BY <2>1, <2>3
<1> HIDE DEF ph
<1>7. PICK B \in [1 .. Len(ph) -> H] : Bags(ph, B) /\ HashPeaksRHS(ph) = B[1]
  BY <1>6, BagIs
<1>8. root = B[1]
  <2>1. root = HashPeaksRHS(ph)
    BY RootIsBag DEF ph
  <2> HIDE DEF root
  <2> QED BY <1>7, <2>1
<1>9. BaggedProofIs(InclusionProofBagged(Len(ns), StoreOf(ns), NodePos(h, k) - 1),
                    H, ns, vs, q, ph, B, h, k)
  BY <1>3, <1>7, BaggedProofOf DEF ph
<1>10. PICK p, K, y : /\ UnderPeak(H, ns, vs, q, ph, B, p, K, h, k, y)
                      /\ BagBegins(s, H, ns, ph, B, p, y) /\ Len(s) = TrailLength(p, ph, y)
  <2> HIDE DEF q
  <2> QED BY <1>3, <1>9 DEF BaggedProofIs
<1> HIDE DEF q, s
<1>11. BaggedFinds(VerifyFirstInclusionPathBagged(Len(ns), v, NodePos(h, k) - 1, s, B[1]),
                   ph, p, y, s, v = ns[NodePos(h, k)])
  BY <1>5, <1>10, BaggedFound
<1>12. first = VerifyFirstInclusionPathBagged(Len(ns), v, NodePos(h, k) - 1, s, B[1])
  BY <1>3, <1>8
<1> HIDE DEF first
<1>13. first = <<TRUE, TrailLength(p, ph, y)>> <=> v = ns[NodePos(h, k)]
  BY <1>10, <1>11, <1>12 DEF BaggedFinds
<1>14. VerifyInclusionBagged(Len(ns), v, i, s, root) <=> first = <<TRUE, Len(s)>>
  BY DEF VerifyInclusionBagged, first
<1>15. VerifyInclusionBagged(Len(ns), v, i, s, root) <=> v = st[i]
  BY <1>4, <1>10, <1>13, <1>14
<1> QED BY <1>15 DEF s

-----------------------------------------------------------------------------
(* verifyconsistencybagged.go: the peaks that are read now                 *)

(* A range with the peaks of another, each at its place, extends it. *)
LEMMA PeaksExtend ==
  ASSUME NEW LeafValues, NEW H, NEW na, NEW va, TreeOf(LeafValues, H, na, va), Len(va) # 0,
         NEW nb, NEW vb, TreeOf(LeafValues, H, nb, vb),
         \A j \in 1 .. Len(Peaks(Len(na) - 1)), h, k \in Nat :
           Peaks(Len(na) - 1)[j] = NodePos(h, k) - 1 => SameAt(na, va, nb, vb, h, k)
  PROVE  IsPrefix(va, vb)
<1>1. /\ va \in Seq(LeafValues) /\ vb \in Seq(LeafValues) /\ Len(va) \in Nat /\ Len(vb) \in Nat
  BY DEF TreeOf, RangeOver
<1>2. ASSUME NEW x \in Nat, x < Len(va) PROVE x < Len(vb) /\ va[x + 1] = vb[x + 1]
  <2>1. PICK j \in 1 .. Len(Peaks(Len(na) - 1)) : \E h, k \in Nat :
          Peaks(Len(na) - 1)[j] = NodePos(h, k) - 1 /\ k * 2^h <= x /\ x < (k + 1) * 2^h
    BY <1>2, PeakHashesOf DEF PeakList
  <2>2. PICK h \in Nat, k \in Nat :
          Peaks(Len(na) - 1)[j] = NodePos(h, k) - 1 /\ k * 2^h <= x /\ x < (k + 1) * 2^h
    BY <2>1
  <2>3. /\ (k + 1) * 2^h <= Len(va) /\ (k + 1) * 2^h <= Len(vb)
        /\ na[NodePos(h, k)] = nb[NodePos(h, k)]
    BY <2>2 DEF SameAt
  <2>4. va[x + 1] = vb[x + 1]
    BY <2>2, <2>3, SubtreesAgree
  <2>5. (k + 1) * 2^h \in Nat
    BY NodePosBounds
  <2> QED BY <1>1, <2>2, <2>3, <2>4, <2>5
<1>3. Len(va) <= Len(vb)
  <2>1. Len(va) - 1 \in Nat /\ Len(va) - 1 < Len(va)
    BY <1>1
  <2> QED BY <1>1, <1>2, <2>1
<1>4. SubSeq(va, 1, Len(va)) = SubSeq(vb, 1, Len(va))
  <2>1. \A y \in 1 .. Len(va) : va[y] = vb[y]
    <3> SUFFICES ASSUME NEW y \in 1 .. Len(va) PROVE va[y] = vb[y]
      OBVIOUS
    <3>1. y - 1 \in Nat /\ y - 1 < Len(va) /\ (y - 1) + 1 = y
      BY <1>1
    <3> QED BY <1>2, <3>1
  <2> QED BY <1>1, <1>3, <2>1
<1> QED BY <1>3, <1>4 DEF IsPrefix

(* Every peak of the range na can be read in nb. *)
PeaksHeld(na, nb) ==
  \A j \in 1 .. Len(Peaks(Len(na) - 1)) : Peaks(Len(na) - 1)[j] < Len(nb)

(* If the peaks read in a range have the bag of those of another, it       *)
(* extends the other.                                                      *)
LEMMA SameBagExtends ==
  ASSUME NEW LeafValues, NEW H, PairsOf(H) \subseteq H,
         NEW na, NEW va, TreeOf(LeafValues, H, na, va), Len(va) # 0,
         NEW nb, NEW vb, TreeOf(LeafValues, H, nb, vb), PeaksHeld(na, nb),
         HashPeaksRHS(ReadAt(StoreOf(nb), Peaks(Len(na) - 1)))
           = HashPeaksRHS(PeakHashes(StoreOf(na), Len(na) - 1))
  PROVE  IsPrefix(va, vb)
<1> DEFINE q == Peaks(Len(na) - 1)
           ph == PeakHashes(StoreOf(na), Len(na) - 1)
           now == ReadAt(StoreOf(nb), q)
<1>1. PeaksOfRange(H, na, Len(va), q, ph)
  BY PeaksOfRangeAre
<1>2. q \in Seq(Nat) /\ q # << >> /\ ph \in Seq(H) /\ Len(ph) = Len(q) /\ Tiles(q, Len(va)) /\ Len(q) \in Nat
  BY <1>1 DEF PeaksOfRange, Tiles
<1>3. PeakList(LeafValues, H, na, va, q, ph)
  BY PeakHashesOf
<1>4. nb \in Seq(H) /\ Len(nb) = MMRIndex(Len(vb)) /\ Len(vb) \in Nat /\ Len(nb) \in Nat /\ Len(va) \in Nat
  BY DEF TreeOf, RangeOver
<1>5. \A j \in 1 .. Len(q) : q[j] < Len(nb)
  BY DEF PeaksHeld
<1>6. HashPeaksRHS(now) = HashPeaksRHS(ph)
  OBVIOUS
<1> HIDE DEF q, ph
<1>7. ASSUME NEW j \in 1 .. Len(q)
      PROVE  now[j] = nb[q[j] + 1] /\ now[j] \in H /\ q[j] \in Nat
  <2>1. q[j] \in 0 .. Len(nb) - 1 /\ q[j] + 1 \in 1 .. Len(nb) /\ q[j] \in Nat /\ j \in DOMAIN q
    BY <1>2, <1>4, <1>5
  <2>2. now[j] = StoreOf(nb)[q[j]]
    BY <2>1 DEF ReadAt
  <2>3. StoreOf(nb)[q[j]] = nb[q[j] + 1]
    BY <2>1 DEF StoreOf
  <2> QED BY <1>4, <2>1, <2>2, <2>3
<1>8. now \in Seq(H) /\ Len(now) = Len(q)
  <2>1. DOMAIN q = 1 .. Len(q)
    BY <1>2
  <2>2. now = [j \in 1 .. Len(q) |-> now[j]]
    BY <2>1 DEF ReadAt
  <2> HIDE DEF now
  <2> QED BY <1>2, <1>7, <2>2
<1> HIDE DEF now
<1>9. now = ph
  <2>1. ph # << >> /\ now # << >>
    <3>1. Len(q) # 0
      BY <1>2
    <3> QED BY <1>2, <1>8, <3>1
  <2> QED BY <1>2, <1>6, <1>8, <2>1, BagTells
<1>10. ASSUME NEW j \in 1 .. Len(q), NEW h \in Nat, NEW k \in Nat, q[j] = NodePos(h, k) - 1
       PROVE  SameAt(na, va, nb, vb, h, k)
  <2>1. PICK g \in Nat, l \in Nat :
          /\ IsPeak(q[j], Len(va), g, l) /\ (l + 1) * 2^g <= Len(va) /\ ph[j] = na[NodePos(g, l)]
    BY <1>3 DEF PeakList
  <2>2. NodePos(g, l) \in Nat /\ NodePos(h, k) \in Nat
    BY NodePosBounds
  <2>3. g = h /\ l = k
    <3>1. NodePos(g, l) = NodePos(h, k)
      BY <1>10, <2>1, <2>2 DEF IsPeak
    <3> QED BY <3>1, NodePosUnique
  <2>4. q[j] + 1 = NodePos(h, k)
    BY <1>10, <2>2
  <2>5. na[NodePos(h, k)] = nb[NodePos(h, k)]
    BY <1>7, <1>9, <2>1, <2>3, <2>4
  <2>6. (k + 1) * 2^h <= Len(vb)
    <3>1. NodePos(h, k) <= MMRIndex(Len(vb))
      BY <1>4, <1>5, <1>7, <2>4
    <3> QED BY <1>4, <3>1, NodeInRange
  <2> QED BY <2>1, <2>3, <2>5, <2>6 DEF SameAt
<1> QED BY <1>10, PeaksExtend DEF q

(* And a range that extends another has its peaks. *)
LEMMA ExtensionHasPeaks ==
  ASSUME NEW LeafValues, NEW H, NEW na, NEW va, TreeOf(LeafValues, H, na, va), Len(va) # 0,
         NEW nb, NEW vb, TreeOf(LeafValues, H, nb, vb), IsPrefix(va, vb)
  PROVE  /\ PeaksHeld(na, nb)
         /\ ReadAt(StoreOf(nb), Peaks(Len(na) - 1)) = PeakHashes(StoreOf(na), Len(na) - 1)
<1> DEFINE q == Peaks(Len(na) - 1)
<1>1. PeakHashes(StoreOf(nb), Len(na) - 1) = PeakHashes(StoreOf(na), Len(na) - 1)
  BY SamePeakHashes
<1>2. PeakHashes(StoreOf(nb), Len(na) - 1) = ReadAt(StoreOf(nb), q)
  BY DEF PeakHashes, ReadAt
<1>3. ASSUME NEW j \in 1 .. Len(q) PROVE q[j] < Len(nb)
  <2>1. PICK h \in Nat, k \in Nat : IsPeak(q[j], Len(va), h, k) /\ (k + 1) * 2^h <= Len(va)
    BY PeakHashesOf DEF PeakList
  <2>2. NodePos(h, k) \in 1 .. Len(na)
    BY <2>1, NodeStamped
  <2>3. Len(na) \in Nat /\ Len(nb) \in Nat
    BY DEF TreeOf, RangeOver
  <2>4. q[j] \in Nat /\ q[j] < Len(na)
    BY <2>1, <2>2, <2>3 DEF IsPeak
  <2> HIDE DEF q
  <2> QED BY <2>4, SameNodes
<1> QED BY <1>1, <1>2, <1>3 DEF PeaksHeld

(* The proofs of the peaks P, one after the other *)
PathRun(c, H, b, st, P) ==
  /\ c \in [0 .. Len(P) -> Seq(H)] /\ c[0] = << >>
  /\ \A j \in 1 .. Len(P) : c[j] = c[j - 1] \o InclusionProofBagged(b, st, P[j] - 1)

(* IndexConsistencyProofBagged makes them. *)
LEMMA BaggedPathRun ==
  ASSUME NEW H, NEW a, NEW b, NEW st, PosPeaks(a) \in Seq(Nat),
         \A j \in 1 .. Len(PosPeaks(a)) : InclusionProofBagged(b, st, PosPeaks(a)[j] - 1) \in Seq(H)
  PROVE  \E c : /\ PathRun(c, H, b, st, PosPeaks(a))
                /\ IndexConsistencyProofBagged(a, b, st)
                     = [mmrSizeA |-> a, mmrSizeB |-> b, path |-> c[Len(PosPeaks(a))]]
<1> DEFINE seq == PosPeaks(a)
           V == Seq(H)
           E == {seq[j] : j \in 1 .. Len(seq)}
           N == Len(seq)
           base == << >>
           Op == [p \in V \X E |-> p[1] \o InclusionProofBagged(b, st, p[2] - 1)]
           Is(f) == f = [d \in SUBSET DOMAIN seq |->
                           IF d = {} THEN base
                           ELSE f[d \ {Max(d)}] \o InclusionProofBagged(b, st, seq[Max(d)] - 1)]
           F == CHOOSE f : Is(f)
<1>1. IndexConsistencyProofBagged(a, b, st) = [mmrSizeA |-> a, mmrSizeB |-> b, path |-> F[DOMAIN seq]]
  BY DEF IndexConsistencyProofBagged, FoldLeft, MapThenFoldSet
<1> HIDE DEF seq
<1>2. N \in Nat /\ DOMAIN seq = 1 .. N /\ seq \in Seq(E) /\ N = Len(seq)
  <2>1. seq \in Seq(Nat)
    BY DEF seq
  <2>2. seq = [j \in 1 .. Len(seq) |-> seq[j]] /\ Len(seq) \in Nat
    BY <2>1
  <2>3. \A j \in 1 .. Len(seq) : seq[j] \in E
    OBVIOUS
  <2> HIDE DEF E
  <2> QED BY <2>1, <2>2, <2>3
<1>3. \A e \in E : InclusionProofBagged(b, st, e - 1) \in V
  BY DEF seq
<1>4. /\ Op \in [V \X E -> V] /\ base \in V
      /\ \A s \in V, e \in E : Op[<<s, e>>] = s \o InclusionProofBagged(b, st, e - 1)
  <2>1. base \in V
    OBVIOUS
  <2>2. ASSUME NEW s \in V, NEW e \in E PROVE s \o InclusionProofBagged(b, st, e - 1) \in V
    <3>1. InclusionProofBagged(b, st, e - 1) \in Seq(H)
      BY <1>3
    <3> QED BY <3>1
  <2> HIDE DEF V, base, E
  <2> QED BY <2>1, <2>2
<1> HIDE DEF V, base, Op, N, E
<1>5. \E f : Is(f)
  <2>1. PICK f : FoldEquation(f, V, Op, base, seq)
    BY <1>2, <1>4, FoldSolution
  <2>2. /\ f \in [SUBSET DOMAIN seq -> V]
        /\ f = [d \in SUBSET DOMAIN seq |->
                 IF d = {} THEN base ELSE Op[<<f[d \ {Max(d)}], seq[Max(d)]>>]]
    BY <2>1 DEF FoldEquation
  <2>3. ASSUME NEW d \in SUBSET DOMAIN seq, d # {}
        PROVE  Op[<<f[d \ {Max(d)}], seq[Max(d)]>>]
                 = f[d \ {Max(d)}] \o InclusionProofBagged(b, st, seq[Max(d)] - 1)
    <3>1. seq[Max(d)] \in E
      BY <1>2, <2>3, MaxOfIndices
    <3>2. f[d \ {Max(d)}] \in V
      BY <2>2
    <3> QED BY <1>4, <3>1, <3>2
  <2>4. Is(f)
    BY <2>2, <2>3
  <2> QED BY <2>4
<1>6. Is(F)
  <2> HIDE DEF Is
  <2> QED BY <1>5
<1> HIDE DEF F
<1>7. PICK c : FoldsTo(c, V, Op, base, seq, F[DOMAIN seq])
  <2>1. F[{}] = base
    BY <1>6
  <2>2. ASSUME NEW d \in SUBSET DOMAIN seq, d # {}, F[d \ {Max(d)}] \in V
        PROVE  F[d] = Op[<<F[d \ {Max(d)}], seq[Max(d)]>>]
    <3>1. seq[Max(d)] \in E
      BY <1>2, <2>2, MaxOfIndices
    <3> QED BY <1>4, <1>6, <2>2, <3>1
  <2> HIDE DEF Is
  <2> QED BY <1>2, <1>4, <2>1, <2>2, FoldRun
<1>8. ASSUME NEW j \in 1 .. N PROVE c[j] = c[j - 1] \o InclusionProofBagged(b, st, seq[j] - 1)
  <2>1. j - 1 \in 0 .. Len(seq) /\ j \in 1 .. Len(seq)
    BY <1>2
  <2>2. c[j - 1] \in V /\ c[j] = Op[<<c[j - 1], seq[j]>>]
    BY <1>7, <2>1 DEF FoldsTo
  <2>3. seq[j] \in E
    BY <2>1 DEF E
  <2> QED BY <1>4, <2>2, <2>3
<1>9. c \in [0 .. N -> Seq(H)] /\ c[0] = << >> /\ F[DOMAIN seq] = c[N]
  BY <1>2, <1>7 DEF FoldsTo, V, base
<1>10. PathRun(c, H, b, st, seq)
  BY <1>2, <1>8, <1>9 DEF PathRun
<1> QED BY <1>1, <1>2, <1>9, <1>10 DEF seq

(* The loop over the peaks of the range that is known, and where it is     *)
UsesScan(H) == [ok : BOOLEAN, path : Seq(H)]
UsesRound(at, k, ph, proof, root) ==
  LET first == VerifyFirstInclusionPathBagged(proof.mmrSizeB, ph[k],
                 PosPeaks(proof.mmrSizeA)[k] - 1, at.path, root)
  IN IF ~at.ok \/ ~first[1] THEN [at EXCEPT !.ok = FALSE]
     ELSE [ok |-> TRUE, path |-> SubSeq(at.path, first[2] + 1, Len(at.path))]
UsesRun(r, H, ph, proof, root) ==
  /\ r \in [0 .. Len(ph) -> UsesScan(H)] /\ r[0] = [ok |-> TRUE, path |-> proof.path]
  /\ \A j \in 1 .. Len(ph) : r[j] = UsesRound(r[j - 1], j, ph, proof, root)

(* What it comes to *)
UsesEnds(r, ph, proof, root) ==
  UsesUpPath(ph, proof, root) <=> r[Len(ph)].ok /\ r[Len(ph)].path = << >>

(* UsesUpPath is such a loop. *)
LEMMA UsesUpRun ==
  ASSUME NEW H, NEW ph \in Seq(H), NEW proof, proof.path \in Seq(H), NEW root,
         \A at \in UsesScan(H), k \in 1 .. Len(ph) : UsesRound(at, k, ph, proof, root) \in UsesScan(H)
  PROVE  \E r : UsesRun(r, H, ph, proof, root) /\ UsesEnds(r, ph, proof, root)
<1> DEFINE V == UsesScan(H)
           E == 1 .. Len(ph)
           N == Len(ph)
           base == [ok |-> TRUE, path |-> proof.path]
           seq == [i \in DOMAIN ph |-> i]
           Op == [p \in V \X E |-> UsesRound(p[1], p[2], ph, proof, root)]
           Is(f) == f = [d \in SUBSET DOMAIN seq |->
                           IF d = {} THEN base
                           ELSE UsesRound(f[d \ {Max(d)}], seq[Max(d)], ph, proof, root)]
           F == CHOOSE f : Is(f)
<1>1. UsesUpPath(ph, proof, root) <=> F[DOMAIN seq].ok /\ F[DOMAIN seq].path = << >>
  BY DEF UsesUpPath, FoldLeftDomain, FoldLeft, MapThenFoldSet, UsesRound
<1>2. /\ N \in Nat /\ seq \in Seq(E) /\ Len(seq) = N /\ DOMAIN seq = 1 .. N
      /\ \A k \in 1 .. N : seq[k] = k
  OBVIOUS
<1>4. /\ Op \in [V \X E -> V] /\ base \in V
      /\ \A s \in V, k \in E : Op[<<s, k>>] = UsesRound(s, k, ph, proof, root)
  <2>1. base \in V
    BY DEF UsesScan
  <2>2. \A s \in V, k \in E : UsesRound(s, k, ph, proof, root) \in V
    OBVIOUS
  <2> HIDE DEF V, base, E
  <2> QED BY <2>1, <2>2
<1> HIDE DEF V, base, Op, N, seq
<1>5. \E f : Is(f)
  <2>1. PICK f : FoldEquation(f, V, Op, base, seq)
    <3> HIDE DEF E
    <3> QED BY <1>2, <1>4, FoldSolution
  <2>2. /\ f \in [SUBSET DOMAIN seq -> V]
        /\ f = [d \in SUBSET DOMAIN seq |->
                 IF d = {} THEN base ELSE Op[<<f[d \ {Max(d)}], seq[Max(d)]>>]]
    BY <2>1 DEF FoldEquation
  <2>3. ASSUME NEW d \in SUBSET DOMAIN seq, d # {}
        PROVE  Op[<<f[d \ {Max(d)}], seq[Max(d)]>>]
                 = UsesRound(f[d \ {Max(d)}], seq[Max(d)], ph, proof, root)
    <3> HIDE DEF E
    <3>1. seq[Max(d)] \in E
      BY <1>2, <2>3, MaxOfIndices
    <3>2. f[d \ {Max(d)}] \in V
      BY <2>2
    <3> QED BY <1>4, <3>1, <3>2
  <2>4. Is(f)
    BY <2>2, <2>3
  <2> QED BY <2>4
<1>6. Is(F)
  <2> HIDE DEF Is
  <2> QED BY <1>5
<1> HIDE DEF F
<1>7. PICK r : FoldsTo(r, V, Op, base, seq, F[DOMAIN seq])
  <2>1. F[{}] = base
    BY <1>6
  <2>2. ASSUME NEW d \in SUBSET DOMAIN seq, d # {}, F[d \ {Max(d)}] \in V
        PROVE  F[d] = Op[<<F[d \ {Max(d)}], seq[Max(d)]>>]
    <3>1. seq[Max(d)] \in E
      <4> HIDE DEF E
      <4> QED BY <1>2, <2>2, MaxOfIndices
    <3> HIDE DEF E
    <3> QED BY <1>4, <1>6, <2>2, <3>1
  <2> HIDE DEF Is, E
  <2> QED BY <1>2, <1>4, <2>1, <2>2, FoldRun
<1>8. ASSUME NEW j \in 1 .. N PROVE r[j] = UsesRound(r[j - 1], j, ph, proof, root)
  <2>1. j \in Nat /\ j - 1 \in 0 .. Len(seq) /\ j \in 1 .. Len(seq) /\ j \in E
    BY <1>2 DEF N
  <2>2. r[j - 1] \in V /\ r[j] = Op[<<r[j - 1], seq[j]>>] /\ seq[j] = j
    BY <1>2, <1>7, <2>1 DEF FoldsTo
  <2> HIDE DEF E
  <2> QED BY <1>4, <2>1, <2>2
<1>9. r \in [0 .. N -> V] /\ r[0] = base /\ F[DOMAIN seq] = r[N]
  BY <1>2, <1>7 DEF FoldsTo
<1>10. UsesRun(r, H, ph, proof, root)
  BY <1>8, <1>9 DEF UsesRun, N, V, base
<1>11. UsesEnds(r, ph, proof, root)
  BY <1>1, <1>9 DEF UsesEnds, N
<1> QED BY <1>10, <1>11

(* The proofs of the peaks P, and a sequence that begins another *)
ProofsIn(H, b, st, P) == \A z \in 1 .. Len(P) : InclusionProofBagged(b, st, P[z] - 1) \in Seq(H)
Starts(s, t) == Len(s) <= Len(t) /\ \A x \in 1 .. Len(s) : t[x] = s[x]

(* Each list of proofs begins the next. *)
LEMMA PathPrefix ==
  ASSUME NEW H, NEW b, NEW st, NEW P \in Seq(Nat), NEW c, PathRun(c, H, b, st, P),
         ProofsIn(H, b, st, P), NEW j \in 0 .. Len(P)
  PROVE  Starts(c[j], c[Len(P)])
<1> DEFINE m == Len(P)
           S == {z \in Nat : Starts(c[j], c[j + z])}
<1>1. m \in Nat /\ j \in Nat /\ \A x \in 0 .. m : c[x] \in Seq(H) /\ Len(c[x]) \in Nat
  <2>1. c \in [0 .. m -> Seq(H)] /\ m \in Nat
    BY DEF PathRun
  <2>2. \A x \in 0 .. m : c[x] \in Seq(H)
    BY <2>1
  <2> QED BY <2>1, <2>2
<1>2. 0 \in S
  BY <1>1 DEF Starts
<1>3. ASSUME NEW z \in 1 .. m - j, z - 1 \in S PROVE z \in S
  <2>1. j + z \in 1 .. m /\ j + z - 1 = j + (z - 1) /\ j + (z - 1) \in 0 .. m /\ z \in Nat /\ j + z \in 0 .. m
    BY <1>1
  <2> DEFINE e == InclusionProofBagged(b, st, P[j + z] - 1)
             s == c[j + (z - 1)]
  <2>2. c[j + z] = s \o e /\ e \in Seq(H) /\ s \in Seq(H)
    <3> DEFINE y == j + z
    <3>1. y \in 1 .. Len(P) /\ y - 1 = j + (z - 1)
      BY <2>1
    <3> HIDE DEF y
    <3>2. c[y] = c[y - 1] \o InclusionProofBagged(b, st, P[y] - 1)
      BY <3>1 DEF PathRun
    <3>3. InclusionProofBagged(b, st, P[y] - 1) \in Seq(H)
      BY <3>1 DEF ProofsIn
    <3> QED BY <1>1, <2>1, <3>1, <3>2, <3>3 DEF y
  <2>3. Starts(c[j], s)
    BY <1>3
  <2>4. c[j] \in Seq(H) /\ Len(c[j]) \in Nat
    BY <1>1
  <2> HIDE DEF s, e
  <2>5. Starts(s, s \o e)
    BY <2>2 DEF Starts
  <2>6. Len(s) \in Nat /\ Len(s \o e) \in Nat
    BY <2>2
  <2>7. Starts(c[j], s \o e)
    <3>1. \A x \in 1 .. Len(c[j]) : x \in 1 .. Len(s)
      BY <2>3, <2>4, <2>6 DEF Starts
    <3> QED BY <2>3, <2>4, <2>5, <2>6, <3>1 DEF Starts
  <2> QED BY <2>1, <2>2, <2>7
<1> HIDE DEF S
<1>4. m - j \in Nat /\ m - j \in 0 .. m - j /\ j + (m - j) = m
  BY <1>1
<1>5. \A z \in 0 .. m - j : z \in S
  BY <1>2, <1>3, <1>4, UpTo
<1>6. Starts(c[j], c[j + (m - j)])
  BY <1>4, <1>5 DEF S
<1> QED BY <1>4, <1>6

(* What is left of a sequence after its first elements *)
Rest(s, a) == SubSeq(s, a + 1, Len(s))

(* Its elements *)
LEMMA RestIs ==
  ASSUME NEW H, NEW s \in Seq(H), NEW a \in Nat, a <= Len(s)
  PROVE  /\ Rest(s, a) \in Seq(H) /\ Len(Rest(s, a)) = Len(s) - a
         /\ \A x \in 1 .. Len(s) - a : Rest(s, a)[x] = s[a + x]
<1>1. /\ a + 1 \in Nat /\ a + 1 >= 1 /\ Len(s) <= Len(s) /\ a + 1 <= Len(s) + 1
      /\ Len(s) \in Nat /\ Len(s) - (a + 1) + 1 = Len(s) - a
  OBVIOUS
<1>2. /\ SubSeq(s, a + 1, Len(s)) \in Seq(H) /\ Len(SubSeq(s, a + 1, Len(s))) = Len(s) - (a + 1) + 1
      /\ \A x \in 1 .. Len(s) - (a + 1) + 1 : SubSeq(s, a + 1, Len(s))[x] = s[a + 1 + x - 1]
  BY <1>1, PartOf
<1>3. \A x \in 1 .. Len(s) - a : a + 1 + x - 1 = a + x
  BY <1>1
<1> QED BY <1>1, <1>2, <1>3 DEF Rest

(* What is left of that *)
LEMMA RestOfRest ==
  ASSUME NEW H, NEW s \in Seq(H), NEW a \in Nat, NEW b \in Nat, a + b <= Len(s)
  PROVE  Rest(Rest(s, a), b) = Rest(s, a + b)
<1> DEFINE t == Rest(s, a)
           u == Rest(t, b)
           w == Rest(s, a + b)
           L == Len(s)
<1>1. L \in Nat /\ a <= L /\ b <= L - a /\ a + b \in Nat
  OBVIOUS
<1>2. t \in Seq(H) /\ Len(t) = L - a /\ \A x \in 1 .. L - a : t[x] = s[a + x]
  BY <1>1, RestIs
<1> HIDE DEF t
<1>3. u \in Seq(H) /\ Len(u) = Len(t) - b /\ \A x \in 1 .. Len(t) - b : u[x] = t[b + x]
  <2>1. b <= Len(t) /\ t \in Seq(H)
    BY <1>1, <1>2
  <2> QED BY <2>1, RestIs
<1>4. w \in Seq(H) /\ Len(w) = L - (a + b) /\ \A x \in 1 .. L - (a + b) : w[x] = s[a + b + x]
  BY <1>1, RestIs
<1> HIDE DEF u, w, L
<1>5. Len(u) = Len(w) /\ Len(u) \in Nat
  BY <1>1, <1>2, <1>3, <1>4
<1>6. ASSUME NEW x \in 1 .. Len(u) PROVE u[x] = w[x]
  <2>1. /\ x \in 1 .. Len(t) - b /\ b + x \in 1 .. L - a /\ x \in 1 .. L - (a + b)
        /\ a + (b + x) = a + b + x
    BY <1>1, <1>2, <1>3
  <2> QED BY <1>2, <1>3, <1>4, <2>1
<1>7. u = [x \in 1 .. Len(u) |-> u[x]] /\ w = [x \in 1 .. Len(w) |-> w[x]]
  BY <1>3, <1>4
<1> QED BY <1>5, <1>6, <1>7 DEF u, w, t

(* A list that begins with a proof *)
LEMMA BagBeginsLonger ==
  ASSUME NEW H, NEW ns, NEW ph, NEW B, NEW p, NEW y, NEW s, BagBegins(s, H, ns, ph, B, p, y),
         Len(s) = TrailLength(p, ph, y), p \in Seq(Nat), y \in 1 .. Len(ph), Len(ph) \in Nat,
         NEW t \in Seq(H), Len(s) <= Len(t), \A x \in 1 .. Len(s) : t[x] = s[x]
  PROVE  BagBegins(t, H, ns, ph, B, p, y)
<1> DEFINE T == TrailLength(p, ph, y)
<1>1. /\ Len(p) \in Nat /\ T \in Nat /\ Len(p) <= T /\ (y # Len(ph) => Len(p) + 1 <= T) /\ y - 1 <= T
  BY DEF TrailLength
<1> HIDE DEF T
<1>2. T = Len(s)
  BY DEF T
<1>3. \A x \in 1 .. Len(p) : t[x] = ns[p[x] + 1]
  <2>1. \A x \in 1 .. Len(p) : x \in 1 .. Len(s)
    BY <1>1, <1>2
  <2> QED BY <2>1 DEF BagBegins
<1>4. y # Len(ph) => t[Len(p) + 1] = B[y + 1]
  <2> SUFFICES ASSUME y # Len(ph) PROVE t[Len(p) + 1] = B[y + 1]
    OBVIOUS
  <2>1. Len(p) + 1 \in 1 .. Len(s)
    BY <1>1, <1>2
  <2> QED BY <2>1 DEF BagBegins
<1>5. \A u \in 1 .. y - 1 : t[T + 1 - u] = ph[u]
  <2> SUFFICES ASSUME NEW u \in 1 .. y - 1 PROVE t[T + 1 - u] = ph[u]
    OBVIOUS
  <2>1. T + 1 - u \in 1 .. Len(s)
    BY <1>1, <1>2
  <2>2. s[T + 1 - u] = ph[u]
    BY DEF BagBegins, T
  <2> QED BY <2>1, <2>2
<1> QED BY <1>2, <1>3, <1>4, <1>5 DEF BagBegins, T

(* The peaks qa of a range, whose hashes pha the range nb over vb has too *)
PeaksKnown(H, qa, pha, nb, vb) ==
  /\ qa \in Seq(Nat) /\ pha \in Seq(H) /\ Len(pha) = Len(qa)
  /\ \A j \in 1 .. Len(qa) : \E h, k \in Nat :
       /\ qa[j] = NodePos(h, k) - 1 /\ (k + 1) * 2^h <= Len(vb)
       /\ pha[j] = nb[NodePos(h, k)]

(* One round of the loop over them *)
LEMMA UsesRoundType ==
  ASSUME NEW H, PairsOf(H) \subseteq H, NEW qa, NEW pha, NEW nb, NEW vb, PeaksKnown(H, qa, pha, nb, vb),
         NEW proof, PosPeaks(proof.mmrSizeA) = PosOf(qa), PosPeaks(proof.mmrSizeB) \in Seq(Nat), NEW root,
         NEW at \in UsesScan(H), NEW k \in 1 .. Len(pha)
  PROVE  UsesRound(at, k, pha, proof, root) \in UsesScan(H)
<1> DEFINE i == PosPeaks(proof.mmrSizeA)[k] - 1
           first == VerifyFirstInclusionPathBagged(proof.mmrSizeB, pha[k], i, at.path, root)
<1>1. at.ok \in BOOLEAN /\ at.path \in Seq(H) /\ Len(at.path) \in Nat
  BY DEF UsesScan
<1>2. PICK h \in Nat, l \in Nat : qa[k] = NodePos(h, l) - 1
  BY DEF PeaksKnown
<1>3. i = qa[k] /\ i \in Nat /\ IndexHeight(i) \in Nat /\ pha[k] \in H
  <2>1. qa \in Seq(Nat) /\ k \in 1 .. Len(qa) /\ pha \in Seq(H)
    BY DEF PeaksKnown
  <2>2. PosOf(qa)[k] = qa[k] + 1 /\ qa[k] \in Nat
    BY <2>1 DEF PosOf
  <2>3. i = qa[k] /\ i \in Nat
    BY <2>2
  <2> DEFINE pos == NodePos(h, l)
  <2>4. pos \in Nat
    BY NodePosBounds
  <2>5. IndexHeight(pos - 1) = h
    <3>1. pos - 1 + 1 = pos
      <4> HIDE DEF pos
      <4> QED BY <2>4
    <3>2. PosHeight(pos) = h
      BY HeightOfNode
    <3> HIDE DEF pos
    <3> QED BY <3>1, <3>2 DEF IndexHeight
  <2>6. i = pos - 1
    BY <1>2, <2>3
  <2> HIDE DEF pos
  <2> QED BY <2>1, <2>3, <2>5, <2>6
<1> HIDE DEF i
<1>4. PICK r : /\ BagRun(r, H, PosPeaks(proof.mmrSizeB), i, pha[k], at.path, root)
               /\ BagVerdict(first, r, pha[k], at.path, root)
  BY <1>1, <1>3, BaggedRun
<1>5. first = <<TRUE, 0>> \/ \E f \in BOOLEAN, u \in Nat : first = <<f, u>>
  <2>1. r[Len(at.path)] \in BagScan(H)
    <3>1. Len(at.path) \in 0 .. Len(at.path)
      BY <1>1
    <3> QED BY <1>4, <3>1 DEF BagRun
  <2>2. r[Len(at.path)].found \in BOOLEAN /\ r[Len(at.path)].used \in Nat
    BY <2>1 DEF BagScan
  <2>3. first = <<TRUE, 0>> \/ first = <<r[Len(at.path)].found, r[Len(at.path)].used>>
    BY <1>4 DEF BagVerdict
  <2> HIDE DEF first
  <2> QED BY <2>2, <2>3
<1>6. UsesRound(at, k, pha, proof, root)
        = IF ~at.ok \/ ~first[1] THEN [at EXCEPT !.ok = FALSE]
          ELSE [ok |-> TRUE, path |-> SubSeq(at.path, first[2] + 1, Len(at.path))]
  BY DEF UsesRound, i
<1> HIDE DEF first
<1>7. first[2] \in Nat
  <2>1. CASE first = <<TRUE, 0>>
    <3>1. <<TRUE, 0>>[2] = 0 /\ 0 \in Nat
      OBVIOUS
    <3> QED BY <2>1, <3>1
  <2>2. CASE \E f \in BOOLEAN, u \in Nat : first = <<f, u>>
    <3>1. PICK f \in BOOLEAN, u \in Nat : first = <<f, u>>
      BY <2>2
    <3>2. <<f, u>>[2] = u
      OBVIOUS
    <3> QED BY <3>1, <3>2
  <2> QED BY <1>5, <2>1, <2>2
<1>8. [at EXCEPT !.ok = FALSE] \in UsesScan(H)
  BY DEF UsesScan
<1>9. SubSeq(at.path, first[2] + 1, Len(at.path)) \in Seq(H)
  <2> DEFINE a == first[2] + 1
             b == Len(at.path)
  <2>1. a \in Nat /\ b \in Nat /\ a >= 1
    BY <1>1, <1>7
  <2>2. CASE a <= b + 1
    <3>1. SubSeq(at.path, a, b) \in Seq(H)
      <4>1. b <= Len(at.path)
        BY <2>1
      <4> HIDE DEF a, b
      <4> QED BY <1>1, <2>1, <2>2, <4>1, PartOf
    <3> QED BY <3>1
  <2>3. CASE ~ (a <= b + 1)
    <3> HIDE DEF a
    <3> HIDE DEF b
    <3>1. SubSeq(at.path, a, b) = << >>
      <4>1. b - a + 1 <= 0
        BY <2>1, <2>3
      <4> QED BY <1>1, <2>1, <4>1
    <3>2. << >> \in Seq(H)
      OBVIOUS
    <3>3. SubSeq(at.path, a, b) \in Seq(H)
      BY <3>1, <3>2
    <3> QED BY <3>3 DEF a, b
  <2> QED BY <2>2, <2>3
<1>10. [ok |-> TRUE, path |-> SubSeq(at.path, first[2] + 1, Len(at.path))] \in UsesScan(H)
  BY <1>9 DEF UsesScan
<1> QED BY <1>6, <1>8, <1>10

(* The list of their proofs is used up, if no proof is empty. *)
LEMMA PathIsUsed ==
  ASSUME NEW LeafValues, NEW H, PairsOf(H) \subseteq H,
         NEW nb, NEW vb, TreeOf(LeafValues, H, nb, vb), Len(vb) # 0,
         NEW B \in [1 .. Len(PeakHashes(StoreOf(nb), Len(nb) - 1)) -> H],
         Bags(PeakHashes(StoreOf(nb), Len(nb) - 1), B),
         NEW qa, NEW pha, PeaksKnown(H, qa, pha, nb, vb), NEW a, PosPeaks(a) = PosOf(qa),
         \A j \in 1 .. Len(qa) : InclusionProofBagged(Len(nb), StoreOf(nb), qa[j]) # << >>
  PROVE  UsesUpPath(pha, IndexConsistencyProofBagged(a, Len(nb), StoreOf(nb)), B[1])
<1> DEFINE st == StoreOf(nb)
           P == PosPeaks(a)
           qb == Peaks(Len(nb) - 1)
           phb == PeakHashes(StoreOf(nb), Len(nb) - 1)
           proof == IndexConsistencyProofBagged(a, Len(nb), StoreOf(nb))
           Proof(j) == InclusionProofBagged(Len(nb), StoreOf(nb), P[j] - 1)
           m == Len(qa)
           root == B[1]
<1>1. /\ qa \in Seq(Nat) /\ pha \in Seq(H) /\ Len(pha) = m /\ m \in Nat
      /\ P \in Seq(Nat) /\ Len(P) = m /\ \A j \in 1 .. m : P[j] - 1 = qa[j]
  <2>1. qa \in Seq(Nat) /\ pha \in Seq(H) /\ Len(pha) = m /\ m \in Nat
    BY DEF PeaksKnown
  <2>2. P = [j \in 1 .. m |-> qa[j] + 1]
    BY <2>1 DEF PosOf
  <2> HIDE DEF P
  <2>3. \A j \in 1 .. m : qa[j] \in Nat /\ P[j] = qa[j] + 1
    BY <2>1, <2>2
  <2> QED BY <2>1, <2>2, <2>3
<1>2. PeaksOfRange(H, nb, Len(vb), qb, phb) /\ PosPeaks(Len(nb)) = PosOf(qb)
  BY PeaksOfRangeAre
<1>3. ASSUME NEW j \in 1 .. m
      PROVE  \E h, k \in Nat : /\ P[j] - 1 = NodePos(h, k) - 1 /\ pha[j] = nb[NodePos(h, k)]
                               /\ BaggedProofIs(Proof(j), H, nb, vb, qb, phb, B, h, k)
  <2>1. PICK h \in Nat, k \in Nat :
          /\ qa[j] = NodePos(h, k) - 1 /\ (k + 1) * 2^h <= Len(vb) /\ pha[j] = nb[NodePos(h, k)]
    BY DEF PeaksKnown
  <2>2. BaggedProofIs(InclusionProofBagged(Len(nb), StoreOf(nb), NodePos(h, k) - 1),
                      H, nb, vb, qb, phb, B, h, k)
    BY <2>1, BaggedProofOf
  <2>3. P[j] - 1 = NodePos(h, k) - 1
    BY <1>1, <2>1
  <2> HIDE DEF P, qb, phb
  <2> QED BY <2>1, <2>2, <2>3
<1>4. \A j \in 1 .. m : Proof(j) \in Seq(H) /\ Proof(j) # << >>
  <2> SUFFICES ASSUME NEW j \in 1 .. m PROVE Proof(j) \in Seq(H) /\ Proof(j) # << >>
    OBVIOUS
  <2>1. Proof(j) \in Seq(H)
    BY <1>3 DEF BaggedProofIs, BagBegins
  <2>2. InclusionProofBagged(Len(nb), StoreOf(nb), qa[j]) # << >>
    OBVIOUS
  <2> QED BY <1>1, <2>1, <2>2
<1> HIDE DEF P, qb, phb
<1>5. PICK c : /\ PathRun(c, H, Len(nb), st, P)
               /\ proof = [mmrSizeA |-> a, mmrSizeB |-> Len(nb), path |-> c[m]]
  <2>1. PosPeaks(a) \in Seq(Nat) /\ Len(PosPeaks(a)) = m
    BY <1>1 DEF P
  <2>2. \A j \in 1 .. Len(PosPeaks(a)) : InclusionProofBagged(Len(nb), st, PosPeaks(a)[j] - 1) \in Seq(H)
    BY <1>4, <2>1 DEF P
  <2>3. \E c : /\ PathRun(c, H, Len(nb), st, PosPeaks(a))
               /\ IndexConsistencyProofBagged(a, Len(nb), st)
                    = [mmrSizeA |-> a, mmrSizeB |-> Len(nb), path |-> c[Len(PosPeaks(a))]]
    <3> HIDE DEF st
    <3> QED BY <2>1, <2>2, BaggedPathRun
  <2> QED BY <1>1, <2>3 DEF P
<1> HIDE DEF proof
<1>6. proof.mmrSizeA = a /\ proof.mmrSizeB = Len(nb) /\ proof.path = c[m]
  BY <1>5
<1> DEFINE list == c[m]
           L == Len(list)
<1>7. list \in Seq(H) /\ L \in Nat /\ \A j \in 0 .. m : c[j] \in Seq(H) /\ Len(c[j]) \in Nat
  <2>1. c \in [0 .. m -> Seq(H)] /\ m \in 0 .. m
    BY <1>1, <1>5 DEF PathRun
  <2>2. \A j \in 0 .. m : c[j] \in Seq(H)
    BY <2>1
  <2> QED BY <2>1, <2>2
<1>8. ASSUME NEW j \in 0 .. m
      PROVE  Len(c[j]) <= L /\ \A x \in 1 .. Len(c[j]) : list[x] = c[j][x]
  <2>1. j \in 0 .. Len(P) /\ m = Len(P)
    BY <1>1
  <2>2. ProofsIn(H, Len(nb), st, P)
    BY <1>1, <1>4 DEF ProofsIn
  <2>4. PathRun(c, H, Len(nb), st, P) /\ P \in Seq(Nat)
    BY <1>1, <1>5
  <2> HIDE DEF st, m
  <2>3. Starts(c[j], c[Len(P)])
    <3>1. j \in 0 .. Len(P)
      BY <2>1
    <3> HIDE DEF P
    <3> QED BY <2>2, <2>4, <3>1, PathPrefix
  <2> QED BY <2>1, <2>3 DEF Starts
<1>9. PosPeaks(Len(nb)) \in Seq(Nat)
  <2>1. qb \in Seq(Nat)
    BY <1>2 DEF PeaksOfRange, Tiles
  <2>2. PosOf(qb) = [x \in 1 .. Len(qb) |-> qb[x] + 1] /\ Len(qb) \in Nat /\ \A x \in 1 .. Len(qb) : qb[x] + 1 \in Nat
    BY <2>1 DEF PosOf
  <2> QED BY <1>2, <2>2
<1>10. PICK r : UsesRun(r, H, pha, proof, root) /\ UsesEnds(r, pha, proof, root)
  <2>1. PosPeaks(proof.mmrSizeA) = PosOf(qa) /\ PosPeaks(proof.mmrSizeB) \in Seq(Nat)
    BY <1>6, <1>9
  <2> HIDE DEF root
  <2>2. \A at \in UsesScan(H), k \in 1 .. Len(pha) : UsesRound(at, k, pha, proof, root) \in UsesScan(H)
    BY <2>1, UsesRoundType
  <2>3. proof.path \in Seq(H)
    BY <1>6, <1>7
  <2> QED BY <1>1, <2>2, <2>3, UsesUpRun
<1> DEFINE Ok(j) == r[j] = [ok |-> TRUE, path |-> Rest(list, Len(c[j]))]
           S == {j \in Nat : Ok(j)}
<1>11. 0 \in S
  <2>1. r[0] = [ok |-> TRUE, path |-> list] /\ c[0] = << >>
    BY <1>5, <1>6, <1>10 DEF UsesRun, PathRun
  <2>2. Rest(list, 0) = list
    <3> HIDE DEF list
    <3>1. SubSeq(list, 1, Len(list)) = list
      BY <1>7
    <3> QED BY <3>1 DEF Rest
  <2>3. Len(c[0]) = 0
    BY <2>1
  <2> HIDE DEF list
  <2> QED BY <2>1, <2>2, <2>3
<1>12. ASSUME NEW j \in 1 .. m, j - 1 \in S PROVE j \in S
  <2> DEFINE s == Proof(j)
             d == Len(c[j - 1])
             rest == Rest(list, d)
  <2>1. j \in Nat /\ j - 1 \in 0 .. m /\ j \in 0 .. m /\ j \in 1 .. Len(pha) /\ j \in 1 .. Len(P)
    BY <1>1
  <2>2. c[j] = c[j - 1] \o s /\ c[j - 1] \in Seq(H) /\ s \in Seq(H) /\ s # << >>
    BY <1>4, <1>5, <1>7, <2>1 DEF PathRun
  <2>3. PICK h \in Nat, k \in Nat :
          /\ P[j] - 1 = NodePos(h, k) - 1 /\ pha[j] = nb[NodePos(h, k)]
          /\ BaggedProofIs(s, H, nb, vb, qb, phb, B, h, k)
    BY <1>3
  <2>4. r[j - 1] = [ok |-> TRUE, path |-> rest]
    BY <1>12
  <2>5. r[j] = UsesRound(r[j - 1], j, pha, proof, root)
    BY <1>10, <2>1 DEF UsesRun
  <2> HIDE DEF s
  <2>6. PICK p, K, y : /\ UnderPeak(H, nb, vb, qb, phb, B, p, K, h, k, y)
                       /\ BagBegins(s, H, nb, phb, B, p, y) /\ Len(s) = TrailLength(p, phb, y)
    BY <2>3 DEF BaggedProofIs
  <2>7. /\ Len(c[j]) = d + Len(s) /\ d \in Nat /\ Len(s) \in Nat /\ Len(s) # 0
        /\ \A x \in 1 .. Len(s) : d + x \in 1 .. Len(c[j]) /\ c[j][d + x] = s[x]
    <3> DEFINE u == c[j - 1]
    <3>1. u \in Seq(H) /\ c[j] = u \o s /\ s \in Seq(H) /\ s # << >>
      BY <2>2
    <3> HIDE DEF u
    <3>2. Len(u \o s) = Len(u) + Len(s) /\ Len(u) \in Nat /\ Len(s) \in Nat /\ Len(s) # 0
      BY <3>1
    <3>3. ASSUME NEW x \in 1 .. Len(s) PROVE Len(u) + x \in 1 .. Len(u \o s) /\ (u \o s)[Len(u) + x] = s[x]
      <4>1. Len(u) + x \in 1 .. Len(u) + Len(s) /\ ~ (Len(u) + x <= Len(u)) /\ Len(u) + x - Len(u) = x
        BY <3>2
      <4> QED BY <3>1, <3>2, <4>1
    <3> QED BY <3>1, <3>2, <3>3 DEF u
  <2>8. d <= L /\ Len(c[j]) <= L
    BY <1>8, <2>1
  <2> HIDE DEF d, L, list
  <2>9. /\ rest \in Seq(H) /\ Len(rest) = L - d
        /\ \A x \in 1 .. L - d : rest[x] = list[d + x]
    <3>1. d <= Len(list)
      BY <2>8 DEF L
    <3>2. /\ rest \in Seq(H) /\ Len(rest) = Len(list) - d
          /\ \A x \in 1 .. Len(list) - d : rest[x] = list[d + x]
      <4>1. list \in Seq(H) /\ d \in Nat
        BY <1>7, <2>7 DEF list
      <4>2. Rest(list, d) \in Seq(H) /\ Len(Rest(list, d)) = Len(list) - d
            /\ \A x \in 1 .. Len(list) - d : Rest(list, d)[x] = list[d + x]
        BY <3>1, <4>1, RestIs
      <4> QED BY <4>2
    <3> QED BY <3>2 DEF L
  <2> HIDE DEF rest
  <2>10. Len(s) <= Len(rest) /\ \A x \in 1 .. Len(s) : rest[x] = s[x]
    <3>1. Len(s) <= Len(rest)
      BY <1>7, <2>7, <2>8, <2>9
    <3>2. ASSUME NEW x \in 1 .. Len(s) PROVE rest[x] = s[x]
      <4>0. L \in Nat /\ d \in Nat /\ Len(s) \in Nat /\ Len(s) <= L - d
        BY <1>7, <2>7, <2>9, <3>1 DEF L
      <4>1. x \in 1 .. L - d /\ d + x \in 1 .. Len(c[j])
        <5>1. d + x \in 1 .. Len(c[j])
          BY <2>7
        <5>2. x \in 1 .. L - d
          BY <4>0
        <5> QED BY <5>1, <5>2
      <4>2. list[d + x] = c[j][d + x]
        BY <1>8, <2>1, <4>1
      <4> QED BY <2>7, <2>9, <4>1, <4>2
    <3> QED BY <3>1, <3>2
  <2>11. BagBegins(rest, H, nb, phb, B, p, y)
    <3>1. p \in Seq(Nat) /\ y \in 1 .. Len(phb) /\ Len(phb) \in Nat
      BY <2>6 DEF UnderPeak, ClimbsFrom, Climbing, PeaksOfRange, Tiles
    <3> QED BY <2>6, <2>9, <2>10, <3>1, BagBeginsLonger
  <2> DEFINE first == VerifyFirstInclusionPathBagged(Len(nb), pha[j], NodePos(h, k) - 1, rest, B[1])
  <2>12. BaggedFinds(first, phb, p, y, rest, pha[j] = nb[NodePos(h, k)])
    <3>1. pha[j] \in H
      BY <1>1, <2>1
    <3> QED BY <1>2, <2>6, <2>11, <3>1, BaggedFound
  <2> HIDE DEF first
  <2>13. first = <<TRUE, Len(s)>>
    BY <2>3, <2>6, <2>7, <2>12 DEF BaggedFinds
  <2>14. first[1] /\ first[2] = Len(s)
    <3>1. <<TRUE, Len(s)>>[1] = TRUE /\ <<TRUE, Len(s)>>[2] = Len(s)
      OBVIOUS
    <3> QED BY <2>13, <3>1
  <2>15. first = VerifyFirstInclusionPathBagged(proof.mmrSizeB, pha[j], PosPeaks(proof.mmrSizeA)[j] - 1,
                                                r[j - 1].path, root)
    <3>1. r[j - 1].path = rest
      BY <2>4
    <3> QED BY <1>6, <2>3, <3>1 DEF first, P
  <2>16. r[j] = [ok |-> TRUE, path |-> SubSeq(rest, Len(s) + 1, Len(rest))]
    <3>1. r[j - 1].ok /\ r[j - 1].path = rest
      BY <2>4
    <3>2. UsesRound(r[j - 1], j, pha, proof, root)
            = [ok |-> TRUE, path |-> SubSeq(r[j - 1].path, first[2] + 1, Len(r[j - 1].path))]
      <4> HIDE DEF root
      <4> QED BY <2>14, <2>15, <3>1 DEF UsesRound
    <3> QED BY <2>5, <2>14, <3>1, <3>2
  <2>17. SubSeq(rest, Len(s) + 1, Len(rest)) = Rest(list, Len(c[j]))
    <3>1. d + Len(s) <= Len(list)
      BY <2>7, <2>8 DEF L
    <3>2. Rest(Rest(list, d), Len(s)) = Rest(list, d + Len(s))
      BY <1>7, <2>7, <3>1, RestOfRest
    <3>3. SubSeq(rest, Len(s) + 1, Len(rest)) = Rest(rest, Len(s))
      BY DEF Rest
    <3> QED BY <2>7, <3>2, <3>3 DEF rest
  <2> QED BY <2>1, <2>16, <2>17
<1> HIDE DEF S
<1>13. \A j \in 0 .. m : j \in S
  BY <1>1, <1>11, <1>12, UpTo
<1>14. r[m] = [ok |-> TRUE, path |-> Rest(list, L)]
  <2>1. m \in 0 .. m
    BY <1>1
  <2> QED BY <1>13, <2>1 DEF S
<1>15. Rest(list, L) = << >>
  <2> HIDE DEF list
  <2>1. Rest(list, Len(list)) \in Seq(H) /\ Len(Rest(list, Len(list))) = Len(list) - Len(list)
    <3>1. Len(list) <= Len(list)
      BY <1>7
    <3> QED BY <1>7, <3>1, RestIs
  <2>2. Len(list) - Len(list) = 0
    BY <1>7
  <2> QED BY <2>1, <2>2
<1> HIDE DEF list, L
<1>16. r[m].ok /\ r[m].path = << >>
  BY <1>14, <1>15
<1>17. UsesUpPath(pha, proof, root)
  BY <1>1, <1>10, <1>16 DEF UsesEnds
<1> QED BY <1>17 DEF proof, root

(* The proof of a node is empty only if there is nothing to its right or   *)
(* left: a range with that node that the range extends is the range.       *)
LEMMA EmptyProofEnds ==
  ASSUME NEW LeafValues, NEW H, PairsOf(H) \subseteq H,
         NEW na, NEW va, TreeOf(LeafValues, H, na, va), Len(va) # 0,
         NEW nb, NEW vb, TreeOf(LeafValues, H, nb, vb), IsPrefix(va, vb),
         NEW j \in 1 .. Len(Peaks(Len(na) - 1)),
         InclusionProofBagged(Len(nb), StoreOf(nb), Peaks(Len(na) - 1)[j]) = << >>
  PROVE  na = nb /\ Len(Peaks(Len(na) - 1)) = 1
<1> DEFINE qb == Peaks(Len(nb) - 1)
           phb == PeakHashes(StoreOf(nb), Len(nb) - 1)
           n == Len(vb)
<1>1. /\ va \in Seq(LeafValues) /\ vb \in Seq(LeafValues) /\ Len(va) \in Nat /\ n \in Nat /\ Len(va) <= n /\ n # 0
      /\ SubSeq(va, 1, Len(va)) = SubSeq(vb, 1, Len(va))
      /\ na \in Seq(H) /\ nb \in Seq(H) /\ Len(na) = MMRIndex(Len(va)) /\ Len(nb) = MMRIndex(n)
  <2>1. va \in Seq(LeafValues) /\ vb \in Seq(LeafValues) /\ Len(va) \in Nat /\ n \in Nat
    BY DEF TreeOf, RangeOver
  <2>2. Len(va) <= n /\ SubSeq(va, 1, Len(va)) = SubSeq(vb, 1, Len(va))
    BY DEF IsPrefix
  <2>3. na \in Seq(H) /\ nb \in Seq(H) /\ Len(na) = MMRIndex(Len(va)) /\ Len(nb) = MMRIndex(n)
    BY DEF TreeOf, RangeOver
  <2>4. n # 0
    <3> HIDE DEF n
    <3> QED BY <2>1, <2>2
  <2> QED BY <2>1, <2>2, <2>3, <2>4
<1>2. PICK h \in Nat, k \in Nat : Peaks(Len(na) - 1)[j] = NodePos(h, k) - 1 /\ (k + 1) * 2^h <= Len(va)
  BY PeakHashesOf DEF PeakList, IsPeak
<1>3. PeaksOfRange(H, nb, n, qb, phb)
  BY <1>1, PeaksOfRangeAre
<1>4. /\ qb \in Seq(Nat) /\ Len(qb) \in Nat /\ phb \in Seq(H) /\ phb # << >> /\ Len(phb) = Len(qb)
      /\ Tiles(qb, n)
  <2>1. qb # << >> /\ qb \in Seq(Nat) /\ phb \in Seq(H) /\ Len(phb) = Len(qb) /\ Tiles(qb, n)
    BY <1>3 DEF PeaksOfRange, Tiles
  <2> HIDE DEF qb, phb
  <2>2. Len(qb) # 0 /\ Len(qb) \in Nat
    BY <2>1
  <2>3. phb # << >>
    BY <2>1, <2>2
  <2> QED BY <2>1, <2>2, <2>3
<1> HIDE DEF phb
<1>5. PICK B \in [1 .. Len(phb) -> H] : Bags(phb, B)
  BY <1>4, BagIs
<1>6. BaggedProofIs(<< >>, H, nb, vb, qb, phb, B, h, k)
  <2>1. (k + 1) * 2^h <= Len(vb)
    <3>1. (k + 1) * 2^h \in Nat
      BY NodePosBounds
    <3> QED BY <1>1, <1>2, <3>1
  <2>2. BaggedProofIs(InclusionProofBagged(Len(nb), StoreOf(nb), NodePos(h, k) - 1),
                      H, nb, vb, qb, phb, B, h, k)
    BY <1>1, <1>5, <2>1, BaggedProofOf DEF phb
  <2> QED BY <1>2, <2>2
<1> HIDE DEF qb
<1>7. PICK p, K, y : UnderPeak(H, nb, vb, qb, phb, B, p, K, h, k, y) /\ Len(<< >>) = TrailLength(p, phb, y)
  BY <1>6 DEF BaggedProofIs
<1>8. Len(p) = 0 /\ y = 1 /\ Len(qb) = 1
  <2>1. p \in Seq(Nat) /\ y \in 1 .. Len(qb)
    BY <1>7 DEF UnderPeak, ClimbsFrom, Climbing
  <2>2. Len(p) + (IF y = Len(phb) THEN 0 ELSE 1) + (y - 1) = 0
    BY <1>7 DEF TrailLength
  <2>3. Len(p) \in Nat /\ y \in Nat /\ y >= 1
    BY <1>4, <2>1
  <2>4. CASE y = Len(phb)
    BY <1>4, <2>2, <2>3, <2>4
  <2>5. CASE y # Len(phb)
    BY <1>4, <2>2, <2>3, <2>5
  <2> QED BY <2>4, <2>5
<1>9. PeakAt(qb, n, 1, h, k)
  <2>1. PeakAt(qb, n, y, h + Len(p), K[Len(p)]) /\ K[0] = k
    BY <1>7 DEF UnderPeak, ClimbsFrom, Climbing
  <2>2. h + 0 = h
    OBVIOUS
  <2> QED BY <1>8, <2>1, <2>2
<1>10. n <= (k + 1) * 2^h
  <2>1. n - 1 \in Nat /\ n - 1 < n
    BY <1>1
  <2>2. PICK x \in 1 .. Len(qb) : \E g, l \in Nat : PeakAt(qb, n, x, g, l) /\ InRun(n - 1, g, l)
    <3> HIDE DEF n
    <3> QED BY <1>4, <2>1 DEF Tiles
  <2>3. PICK g \in Nat, l \in Nat : PeakAt(qb, n, x, g, l) /\ InRun(n - 1, g, l)
    BY <2>2
  <2>4. x = 1
    BY <1>8
  <2>5. NodePos(g, l) \in Nat /\ NodePos(h, k) \in Nat /\ NodePos(g, l) - 1 = NodePos(h, k) - 1
    BY <1>9, <2>3, <2>4, NodePosBounds DEF PeakAt
  <2>6. NodePos(g, l) = NodePos(h, k)
    BY <2>5
  <2>7. g = h /\ l = k
    BY <2>6, NodePosUnique
  <2>8. n - 1 < (k + 1) * 2^h
    BY <2>3, <2>7 DEF InRun
  <2>9. (k + 1) * 2^h \in Nat
    BY NodePosBounds
  <2> QED BY <1>1, <2>8, <2>9
<1>11. Len(va) = n
  <2>1. (k + 1) * 2^h \in Nat
    BY NodePosBounds
  <2> QED BY <1>1, <1>2, <1>10, <2>1
<1>12. Len(na) = Len(nb)
  BY <1>1, <1>11
<1>13. na = nb
  <2>1. \A i \in Nat : i < Len(na) => na[i + 1] = nb[i + 1]
    BY SameNodes
  <2>2. Len(na) \in Nat /\ Len(nb) \in Nat
    BY <1>1
  <2>3. ASSUME NEW x \in 1 .. Len(na) PROVE na[x] = nb[x]
    <3>1. x - 1 \in Nat /\ x - 1 < Len(na) /\ x - 1 + 1 = x
      BY <2>2
    <3> QED BY <2>1, <3>1
  <2>4. na = [x \in 1 .. Len(na) |-> na[x]] /\ nb = [x \in 1 .. Len(nb) |-> nb[x]]
    BY <1>1
  <2> QED BY <1>12, <2>3, <2>4
<1>14. Len(Peaks(Len(na) - 1)) = 1
  BY <1>8, <1>12 DEF qb
<1> QED BY <1>13, <1>14

(* If the list of proofs is empty, so is the first of them; and an empty   *)
(* one leaves the list with no proof but it.                               *)
LEMMA EmptyPath ==
  ASSUME NEW LeafValues, NEW H, PairsOf(H) \subseteq H,
         NEW na, NEW va, TreeOf(LeafValues, H, na, va), Len(va) # 0,
         NEW nb, NEW vb, TreeOf(LeafValues, H, nb, vb), IsPrefix(va, vb),
         \/ IndexConsistencyProofBagged(Len(na), Len(nb), StoreOf(nb)).path = << >>
         \/ \E j \in 1 .. Len(Peaks(Len(na) - 1)) :
              InclusionProofBagged(Len(nb), StoreOf(nb), Peaks(Len(na) - 1)[j]) = << >>
  PROVE  na = nb /\ IndexConsistencyProofBagged(Len(na), Len(nb), StoreOf(nb)).path = << >>
<1> DEFINE q == Peaks(Len(na) - 1)
           P == PosPeaks(Len(na))
           st == StoreOf(nb)
           size == Len(nb)
           m == Len(q)
           list == IndexConsistencyProofBagged(Len(na), Len(nb), StoreOf(nb)).path
<1>1. PosPeaks(Len(na)) = PosOf(q) /\ q \in Seq(Nat) /\ m \in Nat /\ m # 0
  <2>1. PosPeaks(Len(na)) = PosOf(q) /\ q \in Seq(Nat) /\ q # << >>
    BY PeaksOfRangeAre DEF PeaksOfRange, Tiles
  <2> HIDE DEF q
  <2> QED BY <2>1
<1>2. P \in Seq(Nat) /\ Len(P) = m /\ \A j \in 1 .. m : P[j] - 1 = q[j]
  <2> HIDE DEF q, P
  <2>1. P = [j \in 1 .. m |-> q[j] + 1]
    BY <1>1 DEF PosOf, P
  <2>2. \A j \in 1 .. m : q[j] \in Nat /\ P[j] = q[j] + 1
    BY <1>1, <2>1
  <2> HIDE DEF m
  <2> QED BY <1>1, <2>1, <2>2
<1>3. \A j \in 1 .. m : InclusionProofBagged(size, st, q[j]) \in Seq(H)
  <2> SUFFICES ASSUME NEW j \in 1 .. m PROVE InclusionProofBagged(size, st, q[j]) \in Seq(H)
    OBVIOUS
  <2>1. PICK h \in Nat, k \in Nat : q[j] = NodePos(h, k) - 1 /\ (k + 1) * 2^h <= Len(va)
    BY PeakHashesOf DEF PeakList, IsPeak
  <2>2. (k + 1) * 2^h <= Len(vb) /\ Len(vb) # 0
    <3>1. Len(va) \in Nat /\ Len(vb) \in Nat /\ Len(va) <= Len(vb)
      BY DEF TreeOf, RangeOver, IsPrefix
    <3>2. (k + 1) * 2^h \in Nat
      BY NodePosBounds
    <3> QED BY <2>1, <3>1, <3>2
  <2> DEFINE qb == Peaks(Len(nb) - 1)
             phb == PeakHashes(StoreOf(nb), Len(nb) - 1)
  <2>3. qb \in Seq(Nat) /\ qb # << >> /\ phb \in Seq(H) /\ Len(phb) = Len(qb)
    BY <2>2, PeaksOfRangeAre DEF PeaksOfRange, Tiles
  <2>4. phb # << >>
    <3> HIDE DEF qb, phb
    <3>1. Len(qb) # 0
      BY <2>3
    <3> QED BY <2>3, <3>1
  <2> HIDE DEF phb
  <2>5. PICK B \in [1 .. Len(phb) -> H] : Bags(phb, B)
    BY <2>3, <2>4, BagIs
  <2>6. BaggedProofIs(InclusionProofBagged(Len(nb), StoreOf(nb), NodePos(h, k) - 1),
                      H, nb, vb, qb, phb, B, h, k)
    BY <2>2, <2>5, BaggedProofOf DEF phb
  <2>7. InclusionProofBagged(Len(nb), StoreOf(nb), NodePos(h, k) - 1) \in Seq(H)
    BY <2>6 DEF BaggedProofIs, BagBegins
  <2> QED BY <2>1, <2>7
<1> HIDE DEF q, P, list
<1>4. PICK c : PathRun(c, H, size, st, P) /\ list = c[m]
  <2>1. P \in Seq(Nat) /\ \A j \in 1 .. Len(P) : InclusionProofBagged(size, st, P[j] - 1) \in Seq(H)
    BY <1>2, <1>3
  <2>2. PosPeaks(Len(na)) \in Seq(Nat)
       /\ \A j \in 1 .. Len(PosPeaks(Len(na))) :
            InclusionProofBagged(size, st, PosPeaks(Len(na))[j] - 1) \in Seq(H)
    BY <2>1 DEF P
  <2>3. \E c : /\ PathRun(c, H, size, st, PosPeaks(Len(na)))
               /\ IndexConsistencyProofBagged(Len(na), size, st)
                    = [mmrSizeA |-> Len(na), mmrSizeB |-> size, path |-> c[Len(PosPeaks(Len(na)))]]
    <3> HIDE DEF st, size
    <3> QED BY <2>2, BaggedPathRun
  <2>4. PICK c : /\ PathRun(c, H, size, st, P)
                 /\ IndexConsistencyProofBagged(Len(na), size, st)
                      = [mmrSizeA |-> Len(na), mmrSizeB |-> size, path |-> c[Len(P)]]
    BY <2>3 DEF P
  <2>5. list = c[m]
    BY <1>2, <2>4 DEF list
  <2> QED BY <2>4, <2>5
<1>5. c[0] = << >> /\ 1 \in 1 .. m /\ 1 \in 0 .. m /\ m \in 0 .. m /\ c[m] \in Seq(H) /\ c[1] \in Seq(H)
  <2>1. c \in [0 .. m -> Seq(H)] /\ c[0] = << >>
    BY <1>2, <1>4 DEF PathRun
  <2>2. 1 \in 1 .. m /\ 1 \in 0 .. m /\ m \in 0 .. m
    BY <1>1
  <2> QED BY <2>1, <2>2
<1>6. c[1] = InclusionProofBagged(size, st, q[1])
  <2> DEFINE e == InclusionProofBagged(size, st, q[1])
  <2>1. c[1] = c[1 - 1] \o InclusionProofBagged(size, st, P[1] - 1)
    BY <1>2, <1>4, <1>5 DEF PathRun
  <2>2. 1 - 1 = 0 /\ P[1] - 1 = q[1] /\ e \in Seq(H)
    BY <1>2, <1>3, <1>5
  <2>3. c[1] = << >> \o e
    BY <1>5, <2>1, <2>2
  <2> HIDE DEF e
  <2>4. << >> \o e = e
    BY <2>2
  <2> QED BY <2>3, <2>4 DEF e
<1>7. list = << >> => InclusionProofBagged(size, st, q[1]) = << >>
  <2> SUFFICES ASSUME list = << >> PROVE c[1] = << >>
    BY <1>6
  <2>1. ProofsIn(H, size, st, P)
    BY <1>2, <1>3 DEF ProofsIn
  <2>2. 1 \in 0 .. Len(P)
    BY <1>2, <1>5
  <2>3. Starts(c[1], c[Len(P)])
    <3> HIDE DEF st, size
    <3> QED BY <1>2, <1>4, <2>1, <2>2, PathPrefix
  <2>4. Len(c[1]) <= Len(c[m])
    BY <1>2, <2>3 DEF Starts
  <2>5. c[m] = << >>
    BY <1>4
  <2> QED BY <1>5, <2>4, <2>5
<1>8. PICK j \in 1 .. m : InclusionProofBagged(size, st, q[j]) = << >>
  <2>1. \/ list = << >>
        \/ \E j \in 1 .. m : InclusionProofBagged(size, st, q[j]) = << >>
    BY DEF list, q
  <2> QED BY <1>5, <1>7, <2>1
<1>9. na = nb /\ m = 1
  BY <1>8, EmptyProofEnds DEF q
<1>10. list = << >>
  <2>1. j = 1
    BY <1>9
  <2> QED BY <1>4, <1>6, <1>8, <1>9, <2>1
<1> QED BY <1>9, <1>10 DEF list

(* verifyconsistencybagged.go: the proof that is made from the ranges      *)
(* convinces, exactly if the one extends the other.                        *)
LEMMA BaggedConsistent ==
  ASSUME NEW LeafValues, NEW H, PairsOf(H) \subseteq H,
         NEW na, NEW va, TreeOf(LeafValues, H, na, va), Len(va) # 0,
         NEW nb, NEW vb, TreeOf(LeafValues, H, nb, vb)
  PROVE  CheckConsistencyBagged(StoreOf(nb),
           IndexConsistencyProofBagged(Len(na), Len(nb), StoreOf(nb)),
           HashPeaksRHS(PeakHashes(StoreOf(na), Len(na) - 1)))
         <=> IsPrefix(va, vb)
<1> DEFINE q == Peaks(Len(na) - 1)
           pha == PeakHashes(StoreOf(na), Len(na) - 1)
           st == StoreOf(nb)
           now == ReadAt(StoreOf(nb), Peaks(Len(na) - 1))
           rootA == HashPeaksRHS(PeakHashes(StoreOf(na), Len(na) - 1))
           rootB == GetRoot(Len(nb), StoreOf(nb))
           proof == IndexConsistencyProofBagged(Len(na), Len(nb), StoreOf(nb))
           check == CheckConsistencyBagged(st, proof, rootA)
<1>1. /\ PosPeaks(Len(na)) = PosOf(q) /\ q \in Seq(Nat) /\ Ascends(q) /\ 1 \in 1 .. Len(q)
      /\ pha \in Seq(H) /\ pha # << >> /\ Len(pha) = Len(q)
  <2>1. /\ PosPeaks(Len(na)) = PosOf(q) /\ q \in Seq(Nat) /\ q # << >> /\ Ascends(q)
        /\ pha \in Seq(H) /\ Len(pha) = Len(q)
    BY PeaksOfRangeAre DEF PeaksOfRange, Tiles
  <2> HIDE DEF q, pha
  <2>2. 1 \in 1 .. Len(q) /\ Len(q) # 0
    BY <2>1
  <2>3. pha # << >>
    BY <2>1, <2>2
  <2> QED BY <2>1, <2>2, <2>3
<1>2. PeakBagRHS(st, 0, PosOf(q)) = now
  <2>1. PeakBagRHS(st, 0, PosOf(q)) = ReadAt(st, q)
    <3> HIDE DEF q, st
    <3> QED BY <1>1, PeaksAside
  <2> QED BY <2>1
<1>3. (\A k \in DOMAIN PosOf(q) : PosOf(q)[k] - 1 \in DOMAIN st) <=> PeaksHeld(na, nb)
  <2>1. nb \in Seq(H) /\ Len(nb) \in Nat
    BY DEF TreeOf, RangeOver
  <2>2. DOMAIN st = 0 .. Len(nb) - 1
    BY DEF StoreOf
  <2>3. PeaksHeld(na, nb) <=> \A k \in 1 .. Len(q) : q[k] < Len(nb)
    BY DEF PeaksHeld
  <2> HIDE DEF st, q
  <2>4. DOMAIN PosOf(q) = 1 .. Len(q) /\ \A k \in 1 .. Len(q) : PosOf(q)[k] = q[k] + 1 /\ q[k] \in Nat
    BY <1>1 DEF PosOf
  <2>5. \A k \in 1 .. Len(q) : PosOf(q)[k] - 1 \in DOMAIN st <=> q[k] < Len(nb)
    BY <2>1, <2>2, <2>4
  <2> QED BY <2>3, <2>4, <2>5
<1>4. proof.mmrSizeA = Len(na) /\ proof.mmrSizeB = Len(nb)
  BY DEF IndexConsistencyProofBagged
<1> HIDE DEF proof, q, st, rootA, rootB, pha, now
<1>5. check <=> PeaksHeld(na, nb) /\ VerifyConsistencyBagged(now, proof, rootA, rootB)
  BY <1>1, <1>2, <1>3, <1>4 DEF CheckConsistencyBagged, rootB, st
<1>6. ASSUME check PROVE IsPrefix(va, vb)
  <2>1. PeaksHeld(na, nb) /\ HashPeaksRHS(now) = rootA
    BY <1>5, <1>6 DEF VerifyConsistencyBagged
  <2> QED BY <2>1, SameBagExtends DEF now, rootA
<1>7. ASSUME IsPrefix(va, vb) PROVE check
  <2>1. PeaksHeld(na, nb) /\ now = pha
    BY <1>7, ExtensionHasPeaks DEF now, pha
  <2>2. HashPeaksRHS(pha) = rootA
    BY DEF pha, rootA
  <2>3. Len(vb) # 0 /\ Len(va) \in Nat /\ Len(vb) \in Nat /\ Len(va) <= Len(vb)
    <3>1. Len(va) \in Nat /\ Len(vb) \in Nat /\ Len(va) <= Len(vb)
      BY <1>7 DEF TreeOf, RangeOver, IsPrefix
    <3> QED BY <3>1
  <2>4. CASE proof.path = << >>
    <3>1. na = nb
      BY <1>7, <2>4, EmptyPath DEF proof
    <3>2. rootB = HashPeaksRHS(PeakHashes(StoreOf(nb), Len(nb) - 1))
      BY <2>3, RootIsBag DEF rootB
    <3>3. rootA = rootB
      BY <3>1, <3>2 DEF rootA
    <3> QED BY <1>1, <1>5, <2>1, <2>2, <2>4, <3>3 DEF VerifyConsistencyBagged
  <2>5. CASE proof.path # << >>
    <3> DEFINE phb == PeakHashes(StoreOf(nb), Len(nb) - 1)
    <3>1. \A j \in 1 .. Len(q) : InclusionProofBagged(Len(nb), StoreOf(nb), q[j]) # << >>
      BY <1>7, <2>5, EmptyPath DEF proof, q
    <3>2. phb \in Seq(H) /\ phb # << >>
      <4> DEFINE qb == Peaks(Len(nb) - 1)
      <4>1. qb \in Seq(Nat) /\ qb # << >> /\ phb \in Seq(H) /\ Len(phb) = Len(qb)
        BY <2>3, PeaksOfRangeAre DEF PeaksOfRange, Tiles
      <4> HIDE DEF qb, phb
      <4>2. Len(qb) # 0
        BY <4>1
      <4> QED BY <4>1, <4>2
    <3> HIDE DEF phb
    <3>3. PICK B \in [1 .. Len(phb) -> H] : Bags(phb, B) /\ HashPeaksRHS(phb) = B[1]
      BY <3>2, BagIs
    <3>4. rootB = B[1]
      <4>1. rootB = HashPeaksRHS(phb)
        BY <2>3, RootIsBag DEF rootB, phb
      <4> QED BY <3>3, <4>1
    <3>5. PeaksKnown(H, q, pha, nb, vb)
      <4>1. ASSUME NEW j \in 1 .. Len(q)
            PROVE  \E h, k \in Nat :
                     /\ q[j] = NodePos(h, k) - 1 /\ (k + 1) * 2^h <= Len(vb)
                     /\ pha[j] = nb[NodePos(h, k)]
        <5>1. PICK h \in Nat, k \in Nat :
                q[j] = NodePos(h, k) - 1 /\ (k + 1) * 2^h <= Len(va) /\ pha[j] = na[NodePos(h, k)]
          <6> HIDE DEF q, pha
          <6>1. PeakList(LeafValues, H, na, va, q, pha)
            BY PeakHashesOf DEF q, pha
          <6> QED BY <6>1 DEF PeakList, IsPeak
        <5>2. NodePos(h, k) \in 1 .. Len(na)
          BY <5>1, NodeStamped
        <5>3. na[NodePos(h, k)] = nb[NodePos(h, k)]
          <6> DEFINE pos == NodePos(h, k)
          <6>1. pos \in 1 .. Len(na) /\ Len(na) \in Nat
            BY <5>2 DEF TreeOf, RangeOver
          <6> HIDE DEF pos
          <6>2. pos - 1 \in Nat /\ pos - 1 < Len(na) /\ pos - 1 + 1 = pos
            BY <6>1
          <6>3. na[pos] = nb[pos]
            BY <1>7, <6>2, SameNodes
          <6> QED BY <6>3 DEF pos
        <5>4. (k + 1) * 2^h <= Len(vb)
          <6>1. (k + 1) * 2^h \in Nat
            BY NodePosBounds
          <6> QED BY <2>3, <5>1, <6>1
        <5> QED BY <5>1, <5>3, <5>4
      <4> QED BY <1>1, <4>1 DEF PeaksKnown
    <3>6. UsesUpPath(pha, IndexConsistencyProofBagged(Len(na), Len(nb), StoreOf(nb)), B[1])
      BY <1>1, <2>3, <3>1, <3>3, <3>5, PathIsUsed DEF phb
    <3>7. UsesUpPath(pha, proof, rootB)
      BY <3>4, <3>6 DEF proof
    <3> QED BY <1>1, <1>5, <2>1, <2>2, <2>5, <3>7 DEF VerifyConsistencyBagged
  <2> QED BY <2>4, <2>5
<1>8. check <=> IsPrefix(va, vb)
  BY <1>6, <1>7
<1> QED BY <1>8 DEF proof, rootA, st

-----------------------------------------------------------------------------
(* The verifier                                                            *)

(* Build makes the range over the values it is given. *)
LEMMA BuildTree ==
  ASSUME NEW H, PairsOf(H) \subseteq H, Values \subseteq H, NEW values \in Seq(Values)
  PROVE  TreeOf(Values, H, Build(values), values)
<1>1. values \in Seq(H)
  OBVIOUS
<1>2. RangeOver(H, FoldLeft(AddHashedLeaf, << >>, values), values)
  BY <1>1, BuildRange
<1> QED BY <1>2 DEF TreeOf, Build

(* What a verifier takes, given the state of a range *)
LEMMA ConsistentIs ==
  ASSUME NEW na, NEW nb
  PROVE  Consistent(State(na), nb) <=> Accepts(na, nb)
BY DEF Consistent, State, Accepts

(* A set of hashes *)
Hashes == CHOOSE H : Values \subseteq H /\ PairsOf(H) \subseteq H

(* They have the values and the pairs of their own.                        *)
LEMMA HashesAre ==
  Values \subseteq Hashes /\ PairsOf(Hashes) \subseteq Hashes
<1>1. \E H : Values \subseteq H /\ PairsOf(H) \subseteq H
  BY HashesExist
<1> QED BY <1>1 DEF Hashes

(* The store is the range over its leaves, and what is trusted is the      *)
(* state of some range over the leaves that were accepted.                 *)
VInv ==
  /\ TreeOf(Values, Hashes, nodes, logLeaves) /\ Len(logLeaves) # 0
  /\ Len(accepted) # 0
  /\ \E ns : TreeOf(Values, Hashes, ns, accepted) /\ trusted = State(ns)

(* A store of one leaf is the range over it, and it is trusted.            *)
LEMMA VInit == VerifyInit => VInv
<1> SUFFICES ASSUME VerifyInit PROVE VInv
  OBVIOUS
<1>1. PICK v \in Values : logLeaves = <<v>>
  BY DEF VerifyInit
<1>2. logLeaves \in Seq(Values) /\ Len(logLeaves) # 0
  BY <1>1
<1>3. TreeOf(Values, Hashes, nodes, logLeaves)
  BY <1>2, HashesAre, BuildTree DEF VerifyInit
<1> QED BY <1>2, <1>3 DEF VerifyInit, VInv

(* The log grows by a leaf, is put back, or is accepted as it is.          *)
LEMMA VStep == VInv /\ [VerifyNext]_verifyVars => VInv'
<1> SUFFICES ASSUME VInv, [VerifyNext]_verifyVars PROVE VInv'
  OBVIOUS
<1>1. logLeaves \in Seq(Values)
  BY DEF VInv, TreeOf
<1>2. PICK ns : TreeOf(Values, Hashes, ns, accepted) /\ trusted = State(ns)
  BY DEF VInv
<1>3. ASSUME NEW v \in Values, Add(v) PROVE VInv'
  <2>1. TreeOf(Values, Hashes, nodes', logLeaves')
    BY <1>3, HashesAre, AddHashedLeafTree DEF Add, VInv
  <2>2. Len(logLeaves') # 0
    BY <1>1, <1>3 DEF Add
  <2>3. accepted' = accepted /\ trusted' = trusted
    BY <1>3 DEF Add
  <2>4. TreeOf(Values, Hashes, ns, accepted') /\ trusted' = State(ns)
    BY <1>2, <2>3
  <2> QED BY <2>1, <2>2, <2>3, <2>4 DEF VInv
<1>4. ASSUME NEW n \in 1 .. MaxLogLeaves, PutBack(n) PROVE VInv'
  <2>1. logLeaves' \in Seq(Values) /\ Len(logLeaves') # 0
    <3>1. n \in Nat /\ n # 0 /\ n <= Len(logLeaves)
      BY <1>1, <1>4 DEF PutBack
    <3> QED BY <1>1, <1>4, <3>1 DEF PutBack
  <2>2. nodes' = Build(logLeaves')
    BY <1>4 DEF PutBack
  <2>3. TreeOf(Values, Hashes, nodes', logLeaves')
    BY <2>1, <2>2, HashesAre, BuildTree
  <2>4. accepted' = accepted /\ trusted' = trusted
    BY <1>4 DEF PutBack
  <2>5. TreeOf(Values, Hashes, ns, accepted') /\ trusted' = State(ns)
    BY <1>2, <2>4
  <2> QED BY <2>1, <2>3, <2>4, <2>5 DEF VInv
<1>5. CASE Accept
  <2>1. nodes' = nodes /\ logLeaves' = logLeaves /\ accepted' = logLeaves /\ trusted' = State(nodes)
    BY <1>5 DEF Accept
  <2>2. TreeOf(Values, Hashes, nodes, logLeaves) /\ Len(logLeaves) # 0
    BY DEF VInv
  <2>3. TreeOf(Values, Hashes, nodes, accepted') /\ trusted' = State(nodes)
    BY <2>1, <2>2
  <2>4. TreeOf(Values, Hashes, nodes', logLeaves') /\ Len(logLeaves') # 0 /\ Len(accepted') # 0
    BY <2>1, <2>2
  <2> QED BY <2>3, <2>4 DEF VInv
<1>6. CASE UNCHANGED verifyVars
  BY <1>2, <1>6 DEF VInv, verifyVars
<1> QED BY <1>3, <1>4, <1>5, <1>6 DEF VerifyNext

(* The store is always the range over the leaves that were added to it and *)
(* never taken back, and the peaks that are trusted are those of the range *)
(* over the leaves that were accepted: AddHashedLeaf and PutBack keep it.  *)
THEOREM TrustedIsAccepted == VerifySpec => []VInv
<1>1. VerifyInit => VInv
  BY VInit
<1>2. VInv /\ [VerifyNext]_verifyVars => VInv'
  BY VStep
<1> QED BY <1>1, <1>2, PTL DEF VerifySpec

(* mmr.CheckConsistency of the peaks that are trusted, which verifyContext *)
(* does whatever the sizes, is enough: for all leaf values and any number  *)
(* of leaves, with the store put back to an earlier state and grown again  *)
(* at any time, what is accepted extends what was accepted before.  It is  *)
(* not said of MassifContext.CheckConsistency, which does not check a      *)
(* range of the size that is trusted.  The hypothesis tells leaves from nodes, as the leaf   *)
(* values that TLC is given do; that two different pairs never have the    *)
(* same hash is in the way hashes are modelled.                            *)
THEOREM AcceptsNoFork ==
  ASSUME NoLeafIsNode(Values)
  PROVE  VerifySpec => NeverAcceptsAFork
<1>1. VInv /\ [VerifyNext]_verifyVars => [IsPrefix(accepted, accepted')]_accepted
  <2> SUFFICES ASSUME VInv, [VerifyNext]_verifyVars, accepted' # accepted
               PROVE  IsPrefix(accepted, accepted')
    OBVIOUS
  <2>1. Accept
    BY DEF VerifyNext, Add, PutBack, verifyVars
  <2>2. accepted' = logLeaves /\ Consistent(trusted, nodes)
    BY <2>1 DEF Accept
  <2>3. PICK ns : TreeOf(Values, Hashes, ns, accepted) /\ trusted = State(ns)
    BY DEF VInv
  <2>4. Consistent(State(ns), nodes)
    BY <2>2, <2>3
  <2>5. IsPrefix(accepted, logLeaves)
    <3>1. Accepts(ns, nodes)
      BY <2>4, ConsistentIs
    <3> QED BY <2>3, <3>1, HashesAre, AcceptedExtends DEF VInv
  <2> QED BY <2>2, <2>5
<1> QED BY <1>1, TrustedIsAccepted, PTL DEF VerifySpec, NeverAcceptsAFork

(* Nor is a log turned down that does extend the one that is known: there  *)
(* is a proof for each of its peaks, the proofs lead to peaks of the log   *)
(* and the scan of the two lists comes to each.  Here any leaf values will *)
(* do, those that look like nodes too.                                     *)
THEOREM AcceptsExtensions == VerifySpec => []AcceptsEveryExtension
<1>1. VInv => AcceptsEveryExtension
  <2> SUFFICES ASSUME VInv, IsPrefix(accepted, logLeaves) PROVE Consistent(trusted, nodes)
    BY DEF AcceptsEveryExtension
  <2>1. PICK ns : TreeOf(Values, Hashes, ns, accepted) /\ trusted = State(ns)
    BY DEF VInv
  <2>2. Consistent(State(ns), nodes)
    <3>1. Accepts(ns, nodes)
      BY <2>1, HashesAre, ExtendsAccepted DEF VInv
    <3> QED BY <3>1, ConsistentIs
  <2> QED BY <2>1, <2>2
<1> QED BY <1>1, TrustedIsAccepted, PTL

(* VerifyInclusionPath and VerifyInclusion, given the proof the store has  *)
(* for a node and the peak at the place PeakIndex says, find the value of  *)
(* the node included and no value that another node of the store has.      *)
THEOREM InclusionIsShown == VerifySpec => []InclusionProofsVerify
<1>1. VInv => InclusionProofsVerify
  <2> SUFFICES ASSUME VInv PROVE InclusionProofsVerify
    OBVIOUS
  <2>1. TreeOf(Values, Hashes, nodes, logLeaves) /\ Len(logLeaves) # 0 /\ PairsOf(Hashes) \subseteq Hashes
    BY HashesAre DEF VInv
  <2>2. ASSUME NEW i \in 0 .. Size - 1, NEW j \in 0 .. Size - 1
        PROVE  Included(nodes, i, Store[j])
    <3>1. nodes \in Seq(Hashes) /\ Size = Len(nodes)
      BY <2>1 DEF TreeOf, RangeOver, Size
    <3>2. Store[j] \in Hashes
      <4>1. Store[j] = nodes[j + 1] /\ j + 1 \in 1 .. Len(nodes)
        BY <3>1 DEF Store, StoreOf
      <4> QED BY <3>1, <4>1
    <3> QED BY <2>1, <3>1, <3>2, InclusionShown
  <2> QED BY <2>2 DEF InclusionProofsVerify, Included, Size, Store
<1> QED BY <1>1, TrustedIsAccepted, PTL

(* InclusionProofLocalExtend gives, for every leaf of the log that was     *)
(* accepted, a proof in the log as it is now: its first heightA hashes are *)
(* the proof in the accepted log and VerifyInclusion takes them, and both  *)
(* proofs lead to the peaks it says, which are peaks of the two logs.      *)
THEOREM ProofsExtend == VerifySpec => []ProofsAreExtended
<1>1. VInv => ProofsAreExtended
  <2> SUFFICES ASSUME VInv, IsPrefix(accepted, logLeaves), accepted # logLeaves,
                      NEW k \in DOMAIN accepted
               PROVE  LET i == MMRIndex(k - 1)
                          sizeA == trusted.mmrSize
                          ext == InclusionProofLocalExtend(sizeA, Size, Store, i)
                          proofA == SubSeq(ext.path, 1, ext.heightA)
                      IN /\ VerifyInclusion(Store, sizeA, accepted[k], i, proofA)
                         /\ IncludedRoot(i, accepted[k], proofA) = Store[ext.peakIndexA]
                         /\ IncludedRoot(i, accepted[k], ext.path) = Store[ext.peakIndexB]
                         /\ ext.peakIndexA \in Range(Peaks(sizeA - 1))
                         /\ ext.peakIndexB \in Range(Peaks(Size - 1))
    BY DEF ProofsAreExtended
  <2>1. PICK ns : TreeOf(Values, Hashes, ns, accepted) /\ trusted = State(ns)
    BY DEF VInv
  <2>2. trusted.mmrSize = Len(ns)
    BY <2>1 DEF State
  <2>3. k - 1 \in Nat /\ k - 1 < Len(accepted) /\ k - 1 + 1 = k
    <3>1. accepted \in Seq(Values)
      BY <2>1 DEF TreeOf, RangeOver
    <3> QED BY <3>1
  <2>4. /\ TreeOf(Values, Hashes, nodes, logLeaves) /\ Len(logLeaves) # 0 /\ Len(accepted) # 0
        /\ PairsOf(Hashes) \subseteq Hashes
    BY HashesAre DEF VInv
  <2>5. Len(accepted) < Len(logLeaves)
    <3>1. accepted \in Seq(Values) /\ logLeaves \in Seq(Values)
      BY <2>1, <2>4 DEF TreeOf, RangeOver
    <3>2. /\ Len(accepted) <= Len(logLeaves)
          /\ \A x \in 1 .. Len(accepted) : accepted[x] = logLeaves[x]
      BY <3>1 DEF IsPrefix
    <3>3. CASE Len(accepted) = Len(logLeaves)
      BY <3>1, <3>2, <3>3
    <3> QED BY <3>1, <3>2, <3>3
  <2>6. Extended(ns, nodes, MMRIndex(k - 1), accepted[k - 1 + 1])
    BY <2>1, <2>3, <2>4, <2>5, LeafExtended
  <2>7. Extended(ns, nodes, MMRIndex(k - 1), accepted[k])
    BY <2>3, <2>6
  <2> QED BY <2>2, <2>7 DEF Extended, Size, Store
<1> QED BY <1>1, TrustedIsAccepted, PTL

(* The proof of version 0, which goes on from the peak through the bag of  *)
(* all peaks, shows the value of its node and no value that another node   *)
(* of the store has: VerifyInclusionBagged reaches the root after the last *)
(* hash of the proof, and not before.                                      *)
THEOREM BaggedIsShown == VerifySpec => []BaggedProofsVerify
<1>1. VInv => BaggedProofsVerify
  <2> SUFFICES ASSUME VInv PROVE BaggedProofsVerify
    OBVIOUS
  <2>1. TreeOf(Values, Hashes, nodes, logLeaves) /\ Len(logLeaves) # 0 /\ PairsOf(Hashes) \subseteq Hashes
    BY HashesAre DEF VInv
  <2>2. ASSUME NEW i \in 0 .. Size - 1, NEW j \in 0 .. Size - 1
        PROVE  VerifyInclusionBagged(Size, Store[j], i, InclusionProofBagged(Size, Store, i),
                                     GetRoot(Size, Store))
                 <=> Store[j] = Store[i]
    <3>1. nodes \in Seq(Hashes) /\ Size = Len(nodes)
      BY <2>1 DEF TreeOf, RangeOver, Size
    <3>2. Store[j] \in Hashes
      <4>1. Store[j] = nodes[j + 1] /\ j + 1 \in 1 .. Len(nodes)
        BY <3>1 DEF Store, StoreOf
      <4> QED BY <3>1, <4>1
    <3>3. VerifyInclusionBagged(Len(nodes), Store[j], i, InclusionProofBagged(Len(nodes), StoreOf(nodes), i),
                                GetRoot(Len(nodes), StoreOf(nodes)))
            <=> Store[j] = StoreOf(nodes)[i]
      BY <2>1, <3>1, <3>2, BaggedShown
    <3> QED BY <3>1, <3>3 DEF Store
  <2> QED BY <2>2 DEF BaggedProofsVerify
<1> QED BY <1>1, TrustedIsAccepted, PTL

(* A verifier that keeps the root of the range it knows and no more reads  *)
(* the peaks in a store that may have forked, and is right all the same:   *)
(* CheckConsistencyBagged accepts the store if and only if it extends the  *)
(* range that is known.  The peaks it reads must have the bag it knows,    *)
(* and the proofs of the peaks, one after the other, are then used up.     *)
THEOREM BaggedIsConsistent == VerifySpec => []BaggedConsistency
<1>1. VInv => BaggedConsistency
  <2> SUFFICES ASSUME VInv PROVE BaggedConsistency
    OBVIOUS
  <2>1. PICK ns : TreeOf(Values, Hashes, ns, accepted) /\ trusted = State(ns)
    BY DEF VInv
  <2>2. /\ TreeOf(Values, Hashes, nodes, logLeaves) /\ Len(accepted) # 0
        /\ PairsOf(Hashes) \subseteq Hashes
    BY HashesAre DEF VInv
  <2>3. CheckConsistencyBagged(StoreOf(nodes),
          IndexConsistencyProofBagged(Len(ns), Len(nodes), StoreOf(nodes)),
          HashPeaksRHS(PeakHashes(StoreOf(ns), Len(ns) - 1)))
        <=> IsPrefix(accepted, logLeaves)
    BY <2>1, <2>2, BaggedConsistent
  <2>4. trusted.mmrSize = Len(ns) /\ trusted.peaks = PeakHashes(StoreOf(ns), Len(ns) - 1)
    BY <2>1 DEF State
  <2> QED BY <2>3, <2>4 DEF BaggedConsistency, Size, Store
<1> QED BY <1>1, TrustedIsAccepted, PTL

=============================================================================
