-------------------------------- MODULE MMR --------------------------------
(***************************************************************************)
(* Package mmr: the arithmetic of Merkle mountain ranges.  A range is a    *)
(* flat sequence of nodes in post order, numbered from 0 by an mmr index,  *)
(* or from 1 by a position.  Where a node is, what its height is and what  *)
(* the peaks are follows from the binary form of its number.               *)
(*                                                                         *)
(* The loops of the code are recursive functions here, of the tuple of     *)
(* their variables where they have several.  A store is a function from    *)
(* the indices that can be read to values, and a hash is the tuple of what *)
(* was hashed: two hashes are equal if what they commit to is.  Numbers    *)
(* are unbounded, the code's have 64 bits.                                 *)
(***************************************************************************)
EXTENDS Integers, Sequences, FiniteSets

(* bits.go *)

BitLength(n) == IF n = 0 THEN 0
                ELSE CHOOSE k \in 1 .. n : 2^(k - 1) <= n /\ n < 2^k

OnesCount(n) == Cardinality({k \in 0 .. BitLength(n) : (n \div 2^k) % 2 = 1})

TrailingZeros(n) == CHOOSE k \in 0 .. n : n % 2^k = 0 /\ n % 2^(k + 1) # 0

AllOnes(n) == 2^OnesCount(n) - 1 = n

IsPow2(n) == n # 0 /\ n = 2^TrailingZeros(n)

(* size.go *)

HeightIndexSize(g) == 2 * 2^g - 1
HeightMaxIndex(g) == 2 * 2^g - 2
HeightSize(h) == 2^h - 1

-----------------------------------------------------------------------------
(* indexheight.go *)

JumpLeftPerfect(pos) == pos - (2^(BitLength(pos) - 1) - 1)

posHeight[pos \in Nat] ==
  IF AllOnes(pos) THEN BitLength(pos) - 1 ELSE posHeight[JumpLeftPerfect(pos)]
PosHeight(pos) == posHeight[pos]

IndexHeight(i) == PosHeight(i + 1)

MaxPeakHeight(i) ==
  IF AllOnes(i + 1) THEN BitLength(i + 1) - 1 ELSE BitLength(i + 1) - 2

HeightIndexLeafCount(g) == (HeightIndexSize(g) + 1) \div 2

JumpRightSibling(pos) == pos + 2^(PosHeight(pos) + 1) - 1

(* 0 for "no child" *)
LeftChild(pos) == IF PosHeight(pos) = 0 THEN 0 ELSE pos - 2^PosHeight(pos)

SiblingOffset(g) == 2 * 2^g - 1
ParentOffset(g) == 2 * 2^g

(* The height as the remainder when perfect trees of k levels are taken off *)
remainder[at \in Nat \X Nat] ==
  LET i == at[1]
      k == at[2]
  IN IF k = 0 THEN i
     ELSE remainder[<<IF i >= HeightSize(k) THEN i - HeightSize(k) ELSE i, k - 1>>]
IndexHeight2(i) == remainder[<<i, BitLength(i)>>]

-----------------------------------------------------------------------------
(* spurs.go, mmrindex.go, leafcount.go, firstmmrsize.go, ancestors.go *)

spurs[at \in Nat \X Nat] ==
  LET height == at[1]
      i == at[2]
  IN IF i <= height - 1 THEN 2^(height - 1 - i) * i + spurs[<<height, i + 1>>] ELSE 0
SpurSumHeight(height) == IF height = 0 THEN 0 ELSE spurs[<<height, 1>>]

halves[n \in Nat] == IF n = 0 THEN 0 ELSE n + halves[n \div 2]

LeafMinusSpurSum(leafIndex) == leafIndex - halves[leafIndex \div 2]

(* Slip: the leaf index where the count of leaves is meant *)
SpurHeightOfIndex(leafIndex) ==
  IF leafIndex = 0 THEN 0 ELSE TrailingZeros(leafIndex)

SpurHeightLeaf(leafIndex) == TrailingZeros(leafIndex + 1)

treeIndex[i \in Nat] ==
  IF i = 0 THEN 0
  ELSE LET height == BitLength(i)
       IN SpurSumHeight(height) + height + treeIndex[i - 2^(height - 1)]
TreeIndexOld(leafIndex) == treeIndex[leafIndex]

mmrIndex[leafIndex \in Nat] ==
  IF leafIndex = 0 THEN 0
  ELSE LET h == BitLength(leafIndex)
       IN 2^h - 1 + mmrIndex[leafIndex - 2^(h - 1)]
MMRIndex(leafIndex) == mmrIndex[leafIndex]

firstMMRSize[i \in Nat] ==
  IF IndexHeight(i) < IndexHeight(i + 1) THEN firstMMRSize[i + 1] ELSE i + 1

(* Slip: the size that ends with the node itself *)
SizeEndingWith(i) == i + 1

FirstMMRSize(i) == firstMMRSize[i]

(* The nodes to the left of the climb from the interior node i, and those  *)
(* on both sides                                                           *)
leftOf[at \in Nat \X Nat] ==
  LET i == at[1]
      g == at[2]
  IN IF IndexHeight(i) > g THEN <<i - 2 * 2^g>> \o leftOf[<<i + 1, g + 1>>]
     ELSE << >>
LeftAncestors(i) ==
  IF IndexHeight(i) < 1 THEN << >> ELSE leftOf[<<i, IndexHeight(i) - 1>>]

bothOf[at \in Nat \X Nat] ==
  LET i == at[1]
      g == at[2]
      iLeft == i - 2 * 2^g
  IN IF IndexHeight(i) > g
     THEN <<iLeft, iLeft + SiblingOffset(g)>> \o bothOf[<<i + 1, g + 1>>]
     ELSE << >>
Ancestors(i) ==
  IF IndexHeight(i) < 1 THEN << >> ELSE bothOf[<<i, IndexHeight(i) - 1>>]

-----------------------------------------------------------------------------
(* peaks.go *)

TopPeak(i) == 2^(BitLength(i + 2) - 1) - 2
TopHeight(i) == BitLength(i + 2) - 2

peaksAfter[at \in Nat \X Nat] ==
  LET peak == at[1]
      size == at[2]
      peakSize == TopPeak(size - 1) + 1
  IN IF size = 0 THEN << >>
     ELSE <<peak + peakSize - 1>> \o peaksAfter[<<peak + peakSize, size - peakSize>>]

(* Slip: the check that the range is complete is left out *)
PeaksOfAny(i) == peaksAfter[<<0, i + 1>>]

(* << >> if the range that ends with i lacks a parent of its last nodes *)
Peaks(i) ==
  IF PosHeight(i + 2) > PosHeight(i + 1) THEN << >> ELSE peaksAfter[<<0, i + 1>>]

PosPeaks(size) == [k \in DOMAIN Peaks(size - 1) |-> Peaks(size - 1)[k] + 1]

(* peaksold.go: the same list, by jumps to the right and steps down *)
downTo[at \in Nat \X Nat] ==
  LET pos == at[1]
      size == at[2]
  IN IF pos <= size THEN pos
     ELSE IF LeftChild(pos) = 0 THEN 0 ELSE downTo[<<LeftChild(pos), size>>]

(* next is 0 after the last peak.  A jump from a node that is no peak may  *)
(* come back to it; the function is given a value for that.                *)
jumpsRight[at \in Nat \X Nat] ==
  LET peak == at[1]
      size == at[2]
      next == downTo[<<JumpRightSibling(peak), size>>]
  IN IF next <= peak THEN << >> ELSE <<next>> \o jumpsRight[<<next, size>>]

PeaksOld(size) ==
  IF size = 0 \/ PosHeight(size + 1) > PosHeight(size) THEN << >>
  ELSE <<TopPeak(size - 1) + 1>> \o jumpsRight[<<TopPeak(size - 1) + 1, size>>]

PeakHashes(store, i) == [k \in DOMAIN Peaks(i) |-> store[Peaks(i)[k]]]

peaksBitmap[at \in Nat \X Nat] ==
  LET pos == at[1]
      k == at[2]
  IN IF k = 0 THEN 0
     ELSE IF pos >= HeightSize(k)
          THEN 2^(k - 1) + peaksBitmap[<<pos - HeightSize(k), k - 1>>]
          ELSE peaksBitmap[<<pos, k - 1>>]

PeaksBitmap(size) == peaksBitmap[<<size, BitLength(size)>>]

LeafCount(size) == PeaksBitmap(size)
LeafIndex(i) == LeafCount(FirstMMRSize(i)) - 1

(* Where the peak of height d is in the list of peaks, counted from 0 *)
PeakIndex(leafCount, d) ==
  OnesCount(leafCount) - OnesCount(leafCount % 2^(d + 1))

=============================================================================
