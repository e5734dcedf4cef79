------------------------------ MODULE MassifProofs ------------------------------
(***************************************************************************)
(* A context that fills one massif after another, with the peaks it needs  *)
(* of the earlier ones in its stack, holds the nodes of the log, however   *)
(* many leaves the log has (module Massif); and a massif with its stack    *)
(* tells, by a seal and a trusted state, whether it is of the log that was *)
(* sealed (module VerifiedContext).  The bags of peaks that are signed in  *)
(* version 0 are those of module MMRVerifyProofs.                          *)
(***************************************************************************)
EXTENDS VerifiedContext, MMRVerifyProofs

-----------------------------------------------------------------------------
(* Massif by massif *)

(* The leaves of a massif *)
LeavesOf(h) == 2^(h - 1)

(* Where massif m begins in the log, how many leaves it has, where its     *)
(* last leaf is and how many nodes it has at least.                        *)
LEMMA MassifRun ==
  ASSUME NEW h \in Heights, NEW m \in Nat
  PROVE  /\ h \in Nat /\ h - 1 \in Nat /\ h - 1 # 0
         /\ LeavesOf(h) \in Nat /\ LeavesOf(h) >= 2
         /\ m * LeavesOf(h) \in Nat /\ (m + 1) * LeavesOf(h) \in Nat
         /\ (m + 1) * LeavesOf(h) = m * LeavesOf(h) + LeavesOf(h)
         /\ MassifFirstLeaf(h, m) = MMRIndex(m * LeavesOf(h))
         /\ (m + 1) * LeavesOf(h) - 1 \in Nat
         /\ MMRIndex((m + 1) * LeavesOf(h) - 1)
              = MMRIndex(m * LeavesOf(h)) + TreeLastLeafIndex(h)
         /\ MMRIndex(m * LeavesOf(h)) + TreeCount(h) <= MMRIndex((m + 1) * LeavesOf(h))
         /\ HeightIndexLeafCount(h - 1) = LeavesOf(h)
         /\ IndexLen(h) = 2 * LeavesOf(h)
<1> DEFINE w == 2^(h - 1)
<1>1. h \in Nat /\ h - 1 \in Nat /\ h - 1 # 0 /\ (h - 1) + 1 = h /\ h - 2 \in Nat
      /\ (h - 2) + 1 = h - 1
  BY HeightsAssumption
<1>2. w \in Nat /\ w >= 2 /\ 2^h = 2 * w
  <2>1. 2^(h - 2) \in Nat /\ 2^(h - 2) > 0 /\ 2^(h - 1) = 2 * 2^(h - 2) /\ 2^h = 2 * 2^(h - 1)
    BY <1>1, PowType, PowStep
  <2> QED BY <2>1
<1>3. NodePos(h - 1, m) = MMRIndex((m + 1) * w - 1) + 1 + (h - 1) /\ (m + 1) * w - 1 \in Nat
  BY <1>1, LastLeafPos
<1>4. NodePos(h - 1, m) = MMRIndex(m * w) + 2 * w - 1
  BY DEF NodePos
<1>5. m * w \in Nat /\ (m + 1) * w \in Nat
  BY <1>1, RunEnds
<1>6. NodePos(h - 1, m) <= MMRIndex((m + 1) * w) /\ NodePos(h - 1, m) \in Nat
  <2>1. PICK n \in Nat : n = (m + 1) * w
    BY <1>5
  <2>2. (m + 1) * 2^(h - 1) <= n
    BY <2>1
  <2>3. NodePos(h - 1, m) <= MMRIndex(n)
    BY <1>1, <2>2, NodeInRange
  <2> QED BY <1>1, <2>1, <2>3, NodePosBounds
<1> HIDE DEF w
<1>7. (m + 1) * w = m * w + w /\ w * m = m * w
  BY <1>2
<1>8. MMRIndex(m * w) \in Nat /\ MMRIndex((m + 1) * w - 1) \in Nat
  BY <1>3, <1>5, MMRIndexBounds
<1>9. TreeLastLeafIndex(h) = 2 * w - h - 1 /\ TreeCount(h) = 2 * w - 1 /\ IndexLen(h) = 2 * w
  BY <1>2 DEF TreeLastLeafIndex, TreeCount, IndexLen
<1>10. MassifFirstLeaf(h, m) = MMRIndex(m * w)
  <2>1. (2^h - 1 + 1) \div 2 = w
    BY <1>2
  <2> QED BY <1>7, <2>1 DEF MassifFirstLeaf
<1>11. HeightIndexLeafCount(h - 1) = w
  <2>1. HeightIndexSize(h - 1) = 2 * w - 1
    BY DEF HeightIndexSize, w
  <2>2. (2 * w - 1 + 1) \div 2 = w
    BY <1>2
  <2> QED BY <2>1, <2>2 DEF HeightIndexLeafCount
<1>12. MMRIndex((m + 1) * w - 1) = MMRIndex(m * w) + TreeLastLeafIndex(h)
  BY <1>1, <1>2, <1>3, <1>4, <1>8, <1>9
<1>13. MMRIndex(m * w) + TreeCount(h) <= MMRIndex((m + 1) * w)
  BY <1>2, <1>4, <1>6, <1>8, <1>9
<1>14. LeavesOf(h) = w
  BY DEF LeavesOf, w
<1> QED BY <1>1, <1>2, <1>3, <1>5, <1>7, <1>9, <1>10, <1>11, <1>12, <1>13, <1>14

(* The bitmap of the peaks of a complete range counts its leaves. *)
LEMMA LeafCountOf ==
  ASSUME NEW n \in Nat
  PROVE  LeafCount(MMRIndex(n)) = n
<1>1. MMRIndex(n) \in Nat /\ MMRIndex(n + 1) \in Nat /\ MMRIndex(n) + 1 <= MMRIndex(n + 1)
  <2>1. n + 1 \in Nat /\ n <= n + 1 /\ (n + 1) - n = 1
    OBVIOUS
  <2>2. MMRIndex(n) + ((n + 1) - n) <= MMRIndex(n + 1)
    BY <2>1, MMRIndexMono
  <2> QED BY <2>1, <2>2, MMRIndexBounds
<1>2. MMRIndex(n) <= MMRIndex(n) /\ MMRIndex(n) < MMRIndex(n + 1)
  BY <1>1
<1> QED BY <1>1, <1>2, PeaksBitmapIs DEF LeafCount

(* A massif that has n leaves of the log is full, by either test, when it  *)
(* has all of its own.                                                     *)
LEMMA FullAt ==
  ASSUME NEW h \in Heights, NEW m \in Nat, NEW n \in Nat,
         m * LeavesOf(h) <= n, n <= (m + 1) * LeavesOf(h)
  PROVE  /\ MMRIndex(m * LeavesOf(h)) <= MMRIndex(n)
         /\ MMRIndex(n) > MMRIndex(m * LeavesOf(h)) + TreeLastLeafIndex(h)
              <=> n = (m + 1) * LeavesOf(h)
         /\ ~ (MMRIndex(n) - MMRIndex(m * LeavesOf(h)) < TreeCount(h))
              <=> n = (m + 1) * LeavesOf(h)
         /\ MMRIndex(n) = MMRIndex(m * LeavesOf(h)) + TreeLastLeafIndex(h)
              <=> n + 1 = (m + 1) * LeavesOf(h)
<1> DEFINE a == m * LeavesOf(h)
           e == (m + 1) * LeavesOf(h)
<1>1. /\ a \in Nat /\ e \in Nat /\ e - 1 \in Nat /\ h \in Nat /\ h - 1 \in Nat /\ h - 1 # 0
      /\ MMRIndex(e - 1) = MMRIndex(a) + TreeLastLeafIndex(h)
      /\ MMRIndex(a) + TreeCount(h) <= MMRIndex(e)
  BY MassifRun
<1>2. TreeCount(h) \in Int /\ TreeLastLeafIndex(h) = TreeCount(h) - h /\ h > 0
  <2>1. 2^h \in Nat
    BY <1>1, PowType
  <2> QED BY <1>1, <2>1 DEF TreeCount, TreeLastLeafIndex
<1> HIDE DEF a, e
<1>3. MMRIndex(a) \in Nat /\ MMRIndex(e) \in Nat /\ MMRIndex(n) \in Nat /\ MMRIndex(e - 1) \in Nat
  BY <1>1, MMRIndexBounds
<1>4. a <= n /\ n <= e
  BY DEF a, e
<1>5. MMRIndex(a) + (n - a) <= MMRIndex(n)
  BY <1>1, <1>4, MMRIndexMono
<1>6. CASE n = e
  <2>1. MMRIndex(e) = MMRIndex(n)
    BY <1>6
  <2>2. n + 1 # e /\ MMRIndex(n) > MMRIndex(a) + TreeLastLeafIndex(h)
        /\ MMRIndex(a) <= MMRIndex(n)
        /\ ~ (MMRIndex(n) - MMRIndex(a) < TreeCount(h))
        /\ MMRIndex(n) # MMRIndex(a) + TreeLastLeafIndex(h)
    BY <1>1, <1>2, <1>3, <1>4, <1>5, <1>6, <2>1
  <2> QED BY <1>6, <2>2 DEF a, e
<1>7. CASE n # e
  <2>1. n <= e - 1
    BY <1>1, <1>4, <1>7
  <2>2. MMRIndex(n) + (e - 1 - n) <= MMRIndex(e - 1)
    BY <1>1, <2>1, MMRIndexMono
  <2>3. MMRIndex(n) = MMRIndex(e - 1) <=> n + 1 = e
    <3>1. n + 1 = e => n = e - 1
      BY <1>1
    <3>2. MMRIndex(n) = MMRIndex(e - 1) => n + 1 = e
      BY <1>1, <1>3, <2>1, <2>2
    <3> QED BY <3>1, <3>2
  <2>4. ~ (MMRIndex(n) > MMRIndex(a) + TreeLastLeafIndex(h))
        /\ MMRIndex(a) <= MMRIndex(n)
        /\ MMRIndex(n) - MMRIndex(a) < TreeCount(h)
    BY <1>1, <1>2, <1>3, <1>4, <1>5, <2>1, <2>2
  <2> QED BY <1>1, <1>7, <2>3, <2>4 DEF a, e
<1> QED BY <1>6, <1>7

(* The nodes between two sizes of the log are those of the leaves between. *)
LEMMA NodesBetween ==
  ASSUME NEW a \in Nat, NEW n \in Nat, NEW j \in Nat, MMRIndex(a) <= j, j < MMRIndex(n)
  PROVE  LeafIndex(j) \in Nat /\ a <= LeafIndex(j) /\ LeafIndex(j) < n
<1>1. PICK h \in Nat, k \in Nat : j + 1 = NodePos(h, k)
  <2>1. j + 1 \in Nat /\ j + 1 # 0
    OBVIOUS
  <2> QED BY <2>1, EveryPosition
<1>2. PICK e \in Nat : e = (k + 1) * 2^h /\ e # 0
  <2>1. k * 2^h \in Nat /\ (k + 1) * 2^h \in Nat /\ k * 2^h < (k + 1) * 2^h
    BY RunEnds
  <2>2. (k + 1) * 2^h # 0
    BY <2>1
  <2> QED BY <2>1, <2>2
<1>3. LeafIndex(j) = e - 1
  <2>1. NodePos(h, k) - 1 = j
    BY <1>1
  <2> QED BY <1>2, <2>1, LeafIndexOf
<1>4. e <= n
  <2>1. MMRIndex(n) \in Nat
    BY MMRIndexBounds
  <2>2. NodePos(h, k) <= MMRIndex(n)
    BY <1>1, <2>1
  <2> QED BY <1>2, <2>2, NodeInRange
<1>5. ~ (e <= a)
  <2>1. MMRIndex(a) \in Nat
    BY MMRIndexBounds
  <2>2. ~ (NodePos(h, k) <= MMRIndex(a))
    BY <1>1, <2>1
  <2> QED BY <1>2, <2>2, NodeInRange
<1> QED BY <1>2, <1>3, <1>4, <1>5

(* A number that is in a massif is divided by its leaves to its number. *)
LEMMA MassifOf ==
  ASSUME NEW h \in Heights, NEW m \in Nat, NEW x \in Nat,
         m * LeavesOf(h) <= x, x < (m + 1) * LeavesOf(h)
  PROVE  MassifIndexFromLeafIndex(h, x) = m
<1>1. LeavesOf(h) \in Nat /\ LeavesOf(h) > 0 /\ HeightIndexLeafCount(h - 1) = LeavesOf(h)
  BY MassifRun
<1>2. x \div LeavesOf(h) = m
  BY <1>1, DivIs
<1> QED BY <1>1, <1>2 DEF MassifIndexFromLeafIndex

-----------------------------------------------------------------------------
(* The log *)

(* The leaf values of the log *)
LogValues == [n \in 1 .. MaxLeaves |-> LeafValue(n - 1)]
Log == FoldLeft(AddHashedLeaf, << >>, LogValues)

(* A set of hashes that has the leaves and is closed under hashing *)
LogHashes == CHOOSE H : {LeafValue(n) : n \in Nat} \subseteq H /\ PairsOf(H) \subseteq H

(* There is such a set. *)
LEMMA LogHashesAre ==
  /\ \A n \in Nat : LeafValue(n) \in LogHashes
  /\ PairsOf(LogHashes) \subseteq LogHashes
<1>1. \E H : {LeafValue(n) : n \in Nat} \subseteq H /\ PairsOf(H) \subseteq H
  BY HashesExist
<1>2. {LeafValue(n) : n \in Nat} \subseteq LogHashes /\ PairsOf(LogHashes) \subseteq LogHashes
  BY <1>1 DEF LogHashes
<1> QED BY <1>2

(* The log is the mountain range over its leaves. *)
LEMMA LogIs ==
  /\ RangeOver(LogHashes, Log, LogValues) /\ Len(LogValues) = MaxLeaves
  /\ Len(Log) = MMRIndex(MaxLeaves) /\ Log \in Seq(LogHashes)
  /\ \A n \in Nat : n < MaxLeaves => LogValues[n + 1] = LeafValue(n)
<1>1. MaxLeaves \in Nat
  BY MaxLeavesAssumption
<1>2. /\ LogValues \in Seq(LogHashes) /\ Len(LogValues) = MaxLeaves
      /\ \A n \in Nat : n < MaxLeaves => LogValues[n + 1] = LeafValue(n)
  <2>1. \A n \in 1 .. MaxLeaves : n - 1 \in Nat
    BY <1>1
  <2>2. \A n \in 1 .. MaxLeaves : LeafValue(n - 1) \in LogHashes
    BY <2>1, LogHashesAre
  <2>3. \A n \in Nat : n < MaxLeaves => n + 1 \in 1 .. MaxLeaves /\ (n + 1) - 1 = n
    BY <1>1
  <2> QED BY <1>1, <2>2, <2>3 DEF LogValues
<1>3. RangeOver(LogHashes, Log, LogValues)
  BY <1>2, LogHashesAre, BuildRange DEF Log
<1> QED BY <1>2, <1>3 DEF RangeOver

(* The node over a leaf, and over two nodes *)
LEMMA LogNodes ==
  /\ \A n \in Nat : n < MaxLeaves => FullLog[MMRIndex(n)] = LeafValue(n)
  /\ \A g, k \in Nat : (k + 1) * 2^(g + 1) <= MaxLeaves =>
       FullLog[NodePos(g + 1, k) - 1]
         = HashPosPair64(NodePos(g + 1, k), FullLog[NodePos(g, 2 * k) - 1],
                         FullLog[NodePos(g, 2 * k + 1) - 1])
<1>1. MaxLeaves \in Nat
  BY MaxLeavesAssumption
<1>2. \A p \in Nat : p > 0 /\ p <= MMRIndex(MaxLeaves) => FullLog[p - 1] = Log[p]
  <2>1. FullLog = StoreOf(Log)
    BY DEF FullLog, Log, LogValues
  <2>2. Len(Log) = MMRIndex(MaxLeaves) /\ MMRIndex(MaxLeaves) \in Nat
    BY <1>1, LogIs, MMRIndexBounds
  <2> SUFFICES ASSUME NEW p \in Nat, p > 0, p <= MMRIndex(MaxLeaves)
               PROVE  FullLog[p - 1] = Log[p]
    OBVIOUS
  <2>3. p - 1 \in 0 .. Len(Log) - 1 /\ (p - 1) + 1 = p
    BY <2>2
  <2> QED BY <2>1, <2>3 DEF StoreOf
<1>3. ASSUME NEW n \in Nat, n < MaxLeaves PROVE FullLog[MMRIndex(n)] = LeafValue(n)
  <2>1. Log[NodePos(0, n)] = LogValues[n + 1]
    BY <1>3, LogIs, TreeNodes
  <2>2. NodePos(0, n) = MMRIndex(n) + 1 /\ MMRIndex(n) \in Nat
    BY LeafPos, MMRIndexBounds
  <2>3. NodePos(0, n) <= MMRIndex(MaxLeaves)
    BY <1>1, <1>3, LeafInRange
  <2>4. FullLog[NodePos(0, n) - 1] = Log[NodePos(0, n)]
    BY <1>2, <2>2, <2>3
  <2> QED BY <1>3, <2>1, <2>2, <2>4, LogIs
<1>4. ASSUME NEW g \in Nat, NEW k \in Nat, (k + 1) * 2^(g + 1) <= MaxLeaves
      PROVE  FullLog[NodePos(g + 1, k) - 1]
               = HashPosPair64(NodePos(g + 1, k), FullLog[NodePos(g, 2 * k) - 1],
                               FullLog[NodePos(g, 2 * k + 1) - 1])
  <2>1. Log[NodePos(g + 1, k)]
          = HashPosPair64(NodePos(g + 1, k), Log[NodePos(g, 2 * k)], Log[NodePos(g, 2 * k + 1)])
    <3>1. (k + 1) * 2^(g + 1) <= Len(LogValues)
      BY <1>4, LogIs
    <3>2. \A f, l \in Nat : (l + 1) * 2^(f + 1) <= Len(LogValues) =>
            Log[NodePos(f + 1, l)]
              = HashPosPair64(NodePos(f + 1, l), Log[NodePos(f, 2 * l)], Log[NodePos(f, 2 * l + 1)])
      <4>1. PICK H, ns, vs : H = LogHashes /\ ns = Log /\ vs = LogValues
        OBVIOUS
      <4>2. RangeOver(H, ns, vs)
        BY <4>1, LogIs
      <4>3. ASSUME NEW f \in Nat, NEW l \in Nat, (l + 1) * 2^(f + 1) <= Len(vs)
            PROVE  ns[NodePos(f + 1, l)]
                     = HashPosPair64(NodePos(f + 1, l), ns[NodePos(f, 2 * l)],
                                     ns[NodePos(f, 2 * l + 1)])
        BY <4>2, <4>3, TreeNodes
      <4> QED BY <4>1, <4>3
    <3> QED BY <3>1, <3>2, Zenon
  <2>2. /\ g + 1 \in Nat /\ 2 * k \in Nat /\ 2 * k + 1 \in Nat
        /\ NodePos(g + 1, k) \in Nat /\ NodePos(g + 1, k) > 0
        /\ NodePos(g, 2 * k) \in Nat /\ NodePos(g, 2 * k) > 0
        /\ NodePos(g, 2 * k + 1) \in Nat /\ NodePos(g, 2 * k + 1) > 0
    <3>1. g + 1 \in Nat /\ 2 * k \in Nat /\ 2 * k + 1 \in Nat
      OBVIOUS
    <3> QED BY <3>1, NodePosBounds
  <2>3. NodePos(g + 1, k) <= MMRIndex(MaxLeaves) /\ MMRIndex(MaxLeaves) \in Nat
    BY <1>1, <1>4, <2>2, NodeInRange, MMRIndexBounds
  <2>4. NodePos(g, 2 * k) < NodePos(g + 1, k) /\ NodePos(g, 2 * k + 1) < NodePos(g + 1, k)
    <3>1. /\ NodePos(g + 1, k) = NodePos(g, 2 * k + 1) + 1
          /\ NodePos(g, 2 * k) = NodePos(g, 2 * k + 1) - (2 * 2^g - 1)
          /\ 2^g \in Nat /\ 2^g > 0
      BY ParentPos, PowType
    <3>2. ASSUME NEW y \in Nat, y > 0, NEW a \in Nat, NEW b \in Nat, b = a - (2 * y - 1)
          PROVE  b < a + 1
      BY <3>2
    <3> QED BY <2>2, <3>1, <3>2
  <2>5. FullLog[NodePos(g + 1, k) - 1] = Log[NodePos(g + 1, k)]
    BY <1>2, <2>2, <2>3
  <2>6. FullLog[NodePos(g, 2 * k) - 1] = Log[NodePos(g, 2 * k)]
    BY <1>2, <2>2, <2>3, <2>4
  <2>7. FullLog[NodePos(g, 2 * k + 1) - 1] = Log[NodePos(g, 2 * k + 1)]
    BY <1>2, <2>2, <2>3, <2>4
  <2> QED BY <2>1, <2>5, <2>6, <2>7
<1> QED BY <1>3, <1>4

-----------------------------------------------------------------------------
(* What a context holds *)

IsContext(c) ==
  /\ c = [height |-> c.height, massifIndex |-> c.massifIndex, firstIndex |-> c.firstIndex,
          lastID |-> c.lastID, peakStackLen |-> c.peakStackLen, trie |-> c.trie,
          data |-> c.data, nextAncestor |-> c.nextAncestor, peakStackMap |-> c.peakStackMap]
  /\ c.height \in Heights /\ c.massifIndex \in Nat
  /\ c.firstIndex \in Nat /\ c.peakStackLen \in Nat
  /\ c.data \in Seq(LogHashes) /\ c.nextAncestor \in Int

(* The leaves before those of the massif, and the end of its own *)
FirstLeaf(c) == c.massifIndex * LeavesOf(c.height)
EndLeaf(c) == (c.massifIndex + 1) * LeavesOf(c.height)

(* The map of the stack is that of some massif, not always of this one. *)
HasMap(c) ==
  \/ c.peakStackMap = NoMap
  \/ \E m \in Nat : c.peakStackMap = PeakStackMap(c.height, MMRIndex(m * LeavesOf(c.height)))

(* Where the massif begins and how long its stack is *)
Placed(c) ==
  /\ c.firstIndex = MMRIndex(FirstLeaf(c))
  /\ c.peakStackLen = LeafMinusSpurSum(c.massifIndex)
  /\ c.peakStackLen = Len(PeaksOver(FirstLeaf(c)))
  /\ HasMap(c)

(* Its stack and its nodes, when the log has size nodes *)
HoldsLog(c, size) ==
  /\ c.firstIndex <= size
  /\ Len(c.data) = c.peakStackLen + (size - c.firstIndex)
  /\ \A y \in 1 .. c.peakStackLen : c.data[y] = FullLog[PeaksOver(FirstLeaf(c))[y]]
  /\ \A j \in Nat : c.firstIndex <= j /\ j < size =>
       c.data[c.peakStackLen + j - c.firstIndex + 1] = FullLog[j]

(* The context with other nodes and another next ancestor: the loop that   *)
(* adds a leaf changes these two.                                          *)
Filled(c, d, x) ==
  [height |-> c.height, massifIndex |-> c.massifIndex, firstIndex |-> c.firstIndex,
   lastID |-> c.lastID, peakStackLen |-> c.peakStackLen, trie |-> c.trie,
   data |-> d, nextAncestor |-> x, peakStackMap |-> c.peakStackMap]
WithData(c, d) == [c EXCEPT !.data = d]
WithNext(c, x) == [c EXCEPT !.nextAncestor = x]

(* Changing either is filling. *)
LEMMA FilledRecord ==
  ASSUME NEW c, IsContext(c), NEW d, NEW x
  PROVE  /\ WithData(c, d) = Filled(c, d, c.nextAncestor)
         /\ WithNext(c, x) = Filled(c, c.data, x)
         /\ Filled(c, c.data, c.nextAncestor) = c
<1>1. PICK h, m, a, l, n, t, u, z, p :
        c = [height |-> h, massifIndex |-> m, firstIndex |-> a, lastID |-> l,
             peakStackLen |-> n, trie |-> t, data |-> u, nextAncestor |-> z,
             peakStackMap |-> p]
  BY DEF IsContext
<1>2. WithData(c, d)
        = [height |-> h, massifIndex |-> m, firstIndex |-> a, lastID |-> l,
           peakStackLen |-> n, trie |-> t, data |-> d, nextAncestor |-> z,
           peakStackMap |-> p]
  BY <1>1 DEF WithData
<1>3. WithNext(c, x)
        = [height |-> h, massifIndex |-> m, firstIndex |-> a, lastID |-> l,
           peakStackLen |-> n, trie |-> t, data |-> u, nextAncestor |-> x,
           peakStackMap |-> p]
  BY <1>1 DEF WithNext
<1>4. /\ c.height = h /\ c.massifIndex = m /\ c.firstIndex = a /\ c.lastID = l
      /\ c.peakStackLen = n /\ c.trie = t /\ c.data = u /\ c.nextAncestor = z
      /\ c.peakStackMap = p
  BY <1>1
<1> QED BY <1>1, <1>2, <1>3, <1>4 DEF Filled

(* The other fields are as they were. *)
LEMMA FilledIs ==
  ASSUME NEW c, IsContext(c), NEW d \in Seq(LogHashes), NEW x \in Int
  PROVE  /\ IsContext(Filled(c, d, x))
         /\ Filled(c, d, x).data = d /\ Filled(c, d, x).nextAncestor = x
         /\ Filled(c, d, x).height = c.height /\ Filled(c, d, x).massifIndex = c.massifIndex
         /\ Filled(c, d, x).firstIndex = c.firstIndex
         /\ Filled(c, d, x).peakStackLen = c.peakStackLen
         /\ Filled(c, d, x).peakStackMap = c.peakStackMap
         /\ Filled(c, d, x).trie = c.trie /\ Filled(c, d, x).lastID = c.lastID
<1>1. PICK e : e = Filled(c, d, x)
  OBVIOUS
<1>2. /\ e.data = d /\ e.nextAncestor = x
      /\ e.height = c.height /\ e.massifIndex = c.massifIndex
      /\ e.firstIndex = c.firstIndex /\ e.peakStackLen = c.peakStackLen
      /\ e.peakStackMap = c.peakStackMap /\ e.trie = c.trie /\ e.lastID = c.lastID
  BY <1>1 DEF Filled
<1>3. /\ c.height \in Heights /\ c.massifIndex \in Nat
      /\ c.firstIndex \in Nat /\ c.peakStackLen \in Nat
  BY DEF IsContext
<1>4. e = [height |-> e.height, massifIndex |-> e.massifIndex, firstIndex |-> e.firstIndex,
           lastID |-> e.lastID, peakStackLen |-> e.peakStackLen, trie |-> e.trie,
           data |-> e.data, nextAncestor |-> e.nextAncestor, peakStackMap |-> e.peakStackMap]
  BY <1>1, <1>2 DEF Filled
<1>5. IsContext(e)
  BY <1>2, <1>3, <1>4 DEF IsContext
<1> QED BY <1>1, <1>2, <1>5

(* Filling more *)
LEMMA FilledAgain ==
  ASSUME NEW c, IsContext(c), NEW d \in Seq(LogHashes), NEW x \in Int, NEW b, NEW y
  PROVE  /\ WithData(Filled(c, d, x), b) = Filled(c, b, x)
         /\ WithNext(Filled(c, d, x), y) = Filled(c, d, y)
<1>1. PICK e : e = Filled(c, d, x)
  OBVIOUS
<1>2. IsContext(e) /\ e.data = d /\ e.nextAncestor = x
  <2>1. IsContext(e)
    BY <1>1, FilledIs
  <2> QED BY <1>1, <2>1, FilledIs
<1>3. WithData(e, b) = Filled(e, b, x) /\ WithNext(e, y) = Filled(e, d, y)
  BY <1>2, FilledRecord
<1>4. /\ e.height = c.height /\ e.massifIndex = c.massifIndex
      /\ e.firstIndex = c.firstIndex /\ e.peakStackLen = c.peakStackLen
      /\ e.peakStackMap = c.peakStackMap /\ e.trie = c.trie /\ e.lastID = c.lastID
  BY <1>1, FilledIs, Zenon
<1>5. Filled(e, b, x) = Filled(c, b, x) /\ Filled(e, d, y) = Filled(c, d, y)
  BY <1>4 DEF Filled
<1> QED BY <1>1, <1>3, <1>5

(* Filling changes nothing of where the massif is. *)
LEMMA FilledPlaced ==
  ASSUME NEW c, IsContext(c), Placed(c), NEW d \in Seq(LogHashes), NEW x \in Int
  PROVE  /\ Placed(Filled(c, d, x)) /\ FirstLeaf(Filled(c, d, x)) = FirstLeaf(c)
         /\ EndLeaf(Filled(c, d, x)) = EndLeaf(c)
<1>1. PICK e : e = Filled(c, d, x)
  OBVIOUS
<1>2. /\ e.height = c.height /\ e.massifIndex = c.massifIndex /\ e.firstIndex = c.firstIndex
      /\ e.peakStackLen = c.peakStackLen /\ e.peakStackMap = c.peakStackMap
  BY <1>1, FilledIs
<1>3. FirstLeaf(e) = FirstLeaf(c) /\ EndLeaf(e) = EndLeaf(c)
  BY <1>2 DEF FirstLeaf, EndLeaf
<1>4. HasMap(e)
  <2>1. HasMap(c)
    BY DEF Placed
  <2> QED BY <1>2, <2>1 DEF HasMap
<1>5. Placed(e)
  BY <1>2, <1>3, <1>4 DEF Placed
<1> QED BY <1>1, <1>3, <1>5

(* The size of the log, from the context *)
LEMMA SizeOf ==
  ASSUME NEW c, IsContext(c), NEW size \in Nat, HoldsLog(c, size)
  PROVE  /\ RangeCount(c) = size /\ Count(c) = size - c.firstIndex
         /\ Len(c.data) \in Nat /\ c.peakStackLen <= Len(c.data)
BY DEF IsContext, HoldsLog, RangeCount, Count

(* A node of the massif is read. *)
LEMMA NodeRead ==
  ASSUME NEW c, IsContext(c), NEW size \in Nat, HoldsLog(c, size),
         NEW j \in Nat, c.firstIndex <= j, j < size
  PROVE  Readable(c, j) /\ Get(c, j) = FullLog[j]
<1>1. RangeCount(c) = size /\ c.firstIndex \in Nat
  BY SizeOf DEF IsContext
<1>2. j >= c.firstIndex
  BY <1>1
<1> QED BY <1>1, <1>2 DEF Readable, Get, HoldsLog

(* The next node of the log is appended. *)
LEMMA NodeAppended ==
  ASSUME NEW c, IsContext(c), Placed(c), NEW size \in Nat, HoldsLog(c, size),
         NEW v \in LogHashes, v = FullLog[size], NEW x \in Int
  PROVE  /\ Append(c.data, v) \in Seq(LogHashes)
         /\ HoldsLog(Filled(c, Append(c.data, v), x), size + 1)
<1> DEFINE b == Append(c.data, v)
           e == Filled(c, b, x)
           n == c.peakStackLen
           a == c.firstIndex
<1>1. /\ c.data \in Seq(LogHashes) /\ n \in Nat /\ a \in Nat /\ Len(c.data) \in Nat
      /\ a <= size /\ Len(c.data) = n + (size - a)
  BY DEF IsContext, HoldsLog
<1>2. /\ b \in Seq(LogHashes) /\ Len(b) = Len(c.data) + 1 /\ b[Len(c.data) + 1] = v
      /\ \A y \in 1 .. Len(c.data) : b[y] = c.data[y]
  BY <1>1
<1> HIDE DEF b
<1>3. e.data = b /\ e.firstIndex = a /\ e.peakStackLen = n /\ FirstLeaf(e) = FirstLeaf(c)
  BY <1>2, FilledIs, FilledPlaced
<1> HIDE DEF e, n, a
<1>4. \A y \in 1 .. n : b[y] = FullLog[PeaksOver(FirstLeaf(c))[y]]
  <2> SUFFICES ASSUME NEW y \in 1 .. n PROVE b[y] = FullLog[PeaksOver(FirstLeaf(c))[y]]
    OBVIOUS
  <2>1. y \in 1 .. Len(c.data)
    BY <1>1
  <2> QED BY <1>2, <2>1 DEF HoldsLog, n
<1>5. ASSUME NEW j \in Nat, a <= j, j < size + 1 PROVE b[n + j - a + 1] = FullLog[j]
  <2>1. CASE j = size
    <3>1. n + j - a + 1 = Len(c.data) + 1
      BY <1>1, <2>1
    <3> QED BY <1>2, <2>1, <3>1
  <2>2. CASE j # size
    <3>1. n + j - a + 1 \in 1 .. Len(c.data) /\ j < size
      BY <1>1, <1>5, <2>2
    <3>2. c.data[n + j - a + 1] = FullLog[j]
      BY <1>5, <3>1 DEF HoldsLog, n, a
    <3> QED BY <1>2, <3>1, <3>2
  <2> QED BY <2>1, <2>2
<1>6. a <= size + 1 /\ Len(b) = n + (size + 1 - a)
  BY <1>1, <1>2
<1>7. PICK z \in Nat : z = size + 1
  OBVIOUS
<1>8. \A j \in Nat : a <= j /\ j < z => b[n + j - a + 1] = FullLog[j]
  BY <1>5, <1>7
<1>9. a <= z /\ Len(b) = n + (z - a)
  <2>1. a <= z
    BY <1>1, <1>7
  <2>2. Len(b) = n + (z - a)
    BY <1>1, <1>2, <1>7
  <2> QED BY <2>1, <2>2
<1>10. HoldsLog(e, z)
  BY <1>3, <1>4, <1>8, <1>9, Zenon DEF HoldsLog
<1> QED BY <1>2, <1>7, <1>10 DEF b, e

-----------------------------------------------------------------------------
(* The ancestors *)

(* Place z of the stack of massif m, counted from 0, has peak p. *)
PlaceOf(h, m, p, z) ==
  \E k \in 1 .. Len(PeaksOver(m * LeavesOf(h) + 1)) :
    PeaksOver(m * LeavesOf(h) + 1)[k] = p /\ z = k - 1

(* The map of a massif gives the places of its peaks.                      *)
LEMMA StackMapIs ==
  ASSUME NEW h \in Heights, NEW m \in Nat, NEW p
  PROVE  /\ p \in DOMAIN PeakStackMap(h, MMRIndex(m * LeavesOf(h)))
              <=> /\ \E k \in 1 .. Len(PeaksOver(m * LeavesOf(h) + 1)) :
                       PeaksOver(m * LeavesOf(h) + 1)[k] = p
                  /\ IndexHeight(p) >= h - 1
         /\ p \in DOMAIN PeakStackMap(h, MMRIndex(m * LeavesOf(h))) =>
              PlaceOf(h, m, p, PeakStackMap(h, MMRIndex(m * LeavesOf(h)))[p])
<1> DEFINE a == m * LeavesOf(h)
           q == PeaksOver(a + 1)
           M == PeakStackMap(h, MMRIndex(a))
<1>1. a \in Nat /\ a + 1 \in Nat /\ a + 1 # 0
  <2>1. a \in Nat
    BY MassifRun
  <2> HIDE DEF a
  <2> QED BY <2>1
<1>2. MMRIndex(a + 1) - 1 = MMRIndex(a)
  <2>1. PICK j \in Nat : a = 2 * j
    <3>1. PICK y \in Nat : LeavesOf(h) = 2 * y
      <4>1. h - 2 \in Nat /\ (h - 2) + 1 = h - 1
        BY HeightsAssumption
      <4>2. 2^(h - 1) = 2 * 2^(h - 2) /\ 2^(h - 2) \in Nat
        BY <4>1, PowStep, PowType
      <4> QED BY <4>2 DEF LeavesOf
    <3>2. m * (2 * y) = 2 * (m * y) /\ m * y \in Nat
      OBVIOUS
    <3> QED BY <3>1, <3>2
  <2>2. MMRIndex((2 * j + 1) * 2^0) = NodePos(0, 2 * j)
    <3>1. 0 \in Nat
      OBVIOUS
    <3> QED BY <3>1, NextLeafPos
  <2>3. (2 * j + 1) * 2^0 = a + 1
    BY <2>1, PowZero
  <2>4. NodePos(0, a) = MMRIndex(a) + 1 /\ MMRIndex(a) \in Nat
    BY <1>1, LeafPos, MMRIndexBounds
  <2> HIDE DEF a
  <2> QED BY <2>1, <2>2, <2>3, <2>4
<1>3. Peaks(MMRIndex(a)) = q
  BY <1>1, <1>2 DEF PeaksOver
<1>4. q \in Seq(Nat)
  BY <1>1, PeaksOverTile DEF Tiles
<1> HIDE DEF q, a
<1>5. M = [x \in {z \in {q[k] : k \in 1 .. Len(q)} : IndexHeight(z) >= h - 1} |->
             (CHOOSE k \in 1 .. Len(q) : q[k] = x) - 1]
  <2>1. DOMAIN q = 1 .. Len(q)
    BY <1>4
  <2>2. M = [x \in {z \in {q[k] : k \in DOMAIN q} : IndexHeight(z) >= h - 1} |->
               (CHOOSE k \in DOMAIN q : q[k] = x) - 1]
    BY <1>3 DEF M, PeakStackMap
  <2> QED BY <2>1, <2>2
<1> HIDE DEF M
<1>6. p \in DOMAIN M <=> (\E k \in 1 .. Len(q) : q[k] = p) /\ IndexHeight(p) >= h - 1
  BY <1>5
<1>7. p \in DOMAIN M => M[p] = (CHOOSE k \in 1 .. Len(q) : q[k] = p) - 1
  BY <1>5
<1>8. p \in DOMAIN M => \E k \in 1 .. Len(q) : q[k] = p /\ M[p] = k - 1
  BY <1>6, <1>7
<1> QED BY <1>6, <1>8 DEF q, a, M, PlaceOf

(* A peak of the massif's stack is read, when it is next or has a place.   *)
LEMMA AncestorRead ==
  ASSUME NEW c, IsContext(c), Placed(c), NEW size \in Nat, HoldsLog(c, size),
         NEW f \in Nat, NEW d \in Nat, c.height - 1 <= f,
         EndLeaf(c) = (2 * d + 1) * 2^f,
         NEW s \in Nat, s < f - (c.height - 1),
         NEW k \in Nat, (k + 2) * 2^(c.height - 1 + s) = EndLeaf(c),
         NEW j \in Nat, j = NodePos(c.height - 1 + s, k) - 1,
         c.peakStackMap = NoMap => c.nextAncestor = c.peakStackLen - 1 - s
  PROVE  /\ j < c.firstIndex
         /\ Readable(c, j) => Get(c, j) = FullLog[j]
         /\ c.peakStackMap \in {NoMap, PeakStackMap(c.height, c.firstIndex)} => Readable(c, j)
<1> DEFINE h == c.height
           n == FirstLeaf(c)
           q == PeaksOver(n)
           g == h - 1 + s
<1>1. /\ h \in Heights /\ h - 1 \in Nat /\ h - 1 # 0 /\ n \in Nat /\ c.massifIndex \in Nat
      /\ LeavesOf(h) = 2^(h - 1) /\ LeavesOf(h) \in Nat /\ LeavesOf(h) >= 2
      /\ EndLeaf(c) = n + 2^(h - 1)
      /\ c.firstIndex \in Nat /\ c.peakStackLen \in Nat
  <2>1. c.height \in Heights /\ c.massifIndex \in Nat /\ c.firstIndex \in Nat /\ c.peakStackLen \in Nat
    BY DEF IsContext
  <2> QED BY <2>1, MassifRun DEF FirstLeaf, EndLeaf, LeavesOf
<1>2. Tiles(q, n) /\ Len(q) = c.peakStackLen /\ c.firstIndex = MMRIndex(n)
  BY <1>1, PeaksOverTile DEF Placed
<1> HIDE DEF h, n, q
<1>3. g \in Nat /\ 2^g \in Nat /\ 2^g > 0
  <2>1. g \in Nat
    BY <1>1
  <2> QED BY <2>1, PowType
<1>4. Len(q) - s \in 1 .. Len(q) /\ PeakAt(q, n, Len(q) - s, g, k)
  <2>1. n + 2^(h - 1) = (2 * d + 1) * 2^f /\ h - 1 <= f
    BY <1>1 DEF h
  <2>2. f - (h - 1) \in Nat /\ s \in 0 .. f - (h - 1) /\ s < f - (h - 1)
    BY <1>1, <2>1 DEF h
  <2>3. (k + 2) * 2^(h - 1 + s) = n + 2^(h - 1)
    BY <1>1 DEF h
  <2> QED BY <1>1, <1>2, <2>1, <2>2, <2>3, MergedPeaks
<1>5. j = NodePos(g, k) - 1 /\ q[Len(q) - s] = j
  BY <1>4 DEF PeakAt, h
<1>6. PICK y \in 1 .. Len(q) : y = Len(q) - s
  BY <1>4
<1>7. j < c.firstIndex
  <2>1. (k + 1) * 2^g <= n
    BY <1>4 DEF PeakAt, PeakOver
  <2>2. NodePos(g, k) <= MMRIndex(n) /\ MMRIndex(n) \in Nat /\ NodePos(g, k) \in Nat
    BY <1>1, <1>3, <2>1, NodeInRange, MMRIndexBounds, NodePosBounds
  <2> QED BY <1>2, <1>5, <2>2
<1>8. c.data[y] = FullLog[j]
  <2>1. y \in 1 .. c.peakStackLen
    BY <1>2
  <2> QED BY <1>5, <1>6, <2>1 DEF HoldsLog, q, n
<1>9. ~ (j >= c.firstIndex) /\ c.firstIndex # 0
  <2>1. PICK w : w = c.firstIndex
    OBVIOUS
  <2>2. w \in Nat /\ j < w
    BY <1>1, <1>7, <2>1
  <2>3. ~ (j >= w) /\ w # 0
    BY <2>2
  <2> QED BY <2>1, <2>3
<1>10. CASE c.peakStackMap = NoMap
  <2>1. peakStackIndex(c, j) = y - 1 /\ c.nextAncestor = y - 1
    <3>1. PICK l \in Nat : l = c.peakStackLen /\ l = Len(q)
      BY <1>1, <1>2
    <3>2. c.nextAncestor = l - 1 - s /\ y = l - s
      BY <1>6, <1>10, <3>1
    <3>3. c.nextAncestor = y - 1
      BY <3>1, <3>2
    <3>4. peakStackIndex(c, j) = c.nextAncestor
      BY <1>10, Zenon DEF peakStackIndex
    <3> QED BY <3>3, <3>4
  <2>2. Len(q) \in Nat /\ y - 1 >= 0 /\ y - 1 < c.peakStackLen /\ (y - 1) + 1 = y
    <3>1. PICK l \in Nat : l = c.peakStackLen /\ l = Len(q)
      BY <1>1, <1>2
    <3>2. y \in 1 .. l
      BY <3>1
    <3>3. y - 1 >= 0 /\ y - 1 < l /\ (y - 1) + 1 = y
      BY <3>2
    <3> QED BY <3>1, <3>3
  <2> QED BY <1>7, <1>8, <1>9, <1>10, <2>1, <2>2 DEF Readable, Get
<1>11. CASE c.peakStackMap # NoMap
  <2>1. \A m \in Nat : c.peakStackMap = PeakStackMap(h, MMRIndex(m * LeavesOf(h))) =>
          (j \in DOMAIN c.peakStackMap => c.peakStackMap[j] = y - 1)
    <3> SUFFICES ASSUME NEW m \in Nat,
                        c.peakStackMap = PeakStackMap(h, MMRIndex(m * LeavesOf(h))),
                        j \in DOMAIN c.peakStackMap
                 PROVE  c.peakStackMap[j] = y - 1
      OBVIOUS
    <3> DEFINE a == m * LeavesOf(h) + 1
               r == PeaksOver(a)
    <3>0. PICK H \in Heights : H = h
      BY <1>1
    <3>1. PICK x \in 1 .. Len(r) : r[x] = j /\ c.peakStackMap[j] = x - 1
      <4>1. j \in DOMAIN PeakStackMap(H, MMRIndex(m * LeavesOf(H)))
        BY <3>0
      <4>2. \E x \in 1 .. Len(PeaksOver(m * LeavesOf(H) + 1)) :
              /\ PeaksOver(m * LeavesOf(H) + 1)[x] = j
              /\ PeakStackMap(H, MMRIndex(m * LeavesOf(H)))[j] = x - 1
          <5>1. PICK p : p = j
            OBVIOUS
          <5>2. PlaceOf(H, m, p, PeakStackMap(H, MMRIndex(m * LeavesOf(H)))[p])
            BY <4>1, <5>1, StackMapIs
          <5> QED BY <5>1, <5>2 DEF PlaceOf
      <4> QED BY <3>0, <4>2
    <3>2. a \in Nat /\ Tiles(r, a)
      <4>1. m * LeavesOf(h) \in Nat
        BY <3>0, MassifRun
      <4>2. a \in Nat
        <5>1. PICK w \in Nat : w = m * LeavesOf(h)
          BY <4>1
        <5>2. w + 1 \in Nat
          OBVIOUS
        <5> QED BY <5>1, <5>2
      <4> QED BY <4>2, PeaksOverTile
    <3> HIDE DEF r, a
    <3>3. PICK b \in Nat, l \in Nat : PeakAt(r, a, x, b, l)
      BY <3>2 DEF Tiles
    <3>4. b = g /\ l = k
      <4>1. NodePos(b, l) \in Nat /\ NodePos(g, k) \in Nat
        BY <1>3, NodePosBounds
      <4>2. NodePos(b, l) = NodePos(g, k)
        <5>1. j = NodePos(b, l) - 1 /\ j = NodePos(g, k) - 1
          BY <1>5, <3>1, <3>3 DEF PeakAt
        <5>2. PICK u, v : u = NodePos(b, l) /\ v = NodePos(g, k)
          OBVIOUS
        <5>3. u \in Nat /\ v \in Nat /\ j = u - 1 /\ j = v - 1
          BY <4>1, <5>1, <5>2
        <5>4. u = v
          BY <5>3
        <5> QED BY <5>2, <5>4
      <4>3. PICK z \in Nat : z = g
        BY <1>3
      <4>4. NodePos(b, l) = NodePos(z, k)
        BY <4>2, <4>3
      <4>5. b = z /\ l = k
        <5> HIDE DEF g
        <5> QED BY <4>4, NodePosUnique
      <4> QED BY <4>3, <4>5, Zenon
    <3>5. y = x
      BY <1>1, <1>2, <1>3, <1>4, <1>6, <3>2, <3>3, <3>4, SamePlace
    <3> QED BY <3>1, <3>5
  <2>2. PICK m \in Nat : c.peakStackMap = PeakStackMap(h, MMRIndex(m * LeavesOf(h)))
    BY <1>11 DEF Placed, HasMap, h
  <2>3. j \in DOMAIN c.peakStackMap => peakStackIndex(c, j) = y - 1
    BY <1>11, <2>1, <2>2 DEF peakStackIndex
  <2>4. Len(q) \in Nat /\ y - 1 < c.peakStackLen /\ (y - 1) + 1 = y
    <3>1. PICK l \in Nat : l = c.peakStackLen /\ l = Len(q)
      BY <1>1, <1>2
    <3>2. y \in 1 .. l
      BY <3>1
    <3>3. y - 1 < l /\ (y - 1) + 1 = y
      BY <3>2
    <3> QED BY <3>1, <3>3
  <2>5. c.peakStackMap = PeakStackMap(h, c.firstIndex) => j \in DOMAIN c.peakStackMap
    <3> DEFINE r == PeaksOver(n + 1)
    <3>1. n + 1 \in Nat
      BY <1>1
    <3>2. Tiles(r, n + 1)
      BY <3>1, PeaksOverTile
    <3>3. PeakOver(n + 1, g, k)
      <4>1. (k + 1) * 2^g <= n /\ \E e \in Nat : k = 2 * e
        BY <1>4 DEF PeakAt, PeakOver
      <4>2. n + 1 < (k + 2) * 2^g
        <5>1. (k + 2) * 2^g = n + LeavesOf(h)
          BY <1>1 DEF h
        <5>2. PICK u, w : u = (k + 2) * 2^g /\ w = LeavesOf(h)
          OBVIOUS
        <5>3. w \in Nat /\ w > 1 /\ n \in Nat
          BY <1>1, <5>2
        <5>4. u = n + w
          BY <5>1, <5>2
        <5>5. n + 1 < u
          BY <5>3, <5>4
        <5> QED BY <5>2, <5>5
      <4>3. (k + 1) * 2^g \in Nat
        BY <1>3, RunEnds
      <4>4. (k + 1) * 2^g <= n + 1
        BY <1>1, <4>1, <4>3
      <4> QED BY <4>1, <4>2, <4>4 DEF PeakOver
    <3>4. g \in Bits(n + 1)
      BY <1>3, <3>3 DEF Bits
    <3>5. PICK x \in 1 .. Len(r), l \in Nat : PeakAt(r, n + 1, x, g, l)
      BY <3>1, <3>2, <3>4, PeakOfBit
    <3>6. l = k
      <4>1. PeakOver(n + 1, g, l)
        BY <3>5 DEF PeakAt
      <4> QED BY <1>3, <3>1, <3>3, <4>1, SamePeak
    <3>7. r[x] = j
      BY <1>5, <3>5, <3>6 DEF PeakAt
    <3>8. IndexHeight(j) >= h - 1
      <4>1. PosHeight(NodePos(g, k)) = g /\ NodePos(g, k) \in Nat
        BY <1>3, HeightOfNode, NodePosBounds
      <4>2. j + 1 = NodePos(g, k)
        BY <1>5, <4>1
      <4>3. IndexHeight(j) = g
        BY <4>1, <4>2 DEF IndexHeight
      <4> QED BY <1>1, <4>3
    <3>9. n = c.massifIndex * LeavesOf(h)
      BY DEF n, FirstLeaf, h
    <3> HIDE DEF g
    <3>10. j \in DOMAIN PeakStackMap(h, MMRIndex(c.massifIndex * LeavesOf(h)))
      <4>1. \E z \in 1 .. Len(PeaksOver(c.massifIndex * LeavesOf(h) + 1)) :
              PeaksOver(c.massifIndex * LeavesOf(h) + 1)[z] = j
        BY <3>7, <3>9
      <4> QED BY <1>1, <3>8, <4>1, StackMapIs
    <3> QED BY <1>2, <3>9, <3>10
  <2>6. c.peakStackMap \in {NoMap, PeakStackMap(c.height, c.firstIndex)} =>
          j \in DOMAIN c.peakStackMap
    BY <1>11, <2>5 DEF h
  <2> QED BY <1>7, <1>8, <1>9, <1>11, <2>3, <2>4, <2>6 DEF Readable, Get
<1> QED BY <1>10, <1>11

-----------------------------------------------------------------------------
(* The rounds of BackFill *)

(* The round of BackFill, as an operator of its own *)
FillRound(at, g) ==
  LET i == RangeCount(at.c)
      iLeft == i - 2^g
      value == HashPosPair64(i + 1, Get(at.c, iLeft), Get(at.c, i - 1))
  IN IF at.err \/ IndexHeight(i) <= g - 1 THEN at
     ELSE IF ~Readable(at.c, iLeft) THEN [at EXCEPT !.err = TRUE]
     ELSE [at EXCEPT !.c = [AfterGet(at.c, iLeft) EXCEPT !.data = Append(@, value)]]

At(c, d, x, e) == [c |-> Filled(c, d, x), err |-> e]

(* The node that a round appends, and what it leaves of the ancestors *)
NodeOver(e, g) ==
  HashPosPair64(RangeCount(e) + 1, Get(e, RangeCount(e) - 2^g), Get(e, RangeCount(e) - 1))
NextAfter(e, g) ==
  IF RangeCount(e) - 2^g < e.firstIndex /\ e.peakStackMap = NoMap
  THEN e.nextAncestor - 1 ELSE e.nextAncestor

(* Filling what was filled *)
LEMMA FilledTwice ==
  ASSUME NEW c, IsContext(c), NEW d \in Seq(LogHashes), NEW x \in Int, NEW b, NEW y
  PROVE  Filled(Filled(c, d, x), b, y) = Filled(c, b, y)
<1>1. PICK e : e = Filled(c, d, x)
  OBVIOUS
<1>2. /\ e.height = c.height /\ e.massifIndex = c.massifIndex
      /\ e.firstIndex = c.firstIndex /\ e.peakStackLen = c.peakStackLen
      /\ e.peakStackMap = c.peakStackMap /\ e.trie = c.trie /\ e.lastID = c.lastID
  BY <1>1, FilledIs, Zenon
<1>3. Filled(e, b, y) = Filled(c, b, y)
  BY <1>2 DEF Filled
<1> QED BY <1>1, <1>3

(* A round ends the loop, stops it or appends a node. *)
LEMMA FillRoundIs ==
  ASSUME NEW c, IsContext(c), NEW d \in Seq(LogHashes), NEW x \in Int,
         NEW e, e = Filled(c, d, x), NEW g \in Nat
  PROVE  /\ FillRound(At(c, d, x, TRUE), g) = At(c, d, x, TRUE)
         /\ IndexHeight(RangeCount(e)) <= g - 1 =>
              FillRound(At(c, d, x, FALSE), g) = At(c, d, x, FALSE)
         /\ ~ (IndexHeight(RangeCount(e)) <= g - 1) /\ ~Readable(e, RangeCount(e) - 2^g) =>
              FillRound(At(c, d, x, FALSE), g) = At(c, d, x, TRUE)
         /\ ~ (IndexHeight(RangeCount(e)) <= g - 1) /\ Readable(e, RangeCount(e) - 2^g) =>
              FillRound(At(c, d, x, FALSE), g)
                = At(c, Append(d, NodeOver(e, g)), NextAfter(e, g), FALSE)
<1> DEFINE i == RangeCount(e)
           l == i - 2^g
           at == [c |-> e, err |-> FALSE]
<1>1. IsContext(e) /\ e.data = d /\ e.nextAncestor = x
  BY FilledIs
<1>2. At(c, d, x, FALSE) = at /\ at.c = e /\ at.err = FALSE
  BY DEF At
<1>3. FillRound(At(c, d, x, TRUE), g) = At(c, d, x, TRUE)
  BY DEF At, FillRound
<1>4. IndexHeight(i) <= g - 1 => FillRound(at, g) = at
  BY DEF FillRound
<1>5. ~ (IndexHeight(i) <= g - 1) /\ ~Readable(e, l) => FillRound(at, g) = At(c, d, x, TRUE)
  <2> SUFFICES ASSUME ~ (IndexHeight(i) <= g - 1), ~Readable(e, l)
               PROVE  FillRound(at, g) = At(c, d, x, TRUE)
    OBVIOUS
  <2>1. FillRound(at, g) = [at EXCEPT !.err = TRUE]
    BY DEF FillRound
  <2> QED BY <2>1 DEF At
<1>6. ASSUME ~ (IndexHeight(i) <= g - 1), Readable(e, l)
      PROVE  FillRound(at, g) = At(c, Append(d, NodeOver(e, g)), NextAfter(e, g), FALSE)
  <2> DEFINE a == AfterGet(e, l)
             v == NodeOver(e, g)
             y == NextAfter(e, g)
  <2>1. FillRound(at, g) = [at EXCEPT !.c = [a EXCEPT !.data = Append(@, v)]]
    BY <1>6 DEF FillRound, NodeOver
  <2>2. [a EXCEPT !.data = Append(@, v)] = WithData(a, Append(a.data, v))
    BY DEF WithData
  <2>3. a = Filled(e, d, y) /\ y \in Int
    <3>1. CASE l < e.firstIndex /\ e.peakStackMap = NoMap
      <4>1. a = WithNext(e, y) /\ y = x - 1
        BY <1>1, <3>1 DEF AfterGet, NextAfter, WithNext
      <4> QED BY <1>1, <4>1, FilledRecord
    <3>2. CASE ~ (l < e.firstIndex /\ e.peakStackMap = NoMap)
      <4>1. a = e /\ y = x
        BY <1>1, <3>2 DEF AfterGet, NextAfter
      <4> QED BY <1>1, <4>1, FilledRecord
    <3> QED BY <3>1, <3>2
  <2> HIDE DEF a, v, y
  <2>4. a = Filled(c, d, y)
    BY <2>3, FilledTwice
  <2>5. a.data = d /\ WithData(a, Append(d, v)) = Filled(c, Append(d, v), y)
    <3>1. a.data = d
      BY <2>3, <2>4, FilledIs
    <3>2. WithData(Filled(c, d, y), Append(d, v)) = Filled(c, Append(d, v), y)
      BY <2>3, FilledAgain
    <3> QED BY <2>4, <3>1, <3>2
  <2>6. FillRound(at, g) = [at EXCEPT !.c = Filled(c, Append(d, v), y)]
    BY <2>1, <2>2, <2>5
  <2>7. [at EXCEPT !.c = Filled(c, Append(d, v), y)] = At(c, Append(d, v), y, FALSE)
    <3>1. ASSUME NEW u, NEW w, NEW z PROVE [[c |-> u, err |-> z] EXCEPT !.c = w] = [c |-> w, err |-> z]
      OBVIOUS
    <3>2. PICK w, z : w = Filled(c, Append(d, v), y) /\ z = FALSE
      OBVIOUS
    <3>3. [[c |-> e, err |-> z] EXCEPT !.c = w] = [c |-> w, err |-> z]
      BY <3>1
    <3> QED BY <3>2, <3>3, Zenon DEF At
  <2> QED BY <2>6, <2>7 DEF v, y
<1> QED BY <1>2, <1>3, <1>4, <1>5, <1>6

(* A round that appends *)
Appends(e, g) ==
  ~ (IndexHeight(RangeCount(e)) <= g - 1) /\ Readable(e, RangeCount(e) - 2^g)

WithNode(c, d, e, g) == At(c, Append(d, NodeOver(e, g)), NextAfter(e, g), FALSE)

(* What a round that appends gives *)
LEMMA RoundAppends ==
  ASSUME NEW c, IsContext(c), NEW d \in Seq(LogHashes), NEW x \in Int,
         NEW e, e = Filled(c, d, x), NEW g \in Nat, Appends(e, g)
  PROVE  FillRound(At(c, d, x, FALSE), g) = WithNode(c, d, e, g)
BY FillRoundIs, ZenonT(60) DEF Appends, WithNode

(* The states of the loop: one node at least was added *)
FillStates(c) ==
  {At(c, d, x, e) : d \in {u \in Seq(LogHashes) : c.peakStackLen < Len(u)},
                    x \in Int, e \in BOOLEAN}

(* Every round stays in them. *)
LEMMA FillState ==
  ASSUME NEW c, NEW d \in Seq(LogHashes), c.peakStackLen < Len(d), NEW x \in Int
  PROVE  At(c, d, x, TRUE) \in FillStates(c) /\ At(c, d, x, FALSE) \in FillStates(c)
<1>1. ASSUME NEW e \in BOOLEAN PROVE At(c, d, x, e) \in FillStates(c)
  BY DEF FillStates
<1>2. TRUE \in BOOLEAN /\ FALSE \in BOOLEAN
  OBVIOUS
<1> QED BY <1>1, <1>2, Zenon

(* What is readable is a hash. *)
LEMMA ReadHash ==
  ASSUME NEW c, IsContext(c), HasMap(c), c.peakStackLen <= Len(c.data),
         NEW j \in Int, Readable(c, j)
  PROVE  Get(c, j) \in LogHashes
<1>1. /\ c.data \in Seq(LogHashes) /\ Len(c.data) \in Nat /\ c.firstIndex \in Nat
      /\ c.peakStackLen \in Nat /\ c.height \in Heights /\ c.nextAncestor \in Int
  BY DEF IsContext
<1>2. \A y \in Int : 1 <= y /\ y <= Len(c.data) => c.data[y] \in LogHashes
  BY <1>1
<1>4. CASE j >= c.firstIndex
  <2>1. j < c.firstIndex + (Len(c.data) - c.peakStackLen)
    BY <1>4 DEF Readable, RangeCount, Count
  <2>2. PICK y \in Int : y = c.peakStackLen + j - c.firstIndex + 1
    BY <1>1
  <2>3. 1 <= y /\ y <= Len(c.data)
    BY <1>1, <1>4, <2>1, <2>2
  <2>4. Get(c, j) = c.data[y]
    BY <1>4, <2>2 DEF Get
  <2> QED BY <1>2, <2>3, <2>4
<1>5. CASE ~ (j >= c.firstIndex)
  <2>1. Get(c, j) = c.data[peakStackIndex(c, j) + 1] /\ peakStackIndex(c, j) < c.peakStackLen
    BY <1>5 DEF Get, Readable
  <2>2. peakStackIndex(c, j) \in Int /\ peakStackIndex(c, j) >= 0
    <3>1. CASE c.peakStackMap = NoMap
      BY <1>1, <1>5, <3>1 DEF Readable, peakStackIndex
    <3>2. CASE c.peakStackMap # NoMap
      <4>1. PICK m \in Nat, h \in Heights :
              h = c.height /\ c.peakStackMap = PeakStackMap(h, MMRIndex(m * LeavesOf(h)))
        BY <1>1, <3>2 DEF HasMap
      <4>2. j \in DOMAIN PeakStackMap(h, MMRIndex(m * LeavesOf(h)))
        BY <1>5, <3>2, <4>1 DEF Readable
      <4>3. PlaceOf(h, m, j, PeakStackMap(h, MMRIndex(m * LeavesOf(h)))[j])
        BY <4>2, StackMapIs
      <4>4. \E k \in 1 .. Len(PeaksOver(m * LeavesOf(h) + 1)) :
              PeakStackMap(h, MMRIndex(m * LeavesOf(h)))[j] = k - 1
        BY <4>3 DEF PlaceOf
      <4>5. PICK k \in Int : k >= 1 /\ PeakStackMap(h, MMRIndex(m * LeavesOf(h)))[j] = k - 1
        BY <4>4
      <4>6. peakStackIndex(c, j) = k - 1
        BY <3>2, <4>1, <4>5 DEF peakStackIndex
      <4> QED BY <4>5, <4>6
    <3> QED BY <3>1, <3>2
  <2> QED BY <1>1, <1>2, <2>1, <2>2
<1> QED BY <1>4, <1>5

(* A round leads to such a state. *)
LEMMA FillRoundType ==
  ASSUME NEW c, IsContext(c), HasMap(c), NEW at \in FillStates(c), NEW g \in Nat
  PROVE  FillRound(at, g) \in FillStates(c)
<1> DEFINE U == {u \in Seq(LogHashes) : c.peakStackLen < Len(u)}
<1>1. PICK d \in U, x \in Int, z \in BOOLEAN : at = At(c, d, x, z)
  BY DEF FillStates
<1>2. d \in Seq(LogHashes) /\ c.peakStackLen < Len(d)
  BY <1>1
<1>3. \A b \in U, y \in Int : At(c, b, y, TRUE) \in FillStates(c) /\ At(c, b, y, FALSE) \in FillStates(c)
  BY FillState
<1> HIDE DEF U
<1>4. CASE z = TRUE
  <2>1. at = At(c, d, x, TRUE)
    BY <1>1, <1>4
  <2>2. FillRound(At(c, d, x, TRUE), g) = At(c, d, x, TRUE)
    BY <1>2, FillRoundIs
  <2> QED BY <1>3, <2>1, <2>2
<1>5. CASE z = FALSE
  <2>1. at = At(c, d, x, FALSE)
    BY <1>1, <1>5
  <2>2. PICK e : e = Filled(c, d, x)
    OBVIOUS
  <2>3. /\ IsContext(e) /\ e.data = d /\ e.nextAncestor = x /\ e.firstIndex = c.firstIndex
        /\ e.peakStackLen = c.peakStackLen /\ e.peakStackMap = c.peakStackMap
        /\ e.height = c.height
    BY <1>2, <2>2, FilledIs
  <2>4. CASE IndexHeight(RangeCount(e)) <= g - 1
    <3>1. FillRound(At(c, d, x, FALSE), g) = At(c, d, x, FALSE)
      BY <1>2, <2>2, <2>4, FillRoundIs
    <3> QED BY <1>3, <2>1, <3>1
  <2>5. CASE ~ (IndexHeight(RangeCount(e)) <= g - 1) /\ ~Readable(e, RangeCount(e) - 2^g)
    <3>1. FillRound(At(c, d, x, FALSE), g) = At(c, d, x, TRUE)
      BY <1>2, <2>2, <2>5, FillRoundIs
    <3> QED BY <1>3, <2>1, <3>1
  <2>6. CASE ~ (IndexHeight(RangeCount(e)) <= g - 1) /\ Readable(e, RangeCount(e) - 2^g)
    <3>1. FillRound(At(c, d, x, FALSE), g) = At(c, Append(d, NodeOver(e, g)), NextAfter(e, g), FALSE)
      BY <1>2, <2>2, <2>6, FillRoundIs, ZenonT(60)
    <3>2. NextAfter(e, g) \in Int
      BY <2>3 DEF NextAfter
    <3>3. HasMap(e) /\ e.peakStackLen <= Len(e.data)
      <4>1. HasMap(e)
        BY <2>3 DEF HasMap
      <4>2. c.peakStackLen \in Nat /\ Len(d) \in Nat
        BY <1>2 DEF IsContext
      <4> QED BY <1>2, <2>3, <4>1, <4>2
    <3>4. PICK i \in Nat : i = RangeCount(e) /\ i - 1 >= e.firstIndex /\ i - 1 < i
      <4>1. c.peakStackLen \in Nat /\ Len(d) \in Nat /\ c.firstIndex \in Nat
        BY <1>2 DEF IsContext
      <4>2. RangeCount(e) = c.firstIndex + (Len(d) - c.peakStackLen)
        BY <2>3 DEF RangeCount, Count
      <4> QED BY <1>2, <2>3, <4>1, <4>2
    <3>5. Get(e, i - 1) \in LogHashes
      <4>1. Readable(e, i - 1)
        BY <3>4 DEF Readable
      <4>2. i - 1 \in Int
        OBVIOUS
      <4> QED BY <2>3, <3>3, <4>1, <4>2, ReadHash
    <3>6. Get(e, i - 2^g) \in LogHashes
      <4>1. i - 2^g \in Int
        BY PowType
      <4>2. Readable(e, i - 2^g)
        BY <2>6, <3>4
      <4> QED BY <2>3, <3>3, <4>1, <4>2, ReadHash
    <3>7. NodeOver(e, g) \in LogHashes
      <4>1. i + 1 \in Nat
        OBVIOUS
      <4>2. HashPosPair64(i + 1, Get(e, i - 2^g), Get(e, i - 1)) \in PairsOf(LogHashes)
        BY <3>5, <3>6, <4>1 DEF HashPosPair64, PairsOf
      <4> QED BY <3>4, <4>2, LogHashesAre DEF NodeOver
    <3>8. Append(d, NodeOver(e, g)) \in U
      <4>1. Append(d, NodeOver(e, g)) \in Seq(LogHashes) /\ Len(Append(d, NodeOver(e, g))) = Len(d) + 1
        BY <1>2, <3>7
      <4>2. c.peakStackLen < Len(d) + 1
        <5>1. c.peakStackLen \in Nat /\ Len(d) \in Nat
          BY <1>2 DEF IsContext
        <5> QED BY <1>2, <5>1
      <4> QED BY <4>1, <4>2 DEF U
    <3> QED BY <1>3, <2>1, <3>1, <3>2, <3>8
  <2> QED BY <2>4, <2>5, <2>6
<1> QED BY <1>1, <1>4, <1>5

(* The states after the rounds of BackFill *)
FillRun(r, c) ==
  LET N == BitLength(RangeCount(c)) + 1
  IN /\ N \in Nat
     /\ r \in [0 .. N -> FillStates(c)]
     /\ r[0] = [c |-> c, err |-> FALSE]
     /\ \A g \in 1 .. N : r[g] = FillRound(r[g - 1], g)
     /\ BackFill(c) = r[N]

(* BackFill runs through them. *)
LEMMA BackFillRun ==
  ASSUME NEW c, IsContext(c), HasMap(c), c.peakStackLen < Len(c.data)
  PROVE  \E r : FillRun(r, c)
<1> DEFINE N == BitLength(RangeCount(c)) + 1
           V == FillStates(c)
           E == Nat \ {0}
           base == [c |-> c, err |-> FALSE]
           seq == [g \in 1 .. N |-> g]
           Op == [p \in V \X E |-> FillRound(p[1], p[2])]
           Is(f) == f = [s \in SUBSET DOMAIN seq |->
                           IF s = {} THEN base
                           ELSE FillRound(f[s \ {Max(s)}], seq[Max(s)])]
           F == CHOOSE f : Is(f)
<1>1. N \in Nat
  <2>1. RangeCount(c) \in Nat
    <3>1. c.firstIndex \in Nat /\ c.peakStackLen \in Nat /\ Len(c.data) \in Nat
      BY DEF IsContext
    <3> QED BY <3>1 DEF RangeCount, Count
  <2>2. PICK w \in Nat : w = RangeCount(c)
    BY <2>1
  <2>3. PICK z \in Nat : z = BitLength(w)
    BY BitLengthType
  <2>4. z + 1 \in Nat
    OBVIOUS
  <2> QED BY <2>2, <2>3, <2>4
<1>2. BackFill(c) = F[DOMAIN seq]
  BY DEF BackFill, FoldLeft, MapThenFoldSet, FillRound
<1> HIDE DEF N
<1>3. /\ seq \in Seq(E) /\ Len(seq) = N /\ DOMAIN seq = 1 .. N
      /\ \A g \in 1 .. N : seq[g] = g
  BY <1>1
<1>4. \A s \in V, g \in E : FillRound(s, g) \in V
  BY FillRoundType
<1>5. Op \in [V \X E -> V] /\ base \in V /\ \A s \in V, g \in E : Op[<<s, g>>] = FillRound(s, g)
  <2>1. base \in V
    <3>1. c = Filled(c, c.data, c.nextAncestor) /\ c.data \in Seq(LogHashes) /\ c.nextAncestor \in Int
      BY FilledRecord DEF IsContext
    <3>2. base = At(c, c.data, c.nextAncestor, FALSE)
      BY <3>1 DEF At
    <3> QED BY <3>1, <3>2, FillState
  <2> HIDE DEF V, base, E
  <2> QED BY <1>4, <2>1
<1> HIDE DEF V, Op, E, seq
<1>6. \E f : Is(f)
  <2> HIDE DEF base
  <2>1. PICK f : FoldEquation(f, V, Op, base, seq)
    BY <1>3, <1>5, FoldSolution
  <2>2. /\ f \in [SUBSET DOMAIN seq -> V]
        /\ f = [s \in SUBSET DOMAIN seq |->
                 IF s = {} THEN base ELSE Op[<<f[s \ {Max(s)}], seq[Max(s)]>>]]
    BY <2>1 DEF FoldEquation
  <2>3. ASSUME NEW s \in SUBSET DOMAIN seq, s # {}
        PROVE  Op[<<f[s \ {Max(s)}], seq[Max(s)]>>] = FillRound(f[s \ {Max(s)}], seq[Max(s)])
    BY <1>3, <1>5, <2>2, <2>3, MaxOfIndices
  <2>4. Is(f)
    BY <2>2, <2>3
  <2> QED BY <2>4
<1>7. Is(F)
  <2> HIDE DEF Is
  <2> QED BY <1>6
<1> HIDE DEF F, base
<1>8. PICK r : FoldsTo(r, V, Op, base, seq, F[DOMAIN seq])
  <2>1. F[{}] = base
    BY <1>7
  <2>2. ASSUME NEW s \in SUBSET DOMAIN seq, s # {}, F[s \ {Max(s)}] \in V
        PROVE  F[s] = Op[<<F[s \ {Max(s)}], seq[Max(s)]>>]
    <3>1. seq[Max(s)] \in E
      BY <1>3, <2>2, MaxOfIndices
    <3> QED BY <1>5, <1>7, <2>2, <3>1
  <2> HIDE DEF Is
  <2> QED BY <1>3, <1>5, <2>1, <2>2, FoldRun
<1>9. ASSUME NEW g \in 1 .. N PROVE r[g] = FillRound(r[g - 1], g)
  <2>1. g - 1 \in 0 .. N /\ g \in E
    BY <1>1 DEF E
  <2>2. r \in [0 .. N -> V] /\ r[g] = Op[<<r[g - 1], g>>]
    BY <1>3, <1>8, <2>1 DEF FoldsTo
  <2> QED BY <1>5, <2>1, <2>2
<1>10. r \in [0 .. N -> V] /\ r[0] = base /\ r[N] = F[DOMAIN seq]
  BY <1>3, <1>8 DEF FoldsTo
<1>11. FillRun(r, c)
  BY <1>1, <1>2, <1>9, <1>10 DEF FillRun, N, V, base
<1> QED BY <1>11

(* A run of 2^g leaves ends in a run of 2^a.                               *)
EndsIn(m, a, k, g) == m * 2^a < (k + 1) * 2^g /\ (k + 1) * 2^g <= m * 2^a + 2^a

(* It begins in it too, or ends where it ends.                             *)
StartsIn(m, a, k, g) ==
  /\ g <= a => m * 2^a <= k * 2^g
  /\ g > a => (k + 1) * 2^g = m * 2^a + 2^a

(* A run that ends in another, and is as long, begins there or before. *)
LEMMA RunStart ==
  ASSUME NEW m \in Nat, NEW a \in Nat, NEW k \in Nat, NEW g \in Nat, EndsIn(m, a, k, g)
  PROVE  StartsIn(m, a, k, g)
<1>0. m * 2^a < (k + 1) * 2^g /\ (k + 1) * 2^g <= m * 2^a + 2^a
  BY DEF EndsIn
<1>1. 2^a \in Nat /\ 2^a > 0 /\ 2^g \in Nat /\ 2^g > 0
  BY PowType
<1>2. ASSUME NEW y \in Nat, y > 0, NEW p \in Nat, NEW q \in Nat
      PROVE  p * y < q * y <=> p < q
  <2>1. p < q => p * y < q * y
    <3> SUFFICES ASSUME p < q PROVE p * y < q * y
      OBVIOUS
    <3>1. q - p \in Nat /\ q - p > 0 /\ q = p + (q - p)
      OBVIOUS
    <3>2. ASSUME NEW z \in Nat, z > 0 PROVE p * y < (p + z) * y
      <4>1. (p + z) * y = p * y + z * y /\ z * y > 0 /\ p * y \in Nat /\ z * y \in Nat
        BY <1>2, <3>2
      <4> QED BY <4>1
    <3> QED BY <3>1, <3>2
  <2>2. q <= p => q * y <= p * y
    <3> SUFFICES ASSUME q <= p PROVE q * y <= p * y
      OBVIOUS
    <3>1. p - q \in Nat /\ p = q + (p - q)
      OBVIOUS
    <3>2. ASSUME NEW z \in Nat PROVE q * y <= (q + z) * y
      <4>1. (q + z) * y = q * y + z * y /\ z * y \in Nat /\ q * y \in Nat
        OBVIOUS
      <4> QED BY <4>1
    <3> QED BY <3>1, <3>2
  <2>3. p * y \in Nat /\ q * y \in Nat
    OBVIOUS
  <2> QED BY <2>1, <2>2, <2>3
<1>3. ASSUME g <= a PROVE m * 2^a <= k * 2^g
  <2>1. PICK y \in Nat, w \in Nat, z \in Nat : y = 2^g /\ y > 0 /\ w = 2^(a - g) /\ z = 2^a /\ z = y * w
    BY <1>1, <1>3, PowSplit
  <2>2. m * z = (m * w) * y /\ m * w \in Nat
    BY <2>1
  <2>3. (m * w) * y < (k + 1) * y
    BY <1>0, <2>1, <2>2
  <2>4. m * w < k + 1
    <3>1. PICK p \in Nat, q \in Nat : p = m * w /\ q = k + 1
      BY <2>2
    <3>2. p * y < q * y
      BY <2>3, <3>1
    <3> QED BY <1>2, <2>1, <3>1, <3>2
  <2>5. PICK p \in Nat : p = m * w /\ p <= k
    BY <2>2, <2>4
  <2>6. p * y <= k * y
    <3>1. ~ (k * y < p * y)
      BY <1>2, <2>1, <2>5
    <3>2. p * y \in Nat /\ k * y \in Nat
      OBVIOUS
    <3> QED BY <3>1, <3>2
  <2> QED BY <2>1, <2>2, <2>5, <2>6
<1>4. ASSUME g > a PROVE (k + 1) * 2^g = m * 2^a + 2^a
  <2>1. PICK y \in Nat, w \in Nat, z \in Nat : y = 2^a /\ y > 0 /\ w = 2^(g - a) /\ z = 2^g /\ z = y * w
    <3>1. a <= g
      BY <1>4
    <3> QED BY <1>1, <3>1, PowSplit
  <2>2. PICK p \in Nat : p = (k + 1) * w /\ (k + 1) * z = p * y
    <3>1. (k + 1) * w \in Nat /\ (k + 1) * (y * w) = ((k + 1) * w) * y
      OBVIOUS
    <3> QED BY <2>1, <3>1
  <2>3. m * y < p * y
    BY <1>0, <2>1, <2>2
  <2>4. m + 1 <= p
    BY <1>2, <2>1, <2>3
  <2>5. (m + 1) * y <= p * y
    <3>1. PICK q \in Nat : q = m + 1
      OBVIOUS
    <3>2. ~ (p * y < q * y)
      BY <1>2, <2>1, <2>4, <3>1
    <3>3. p * y \in Nat /\ q * y \in Nat
      OBVIOUS
    <3> QED BY <3>1, <3>2, <3>3
  <2>6. (m + 1) * y = m * y + y /\ m * y \in Nat /\ p * y \in Nat
    OBVIOUS
  <2>7. p * y <= m * y + y
    BY <1>0, <2>1, <2>2
  <2> QED BY <2>1, <2>2, <2>5, <2>6, <2>7
<1> QED BY <1>3, <1>4 DEF StartsIn

(* The leaves that a node over the last of them merges *)
Merges(m, u, k) == m = (k + 1) * 2^(u + 1) /\ m = (2 * k + 2) * 2^u

(* Below the height it merges to, a run is the second of a pair. *)
LEMMA Merging ==
  ASSUME NEW b \in Nat, NEW f \in Nat, NEW u \in Nat, u + 1 <= f,
         NEW m, m = (2 * b + 1) * 2^f
  PROVE  \E k \in Nat : Merges(m, u, k)
<1> DEFINE g == u + 1
<1>1. /\ f - g \in Nat /\ 2^(f - g) \in Nat /\ 2^(f - g) > 0 /\ 2^f = 2^g * 2^(f - g)
      /\ 2^g \in Nat /\ 2^u \in Nat /\ 2^g = 2 * 2^u
  <2>1. g \in Nat /\ g <= f /\ f - g \in Nat
    OBVIOUS
  <2> QED BY <2>1, PowSplit, PowType, PowStep
<1>2. PICK a \in Nat, w \in Nat, d \in Nat :
        a = 2^g /\ w = 2^(f - g) /\ d = 2^u /\ w > 0 /\ a = 2 * d /\ 2^f = a * w
  BY <1>1
<1>3. PICK k \in Nat : k + 1 = (2 * b + 1) * w
  <2>1. (2 * b + 1) * w = 2 * (b * w) + w /\ b * w \in Nat
    BY <1>2
  <2>2. (2 * b + 1) * w - 1 \in Nat /\ ((2 * b + 1) * w - 1) + 1 = (2 * b + 1) * w
    BY <1>2, <2>1
  <2> QED BY <2>2
<1>4. (2 * b + 1) * (a * w) = ((2 * b + 1) * w) * a
  OBVIOUS
<1>5. (2 * b + 1) * (a * w) = (k + 1) * a
  BY <1>3, <1>4
<1>6. (k + 1) * (2 * d) = (2 * k + 2) * d
  OBVIOUS
<1>7. Merges(m, u, k)
  BY <1>2, <1>5, <1>6 DEF Merges
<1> QED BY <1>7

(* The context has no map of the stack, or its own. *)
Fresh(c) == c.peakStackMap \in {NoMap, PeakStackMap(c.height, c.firstIndex)}

(* How many ancestors the first g rounds of the last leaf of a massif read *)
AncestorsRead(h, g) == IF g < h THEN 0 ELSE g - (h - 1)

(* Where the next ancestor is, when the last leaf is being added *)
AtAncestor(c, n, x, g) ==
  n + 1 = EndLeaf(c) /\ c.peakStackMap = NoMap =>
    x = c.peakStackLen - 1 - AncestorsRead(c.height, g)

(* After g rounds the leaf after n leaves and the g nodes it completes are *)
(* in the massif, or an ancestor was not found in a stale map.             *)
FilledTo(at, c, n, g) ==
  \E d \in Seq(LogHashes), x \in Int :
    \/ at = At(c, d, x, TRUE) /\ ~Fresh(c)
    \/ /\ at = At(c, d, x, FALSE)
       /\ HoldsLog(Filled(c, d, x), MMRIndex(n) + 1 + g)
       /\ AtAncestor(c, n, x, g)

(* c holds the log of n leaves and the next one, which completes f nodes.  *)
Filling(c, n, b, f) ==
  /\ IsContext(c) /\ Placed(c)
  /\ n \in Nat /\ n < MaxLeaves
  /\ FirstLeaf(c) <= n /\ n < EndLeaf(c)
  /\ b \in Nat /\ f \in Nat /\ n + 1 = (2 * b + 1) * 2^f

(* The parent of the nodes at j and i - 1 comes at i, over run k.           *)
ParentAt(i, j, u, k) ==
  /\ i \in Nat /\ i = NodePos(u, 2 * k + 1) /\ i + 1 = NodePos(u + 1, k)
  /\ i - 2^(u + 1) = j /\ j \in Nat /\ j < i
  /\ IndexHeight(i) = u + 1

(* Where the children of a node are *)
LEMMA ChildrenAt ==
  ASSUME NEW n \in Nat, NEW u \in Nat, NEW k \in Nat, n + 1 = (2 * k + 2) * 2^u,
         NEW i, i = MMRIndex(n) + 1 + u, NEW j, j = NodePos(u, 2 * k) - 1
  PROVE  ParentAt(i, j, u, k)
<1>1. 2 * k \in Nat /\ 2 * k + 1 \in Nat /\ 2^u \in Nat /\ 2^u > 0 /\ 2^(u + 1) = 2 * 2^u
      /\ MMRIndex(n) \in Nat
  BY PowType, PowStep, MMRIndexBounds
<1>2. NodePos(u, 2 * k + 1) = MMRIndex(n) + 1 + u
  <2>1. NodePos(u, 2 * k + 1) = MMRIndex((2 * k + 1 + 1) * 2^u - 1) + 1 + u
    BY <1>1, LastLeafPos
  <2>2. (2 * k + 1 + 1) * 2^u - 1 = n
    <3>1. 2 * k + 1 + 1 = 2 * k + 2
      OBVIOUS
    <3>2. n + 1 - 1 = n
      OBVIOUS
    <3> QED BY <3>1, <3>2
  <2> QED BY <2>1, <2>2
<1>3. /\ NodePos(u + 1, k) = NodePos(u, 2 * k + 1) + 1
      /\ NodePos(u, 2 * k) = NodePos(u, 2 * k + 1) - (2 * 2^u - 1)
  BY ParentPos
<1>4. NodePos(u, 2 * k) \in Nat /\ NodePos(u, 2 * k) > 0 /\ NodePos(u, 2 * k + 1) \in Nat
  BY <1>1, NodePosBounds
<1>5. PosHeight(NodePos(u, 2 * k + 1) + 1) = u + 1
  BY HeightAfter
<1>6. IndexHeight(MMRIndex(n) + 1 + u) = u + 1
  BY <1>2, <1>5 DEF IndexHeight
<1>7. ASSUME NEW p \in Nat, NEW q \in Nat, p > 0, NEW y \in Nat, y > 0, p = q - (2 * y - 1)
      PROVE  q - 2 * y = p - 1 /\ p - 1 \in Nat /\ p - 1 < q
  BY <1>7
<1>8. /\ NodePos(u, 2 * k + 1) - 2 * 2^u = NodePos(u, 2 * k) - 1
      /\ NodePos(u, 2 * k) - 1 \in Nat /\ NodePos(u, 2 * k) - 1 < NodePos(u, 2 * k + 1)
  BY <1>1, <1>3, <1>4, <1>7
<1>9. /\ MMRIndex(n) + 1 + u \in Nat
      /\ MMRIndex(n) + 1 + u = NodePos(u, 2 * k + 1)
      /\ MMRIndex(n) + 1 + u + 1 = NodePos(u + 1, k)
      /\ MMRIndex(n) + 1 + u - 2^(u + 1) = NodePos(u, 2 * k) - 1
      /\ NodePos(u, 2 * k) - 1 \in Nat
      /\ NodePos(u, 2 * k) - 1 < MMRIndex(n) + 1 + u
      /\ IndexHeight(MMRIndex(n) + 1 + u) = u + 1
  BY <1>1, <1>2, <1>3, <1>4, <1>6, <1>8
<1>10. i - 2^(u + 1) = j
  <2>1. PICK y : y = 2^(u + 1)
    OBVIOUS
  <2>2. MMRIndex(n) + 1 + u - y = NodePos(u, 2 * k) - 1
    BY <1>9, <2>1
  <2>3. i - y = j
    <3>1. PICK z \in Nat : z = MMRIndex(n) /\ y \in Nat
      BY <1>1, <2>1
    <3> QED BY <2>2, <3>1
  <2> QED BY <2>1, <2>3
<1> QED BY <1>9, <1>10, Zenon DEF ParentAt

(* The left child is read: it is in the massif or in its stack.            *)
LEMMA LeftRead ==
  ASSUME NEW c, NEW n, NEW b, NEW f, Filling(c, n, b, f),
         NEW x \in Int, c.nextAncestor = x,
         NEW u \in Nat, u + 1 <= f, AtAncestor(c, n, x, u),
         HoldsLog(c, MMRIndex(n) + 1 + u),
         NEW k \in Nat, n + 1 = (k + 1) * 2^(u + 1), n + 1 = (2 * k + 2) * 2^u,
         NEW j \in Nat, j = NodePos(u, 2 * k) - 1,
         NEW y, y = IF j < c.firstIndex /\ c.peakStackMap = NoMap THEN x - 1 ELSE x
  PROVE  /\ Fresh(c) => Readable(c, j)
         /\ Readable(c, j) => Get(c, j) = FullLog[j]
         /\ AtAncestor(c, n, y, u + 1)
<1> DEFINE h == c.height
           m == c.massifIndex
           a == FirstLeaf(c)
<1>1. /\ IsContext(c) /\ Placed(c) /\ n \in Nat /\ n < MaxLeaves
      /\ FirstLeaf(c) <= n /\ n < EndLeaf(c)
      /\ b \in Nat /\ f \in Nat /\ n + 1 = (2 * b + 1) * 2^f
  BY DEF Filling
<1>2. h \in Heights /\ m \in Nat /\ c.firstIndex \in Nat /\ c.peakStackLen \in Nat
  BY <1>1 DEF IsContext
<1>3. /\ h \in Nat /\ h - 1 \in Nat /\ a = m * 2^(h - 1) /\ a \in Nat
      /\ EndLeaf(c) = a + 2^(h - 1) /\ 2^(h - 1) \in Nat /\ EndLeaf(c) \in Nat
      /\ c.firstIndex = MMRIndex(a)
  <2>1. /\ h \in Nat /\ h - 1 \in Nat /\ LeavesOf(h) \in Nat
        /\ m * LeavesOf(h) \in Nat /\ (m + 1) * LeavesOf(h) \in Nat
        /\ (m + 1) * LeavesOf(h) = m * LeavesOf(h) + LeavesOf(h)
    BY <1>2, MassifRun
  <2> QED BY <1>1, <2>1 DEF FirstLeaf, EndLeaf, LeavesOf, Placed
<1>4. 2 * k \in Nat /\ 2 * k + 1 \in Nat /\ u + 1 \in Nat /\ MMRIndex(n) + 1 + u \in Nat
      /\ j < MMRIndex(n) + 1 + u
  <2>1. n \in Nat
    BY <1>1
  <2>2. PICK i : i = MMRIndex(n) + 1 + u
    OBVIOUS
  <2>3. ParentAt(i, j, u, k)
    BY <2>1, <2>2, ChildrenAt
  <2>4. i \in Nat /\ j < i
    BY <2>3 DEF ParentAt
  <2> QED BY <2>2, <2>4
<1>5. /\ u + 1 <= h - 1 => a <= k * 2^(u + 1)
      /\ u + 1 > h - 1 => n + 1 = EndLeaf(c)
  <2>1. m * 2^(h - 1) < (k + 1) * 2^(u + 1) /\ (k + 1) * 2^(u + 1) <= m * 2^(h - 1) + 2^(h - 1)
    <3>1. a < n + 1 /\ n + 1 <= a + 2^(h - 1)
      <4> HIDE DEF a, h
      <4> QED BY <1>1, <1>3 DEF a
    <3> HIDE DEF h, m
    <3> QED BY <1>3, <3>1
  <2>2. /\ u + 1 <= h - 1 => m * 2^(h - 1) <= k * 2^(u + 1)
        /\ u + 1 > h - 1 => (k + 1) * 2^(u + 1) = m * 2^(h - 1) + 2^(h - 1)
    <3>1. PICK l \in Nat, p \in Nat, q \in Nat : l = u + 1 /\ p = h - 1 /\ q = m
      BY <1>2, <1>3, <1>4
    <3> HIDE DEF h, m
    <3>2. EndsIn(q, p, k, l)
      BY <2>1, <3>1 DEF EndsIn
    <3>3. StartsIn(q, p, k, l)
      BY <3>2, RunStart
    <3> QED BY <3>1, <3>3 DEF StartsIn
  <2> HIDE DEF a, h, m
  <2> QED BY <1>3, <2>2
<1> HIDE DEF a, m
<1>6. CASE u + 1 <= h - 1
  <2>1. ~ ((2 * k + 1) * 2^u <= a)
    <3>1. PICK z \in Nat : z = 2^u /\ z > 0 /\ 2^(u + 1) = 2 * z
      BY PowType, PowStep
    <3>2. k * (2 * z) < (2 * k + 1) * z /\ k * (2 * z) \in Nat /\ (2 * k + 1) * z \in Nat
      <4>1. k * (2 * z) = 2 * (k * z) /\ (2 * k + 1) * z = 2 * (k * z) + z /\ k * z \in Nat
        OBVIOUS
      <4> QED BY <3>1, <4>1
    <3>3. a <= k * (2 * z)
      BY <1>5, <1>6, <3>1
    <3>4. ~ ((2 * k + 1) * z <= a)
      BY <1>3, <3>2, <3>3
    <3> QED BY <3>1, <3>4
  <2>2. ~ (NodePos(u, 2 * k) <= MMRIndex(a)) /\ NodePos(u, 2 * k) \in Nat
    BY <1>3, <1>4, <2>1, NodeInRange, NodePosBounds
  <2>3. c.firstIndex <= j
    BY <1>2, <1>3, <2>2
  <2>4. Readable(c, j) /\ Get(c, j) = FullLog[j]
    BY <1>1, <1>4, <2>3, NodeRead
  <2>5. y = x
    BY <1>2, <2>3
  <2>6. AncestorsRead(h, u) = 0 /\ AncestorsRead(h, u + 1) = 0
    BY <1>3, <1>6 DEF AncestorsRead
  <2>7. AtAncestor(c, n, y, u + 1)
    BY <2>5, <2>6 DEF AtAncestor, h
  <2> QED BY <2>4, <2>7
<1>7. CASE u + 1 > h - 1
  <2>1. PICK s \in Nat : /\ h - 1 + s = u /\ s < f - (h - 1) /\ h - 1 <= f
                         /\ AncestorsRead(h, u) = s /\ AncestorsRead(h, u + 1) = s + 1
    <3>1. u - (h - 1) \in Nat /\ h - 1 + (u - (h - 1)) = u /\ u - (h - 1) < f - (h - 1)
          /\ h - 1 <= f
      BY <1>1, <1>3, <1>7
    <3>2. AncestorsRead(h, u) = u - (h - 1)
      BY <1>3, <1>7 DEF AncestorsRead
    <3>3. AncestorsRead(h, u + 1) = u - (h - 1) + 1
      BY <1>3, <1>7 DEF AncestorsRead
    <3> QED BY <3>1, <3>2, <3>3
  <2>2. n + 1 = EndLeaf(c)
    BY <1>5, <1>7
  <2>3. c.peakStackMap = NoMap => c.nextAncestor = c.peakStackLen - 1 - s
    BY <2>1, <2>2 DEF AtAncestor, h
  <2>4. EndLeaf(c) = (2 * b + 1) * 2^f /\ (2 * k + 2) * 2^(c.height - 1 + s) = EndLeaf(c)
        /\ j = NodePos(c.height - 1 + s, 2 * k) - 1
        /\ c.height - 1 <= f /\ s < f - (c.height - 1)
    BY <1>1, <2>1, <2>2 DEF h
  <2>5. PICK q \in Nat : q = 2 * k
    BY <1>4
  <2>6. /\ j < c.firstIndex
        /\ Readable(c, j) => Get(c, j) = FullLog[j]
        /\ Fresh(c) => Readable(c, j)
    BY <1>1, <1>4, <2>3, <2>4, <2>5, AncestorRead DEF Fresh
  <2>7. AtAncestor(c, n, y, u + 1)
    <3>1. c.peakStackMap = NoMap => y = x - 1
      BY <2>6
    <3>2. c.peakStackMap = NoMap => y = c.peakStackLen - 1 - (s + 1)
      BY <1>2, <2>3, <3>1
    <3> QED BY <2>1, <3>2 DEF AtAncestor, h
  <2> QED BY <2>6, <2>7
<1> QED BY <1>3, <1>4, <1>6, <1>7

(* Every node of the log is a hash. *)
LEMMA LogHash ==
  ASSUME NEW n \in Nat, n <= MaxLeaves, NEW j \in Nat, j < MMRIndex(n)
  PROVE  FullLog[j] \in LogHashes
<1>1. /\ MaxLeaves \in Nat /\ MMRIndex(n) \in Nat /\ MMRIndex(MaxLeaves) \in Nat
      /\ MMRIndex(n) + (MaxLeaves - n) <= MMRIndex(MaxLeaves)
  BY MaxLeavesAssumption, MMRIndexBounds, MMRIndexMono
<1>2. j < MMRIndex(MaxLeaves)
  BY <1>1, MaxLeavesAssumption
<1>3. Len(Log) = MMRIndex(MaxLeaves) /\ Log \in Seq(LogHashes)
  BY LogIs
<1>4. FullLog = StoreOf(Log)
  BY DEF FullLog, Log, LogValues
<1>5. j \in 0 .. Len(Log) - 1 /\ j + 1 \in 1 .. Len(Log)
  BY <1>1, <1>2, <1>3
<1>6. FullLog[j] = Log[j + 1]
  BY <1>4, <1>5 DEF StoreOf
<1> QED BY <1>3, <1>5, <1>6

(* The size of the log after one more leaf *)
LEMMA NextSize ==
  ASSUME NEW n \in Nat, NEW b \in Nat, NEW f \in Nat, n + 1 = (2 * b + 1) * 2^f
  PROVE  /\ MMRIndex(n) \in Nat /\ MMRIndex(n + 1) \in Nat
         /\ MMRIndex(n + 1) = NodePos(f, 2 * b)
         /\ MMRIndex(n + 1) = MMRIndex(n) + 1 + f
<1>1. MMRIndex(n) \in Nat /\ MMRIndex(n + 1) \in Nat
  <2>1. n + 1 \in Nat
    OBVIOUS
  <2> QED BY <2>1, MMRIndexBounds
<1>2. MMRIndex((2 * b + 1) * 2^f) = NodePos(f, 2 * b)
  BY NextLeafPos
<1>3. NodePos(f, 2 * b) = MMRIndex(n) + 1 + f
  <2>1. PICK k \in Nat : k = 2 * b
    OBVIOUS
  <2>2. NodePos(f, k) = MMRIndex((k + 1) * 2^f - 1) + 1 + f
    BY LastLeafPos
  <2>3. (2 * b + 1) * 2^f - 1 = n
    <3>1. n + 1 - 1 = n
      OBVIOUS
    <3> QED BY <3>1
  <2> QED BY <2>1, <2>2, <2>3
<1> QED BY <1>1, <1>2, <1>3

(* A round that merges appends the next node of the log, or errs when the  *)
(* map is stale.                                                           *)
LEMMA MergeRound ==
  ASSUME NEW c, NEW n, NEW b, NEW f, Filling(c, n, b, f),
         NEW u \in Nat, u + 1 <= f, NEW at, FilledTo(at, c, n, u)
  PROVE  FilledTo(FillRound(at, u + 1), c, n, u + 1)
<1>1. /\ IsContext(c) /\ Placed(c) /\ n \in Nat /\ n < MaxLeaves
      /\ b \in Nat /\ f \in Nat /\ n + 1 = (2 * b + 1) * 2^f
      /\ FirstLeaf(c) <= n /\ n < EndLeaf(c)
  BY DEF Filling
<1>2. PICK d \in Seq(LogHashes), x \in Int :
        \/ at = At(c, d, x, TRUE) /\ ~Fresh(c)
        \/ /\ at = At(c, d, x, FALSE)
           /\ HoldsLog(Filled(c, d, x), MMRIndex(n) + 1 + u)
           /\ AtAncestor(c, n, x, u)
  BY DEF FilledTo
<1>3. PICK g \in Nat : g = u + 1
  OBVIOUS
<1>4. PICK e : e = Filled(c, d, x)
  OBVIOUS
<1>5. CASE at = At(c, d, x, TRUE) /\ ~Fresh(c)
  <2>1. FillRound(At(c, d, x, TRUE), g) = At(c, d, x, TRUE)
    BY <1>1, FillRoundIs
  <2>2. FilledTo(At(c, d, x, TRUE), c, n, g)
    BY <1>5 DEF FilledTo
  <2> QED BY <1>3, <1>5, <2>1, <2>2
<1>6. CASE /\ at = At(c, d, x, FALSE)
           /\ HoldsLog(e, MMRIndex(n) + 1 + u)
           /\ AtAncestor(c, n, x, u)
  <2>1. PICK k \in Nat : n + 1 = (k + 1) * 2^g /\ n + 1 = (2 * k + 2) * 2^u
    <3>1. \E k \in Nat : Merges(n + 1, u, k)
      BY <1>1, Merging
    <3> QED BY <1>3, <3>1 DEF Merges
  <2>2. PICK i \in Nat, j \in Nat :
          /\ i = MMRIndex(n) + 1 + u /\ j = NodePos(u, 2 * k) - 1
          /\ i = NodePos(u, 2 * k + 1) /\ i + 1 = NodePos(g, k)
          /\ i - 2^g = j /\ j < i /\ IndexHeight(i) = g
    <3>1. PICK i, j : i = MMRIndex(n) + 1 + u /\ j = NodePos(u, 2 * k) - 1
      OBVIOUS
    <3>2. ParentAt(i, j, u, k)
      <4>1. n \in Nat
        BY <1>1
      <4> QED BY <2>1, <3>1, <4>1, ChildrenAt
    <3>3. /\ i \in Nat /\ i = NodePos(u, 2 * k + 1) /\ i + 1 = NodePos(g, k)
          /\ i - 2^g = j /\ j \in Nat /\ j < i /\ IndexHeight(i) = g
      BY <1>3, <3>2, Zenon DEF ParentAt
    <3> QED BY <3>1, <3>3, Zenon
  <2>3. /\ IsContext(e) /\ e.data = d /\ e.nextAncestor = x /\ e.firstIndex = c.firstIndex
        /\ e.peakStackLen = c.peakStackLen /\ e.peakStackMap = c.peakStackMap
        /\ e.height = c.height
    <3>1. IsContext(c)
      BY <1>1
    <3>2. /\ IsContext(Filled(c, d, x))
          /\ Filled(c, d, x).data = d /\ Filled(c, d, x).nextAncestor = x
          /\ Filled(c, d, x).firstIndex = c.firstIndex
          /\ Filled(c, d, x).peakStackLen = c.peakStackLen
          /\ Filled(c, d, x).peakStackMap = c.peakStackMap
          /\ Filled(c, d, x).height = c.height
      BY <3>1, FilledIs
    <3> QED BY <1>4, <3>2
  <2>4. Placed(e) /\ FirstLeaf(e) = FirstLeaf(c) /\ EndLeaf(e) = EndLeaf(c)
    BY <1>1, <1>4, FilledPlaced
  <2>5. HoldsLog(e, i) /\ RangeCount(e) = i
    <3>1. HoldsLog(e, i)
      BY <1>6, <2>2
    <3> QED BY <2>3, <3>1, SizeOf
  <2>6. Filling(e, n, b, f)
    BY <1>1, <2>3, <2>4 DEF Filling
  <2>7. Fresh(e) <=> Fresh(c)
    BY <2>3 DEF Fresh
  <2>8. AtAncestor(e, n, x, u)
    BY <1>6, <2>3, <2>4 DEF AtAncestor
  <2>9. PICK y : y = IF j < e.firstIndex /\ e.peakStackMap = NoMap THEN x - 1 ELSE x
    OBVIOUS
  <2>10. /\ Fresh(e) => Readable(e, j)
         /\ Readable(e, j) => Get(e, j) = FullLog[j]
         /\ AtAncestor(e, n, y, u + 1)
    <3>1. HoldsLog(e, MMRIndex(n) + 1 + u) /\ n + 1 = (k + 1) * 2^(u + 1)
          /\ n + 1 = (2 * k + 2) * 2^u /\ j = NodePos(u, 2 * k) - 1
      BY <1>3, <1>6, <2>1, <2>2
    <3> QED BY <2>3, <2>6, <2>8, <2>9, <3>1, LeftRead
  <2>11. y \in Int /\ y = NextAfter(e, g) /\ AtAncestor(c, n, y, g)
    <3>1. y \in Int
      BY <2>9
    <3>2. y = NextAfter(e, g)
      BY <2>2, <2>3, <2>5, <2>9 DEF NextAfter
    <3>3. AtAncestor(c, n, y, g)
      BY <1>3, <2>3, <2>4, <2>10 DEF AtAncestor
    <3> QED BY <3>1, <3>2, <3>3
  <2>12. ~ (IndexHeight(i) <= g - 1)
    <3>1. ~ (g <= g - 1)
      OBVIOUS
    <3> QED BY <2>2, <3>1
  <2>13. CASE ~Readable(e, j)
    <3>1. FillRound(At(c, d, x, FALSE), g) = At(c, d, x, TRUE)
      <4>1. ~ (IndexHeight(RangeCount(e)) <= g - 1) /\ ~Readable(e, RangeCount(e) - 2^g)
        BY <2>2, <2>5, <2>12, <2>13
      <4> QED BY <1>1, <1>4, <4>1, FillRoundIs
    <3>2. ~Fresh(c)
      BY <2>7, <2>10, <2>13
    <3>3. FilledTo(At(c, d, x, TRUE), c, n, g)
      BY <3>2 DEF FilledTo
    <3> QED BY <1>3, <1>6, <3>1, <3>3
  <2>14. CASE Readable(e, j)
    <3>1. FillRound(At(c, d, x, FALSE), g) = At(c, Append(d, NodeOver(e, g)), y, FALSE)
      <4>1. ~ (IndexHeight(RangeCount(e)) <= g - 1) /\ Readable(e, RangeCount(e) - 2^g)
        BY <2>2, <2>5, <2>12, <2>14
      <4>2. FillRound(At(c, d, x, FALSE), g)
              = At(c, Append(d, NodeOver(e, g)), NextAfter(e, g), FALSE)
        <5>1. IsContext(c)
          BY <1>1
        <5>2. Appends(e, g)
          BY <4>1 DEF Appends
        <5>3. FillRound(At(c, d, x, FALSE), g) = WithNode(c, d, e, g)
          BY <1>4, <5>1, <5>2, RoundAppends
        <5> QED BY <5>3 DEF WithNode
      <4> QED BY <2>11, <4>2
    <3>2. i - 1 \in Nat /\ i - 1 < i /\ e.firstIndex <= i - 1
      <4>1. c.firstIndex = MMRIndex(FirstLeaf(c)) /\ FirstLeaf(c) \in Nat
        BY <1>1, MassifRun DEF Placed, FirstLeaf, IsContext
      <4>2. MMRIndex(FirstLeaf(c)) + (n - FirstLeaf(c)) <= MMRIndex(n)
            /\ MMRIndex(FirstLeaf(c)) \in Nat /\ MMRIndex(n) \in Nat
        BY <1>1, <4>1, MMRIndexMono, MMRIndexBounds
      <4>3. MMRIndex(FirstLeaf(c)) <= MMRIndex(n)
        BY <1>1, <4>1, <4>2
      <4>4. PICK p \in Nat, q \in Nat : p = MMRIndex(n) /\ q = e.firstIndex /\ q <= p /\ i = p + 1 + u
        BY <2>2, <2>3, <4>1, <4>2, <4>3
      <4>5. i - 1 = p + u /\ p + u \in Nat /\ p + u < i /\ q <= p + u
        BY <4>4
      <4> QED BY <4>4, <4>5
    <3>3. Get(e, i - 1) = FullLog[i - 1]
      BY <2>3, <2>5, <3>2, NodeRead
    <3>4. FullLog[i] = HashPosPair64(i + 1, FullLog[j], FullLog[i - 1])
      <4>1. (k + 1) * 2^(u + 1) <= MaxLeaves
        <5>1. n + 1 <= MaxLeaves
          BY <1>1, MaxLeavesAssumption
        <5> QED BY <1>3, <2>1, <5>1
      <4>2. FullLog[NodePos(u + 1, k) - 1]
              = HashPosPair64(NodePos(u + 1, k), FullLog[NodePos(u, 2 * k) - 1],
                              FullLog[NodePos(u, 2 * k + 1) - 1])
        BY <4>1, LogNodes
      <4>3. NodePos(u + 1, k) - 1 = i
        <5>1. i + 1 - 1 = i
          OBVIOUS
        <5> QED BY <1>3, <2>2, <5>1
      <4> QED BY <1>3, <2>2, <4>2, <4>3
    <3>5. NodeOver(e, g) = FullLog[i]
      BY <2>2, <2>5, <2>10, <2>14, <3>3, <3>4 DEF NodeOver
    <3>6. FullLog[i] \in LogHashes
      <4>1. MMRIndex(n + 1) = MMRIndex(n) + 1 + f /\ MMRIndex(n) \in Nat
        BY <1>1, NextSize
      <4>2. n + 1 \in Nat /\ n + 1 <= MaxLeaves /\ i < MMRIndex(n + 1)
        <5>1. n \in Nat /\ n < MaxLeaves /\ f \in Nat
          BY <1>1
        <5>2. n + 1 \in Nat /\ n + 1 <= MaxLeaves
          BY <5>1, MaxLeavesAssumption
        <5>3. PICK p \in Nat : p = MMRIndex(n)
          BY <4>1
        <5>4. i = p + 1 + u /\ MMRIndex(n + 1) = p + 1 + f
          BY <2>2, <4>1, <5>3
        <5>5. i < MMRIndex(n + 1)
          BY <5>1, <5>4
        <5> QED BY <5>2, <5>5
      <4> QED BY <4>2, LogHash
    <3>7. PICK v \in LogHashes : v = FullLog[i] /\ v = NodeOver(e, g)
      BY <3>5, <3>6
    <3>8. Append(d, v) \in Seq(LogHashes) /\ HoldsLog(Filled(e, Append(d, v), y), i + 1)
      BY <2>3, <2>4, <2>5, <2>11, <3>7, NodeAppended
    <3>9. HoldsLog(Filled(c, Append(d, v), y), MMRIndex(n) + 1 + g)
      <4>1. Filled(e, Append(d, v), y) = Filled(c, Append(d, v), y)
        BY <1>1, <1>4, FilledTwice
      <4>2. i + 1 = MMRIndex(n) + 1 + g
        <5>1. PICK m \in Nat : m = MMRIndex(n)
          BY <1>1, MMRIndexBounds
        <5>2. i = m + 1 + u
          BY <2>2, <5>1
        <5>3. i + 1 = m + 1 + g
          BY <1>3, <5>2
        <5> QED BY <5>1, <5>3
      <4> QED BY <3>8, <4>1, <4>2
    <3>10. FilledTo(At(c, Append(d, v), y, FALSE), c, n, g)
      BY <2>11, <3>8, <3>9 DEF FilledTo
    <3> QED BY <1>3, <1>6, <3>1, <3>7, <3>10
  <2> QED BY <2>13, <2>14
<1> QED BY <1>2, <1>4, <1>5, <1>6

(* The other rounds change nothing. *)
LEMMA StopRound ==
  ASSUME NEW c, NEW n, NEW b, NEW f, Filling(c, n, b, f),
         NEW g \in Nat, g > f, NEW at, FilledTo(at, c, n, f)
  PROVE  FillRound(at, g) = at
<1>1. /\ IsContext(c) /\ n \in Nat /\ b \in Nat /\ f \in Nat /\ n + 1 = (2 * b + 1) * 2^f
  BY DEF Filling
<1>2. PICK d \in Seq(LogHashes), x \in Int :
        \/ at = At(c, d, x, TRUE) /\ ~Fresh(c)
        \/ /\ at = At(c, d, x, FALSE)
           /\ HoldsLog(Filled(c, d, x), MMRIndex(n) + 1 + f)
           /\ AtAncestor(c, n, x, f)
  BY DEF FilledTo
<1>3. CASE at = At(c, d, x, TRUE)
  <2>1. FillRound(At(c, d, x, TRUE), g) = At(c, d, x, TRUE)
    BY <1>1, FillRoundIs
  <2> QED BY <1>3, <2>1
<1>4. CASE at = At(c, d, x, FALSE) /\ HoldsLog(Filled(c, d, x), MMRIndex(n) + 1 + f)
  <2>1. PICK e : e = Filled(c, d, x)
    OBVIOUS
  <2>2. IsContext(e)
    BY <1>1, <2>1, FilledIs
  <2>3. PICK i \in Nat : i = MMRIndex(n) + 1 + f /\ i = NodePos(f, 2 * b)
    BY <1>1, NextSize
  <2>4. RangeCount(e) = i
    BY <1>4, <2>1, <2>2, <2>3, SizeOf
  <2>5. IndexHeight(i) = 0
    BY <1>1, <2>3, HeightAfter DEF IndexHeight
  <2>6. IndexHeight(RangeCount(e)) <= g - 1
    <3>1. 0 <= g - 1
      BY <1>1
    <3> QED BY <2>4, <2>5, <3>1
  <2>7. FillRound(At(c, d, x, FALSE), g) = At(c, d, x, FALSE)
    BY <1>1, <2>1, <2>6, FillRoundIs
  <2> QED BY <1>4, <2>7
<1> QED BY <1>2, <1>3, <1>4

(* BackFill appends all the nodes that the leaf completes, or errs on a    *)
(* stale map.                                                              *)
LEMMA BackFillLog ==
  ASSUME NEW c, NEW n, NEW b, NEW f, Filling(c, n, b, f),
         HoldsLog(c, MMRIndex(n) + 1), AtAncestor(c, n, c.nextAncestor, 0)
  PROVE  FilledTo(BackFill(c), c, n, f)
<1> DEFINE N == BitLength(RangeCount(c)) + 1
<1>1. /\ IsContext(c) /\ Placed(c) /\ n \in Nat /\ n < MaxLeaves
      /\ b \in Nat /\ f \in Nat /\ n + 1 = (2 * b + 1) * 2^f
      /\ FirstLeaf(c) <= n /\ n < EndLeaf(c)
  BY DEF Filling
<1>2. /\ c.data \in Seq(LogHashes) /\ Len(c.data) \in Nat /\ c.nextAncestor \in Int
      /\ c.firstIndex \in Nat /\ c.peakStackLen \in Nat /\ HasMap(c)
      /\ MMRIndex(n) \in Nat
  BY <1>1, MMRIndexBounds DEF IsContext, Placed
<1>3. PICK i \in Nat : i = MMRIndex(n) + 1 /\ RangeCount(c) = i /\ i # 0
  <2>1. PICK i \in Nat : i = MMRIndex(n) + 1 /\ i # 0
    BY <1>2
  <2>2. RangeCount(c) = i
    BY <1>1, <2>1, SizeOf
  <2> QED BY <2>1, <2>2
<1>4. c.peakStackLen < Len(c.data)
  <2>1. FirstLeaf(c) \in Nat /\ c.firstIndex = MMRIndex(FirstLeaf(c))
    BY <1>1, MassifRun DEF Placed, FirstLeaf, IsContext
  <2>2. MMRIndex(FirstLeaf(c)) + (n - FirstLeaf(c)) <= MMRIndex(n)
    BY <1>1, <2>1, MMRIndexMono
  <2>3. c.firstIndex < i
    BY <1>1, <1>2, <1>3, <2>1, <2>2
  <2>4. Len(c.data) = c.peakStackLen + (i - c.firstIndex)
    BY <1>3 DEF HoldsLog
  <2> QED BY <1>2, <2>3, <2>4
<1>5. PICK r : FillRun(r, c)
  BY <1>1, <1>2, <1>4, BackFillRun
<1>6. /\ N \in Nat /\ r[0] = [c |-> c, err |-> FALSE]
      /\ \A g \in 1 .. N : r[g] = FillRound(r[g - 1], g)
      /\ BackFill(c) = r[N]
  BY <1>5 DEF FillRun
<1>7. f <= N
  <2>1. PICK k \in Nat : N = k + 2 /\ 2^k <= i /\ i < 2 * 2^k
    <3>1. PICK k \in Nat : BitLength(i) = k + 1 /\ 2^k <= i /\ i < 2 * 2^k
      BY <1>3, BitLengthBounds
    <3> QED BY <1>3, <3>1
  <2>2. 2^f <= n + 1
    <3>1. ASSUME NEW y \in Nat, NEW d \in Nat PROVE y <= (2 * d + 1) * y
      <4>1. (2 * d + 1) * y = 2 * (d * y) + y /\ d * y \in Nat
        OBVIOUS
      <4> QED BY <4>1
    <3>2. 2^f <= (2 * b + 1) * 2^f
      BY <1>1, <3>1, PowType
    <3> QED BY <1>1, <3>2
  <2>3. n <= MMRIndex(n)
    BY <1>1, MMRIndexBounds
  <2>4. k + 1 \in Nat /\ 2^(k + 1) = 2 * 2^k /\ 2^k \in Nat /\ 2^f \in Nat
    BY <1>1, PowStep, PowType
  <2>5. 2^f < 2^(k + 1)
    BY <1>1, <1>2, <1>3, <2>1, <2>2, <2>3, <2>4
  <2>6. f < k + 1
    BY <1>1, <2>4, <2>5, PowMono
  <2> QED BY <1>1, <2>1, <2>6
<1> HIDE DEF N
<1> DEFINE S == {g \in Nat : FilledTo(r[g], c, n, IF g <= f THEN g ELSE f)}
<1>8. 0 \in S
  <2>1. c = Filled(c, c.data, c.nextAncestor)
    BY <1>1, FilledRecord
  <2>2. r[0] = At(c, c.data, c.nextAncestor, FALSE)
    BY <1>6, <2>1 DEF At
  <2>3. PICK z \in Nat : z = 0
    OBVIOUS
  <2>4. MMRIndex(n) + 1 + z = MMRIndex(n) + 1
    BY <1>2, <2>3
  <2>5. HoldsLog(Filled(c, c.data, c.nextAncestor), MMRIndex(n) + 1 + z)
        /\ AtAncestor(c, n, c.nextAncestor, z)
    BY <2>1, <2>3, <2>4
  <2>6. FilledTo(r[0], c, n, z)
    BY <1>2, <2>2, <2>5 DEF FilledTo
  <2>7. (IF z <= f THEN z ELSE f) = z
    BY <1>1, <2>3
  <2> QED BY <2>3, <2>6, <2>7
<1>9. \A g \in 1 .. N : g - 1 \in S => g \in S
  <2> SUFFICES ASSUME NEW g \in 1 .. N, g - 1 \in S PROVE g \in S
    OBVIOUS
  <2>1. PICK u \in Nat : u = g - 1 /\ g = u + 1 /\ g \in Nat
    BY <1>6
  <2>2. r[g] = FillRound(r[u], g)
    BY <1>6, <2>1
  <2>3. FilledTo(r[u], c, n, IF u <= f THEN u ELSE f)
    BY <2>1
  <2> HIDE DEF S
  <2>4. CASE g <= f
    <3>1. (IF u <= f THEN u ELSE f) = u /\ u + 1 <= f
      BY <1>1, <2>1, <2>4
    <3>2. FilledTo(FillRound(r[u], u + 1), c, n, u + 1)
      BY <2>3, <3>1, MergeRound
    <3>3. FilledTo(r[g], c, n, IF g <= f THEN g ELSE f)
      BY <2>1, <2>2, <2>4, <3>2
    <3> QED BY <2>1, <3>3 DEF S
  <2>5. CASE ~ (g <= f)
    <3>1. (IF u <= f THEN u ELSE f) = f /\ g > f
      BY <1>1, <2>1, <2>5
    <3>2. FilledTo(r[u], c, n, f)
      BY <2>3, <3>1
    <3>3. FillRound(r[u], g) = r[u]
      BY <2>1, <3>1, <3>2, StopRound
    <3>4. FilledTo(r[g], c, n, IF g <= f THEN g ELSE f)
      BY <2>2, <2>5, <3>2, <3>3
    <3> QED BY <2>1, <3>4 DEF S
  <2> QED BY <2>4, <2>5
<1> HIDE DEF S
<1>10. N \in S
  <2>1. \A g \in 0 .. N : g \in S
    BY <1>6, <1>8, <1>9, UpTo
  <2> QED BY <1>6, <2>1
<1>11. FilledTo(r[N], c, n, IF N <= f THEN N ELSE f)
  BY <1>10 DEF S
<1>12. (IF N <= f THEN N ELSE f) = f
  BY <1>1, <1>6, <1>7
<1> QED BY <1>6, <1>11, <1>12

-----------------------------------------------------------------------------
(* What a context is when the log has n leaves *)

(* The index of s entries when the massif begins at leaf a of the log's n  *)
Entries(s, a, n) == [k \in 0 .. s - 1 |-> IF k < n - a THEN a + k + 1 ELSE 0]

Indexed(c, n) == c.trie = Entries(IndexLen(c.height), FirstLeaf(c), n)

(* The invariant, for the context c of a log with n leaves *)
Holding(c, n) ==
  /\ IsContext(c) /\ Placed(c)
  /\ n \in Nat /\ n <= MaxLeaves
  /\ FirstLeaf(c) <= n /\ n <= EndLeaf(c)
  /\ HoldsLog(c, MMRIndex(n))
  /\ c.lastID = n
  /\ Indexed(c, n)

(* The sizes of such a context, and when it is full *)
LEMMA HoldingSizes ==
  ASSUME NEW c, NEW n, Holding(c, n)
  PROVE  /\ c.height \in Heights /\ c.massifIndex \in Nat /\ n \in Nat
         /\ FirstLeaf(c) \in Nat /\ EndLeaf(c) \in Nat
         /\ EndLeaf(c) = FirstLeaf(c) + LeavesOf(c.height)
         /\ LeavesOf(c.height) \in Nat /\ LeavesOf(c.height) >= 2
         /\ IndexLen(c.height) = 2 * LeavesOf(c.height)
         /\ MMRIndex(n) \in Nat /\ c.firstIndex \in Nat
         /\ c.firstIndex = MMRIndex(FirstLeaf(c)) /\ c.firstIndex <= MMRIndex(n)
         /\ RangeCount(c) = MMRIndex(n) /\ Count(c) = MMRIndex(n) - c.firstIndex
         /\ MassifLeafCount(c) = n - FirstLeaf(c)
         /\ MassifFull(c) <=> n = EndLeaf(c)
         /\ ~HasSpace(c) <=> n = EndLeaf(c)
         /\ RangeCount(c) = c.firstIndex + TreeLastLeafIndex(c.height) <=> n + 1 = EndLeaf(c)
<1>1. /\ IsContext(c) /\ Placed(c) /\ n \in Nat /\ FirstLeaf(c) <= n /\ n <= EndLeaf(c)
      /\ HoldsLog(c, MMRIndex(n))
  BY DEF Holding
<1>2. PICK h \in Heights, m \in Nat : h = c.height /\ m = c.massifIndex /\ c.firstIndex \in Nat
  BY <1>1 DEF IsContext
<1>3. FirstLeaf(c) = m * LeavesOf(h) /\ EndLeaf(c) = (m + 1) * LeavesOf(h)
  BY <1>2 DEF FirstLeaf, EndLeaf
<1>4. /\ FirstLeaf(c) \in Nat /\ EndLeaf(c) \in Nat
      /\ EndLeaf(c) = FirstLeaf(c) + LeavesOf(h)
      /\ LeavesOf(h) \in Nat /\ LeavesOf(h) >= 2 /\ IndexLen(h) = 2 * LeavesOf(h)
  BY <1>3, MassifRun
<1>5. MMRIndex(n) \in Nat /\ MMRIndex(FirstLeaf(c)) \in Nat /\ c.firstIndex = MMRIndex(FirstLeaf(c))
  BY <1>1, <1>4, MMRIndexBounds DEF Placed
<1>6. RangeCount(c) = MMRIndex(n) /\ Count(c) = MMRIndex(n) - c.firstIndex
  BY <1>1, <1>5, SizeOf
<1>7. MassifLeafCount(c) = n - FirstLeaf(c)
  BY <1>1, <1>4, <1>5, <1>6, LeafCountOf DEF MassifLeafCount
<1>8. /\ MMRIndex(FirstLeaf(c)) <= MMRIndex(n)
      /\ MMRIndex(n) > MMRIndex(FirstLeaf(c)) + TreeLastLeafIndex(h) <=> n = EndLeaf(c)
      /\ ~ (MMRIndex(n) - MMRIndex(FirstLeaf(c)) < TreeCount(h)) <=> n = EndLeaf(c)
      /\ MMRIndex(n) = MMRIndex(FirstLeaf(c)) + TreeLastLeafIndex(h) <=> n + 1 = EndLeaf(c)
  <2>1. m * LeavesOf(h) <= n /\ n <= (m + 1) * LeavesOf(h)
    BY <1>1, <1>3
  <2>2. /\ MMRIndex(m * LeavesOf(h)) <= MMRIndex(n)
        /\ MMRIndex(n) > MMRIndex(m * LeavesOf(h)) + TreeLastLeafIndex(h)
              <=> n = (m + 1) * LeavesOf(h)
        /\ ~ (MMRIndex(n) - MMRIndex(m * LeavesOf(h)) < TreeCount(h))
              <=> n = (m + 1) * LeavesOf(h)
        /\ MMRIndex(n) = MMRIndex(m * LeavesOf(h)) + TreeLastLeafIndex(h)
              <=> n + 1 = (m + 1) * LeavesOf(h)
    BY <1>1, <2>1, FullAt
  <2> QED BY <1>3, <2>2, Zenon
<1>9. MassifFull(c) <=> n = EndLeaf(c)
  BY <1>2, <1>5, <1>6, <1>8 DEF MassifFull
<1>10. ~HasSpace(c) <=> n = EndLeaf(c)
  BY <1>2, <1>5, <1>6, <1>8 DEF HasSpace
<1>11. RangeCount(c) = c.firstIndex + TreeLastLeafIndex(c.height) <=> n + 1 = EndLeaf(c)
  BY <1>2, <1>5, <1>6, <1>8
<1> QED BY <1>1, <1>2, <1>4, <1>5, <1>6, <1>7, <1>8, <1>9, <1>10, <1>11

-----------------------------------------------------------------------------
(* Adding a leaf *)

(* The context that AddLeaf gives to BackFill *)
Prepared(c, n) ==
  [SetNextAncestor(c) EXCEPT !.trie[NextLeafIndex(c)] = IdTimestamp(n),
                             !.lastID = IdTimestamp(n),
                             !.data = Append(@, LeafValue(n))]

(* It has the leaf, its entry and its id. *)
LEMMA PreparedIs ==
  ASSUME NEW c, NEW n, Holding(c, n)
  PROVE  /\ IsContext(Prepared(c, n))
         /\ Prepared(c, n).data = Append(c.data, LeafValue(n))
         /\ Prepared(c, n).nextAncestor
              = IF n + 1 = EndLeaf(c) THEN c.peakStackLen - 1 ELSE c.nextAncestor
         /\ Prepared(c, n).height = c.height /\ Prepared(c, n).massifIndex = c.massifIndex
         /\ Prepared(c, n).firstIndex = c.firstIndex
         /\ Prepared(c, n).peakStackLen = c.peakStackLen
         /\ Prepared(c, n).peakStackMap = c.peakStackMap
         /\ Prepared(c, n).lastID = n + 1
         /\ Prepared(c, n).trie = [c.trie EXCEPT ![n - FirstLeaf(c)] = n + 1]
<1>1. /\ IsContext(c) /\ n \in Nat /\ MassifLeafCount(c) = n - FirstLeaf(c)
      /\ RangeCount(c) = c.firstIndex + TreeLastLeafIndex(c.height) <=> n + 1 = EndLeaf(c)
  BY HoldingSizes DEF Holding
<1>2. /\ c.data \in Seq(LogHashes) /\ c.nextAncestor \in Int /\ c.peakStackLen \in Nat
      /\ c.height \in Heights /\ c.massifIndex \in Nat /\ c.firstIndex \in Nat
  BY <1>1 DEF IsContext
<1>3. PICK z \in Int : z = IF n + 1 = EndLeaf(c) THEN c.peakStackLen - 1 ELSE c.nextAncestor
  BY <1>2
<1>4. SetNextAncestor(c) = Filled(c, c.data, z)
  <2>1. CASE n + 1 = EndLeaf(c)
    <3>1. SetNextAncestor(c) = WithNext(c, z)
      BY <1>1, <1>3, <2>1 DEF SetNextAncestor, WithNext
    <3> QED BY <1>1, <3>1, FilledRecord
  <2>2. CASE n + 1 # EndLeaf(c)
    <3>1. SetNextAncestor(c) = c /\ z = c.nextAncestor
      BY <1>1, <1>3, <2>2 DEF SetNextAncestor
    <3> QED BY <1>1, <3>1, FilledRecord
  <2> QED BY <2>1, <2>2
<1>5. PICK k, v, w : k = NextLeafIndex(c) /\ v = IdTimestamp(n) /\ w = LeafValue(n)
  OBVIOUS
<1>6. PICK h, m, a, l, s, t, u, p :
        /\ h = c.height /\ m = c.massifIndex /\ a = c.firstIndex /\ l = c.lastID
        /\ s = c.peakStackLen /\ t = c.trie /\ u = c.data /\ p = c.peakStackMap
  OBVIOUS
<1>7. SetNextAncestor(c)
        = [height |-> h, massifIndex |-> m, firstIndex |-> a, lastID |-> l,
           peakStackLen |-> s, trie |-> t, data |-> u, nextAncestor |-> z,
           peakStackMap |-> p]
  BY <1>4, <1>6 DEF Filled
<1>8. PICK e : e = SetNextAncestor(c)
  OBVIOUS
<1>9. [e EXCEPT !.trie[k] = v, !.lastID = v, !.data = Append(@, w)]
        = [height |-> h, massifIndex |-> m, firstIndex |-> a, lastID |-> v,
           peakStackLen |-> s, trie |-> [t EXCEPT ![k] = v], data |-> Append(u, w),
           nextAncestor |-> z, peakStackMap |-> p]
  <2>1. e.trie = t /\ e.data = u
    BY <1>7, <1>8
  <2>2. PICK t1, u1 : t1 = [t EXCEPT ![k] = v] /\ u1 = Append(u, w)
    OBVIOUS
  <2>3. PICK e1 : e1 = [e EXCEPT !.trie = t1]
    OBVIOUS
  <2>4. e1 = [height |-> h, massifIndex |-> m, firstIndex |-> a, lastID |-> l,
              peakStackLen |-> s, trie |-> t1, data |-> u, nextAncestor |-> z,
              peakStackMap |-> p]
    BY <1>7, <1>8, <2>3
  <2>5. PICK e2 : e2 = [e1 EXCEPT !.lastID = v]
    OBVIOUS
  <2>6. e2 = [height |-> h, massifIndex |-> m, firstIndex |-> a, lastID |-> v,
              peakStackLen |-> s, trie |-> t1, data |-> u, nextAncestor |-> z,
              peakStackMap |-> p]
    BY <2>4, <2>5
  <2>7. PICK e3 : e3 = [e2 EXCEPT !.data = u1]
    OBVIOUS
  <2>8. e3 = [height |-> h, massifIndex |-> m, firstIndex |-> a, lastID |-> v,
              peakStackLen |-> s, trie |-> t1, data |-> u1, nextAncestor |-> z,
              peakStackMap |-> p]
    BY <2>6, <2>7
  <2>9. [e EXCEPT !.trie[k] = v, !.lastID = v, !.data = Append(@, w)] = e3
    BY <2>1, <2>2, <2>3, <2>5, <2>7, Zenon
  <2> QED BY <2>2, <2>8, <2>9, Zenon
<1>10. Prepared(c, n) = [e EXCEPT !.trie[k] = v, !.lastID = v, !.data = Append(@, w)]
  BY <1>5, <1>8 DEF Prepared
<1>11. Append(u, w) \in Seq(LogHashes)
  <2>1. w \in LogHashes
    BY <1>1, <1>5, LogHashesAre
  <2> QED BY <1>2, <1>6, <2>1
<1>12. v = n + 1 /\ k = n - FirstLeaf(c)
  BY <1>1, <1>5 DEF IdTimestamp, NextLeafIndex
<1>13. PICK q : q = Prepared(c, n)
  OBVIOUS
<1>14. /\ q.data = Append(u, w) /\ q.nextAncestor = z /\ q.height = h /\ q.massifIndex = m
       /\ q.firstIndex = a /\ q.peakStackLen = s /\ q.peakStackMap = p /\ q.lastID = v
       /\ q.trie = [t EXCEPT ![k] = v]
  BY <1>9, <1>10, <1>13
<1>15. q = [height |-> q.height, massifIndex |-> q.massifIndex, firstIndex |-> q.firstIndex,
            lastID |-> q.lastID, peakStackLen |-> q.peakStackLen, trie |-> q.trie,
            data |-> q.data, nextAncestor |-> q.nextAncestor, peakStackMap |-> q.peakStackMap]
  BY <1>9, <1>10, <1>13, <1>14
<1>16. IsContext(q)
  <2>1. /\ q.data \in Seq(LogHashes) /\ q.nextAncestor \in Int /\ q.height \in Heights
        /\ q.massifIndex \in Nat /\ q.firstIndex \in Nat /\ q.peakStackLen \in Nat
    BY <1>2, <1>6, <1>11, <1>14
  <2> QED BY <1>15, <2>1 DEF IsContext
<1> QED BY <1>3, <1>5, <1>6, <1>12, <1>13, <1>14, <1>16

(* Contexts with the same header and data hold the same. *)
LEMMA SameHolds ==
  ASSUME NEW c, NEW e,
         e.height = c.height, e.massifIndex = c.massifIndex, e.firstIndex = c.firstIndex,
         e.peakStackLen = c.peakStackLen, e.peakStackMap = c.peakStackMap
  PROVE  /\ FirstLeaf(e) = FirstLeaf(c) /\ EndLeaf(e) = EndLeaf(c)
         /\ Placed(c) => Placed(e)
         /\ Fresh(e) <=> Fresh(c)
         /\ \A size : e.data = c.data /\ HoldsLog(c, size) => HoldsLog(e, size)
<1>1. FirstLeaf(e) = FirstLeaf(c) /\ EndLeaf(e) = EndLeaf(c)
  BY DEF FirstLeaf, EndLeaf
<1>2. HasMap(c) => HasMap(e)
  BY DEF HasMap
<1>3. Placed(c) => Placed(e)
  BY <1>1, <1>2 DEF Placed
<1>4. Fresh(e) <=> Fresh(c)
  BY DEF Fresh
<1>5. ASSUME NEW size, e.data = c.data, HoldsLog(c, size) PROVE HoldsLog(e, size)
  BY <1>1, <1>5, Zenon DEF HoldsLog
<1> QED BY <1>1, <1>3, <1>4, <1>5

(* The entry of the next leaf is the first free one. *)
WithEntry(s, a, n) == [Entries(s, a, n) EXCEPT ![n - a] = n + 1]

(* With it the index has one leaf more. *)
LEMMA NextEntry ==
  ASSUME NEW s \in Nat, NEW a \in Nat, NEW n \in Nat, a <= n, n - a < s
  PROVE  WithEntry(s, a, n) = Entries(s, a, n + 1)
<1> DEFINE t == Entries(s, a, n)
           w == Entries(s, a, n + 1)
           u == WithEntry(s, a, n)
<1>1. PICK x \in Nat : x = n - a /\ n = a + x /\ x \in 0 .. s - 1
  OBVIOUS
<1>2. u = [k \in 0 .. s - 1 |-> IF k = x THEN n + 1 ELSE t[k]]
  BY <1>1 DEF Entries, WithEntry
<1>3. \A k \in 0 .. s - 1 : u[k] = w[k]
  <2> SUFFICES ASSUME NEW k \in 0 .. s - 1 PROVE u[k] = w[k]
    OBVIOUS
  <2>1. u[k] = IF k = x THEN n + 1 ELSE IF k < n - a THEN a + k + 1 ELSE 0
    BY <1>2 DEF Entries
  <2>2. w[k] = IF k < (n + 1) - a THEN a + k + 1 ELSE 0
    BY DEF Entries
  <2> QED BY <1>1, <2>1, <2>2
<1>4. w = [k \in 0 .. s - 1 |-> w[k]] /\ u = [k \in 0 .. s - 1 |-> u[k]]
  BY <1>2 DEF Entries
<1> HIDE DEF u, w
<1>5. u = w
  BY <1>3, <1>4
<1> QED BY <1>5 DEF u, w

(* A leaf is added with all the nodes it completes, or refused because of  *)
(* a stale map.                                                            *)
LEMMA LeafAdded ==
  ASSUME NEW c, NEW n, Holding(c, n), n < MaxLeaves, ~MassifFull(c)
  PROVE  /\ BackFill(Prepared(c, n)).err => ~Fresh(c)
         /\ ~BackFill(Prepared(c, n)).err => Holding(BackFill(Prepared(c, n)).c, n + 1)
<1>1. /\ IsContext(c) /\ Placed(c) /\ n \in Nat /\ FirstLeaf(c) <= n /\ n < EndLeaf(c)
      /\ HoldsLog(c, MMRIndex(n)) /\ Indexed(c, n)
      /\ FirstLeaf(c) \in Nat /\ EndLeaf(c) \in Nat /\ MMRIndex(n) \in Nat
      /\ EndLeaf(c) = FirstLeaf(c) + LeavesOf(c.height) /\ LeavesOf(c.height) \in Nat
      /\ IndexLen(c.height) = 2 * LeavesOf(c.height)
  BY HoldingSizes DEF Holding
<1>2. PICK b \in Nat, f \in Nat : n + 1 = (2 * b + 1) * 2^f
  <2>1. n + 1 \in Nat /\ n + 1 # 0
    BY <1>1
  <2>2. \E h, j \in Nat : n + 1 = (2 * j + 1) * 2^h
    BY <2>1, OddRuns
  <2> QED BY <2>2
<1>3. PICK p : p = Prepared(c, n)
  OBVIOUS
<1>4. /\ IsContext(p) /\ p.data = Append(c.data, LeafValue(n))
      /\ p.nextAncestor = IF n + 1 = EndLeaf(c) THEN c.peakStackLen - 1 ELSE c.nextAncestor
      /\ p.height = c.height /\ p.massifIndex = c.massifIndex
      /\ p.firstIndex = c.firstIndex
      /\ p.peakStackLen = c.peakStackLen
      /\ p.peakStackMap = c.peakStackMap
      /\ p.lastID = n + 1
      /\ p.trie = [c.trie EXCEPT ![n - FirstLeaf(c)] = n + 1]
  BY <1>3, PreparedIs, ZenonT(60)
<1>5. /\ FirstLeaf(p) = FirstLeaf(c) /\ EndLeaf(p) = EndLeaf(c)
      /\ Placed(p) /\ (Fresh(p) <=> Fresh(c))
  BY <1>1, <1>4, SameHolds
<1>6. Filling(p, n, b, f)
  BY <1>1, <1>2, <1>4, <1>5 DEF Filling
<1>7. HoldsLog(p, MMRIndex(n) + 1)
  <2>1. LeafValue(n) \in LogHashes /\ FullLog[MMRIndex(n)] = LeafValue(n)
    BY <1>1, LogHashesAre, LogNodes
  <2>2. c.nextAncestor \in Int
    BY <1>1 DEF IsContext
  <2>3. PICK e : e = Filled(c, Append(c.data, LeafValue(n)), c.nextAncestor)
    OBVIOUS
  <2>4. /\ Append(c.data, LeafValue(n)) \in Seq(LogHashes)
        /\ HoldsLog(e, MMRIndex(n) + 1)
    BY <1>1, <2>1, <2>2, <2>3, NodeAppended
  <2>5. /\ e.data = p.data /\ e.height = p.height /\ e.massifIndex = p.massifIndex
        /\ e.firstIndex = p.firstIndex /\ e.peakStackLen = p.peakStackLen
        /\ e.peakStackMap = p.peakStackMap
    <3>1. PICK u \in Seq(LogHashes), z \in Int :
            u = Append(c.data, LeafValue(n)) /\ z = c.nextAncestor
      BY <2>2, <2>4
    <3>2. e = Filled(c, u, z)
      BY <2>3, <3>1
    <3>3. /\ e.data = u /\ e.height = c.height /\ e.massifIndex = c.massifIndex
          /\ e.firstIndex = c.firstIndex /\ e.peakStackLen = c.peakStackLen
          /\ e.peakStackMap = c.peakStackMap
      <4>1. IsContext(c)
        BY <1>1
      <4> QED BY <3>2, <4>1, FilledIs
    <3> QED BY <1>4, <3>1, <3>3
  <2>6. \A size : p.data = e.data /\ HoldsLog(e, size) => HoldsLog(p, size)
    BY <2>5, SameHolds
  <2> QED BY <2>4, <2>5, <2>6
<1>8. AtAncestor(p, n, p.nextAncestor, 0)
  <2>1. AncestorsRead(p.height, 0) = 0
    <3>1. p.height \in Nat /\ 0 < p.height
      BY <1>4, HeightsAssumption DEF IsContext
    <3> QED BY <3>1 DEF AncestorsRead
  <2>2. n + 1 = EndLeaf(p) => p.nextAncestor = p.peakStackLen - 1 - 0
    BY <1>4, <1>5 DEF IsContext
  <2> QED BY <2>1, <2>2 DEF AtAncestor
<1>9. FilledTo(BackFill(p), p, n, f)
  BY <1>6, <1>7, <1>8, BackFillLog
<1>10. PICK d \in Seq(LogHashes), x \in Int :
         \/ BackFill(p) = At(p, d, x, TRUE) /\ ~Fresh(p)
         \/ /\ BackFill(p) = At(p, d, x, FALSE)
            /\ HoldsLog(Filled(p, d, x), MMRIndex(n) + 1 + f)
  BY <1>9 DEF FilledTo
<1>11. CASE BackFill(p) = At(p, d, x, TRUE) /\ ~Fresh(p)
  <2>1. BackFill(p).err
    BY <1>11 DEF At
  <2> QED BY <1>3, <1>5, <1>11, <2>1
<1>12. CASE /\ BackFill(p) = At(p, d, x, FALSE)
            /\ HoldsLog(Filled(p, d, x), MMRIndex(n) + 1 + f)
  <2>1. ~BackFill(p).err /\ BackFill(p).c = Filled(p, d, x)
    BY <1>12 DEF At
  <2>2. PICK e : e = Filled(p, d, x)
    OBVIOUS
  <2>3. IsContext(e) /\ Placed(e) /\ FirstLeaf(e) = FirstLeaf(c) /\ EndLeaf(e) = EndLeaf(c)
    BY <1>4, <1>5, <2>2, FilledIs, FilledPlaced
  <2>4. e.lastID = n + 1 /\ e.trie = p.trie /\ e.height = c.height
    BY <1>4, <2>2, FilledIs
  <2>5. HoldsLog(e, MMRIndex(n + 1))
    <3>1. MMRIndex(n + 1) = MMRIndex(n) + 1 + f
      <4>1. n \in Nat
        BY <1>1
      <4> QED BY <1>2, <4>1, NextSize
    <3> QED BY <1>12, <2>2, <3>1, Zenon
  <2>6. Indexed(e, n + 1)
    <3>1. PICK a \in Nat, s \in Nat : a = FirstLeaf(c) /\ s = IndexLen(c.height)
      BY <1>1
    <3>2. c.trie = Entries(s, a, n)
      BY <1>1, <3>1 DEF Indexed
    <3>3. n \in Nat /\ a <= n /\ n - a < s
      BY <1>1, <3>1
    <3>4. WithEntry(s, a, n) = Entries(s, a, n + 1)
      BY <3>3, NextEntry
    <3>5. e.trie = WithEntry(s, a, n)
      BY <1>4, <2>4, <3>1, <3>2, Zenon DEF WithEntry
    <3> QED BY <2>3, <2>4, <3>1, <3>4, <3>5, Zenon DEF Indexed
  <2>7. n + 1 \in Nat /\ n + 1 <= MaxLeaves /\ FirstLeaf(e) <= n + 1 /\ n + 1 <= EndLeaf(e)
    BY <1>1, <2>3, MaxLeavesAssumption
  <2>8. Holding(e, n + 1)
    BY <2>3, <2>4, <2>5, <2>6, <2>7 DEF Holding
  <2> QED BY <1>3, <2>1, <2>2, <2>8
<1> QED BY <1>10, <1>11, <1>12

-----------------------------------------------------------------------------
(* The other operations *)

(* A context with another next ancestor and another map *)
LEMMA Remapped ==
  ASSUME NEW c, NEW n, Holding(c, n), NEW e, IsContext(e), HasMap(e),
         e.height = c.height, e.massifIndex = c.massifIndex, e.firstIndex = c.firstIndex,
         e.lastID = c.lastID, e.peakStackLen = c.peakStackLen, e.trie = c.trie,
         e.data = c.data
  PROVE  Holding(e, n)
<1>1. FirstLeaf(e) = FirstLeaf(c) /\ EndLeaf(e) = EndLeaf(c)
  BY DEF FirstLeaf, EndLeaf
<1>2. Placed(e)
  BY <1>1 DEF Holding, Placed
<1>3. HoldsLog(e, MMRIndex(n))
  <2>1. HoldsLog(c, MMRIndex(n))
    BY DEF Holding
  <2> QED BY <1>1, <2>1, Zenon DEF HoldsLog
<1>4. Indexed(e, n)
  BY <1>1 DEF Holding, Indexed
<1> QED BY <1>1, <1>2, <1>3, <1>4 DEF Holding

(* A context that is written and read again *)
LEMMA Reopened ==
  ASSUME NEW c, NEW n, Holding(c, n)
  PROVE  Holding(DecodeMassifStart(c), n)
<1>1. /\ IsContext(c) /\ Placed(c)
      /\ c.height \in Heights /\ c.massifIndex \in Nat /\ c.firstIndex \in Nat
      /\ c.peakStackLen \in Nat /\ c.data \in Seq(LogHashes)
  BY DEF Holding, IsContext
<1>2. PICK h, m, a, l, s, t, u, z, p :
        c = [height |-> h, massifIndex |-> m, firstIndex |-> a, lastID |-> l,
             peakStackLen |-> s, trie |-> t, data |-> u, nextAncestor |-> z,
             peakStackMap |-> p]
  BY <1>1 DEF IsContext
<1>3. /\ c.height = h /\ c.massifIndex = m /\ c.firstIndex = a /\ c.lastID = l
      /\ c.peakStackLen = s /\ c.trie = t /\ c.data = u
  BY <1>2
<1>4. MassifFirstLeaf(h, m) = a
  <2>1. MassifFirstLeaf(h, m) = MMRIndex(m * LeavesOf(h))
    BY <1>1, <1>3, MassifRun
  <2>2. a = MMRIndex(m * LeavesOf(h))
    BY <1>1, <1>3 DEF Placed, FirstLeaf
  <2> QED BY <2>1, <2>2
<1>5. PeakStackLen(m) = s
  BY <1>1, <1>3 DEF Placed, PeakStackLen
<1>6. DecodeMassifStart(c)
        = [c EXCEPT !.firstIndex = a, !.peakStackLen = s, !.nextAncestor = 0,
                    !.peakStackMap = NoMap]
  BY <1>3, <1>4, <1>5, Zenon DEF DecodeMassifStart
<1>7. PICK zero, map : zero = 0 /\ map = NoMap /\ zero \in Int
  OBVIOUS
<1>8. PICK c1 : c1 = [c EXCEPT !.firstIndex = a]
  OBVIOUS
<1>9. c1 = c
  BY <1>2, <1>8
<1>10. PICK c2 : c2 = [c1 EXCEPT !.peakStackLen = s]
  OBVIOUS
<1>11. c2 = c
  BY <1>2, <1>9, <1>10
<1>12. PICK c3 : c3 = [c2 EXCEPT !.nextAncestor = zero]
  OBVIOUS
<1>13. c3 = [height |-> h, massifIndex |-> m, firstIndex |-> a, lastID |-> l,
             peakStackLen |-> s, trie |-> t, data |-> u, nextAncestor |-> zero,
             peakStackMap |-> p]
  BY <1>2, <1>11, <1>12
<1>14. PICK e : e = [c3 EXCEPT !.peakStackMap = map]
  OBVIOUS
<1>15. e = [height |-> h, massifIndex |-> m, firstIndex |-> a, lastID |-> l,
            peakStackLen |-> s, trie |-> t, data |-> u, nextAncestor |-> zero,
            peakStackMap |-> map]
  BY <1>13, <1>14
<1>16. DecodeMassifStart(c) = e
  BY <1>6, <1>7, <1>8, <1>10, <1>12, <1>14, Zenon
<1>17. /\ e.height = h /\ e.massifIndex = m /\ e.firstIndex = a /\ e.lastID = l
       /\ e.peakStackLen = s /\ e.trie = t /\ e.data = u /\ e.nextAncestor = zero
       /\ e.peakStackMap = map
  BY <1>15
<1>18. IsContext(e)
  BY <1>1, <1>3, <1>7, <1>15, <1>17 DEF IsContext
<1>19. HasMap(e)
  BY <1>7, <1>17 DEF HasMap
<1>20. Holding(e, n)
  BY <1>3, <1>17, <1>18, <1>19, Remapped
<1> QED BY <1>16, <1>20

(* The map of the massif itself *)
LEMMA MapHolds ==
  ASSUME NEW c, NEW n, Holding(c, n)
  PROVE  Holding([c EXCEPT !.peakStackMap = PeakStackMap(c.height, c.firstIndex)], n)
<1>1. /\ IsContext(c) /\ Placed(c)
      /\ c.height \in Heights /\ c.massifIndex \in Nat /\ c.firstIndex \in Nat
      /\ c.peakStackLen \in Nat /\ c.data \in Seq(LogHashes) /\ c.nextAncestor \in Int
  BY DEF Holding, IsContext
<1>2. PICK h, m, a, l, s, t, u, z, p :
        c = [height |-> h, massifIndex |-> m, firstIndex |-> a, lastID |-> l,
             peakStackLen |-> s, trie |-> t, data |-> u, nextAncestor |-> z,
             peakStackMap |-> p]
  BY <1>1 DEF IsContext
<1>3. /\ c.height = h /\ c.massifIndex = m /\ c.firstIndex = a /\ c.lastID = l
      /\ c.peakStackLen = s /\ c.trie = t /\ c.data = u /\ c.nextAncestor = z
  BY <1>2
<1>4. PICK map : map = PeakStackMap(c.height, c.firstIndex)
  OBVIOUS
<1>5. PICK e : e = [c EXCEPT !.peakStackMap = map]
  OBVIOUS
<1>6. e = [height |-> h, massifIndex |-> m, firstIndex |-> a, lastID |-> l,
           peakStackLen |-> s, trie |-> t, data |-> u, nextAncestor |-> z,
           peakStackMap |-> map]
  BY <1>2, <1>5
<1>7. /\ e.height = h /\ e.massifIndex = m /\ e.firstIndex = a /\ e.lastID = l
      /\ e.peakStackLen = s /\ e.trie = t /\ e.data = u /\ e.nextAncestor = z
      /\ e.peakStackMap = map
  BY <1>6
<1>8. IsContext(e)
  BY <1>1, <1>3, <1>6, <1>7 DEF IsContext
<1>9. HasMap(e)
  <2>1. map = PeakStackMap(h, MMRIndex(m * LeavesOf(h))) /\ m \in Nat
    BY <1>1, <1>3, <1>4 DEF Placed, FirstLeaf
  <2> QED BY <1>7, <2>1 DEF HasMap
<1>10. Holding(e, n)
  BY <1>3, <1>7, <1>8, <1>9, Remapped
<1> QED BY <1>4, <1>5, <1>10

-----------------------------------------------------------------------------
(* The next massif *)

(* The stack of the next massif: the peaks of the log so far *)
LEMMA NextStack ==
  ASSUME NEW c, NEW n, Holding(c, n), n = EndLeaf(c)
  PROVE  /\ NextPeakStack(c) \in Seq(LogHashes)
         /\ Len(NextPeakStack(c)) = Len(PeaksOver(n))
         /\ Len(NextPeakStack(c)) = LeafMinusSpurSum(c.massifIndex + 1)
         /\ \A y \in 1 .. Len(PeaksOver(n)) : NextPeakStack(c)[y] = FullLog[PeaksOver(n)[y]]
<1> DEFINE h == c.height
           m == c.massifIndex
           x == FirstLeaf(c)
           q == PeaksOver(x)
           r == PeaksOver(n)
           t == SpurHeightLeaf(m)
           v == c.data[Len(c.data)]
           s == c.peakStackLen
<1>1. /\ IsContext(c) /\ Placed(c) /\ n \in Nat /\ n <= MaxLeaves
      /\ HoldsLog(c, MMRIndex(n)) /\ h \in Heights /\ m \in Nat
      /\ x \in Nat /\ n = x + LeavesOf(h) /\ LeavesOf(h) \in Nat /\ LeavesOf(h) >= 2
      /\ MMRIndex(n) \in Nat /\ c.firstIndex \in Nat /\ c.firstIndex = MMRIndex(x)
      /\ c.data \in Seq(LogHashes) /\ s \in Nat /\ s = Len(q) /\ s = LeafMinusSpurSum(m)
  BY HoldingSizes DEF Holding, IsContext, Placed
<1>2. PICK b \in Nat, y \in Nat : m + 1 = (2 * b + 1) * 2^y
  <2>1. m + 1 \in Nat /\ m + 1 # 0
    BY <1>1
  <2>2. \E g, j \in Nat : m + 1 = (2 * j + 1) * 2^g
    BY <2>1, OddRuns
  <2> QED BY <2>2
<1>3. t = y /\ LeafMinusSpurSum(m + 1) = s + 1 - y
  <2>1. /\ LeafMinusSpurSum((2 * b + 1) * 2^y)
              = LeafMinusSpurSum((2 * b + 1) * 2^y - 1) + 1 - y
        /\ SpurHeightLeaf((2 * b + 1) * 2^y - 1) = y
    BY PeaksLeft
  <2>2. (2 * b + 1) * 2^y - 1 = m
    <3>1. PICK z \in Nat : z = m + 1 /\ z - 1 = m
      BY <1>1
    <3> QED BY <1>2, <3>1
  <2> QED BY <1>1, <1>2, <2>1, <2>2, Zenon
<1>4. PICK a \in Nat, f \in Nat : a = h - 1 /\ f = a + y /\ 2^a = LeavesOf(h) /\ a <= f
  <2>1. h - 1 \in Nat
    BY <1>1, MassifRun
  <2>2. 2^(h - 1) = LeavesOf(h)
    BY DEF LeavesOf
  <2>3. PICK a \in Nat : a = h - 1
    BY <2>1
  <2>4. a + y \in Nat /\ a <= a + y
    OBVIOUS
  <2> QED BY <2>2, <2>3, <2>4
<1>5. n = (2 * b + 1) * 2^f
  <2>1. n = (m + 1) * LeavesOf(h)
    BY DEF EndLeaf
  <2>2. 2^f = 2^a * 2^y
    BY <1>4, PowAdd
  <2>3. ASSUME NEW A \in Nat, NEW B \in Nat, NEW C \in Nat PROVE (A * B) * C = A * (C * B)
    OBVIOUS
  <2>4. ((2 * b + 1) * 2^y) * 2^a = (2 * b + 1) * (2^a * 2^y)
    <3>1. 2 * b + 1 \in Nat /\ 2^y \in Nat /\ 2^a \in Nat
      BY PowType
    <3> QED BY <2>3, <3>1
  <2> QED BY <1>2, <1>4, <2>1, <2>2, <2>4, Zenon
<1>6. /\ Len(q) - y \in Nat /\ Len(r) = Len(q) - y + 1
      /\ \A k \in 1 .. Len(q) - y : r[k] = q[k]
      /\ r[Len(r)] = NodePos(f, 2 * b) - 1
  <2>1. n = x + 2^a
    BY <1>1, <1>4
  <2>2. Tiles(q, x) /\ Tiles(r, x + 2^a)
    BY <1>1, <2>1, PeaksOverTile
  <2>3. x + 2^a = (2 * b + 1) * 2^f
    BY <1>5, <2>1
  <2>4. f - a = y
    BY <1>4
  <2> HIDE DEF q, r, x
  <2>5. x \in Nat
    BY <1>1
  <2>6. /\ Len(q) - y \in Nat /\ Len(r) = Len(q) - y + 1
        /\ \A k \in 1 .. Len(q) - y : r[k] = q[k]
        /\ r[Len(r)] = NodePos(f, 2 * b) - 1
    <3>1. PICK X, Q, R : X = x /\ Q = q /\ R = r /\ X \in Nat
      BY <2>5
    <3>2. PICK e, p : e = X + 2^a /\ p = NodePos(f, 2 * b)
      OBVIOUS
    <3>3. X \in Nat /\ Tiles(Q, X) /\ Tiles(R, e) /\ e = (2 * b + 1) * 2^f /\ a <= f /\ y = f - a
      BY <1>4, <2>2, <2>3, <2>4, <3>1, <3>2
    <3>4. /\ Len(Q) - y \in Nat /\ Len(R) = Len(Q) - y + 1
          /\ \A k \in 1 .. Len(Q) - y : R[k] = Q[k]
          /\ R[Len(R)] = p - 1
      <4>1. Continues(Q, R, y, p)
        BY <3>2, <3>3, NextPeaks
      <4> QED BY <4>1 DEF Continues
    <3> QED BY <3>1, <3>2, <3>4, Zenon
  <2> QED BY <2>6
<1>7. v = FullLog[NodePos(f, 2 * b) - 1] /\ v \in LogHashes
  <2>1. /\ MMRIndex(n) = NodePos(f, 2 * b) /\ MMRIndex(n) - 1 \in Nat
        /\ c.firstIndex <= MMRIndex(n) - 1
    <3>1. PICK w \in Nat : w + 1 = n
      <4>1. n - 1 \in Nat /\ (n - 1) + 1 = n
        BY <1>1
      <4> QED BY <4>1
    <3>2. MMRIndex(w + 1) = NodePos(f, 2 * b)
      BY <1>5, <3>1, NextSize
    <3>3. x <= n /\ n - x >= 2
      BY <1>1
    <3>4. MMRIndex(x) + (n - x) <= MMRIndex(n)
      BY <1>1, <3>3, MMRIndexMono
    <3>5. MMRIndex(n) = NodePos(f, 2 * b)
      BY <3>1, <3>2
    <3>6. PICK u, z, e : u = MMRIndex(n) /\ z = MMRIndex(x) /\ e = c.firstIndex
      OBVIOUS
    <3>7. u \in Nat /\ e = z /\ z \in Nat /\ n \in Nat /\ x \in Nat
      BY <1>1, <3>6
    <3>8. z + (n - x) <= u /\ n - x >= 2
      BY <3>3, <3>4, <3>6
    <3>9. u - 1 \in Nat /\ e <= u - 1
      BY <3>7, <3>8
    <3> QED BY <3>5, <3>6, <3>9
  <2>2. PICK j \in Nat : j = MMRIndex(n) - 1 /\ c.firstIndex <= j /\ j < MMRIndex(n)
    BY <1>1, <2>1
  <2>3. c.data[s + j - c.firstIndex + 1] = FullLog[j]
    BY <1>1, <2>2 DEF HoldsLog
  <2>4. Len(c.data) = s + (MMRIndex(n) - c.firstIndex)
    BY <1>1 DEF HoldsLog
  <2>5. s + j - c.firstIndex + 1 = Len(c.data) /\ Len(c.data) \in 1 .. Len(c.data)
    <3>1. PICK u, w, z : u = MMRIndex(n) /\ w = c.firstIndex /\ z = Len(c.data)
      OBVIOUS
    <3>2. w \in Nat /\ z \in Nat /\ s \in Nat
      BY <1>1, <3>1
    <3>3. u - 1 \in Nat /\ j = u - 1 /\ w <= j
      BY <2>1, <2>2, <3>1
    <3>4. z = s + (u - w)
      BY <2>4, <3>1
    <3>5. u = j + 1
      <4>1. u \in Nat
        BY <1>1, <3>1
      <4> QED BY <3>3, <4>1
    <3>6. s + j - w + 1 = z /\ z \in 1 .. z
      BY <3>2, <3>3, <3>4, <3>5
    <3> QED BY <3>1, <3>6
  <2>6. PICK d \in Seq(LogHashes) : d = c.data
    BY <1>1
  <2>7. d[Len(d)] \in LogHashes
    BY <2>5, <2>6
  <2>8. v = FullLog[j]
    BY <2>3, <2>5, Zenon
  <2> QED BY <2>1, <2>2, <2>6, <2>7, <2>8
<1>8. PICK k \in Nat : k = s - t /\ k = Len(q) - y /\ k <= s
  <2>1. PICK k : k = s - y
    OBVIOUS
  <2>2. k \in Nat /\ s \in Nat /\ s = Len(q) /\ t = y
    BY <1>1, <1>3, <1>6, <2>1
  <2>3. k <= s
    BY <2>1, <2>2
  <2> QED BY <2>1, <2>2, <2>3
<1>81. Len(r) = k + 1 /\ LeafMinusSpurSum(m + 1) = k + 1
  <2>1. k + 1 = s + 1 - y
    BY <1>1, <1>8
  <2> QED BY <1>3, <1>6, <1>8, <2>1
<1>82. r[k + 1] = NodePos(f, 2 * b) - 1 /\ \A z \in 1 .. k : r[z] = q[z] /\ z \in 1 .. s
  <2>1. \A z \in 1 .. k : z \in 1 .. s
    BY <1>1, <1>8
  <2>2. \A z \in 1 .. k : r[z] = q[z]
    BY <1>6, <1>8, Zenon
  <2>3. r[k + 1] = NodePos(f, 2 * b) - 1
    BY <1>6, <1>81
  <2> QED BY <2>1, <2>2, <2>3
<1>9. PICK w : w = SubSeq(Stack(c), 1, k)
  OBVIOUS
<1>10. /\ w \in Seq(LogHashes) /\ Len(w) = k
       /\ \A z \in 1 .. k : w[z] = c.data[z]
  <2>1. s <= Len(c.data) /\ Len(c.data) \in Nat
    BY <1>1, SizeOf
  <2>2. PICK d \in Seq(LogHashes) : d = c.data
    BY <1>1
  <2>3. PICK e : e = Stack(c)
    OBVIOUS
  <2>4. e = SubSeq(d, 1, s)
    BY <2>2, <2>3 DEF Stack
  <2>5. e \in Seq(LogHashes) /\ Len(e) = s /\ \A z \in 1 .. s : e[z] = d[z]
    BY <1>1, <2>1, <2>2, <2>4
  <2>6. w = SubSeq(e, 1, k)
    BY <1>9, <2>3
  <2>7. w \in Seq(LogHashes) /\ Len(w) = k /\ \A z \in 1 .. k : w[z] = e[z]
    BY <1>8, <2>5, <2>6
  <2>8. \A z \in 1 .. k : z \in 1 .. s
    BY <1>1, <1>8
  <2> QED BY <2>2, <2>5, <2>7, <2>8
<1>11. PICK stack : stack = NextPeakStack(c)
  OBVIOUS
<1>12. stack = Append(w, v)
  BY <1>8, <1>9, <1>11 DEF NextPeakStack
<1> HIDE DEF v
<1>13. /\ stack \in Seq(LogHashes) /\ Len(stack) = k + 1 /\ stack[k + 1] = v
       /\ \A z \in 1 .. k : stack[z] = w[z]
  BY <1>7, <1>10, <1>12
<1>14. Len(stack) = Len(r) /\ Len(stack) = LeafMinusSpurSum(m + 1)
  BY <1>13, <1>81
<1>15. ASSUME NEW z \in 1 .. Len(r) PROVE stack[z] = FullLog[r[z]]
  <2>1. CASE z = k + 1
    <3>1. r[z] = NodePos(f, 2 * b) - 1
      BY <1>82, <2>1
    <3> QED BY <1>7, <1>13, <2>1, <3>1
  <2>2. CASE z # k + 1
    <3>1. z \in 1 .. k
      BY <1>13, <1>14, <2>2
    <3>2. r[z] = q[z] /\ z \in 1 .. s
      BY <1>82, <3>1
    <3>3. c.data[z] = FullLog[q[z]]
      BY <1>1, <3>2 DEF HoldsLog
    <3> QED BY <1>10, <1>13, <3>1, <3>2, <3>3
  <2> QED BY <2>1, <2>2
<1> QED BY <1>11, <1>13, <1>14, <1>15

(* The next massif begins where the log ends. *)
LEMMA NextStarted ==
  ASSUME NEW c, NEW n, Holding(c, n), ~HasSpace(c)
  PROVE  Holding(StartNextMassif(c), n)
<1>1. /\ IsContext(c) /\ Placed(c) /\ n \in Nat /\ n <= MaxLeaves
      /\ c.height \in Heights /\ c.massifIndex \in Nat /\ c.peakStackLen \in Nat
      /\ c.nextAncestor \in Int /\ c.lastID = n /\ HasMap(c)
      /\ n = EndLeaf(c) /\ RangeCount(c) = MMRIndex(n) /\ MMRIndex(n) \in Nat
  BY HoldingSizes DEF Holding, IsContext, Placed
<1>2. PICK h, m, a, l, s, t, u, z, p :
        c = [height |-> h, massifIndex |-> m, firstIndex |-> a, lastID |-> l,
             peakStackLen |-> s, trie |-> t, data |-> u, nextAncestor |-> z,
             peakStackMap |-> p]
  BY <1>1 DEF IsContext
<1>3. /\ c.height = h /\ c.massifIndex = m /\ c.firstIndex = a /\ c.lastID = l
      /\ c.peakStackLen = s /\ c.nextAncestor = z /\ c.peakStackMap = p
  BY <1>2
<1>4. PICK stack, size, k, index, m1 :
        /\ stack = NextPeakStack(c) /\ size = RangeCount(c) /\ k = Len(stack)
        /\ index = InitIndexData(c.height) /\ m1 = m + 1
  OBVIOUS
<1>5. StartNextMassif(c)
        = [c EXCEPT !.massifIndex = @ + 1, !.firstIndex = size, !.peakStackLen = k,
                    !.data = stack, !.trie = index]
  BY <1>4 DEF StartNextMassif
<1>6. PICK c1 : c1 = [c EXCEPT !.massifIndex = m1]
  OBVIOUS
<1>7. c1 = [height |-> h, massifIndex |-> m1, firstIndex |-> a, lastID |-> l,
            peakStackLen |-> s, trie |-> t, data |-> u, nextAncestor |-> z,
            peakStackMap |-> p]
  BY <1>2, <1>6
<1>8. PICK c2 : c2 = [c1 EXCEPT !.firstIndex = size]
  OBVIOUS
<1>9. c2 = [height |-> h, massifIndex |-> m1, firstIndex |-> size, lastID |-> l,
            peakStackLen |-> s, trie |-> t, data |-> u, nextAncestor |-> z,
            peakStackMap |-> p]
  BY <1>7, <1>8
<1>10. PICK c3 : c3 = [c2 EXCEPT !.peakStackLen = k]
  OBVIOUS
<1>11. c3 = [height |-> h, massifIndex |-> m1, firstIndex |-> size, lastID |-> l,
             peakStackLen |-> k, trie |-> t, data |-> u, nextAncestor |-> z,
             peakStackMap |-> p]
  BY <1>9, <1>10
<1>12. PICK c4 : c4 = [c3 EXCEPT !.data = stack]
  OBVIOUS
<1>13. c4 = [height |-> h, massifIndex |-> m1, firstIndex |-> size, lastID |-> l,
             peakStackLen |-> k, trie |-> t, data |-> stack, nextAncestor |-> z,
             peakStackMap |-> p]
  BY <1>11, <1>12
<1>14. PICK e : e = [c4 EXCEPT !.trie = index]
  OBVIOUS
<1>15. e = [height |-> h, massifIndex |-> m1, firstIndex |-> size, lastID |-> l,
            peakStackLen |-> k, trie |-> index, data |-> stack, nextAncestor |-> z,
            peakStackMap |-> p]
  BY <1>13, <1>14
<1>16. StartNextMassif(c) = e
  <2>1. StartNextMassif(c)
          = [c EXCEPT !.massifIndex = m1, !.firstIndex = size, !.peakStackLen = k,
                      !.data = stack, !.trie = index]
    BY <1>3, <1>4, <1>5, Zenon
  <2> QED BY <1>6, <1>8, <1>10, <1>12, <1>14, <2>1, Zenon
<1>17. /\ e.height = h /\ e.massifIndex = m1 /\ e.firstIndex = size /\ e.lastID = l
       /\ e.peakStackLen = k /\ e.trie = index /\ e.data = stack /\ e.nextAncestor = z
       /\ e.peakStackMap = p
  BY <1>15
<1>18. /\ stack \in Seq(LogHashes) /\ k = Len(PeaksOver(n)) /\ k = LeafMinusSpurSum(m1)
       /\ \A y \in 1 .. Len(PeaksOver(n)) : stack[y] = FullLog[PeaksOver(n)[y]]
  BY <1>1, <1>3, <1>4, NextStack
<1>181. k \in Nat /\ k = Len(stack)
  <2>1. PICK d \in Seq(LogHashes) : d = stack
    BY <1>18
  <2>2. k = Len(d) /\ Len(d) \in Nat
    BY <1>4, <2>1
  <2> QED BY <2>1, <2>2
<1>19. IsContext(e)
  <2>1. k \in Nat
    BY <1>181
  <2>2. h \in Heights /\ m1 \in Nat /\ size \in Nat /\ z \in Int
    BY <1>1, <1>3, <1>4
  <2> QED BY <1>15, <1>17, <1>18, <2>1, <2>2 DEF IsContext
<1>20. FirstLeaf(e) = n /\ n <= EndLeaf(e)
  <2>1. n = (m + 1) * LeavesOf(h)
    BY <1>1, <1>3 DEF EndLeaf
  <2>2. FirstLeaf(e) = n
    BY <1>4, <1>17, <2>1 DEF FirstLeaf
  <2>3. h \in Heights /\ m1 \in Nat
    BY <1>1, <1>3, <1>4
  <2>4. EndLeaf(e) = m1 * LeavesOf(h) + LeavesOf(h) /\ LeavesOf(h) \in Nat
    BY <1>17, <2>3, MassifRun DEF EndLeaf
  <2>5. m1 * LeavesOf(h) = n
    BY <1>4, <2>1
  <2> QED BY <1>1, <2>2, <2>4, <2>5
<1>21. HasMap(e)
  BY <1>1, <1>3, <1>17 DEF HasMap
<1>22. Placed(e)
  BY <1>1, <1>4, <1>17, <1>18, <1>20, <1>21 DEF Placed
<1>23. HoldsLog(e, MMRIndex(n))
  <2>1. PICK w \in Nat : w = MMRIndex(n)
    BY <1>1
  <2>2. size = w /\ w <= w /\ Len(stack) = k + (w - w) /\ k \in Nat
    <3>1. k \in Nat /\ k = Len(stack)
      BY <1>181
    <3> QED BY <1>1, <1>4, <2>1, <3>1
  <2>3. \A y \in 1 .. k : stack[y] = FullLog[PeaksOver(n)[y]]
    BY <1>18
  <2>4. \A j \in Nat : ~ (w <= j /\ j < w)
    OBVIOUS
  <2>5. HoldsLog(e, w)
    BY <1>17, <1>20, <2>2, <2>3, <2>4, Zenon DEF HoldsLog
  <2> QED BY <2>1, <2>5
<1>24. Indexed(e, n)
  <2>1. e.trie = [j \in 0 .. IndexLen(h) - 1 |-> 0]
    BY <1>3, <1>4, <1>17 DEF InitIndexData
  <2>2. PICK s1 : s1 = IndexLen(h)
    OBVIOUS
  <2>3. Entries(s1, n, n) = [j \in 0 .. s1 - 1 |-> 0]
    <3>1. \A j \in 0 .. s1 - 1 : ~ (j < n - n)
      BY <1>1
    <3> QED BY <3>1 DEF Entries
  <2> QED BY <1>17, <1>20, <2>1, <2>2, <2>3 DEF Indexed
<1>25. Holding(e, n)
  BY <1>1, <1>3, <1>17, <1>19, <1>20, <1>22, <1>23, <1>24 DEF Holding
<1> QED BY <1>16, <1>25

(* The first massif *)
LEMMA InitHolds == Init => Holding(mc, leaves)
<1> SUFFICES ASSUME Init PROVE Holding(mc, leaves)
  OBVIOUS
<1>1. PICK h \in Heights :
        mc = [height |-> h, massifIndex |-> 0, firstIndex |-> 0, lastID |-> 0,
              peakStackLen |-> 0, trie |-> InitIndexData(h), data |-> << >>,
              nextAncestor |-> 0, peakStackMap |-> NoMap]
  BY DEF Init
<1>2. /\ mc.height = h /\ mc.massifIndex = 0 /\ mc.firstIndex = 0 /\ mc.lastID = 0
      /\ mc.peakStackLen = 0 /\ mc.trie = InitIndexData(h) /\ mc.data = << >>
      /\ mc.nextAncestor = 0 /\ mc.peakStackMap = NoMap
  BY <1>1
<1>3. IsContext(mc)
  <2>1. mc = [height |-> mc.height, massifIndex |-> mc.massifIndex,
              firstIndex |-> mc.firstIndex, lastID |-> mc.lastID,
              peakStackLen |-> mc.peakStackLen, trie |-> mc.trie, data |-> mc.data,
              nextAncestor |-> mc.nextAncestor, peakStackMap |-> mc.peakStackMap]
    BY <1>1, <1>2, Zenon
  <2>2. mc.data \in Seq(LogHashes)
    BY <1>2
  <2>3. /\ mc.height \in Heights /\ mc.massifIndex \in Nat /\ mc.firstIndex \in Nat
        /\ mc.peakStackLen \in Nat /\ mc.nextAncestor \in Int
    BY <1>2
  <2> QED BY <2>1, <2>2, <2>3 DEF IsContext
<1>4. LeavesOf(h) \in Nat
  BY MassifRun
<1>5. FirstLeaf(mc) = 0 /\ 0 <= EndLeaf(mc) /\ EndLeaf(mc) = LeavesOf(h)
  BY <1>2, <1>4 DEF FirstLeaf, EndLeaf
<1>6. MMRIndex(0) = 0 /\ LeafMinusSpurSum(0) = 0
  <2>1. PICK zero \in Nat : zero = 0
    OBVIOUS
  <2>2. halves[zero] = 0
    BY <2>1, HalvesDef
  <2>3. zero \div 2 = zero
    BY <2>1
  <2>4. LeafMinusSpurSum(zero) = zero - halves[zero]
    BY <2>3 DEF LeafMinusSpurSum
  <2>5. LeafMinusSpurSum(zero) = 0
    BY <2>1, <2>2, <2>4
  <2>6. MMRIndex(zero) = 0
    BY <2>1, MMRIndexBounds
  <2> QED BY <2>1, <2>5, <2>6
<1>7. PeaksOver(0) = << >>
  BY DEF PeaksOver
<1>8. Placed(mc)
  <2>1. HasMap(mc)
    BY <1>2 DEF HasMap
  <2> QED BY <1>2, <1>5, <1>6, <1>7, <2>1 DEF Placed
<1>9. HoldsLog(mc, MMRIndex(0))
  <2>1. /\ mc.firstIndex <= 0 /\ Len(mc.data) = mc.peakStackLen + (0 - mc.firstIndex)
    BY <1>2
  <2>2. 1 .. mc.peakStackLen = {}
    BY <1>2
  <2>3. \A j \in Nat : ~ (mc.firstIndex <= j /\ j < 0)
    BY <1>2
  <2>4. HoldsLog(mc, 0)
    BY <2>1, <2>2, <2>3, Zenon DEF HoldsLog
  <2> QED BY <1>6, <2>4
<1>10. Indexed(mc, 0)
  <2>1. PICK s : s = IndexLen(h)
    OBVIOUS
  <2>2. Entries(s, 0, 0) = [j \in 0 .. s - 1 |-> 0]
    BY DEF Entries
  <2>3. mc.trie = [j \in 0 .. s - 1 |-> 0]
    BY <1>2, <2>1 DEF InitIndexData
  <2> QED BY <1>2, <1>5, <2>1, <2>2, <2>3 DEF Indexed
<1>11. leaves = 0 /\ 0 \in Nat /\ 0 <= MaxLeaves
  BY MaxLeavesAssumption DEF Init
<1> QED BY <1>2, <1>3, <1>5, <1>8, <1>9, <1>10, <1>11 DEF Holding

(* The invariant *)
HoldsTheLog == Holding(mc, leaves)

(* Fails to add: only on a stale map *)
LEMMA AddKeeps ==
  ASSUME HoldsTheLog, AddLeaf
  PROVE  HoldsTheLog' /\ (failed' => failed \/ ~MapIsFresh)
<1>1. /\ leaves < MaxLeaves /\ ~MassifFull(mc) /\ Holding(mc, leaves)
  BY DEF AddLeaf, HoldsTheLog
<1>2. PICK at : at = BackFill(Prepared(mc, leaves))
  OBVIOUS
<1>3. IF at.err THEN failed' = TRUE /\ UNCHANGED <<mc, leaves>>
      ELSE mc' = at.c /\ leaves' = leaves + 1 /\ UNCHANGED failed
  BY <1>2, Zenon DEF AddLeaf, Prepared
<1>4. (at.err => ~Fresh(mc)) /\ (~at.err => Holding(at.c, leaves + 1))
  BY <1>1, <1>2, LeafAdded
<1>5. Fresh(mc) <=> MapIsFresh
  BY DEF Fresh, MapIsFresh
<1>6. CASE at.err
  <2>1. mc' = mc /\ leaves' = leaves
    BY <1>3, <1>6
  <2> QED BY <1>1, <1>4, <1>5, <1>6, <2>1 DEF HoldsTheLog
<1>7. CASE ~at.err
  <2>1. mc' = at.c /\ leaves' = leaves + 1 /\ failed' = failed
    BY <1>3, <1>7
  <2>2. Holding(mc', leaves')
    BY <1>4, <1>7, <2>1, Zenon
  <2> QED BY <2>1, <2>2 DEF HoldsTheLog
<1> QED BY <1>6, <1>7

(* Every step *)
LEMMA StepKeeps ==
  ASSUME HoldsTheLog, [Next]_vars
  PROVE  HoldsTheLog' /\ (failed' => failed \/ ~MapIsFresh \/ failed' = failed)
<1>1. CASE AddLeaf
  BY <1>1, AddKeeps
<1>2. CASE Reopen
  <2>1. mc' = DecodeMassifStart(mc) /\ leaves' = leaves /\ failed' = failed
    BY <1>2 DEF Reopen
  <2>2. Holding(DecodeMassifStart(mc), leaves)
    BY Reopened DEF HoldsTheLog
  <2> QED BY <2>1, <2>2 DEF HoldsTheLog
<1>3. CASE CreatePeakStackMap
  <2>1. /\ mc' = [mc EXCEPT !.peakStackMap = PeakStackMap(mc.height, mc.firstIndex)]
        /\ leaves' = leaves /\ failed' = failed
    BY <1>3 DEF CreatePeakStackMap
  <2>2. Holding([mc EXCEPT !.peakStackMap = PeakStackMap(mc.height, mc.firstIndex)], leaves)
    BY MapHolds DEF HoldsTheLog
  <2> QED BY <2>1, <2>2 DEF HoldsTheLog
<1>4. CASE NextMassif
  <2>1. ~HasSpace(mc) /\ mc' = StartNextMassif(mc) /\ leaves' = leaves /\ failed' = failed
    BY <1>4 DEF NextMassif
  <2>2. Holding(StartNextMassif(mc), leaves)
    BY <2>1, NextStarted DEF HoldsTheLog
  <2> QED BY <2>1, <2>2 DEF HoldsTheLog
<1>5. CASE UNCHANGED vars
  BY <1>5 DEF vars, HoldsTheLog
<1> QED BY <1>1, <1>2, <1>3, <1>4, <1>5 DEF Next

(* The context holds the log, however it was filled, written and read. *)
THEOREM MassifHoldsTheLog == Spec => []HoldsTheLog
<1>1. Init => HoldsTheLog
  BY InitHolds DEF HoldsTheLog
<1>2. HoldsTheLog /\ [Next]_vars => HoldsTheLog'
  BY StepKeeps
<1> QED BY <1>1, <1>2, PTL DEF Spec

(* AddHashedLeaf refuses a leaf only on a full massif or on a stale map:  *)
(* the ancestors it needs are found, with a map and without one.          *)
THEOREM RoomIsFound == Spec => RoomForLeaves
<1>1. HoldsTheLog /\ [Next]_vars => [failed' => failed \/ ~MapIsFresh]_vars
  <2> SUFFICES ASSUME HoldsTheLog, [Next]_vars
               PROVE  [failed' => failed \/ ~MapIsFresh]_vars
    OBVIOUS
  <2>1. failed' => failed \/ ~MapIsFresh \/ failed' = failed
    BY StepKeeps
  <2> QED BY <2>1
<1> QED BY <1>1, MassifHoldsTheLog, PTL DEF Spec, RoomForLeaves

(* Where the leaf of a node of the massif is *)
LEMMA LeafInMassif ==
  ASSUME NEW c, NEW n, Holding(c, n), NEW i \in c.firstIndex .. RangeCount(c) - 1
  PROVE  /\ LeafIndex(i) \in Nat /\ FirstLeaf(c) <= LeafIndex(i)
         /\ LeafIndex(i) < n /\ LeafIndex(i) < EndLeaf(c)
<1>1. /\ FirstLeaf(c) \in Nat /\ n \in Nat /\ n <= EndLeaf(c) /\ EndLeaf(c) \in Nat
      /\ c.firstIndex = MMRIndex(FirstLeaf(c)) /\ RangeCount(c) = MMRIndex(n)
      /\ MMRIndex(n) \in Nat /\ c.firstIndex \in Nat
  BY HoldingSizes DEF Holding
<1>2. i \in Nat /\ MMRIndex(FirstLeaf(c)) <= i /\ i < MMRIndex(n)
  BY <1>1
<1>3. LeafIndex(i) \in Nat /\ FirstLeaf(c) <= LeafIndex(i) /\ LeafIndex(i) < n
  BY <1>1, <1>2, NodesBetween
<1> QED BY <1>1, <1>3

(* The two tests for room agree: a massif is full when it has its leaves,  *)
(* and every node is in the massif that its index says.                    *)
THEOREM MassifsFill == Spec => []FullAgrees
<1>1. ASSUME HoldsTheLog PROVE FullAgrees
  <2>1. Holding(mc, leaves)
    BY <1>1 DEF HoldsTheLog
  <2>2. /\ mc.height \in Heights /\ mc.massifIndex \in Nat /\ leaves \in Nat
        /\ FirstLeaf(mc) \in Nat /\ EndLeaf(mc) = FirstLeaf(mc) + LeavesOf(mc.height)
        /\ LeavesOf(mc.height) \in Nat
        /\ MassifLeafCount(mc) = leaves - FirstLeaf(mc)
        /\ (MassifFull(mc) <=> leaves = EndLeaf(mc))
        /\ (~HasSpace(mc) <=> leaves = EndLeaf(mc))
    BY <2>1, HoldingSizes
  <2>3. HeightIndexLeafCount(mc.height - 1) = LeavesOf(mc.height)
    BY <2>2, MassifRun
  <2>4. MassifFull(mc) <=> MassifLeafCount(mc) = HeightIndexLeafCount(mc.height - 1)
    BY <2>2, <2>3
  <2>5. ASSUME NEW i \in mc.firstIndex .. RangeCount(mc) - 1
        PROVE  MassifIndexFromMMRIndex(mc.height, i) = mc.massifIndex
    <3>1. PICK x \in Nat : x = LeafIndex(i) /\ FirstLeaf(mc) <= x /\ x < EndLeaf(mc)
      BY <2>1, LeafInMassif
    <3>2. PICK h \in Heights, m \in Nat : h = mc.height /\ m = mc.massifIndex
      BY <2>2
    <3>3. m * LeavesOf(h) <= x /\ x < (m + 1) * LeavesOf(h)
      BY <3>1, <3>2 DEF FirstLeaf, EndLeaf
    <3>4. MassifIndexFromLeafIndex(h, x) = m
      BY <3>3, MassifOf
    <3> QED BY <3>1, <3>2, <3>4 DEF MassifIndexFromMMRIndex
  <2> QED BY <2>2, <2>4, <2>5 DEF FullAgrees
<1> QED BY <1>1, MassifHoldsTheLog, PTL

(* The index entry found by any node added with a leaf has the leaf's id.  *)
THEOREM IndexHasTheLeaves == Spec => []IndexMatchesLeaves
<1>1. ASSUME HoldsTheLog PROVE IndexMatchesLeaves
  <2>1. Holding(mc, leaves)
    BY <1>1 DEF HoldsTheLog
  <2>2. /\ leaves \in Nat /\ FirstLeaf(mc) \in Nat /\ leaves <= EndLeaf(mc)
        /\ EndLeaf(mc) = FirstLeaf(mc) + LeavesOf(mc.height)
        /\ LeavesOf(mc.height) \in Nat /\ IndexLen(mc.height) = 2 * LeavesOf(mc.height)
        /\ MassifLeafCount(mc) = leaves - FirstLeaf(mc)
        /\ mc.firstIndex = MMRIndex(FirstLeaf(mc))
        /\ mc.lastID = leaves /\ FirstLeaf(mc) <= leaves
    BY <2>1, HoldingSizes DEF Holding
  <2>3. PICK s \in Nat, a \in Nat : s = IndexLen(mc.height) /\ a = FirstLeaf(mc)
    BY <2>2
  <2>4. mc.trie = Entries(s, a, leaves)
    BY <2>1, <2>3 DEF Holding, Indexed
  <2>5. ASSUME NEW i \in mc.firstIndex .. RangeCount(mc) - 1
        PROVE  GetTrieEntry(mc, i) = IdTimestamp(LeafIndex(i))
    <3>1. PICK x \in Nat : x = LeafIndex(i) /\ a <= x /\ x < leaves /\ x < EndLeaf(mc)
      BY <2>1, <2>3, LeafInMassif
    <3>2. LeafCount(mc.firstIndex) = a
      BY <2>2, <2>3, LeafCountOf
    <3>3. GetTrieEntry(mc, i) = mc.trie[x - a]
      BY <3>1, <3>2 DEF GetTrieEntry, GetMassifLeafIndex
    <3>4. PICK k \in 0 .. s - 1 : k = x - a
      BY <2>2, <2>3, <3>1
    <3>5. mc.trie[k] = a + k + 1
      BY <2>2, <2>4, <3>1, <3>4 DEF Entries
    <3> QED BY <3>1, <3>3, <3>4, <3>5 DEF IdTimestamp
  <2>6. ASSUME NEW k \in MassifLeafCount(mc) .. IndexLen(mc.height) - 1
        PROVE  mc.trie[k] = 0
    <3>1. k \in 0 .. s - 1 /\ ~ (k < leaves - a)
      BY <2>2, <2>3
    <3> QED BY <2>4, <3>1 DEF Entries
  <2> QED BY <2>2, <2>5, <2>6 DEF IndexMatchesLeaves
<1> QED BY <1>1, MassifHoldsTheLog, PTL

(* The nodes and the stack of the massif are those of the whole log.       *)
THEOREM NodesAreTheLogs == Spec => []NodesAndStack
<1>1. ASSUME HoldsTheLog PROVE NodesAndStack
  <2>1. Holding(mc, leaves)
    BY <1>1 DEF HoldsTheLog
  <2>2. /\ mc.height \in Heights /\ mc.massifIndex \in Nat /\ leaves \in Nat
        /\ FirstLeaf(mc) \in Nat /\ MMRIndex(leaves) \in Nat
        /\ RangeCount(mc) = MMRIndex(leaves)
        /\ mc.firstIndex = MMRIndex(FirstLeaf(mc)) /\ mc.firstIndex \in Nat
        /\ IsContext(mc) /\ Placed(mc) /\ HoldsLog(mc, MMRIndex(leaves))
    BY <2>1, HoldingSizes DEF Holding
  <2>3. mc.firstIndex = MassifFirstLeaf(mc.height, mc.massifIndex)
    BY <2>2, MassifRun DEF FirstLeaf
  <2>4. mc.peakStackLen = PeakStackLen(mc.massifIndex)
    BY <2>2 DEF Placed, PeakStackLen
  <2>5. ASSUME NEW i \in mc.firstIndex .. RangeCount(mc) - 1
        PROVE  Get(mc, i) = FullLog[i]
    <3>1. i \in Nat /\ mc.firstIndex <= i /\ i < MMRIndex(leaves)
      BY <2>2
    <3> QED BY <2>2, <3>1, NodeRead
  <2>6. Stack(mc) = IF mc.firstIndex = 0 THEN << >>
                    ELSE PeakHashes(FullLog, mc.firstIndex - 1)
    <3> DEFINE q == PeaksOver(FirstLeaf(mc))
    <3>1. mc.peakStackLen = Len(q) /\ Tiles(q, FirstLeaf(mc)) /\ q \in Seq(Nat)
      <4>1. Tiles(q, FirstLeaf(mc))
        BY <2>2, PeaksOverTile
      <4> QED BY <2>2, <4>1 DEF Placed, Tiles
    <3>2. PICK d \in Seq(LogHashes), s \in Nat : d = mc.data /\ s = mc.peakStackLen
      BY <2>2 DEF IsContext
    <3>3. s <= Len(d) /\ \A y \in 1 .. s : d[y] = FullLog[q[y]]
      BY <2>2, <3>2, SizeOf DEF HoldsLog
    <3>4. FirstLeaf(mc) = 0 <=> mc.firstIndex = 0
      <4>1. PICK x \in Nat : x = FirstLeaf(mc)
        BY <2>2
      <4>2. x <= MMRIndex(x) /\ (x = 0 => MMRIndex(x) = 0) /\ MMRIndex(x) \in Nat
        BY MMRIndexBounds
      <4>3. x = 0 <=> MMRIndex(x) = 0
        BY <4>2
      <4> QED BY <2>2, <4>1, <4>3, Zenon
    <3>5. CASE FirstLeaf(mc) = 0
      <4>1. q = << >>
        BY <3>5 DEF PeaksOver
      <4>2. s = 0
        BY <3>1, <3>2, <4>1
      <4>3. SubSeq(d, 1, s) = << >>
        BY <4>2
      <4> QED BY <3>2, <3>4, <3>5, <4>3 DEF Stack
    <3>6. CASE FirstLeaf(mc) # 0
      <4>1. q = Peaks(mc.firstIndex - 1)
        BY <2>2, <3>6 DEF PeaksOver
      <4> HIDE DEF q
      <4>2. DOMAIN q = 1 .. s
        BY <3>1, <3>2
      <4>3. PICK w : w = SubSeq(d, 1, s)
        OBVIOUS
      <4>4. w = [y \in 1 .. s |-> d[y]]
        <5>1. w \in Seq(LogHashes) /\ Len(w) = s /\ \A y \in 1 .. s : w[y] = d[y]
          BY <3>3, <4>3
        <5>2. w = [y \in 1 .. s |-> w[y]]
          BY <5>1
        <5> QED BY <5>1, <5>2
      <4>5. w = [y \in DOMAIN q |-> FullLog[q[y]]]
        BY <3>3, <4>2, <4>4
      <4>6. PeakHashes(FullLog, mc.firstIndex - 1) = [y \in DOMAIN q |-> FullLog[q[y]]]
        BY <4>1 DEF PeakHashes
      <4> QED BY <3>2, <3>4, <3>6, <4>3, <4>5, <4>6 DEF Stack
    <3> QED BY <3>5, <3>6
  <2> QED BY <2>2, <2>3, <2>4, <2>5, <2>6 DEF NodesAndStack
<1> QED BY <1>1, MassifHoldsTheLog, PTL

-----------------------------------------------------------------------------
(* What a massif proves alone                                              *)

(* The node over the k-th run of 2^g leaves is in a massif that begins     *)
(* after a leaves, or is a peak before it.                                 *)
InReach(a, g, k) == PeakOver(a, g, k) \/ a < (k + 1) * 2^g

(* The parent of a node in reach is in reach, and so is its other child.   *)
LEMMA ReachGrows ==
  ASSUME NEW a \in Nat, NEW g \in Nat, NEW k \in Nat, InReach(a, g, k), NEW j \in Nat,
         k = 2 * j \/ k = 2 * j + 1
  PROVE  InReach(a, g + 1, j) /\ InReach(a, g, 2 * j) /\ InReach(a, g, 2 * j + 1)
<1>1. /\ 2^(g + 1) = 2 * 2^g /\ 2^g \in Nat /\ 2^g > 0
  BY PowStep, PowType
<1>2. PICK z \in Nat, u \in Nat : z = 2^g /\ z > 0 /\ u = j * z
  BY <1>1
<1>3. /\ (2 * j + 1) * z = 2 * u + z /\ (2 * j + 2) * z = 2 * u + 2 * z
      /\ (j + 1) * (2 * z) = 2 * u + 2 * z /\ (2 * j + 1 + 1) * z = 2 * u + 2 * z
  BY <1>2
<1>4. a < 2 * u + 2 * z
  <2>1. CASE k = 2 * j
    BY <1>2, <1>3, <2>1 DEF InReach, PeakOver
  <2>2. CASE k = 2 * j + 1
    <3>1. ~PeakOver(a, g, k)
      BY <2>2 DEF PeakOver
    <3> QED BY <1>2, <1>3, <2>2, <3>1 DEF InReach
  <2> QED BY <2>1, <2>2
<1>5. InReach(a, g + 1, j)
  BY <1>1, <1>2, <1>3, <1>4 DEF InReach
<1>6. InReach(a, g, 2 * j + 1)
  BY <1>2, <1>3, <1>4 DEF InReach
<1>7. InReach(a, g, 2 * j)
  <2>1. CASE a < 2 * u + z
    BY <1>2, <1>3, <2>1 DEF InReach
  <2>2. CASE ~ (a < 2 * u + z)
    <3>1. (2 * j + 1) * 2^g <= a /\ a < (2 * j + 2) * 2^g
      BY <1>2, <1>3, <1>4, <2>2
    <3> QED BY <3>1 DEF InReach, PeakOver
  <2> QED BY <2>1, <2>2
<1> QED BY <1>5, <1>6, <1>7

(* A run that ends in a range has its node there.                          *)
ReachedIn(a, n, i) == \E g, k \in Nat : i = NodePos(g, k) - 1 /\ InReach(a, g, k) /\ (k + 1) * 2^g <= n

(* The path from a node in reach stays in reach.                           *)
LEMMA ClimbStaysInReach ==
  ASSUME NEW a \in Nat, NEW n \in Nat, NEW h \in Nat, NEW k \in Nat, NEW p, NEW K,
         ClimbsFrom(p, K, n, h, k), InReach(a, h, k)
  PROVE  \A x \in 1 .. Len(p) : ReachedIn(a, n, p[x])
<1>1. /\ p \in Seq(Nat) /\ K \in [0 .. Len(p) -> Nat] /\ K[0] = k /\ Len(p) \in Nat
      /\ \A x \in 1 .. Len(p) :
           /\ (K[x] + 1) * 2^(h + x) <= n
           /\ \/ K[x - 1] = 2 * K[x] /\ p[x] = NodePos(h + x - 1, 2 * K[x] + 1) - 1
              \/ K[x - 1] = 2 * K[x] + 1 /\ p[x] = NodePos(h + x - 1, 2 * K[x]) - 1
  BY DEF ClimbsFrom, Climbing
<1> DEFINE P(x) == x <= Len(p) => InReach(a, h + x, K[x])
<1>2. ASSUME NEW x \in Nat, x + 1 <= Len(p), InReach(a, h + x, K[x])
      PROVE  InReach(a, h + (x + 1), K[x + 1]) /\ ReachedIn(a, n, p[x + 1])
  <2>1. PICK y \in 1 .. Len(p) : y = x + 1
    BY <1>1, <1>2
  <2>2. x \in 0 .. Len(p) /\ y \in 0 .. Len(p) /\ y - 1 = x /\ h + y - 1 = h + x /\ h + y = (h + x) + 1
    BY <1>1, <1>2, <2>1
  <2>3. PICK j \in Nat, l \in Nat, g \in Nat : j = K[y] /\ l = K[x] /\ g = h + x
    <3>1. K[y] \in Nat /\ K[x] \in Nat
      BY <1>1, <2>2
    <3>2. h + x \in Nat
      OBVIOUS
    <3> QED BY <3>1, <3>2
  <2>4. (j + 1) * 2^(g + 1) <= n /\
        (\/ l = 2 * j /\ p[y] = NodePos(g, 2 * j + 1) - 1
         \/ l = 2 * j + 1 /\ p[y] = NodePos(g, 2 * j) - 1)
    BY <1>1, <2>1, <2>2, <2>3
  <2>5. InReach(a, g + 1, j) /\ InReach(a, g, 2 * j) /\ InReach(a, g, 2 * j + 1)
    <3>1. InReach(a, g, l)
      BY <1>2, <2>3
    <3> QED BY <2>4, <3>1, ReachGrows
  <2>6. (2 * j + 1) * 2^g <= n /\ (2 * j + 1 + 1) * 2^g <= n /\ 2 * j \in Nat /\ 2 * j + 1 \in Nat
    <3>1. PICK z \in Nat, u \in Nat : z = 2^g /\ z > 0 /\ u = j * z /\ 2^(g + 1) = 2 * z
      BY PowStep, PowType
    <3>2. (2 * j + 1) * z = 2 * u + z /\ (2 * j + 1 + 1) * z = 2 * u + 2 * z
          /\ (j + 1) * (2 * z) = 2 * u + 2 * z
      BY <3>1
    <3> QED BY <2>4, <3>1, <3>2
  <2>7. ReachedIn(a, n, p[y])
    BY <2>4, <2>5, <2>6 DEF ReachedIn
  <2> QED BY <2>1, <2>2, <2>3, <2>5, <2>7
<1>3. P(0)
  <2>1. h + 0 = h
    OBVIOUS
  <2> QED BY <1>1, <2>1
<1>4. \A x \in 0 .. Len(p) : P(x)
  <2> DEFINE T == {x \in Nat : ~P(x)}
  <2>1. ASSUME T # {} PROVE FALSE
    <3>1. PICK x \in T : \A y \in T : x <= y
      <4>1. T \in SUBSET Nat
        OBVIOUS
      <4> QED BY <2>1, <4>1, NatLeast
    <3>2. x \in Nat /\ ~P(x)
      OBVIOUS
    <3> HIDE DEF P
    <3>3. x # 0
      BY <1>3, <3>2
    <3>4. PICK w \in Nat : w + 1 = x
      BY <3>2, <3>3
    <3>5. P(w)
      BY <3>1, <3>4
    <3>6. P(w) => P(w + 1)
      BY <1>1, <1>2 DEF P
    <3> QED BY <3>2, <3>4, <3>5, <3>6
  <2>2. \A x \in Nat : P(x)
    BY <2>1
  <2> HIDE DEF P
  <2> QED BY <2>2, <1>1
<1>5. ASSUME NEW y \in 1 .. Len(p) PROVE ReachedIn(a, n, p[y])
  <2>1. PICK x \in 0 .. Len(p) : x \in Nat /\ y = x + 1 /\ x <= Len(p) /\ x + 1 <= Len(p)
    BY <1>1
  <2>2. InReach(a, h + x, K[x])
    BY <1>4, <2>1
  <2> QED BY <1>2, <2>1, <2>2
<1> QED BY <1>5

(* The peaks that are as high as a massif are those over the leaves before *)
(* it; adding a leaf to them merges none.                                  *)
LEMMA HighPeaks ==
  ASSUME NEW h \in Heights, NEW m \in Nat, NEW g \in Nat, NEW k \in Nat
  PROVE  PeakOver(m * LeavesOf(h), g, k)
           <=> PeakOver(m * LeavesOf(h) + 1, g, k) /\ g >= h - 1
<1>1. h - 1 \in Nat /\ h - 1 # 0 /\ LeavesOf(h) = 2^(h - 1) /\ m * LeavesOf(h) \in Nat
  BY MassifRun DEF LeavesOf
<1>2. PICK b \in Nat : b = h - 1 /\ b # 0
  BY <1>1
<1>3. PICK a \in Nat : a = m * 2^b /\ a = m * LeavesOf(h)
  BY <1>1, <1>2
<1>4. 2^g \in Nat /\ 2^g > 0
  BY PowType
<1>5. ASSUME PeakOver(a, g, k) PROVE g >= b
  <2>1. SUFFICES ASSUME g < b PROVE FALSE
    BY <1>2
  <2>2. PICK d \in Nat : b = g + 1 + d
    <3>1. b - g - 1 \in Nat /\ b = g + 1 + (b - g - 1)
      BY <1>2, <2>1
    <3> QED BY <3>1
  <2>3. 2^b = 2 * 2^g * 2^d /\ 2^d \in Nat
    <3>1. g + 1 \in Nat /\ 2^(g + 1) = 2 * 2^g
      BY PowStep
    <3>2. 2^(g + 1 + d) = 2^(g + 1) * 2^d
      BY <3>1, PowAdd
    <3> QED BY <2>2, <3>1, <3>2, PowType
  <2>4. PICK e \in Nat, z \in Nat : e = m * 2^d /\ z = 2^g /\ z > 0
    BY <1>4, <2>3
  <2>5. a = 2 * e * z
    <3>1. PICK w \in Nat : w = 2^d
      BY <2>3
    <3>2. a = m * (2 * z * w) /\ e = m * w
      BY <1>3, <2>3, <2>4, <3>1
    <3>3. m * (2 * z * w) = 2 * (m * w) * z
      OBVIOUS
    <3> QED BY <3>2, <3>3
  <2>6. PICK j \in Nat : k = 2 * j
    BY <1>5 DEF PeakOver
  <2>7. (2 * j + 1) * z <= 2 * e * z /\ 2 * e * z < (2 * j + 2) * z
    BY <1>5, <2>4, <2>5, <2>6 DEF PeakOver
  <2>8. 2 * e >= 2 * j + 1
    <3>1. SUFFICES ASSUME 2 * e <= 2 * j PROVE FALSE
      OBVIOUS
    <3>2. e <= j
      BY <3>1
    <3>3. PICK f \in Nat : j = e + f
      BY <3>2
    <3>4. (2 * j + 1) * z = 2 * e * z + 2 * (f * z) + z /\ f * z \in Nat
      BY <3>3
    <3> QED BY <2>4, <2>7, <3>4
  <2>9. 2 * e <= 2 * j + 1
    <3>1. SUFFICES ASSUME 2 * e >= 2 * j + 2 PROVE FALSE
      OBVIOUS
    <3>2. PICK f \in Nat : e = j + 1 + f
      BY <3>1
    <3>3. 2 * e * z = (2 * j + 2) * z + 2 * (f * z) /\ f * z \in Nat /\ (2 * j + 2) * z \in Nat
      BY <3>2
    <3> QED BY <2>4, <2>7, <3>3
  <2> QED BY <2>8, <2>9
<1>6. ASSUME g >= b PROVE PeakOver(a, g, k) <=> PeakOver(a + 1, g, k)
  <2>1. PICK c \in Nat, u \in Nat : a = 2 * c /\ 2^g = 2 * u
    <3>1. PICK y \in Nat, x \in Nat : b = y + 1 /\ g = x + 1
      <4>1. \A x \in Nat : x # 0 => x - 1 \in Nat /\ x = (x - 1) + 1
        OBVIOUS
      <4>2. g # 0
        <5>1. \A x, y \in Nat : x >= y /\ y # 0 => x # 0
          OBVIOUS
        <5> QED BY <1>2, <1>6, <5>1
      <4> QED BY <1>2, <4>1, <4>2
    <3>2. 2^b = 2 * 2^y /\ 2^g = 2 * 2^x /\ 2^x \in Nat /\ 2^y \in Nat
      BY <3>1, PowStep, PowType
    <3>3. a = 2 * (m * 2^y)
      BY <1>3, <3>2
    <3> QED BY <3>2, <3>3
  <2>2. PICK v \in Nat, w \in Nat : v = (k + 1) * u /\ w = (k + 2) * u
    OBVIOUS
  <2>3. (k + 1) * 2^g = 2 * v /\ (k + 2) * 2^g = 2 * w
    BY <2>1, <2>2
  <2>4. (2 * v <= a <=> 2 * v <= a + 1) /\ (a < 2 * w <=> a + 1 < 2 * w)
    BY <2>1
  <2> QED BY <2>3, <2>4 DEF PeakOver
<1> QED BY <1>2, <1>3, <1>5, <1>6

(* The peaks over n leaves are in their list.                              *)
LEMMA PeakListed ==
  ASSUME NEW n \in Nat, NEW p
  PROVE  (\E j \in 1 .. Len(PeaksOver(n)) : PeaksOver(n)[j] = p)
           <=> \E g, k \in Nat : p = NodePos(g, k) - 1 /\ PeakOver(n, g, k)
<1>1. PICK q : q = PeaksOver(n)
  OBVIOUS
<1>2. Tiles(q, n)
  BY <1>1, PeaksOverTile
<1>3. ASSUME NEW j \in 1 .. Len(q), q[j] = p
      PROVE  \E g, k \in Nat : p = NodePos(g, k) - 1 /\ PeakOver(n, g, k)
  BY <1>2, <1>3 DEF Tiles, PeakAt
<1>4. ASSUME NEW g \in Nat, NEW k \in Nat, p = NodePos(g, k) - 1, PeakOver(n, g, k)
      PROVE  \E j \in 1 .. Len(q) : q[j] = p
  <2>1. g \in Bits(n)
    BY <1>4 DEF Bits
  <2>2. PICK j \in 1 .. Len(q), l \in Nat : PeakAt(q, n, j, g, l)
    BY <1>2, <2>1, PeakOfBit
  <2>3. PeakOver(n, g, l) /\ q[j] = NodePos(g, l) - 1
    BY <2>2 DEF PeakAt
  <2>4. l = k
    BY <1>4, <2>3, SamePeak
  <2> QED BY <1>4, <2>3, <2>4
<1> QED BY <1>1, <1>3, <1>4

(* The context c of a log with n leaves has the map of its massif.         *)
HoldingMap(c, n) == Holding(c, n) /\ c.peakStackMap = PeakStackMap(c.height, c.firstIndex)

(* The map has the peaks over the leaves before the massif.                *)
LEMMA MapHasPeaks ==
  ASSUME NEW c, NEW n, HoldingMap(c, n), NEW p
  PROVE  p \in DOMAIN c.peakStackMap
           <=> \E g, k \in Nat : p = NodePos(g, k) - 1 /\ PeakOver(FirstLeaf(c), g, k)
<1>1. PICK h \in Heights, m \in Nat : h = c.height /\ m = c.massifIndex
  BY HoldingSizes DEF HoldingMap
<1>2. PICK a \in Nat : a = m * LeavesOf(h) /\ a = FirstLeaf(c)
  <2>1. m * LeavesOf(h) \in Nat
    BY MassifRun
  <2>2. FirstLeaf(c) = m * LeavesOf(h)
    BY <1>1 DEF FirstLeaf
  <2> QED BY <2>1, <2>2
<1>3. c.peakStackMap = PeakStackMap(h, MMRIndex(m * LeavesOf(h)))
  BY <1>1, <1>2, HoldingSizes DEF HoldingMap
<1>4. p \in DOMAIN c.peakStackMap
        <=> (\E j \in 1 .. Len(PeaksOver(a + 1)) : PeaksOver(a + 1)[j] = p) /\ IndexHeight(p) >= h - 1
  <2>1. p \in DOMAIN PeakStackMap(h, MMRIndex(m * LeavesOf(h)))
          <=> /\ \E j \in 1 .. Len(PeaksOver(m * LeavesOf(h) + 1)) :
                   PeaksOver(m * LeavesOf(h) + 1)[j] = p
              /\ IndexHeight(p) >= h - 1
    BY StackMapIs
  <2> QED BY <1>2, <1>3, <2>1
<1>5. (\E j \in 1 .. Len(PeaksOver(a + 1)) : PeaksOver(a + 1)[j] = p)
        <=> \E g, k \in Nat : p = NodePos(g, k) - 1 /\ PeakOver(a + 1, g, k)
  <2>1. a + 1 \in Nat
    OBVIOUS
  <2> QED BY <2>1, PeakListed
<1>6. ASSUME NEW g \in Nat, NEW k \in Nat, p = NodePos(g, k) - 1
      PROVE  IndexHeight(p) = g
  <2>1. PosHeight(NodePos(g, k)) = g /\ NodePos(g, k) \in Nat
    BY HeightOfNode, NodePosBounds
  <2>2. p + 1 = NodePos(g, k)
    BY <1>6, <2>1
  <2> QED BY <2>1, <2>2 DEF IndexHeight
<1>7. \A g, k \in Nat : PeakOver(a, g, k) <=> PeakOver(a + 1, g, k) /\ g >= h - 1
  BY <1>2, HighPeaks
<1>8. (\E g, k \in Nat : p = NodePos(g, k) - 1 /\ PeakOver(a + 1, g, k)) /\ IndexHeight(p) >= h - 1
        <=> \E g, k \in Nat : p = NodePos(g, k) - 1 /\ PeakOver(a, g, k)
  BY <1>6, <1>7
<1> QED BY <1>2, <1>4, <1>5, <1>8

(* Every peak of the map is read from the stack.                           *)
LEMMA StackRead ==
  ASSUME NEW c, NEW n, HoldingMap(c, n), NEW g \in Nat, NEW k \in Nat,
         PeakOver(FirstLeaf(c), g, k)
  PROVE  /\ NodePos(g, k) - 1 \in Nat /\ NodePos(g, k) - 1 < c.firstIndex
         /\ Readable(c, NodePos(g, k) - 1)
         /\ Get(c, NodePos(g, k) - 1) = FullLog[NodePos(g, k) - 1]
<1>1. PICK h \in Heights, m \in Nat : h = c.height /\ m = c.massifIndex
  BY HoldingSizes DEF HoldingMap
<1>2. PICK a \in Nat : a = m * LeavesOf(h) /\ a = FirstLeaf(c)
  BY <1>1, MassifRun DEF FirstLeaf
<1>3. /\ Holding(c, n) /\ Placed(c) /\ HoldsLog(c, MMRIndex(n))
      /\ c.peakStackMap = PeakStackMap(h, MMRIndex(m * LeavesOf(h)))
      /\ c.firstIndex = MMRIndex(a) /\ MMRIndex(a) \in Nat
  BY <1>1, <1>2, HoldingSizes DEF HoldingMap, Holding
<1>4. PICK q, s : q = PeaksOver(a) /\ s = c.peakStackLen
  OBVIOUS
<1>5. /\ Tiles(q, a) /\ Len(q) = s /\ q \in Seq(Nat)
      /\ \A y \in 1 .. s : c.data[y] = FullLog[q[y]]
  <2>1. Tiles(q, a)
    BY <1>4, PeaksOverTile
  <2> QED BY <1>2, <1>3, <1>4, <2>1 DEF Placed, HoldsLog, Tiles
<1>6. PICK p \in Nat : p = NodePos(g, k) - 1 /\ p + 1 = NodePos(g, k)
  <2>1. NodePos(g, k) \in Nat /\ NodePos(g, k) > 0
    BY NodePosBounds
  <2>2. NodePos(g, k) - 1 \in Nat /\ (NodePos(g, k) - 1) + 1 = NodePos(g, k)
    BY <2>1
  <2> QED BY <2>2
<1>7. p < MMRIndex(a)
  <2>1. (k + 1) * 2^g <= a
    BY <1>2 DEF PeakOver
  <2>2. NodePos(g, k) <= MMRIndex(a)
    BY <2>1, NodeInRange
  <2> QED BY <1>3, <1>6, <2>2
<1>8. p \in DOMAIN c.peakStackMap
  BY <1>6, MapHasPeaks
<1>9. PICK r : r = PeaksOver(a + 1)
  OBVIOUS
<1>10. PICK x \in 1 .. Len(r) : r[x] = p /\ c.peakStackMap[p] = x - 1
  <2>1. PlaceOf(h, m, p, PeakStackMap(h, MMRIndex(m * LeavesOf(h)))[p])
    BY <1>3, <1>8, StackMapIs
  <2> QED BY <1>2, <1>3, <1>9, <2>1 DEF PlaceOf
<1>11. PeakAt(r, a + 1, x, g, k)
  <2>1. PeakOver(a + 1, g, k)
    BY <1>2, HighPeaks
  <2> QED BY <1>6, <1>10, <2>1 DEF PeakAt
<1>12. PICK y \in 1 .. Len(q) : PeakAt(q, a, y, g, k)
  <2>1. \E y \in 1 .. Len(q) : q[y] = p
    <3>1. PeakOver(a, g, k)
      BY <1>2
    <3>2. \E y \in 1 .. Len(PeaksOver(a)) : PeaksOver(a)[y] = p
      <4>1. \E d, l \in Nat : p = NodePos(d, l) - 1 /\ PeakOver(a, d, l)
        BY <1>6, <3>1
      <4> QED BY <4>1, PeakListed
    <3>3. q = PeaksOver(a)
      BY <1>4
    <3> QED BY <3>2, <3>3
  <2>2. PICK y \in 1 .. Len(q) : q[y] = p
    BY <2>1
  <2>3. q[y] = NodePos(g, k) - 1 /\ PeakOver(a, g, k)
    BY <1>2, <1>6, <2>2
  <2> QED BY <2>3 DEF PeakAt
<1>13. y = x
  <2>1. a + 1 \in Nat
    OBVIOUS
  <2>2. Tiles(r, a + 1)
    BY <1>9, <2>1, PeaksOverTile
  <2> QED BY <1>5, <1>11, <1>12, <2>1, <2>2, SamePlace
<1>14. c.data[y] = FullLog[p] /\ y \in Nat /\ y - 1 < s /\ y - 1 + 1 = y
  BY <1>5, <1>6, <1>12 DEF PeakAt
<1>15. c.peakStackMap # NoMap
  <2>1. p # -1
    OBVIOUS
  <2> QED BY <1>8, <2>1 DEF NoMap
<1>16. peakStackIndex(c, p) = y - 1
  BY <1>10, <1>13, <1>15 DEF peakStackIndex
<1>17. PICK w \in Nat : w = c.firstIndex /\ p < w /\ ~ (p >= w) /\ w # 0
  BY <1>3, <1>7
<1>18. Readable(c, p)
  BY <1>4, <1>8, <1>14, <1>15, <1>16, <1>17 DEF Readable
<1>19. Get(c, p) = FullLog[p]
  BY <1>14, <1>16, <1>17 DEF Get
<1> QED BY <1>6, <1>17, <1>18, <1>19

(* What a massif shows to a proof: its nodes and the peaks of its stack,   *)
(* as they are in the log.                                                 *)
LEMMA SeenIsTheLogs ==
  ASSUME NEW c, NEW n, HoldingMap(c, n)
  PROVE  /\ DOMAIN NodesSeen(c) = DOMAIN c.peakStackMap \cup (c.firstIndex .. RangeCount(c) - 1)
         /\ \A i \in DOMAIN NodesSeen(c) : i \in Nat /\ NodesSeen(c)[i] = FullLog[i]
<1>1. /\ Holding(c, n) /\ c.firstIndex \in Nat /\ RangeCount(c) = MMRIndex(n) /\ MMRIndex(n) \in Nat
      /\ IsContext(c) /\ HoldsLog(c, MMRIndex(n))
  BY HoldingSizes DEF HoldingMap, Holding
<1>2. ASSUME NEW i \in DOMAIN c.peakStackMap
      PROVE  i \in Nat /\ Readable(c, i) /\ Get(c, i) = FullLog[i]
  <2>1. PICK g \in Nat, k \in Nat : i = NodePos(g, k) - 1 /\ PeakOver(FirstLeaf(c), g, k)
    BY MapHasPeaks
  <2> QED BY <2>1, StackRead
<1>3. ASSUME NEW i \in c.firstIndex .. RangeCount(c) - 1
      PROVE  i \in Nat /\ Readable(c, i) /\ Get(c, i) = FullLog[i]
  <2>1. i \in Nat /\ c.firstIndex <= i /\ i < MMRIndex(n)
    BY <1>1
  <2> QED BY <1>1, <2>1, NodeRead
<1> QED BY <1>2, <1>3 DEF NodesSeen

(* The nodes in reach are seen.                                            *)
LEMMA ReachIsSeen ==
  ASSUME NEW c, NEW n, HoldingMap(c, n)
  PROVE  \A i : i \in DOMAIN NodesSeen(c) <=> ReachedIn(FirstLeaf(c), n, i)
<1>1. PICK a \in Nat, f \in Nat, e \in Nat : /\ a = FirstLeaf(c) /\ f = c.firstIndex /\ e = RangeCount(c)
                            /\ f = MMRIndex(a) /\ e = MMRIndex(n) /\ n \in Nat /\ a <= n
  BY HoldingSizes DEF HoldingMap, Holding
<1>2. ASSUME NEW i, i \in DOMAIN NodesSeen(c)
      PROVE  ReachedIn(a, n, i)
  <2>1. CASE i \in DOMAIN c.peakStackMap
    <3>1. PICK g \in Nat, k \in Nat : i = NodePos(g, k) - 1 /\ PeakOver(a, g, k)
      BY <1>1, <2>1, MapHasPeaks
    <3>2. (k + 1) * 2^g <= n
      <4>1. (k + 1) * 2^g <= a /\ (k + 1) * 2^g \in Nat
        BY <3>1, RunEnds DEF PeakOver
      <4> QED BY <1>1, <4>1
    <3> QED BY <3>1, <3>2 DEF ReachedIn, InReach
  <2>2. CASE i \in f .. e - 1
    <3>1. i \in Nat /\ i + 1 \in Nat /\ i + 1 # 0
      BY <2>2
    <3>2. PICK g \in Nat, k \in Nat : i + 1 = NodePos(g, k)
      BY <3>1, EveryPosition
    <3>3. ~ (NodePos(g, k) <= MMRIndex(a)) /\ NodePos(g, k) <= MMRIndex(n)
      BY <1>1, <2>2, <3>1, <3>2
    <3>4. ~ ((k + 1) * 2^g <= a) /\ (k + 1) * 2^g <= n /\ (k + 1) * 2^g \in Nat
      BY <1>1, <3>3, NodeInRange, RunEnds
    <3>5. a < (k + 1) * 2^g
      BY <3>4
    <3>6. i = NodePos(g, k) - 1
      BY <3>1, <3>2
    <3> QED BY <3>4, <3>5, <3>6 DEF ReachedIn, InReach
  <2> QED BY <1>1, <1>2, <2>1, <2>2, SeenIsTheLogs
<1>3. ASSUME NEW g \in Nat, NEW k \in Nat, InReach(a, g, k), (k + 1) * 2^g <= n
      PROVE  NodePos(g, k) - 1 \in DOMAIN NodesSeen(c)
  <2>1. CASE PeakOver(a, g, k)
    <3>1. NodePos(g, k) - 1 \in DOMAIN c.peakStackMap
      BY <1>1, <2>1, MapHasPeaks
    <3> QED BY <3>1, SeenIsTheLogs
  <2>2. CASE a < (k + 1) * 2^g
    <3>1. PICK p \in Nat : p = NodePos(g, k) /\ p > 0
      BY NodePosBounds
    <3>2. ~ ((k + 1) * 2^g <= a) /\ (k + 1) * 2^g \in Nat
      BY <2>2, RunEnds
    <3>3. ~ (p <= f) /\ p <= e
      BY <1>1, <1>3, <3>1, <3>2, NodeInRange
    <3>4. p - 1 \in f .. e - 1
      BY <3>3
    <3> QED BY <1>1, <3>1, <3>4, SeenIsTheLogs
  <2> QED BY <1>3, <2>1, <2>2 DEF InReach
<1> QED BY <1>1, <1>2, <1>3 DEF ReachedIn

(* A range that ends at a node has peaks when it is that of some leaves.   *)
LEMMA PeaksAtEnd ==
  ASSUME NEW n \in Nat, NEW j \in Nat, j < MMRIndex(n), Peaks(j) # << >>
  PROVE  \E b \in Nat : b # 0 /\ b <= n /\ MMRIndex(b) \in Nat /\ j = MMRIndex(b) - 1
<1>1. PICK g \in Nat, k \in Nat : j + 1 = NodePos(g, k)
  <2>1. j + 1 \in Nat /\ j + 1 # 0
    OBVIOUS
  <2> QED BY <2>1, EveryPosition
<1>2. j = NodePos(g, k) - 1
  BY <1>1
<1>3. PICK i \in Nat : k = 2 * i
  <2>1. PICK i \in Nat : k = 2 * i \/ k = 2 * i + 1
    BY EvenOrOdd
  <2>2. k # 2 * i + 1
    BY <1>2, NoPeaks
  <2> QED BY <2>1, <2>2
<1>4. 2^g \in Nat /\ 2^g > 0
  BY PowType
<1>5. PICK b \in Nat : b = (2 * i + 1) * 2^g /\ b # 0
  <2>1. (2 * i + 1) * 2^g \in Nat /\ (2 * i + 1) * 2^g = 2 * (i * 2^g) + 2^g /\ i * 2^g \in Nat
    BY <1>4
  <2>2. (2 * i + 1) * 2^g # 0
    BY <1>4, <2>1
  <2> QED BY <2>1, <2>2
<1>6. MMRIndex(b) = NodePos(g, k) /\ MMRIndex(b) \in Nat
  BY <1>3, <1>5, NextLeafPos, MMRIndexBounds
<1>7. b <= n
  <2>1. NodePos(g, k) <= MMRIndex(n)
    <3>1. MMRIndex(n) \in Nat
      BY MMRIndexBounds
    <3> QED BY <1>1, <3>1
  <2>2. (k + 1) * 2^g <= n
    BY <2>1, NodeInRange
  <2> QED BY <1>3, <1>5, <2>2
<1> QED BY <1>2, <1>5, <1>6, <1>7

(* A node in reach is proved from the massif as it is from the log.        *)
LEMMA ProvedInMassif ==
  ASSUME NEW c, NEW n, HoldingMap(c, n), NEW b \in Nat, b <= n,
         NEW i, ReachedIn(FirstLeaf(c), b, i)
  PROVE  /\ Provable(NodesSeen(c), MMRIndex(b) - 1, i)
         /\ InclusionProof(NodesSeen(c), MMRIndex(b) - 1, i)
              = InclusionProof(FullLog, MMRIndex(b) - 1, i)
<1>1. PICK a \in Nat : a = FirstLeaf(c) /\ n \in Nat
  BY HoldingSizes DEF HoldingMap
<1>2. PICK g \in Nat, k \in Nat : i = NodePos(g, k) - 1 /\ InReach(a, g, k) /\ (k + 1) * 2^g <= b
  BY <1>1 DEF ReachedIn
<1>3. i \in Nat /\ i <= MMRIndex(b) - 1 /\ IndexHeight(i) = g
  <2>1. NodePos(g, k) \in Nat /\ NodePos(g, k) > 0 /\ PosHeight(NodePos(g, k)) = g
    BY NodePosBounds, HeightOfNode
  <2>2. NodePos(g, k) <= MMRIndex(b) /\ MMRIndex(b) \in Nat
    BY <1>2, NodeInRange, MMRIndexBounds
  <2>3. i + 1 = NodePos(g, k)
    BY <1>2, <2>1
  <2> QED BY <1>2, <2>1, <2>2, <2>3 DEF IndexHeight
<1>4. PICK p : p = InclusionProofPath(MMRIndex(b) - 1, i)
  OBVIOUS
<1>5. PICK K : ClimbsFrom(p, K, b, g, k)
  BY <1>2, <1>3, <1>4, PathClimbs DEF InclusionProofPath
<1>6. DOMAIN p = 1 .. Len(p)
  BY <1>5 DEF ClimbsFrom, Climbing
<1>7. ASSUME NEW x \in DOMAIN p
      PROVE  p[x] \in DOMAIN NodesSeen(c) /\ NodesSeen(c)[p[x]] = FullLog[p[x]]
  <2>1. ReachedIn(a, b, p[x])
    BY <1>2, <1>5, <1>6, ClimbStaysInReach
  <2>2. ReachedIn(a, n, p[x])
    <3>1. PICK d \in Nat, l \in Nat : p[x] = NodePos(d, l) - 1 /\ InReach(a, d, l) /\ (l + 1) * 2^d <= b
      BY <2>1 DEF ReachedIn
    <3>2. (l + 1) * 2^d <= n
      BY <1>1, <3>1, RunEnds
    <3> QED BY <3>1, <3>2 DEF ReachedIn
  <2>3. PICK s : s = p[x]
    OBVIOUS
  <2>4. s \in DOMAIN NodesSeen(c)
    BY <1>1, <2>2, <2>3, ReachIsSeen
  <2>5. NodesSeen(c)[s] = FullLog[s]
    BY <2>4, SeenIsTheLogs
  <2> QED BY <2>3, <2>4, <2>5, Zenon
<1>8. Provable(NodesSeen(c), MMRIndex(b) - 1, i)
  BY <1>3, <1>4, <1>7 DEF Provable
<1>9. InclusionProof(NodesSeen(c), MMRIndex(b) - 1, i) = InclusionProof(FullLog, MMRIndex(b) - 1, i)
  BY <1>4, <1>7 DEF InclusionProof
<1> QED BY <1>8, <1>9

(* "proving or verifying a node in the current massif": every node that a  *)
(* massif shows is proved from it as it is from the whole log.             *)
THEOREM MassifsProveTheirNodes == Spec => []SelfContained
<1>1. ASSUME HoldsTheLog PROVE SelfContained
  <2>1. PICK c : c = [mc EXCEPT !.peakStackMap = PeakStackMap(mc.height, mc.firstIndex)]
    OBVIOUS
  <2>2. HoldingMap(c, leaves) /\ IsContext(mc)
    <3>1. Holding(mc, leaves) /\ Holding(c, leaves) /\ IsContext(mc)
      BY <1>1, <2>1, MapHolds DEF HoldsTheLog, Holding
    <3>2. c.peakStackMap = PeakStackMap(mc.height, mc.firstIndex) /\ c.height = mc.height
          /\ c.firstIndex = mc.firstIndex
      BY <2>1, <3>1 DEF IsContext
    <3> QED BY <3>1, <3>2 DEF HoldingMap
  <2>3. /\ c.firstIndex = mc.firstIndex /\ c.peakStackLen = mc.peakStackLen /\ c.data = mc.data
        /\ RangeCount(c) = RangeCount(mc)
    BY <2>1, <2>2 DEF IsContext, RangeCount, Count
  <2>4. PICK f \in Nat, e \in Nat : /\ f = mc.firstIndex /\ e = RangeCount(mc) /\ e = MMRIndex(leaves)
                                    /\ leaves \in Nat /\ f = MMRIndex(FirstLeaf(c))
                                    /\ FirstLeaf(c) \in Nat
    BY <2>2, <2>3, HoldingSizes DEF HoldingMap
  <2>5. ASSUME NEW j \in f - 1 .. e - 1, j >= 0, Peaks(j) # << >>,
               NEW i \in DOMAIN c.peakStackMap \cup (f .. e - 1), i <= j
        PROVE  /\ Provable(NodesSeen(c), j, i)
               /\ InclusionProof(NodesSeen(c), j, i) = InclusionProof(FullLog, j, i)
    <3>1. j \in Nat /\ j < MMRIndex(leaves)
      BY <2>4, <2>5
    <3>2. PICK b \in Nat : b <= leaves /\ j = MMRIndex(b) - 1 /\ MMRIndex(b) \in Nat
      BY <2>4, <2>5, <3>1, PeaksAtEnd
    <3>3. ReachedIn(FirstLeaf(c), leaves, i)
      <4>1. i \in DOMAIN NodesSeen(c)
        BY <2>2, <2>3, <2>4, SeenIsTheLogs
      <4> QED BY <2>2, <4>1, ReachIsSeen
    <3>4. PICK g \in Nat, k \in Nat : i = NodePos(g, k) - 1 /\ InReach(FirstLeaf(c), g, k)
      BY <3>3 DEF ReachedIn
    <3>5. (k + 1) * 2^g <= b
      <4>1. NodePos(g, k) \in Nat
        BY NodePosBounds
      <4>2. NodePos(g, k) <= MMRIndex(b)
        BY <2>5, <3>2, <3>4, <4>1
      <4> QED BY <4>2, NodeInRange
    <3>6. ReachedIn(FirstLeaf(c), b, i)
      BY <3>4, <3>5 DEF ReachedIn
    <3> QED BY <2>2, <3>2, <3>6, ProvedInMassif
  <2> QED BY <2>1, <2>3, <2>4, <2>5 DEF SelfContained, NodesSeen
<1> QED BY <1>1, MassifHoldsTheLog, PTL

-----------------------------------------------------------------------------
(* The first leaves of a range have a range of their own, in its front.    *)
LEMMA FirstRange ==
  ASSUME NEW LeafValues, NEW H, NEW ns, NEW vs, TreeOf(LeafValues, H, ns, vs),
         NEW b \in Nat, b <= Len(vs)
  PROVE  /\ TreeOf(LeafValues, H, SubSeq(ns, 1, MMRIndex(b)), SubSeq(vs, 1, b))
         /\ Len(SubSeq(vs, 1, b)) = b /\ Len(SubSeq(ns, 1, MMRIndex(b))) = MMRIndex(b)
         /\ IsPrefix(SubSeq(vs, 1, b), vs)
<1>1. /\ vs \in Seq(LeafValues) /\ vs \in Seq(H) /\ ns \in Seq(H) /\ Len(ns) = MMRIndex(Len(vs))
      /\ HashesOf(ns, vs) /\ Len(vs) \in Nat
  BY DEF TreeOf, RangeOver
<1>2. PICK m \in Nat : m = MMRIndex(b) /\ m <= Len(ns)
  <2>1. MMRIndex(b) + (Len(vs) - b) <= MMRIndex(Len(vs))
    BY <1>1, MMRIndexMono
  <2>2. MMRIndex(b) \in Nat /\ MMRIndex(Len(vs)) \in Nat
    BY <1>1, MMRIndexBounds
  <2> QED BY <1>1, <2>1, <2>2
<1>3. PICK t, w : t = SubSeq(ns, 1, m) /\ w = SubSeq(vs, 1, b)
  OBVIOUS
<1>4. /\ t \in Seq(H) /\ Len(t) = m /\ \A i \in 1 .. m : t[i] = ns[i]
      /\ w \in Seq(H) /\ w \in Seq(LeafValues) /\ Len(w) = b /\ \A i \in 1 .. b : w[i] = vs[i]
  BY <1>1, <1>2, <1>3
<1>5. ASSUME NEW k \in Nat, NodePos(0, k) <= m
      PROVE  t[NodePos(0, k)] = w[k + 1]
  <2>1. k < b
    BY <1>2, <1>5, LeafInRange
  <2>2. k + 1 \in 1 .. b
    BY <2>1
  <2>3. NodePos(0, k) \in 1 .. m /\ NodePos(0, k) <= Len(ns)
    <3>1. NodePos(0, k) \in Nat /\ NodePos(0, k) > 0
      BY NodePosBounds
    <3> QED BY <1>1, <1>2, <1>5, <3>1
  <2>4. ns[NodePos(0, k)] = vs[k + 1]
    BY <1>1, <2>3 DEF HashesOf
  <2> QED BY <1>4, <2>2, <2>3, <2>4
<1>6. ASSUME NEW g \in Nat, NEW k \in Nat, NodePos(g + 1, k) <= m
      PROVE  t[NodePos(g + 1, k)]
               = HashPosPair64(NodePos(g + 1, k), t[NodePos(g, 2 * k)], t[NodePos(g, 2 * k + 1)])
  <2>1. PICK p \in Nat, l \in Nat, r \in Nat :
           /\ p = NodePos(g + 1, k) /\ l = NodePos(g, 2 * k) /\ r = NodePos(g, 2 * k + 1)
           /\ p = r + 1 /\ l < r /\ 0 < l
    <3>1. NodePos(g, 2 * k) > 0
      <4>1. 2 * k \in Nat
        OBVIOUS
      <4> QED BY <4>1, NodePosBounds
    <3>2. NodePos(g + 1, k) = NodePos(g, 2 * k + 1) + 1
      BY ChildPos
    <3>3. NodePos(g + 1, k) \in Nat
      <4>1. g + 1 \in Nat
        OBVIOUS
      <4> QED BY <4>1, NodePosBounds
    <3> QED BY <3>1, <3>2, <3>3, ChildPos
  <2>2. p \in 1 .. m /\ l \in 1 .. m /\ r \in 1 .. m /\ p <= Len(ns)
    <3>1. p <= m
      BY <1>6, <2>1
    <3>2. p \in 1 .. m /\ l \in 1 .. m /\ r \in 1 .. m
      BY <2>1, <3>1
    <3>3. Len(ns) \in Nat /\ m <= Len(ns)
      BY <1>1, <1>2
    <3> QED BY <3>1, <3>2, <3>3
  <2>3. ns[p] = HashPosPair64(p, ns[l], ns[r])
    <3>1. NodePos(g + 1, k) <= Len(ns)
      BY <2>1, <2>2
    <3>2. ns[NodePos(g + 1, k)]
            = HashPosPair64(NodePos(g + 1, k), ns[NodePos(g, 2 * k)], ns[NodePos(g, 2 * k + 1)])
      BY <1>1, <3>1 DEF HashesOf
    <3> QED BY <2>1, <3>2
  <2>4. t[p] = ns[p] /\ t[l] = ns[l] /\ t[r] = ns[r]
    BY <1>4, <2>2
  <2> QED BY <2>1, <2>3, <2>4
<1>7. HashesOf(t, w)
  BY <1>4, <1>5, <1>6 DEF HashesOf
<1>8. RangeOver(H, t, w)
  BY <1>2, <1>4, <1>7 DEF RangeOver
<1>9. IsPrefix(w, vs)
  <2>1. SubSeq(w, 1, b) = w
    BY <1>4
  <2> QED BY <1>1, <1>3, <1>4, <2>1 DEF IsPrefix
<1> QED BY <1>2, <1>3, <1>4, <1>8, <1>9 DEF TreeOf

-----------------------------------------------------------------------------
(* Logs that fork                                                          *)

(* The leaves of the log, and those of the logs it is told from *)
Entered == {LeafValue(n) : n \in Nat} \cup {<<"forked", n>> : n \in Nat}

(* A set of hashes that has them and is closed under hashing *)
SealHashes == CHOOSE H : Entered \subseteq H /\ PairsOf(H) \subseteq H

(* There is such a set, and no leaf is the hash of a node. *)
LEMMA SealHashesAre ==
  Entered \subseteq SealHashes /\ PairsOf(SealHashes) \subseteq SealHashes /\ NoLeafIsNode(Entered)
<1>1. \E H : Entered \subseteq H /\ PairsOf(H) \subseteq H
  BY HashesExist
<1>2. ASSUME NEW v \in Entered, NEW pos, NEW a, NEW b
      PROVE  v # HashPosPair64(pos, a, b)
  <2>1. PICK s, n : v = <<s, n>>
    BY DEF Entered, LeafValue
  <2> QED BY <2>1 DEF HashPosPair64
<1> QED BY <1>1, <1>2 DEF SealHashes, NoLeafIsNode

(* The log that differs after its first k leaves, and its first b leaves   *)
ForkLeaves(k) ==
  [n \in 1 .. MaxLeaves |-> IF n <= k THEN LeafValue(n - 1) ELSE <<"forked", n - 1>>]
ForkNodes(k) == FoldLeft(AddHashedLeaf, << >>, ForkLeaves(k))

LeavesTo(k, b) == SubSeq(ForkLeaves(k), 1, b)
RangeTo(k, b) == SubSeq(ForkNodes(k), 1, MMRIndex(b))

(* They are the leaves and the nodes of a range. *)
LEMMA ForkTree ==
  ASSUME NEW k \in Nat
  PROVE  /\ TreeOf(Entered, SealHashes, ForkNodes(k), ForkLeaves(k))
         /\ Len(ForkLeaves(k)) = MaxLeaves /\ Len(ForkNodes(k)) = MMRIndex(MaxLeaves)
<1>1. ForkLeaves(k) \in Seq(Entered) /\ Len(ForkLeaves(k)) = MaxLeaves
  <2>1. MaxLeaves \in Nat
    BY MaxLeavesAssumption
  <2>2. \A n \in 1 .. MaxLeaves :
          (IF n <= k THEN LeafValue(n - 1) ELSE <<"forked", n - 1>>) \in Entered
    <3>1. \A n \in 1 .. MaxLeaves : n - 1 \in Nat
      BY <2>1
    <3> QED BY <3>1 DEF Entered
  <2> QED BY <2>1, <2>2 DEF ForkLeaves
<1>2. ForkLeaves(k) \in Seq(SealHashes)
  BY <1>1, SealHashesAre
<1>3. RangeOver(SealHashes, ForkNodes(k), ForkLeaves(k))
  BY <1>2, SealHashesAre, BuildRange DEF ForkNodes
<1> QED BY <1>1, <1>3 DEF TreeOf, RangeOver

LEMMA ForkRange ==
  ASSUME NEW k \in Nat, NEW b \in Nat, b <= MaxLeaves
  PROVE  /\ TreeOf(Entered, SealHashes, RangeTo(k, b), LeavesTo(k, b))
         /\ Len(LeavesTo(k, b)) = b /\ Len(RangeTo(k, b)) = MMRIndex(b)
         /\ IsPrefix(LeavesTo(k, b), ForkLeaves(k))
BY ForkTree, FirstRange DEF LeavesTo, RangeTo

(* Two such logs have the leaves in common that neither differs in. *)
LEMMA ForkPrefix ==
  ASSUME NEW k \in Nat, NEW b \in Nat, NEW m \in Nat, NEW n \in Nat,
         b <= n, n <= m, n <= MaxLeaves
  PROVE  IsPrefix(LeavesTo(k, b), LeavesTo(m, n)) <=> b <= k
<1>1. PICK v, w : v = LeavesTo(k, b) /\ w = LeavesTo(m, n)
  OBVIOUS
<1>2. /\ v \in Seq(Entered) /\ w \in Seq(Entered) /\ Len(v) = b /\ Len(w) = n
      /\ \A i \in 1 .. b : v[i] = IF i <= k THEN LeafValue(i - 1) ELSE <<"forked", i - 1>>
      /\ \A i \in 1 .. n : w[i] = LeafValue(i - 1)
  <2>1. MaxLeaves \in Nat
    BY MaxLeavesAssumption
  <2>2. ForkLeaves(k) \in Seq(Entered) /\ ForkLeaves(m) \in Seq(Entered)
        /\ Len(ForkLeaves(k)) = MaxLeaves /\ Len(ForkLeaves(m)) = MaxLeaves
    BY ForkTree DEF TreeOf
  <2>3. /\ v \in Seq(Entered) /\ Len(v) = b /\ \A i \in 1 .. b : v[i] = ForkLeaves(k)[i]
        /\ w \in Seq(Entered) /\ Len(w) = n /\ \A i \in 1 .. n : w[i] = ForkLeaves(m)[i]
    BY <1>1, <2>1, <2>2 DEF LeavesTo
  <2>4. \A i \in 1 .. b : i \in 1 .. MaxLeaves
    BY <2>1
  <2>5. \A i \in 1 .. n : i \in 1 .. MaxLeaves /\ i <= m
    BY <2>1
  <2> QED BY <2>3, <2>4, <2>5 DEF ForkLeaves
<1>3. IsPrefix(v, w) <=> \A i \in 1 .. b : v[i] = w[i]
  BY <1>2 DEF IsPrefix
<1>4. \A i \in 1 .. b : v[i] = w[i] <=> i <= k
  <2>1. \A i : <<"forked", i>> # LeafValue(i)
    BY DEF LeafValue
  <2>2. \A i \in 1 .. b : i \in 1 .. n
    OBVIOUS
  <2> QED BY <1>2, <2>1, <2>2
<1>5. (\A i \in 1 .. b : i <= k) <=> b <= k
  OBVIOUS
<1> QED BY <1>1, <1>3, <1>4, <1>5

(* The peaks of a range are in it. *)
LEMMA PeaksInside ==
  ASSUME NEW b \in Nat, b # 0
  PROVE  /\ Tiles(Peaks(MMRIndex(b) - 1), b)
         /\ DOMAIN Peaks(MMRIndex(b) - 1) = 1 .. Len(Peaks(MMRIndex(b) - 1))
         /\ \A j \in DOMAIN Peaks(MMRIndex(b) - 1) :
              /\ Peaks(MMRIndex(b) - 1)[j] \in Nat /\ Peaks(MMRIndex(b) - 1)[j] < MMRIndex(b)
              /\ \E g, k \in Nat : /\ Peaks(MMRIndex(b) - 1)[j] = NodePos(g, k) - 1
                                   /\ PeakOver(b, g, k) /\ (k + 1) * 2^g <= b
<1>1. PICK q : q = Peaks(MMRIndex(b) - 1)
  OBVIOUS
<1>2. Tiles(q, b)
  BY <1>1, PeaksTile
<1>3. q \in Seq(Nat) /\ DOMAIN q = 1 .. Len(q)
  BY <1>2 DEF Tiles
<1>4. ASSUME NEW j \in DOMAIN q
      PROVE  /\ q[j] \in Nat /\ q[j] < MMRIndex(b)
             /\ \E g, k \in Nat : q[j] = NodePos(g, k) - 1 /\ PeakOver(b, g, k) /\ (k + 1) * 2^g <= b
  <2>1. PICK g \in Nat, k \in Nat : PeakAt(q, b, j, g, k)
    BY <1>2, <1>3 DEF Tiles
  <2>2. q[j] = NodePos(g, k) - 1 /\ PeakOver(b, g, k) /\ (k + 1) * 2^g <= b
    BY <2>1 DEF PeakAt, PeakOver
  <2>3. NodePos(g, k) <= MMRIndex(b) /\ NodePos(g, k) \in Nat /\ NodePos(g, k) > 0
        /\ MMRIndex(b) \in Nat
    BY <2>2, NodeInRange, NodePosBounds, MMRIndexBounds
  <2> QED BY <2>2, <2>3
<1> QED BY <1>1, <1>2, <1>3, <1>4

(* Stores with the same nodes have the same peaks and the same proofs.     *)
LEMMA PeaksReadTheSame ==
  ASSUME NEW b \in Nat, b # 0, NEW s, NEW t,
         \A j \in DOMAIN Peaks(MMRIndex(b) - 1) :
           s[Peaks(MMRIndex(b) - 1)[j]] = t[Peaks(MMRIndex(b) - 1)[j]]
  PROVE  PeakHashes(s, MMRIndex(b) - 1) = PeakHashes(t, MMRIndex(b) - 1)
BY DEF PeakHashes

LEMMA ProofsReadTheSame ==
  ASSUME NEW b \in Nat, NEW g \in Nat, NEW k \in Nat, (k + 1) * 2^g <= b, NEW s, NEW t,
         \A i \in Nat : i < MMRIndex(b) => s[i] = t[i]
  PROVE  InclusionProof(s, MMRIndex(b) - 1, NodePos(g, k) - 1)
           = InclusionProof(t, MMRIndex(b) - 1, NodePos(g, k) - 1)
<1>1. IndexHeight(NodePos(g, k) - 1) = g
  <2>1. PosHeight(NodePos(g, k)) = g /\ NodePos(g, k) \in Nat
    BY HeightOfNode, NodePosBounds
  <2>2. (NodePos(g, k) - 1) + 1 = NodePos(g, k)
    BY <2>1
  <2> QED BY <2>1, <2>2 DEF IndexHeight
<1>2. PICK p : p = InclusionProofPath(MMRIndex(b) - 1, NodePos(g, k) - 1)
  OBVIOUS
<1>3. PICK K : ClimbsFrom(p, K, b, g, k)
  BY <1>1, <1>2, PathClimbs DEF InclusionProofPath
<1>4. DOMAIN p = 1 .. Len(p)
  BY <1>3 DEF ClimbsFrom, Climbing
<1>5. ASSUME NEW x \in DOMAIN p PROVE s[p[x]] = t[p[x]]
  <2>1. p[x] \in Nat /\ p[x] < MMRIndex(b)
    BY <1>3, <1>4, ClimbInRange
  <2> QED BY <2>1
<1> QED BY <1>2, <1>5 DEF InclusionProof

(* The nodes of the log that differs after its first k leaves, read by     *)
(* their index, and its peaks                                              *)
LEMMA ForkRead ==
  ASSUME NEW k \in 0 .. MaxLeaves, NEW b \in Nat, b <= MaxLeaves
  PROVE  /\ \A i \in Nat : i < MMRIndex(b) => LogForkedAt[k][i] = StoreOf(RangeTo(k, b))[i]
         /\ b # 0 => PeakHashes(LogForkedAt[k], MMRIndex(b) - 1)
                       = PeakHashes(StoreOf(RangeTo(k, b)), Len(RangeTo(k, b)) - 1)
<1>1. MaxLeaves \in Nat /\ k \in Nat
  BY MaxLeavesAssumption
<1>2. LogForkedAt[k] = StoreOf(ForkNodes(k))
  BY DEF LogForkedAt, ForkNodes, ForkLeaves
<1>3. PICK m \in Nat, M \in Nat : m = MMRIndex(b) /\ M = MMRIndex(MaxLeaves) /\ m <= M
  <2>1. MMRIndex(b) + (MaxLeaves - b) <= MMRIndex(MaxLeaves)
    BY <1>1, MMRIndexMono
  <2> QED BY <1>1, <2>1, MMRIndexBounds
<1>4. PICK ns, t : ns = ForkNodes(k) /\ t = RangeTo(k, b)
  OBVIOUS
<1>5. ns \in Seq(SealHashes) /\ Len(ns) = M /\ t = SubSeq(ns, 1, m)
  BY <1>1, <1>3, <1>4, ForkTree DEF TreeOf, RangeOver, RangeTo
<1>6. Len(t) = m /\ \A i \in 1 .. m : t[i] = ns[i]
  BY <1>3, <1>5
<1>7. ASSUME NEW i \in Nat, i < m PROVE LogForkedAt[k][i] = StoreOf(t)[i]
  <2>1. i \in 0 .. M - 1 /\ i \in 0 .. m - 1 /\ i + 1 \in 1 .. m
    BY <1>3, <1>7
  <2>2. StoreOf(ns)[i] = ns[i + 1] /\ StoreOf(t)[i] = t[i + 1]
    BY <1>5, <1>6, <2>1 DEF StoreOf
  <2> QED BY <1>2, <1>4, <1>6, <2>1, <2>2
<1>8. ASSUME b # 0
      PROVE  PeakHashes(LogForkedAt[k], MMRIndex(b) - 1) = PeakHashes(StoreOf(t), MMRIndex(b) - 1)
  <2>1. \A j \in DOMAIN Peaks(MMRIndex(b) - 1) :
          LogForkedAt[k][Peaks(MMRIndex(b) - 1)[j]] = StoreOf(t)[Peaks(MMRIndex(b) - 1)[j]]
    BY <1>3, <1>7, <1>8, PeaksInside
  <2> QED BY <1>8, <2>1, PeaksReadTheSame
<1> QED BY <1>3, <1>4, <1>6, <1>7, <1>8

(* The log is the one that never differs. *)
LEMMA LogIsUnforked ==
  FullLog = LogForkedAt[MaxLeaves]
<1>1. MaxLeaves \in Nat /\ MaxLeaves \in 0 .. MaxLeaves
  BY MaxLeavesAssumption
<1>2. [n \in 1 .. MaxLeaves |-> LeafValue(n - 1)] = ForkLeaves(MaxLeaves)
  BY <1>1 DEF ForkLeaves
<1> QED BY <1>1, <1>2 DEF LogForkedAt, FullLog, ForkLeaves

(* The log over its first n leaves *)
LogTo(n) == RangeTo(MaxLeaves, n)
PeaksOfLog(n) == PeakHashes(StoreOf(LogTo(n)), MMRIndex(n) - 1)

LEMMA LogRead ==
  ASSUME NEW n \in Nat, n <= MaxLeaves
  PROVE  /\ TreeOf(Entered, SealHashes, LogTo(n), LeavesTo(MaxLeaves, n))
         /\ Len(LeavesTo(MaxLeaves, n)) = n /\ Len(LogTo(n)) = MMRIndex(n)
         /\ \A i \in Nat : i < MMRIndex(n) => FullLog[i] = StoreOf(LogTo(n))[i]
<1>1. MaxLeaves \in Nat /\ MaxLeaves \in 0 .. MaxLeaves
  BY MaxLeavesAssumption
<1>2. \A i \in Nat : i < MMRIndex(n) => LogForkedAt[MaxLeaves][i] = StoreOf(LogTo(n))[i]
  BY <1>1, ForkRead DEF LogTo
<1> QED BY <1>1, <1>2, LogIsUnforked, ForkRange DEF LogTo

(* A log is consistent with the state of a fork of it if the state is from *)
(* before the fork.                                                        *)
LEMMA ForksTold ==
  ASSUME NEW k \in 0 .. MaxLeaves, NEW n \in Nat, n <= MaxLeaves, NEW b \in Nat, b # 0, b <= n
  PROVE  CheckConsistency(StoreOf(LogTo(n)), MMRIndex(b), MMRIndex(n),
                          PeakHashes(LogForkedAt[k], MMRIndex(b) - 1)) <=> b <= k
<1>1. MaxLeaves \in Nat /\ k \in Nat /\ b <= MaxLeaves /\ n # 0
  BY MaxLeavesAssumption
<1>2. PICK na, va, nb, vb : /\ na = RangeTo(k, b) /\ va = LeavesTo(k, b)
                            /\ nb = LogTo(n) /\ vb = LeavesTo(MaxLeaves, n)
  OBVIOUS
<1>3. /\ TreeOf(Entered, SealHashes, na, va) /\ Len(va) = b /\ Len(na) = MMRIndex(b)
      /\ TreeOf(Entered, SealHashes, nb, vb) /\ Len(vb) = n /\ Len(nb) = MMRIndex(n)
  BY <1>1, <1>2, ForkRange DEF LogTo
<1>4. IsPrefix(va, vb) <=> b <= k
  BY <1>1, <1>2, ForkPrefix
<1>5. Accepts(na, nb) <=> IsPrefix(va, vb)
  BY <1>1, <1>3, SealHashesAre, AcceptedExtends, ExtendsAccepted
<1>6. PeakHashes(LogForkedAt[k], MMRIndex(b) - 1) = PeakHashes(StoreOf(na), Len(na) - 1)
  BY <1>1, <1>2, ForkRead
<1> QED BY <1>2, <1>3, <1>4, <1>5, <1>6 DEF Accepts

(* The peaks tell the log from a fork that differs before them.            *)
LEMMA PeaksTell ==
  ASSUME NEW k \in 0 .. MaxLeaves, NEW b \in Nat, b # 0, b <= MaxLeaves
  PROVE  PeakHashes(LogForkedAt[k], MMRIndex(b) - 1) = PeaksOfLog(b) <=> b <= k
<1>1. MaxLeaves \in Nat /\ k \in Nat /\ MaxLeaves \in 0 .. MaxLeaves
  BY MaxLeavesAssumption
<1>2. PeaksOfLog(b) = PeakHashes(LogForkedAt[MaxLeaves], MMRIndex(b) - 1)
  <2>1. Len(LogTo(b)) = MMRIndex(b)
    BY LogRead
  <2> QED BY <1>1, <2>1, ForkRead DEF LogTo, PeaksOfLog
<1>3. ASSUME PeakHashes(LogForkedAt[k], MMRIndex(b) - 1) = PeaksOfLog(b)
      PROVE  b <= k
  <2>1. CheckConsistency(StoreOf(LogTo(b)), MMRIndex(b), MMRIndex(b),
                         PeakHashes(LogForkedAt[MaxLeaves], MMRIndex(b) - 1))
    BY <1>1, ForksTold
  <2>2. CheckConsistency(StoreOf(LogTo(b)), MMRIndex(b), MMRIndex(b),
                         PeakHashes(LogForkedAt[k], MMRIndex(b) - 1))
    BY <1>2, <1>3, <2>1
  <2> QED BY <2>2, ForksTold
<1>4. ASSUME b <= k
      PROVE  PeakHashes(LogForkedAt[k], MMRIndex(b) - 1) = PeaksOfLog(b)
  <2>1. PICK na, va, nb, vb : /\ na = RangeTo(k, b) /\ va = LeavesTo(k, b)
                              /\ nb = LogTo(b) /\ vb = LeavesTo(MaxLeaves, b)
    OBVIOUS
  <2>2. /\ TreeOf(Entered, SealHashes, na, va) /\ Len(va) = b /\ Len(na) = MMRIndex(b)
        /\ TreeOf(Entered, SealHashes, nb, vb) /\ Len(vb) = b /\ Len(nb) = MMRIndex(b)
    BY <1>1, <2>1, ForkRange DEF LogTo
  <2>3. IsPrefix(va, vb)
    BY <1>1, <1>4, <2>1, ForkPrefix
  <2>4. PeakHashes(StoreOf(nb), Len(na) - 1) = PeakHashes(StoreOf(na), Len(na) - 1)
    BY <2>2, <2>3, SamePeakHashes
  <2>5. PeakHashes(LogForkedAt[k], MMRIndex(b) - 1) = PeakHashes(StoreOf(na), Len(na) - 1)
    BY <2>1, ForkRead
  <2> QED BY <2>1, <2>2, <2>4, <2>5 DEF PeaksOfLog
<1> QED BY <1>3, <1>4

-----------------------------------------------------------------------------
(* What a massif shows of the log                                          *)

(* The peaks over b leaves are in reach. *)
PeaksInReach(a, b) == \A g, k \in Nat : PeakOver(b, g, k) => InReach(a, g, k)

(* So they are, if the range ends in the massif. *)
LEMMA LaterPeaks ==
  ASSUME NEW a \in Nat, NEW b \in Nat, a <= b
  PROVE  PeaksInReach(a, b)
<1>1. ASSUME NEW g \in Nat, NEW k \in Nat, PeakOver(b, g, k)
      PROVE  InReach(a, g, k)
  <2>1. (k + 1) * 2^g \in Nat /\ (k + 2) * 2^g \in Nat
    <3>1. k + 2 \in Nat /\ 2^g \in Nat
      BY PowType
    <3> QED BY <3>1, RunEnds
  <2>2. (k + 1) * 2^g <= a => a < (k + 2) * 2^g
    BY <1>1, <2>1 DEF PeakOver
  <2>3. CASE (k + 1) * 2^g <= a
    BY <1>1, <2>2, <2>3 DEF PeakOver, InReach
  <2>4. CASE ~ ((k + 1) * 2^g <= a)
    BY <2>1, <2>4 DEF InReach
  <2> QED BY <2>3, <2>4
<1> QED BY <1>1 DEF PeaksInReach

(* A context shows the peaks that are in reach. *)
LEMMA PeaksSeen ==
  ASSUME NEW c, NEW n, HoldingMap(c, n), NEW b \in Nat, b # 0, b <= n,
         PeaksInReach(FirstLeaf(c), b)
  PROVE  /\ \A j \in DOMAIN Peaks(MMRIndex(b) - 1) :
              ReachedIn(FirstLeaf(c), b, Peaks(MMRIndex(b) - 1)[j])
         /\ \A j \in DOMAIN Peaks(MMRIndex(b) - 1) :
              Peaks(MMRIndex(b) - 1)[j] \in DOMAIN NodesSeen(c)
         /\ PeaksReadable(NodesSeen(c), MMRIndex(b))
         /\ PeakHashes(NodesSeen(c), MMRIndex(b) - 1) = PeaksOfLog(b)
<1>1. PICK a \in Nat : a = FirstLeaf(c) /\ n \in Nat /\ n <= MaxLeaves
  BY HoldingSizes DEF HoldingMap, Holding
<1>2. PICK q : q = Peaks(MMRIndex(b) - 1)
  OBVIOUS
<1>3. ASSUME NEW j \in DOMAIN q
      PROVE  /\ ReachedIn(a, b, q[j]) /\ q[j] \in DOMAIN NodesSeen(c)
             /\ NodesSeen(c)[q[j]] = StoreOf(LogTo(b))[q[j]]
  <2>1. PICK g \in Nat, k \in Nat : q[j] = NodePos(g, k) - 1 /\ PeakOver(b, g, k) /\ (k + 1) * 2^g <= b
    BY <1>2, PeaksInside
  <2>2. InReach(a, g, k)
    BY <1>1, <2>1 DEF PeaksInReach
  <2>3. (k + 1) * 2^g <= n
    BY <1>1, <2>1, RunEnds
  <2>4. ReachedIn(a, b, q[j]) /\ ReachedIn(a, n, q[j])
    BY <2>1, <2>2, <2>3 DEF ReachedIn
  <2>5. PICK i \in Nat : i = q[j] /\ i < MMRIndex(b)
    BY <1>2, PeaksInside
  <2>6. i \in DOMAIN NodesSeen(c)
    BY <1>1, <2>4, <2>5, ReachIsSeen
  <2>7. NodesSeen(c)[i] = FullLog[i]
    BY <2>6, SeenIsTheLogs
  <2>8. FullLog[i] = StoreOf(LogTo(b))[i]
    <3>1. b <= MaxLeaves
      BY <1>1, MaxLeavesAssumption
    <3> QED BY <2>5, <3>1, LogRead
  <2> QED BY <2>4, <2>5, <2>6, <2>7, <2>8
<1>4. PeakHashes(NodesSeen(c), MMRIndex(b) - 1) = PeaksOfLog(b)
  BY <1>2, <1>3, PeaksReadTheSame DEF PeaksOfLog
<1>5. PeaksReadable(NodesSeen(c), MMRIndex(b))
  BY <1>2, <1>3 DEF PeaksReadable, Range
<1> QED BY <1>1, <1>2, <1>3, <1>4, <1>5

(* Both stores prove node i of a range with n leaves, and prove it alike.  *)
ProvedAlike(s, t, n, i) ==
  /\ Provable(s, MMRIndex(n) - 1, i) /\ Provable(t, MMRIndex(n) - 1, i)
  /\ InclusionProof(s, MMRIndex(n) - 1, i) = InclusionProof(t, MMRIndex(n) - 1, i)

(* A massif proves the peaks that are in reach as the log does.            *)
LEMMA PeaksProved ==
  ASSUME NEW c, NEW n, HoldingMap(c, n), NEW b \in Nat, b # 0, b <= n,
         PeaksInReach(FirstLeaf(c), b), NEW j \in DOMAIN Peaks(MMRIndex(b) - 1)
  PROVE  ProvedAlike(NodesSeen(c), StoreOf(LogTo(n)), n, Peaks(MMRIndex(b) - 1)[j])
<1>1. n \in Nat /\ n # 0 /\ n <= MaxLeaves
  BY HoldingSizes DEF HoldingMap, Holding
<1>2. PICK s, t, q : s = NodesSeen(c) /\ t = StoreOf(LogTo(n)) /\ q = Peaks(MMRIndex(b) - 1)
  OBVIOUS
<1>3. /\ TreeOf(Entered, SealHashes, LogTo(n), LeavesTo(MaxLeaves, n))
      /\ Len(LeavesTo(MaxLeaves, n)) = n /\ Len(LogTo(n)) = MMRIndex(n)
      /\ \A i \in Nat : i < MMRIndex(n) => FullLog[i] = t[i]
  BY <1>1, <1>2, LogRead
<1>4. PICK g \in Nat, k \in Nat : q[j] = NodePos(g, k) - 1 /\ PeakOver(b, g, k) /\ (k + 1) * 2^g <= b
  BY <1>2, PeaksInside
<1>5. (k + 1) * 2^g <= n
  BY <1>1, <1>4, RunEnds
<1>6. InReach(FirstLeaf(c), g, k)
  BY <1>4 DEF PeaksInReach
<1>7. ReachedIn(FirstLeaf(c), n, q[j])
  BY <1>4, <1>5, <1>6 DEF ReachedIn
<1>8. /\ Provable(s, MMRIndex(n) - 1, q[j])
      /\ InclusionProof(s, MMRIndex(n) - 1, q[j]) = InclusionProof(FullLog, MMRIndex(n) - 1, q[j])
  BY <1>1, <1>2, <1>7, ProvedInMassif
<1>9. Provable(t, MMRIndex(n) - 1, q[j])
  BY <1>2, <1>3, <1>4, <1>5, InclusionProofOf
<1>10. InclusionProof(FullLog, MMRIndex(n) - 1, q[j]) = InclusionProof(t, MMRIndex(n) - 1, q[j])
  BY <1>1, <1>3, <1>4, <1>5, ProofsReadTheSame
<1> QED BY <1>2, <1>8, <1>9, <1>10 DEF ProvedAlike

(* What a massif shows is consistent with the state of an earlier range if *)
(* the whole log is, as long as the peaks of that range are in reach.      *)
LEMMA SeenConsistent ==
  ASSUME NEW c, NEW n, HoldingMap(c, n), NEW b \in Nat, b # 0, b <= n,
         PeaksInReach(FirstLeaf(c), b), NEW hashes
  PROVE  CheckConsistency(NodesSeen(c), MMRIndex(b), MMRIndex(n), hashes)
           <=> CheckConsistency(StoreOf(LogTo(n)), MMRIndex(b), MMRIndex(n), hashes)
<1>1. /\ n \in Nat /\ n # 0 /\ n <= MaxLeaves /\ FirstLeaf(c) \in Nat /\ FirstLeaf(c) <= n
  BY HoldingSizes DEF HoldingMap, Holding
<1>2. PICK s, t, q, r : /\ s = NodesSeen(c) /\ t = StoreOf(LogTo(n))
                        /\ q = Peaks(MMRIndex(b) - 1) /\ r = Peaks(MMRIndex(n) - 1)
  OBVIOUS
<1>3. /\ TreeOf(Entered, SealHashes, LogTo(n), LeavesTo(MaxLeaves, n))
      /\ Len(LeavesTo(MaxLeaves, n)) = n /\ Len(LogTo(n)) = MMRIndex(n)
      /\ \A i \in Nat : i < MMRIndex(n) => FullLog[i] = t[i]
  BY <1>1, <1>2, LogRead
<1>4. \A j \in DOMAIN q : ProvedAlike(s, t, n, q[j])
  BY <1>2, PeaksProved
<1>5. /\ ConsistencyProvable(s, MMRIndex(b) - 1, MMRIndex(n) - 1)
      /\ ConsistencyProvable(t, MMRIndex(b) - 1, MMRIndex(n) - 1)
  BY <1>2, <1>4 DEF ConsistencyProvable, ProvedAlike
<1>6. IndexConsistencyProof(s, MMRIndex(b) - 1, MMRIndex(n) - 1)
        = IndexConsistencyProof(t, MMRIndex(b) - 1, MMRIndex(n) - 1)
  BY <1>2, <1>4 DEF IndexConsistencyProof, ProvedAlike
<1>7. /\ \A j \in DOMAIN r : r[j] \in DOMAIN s
      /\ PeakHashes(s, MMRIndex(n) - 1) = PeakHashes(t, MMRIndex(n) - 1)
  BY <1>1, <1>2, LaterPeaks, PeaksSeen DEF PeaksOfLog
<1>8. \A j \in DOMAIN r : r[j] \in DOMAIN t
  <2>1. PICK size \in Nat : size = MMRIndex(n)
    BY <1>1, MMRIndexBounds
  <2>2. \A j \in DOMAIN r : r[j] \in Nat /\ r[j] < size
    BY <1>1, <1>2, <2>1, PeaksInside
  <2>3. DOMAIN t = 0 .. size - 1
    BY <1>2, <1>3, <2>1 DEF StoreOf
  <2> QED BY <2>2, <2>3
<1> QED BY <1>2, <1>5, <1>6, <1>7, <1>8 DEF CheckConsistency

-----------------------------------------------------------------------------
(* Seals                                                                   *)

(* A round of ReadPeaks *)
ReadRound(at, p) ==
  IF at.err \/ ~Readable(at.c, p) THEN [at EXCEPT !.err = TRUE]
  ELSE [c |-> AfterGet(at.c, p), err |-> FALSE, peaks |-> Append(at.peaks, Get(at.c, p))]

(* With the map of the massif nothing that is read is used up, and what    *)
(* ReadPeaks reads are the peaks of the log.                               *)
LEMMA PeaksAreRead ==
  ASSUME NEW c, NEW n, HoldingMap(c, n), c.peakStackMap # NoMap, n # 0
  PROVE  /\ ReadPeaks(c, MMRIndex(n) - 1).err = FALSE
         /\ ReadPeaks(c, MMRIndex(n) - 1).peaks = PeaksOfLog(n)
<1>1. n \in Nat /\ FirstLeaf(c) \in Nat /\ FirstLeaf(c) <= n
  BY HoldingSizes DEF HoldingMap, Holding
<1>2. PICK q : q = Peaks(MMRIndex(n) - 1)
  OBVIOUS
<1>3. q \in Seq(Nat) /\ DOMAIN q = 1 .. Len(q) /\ Len(q) \in Nat
  <2>1. Tiles(q, n)
    BY <1>1, <1>2, PeaksInside
  <2> QED BY <2>1 DEF Tiles
<1>4. /\ \A j \in 1 .. Len(q) : q[j] \in DOMAIN NodesSeen(c)
      /\ PeakHashes(NodesSeen(c), MMRIndex(n) - 1) = PeaksOfLog(n)
  BY <1>1, <1>2, <1>3, LaterPeaks, PeaksSeen
<1>5. \A j \in 1 .. Len(q) : Readable(c, q[j]) /\ NodesSeen(c)[q[j]] = Get(c, q[j])
  BY <1>4 DEF NodesSeen
<1> DEFINE E == {p \in Nat : Readable(c, p)}
           G == {Get(c, p) : p \in E}
           V == [c : {c}, err : {FALSE}, peaks : Seq(G)]
           base == [c |-> c, err |-> FALSE, peaks |-> << >>]
           Op == [s \in V \X E |-> ReadRound(s[1], s[2])]
           Is(f) == f = [s \in SUBSET DOMAIN q |->
                           IF s = {} THEN base ELSE ReadRound(f[s \ {Max(s)}], q[Max(s)])]
           F == CHOOSE f : Is(f)
<1>6. ReadPeaks(c, MMRIndex(n) - 1) = F[DOMAIN q]
  BY <1>2 DEF ReadPeaks, FoldLeft, MapThenFoldSet, ReadRound
<1>7. ASSUME NEW at \in V, NEW p \in E
      PROVE  /\ ReadRound(at, p) \in V
             /\ ReadRound(at, p).peaks = Append(at.peaks, Get(c, p))
  <2>1. AfterGet(c, p) = c
    BY DEF AfterGet
  <2>2. at.c = c /\ at.err = FALSE /\ at.peaks \in Seq(G) /\ Readable(c, p) /\ Get(c, p) \in G
    OBVIOUS
  <2>3. ReadRound(at, p) = [c |-> c, err |-> FALSE, peaks |-> Append(at.peaks, Get(c, p))]
    BY <2>1, <2>2 DEF ReadRound
  <2>4. Append(at.peaks, Get(c, p)) \in Seq(G)
    BY <2>2
  <2> HIDE DEF G
  <2> QED BY <2>3, <2>4
<1>8. q \in Seq(E)
  BY <1>3, <1>5
<1>9. base \in V /\ Op \in [V \X E -> V] /\ \A at \in V, p \in E : Op[<<at, p>>] = ReadRound(at, p)
  <2>1. base \in V
    <3>1. << >> \in Seq(G)
      OBVIOUS
    <3> HIDE DEF G
    <3> QED BY <3>1
  <2> HIDE DEF V, E, base
  <2> QED BY <1>7, <2>1
<1> HIDE DEF V, E, G, Op, base
<1>10. \E f : Is(f)
  <2>1. PICK f : FoldEquation(f, V, Op, base, q)
    BY <1>8, <1>9, FoldSolution
  <2>2. /\ f \in [SUBSET DOMAIN q -> V]
        /\ f = [s \in SUBSET DOMAIN q |->
                 IF s = {} THEN base ELSE Op[<<f[s \ {Max(s)}], q[Max(s)]>>]]
    BY <2>1 DEF FoldEquation
  <2>3. ASSUME NEW s \in SUBSET DOMAIN q, s # {}
        PROVE  Op[<<f[s \ {Max(s)}], q[Max(s)]>>] = ReadRound(f[s \ {Max(s)}], q[Max(s)])
    <3>1. s \ {Max(s)} \in SUBSET DOMAIN q /\ q[Max(s)] \in E
      BY <1>8, <2>3, MaxOfIndices
    <3>2. PICK at, p : at = f[s \ {Max(s)}] /\ p = q[Max(s)]
      OBVIOUS
    <3>3. at \in V /\ p \in E
      BY <2>2, <3>1, <3>2
    <3>4. Op[<<at, p>>] = ReadRound(at, p)
      BY <1>9, <3>3
    <3> QED BY <3>2, <3>4
  <2>4. Is(f)
    BY <2>2, <2>3
  <2> QED BY <2>4
<1>11. Is(F)
  <2> HIDE DEF Is
  <2> QED BY <1>10
<1> HIDE DEF F
<1>12. PICK r : FoldsTo(r, V, Op, base, q, F[DOMAIN q])
  <2>1. F[{}] = base
    BY <1>11
  <2>2. ASSUME NEW s \in SUBSET DOMAIN q, s # {}, F[s \ {Max(s)}] \in V
        PROVE  F[s] = Op[<<F[s \ {Max(s)}], q[Max(s)]>>]
    <3>1. q[Max(s)] \in E
      BY <1>8, <2>2, MaxOfIndices
    <3> QED BY <1>9, <1>11, <2>2, <3>1
  <2> HIDE DEF Is
  <2> QED BY <1>8, <1>9, <2>1, <2>2, FoldRun
<1>13. r \in [0 .. Len(q) -> V] /\ r[0] = base /\ r[Len(q)] = F[DOMAIN q]
  BY <1>12 DEF FoldsTo
<1>14. ASSUME NEW j \in 1 .. Len(q)
       PROVE  r[j - 1] \in V /\ r[j].peaks = Append(r[j - 1].peaks, Get(c, q[j]))
  <2>1. j - 1 \in 0 .. Len(q) /\ q[j] \in E
    BY <1>3, <1>8
  <2>2. r[j] = Op[<<r[j - 1], q[j]>>]
    BY <1>12 DEF FoldsTo
  <2>3. PICK at, p : at = r[j - 1] /\ p = q[j]
    OBVIOUS
  <2>4. at \in V /\ p \in E
    BY <1>13, <2>1, <2>3
  <2>5. r[j] = ReadRound(at, p)
    BY <1>9, <2>2, <2>3, <2>4
  <2>6. ReadRound(at, p).peaks = Append(at.peaks, Get(c, p))
    BY <1>7, <2>4
  <2> QED BY <2>3, <2>4, <2>5, <2>6
<1> DEFINE S == {j \in Nat : /\ r[j].peaks \in Seq(G) /\ Len(r[j].peaks) = j
                             /\ \A x \in 1 .. j : r[j].peaks[x] = Get(c, q[x])}
<1>15. \A j \in 0 .. Len(q) : j \in S
  <2>1. 0 \in S
    <3>1. r[0].peaks = << >>
      BY <1>13 DEF base
    <3>2. << >> \in Seq(G) /\ Len(<< >>) = 0 /\ 1 .. 0 = {}
      OBVIOUS
    <3>3. /\ r[0].peaks \in Seq(G) /\ Len(r[0].peaks) = 0
          /\ \A x \in 1 .. 0 : r[0].peaks[x] = Get(c, q[x])
      BY <3>1, <3>2
    <3> QED BY <3>3
  <2>2. ASSUME NEW j \in 1 .. Len(q), j - 1 \in S PROVE j \in S
    <3>1. PICK v : v = r[j - 1].peaks
      OBVIOUS
    <3>2. v \in Seq(G) /\ Len(v) = j - 1 /\ \A x \in 1 .. j - 1 : v[x] = Get(c, q[x])
      BY <2>2, <3>1
    <3>3. Get(c, q[j]) \in G
      BY <1>3, <1>5 DEF G, E
    <3>4. r[j].peaks = Append(v, Get(c, q[j]))
      BY <1>14, <3>1
    <3>5. PICK w : w = Append(v, Get(c, q[j]))
      OBVIOUS
    <3>6. w \in Seq(G) /\ Len(w) = j /\ \A x \in 1 .. j : w[x] = Get(c, q[x])
      BY <3>2, <3>3, <3>5
    <3>7. j \in Nat /\ r[j].peaks = w
      BY <3>4, <3>5
    <3>8. /\ r[j].peaks \in Seq(G) /\ Len(r[j].peaks) = j
          /\ \A x \in 1 .. j : r[j].peaks[x] = Get(c, q[x])
      BY <3>6, <3>7
    <3> QED BY <3>7, <3>8
  <2> HIDE DEF S
  <2> QED BY <1>3, <2>1, <2>2, UpTo
<1>16. PICK w : w = ReadPeaks(c, MMRIndex(n) - 1).peaks
  OBVIOUS
<1>17. w \in Seq(G) /\ Len(w) = Len(q) /\ \A x \in 1 .. Len(q) : w[x] = Get(c, q[x])
  <2>1. Len(q) \in 0 .. Len(q)
    BY <1>3
  <2>2. w = r[Len(q)].peaks
    BY <1>6, <1>13, <1>16
  <2> QED BY <1>15, <2>1, <2>2
<1>18. w = [j \in 1 .. Len(q) |-> Get(c, q[j])]
  <2>1. DOMAIN w = 1 .. Len(q)
    BY <1>17
  <2>2. w = [j \in DOMAIN w |-> w[j]]
    BY <1>17
  <2> QED BY <1>17, <2>1, <2>2
<1>19. w = PeaksOfLog(n)
  <2>1. PeakHashes(NodesSeen(c), MMRIndex(n) - 1) = [j \in 1 .. Len(q) |-> Get(c, q[j])]
    BY <1>2, <1>3, <1>5 DEF PeakHashes
  <2> QED BY <1>4, <1>18, <2>1
<1>20. ReadPeaks(c, MMRIndex(n) - 1).err = FALSE
  <2>1. r[Len(q)] \in V
    BY <1>3, <1>13
  <2>2. \A at \in V : at.err = FALSE
    BY DEF V
  <2> QED BY <1>6, <1>13, <2>1, <2>2
<1> QED BY <1>16, <1>19, <1>20

(* A seal of version 2, of a range that ends in the massif: it is taken if *)
(* what was signed are the peaks of the log, and the base is consistent    *)
(* with what the massif shows.                                             *)
LEMMA SealChecked ==
  ASSUME NEW c, NEW n, HoldingMap(c, n), NEW b \in Nat, b # 0, b <= n, FirstLeaf(c) <= b,
         NEW seal, seal.mmrSize = MMRIndex(b), seal.version # 0, NEW options
  PROVE  verifyContext(c, seal, options) <=>
           /\ SealPublicKey(seal, options)
           /\ seal.signed = PeaksOfLog(b)
           /\ options.base # NoBase =>
                /\ options.base.version # 0
                /\ CheckConsistency(NodesSeen(c), options.base.mmrSize, MMRIndex(n),
                                    options.base.peaks)
<1>1. /\ n \in Nat /\ n <= MaxLeaves /\ FirstLeaf(c) \in Nat /\ RangeCount(c) = MMRIndex(n)
      /\ MaxLeaves \in Nat
  BY HoldingSizes, MaxLeavesAssumption DEF HoldingMap, Holding
<1>2. PeaksInReach(FirstLeaf(c), b)
  BY <1>1, LaterPeaks
<1>3. /\ PeaksReadable(NodesSeen(c), MMRIndex(b))
      /\ PeakHashes(NodesSeen(c), MMRIndex(b) - 1) = PeaksOfLog(b)
  BY <1>2, PeaksSeen
<1>4. CheckConsistency(NodesSeen(c), MMRIndex(b), MMRIndex(n), PeaksOfLog(b))
  <2>1. MaxLeaves \in 0 .. MaxLeaves /\ b <= MaxLeaves
    BY <1>1
  <2>2. PeakHashes(LogForkedAt[MaxLeaves], MMRIndex(b) - 1) = PeaksOfLog(b)
    BY <2>1, PeaksTell
  <2>3. CheckConsistency(StoreOf(LogTo(n)), MMRIndex(b), MMRIndex(n), PeaksOfLog(b))
    BY <1>1, <2>1, <2>2, ForksTold
  <2> QED BY <1>2, <2>3, SeenConsistent
<1>5. seal.mmrSize <= RangeCount(c)
  <2>1. MMRIndex(b) + (n - b) <= MMRIndex(n) /\ MMRIndex(b) \in Nat /\ MMRIndex(n) \in Nat
    BY <1>1, MMRIndexMono, MMRIndexBounds
  <2> QED BY <1>1, <2>1
<1> QED BY <1>1, <1>3, <1>4, <1>5 DEF verifyContext, verifyContextV1V2

(* The context, with the map of its massif                                 *)
LEMMA MappedHolds ==
  ASSUME NEW c, NEW n, Holding(c, n)
  PROVE  /\ HoldingMap(Mapped(c), n)
         /\ FirstLeaf(Mapped(c)) = FirstLeaf(c) /\ RangeCount(Mapped(c)) = RangeCount(c)
         /\ Mapped(c).firstIndex = c.firstIndex
<1>1. Holding(Mapped(c), n) /\ IsContext(c)
  BY MapHolds DEF Holding, Mapped
<1>2. /\ Mapped(c).peakStackMap = PeakStackMap(c.height, c.firstIndex)
      /\ Mapped(c).height = c.height /\ Mapped(c).firstIndex = c.firstIndex
      /\ Mapped(c).massifIndex = c.massifIndex /\ Mapped(c).data = c.data
      /\ Mapped(c).peakStackLen = c.peakStackLen
  BY <1>1 DEF Mapped, IsContext
<1> QED BY <1>1, <1>2 DEF HoldingMap, FirstLeaf, RangeCount, Count

(* A massif with nodes has leaves of its own. *)
LEMMA HasLeaves ==
  ASSUME NEW c, NEW n, Holding(c, n), Count(c) > 0
  PROVE  /\ n \in Nat /\ n # 0 /\ n <= MaxLeaves
         /\ FirstLeaf(c) \in Nat /\ FirstLeaf(c) < n /\ RangeCount(c) = MMRIndex(n)
<1>1. PICK a \in Nat : /\ a = FirstLeaf(c) /\ n \in Nat /\ n <= MaxLeaves /\ a <= n
                       /\ c.firstIndex = MMRIndex(a) /\ Count(c) = MMRIndex(n) - c.firstIndex
                       /\ RangeCount(c) = MMRIndex(n) /\ MMRIndex(n) \in Nat
  BY HoldingSizes DEF Holding
<1>2. a # n
  BY <1>1
<1> QED BY <1>1, <1>2

(* ContextCommitted, with the map of the massif, seals the peaks of the    *)
(* log.  Whatever it seals without one, verifyContext takes the seal       *)
(* exactly if they are the log's: for massifs of any height, however many  *)
(* leaves there are and whatever massifs were opened and mapped before.    *)
THEOREM SealsOfTheLog == Spec => []SealedPeaks
<1>1. ASSUME HoldsTheLog PROVE SealedPeaks
  <2>1. Holding(mc, leaves)
    BY <1>1, MassifHoldsTheLog DEF HoldsTheLog
  <2>2. PICK sealed : sealed = ContextCommitted(mc, 2, "key")
    OBVIOUS
  <2>3. PICK read : read = ReadPeaks(mc, RangeCount(mc) - 1)
    OBVIOUS
  <2>4. sealed = IF Count(mc) = 0 \/ read.err THEN << >>
                 ELSE <<SealOf(2, RangeCount(mc), read.peaks, "key")>>
    BY <2>2, <2>3 DEF ContextCommitted
  <2>5. mc.peakStackMap # NoMap /\ MapIsFresh => HoldingMap(mc, leaves)
    BY <2>1 DEF MapIsFresh, HoldingMap
  <2>6. Count(mc) \in Nat
    <3>1. /\ MMRIndex(leaves) \in Nat /\ mc.firstIndex \in Nat /\ mc.firstIndex <= MMRIndex(leaves)
          /\ Count(mc) = MMRIndex(leaves) - mc.firstIndex
      BY <2>1, HoldingSizes
    <3> QED BY <3>1
  <2>7. ASSUME mc.peakStackMap # NoMap, MapIsFresh, Count(mc) > 0
        PROVE  read.err = FALSE /\ read.peaks = PeaksOfLog(leaves)
    BY <2>1, <2>3, <2>5, <2>7, HasLeaves, PeaksAreRead
  <2>8. ASSUME mc.peakStackMap # NoMap, MapIsFresh, Count(mc) > 0 PROVE sealed # << >>
    <3>1. ~read.err
      BY <2>7, <2>8
    <3>2. Count(mc) # 0
      BY <2>6, <2>8
    <3>3. PICK seal : sealed = <<seal>>
      BY <2>4, <3>1, <3>2
    <3> QED BY <3>3
  <2>9. ASSUME sealed # << >>
        PROVE  LET right == sealed[1].signed = PeakHashes(LogForkedAt[leaves], RangeCount(mc) - 1)
               IN /\ mc.peakStackMap # NoMap /\ MapIsFresh => right
                  /\ verifyContext(Mapped(mc), sealed[1], Options(NoKey, NoBase)) <=> right
    <3>1. Count(mc) > 0
      BY <2>4, <2>6, <2>9
    <3>2. PICK seal : seal = sealed[1] /\ seal = SealOf(2, RangeCount(mc), read.peaks, "key")
      BY <2>4, <2>9
    <3>3. seal.mmrSize = RangeCount(mc) /\ seal.version = 2 /\ seal.signed = read.peaks
      BY <3>2 DEF SealOf
    <3>4. /\ leaves \in Nat /\ leaves # 0 /\ leaves <= MaxLeaves /\ MaxLeaves \in Nat
          /\ FirstLeaf(mc) <= leaves /\ RangeCount(mc) = MMRIndex(leaves)
      BY <2>1, <3>1, HasLeaves, MaxLeavesAssumption
    <3>5. PeakHashes(LogForkedAt[leaves], MMRIndex(leaves) - 1) = PeaksOfLog(leaves)
      <4>1. leaves \in 0 .. MaxLeaves
        BY <3>4
      <4> QED BY <3>4, <4>1, PeaksTell
    <3>6. Options(NoKey, NoBase).base = NoBase /\ SealPublicKey(seal, Options(NoKey, NoBase))
      BY DEF Options, SealPublicKey
    <3>7. verifyContext(Mapped(mc), seal, Options(NoKey, NoBase)) <=> seal.signed = PeaksOfLog(leaves)
      BY <2>1, <3>3, <3>4, <3>6, MappedHolds, SealChecked
    <3>8. mc.peakStackMap # NoMap /\ MapIsFresh => seal.signed = PeaksOfLog(leaves)
      BY <2>7, <3>1, <3>3
    <3> QED BY <3>2, <3>4, <3>5, <3>7, <3>8
  <2> QED BY <2>2, <2>8, <2>9 DEF SealedPeaks
<1> QED BY <1>1, MassifHoldsTheLog, PTL

-----------------------------------------------------------------------------
(* Receipts                                                                *)

(* PeakIndex never comes to less than 0. *)
LEMMA PeakIndexType ==
  ASSUME NEW n \in Nat, NEW d \in Nat
  PROVE  PeakIndex(n, d) \in Nat
<1>1. PICK m \in Nat : m = n % 2^(d + 1) /\ Bits(m) \subseteq Bits(n)
  BY BitsOfRest
<1>2. /\ IsFiniteSet(Bits(n)) /\ OnesCount(n) = Cardinality(Bits(n))
      /\ OnesCount(m) = Cardinality(Bits(m))
  BY OnesCountIs
<1>3. Cardinality(Bits(m)) <= Cardinality(Bits(n))
  BY <1>1, <1>2, FS_Subset
<1>4. OnesCount(m) \in Nat /\ OnesCount(n) \in Nat
  BY OnesCountType
<1> QED BY <1>1, <1>2, <1>3, <1>4 DEF PeakIndex

(* It is the place of the peak over the leaves, in the list of peaks.      *)
LEMMA PlaceOfPeak ==
  ASSUME NEW n \in Nat, n # 0, NEW g \in Nat, NEW l \in Nat, PeakOver(n, g, l)
  PROVE  /\ PeakIndex(n, g) \in Nat
         /\ PeakIndex(n, g) + 1 \in 1 .. Len(Peaks(MMRIndex(n) - 1))
         /\ PeakAt(Peaks(MMRIndex(n) - 1), n, PeakIndex(n, g) + 1, g, l)
<1>1. PICK q : q = Peaks(MMRIndex(n) - 1)
  OBVIOUS
<1>2. Tiles(q, n) /\ Len(q) \in Nat
  <2>1. Tiles(q, n)
    BY <1>1, PeaksTile
  <2> QED BY <2>1 DEF Tiles
<1>3. g \in Bits(n)
  BY DEF Bits, PeakOver
<1>4. PICK y \in 1 .. Len(q), m \in Nat : PeakAt(q, n, y, g, m)
  BY <1>2, <1>3, PeakOfBit
<1>5. m = l
  BY <1>4, SamePeak DEF PeakAt
<1>6. PeakIndex(n, g) = y - 1
  BY <1>2, <1>4, PeakIndexIs
<1> QED BY <1>1, <1>2, <1>4, <1>5, <1>6

(* A proof leads to its own peak, with the value of its node, and to no    *)
(* other. A proof with no hashes leads to the value it is given.           *)
ShowsAt(ns, n, h, k, v, x) ==
  LET ph == PeakHashes(StoreOf(ns), Len(ns) - 1)
      proof == InclusionProof(StoreOf(ns), Len(ns) - 1, NodePos(h, k) - 1)
  IN IncludedRoot(NodePos(h, k) - 1, v, proof) = ph[x + 1]
       <=> IF x = PeakIndex(n, h + Len(proof)) THEN v = ns[NodePos(h, k)]
           ELSE proof = << >> /\ v = ph[x + 1]

LEMMA ReceiptShows ==
  ASSUME NEW LeafValues, NEW H, PairsOf(H) \subseteq H, NoLeafIsNode(LeafValues),
         NEW ns, NEW vs, TreeOf(LeafValues, H, ns, vs), Len(vs) # 0,
         NEW h \in Nat, NEW k \in Nat, (k + 1) * 2^h <= Len(vs),
         NEW v \in H, NEW x \in Nat, x < Len(PeakHashes(StoreOf(ns), Len(ns) - 1))
  PROVE  ShowsAt(ns, Len(vs), h, k, v, x)
<1>0. PICK ph, proof, own :
         /\ ph = PeakHashes(StoreOf(ns), Len(ns) - 1)
         /\ proof = InclusionProof(StoreOf(ns), Len(ns) - 1, NodePos(h, k) - 1)
         /\ own = PeakIndex(Len(vs), h + Len(proof))
  OBVIOUS
<1>1. PICK n \in Nat : n = Len(vs) /\ Len(ns) = MMRIndex(n)
  BY DEF TreeOf, RangeOver
<1>2. PICK p, K : ClimbsFrom(p, K, n, h, k) /\ Siblings(proof, H, ns, p)
  BY <1>0, <1>1, InclusionProofOf DEF ProofOf
<1>3. /\ Len(p) \in Nat /\ proof \in Seq(H) /\ Len(proof) = Len(p)
      /\ \A y \in 1 .. Len(p) : proof[y] = ns[p[y] + 1]
  BY <1>2 DEF ClimbsFrom, Climbing, Siblings
<1>4. PICK g \in Nat, l \in Nat : /\ g = h + Len(p) /\ l = K[Len(p)] /\ PeakOver(n, g, l)
                                  /\ (l + 1) * 2^g <= n
  <2>1. K \in [0 .. Len(p) -> Nat] /\ PeakOver(n, h + Len(p), K[Len(p)])
    BY <1>2 DEF ClimbsFrom, Climbing
  <2>2. Len(p) \in 0 .. Len(p) /\ h + Len(p) \in Nat
    BY <1>3
  <2> QED BY <2>1, <2>2 DEF PeakOver
<1>5. PICK q : q = Peaks(MMRIndex(n) - 1)
  OBVIOUS
<1>6. Tiles(q, n) /\ PeakList(LeafValues, H, ns, vs, q, ph)
  BY <1>0, <1>1, <1>5, PeaksTile, PeakHashesOf
<1>7. own \in Nat /\ own + 1 \in 1 .. Len(q) /\ PeakAt(q, n, own + 1, g, l)
  <2>1. own = PeakIndex(n, g)
    BY <1>0, <1>1, <1>3, <1>4
  <2> QED BY <1>1, <1>4, <1>5, <2>1, PlaceOfPeak
<1>8. PICK root : root = IncludedRoot(NodePos(h, k) - 1, v, proof)
  OBVIOUS
<1>9. ClimbsTo(LeafValues, ns, root, g, l, v, h, k, Len(p))
  <2>1. Climbing(p, K, Len(vs), h, k)
    BY <1>1, <1>2 DEF ClimbsFrom
  <2> QED BY <1>3, <1>4, <1>8, <2>1, ClimbEnds
<1>10. Len(ph) = Len(q) /\ Len(q) \in Nat
  BY <1>6 DEF PeakList, Tiles
<1>11. \A y \in 1 .. Len(q), f, m \in Nat : PeakAt(q, n, y, f, m) => ph[y] = ns[NodePos(f, m)]
  <2> SUFFICES ASSUME NEW y \in 1 .. Len(q), NEW f \in Nat, NEW m \in Nat, PeakAt(q, n, y, f, m)
               PROVE  ph[y] = ns[NodePos(f, m)]
    OBVIOUS
  <2>1. PICK e \in Nat, o \in Nat : IsPeak(q[y], n, e, o) /\ ph[y] = ns[NodePos(e, o)]
    BY <1>1, <1>6 DEF PeakList
  <2>2. NodePos(f, m) \in Nat /\ NodePos(e, o) \in Nat
    BY NodePosBounds
  <2>3. NodePos(f, m) - 1 = NodePos(e, o) - 1
    BY <2>1 DEF IsPeak, PeakAt
  <2>4. NodePos(f, m) = NodePos(e, o)
    BY <2>2, <2>3
  <2> QED BY <2>1, <2>4
<1>12. ASSUME x = own PROVE root = ph[x + 1] <=> v = ns[NodePos(h, k)]
  <2>1. ph[x + 1] = PeakValue(ns, p, K, h)
    <3>1. ph[own + 1] = ns[NodePos(g, l)]
      BY <1>7, <1>11
    <3> QED BY <1>4, <1>12, <3>1 DEF PeakValue
  <2>2. LeadsToPeak(ns, v, h, k, p, K, proof)
    BY <1>1, <1>2, WholeProof
  <2> QED BY <1>8, <2>1, <2>2 DEF LeadsToPeak
<1>13. ASSUME x # own PROVE root = ph[x + 1] <=> proof = << >> /\ v = ph[x + 1]
  <2>1. Len(p) = 0 => root = v /\ proof = << >>
    BY <1>3, <1>9 DEF ClimbsTo
  <2>2. Len(p) # 0 => proof # << >>
    BY <1>3
  <2>3. ASSUME Len(p) # 0 PROVE root # ph[x + 1]
    <3>1. Stamped(LeafValues, root, g, l)
      BY <1>9, <2>3 DEF ClimbsTo
    <3>2. x + 1 \in 1 .. Len(q)
      BY <1>0, <1>10
    <3>3. PICK f \in Nat, m \in Nat : PeakAt(q, n, x + 1, f, m)
      BY <1>6, <3>2 DEF Tiles
    <3>4. PeakOver(n, f, m) /\ (m + 1) * 2^f <= n
      BY <3>3 DEF PeakAt, PeakOver
    <3>5. Stamped(LeafValues, ph[x + 1], f, m)
      <4>1. ph[x + 1] = ns[NodePos(f, m)]
        BY <1>11, <3>2, <3>3
      <4>2. Stamped(LeafValues, ns[NodePos(f, m)], f, m)
        BY <1>1, <3>4, NodeStamped
      <4> QED BY <4>1, <4>2
    <3>6. ASSUME root = ph[x + 1] PROVE FALSE
      <4>1. Stamped(LeafValues, root, f, m)
        BY <3>5, <3>6
      <4>2. f = g
        BY <1>1, <1>4, <3>1, <3>4, <4>1, StampedOnce
      <4>3. PeakIndex(n, f) = (x + 1) - 1
        BY <1>6, <3>2, <3>3, PeakIndexIs
      <4>4. PeakIndex(n, g) = (own + 1) - 1
        BY <1>6, <1>7, PeakIndexIs
      <4> QED BY <1>7, <1>13, <4>2, <4>3, <4>4
    <3> QED BY <3>6
  <2> QED BY <2>1, <2>2, <2>3
<1> QED BY <1>0, <1>8, <1>12, <1>13 DEF ShowsAt

(* Below a fork, the log that forks is the log. *)
LEMMA BelowFork ==
  ASSUME NEW k \in 0 .. MaxLeaves, NEW b \in Nat, b <= k
  PROVE  \A i \in Nat : i < MMRIndex(b) => LogForkedAt[k][i] = StoreOf(LogTo(b))[i]
<1>1. MaxLeaves \in Nat /\ k \in Nat /\ b <= MaxLeaves
  BY MaxLeavesAssumption
<1>2. PICK na, va, nb, vb : /\ na = RangeTo(k, b) /\ va = LeavesTo(k, b)
                            /\ nb = LogTo(b) /\ vb = LeavesTo(MaxLeaves, b)
  OBVIOUS
<1>3. /\ TreeOf(Entered, SealHashes, na, va) /\ Len(na) = MMRIndex(b)
      /\ TreeOf(Entered, SealHashes, nb, vb) /\ Len(nb) = MMRIndex(b)
  BY <1>1, <1>2, ForkRange DEF LogTo
<1>4. IsPrefix(va, vb)
  BY <1>1, <1>2, ForkPrefix
<1>5. \A i \in Nat : i < MMRIndex(b) => na[i + 1] = nb[i + 1]
  BY <1>3, <1>4, SameNodes
<1>6. PICK m \in Nat : m = MMRIndex(b)
  BY MMRIndexBounds
<1>7. \A i \in Nat : i < m => StoreOf(na)[i] = na[i + 1] /\ StoreOf(nb)[i] = nb[i + 1]
  <2>1. \A i \in Nat : i < m => i \in 0 .. m - 1
    BY <1>6
  <2> QED BY <1>3, <1>6, <2>1 DEF StoreOf
<1>8. \A i \in Nat : i < m => LogForkedAt[k][i] = StoreOf(na)[i]
  BY <1>1, <1>2, <1>6, ForkRead
<1> QED BY <1>2, <1>5, <1>6, <1>7, <1>8

(* The proof that a massif gives of its node i, in the range over b leaves *)
LEMMA NodeProved ==
  ASSUME NEW c, NEW n, HoldingMap(c, n), NEW b \in Nat, b <= n, n <= MaxLeaves,
         NEW i \in Nat, c.firstIndex <= i, i < MMRIndex(b)
  PROVE  \E g, k \in Nat :
           /\ i = NodePos(g, k) - 1 /\ (k + 1) * 2^g <= b /\ IndexHeight(i) = g
           /\ Provable(NodesSeen(c), MMRIndex(b) - 1, i)
           /\ InclusionProof(NodesSeen(c), MMRIndex(b) - 1, i)
                = InclusionProof(StoreOf(LogTo(b)), MMRIndex(b) - 1, i)
<1>1. /\ n \in Nat /\ MMRIndex(b) + (n - b) <= MMRIndex(n) /\ RangeCount(c) = MMRIndex(n)
      /\ MMRIndex(b) \in Nat /\ MMRIndex(n) \in Nat /\ c.firstIndex \in Nat
  BY HoldingSizes, MMRIndexMono, MMRIndexBounds DEF HoldingMap
<1>2. i \in c.firstIndex .. RangeCount(c) - 1
  BY <1>1
<1>3. ReachedIn(FirstLeaf(c), n, i)
  <2>1. i \in DOMAIN NodesSeen(c)
    BY <1>2, SeenIsTheLogs
  <2> QED BY <2>1, ReachIsSeen
<1>4. PICK g \in Nat, k \in Nat : i = NodePos(g, k) - 1 /\ InReach(FirstLeaf(c), g, k)
  BY <1>3 DEF ReachedIn
<1>5. NodePos(g, k) \in Nat /\ NodePos(g, k) > 0 /\ PosHeight(NodePos(g, k)) = g
  BY NodePosBounds, HeightOfNode
<1>6. (k + 1) * 2^g <= b
  <2>1. NodePos(g, k) <= MMRIndex(b)
    BY <1>1, <1>4, <1>5
  <2> QED BY <2>1, NodeInRange
<1>7. ReachedIn(FirstLeaf(c), b, i)
  BY <1>4, <1>6 DEF ReachedIn
<1>8. /\ Provable(NodesSeen(c), MMRIndex(b) - 1, i)
      /\ InclusionProof(NodesSeen(c), MMRIndex(b) - 1, i)
           = InclusionProof(FullLog, MMRIndex(b) - 1, i)
  BY <1>7, ProvedInMassif
<1>9. InclusionProof(FullLog, MMRIndex(b) - 1, i)
        = InclusionProof(StoreOf(LogTo(b)), MMRIndex(b) - 1, i)
  <2>1. b <= MaxLeaves
    BY <1>1, MaxLeavesAssumption
  <2>2. \A j \in Nat : j < MMRIndex(b) => FullLog[j] = StoreOf(LogTo(b))[j]
    BY <2>1, LogRead
  <2> QED BY <1>4, <1>6, <2>2, ProofsReadTheSame
<1>10. IndexHeight(i) = g
  <2>1. i + 1 = NodePos(g, k)
    BY <1>4, <1>5
  <2> QED BY <1>5, <2>1 DEF IndexHeight
<1> QED BY <1>4, <1>6, <1>8, <1>9, <1>10

(* The receipt that a seal of the range over b leaves gives for a node     *)
Receipt(seal, b, i, proof) ==
  IF PeakIndex(b, Len(proof)) >= Len(seal.receipts) THEN << >>
  ELSE <<[signed |-> seal.receipts[PeakIndex(b, Len(proof)) + 1], index |-> i, path |-> proof]>>

(* NewReceipt finds a leaf's own peak from the length of its proof: the    *)
(* receipt is there if the seal covers the leaf, and shows its value and   *)
(* no other, in massifs of any height and for all seals of their sizes.    *)
THEOREM ReceiptsAreShown == Spec => []ReceiptsShowLeaves
<1>1. ASSUME HoldsTheLog, JustRead, NEW s \in CompleteSizes(mc.firstIndex),
             NEW i \in mc.firstIndex .. RangeCount(mc) - 1, IndexHeight(i) = 0
      PROVE  LET log == LogForkedAt[leaves]
                 seal(version) == SealOf(version, s, PeakHashes(log, s - 1), "key")
                 receipt == NewReceipt(Mapped(mc), seal(2), i)
             IN /\ NewReceipt(Mapped(mc), seal(0), i) = << >>
                /\ receipt # << >> <=> i < s
                /\ receipt # << >> =>
                     \A j \in {i, s - 1, mc.firstIndex} :
                       VerifySignedInclusionReceipt(receipt[1], log[j])
                         <=> log[j] = log[i]
  <2>1. Holding(mc, leaves)
    BY <1>1, MassifHoldsTheLog DEF HoldsTheLog
  <2>2. PICK c, log, proof : /\ c = Mapped(mc) /\ log = LogForkedAt[leaves]
                             /\ proof = InclusionProof(log, s - 1, i)
    OBVIOUS
  <2>3. HoldingMap(c, leaves) /\ c.firstIndex = mc.firstIndex
    BY <2>1, <2>2, MappedHolds
  <2>4. PICK n \in Nat, f \in Nat, e \in Nat :
           /\ n = leaves /\ n <= MaxLeaves /\ f = mc.firstIndex
           /\ e = RangeCount(mc) /\ e = MMRIndex(n)
    BY <2>1, HoldingSizes DEF Holding
  <2>5. s \in Nat /\ f < s /\ s <= e /\ Peaks(s - 1) # << >> /\ i \in Nat /\ f <= i
    BY <1>1, <2>4 DEF CompleteSizes
  <2>6. PICK b \in Nat : b # 0 /\ b <= n /\ s = MMRIndex(b)
    <3>1. s - 1 \in Nat /\ s - 1 < MMRIndex(n)
      BY <2>4, <2>5
    <3>2. PICK b \in Nat : b # 0 /\ b <= n /\ MMRIndex(b) \in Nat /\ s - 1 = MMRIndex(b) - 1
      BY <2>5, <3>1, PeaksAtEnd
    <3> QED BY <2>5, <3>2
  <2>7. PICK seal0, seal2 : /\ seal0 = SealOf(0, s, PeakHashes(log, s - 1), "key")
                            /\ seal2 = SealOf(2, s, PeakHashes(log, s - 1), "key")
    OBVIOUS
  <2>8. PICK ns, vs, ph : /\ ns = LogTo(b) /\ vs = LeavesTo(MaxLeaves, b)
                          /\ ph = PeakHashes(StoreOf(ns), Len(ns) - 1)
    OBVIOUS
  <2>9. TreeOf(Entered, SealHashes, ns, vs) /\ Len(vs) = b /\ Len(ns) = s
    <3>1. b <= MaxLeaves
      BY <2>4, <2>6, MaxLeavesAssumption
    <3> QED BY <2>6, <2>8, <3>1, LogRead
  <2>10. \A j \in Nat : j < s => log[j] = StoreOf(ns)[j]
    <3>1. n \in 0 .. MaxLeaves
      BY <2>4, MaxLeavesAssumption
    <3> QED BY <2>2, <2>4, <2>6, <2>8, <3>1, BelowFork
  <2>11. PeakHashes(log, s - 1) = ph
    <3>1. \A j \in DOMAIN Peaks(s - 1) : log[Peaks(s - 1)[j]] = StoreOf(ns)[Peaks(s - 1)[j]]
      BY <2>6, <2>10, PeaksInside
    <3>2. PeakHashes(log, s - 1) = PeakHashes(StoreOf(ns), s - 1)
      BY <3>1 DEF PeakHashes
    <3> QED BY <2>8, <2>9, <3>2
  <2>12. /\ seal0.mmrSize = s /\ seal0.receipts = << >>
         /\ seal2.mmrSize = s /\ seal2.receipts = ph
    BY <2>7, <2>11 DEF SealOf
  <2>13. LeafCount(s) = b
    BY <2>6, LeafCountOf
  <2>14. PICK x : x = PeakIndex(LeafCount(s), Len(proof))
    OBVIOUS
  <2>15. ASSUME i >= s
         PROVE  NewReceipt(c, seal0, i) = << >> /\ NewReceipt(c, seal2, i) = << >>
    <3>1. ~ (i <= s - 1)
      BY <2>5, <2>15
    <3>2. ~ Provable(NodesSeen(c), s - 1, i)
      BY <3>1 DEF Provable
    <3> QED BY <2>12, <3>2 DEF NewReceipt
  <2>16. ASSUME i < s
         PROVE  /\ NewReceipt(c, seal0, i) = << >>
                /\ NewReceipt(c, seal2, i) # << >>
                /\ \A j \in {i, s - 1, f} :
                     VerifySignedInclusionReceipt(NewReceipt(c, seal2, i)[1], log[j])
                       <=> log[j] = log[i]
    <3>1. PICK g \in Nat, k \in Nat :
             /\ i = NodePos(g, k) - 1 /\ (k + 1) * 2^g <= b /\ IndexHeight(i) = g
             /\ Provable(NodesSeen(c), s - 1, i)
             /\ InclusionProof(NodesSeen(c), s - 1, i) = InclusionProof(StoreOf(ns), s - 1, i)
      BY <2>3, <2>4, <2>5, <2>6, <2>8, <2>16, NodeProved
    <3>2. proof = InclusionProof(StoreOf(ns), s - 1, i)
      <4>1. \A j \in Nat : j < MMRIndex(b) => log[j] = StoreOf(ns)[j]
        BY <2>6, <2>10
      <4>2. InclusionProof(log, MMRIndex(b) - 1, NodePos(g, k) - 1)
              = InclusionProof(StoreOf(ns), MMRIndex(b) - 1, NodePos(g, k) - 1)
        BY <2>6, <3>1, <4>1, ProofsReadTheSame
      <4> QED BY <2>2, <2>6, <3>1, <4>2
    <3>3. PICK p, K : ClimbsFrom(p, K, b, g, k) /\ Siblings(proof, SealHashes, ns, p)
      BY <2>9, <3>1, <3>2, InclusionProofOf DEF ProofOf
    <3>4. Len(proof) = Len(p) /\ Len(proof) \in Nat
      BY <3>3 DEF Siblings
    <3>5. g + Len(proof) = Len(proof) /\ PeaksBitmap(s) = b
      BY <1>1, <2>13, <3>1, <3>4 DEF LeafCount
    <3>6. x = PeakIndex(b, g + Len(proof)) /\ x = PeakIndex(b, Len(proof)) /\ x \in Nat
      BY <2>13, <2>14, <3>4, <3>5, PeakIndexType
    <3>7. x < Len(ph)
      BY <2>6, <2>8, <2>9, <3>3, <3>4, <3>5, <3>6, PeakOfProof
    <3>8. Len(ph) \in Nat
      BY <2>9, PeakHashesOf, <2>6, <2>8 DEF PeakList
    <3>9. /\ NewReceipt(c, seal0, i) = Receipt(seal0, b, i, proof)
          /\ NewReceipt(c, seal2, i) = Receipt(seal2, b, i, proof)
      BY <2>12, <2>13, <3>1, <3>2 DEF NewReceipt, ReceiptPeak, Receipt
    <3>10. NewReceipt(c, seal0, i) = << >>
      <4>1. Len(seal0.receipts) = 0
        BY <2>12
      <4> QED BY <3>6, <3>9, <4>1 DEF Receipt
    <3>11. NewReceipt(c, seal2, i)
             = IF x >= Len(ph) THEN << >> ELSE <<[signed |-> ph[x + 1], index |-> i, path |-> proof]>>
      BY <2>12, <3>6, <3>9 DEF Receipt
    <3>12. PICK r : /\ NewReceipt(c, seal2, i) = <<r>>
                    /\ r = [signed |-> ph[x + 1], index |-> i, path |-> proof]
      BY <3>6, <3>7, <3>8, <3>11
    <3>13. ASSUME NEW j \in {i, s - 1, f}
           PROVE  VerifySignedInclusionReceipt(NewReceipt(c, seal2, i)[1], log[j])
                    <=> log[j] = log[i]
      <4>3. r.signed = ph[x + 1] /\ r.index = i /\ r.path = proof
        BY <3>12
      <4>4. ASSUME NEW y \in Nat, y < s
            PROVE  log[y] = ns[y + 1] /\ log[y] \in SealHashes
        <5>1. y \in 0 .. Len(ns) - 1 /\ y + 1 \in 1 .. Len(ns)
          BY <2>5, <2>9, <4>4
        <5>2. ns \in Seq(SealHashes)
          BY <2>9 DEF TreeOf, RangeOver
        <5>3. log[y] = ns[y + 1]
          BY <2>10, <4>4, <5>1 DEF StoreOf
        <5> QED BY <5>1, <5>2, <5>3
      <4>5. j \in Nat /\ j < s
        BY <2>5, <2>16
      <4>6. log[j] \in SealHashes
        BY <4>4, <4>5
      <4>7. log[i] = ns[NodePos(g, k)]
        <5>1. NodePos(g, k) \in Nat /\ i + 1 = NodePos(g, k)
          BY <3>1, NodePosBounds
        <5> QED BY <2>5, <2>16, <4>4, <5>1
      <4>8. PICK v : v = log[j]
        OBVIOUS
      <4>9. IncludedRoot(NodePos(g, k) - 1, v, proof) = ph[x + 1]
              <=> v = ns[NodePos(g, k)]
        <5>1. /\ proof = InclusionProof(StoreOf(ns), Len(ns) - 1, NodePos(g, k) - 1)
              /\ x = PeakIndex(Len(vs), g + Len(proof)) /\ (k + 1) * 2^g <= Len(vs)
              /\ Len(vs) # 0 /\ v \in SealHashes
          BY <2>6, <2>9, <3>1, <3>2, <3>6, <4>6, <4>8
        <5>2. /\ PairsOf(SealHashes) \subseteq SealHashes /\ NoLeafIsNode(Entered)
              /\ TreeOf(Entered, SealHashes, ns, vs)
              /\ ph = PeakHashes(StoreOf(ns), Len(ns) - 1) /\ x \in Nat /\ x < Len(ph)
          BY <2>8, <2>9, <3>6, <3>7, SealHashesAre
        <5>3. ShowsAt(ns, Len(vs), g, k, v, x)
          BY <5>1, <5>2, ReceiptShows
        <5> QED BY <5>1, <5>2, <5>3 DEF ShowsAt
      <4>10. IncludedRoot(i, v, proof) = ph[x + 1]
               <=> v = log[i]
        BY <3>1, <4>7, <4>9
      <4>11. VerifySignedInclusionReceipt(r, v)
               <=> v = log[i]
        BY <4>3, <4>10 DEF VerifySignedInclusionReceipt
      <4>12. NewReceipt(c, seal2, i)[1] = r
        BY <3>12
      <4> QED BY <4>8, <4>11, <4>12
    <3>14. NewReceipt(c, seal2, i) # << >>
      BY <3>12
    <3> QED BY <3>10, <3>13, <3>14
  <2>17. i < s \/ i >= s
    BY <2>5
  <2> QED BY <2>2, <2>4, <2>7, <2>15, <2>16, <2>17
<1>2. ASSUME HoldsTheLog PROVE ReceiptsShowLeaves
  BY <1>1, <1>2 DEF ReceiptsShowLeaves
<1> QED BY <1>2, MassifHoldsTheLog, PTL

-----------------------------------------------------------------------------
(* What a massif shows of a bag of peaks                                   *)

(* The peaks of a range, by their positions and in any store *)
LEMMA BagRead ==
  ASSUME NEW b \in Nat, b # 0, b <= MaxLeaves
  PROVE  /\ PosPeaks(MMRIndex(b)) = PosOf(Peaks(MMRIndex(b) - 1))
         /\ Peaks(MMRIndex(b) - 1) \in Seq(Nat) /\ Len(Peaks(MMRIndex(b) - 1)) # 0
         /\ \A store :
              /\ PeakBagRHS(store, 0, PosPeaks(MMRIndex(b))) = PeakHashes(store, MMRIndex(b) - 1)
              /\ GetRoot(MMRIndex(b), store) = HashPeaksRHS(PeakHashes(store, MMRIndex(b) - 1))
<1>1. PICK ns, vs, q, ph : /\ ns = LogTo(b) /\ vs = LeavesTo(MaxLeaves, b)
                           /\ q = Peaks(MMRIndex(b) - 1) /\ ph = PeakHashes(StoreOf(ns), Len(ns) - 1)
  OBVIOUS
<1>2. TreeOf(Entered, SealHashes, ns, vs) /\ Len(vs) = b /\ Len(ns) = MMRIndex(b)
  BY <1>1, LogRead
<1>3. PeaksOfRange(SealHashes, ns, b, q, ph) /\ PosPeaks(MMRIndex(b)) = PosOf(q)
  BY <1>1, <1>2, PeaksOfRangeAre
<1>4. q \in Seq(Nat) /\ Ascends(q) /\ 1 \in 1 .. Len(q) /\ Len(q) # 0
  <2>1. q \in Seq(Nat) /\ Ascends(q) /\ q # << >>
    BY <1>3 DEF PeaksOfRange, Tiles
  <2> QED BY <2>1
<1>5. ASSUME NEW store
      PROVE  PeakBagRHS(store, 0, PosOf(q)) = PeakHashes(store, MMRIndex(b) - 1)
  <2>1. PeakBagRHS(store, 0, PosOf(q)) = ReadAt(store, q)
    BY <1>4, PeaksAside
  <2> QED BY <1>1, <2>1 DEF ReadAt, PeakHashes
<1> QED BY <1>1, <1>3, <1>4, <1>5 DEF GetRoot, BagPeaksRHS

(* Stores with the same peaks have the same peaks to either side.          *)
LEMMA AsideTheSame ==
  ASSUME NEW q \in Seq(Nat), NEW s, NEW t, \A j \in 1 .. Len(q) : s[q[j]] = t[q[j]], NEW pos
  PROVE  /\ RightSibling(s, pos, PosOf(q)) = RightSibling(t, pos, PosOf(q))
         /\ PeaksLHS(s, pos, PosOf(q)) = PeaksLHS(t, pos, PosOf(q))
<1>1. PICK P \in Seq(Nat), m \in Nat :
         P = PosOf(q) /\ m = Len(q) /\ Len(P) = m /\ \A j \in 1 .. m : P[j] - 1 = q[j]
  <2>1. PICK m \in Nat : m = Len(q) /\ DOMAIN q = 1 .. m /\ \A j \in 1 .. m : q[j] \in Nat
    OBVIOUS
  <2>2. PosOf(q) = [j \in 1 .. m |-> q[j] + 1]
    BY <2>1 DEF PosOf
  <2>3. \A j \in 1 .. m : q[j] + 1 \in Nat /\ (q[j] + 1) - 1 = q[j]
    BY <2>1
  <2>4. PosOf(q) \in Seq(Nat) /\ Len(PosOf(q)) = m
    BY <2>1, <2>2, <2>3
  <2>5. \A j \in 1 .. m : PosOf(q)[j] - 1 = q[j]
    BY <2>2, <2>3
  <2> QED BY <2>1, <2>4, <2>5
<1>2. \A d \in SUBSET (1 .. m) : Cardinality(d) \in Nat /\ Cardinality(d) <= m
  <2>1. IsFiniteSet(1 .. m) /\ Cardinality(1 .. m) = m
    BY FS_Interval
  <2> QED BY <2>1, FS_Subset, FS_CardinalityType
<1>3. ASSUME NEW x \in Nat, NEW y \in Nat, x >= 1, y <= m, x <= y + 1
      PROVE  HashesAt(s, SubSeq(P, x, y)) = HashesAt(t, SubSeq(P, x, y))
  <2>1. PICK u : u = SubSeq(P, x, y)
    OBVIOUS
  <2>2. ASSUME NEW j \in DOMAIN u PROVE s[u[j] - 1] = t[u[j] - 1]
    <3>1. u \in Seq(Nat) /\ Len(u) = y - x + 1 /\ \A i \in 1 .. y - x + 1 : u[i] = P[x + i - 1]
      <4>1. P \in Seq(Nat) /\ x \in Nat /\ y \in Nat /\ x >= 1 /\ y <= Len(P) /\ x <= y + 1
        BY <1>1, <1>3
      <4> QED BY <2>1, <4>1, PartOf
    <3>2. j \in 1 .. y - x + 1
      BY <2>2, <3>1
    <3>3. x + j - 1 \in 1 .. m
      BY <1>3, <3>2
    <3>4. u[j] = P[x + j - 1] /\ P[x + j - 1] - 1 = q[x + j - 1]
      BY <1>1, <3>1, <3>2, <3>3
    <3> QED BY <1>1, <3>3, <3>4
  <2> QED BY <2>1, <2>2 DEF HashesAt
<1>4. PeakBagRHS(s, pos, P) = PeakBagRHS(t, pos, P)
  <2>1. PICK x : x = Cardinality({k \in DOMAIN P : P[k] <= pos})
    OBVIOUS
  <2>2. x \in Nat /\ x + 1 \in Nat /\ x + 1 >= 1 /\ x + 1 <= m + 1
    <3>1. {k \in DOMAIN P : P[k] <= pos} \in SUBSET (1 .. m)
      BY <1>1
    <3> QED BY <1>2, <2>1, <3>1
  <2>3. HashesAt(s, SubSeq(P, x + 1, m)) = HashesAt(t, SubSeq(P, x + 1, m))
    BY <1>3, <2>2
  <2> QED BY <1>1, <2>1, <2>3 DEF PeakBagRHS
<1>5. PeaksLHS(s, pos, P) = PeaksLHS(t, pos, P)
  <2>1. PICK x : x = Cardinality({k \in DOMAIN P : P[k] < pos})
    OBVIOUS
  <2>2. x \in Nat /\ x <= m
    <3>1. {k \in DOMAIN P : P[k] < pos} \in SUBSET (1 .. m)
      BY <1>1
    <3> QED BY <1>2, <2>1, <3>1
  <2>3. HashesAt(s, SubSeq(P, 1, x)) = HashesAt(t, SubSeq(P, 1, x))
    BY <1>3, <2>2
  <2> QED BY <2>1, <2>3 DEF PeaksLHS
<1> QED BY <1>1, <1>4, <1>5 DEF RightSibling, BagPeaksRHS

(* Proofs that are the same peak by peak are the same together.            *)
LEMMA BaggedProofsTheSame ==
  ASSUME NEW a, NEW b, NEW s, NEW t, PosPeaks(a) \in Seq(Nat),
         \A j \in 1 .. Len(PosPeaks(a)) :
           InclusionProofBagged(b, s, PosPeaks(a)[j] - 1)
             = InclusionProofBagged(b, t, PosPeaks(a)[j] - 1)
  PROVE  IndexConsistencyProofBagged(a, b, s) = IndexConsistencyProofBagged(a, b, t)
<1> DEFINE P == PosPeaks(a)
           Body(f, st) == [d \in SUBSET DOMAIN P |->
                             IF d = {} THEN << >>
                             ELSE f[d \ {Max(d)}] \o InclusionProofBagged(b, st, P[Max(d)] - 1)]
           F(st) == CHOOSE f : f = Body(f, st)
<1>1. \A st : IndexConsistencyProofBagged(a, b, st)
                = [mmrSizeA |-> a, mmrSizeB |-> b, path |-> F(st)[DOMAIN P]]
  BY DEF IndexConsistencyProofBagged, FoldLeft, MapThenFoldSet
<1> HIDE DEF P
<1>2. ASSUME NEW d \in SUBSET DOMAIN P, d # {}
      PROVE  InclusionProofBagged(b, s, P[Max(d)] - 1) = InclusionProofBagged(b, t, P[Max(d)] - 1)
  <2>1. P \in Seq(Nat) /\ DOMAIN P = 1 .. Len(P)
    BY DEF P
  <2>2. Max(d) \in 1 .. Len(P)
    BY <1>2, <2>1, MaxOfIndices
  <2> QED BY <2>2 DEF P
<1>3. \A f : Body(f, s) = Body(f, t)
  BY <1>2
<1>4. F(s) = F(t)
  <2> HIDE DEF Body
  <2> QED BY <1>3
<1> QED BY <1>1, <1>4

(* What a massif shows of a bag is what the log does, and the proofs can   *)
(* be read.                                                                *)
LEMMA SeenConsistentBagged ==
  ASSUME NEW c, NEW n, HoldingMap(c, n), NEW b \in Nat, b # 0, b <= n,
         PeaksInReach(FirstLeaf(c), b), NEW root
  PROVE  /\ ConsistencyProvable(NodesSeen(c), MMRIndex(b) - 1, MMRIndex(n) - 1)
         /\ CheckConsistencyBagged(NodesSeen(c),
              IndexConsistencyProofBagged(MMRIndex(b), MMRIndex(n), NodesSeen(c)), root)
              <=> CheckConsistencyBagged(StoreOf(LogTo(n)),
                    IndexConsistencyProofBagged(MMRIndex(b), MMRIndex(n), StoreOf(LogTo(n))), root)
<1>1. /\ n \in Nat /\ n # 0 /\ n <= MaxLeaves /\ b <= MaxLeaves
      /\ FirstLeaf(c) \in Nat /\ FirstLeaf(c) <= n
  BY HoldingSizes, MaxLeavesAssumption DEF HoldingMap, Holding
<1>2. PICK s, t, q, r, A, N : /\ s = NodesSeen(c) /\ t = StoreOf(LogTo(n))
                              /\ q = Peaks(MMRIndex(b) - 1) /\ r = Peaks(MMRIndex(n) - 1)
                              /\ A = MMRIndex(b) /\ N = MMRIndex(n)
  OBVIOUS
<1>3. /\ PosPeaks(A) = PosOf(q) /\ q \in Seq(Nat) /\ PosPeaks(N) = PosOf(r) /\ r \in Seq(Nat)
      /\ \A j \in DOMAIN q : ProvedAlike(s, t, n, q[j])
  BY <1>1, <1>2, BagRead, PeaksProved
<1>4. /\ \A j \in DOMAIN q : q[j] \in DOMAIN s /\ q[j] \in DOMAIN t
      /\ PeakHashes(s, A - 1) = PeakHashes(t, A - 1)
      /\ \A j \in 1 .. Len(r) : s[r[j]] = t[r[j]]
      /\ PeakHashes(s, N - 1) = PeakHashes(t, N - 1)
  <2>1. PeaksInReach(FirstLeaf(c), n)
    BY <1>1, LaterPeaks
  <2>2. /\ \A j \in DOMAIN q : q[j] \in DOMAIN s
        /\ \A j \in DOMAIN r : r[j] \in DOMAIN s
    BY <1>1, <1>2, <2>1, PeaksSeen
  <2>3. \A i \in DOMAIN s : i \in Nat /\ s[i] = FullLog[i]
    BY <1>2, SeenIsTheLogs
  <2>4. \A i \in Nat : i < N => FullLog[i] = t[i]
    BY <1>1, <1>2, LogRead
  <2>5. /\ \A j \in DOMAIN q : q[j] < N /\ q[j] \in DOMAIN t
        /\ \A j \in DOMAIN r : r[j] < N
    <3>1. A <= N /\ A \in Nat /\ N \in Nat
      <4>1. MMRIndex(b) + (n - b) <= MMRIndex(n)
        BY <1>1, MMRIndexMono
      <4> QED BY <1>1, <1>2, <4>1, MMRIndexBounds
    <3>2. /\ \A j \in DOMAIN q : q[j] < A /\ q[j] \in Nat
          /\ \A j \in DOMAIN r : r[j] < N
      BY <1>1, <1>2, PeaksInside
    <3>3. DOMAIN t = 0 .. N - 1
      <4>1. Len(LogTo(n)) = MMRIndex(n)
        BY <1>1, LogRead
      <4> QED BY <1>2, <4>1 DEF StoreOf
    <3> QED BY <3>1, <3>2, <3>3
  <2>6. /\ \A j \in DOMAIN q : s[q[j]] = t[q[j]]
        /\ \A j \in DOMAIN r : s[r[j]] = t[r[j]]
    BY <2>2, <2>3, <2>4, <2>5
  <2>7. DOMAIN r = 1 .. Len(r)
    BY <1>3
  <2> QED BY <1>1, <1>2, <2>2, <2>5, <2>6, <2>7, PeaksReadTheSame
<1>5. ASSUME NEW j \in DOMAIN q
      PROVE  InclusionProofBagged(N, s, q[j]) = InclusionProofBagged(N, t, q[j])
  <2>1. InclusionProofLocal(N, s, q[j]) = InclusionProofLocal(N, t, q[j])
    BY <1>2, <1>3 DEF InclusionProofLocal, ProvedAlike
  <2>2. PICK pos : pos = LocalPeak(N, q[j]) + 1
    OBVIOUS
  <2>3. /\ RightSibling(s, pos, PosPeaks(N)) = RightSibling(t, pos, PosPeaks(N))
        /\ PeaksLHS(s, pos, PosPeaks(N)) = PeaksLHS(t, pos, PosPeaks(N))
    <3>1. r \in Seq(Nat) /\ \A k \in 1 .. Len(r) : s[r[k]] = t[r[k]]
      BY <1>3, <1>4
    <3>2. /\ RightSibling(s, pos, PosOf(r)) = RightSibling(t, pos, PosOf(r))
          /\ PeaksLHS(s, pos, PosOf(r)) = PeaksLHS(t, pos, PosOf(r))
      BY <3>1, AsideTheSame
    <3> QED BY <1>3, <3>2
  <2> QED BY <2>1, <2>2, <2>3 DEF InclusionProofBagged
<1>6. IndexConsistencyProofBagged(A, N, s) = IndexConsistencyProofBagged(A, N, t)
  <2>1. PosPeaks(A) \in Seq(Nat) /\ Len(PosPeaks(A)) = Len(q) /\ DOMAIN q = 1 .. Len(q)
        /\ \A j \in 1 .. Len(q) : PosPeaks(A)[j] - 1 = q[j]
    <3>1. q \in Seq(Nat)
      BY <1>3
    <3>2. PosOf(q) \in Seq(Nat) /\ Len(PosOf(q)) = Len(q) /\ DOMAIN q = 1 .. Len(q)
          /\ \A j \in 1 .. Len(q) : PosOf(q)[j] - 1 = q[j]
      BY <3>1 DEF PosOf
    <3> QED BY <1>3, <3>2
  <2>2. \A j \in 1 .. Len(PosPeaks(A)) :
          InclusionProofBagged(N, s, PosPeaks(A)[j] - 1) = InclusionProofBagged(N, t, PosPeaks(A)[j] - 1)
    BY <1>5, <2>1
  <2> QED BY <2>1, <2>2, BaggedProofsTheSame
<1>7. /\ PeakBagRHS(s, 0, PosPeaks(A)) = PeakBagRHS(t, 0, PosPeaks(A))
      /\ GetRoot(N, s) = GetRoot(N, t)
  <2>1. /\ PeakBagRHS(s, 0, PosPeaks(A)) = PeakHashes(s, A - 1)
        /\ PeakBagRHS(t, 0, PosPeaks(A)) = PeakHashes(t, A - 1)
    BY <1>1, <1>2, BagRead
  <2>2. /\ GetRoot(N, s) = HashPeaksRHS(PeakHashes(s, N - 1))
        /\ GetRoot(N, t) = HashPeaksRHS(PeakHashes(t, N - 1))
    BY <1>1, <1>2, BagRead
  <2> QED BY <1>4, <2>1, <2>2
<1>8. /\ \A k \in DOMAIN PosPeaks(A) : PosPeaks(A)[k] - 1 \in DOMAIN s
      /\ \A k \in DOMAIN PosPeaks(A) : PosPeaks(A)[k] - 1 \in DOMAIN t
  <2>1. DOMAIN PosOf(q) = DOMAIN q /\ \A k \in DOMAIN q : PosOf(q)[k] - 1 = q[k]
    BY <1>3 DEF PosOf
  <2> QED BY <1>3, <1>4, <2>1
<1>9. ConsistencyProvable(s, A - 1, N - 1)
  BY <1>2, <1>3 DEF ConsistencyProvable, ProvedAlike
<1>10. LET proof == IndexConsistencyProofBagged(A, N, t)
       IN CheckConsistencyBagged(s, proof, root) <=> CheckConsistencyBagged(t, proof, root)
  <2>1. PICK proof : proof = IndexConsistencyProofBagged(A, N, t)
    OBVIOUS
  <2>2. proof.mmrSizeA = A /\ proof.mmrSizeB = N
    BY <2>1 DEF IndexConsistencyProofBagged
  <2> QED BY <1>7, <1>8, <2>1, <2>2 DEF CheckConsistencyBagged
<1> QED BY <1>2, <1>6, <1>9, <1>10

-----------------------------------------------------------------------------
(* The bags of logs that fork                                              *)

BagOf(k, b) == HashPeaksRHS(PeakHashes(LogForkedAt[k], MMRIndex(b) - 1))

(* The last peak over b leaves is the last leaf, or the hash of the last   *)
(* node.                                                                   *)
EndsAt(x, b) ==
  \/ \E w : x = <<w, b - 1>>
  \/ \E u, v : x = HashPosPair64(MMRIndex(b), u, v)

LEMMA LastPeak ==
  ASSUME NEW k \in 0 .. MaxLeaves, NEW b \in Nat, b # 0, b <= MaxLeaves
  PROVE  /\ PeakHashes(LogForkedAt[k], MMRIndex(b) - 1) \in Seq(SealHashes)
         /\ PeakHashes(LogForkedAt[k], MMRIndex(b) - 1) # << >>
         /\ EndsAt(Last(PeakHashes(LogForkedAt[k], MMRIndex(b) - 1)), b)
<1>1. PICK ns, vs, q, ph : /\ ns = RangeTo(k, b) /\ vs = LeavesTo(k, b)
                           /\ q = Peaks(MMRIndex(b) - 1) /\ ph = PeakHashes(StoreOf(ns), Len(ns) - 1)
  OBVIOUS
<1>2. /\ TreeOf(Entered, SealHashes, ns, vs) /\ Len(vs) = b /\ Len(ns) = MMRIndex(b)
      /\ k \in Nat /\ MaxLeaves \in Nat /\ MMRIndex(b) \in Nat
  BY <1>1, ForkRange, MaxLeavesAssumption, MMRIndexBounds
<1>3. ph = PeakHashes(LogForkedAt[k], MMRIndex(b) - 1)
  BY <1>1, ForkRead
<1>4. PeaksOfRange(SealHashes, ns, b, q, ph)
  BY <1>1, <1>2, PeaksOfRangeAre
<1>5. /\ Tiles(q, b) /\ q \in Seq(Nat) /\ Ascends(q) /\ q # << >>
      /\ ph \in Seq(SealHashes) /\ Len(ph) = Len(q)
  BY <1>4 DEF PeaksOfRange, Tiles
<1>6. Len(q) \in 1 .. Len(q) /\ Len(q) \in Nat /\ ph # << >>
  BY <1>5
<1>7. PICK j \in 1 .. Len(q), g \in Nat, l \in Nat : PeakAt(q, b, j, g, l) /\ InRun(b - 1, g, l)
  <2>1. b - 1 \in Nat /\ b - 1 < b
    OBVIOUS
  <2> QED BY <1>5, <2>1 DEF Tiles
<1>8. (l + 1) * 2^g = b
  BY <1>7, RunEnds DEF PeakAt, PeakOver, InRun
<1>9. NodePos(g, l) = MMRIndex(b) /\ q[j] = MMRIndex(b) - 1
  <2>1. PICK i \in Nat : l = 2 * i
    BY <1>7 DEF PeakAt, PeakOver
  <2>2. NodePos(g, l) = MMRIndex(b)
    BY <1>8, <2>1, NextLeafPos
  <2> QED BY <1>7, <2>2 DEF PeakAt
<1>10. j = Len(q)
  <2>1. q[Len(q)] < MMRIndex(b) /\ q[Len(q)] \in Nat
    BY <1>1, <1>5, <1>6, PeaksInside
  <2>2. j < Len(q) => q[j] < q[Len(q)]
    BY <1>5, <1>6, <1>7 DEF Ascends
  <2> QED BY <1>2, <1>6, <1>7, <1>9, <2>1, <2>2
<1>11. Last(ph) = ns[MMRIndex(b)]
  <2>1. ph[j] = ns[NodePos(g, l)]
    BY <1>4, <1>7 DEF PeaksOfRange
  <2> QED BY <1>5, <1>9, <1>10, <2>1 DEF Last
<1>12. CASE g = 0
  <2>1. l + 1 = b
    <3>1. 2^0 = 1
      BY PowType
    <3> QED BY <1>8, <1>12, <3>1
  <2>2. NodePos(0, l) <= Len(ns)
    BY <1>2, <1>9, <1>12
  <2>3. ns[NodePos(0, l)] = vs[l + 1]
    BY <1>2, <2>2 DEF TreeOf, RangeOver, HashesOf
  <2>4. vs[b] = ForkLeaves(k)[b]
    <3>1. ForkLeaves(k) \in Seq(Entered) /\ Len(ForkLeaves(k)) = MaxLeaves
      BY <1>2, ForkTree DEF TreeOf
    <3> QED BY <1>1, <1>2, <3>1 DEF LeavesTo
  <2>5. \E w : ForkLeaves(k)[b] = <<w, b - 1>>
    <3>1. b \in 1 .. MaxLeaves
      BY <1>2
    <3> QED BY <3>1 DEF ForkLeaves, LeafValue
  <2> QED BY <1>3, <1>5, <1>6, <1>9, <1>11, <1>12, <2>1, <2>3, <2>4, <2>5 DEF EndsAt
<1>13. CASE g # 0
  <2>1. PICK h \in Nat : g = h + 1
    <3>1. g - 1 \in Nat /\ g = (g - 1) + 1
      BY <1>13
    <3> QED BY <3>1
  <2>2. NodePos(h + 1, l) <= Len(ns)
    BY <1>2, <1>9, <2>1
  <2>3. \E u, v : ns[NodePos(h + 1, l)] = HashPosPair64(NodePos(h + 1, l), u, v)
    BY <1>2, <2>2 DEF TreeOf, RangeOver, HashesOf
  <2> QED BY <1>3, <1>5, <1>6, <1>9, <1>11, <2>1, <2>3 DEF EndsAt
<1> QED BY <1>12, <1>13

(* The bag tells the size of a log, and the log from a fork that differs   *)
(* before its end.                                                         *)
LEMMA BagsTell ==
  ASSUME NEW k \in 0 .. MaxLeaves, NEW b \in Nat, b # 0, b <= MaxLeaves,
         NEW d \in Nat, d # 0, d <= MaxLeaves
  PROVE  BagOf(k, b) = HashPeaksRHS(PeaksOfLog(d)) <=> b = d /\ b <= k
<1>1. MaxLeaves \in Nat /\ MaxLeaves \in 0 .. MaxLeaves
  BY MaxLeavesAssumption
<1>2. PICK ph, qh : /\ ph = PeakHashes(LogForkedAt[k], MMRIndex(b) - 1)
                    /\ qh = PeakHashes(LogForkedAt[MaxLeaves], MMRIndex(d) - 1)
  OBVIOUS
<1>3. qh = PeaksOfLog(d)
  BY <1>1, <1>2, PeaksTell
<1>4. /\ ph \in Seq(SealHashes) /\ ph # << >> /\ EndsAt(ph[Len(ph)], b)
      /\ qh \in Seq(SealHashes) /\ qh # << >> /\ EndsAt(qh[Len(qh)], d)
  BY <1>1, <1>2, LastPeak DEF Last
<1>5. /\ MMRIndex(b) \in Nat /\ MMRIndex(b) # 0 /\ MMRIndex(d) \in Nat /\ MMRIndex(d) # 0
      /\ b < d => MMRIndex(b) < MMRIndex(d)
      /\ d < b => MMRIndex(d) < MMRIndex(b)
  <2>1. /\ MMRIndex(b) \in Nat /\ b <= MMRIndex(b) /\ MMRIndex(d) \in Nat /\ d <= MMRIndex(d)
    BY MMRIndexBounds
  <2>2. b <= d => MMRIndex(b) + (d - b) <= MMRIndex(d)
    BY MMRIndexMono
  <2>3. d <= b => MMRIndex(d) + (b - d) <= MMRIndex(b)
    BY MMRIndexMono
  <2> QED BY <2>1, <2>2, <2>3
<1>6. ASSUME NEW x, NEW e \in {b, d}, EndsAt(x, e)
      PROVE  \A u, v : x # HashPair(u, v)
  BY <1>5, <1>6 DEF EndsAt, HashPair, HashPosPair64
<1>7. ASSUME HashPeaksRHS(ph) = HashPeaksRHS(qh) PROVE ph = qh
  <2>1. \A u, v : ph[Len(ph)] # HashPair(u, v) /\ qh[Len(qh)] # HashPair(u, v)
    BY <1>4, <1>6
  <2> QED BY <1>4, <1>7, <2>1, SealHashesAre, BagTells
<1>8. ASSUME ph = qh PROVE b = d
  <2>1. PICK x : EndsAt(x, b) /\ EndsAt(x, d)
    BY <1>4, <1>8
  <2>2. CASE \E w, y : x = <<w, y>>
    <3>1. PICK y : \E w : x = <<w, y>>
      BY <2>2
    <3>2. y = b - 1 /\ y = d - 1
      BY <2>1, <3>1 DEF EndsAt, HashPosPair64
    <3> QED BY <3>2
  <2>3. CASE \E p, u, v : x = <<p, u, v>>
    <3>1. PICK p : \E u, v : x = <<p, u, v>>
      BY <2>3
    <3>2. p = MMRIndex(b) /\ p = MMRIndex(d)
      BY <2>1, <3>1 DEF EndsAt, HashPosPair64
    <3> QED BY <1>5, <3>2
  <2> QED BY <2>1, <2>2, <2>3 DEF EndsAt, HashPosPair64
<1>9. b = d => (ph = qh <=> b <= k)
  BY <1>2, <1>3, PeaksTell
<1> QED BY <1>2, <1>3, <1>7, <1>8, <1>9 DEF BagOf

(* A log is consistent with the bag of a fork of it if the bag is from     *)
(* before the fork.                                                        *)
LEMMA BagsTold ==
  ASSUME NEW k \in 0 .. MaxLeaves, NEW n \in Nat, n <= MaxLeaves, NEW b \in Nat, b # 0, b <= n
  PROVE  CheckConsistencyBagged(StoreOf(LogTo(n)),
           IndexConsistencyProofBagged(MMRIndex(b), MMRIndex(n), StoreOf(LogTo(n))),
           BagOf(k, b)) <=> b <= k
<1>1. MaxLeaves \in Nat /\ k \in Nat /\ b <= MaxLeaves
  BY MaxLeavesAssumption
<1>2. PICK na, va, nb, vb : /\ na = RangeTo(k, b) /\ va = LeavesTo(k, b)
                            /\ nb = LogTo(n) /\ vb = LeavesTo(MaxLeaves, n)
  OBVIOUS
<1>3. /\ TreeOf(Entered, SealHashes, na, va) /\ Len(va) = b /\ Len(na) = MMRIndex(b)
      /\ TreeOf(Entered, SealHashes, nb, vb) /\ Len(nb) = MMRIndex(n)
  BY <1>1, <1>2, ForkRange DEF LogTo
<1>4. IsPrefix(va, vb) <=> b <= k
  BY <1>1, <1>2, ForkPrefix
<1>5. PeakHashes(LogForkedAt[k], MMRIndex(b) - 1) = PeakHashes(StoreOf(na), Len(na) - 1)
  BY <1>1, <1>2, ForkRead
<1>6. CheckConsistencyBagged(StoreOf(nb), IndexConsistencyProofBagged(Len(na), Len(nb), StoreOf(nb)),
                             HashPeaksRHS(PeakHashes(StoreOf(na), Len(na) - 1)))
        <=> IsPrefix(va, vb)
  BY <1>3, SealHashesAre, BaggedConsistent
<1> QED BY <1>2, <1>3, <1>4, <1>5, <1>6 DEF BagOf

-----------------------------------------------------------------------------
(* Seals and trusted states                                                *)

(* Two nodes at the same index are one. *)
LEMMA SameIndex ==
  ASSUME NEW g \in Nat, NEW k \in Nat, NEW h \in Nat, NEW l \in Nat,
         NodePos(g, k) - 1 = NodePos(h, l) - 1
  PROVE  g = h /\ k = l
<1>1. NodePos(g, k) \in Nat /\ NodePos(h, l) \in Nat
  BY NodePosBounds
<1>2. NodePos(g, k) = NodePos(h, l)
  BY <1>1
<1> QED BY <1>2, NodePosUnique

(* The peaks of a range are in reach of a massif if it ends in the massif, *)
(* or its peaks are among those before the massif.                         *)
LEMMA ReachOfPeaks ==
  ASSUME NEW a \in Nat, NEW b \in Nat, b # 0
  PROVE  PeaksInReach(a, b) <=>
           \/ MMRIndex(b) > MMRIndex(a)
           \/ Range(Peaks(MMRIndex(b) - 1)) \subseteq Range(Peaks(MMRIndex(a) - 1))
<1> DEFINE Listed(n, p) == \E g, k \in Nat : p = NodePos(g, k) - 1 /\ PeakOver(n, g, k)
<1>1. ASSUME NEW n \in Nat, n # 0
      PROVE  \A p : p \in Range(Peaks(MMRIndex(n) - 1)) <=> Listed(n, p)
  <2>1. PICK q : q = Peaks(MMRIndex(n) - 1) /\ q = PeaksOver(n)
    BY <1>1 DEF PeaksOver
  <2>2. DOMAIN q = 1 .. Len(q)
    BY <1>1, <2>1, PeaksInside
  <2>3. \A p : (\E j \in 1 .. Len(q) : q[j] = p) <=> Listed(n, p)
    <3>1. \A p : (\E j \in 1 .. Len(PeaksOver(n)) : PeaksOver(n)[j] = p) <=> Listed(n, p)
      BY PeakListed
    <3> HIDE DEF Listed
    <3> QED BY <2>1, <3>1
  <2> HIDE DEF Listed
  <2> QED BY <2>1, <2>2, <2>3 DEF Range
<1>2. MMRIndex(b) > MMRIndex(a) <=> a < b
  <2>1. MMRIndex(a) \in Nat /\ MMRIndex(b) \in Nat
    BY MMRIndexBounds
  <2>2. a <= b => MMRIndex(a) + (b - a) <= MMRIndex(b)
    BY MMRIndexMono
  <2>3. b <= a => MMRIndex(b) + (a - b) <= MMRIndex(a)
    BY MMRIndexMono
  <2> QED BY <2>1, <2>2, <2>3
<1>3. CASE a < b
  BY <1>2, <1>3, LaterPeaks
<1>4. CASE b <= a
  <2>1. a # 0
    BY <1>4
  <2>2. Range(Peaks(MMRIndex(b) - 1)) \subseteq Range(Peaks(MMRIndex(a) - 1))
          <=> \A p : Listed(b, p) => Listed(a, p)
    <3> HIDE DEF Listed
    <3> QED BY <1>1, <2>1
  <2>3. ASSUME NEW g \in Nat, NEW k \in Nat, PeakOver(b, g, k)
        PROVE  InReach(a, g, k) <=> PeakOver(a, g, k)
    <3>1. (k + 1) * 2^g <= b /\ (k + 1) * 2^g \in Nat
      BY <2>3, RunEnds DEF PeakOver
    <3> QED BY <1>4, <3>1 DEF InReach
  <2>4. PeaksInReach(a, b) <=> \A g, k \in Nat : PeakOver(b, g, k) => PeakOver(a, g, k)
    BY <2>3 DEF PeaksInReach
  <2>5. (\A g, k \in Nat : PeakOver(b, g, k) => PeakOver(a, g, k))
          <=> \A p : Listed(b, p) => Listed(a, p)
    <3>1. ASSUME \A p : Listed(b, p) => Listed(a, p), NEW g \in Nat, NEW k \in Nat, PeakOver(b, g, k)
          PROVE  PeakOver(a, g, k)
      <4>1. PICK h \in Nat, l \in Nat : NodePos(g, k) - 1 = NodePos(h, l) - 1 /\ PeakOver(a, h, l)
        BY <3>1
      <4> QED BY <4>1, SameIndex
    <3> QED BY <3>1
  <2> QED BY <1>2, <1>4, <2>2, <2>4, <2>5
<1> QED BY <1>3, <1>4

(* A peak that is not in reach has a sibling, and it is not shown.         *)
LEMMA OutOfReach ==
  ASSUME NEW c, NEW n, HoldingMap(c, n), NEW b \in Nat, b # 0, b <= n,
         ~ PeaksInReach(FirstLeaf(c), b)
  PROVE  ~ ConsistencyProvable(NodesSeen(c), MMRIndex(b) - 1, MMRIndex(n) - 1)
<1>1. PICK a \in Nat : a = FirstLeaf(c) /\ a <= n /\ n \in Nat
  BY HoldingSizes DEF HoldingMap, Holding
<1>2. PICK g \in Nat, k \in Nat : PeakOver(b, g, k) /\ ~ InReach(a, g, k)
  BY <1>1 DEF PeaksInReach
<1>3. PICK i \in Nat, z \in Nat : k = 2 * i /\ z = 2^g /\ z > 0 /\ 2^(g + 1) = 2 * z
  BY <1>2, PowType, PowStep DEF PeakOver
<1>4. (2 * i + 1 + 1) * 2^g <= a /\ (2 * i + 1) * 2^g <= n
  <2>1. (2 * i + 1) * z \in Nat /\ (2 * i + 2) * z \in Nat /\ 2 * i + 1 + 1 = 2 * i + 2
        /\ (2 * i + 1) * z <= (2 * i + 2) * z
    <3>1. (2 * i + 1) * z = 2 * (i * z) + z /\ (2 * i + 2) * z = 2 * (i * z) + 2 * z /\ i * z \in Nat
      BY <1>3
    <3> QED BY <1>3, <3>1
  <2>2. (2 * i + 1) * z <= a
    BY <1>2, <1>3, <2>1 DEF InReach
  <2>3. ~ ((2 * i + 1) * z <= a /\ a < (2 * i + 2) * z)
    BY <1>2, <1>3 DEF InReach, PeakOver
  <2> QED BY <1>1, <1>3, <2>1, <2>2, <2>3
<1>5. PICK p : /\ p = InclusionProofPath(MMRIndex(n) - 1, NodePos(g, k) - 1)
               /\ \E K : ClimbsFrom(p, K, n, g, k)
  <2>1. IndexHeight(NodePos(g, k) - 1) = g
    <3>1. PosHeight(NodePos(g, k)) = g /\ NodePos(g, k) \in Nat
      BY HeightOfNode, NodePosBounds
    <3>2. (NodePos(g, k) - 1) + 1 = NodePos(g, k)
      BY <3>1
    <3> QED BY <3>1, <3>2 DEF IndexHeight
  <2>2. (k + 1) * 2^g <= n
    BY <1>3, <1>4
  <2> QED BY <1>1, <2>1, <2>2, PathClimbs DEF InclusionProofPath
<1>6. PICK K : ClimbsFrom(p, K, n, g, k)
  BY <1>5
<1>7. /\ p \in Seq(Nat) /\ K[0] = k /\ K \in [0 .. Len(p) -> Nat]
      /\ PeakOver(n, g + Len(p), K[Len(p)])
      /\ \A x \in 1 .. Len(p) :
           \/ K[x - 1] = 2 * K[x] /\ p[x] = NodePos(g + x - 1, 2 * K[x] + 1) - 1
           \/ K[x - 1] = 2 * K[x] + 1 /\ p[x] = NodePos(g + x - 1, 2 * K[x]) - 1
  BY <1>6 DEF ClimbsFrom, Climbing
<1>8. Len(p) # 0
  <2>1. SUFFICES ASSUME Len(p) = 0 PROVE FALSE
    OBVIOUS
  <2>2. PeakOver(n, g, k)
    <3>1. g + 0 = g
      OBVIOUS
    <3> QED BY <1>7, <2>1, <3>1
  <2>3. n < (2 * i + 2) * z /\ (2 * i + 2) * z <= a
    BY <1>3, <1>4, <2>2 DEF PeakOver
  <2>4. (2 * i + 2) * z \in Nat
    BY <1>3
  <2> QED BY <1>1, <2>3, <2>4
<1>9. 1 \in DOMAIN p /\ p[1] = NodePos(g, 2 * i + 1) - 1
  <2>1. 1 \in 1 .. Len(p) /\ 1 \in DOMAIN p /\ K[1] \in Nat
    <3>1. 1 \in 1 .. Len(p) /\ 1 \in 0 .. Len(p)
      BY <1>7, <1>8
    <3>2. DOMAIN p = 1 .. Len(p)
      BY <1>7
    <3>3. K[1] \in Nat
      BY <1>7, <3>1
    <3> QED BY <3>1, <3>2, <3>3
  <2>2. 1 - 1 = 0 /\ g + 1 - 1 = g
    OBVIOUS
  <2>3. \/ k = 2 * K[1] /\ p[1] = NodePos(g, 2 * K[1] + 1) - 1
        \/ k = 2 * K[1] + 1
    BY <1>7, <2>1, <2>2
  <2>4. K[1] = i
    BY <1>3, <2>1, <2>3
  <2> QED BY <1>3, <2>1, <2>3, <2>4
<1>10. p[1] \notin DOMAIN NodesSeen(c)
  <2>1. SUFFICES ASSUME ReachedIn(a, n, p[1]) PROVE FALSE
    BY <1>1, ReachIsSeen
  <2>2. PICK h \in Nat, l \in Nat : NodePos(g, 2 * i + 1) - 1 = NodePos(h, l) - 1 /\ InReach(a, h, l)
    BY <1>9, <2>1 DEF ReachedIn
  <2>3. 2 * i + 1 \in Nat
    OBVIOUS
  <2>4. InReach(a, g, 2 * i + 1)
    BY <2>2, <2>3, SameIndex
  <2>5. ~ PeakOver(a, g, 2 * i + 1)
    BY DEF PeakOver
  <2>6. (2 * i + 1 + 1) * 2^g \in Nat
    BY <2>3, RunEnds
  <2> QED BY <1>4, <2>4, <2>5, <2>6 DEF InReach
<1>11. PICK j \in DOMAIN Peaks(MMRIndex(b) - 1) : Peaks(MMRIndex(b) - 1)[j] = NodePos(g, k) - 1
  <2>1. PICK q : q = Peaks(MMRIndex(b) - 1) /\ q = PeaksOver(b) /\ DOMAIN q = 1 .. Len(q)
    BY PeaksInside DEF PeaksOver
  <2>2. PICK i0 : i0 = NodePos(g, k) - 1
    OBVIOUS
  <2>3. \E h, l \in Nat : i0 = NodePos(h, l) - 1 /\ PeakOver(b, h, l)
    BY <1>2, <2>2
  <2>4. \E j \in 1 .. Len(PeaksOver(b)) : PeaksOver(b)[j] = i0
    BY <2>3, PeakListed
  <2> QED BY <2>1, <2>2, <2>4
<1>12. ~ Provable(NodesSeen(c), MMRIndex(n) - 1, NodePos(g, k) - 1)
  BY <1>5, <1>9, <1>10 DEF Provable
<1> QED BY <1>11, <1>12 DEF ConsistencyProvable

(* A seal of version 0 is taken if what was signed is the bag of the log,  *)
(* and the base is shown by the proof from the size of the seal.           *)
LEMMA BagSealChecked ==
  ASSUME NEW c, NEW n, HoldingMap(c, n), NEW b \in Nat, b # 0, b <= n, FirstLeaf(c) <= b,
         NEW seal, seal.mmrSize = MMRIndex(b), seal.version = 0, NEW options
  PROVE  verifyContext(c, seal, options) <=>
           /\ SealPublicKey(seal, options)
           /\ seal.signed = HashPeaksRHS(PeaksOfLog(b))
           /\ options.base # NoBase =>
                CheckConsistencyBagged(StoreOf(LogTo(n)),
                  IndexConsistencyProofBagged(MMRIndex(b), MMRIndex(n), StoreOf(LogTo(n))),
                  options.base.root)
<1>1. /\ n \in Nat /\ n # 0 /\ n <= MaxLeaves /\ b <= MaxLeaves /\ MaxLeaves \in Nat
      /\ FirstLeaf(c) \in Nat /\ FirstLeaf(c) <= n /\ RangeCount(c) = MMRIndex(n)
  BY HoldingSizes, MaxLeavesAssumption DEF HoldingMap, Holding
<1>2. PeaksInReach(FirstLeaf(c), b) /\ PeaksInReach(FirstLeaf(c), n)
  BY <1>1, LaterPeaks
<1>3. PICK s, t, A, N : /\ s = NodesSeen(c) /\ t = StoreOf(LogTo(n))
                        /\ A = MMRIndex(b) /\ N = MMRIndex(n)
  OBVIOUS
<1>4. /\ PeaksReadable(s, A) /\ PeaksReadable(s, N)
      /\ PeakHashes(s, A - 1) = PeaksOfLog(b)
  BY <1>1, <1>2, <1>3, PeaksSeen
<1>5. GetRoot(A, s) = HashPeaksRHS(PeaksOfLog(b))
  BY <1>1, <1>3, <1>4, BagRead
<1>6. /\ ConsistencyProvable(s, A - 1, N - 1)
      /\ \A root : CheckConsistencyBagged(s, IndexConsistencyProofBagged(A, N, s), root)
                     <=> CheckConsistencyBagged(t, IndexConsistencyProofBagged(A, N, t), root)
  BY <1>2, <1>3, SeenConsistentBagged
<1>7. CheckConsistencyBagged(t, IndexConsistencyProofBagged(A, N, t), HashPeaksRHS(PeaksOfLog(b)))
  <2>1. MaxLeaves \in 0 .. MaxLeaves
    BY <1>1
  <2>2. BagOf(MaxLeaves, b) = HashPeaksRHS(PeaksOfLog(b))
    BY <1>1, <2>1, BagsTell
  <2> QED BY <1>1, <1>3, <2>1, <2>2, BagsTold
<1>8. A <= N
  <2>1. MMRIndex(b) + (n - b) <= MMRIndex(n) /\ MMRIndex(b) \in Nat /\ MMRIndex(n) \in Nat
    BY <1>1, MMRIndexMono, MMRIndexBounds
  <2> QED BY <1>1, <1>3, <2>1
<1> QED BY <1>1, <1>3, <1>4, <1>5, <1>6, <1>7, <1>8 DEF verifyContext, verifyContextV0

(* A complete size is that of some leaves of the log. *)
LEMMA SizeHasLeaves ==
  ASSUME Holding(mc, leaves), NEW a \in Nat, NEW s \in CompleteSizes(MMRIndex(a))
  PROVE  \E b \in Nat : /\ b # 0 /\ b <= leaves /\ a < b
                        /\ s = MMRIndex(b) /\ LeafCount(s) = b
<1>1. /\ leaves \in Nat /\ RangeCount(mc) = MMRIndex(leaves) /\ MMRIndex(leaves) \in Nat
      /\ MMRIndex(a) \in Nat
  BY HoldingSizes, MMRIndexBounds DEF Holding
<1>2. s \in Nat /\ MMRIndex(a) < s /\ s <= MMRIndex(leaves) /\ Peaks(s - 1) # << >>
  BY <1>1 DEF CompleteSizes
<1>3. s - 1 \in Nat /\ s - 1 < MMRIndex(leaves)
  BY <1>1, <1>2
<1>4. PICK b \in Nat : b # 0 /\ b <= leaves /\ MMRIndex(b) \in Nat /\ s - 1 = MMRIndex(b) - 1
  BY <1>1, <1>2, <1>3, PeaksAtEnd
<1>5. s = MMRIndex(b)
  BY <1>2, <1>4
<1>6. a < b
  <2>1. b <= a => MMRIndex(b) + (a - b) <= MMRIndex(a)
    BY MMRIndexMono
  <2> QED BY <1>1, <1>2, <1>4, <1>5, <2>1
<1> QED BY <1>4, <1>5, <1>6, LeafCountOf

(* verifyContext takes a seal of any size of the massif, of either         *)
(* version, exactly if the log that was sealed has not forked from the one *)
(* that the massif holds: for massifs of any height, however many leaves   *)
(* the log has and wherever the two differ.                                *)
THEOREM SealsVerify == Spec => []SealVerifiesItsLog
<1>1. ASSUME HoldsTheLog, JustRead, NEW s \in CompleteSizes(mc.firstIndex),
             NEW version \in {0, 2}, NEW k \in Forks(LeafCount(s))
      PROVE  verifyContext(Mapped(mc),
                           SealOf(version, s, PeakHashes(LogForkedAt[k], s - 1), "key"),
                           Options(NoKey, NoBase))
               <=> LeafCount(s) <= k
  <2>1. Holding(mc, leaves)
    BY <1>1 DEF HoldsTheLog
  <2>2. /\ leaves \in Nat /\ leaves <= MaxLeaves /\ MaxLeaves \in Nat
        /\ FirstLeaf(mc) \in Nat /\ mc.firstIndex = MMRIndex(FirstLeaf(mc))
    BY <2>1, HoldingSizes, MaxLeavesAssumption DEF Holding
  <2>3. PICK b \in Nat : /\ b # 0 /\ b <= leaves /\ FirstLeaf(mc) < b
                         /\ s = MMRIndex(b) /\ LeafCount(s) = b
    BY <1>1, <2>1, <2>2, SizeHasLeaves
  <2>4. b <= MaxLeaves /\ FirstLeaf(mc) <= b /\ k \in 0 .. MaxLeaves
    BY <1>1, <2>2, <2>3 DEF Forks
  <2>5. PICK seal : seal = SealOf(version, s, PeakHashes(LogForkedAt[k], s - 1), "key")
    OBVIOUS
  <2>6. /\ seal.version = version /\ seal.mmrSize = MMRIndex(b)
        /\ seal.signed = IF version = 0 THEN BagOf(k, b)
                         ELSE PeakHashes(LogForkedAt[k], MMRIndex(b) - 1)
    BY <2>3, <2>5 DEF SealOf, BagOf
  <2>7. Options(NoKey, NoBase).base = NoBase /\ SealPublicKey(seal, Options(NoKey, NoBase))
    BY DEF Options, SealPublicKey
  <2>8. HoldingMap(Mapped(mc), leaves) /\ FirstLeaf(Mapped(mc)) <= b
    BY <2>1, <2>4, MappedHolds
  <2>9. CASE version = 0
    <3>1. verifyContext(Mapped(mc), seal, Options(NoKey, NoBase))
            <=> BagOf(k, b) = HashPeaksRHS(PeaksOfLog(b))
      BY <2>3, <2>6, <2>7, <2>8, <2>9, BagSealChecked
    <3> QED BY <2>3, <2>4, <2>5, <3>1, BagsTell
  <2>10. CASE version = 2
    <3>1. verifyContext(Mapped(mc), seal, Options(NoKey, NoBase))
            <=> PeakHashes(LogForkedAt[k], MMRIndex(b) - 1) = PeaksOfLog(b)
      BY <2>3, <2>6, <2>7, <2>8, <2>10, SealChecked
    <3> QED BY <2>3, <2>4, <2>5, <3>1, PeaksTell
  <2> QED BY <2>9, <2>10
<1>2. ASSUME HoldsTheLog PROVE SealVerifiesItsLog
  BY <1>1, <1>2 DEF SealVerifiesItsLog
<1> QED BY <1>2, MassifHoldsTheLog, PTL

(* With a trusted state, of any earlier size of the log, a seal of the     *)
(* massif's size is taken only if the log extends the log of that state. A *)
(* state of version 2 is then taken if its peaks are in reach, and one of  *)
(* version 0 if it is of the seal's own size: wherever the logs fork.      *)
THEOREM BasesExtend == Spec => []BaseIsExtended
<1>1. ASSUME HoldsTheLog, JustRead, NEW s \in CompleteSizes(0), NEW version \in {0, 2},
             NEW k \in Forks(LeafCount(s))
      PROVE  LET size == RangeCount(mc)
                 seal == SealOf(version, size, PeakHashes(LogForkedAt[leaves], size - 1), "key")
                 base == StateOf(version, s, PeakHashes(LogForkedAt[k], s - 1))
                 inReach == \/ s > mc.firstIndex
                            \/ Range(Peaks(s - 1)) \subseteq Range(Peaks(mc.firstIndex - 1))
             IN verifyContext(Mapped(mc), seal, Options("key", base))
                  <=> /\ LeafCount(s) <= k
                      /\ IF version = 0 THEN s = size ELSE inReach
  <2>1. Holding(mc, leaves)
    BY <1>1 DEF HoldsTheLog
  <2>12. PICK c : c = Mapped(mc)
    OBVIOUS
  <2>2. PICK n \in Nat, a \in Nat :
           /\ n = leaves /\ n # 0 /\ n <= MaxLeaves /\ MaxLeaves \in Nat
           /\ a = FirstLeaf(mc) /\ a <= n /\ mc.firstIndex = MMRIndex(a)
           /\ RangeCount(mc) = MMRIndex(n) /\ MMRIndex(n) \in Nat
           /\ HoldingMap(c, n) /\ FirstLeaf(c) = a
    <3>1. /\ leaves \in Nat /\ leaves # 0 /\ leaves <= MaxLeaves /\ MaxLeaves \in Nat
          /\ FirstLeaf(mc) \in Nat /\ FirstLeaf(mc) <= leaves
          /\ mc.firstIndex = MMRIndex(FirstLeaf(mc)) /\ RangeCount(mc) = MMRIndex(leaves)
          /\ MMRIndex(leaves) \in Nat
      BY <1>1, <2>1, HasLeaves, HoldingSizes, MaxLeavesAssumption DEF Holding, JustRead
    <3>2. HoldingMap(Mapped(mc), leaves) /\ FirstLeaf(Mapped(mc)) = FirstLeaf(mc)
      BY <2>1, MappedHolds
    <3> QED BY <2>12, <3>1, <3>2
  <2>3. PICK b \in Nat : b # 0 /\ b <= n /\ s = MMRIndex(b) /\ LeafCount(s) = b
    <3>1. MMRIndex(0) = 0
      BY MMRIndexBounds
    <3> QED BY <1>1, <2>1, <2>2, <3>1, SizeHasLeaves
  <2>4. b <= MaxLeaves /\ k \in 0 .. MaxLeaves /\ n \in 0 .. MaxLeaves
    BY <1>1, <2>2, <2>3 DEF Forks
  <2>5. PICK seal, base, options :
           /\ seal = SealOf(version, MMRIndex(n), PeakHashes(LogForkedAt[n], MMRIndex(n) - 1), "key")
           /\ base = StateOf(version, s, PeakHashes(LogForkedAt[k], s - 1))
           /\ options = Options("key", base)
    OBVIOUS
  <2>6. /\ seal.version = version /\ seal.mmrSize = MMRIndex(n) /\ seal.key = "key"
        /\ seal.signed = IF version = 0 THEN BagOf(n, n)
                         ELSE PeakHashes(LogForkedAt[n], MMRIndex(n) - 1)
        /\ base.version = version /\ base.mmrSize = MMRIndex(b) /\ base.root = BagOf(k, b)
        /\ base.peaks = PeakHashes(LogForkedAt[k], MMRIndex(b) - 1)
        /\ options.base = base /\ SealPublicKey(seal, options)
    BY <2>3, <2>5 DEF SealOf, StateOf, Options, BagOf, SealPublicKey
  <2>7. base # NoBase
    <3>1. NoBase.version = -1 /\ base.version # -1
      BY <2>6 DEF NoBase
    <3> QED BY <3>1
  <2>8. s = MMRIndex(n) <=> b = n
    <3>1. MMRIndex(b) + (n - b) <= MMRIndex(n) /\ MMRIndex(b) \in Nat
      BY <2>2, <2>3, MMRIndexMono, MMRIndexBounds
    <3> QED BY <2>2, <2>3, <3>1
  <2>9. CASE version = 0
    <3> DEFINE t == StoreOf(LogTo(n))
               proof == IndexConsistencyProofBagged(MMRIndex(n), MMRIndex(n), t)
               shown == CheckConsistencyBagged(t, proof, BagOf(k, b))
    <3>1. seal.signed = HashPeaksRHS(PeaksOfLog(n))
      BY <2>2, <2>4, <2>6, <2>9, BagsTell
    <3>2. verifyContext(c, seal, options) <=> shown
      BY <2>2, <2>6, <2>7, <2>9, <3>1, BagSealChecked
    <3>3. ASSUME shown PROVE BagOf(k, b) = HashPeaksRHS(PeaksOfLog(n))
      <4>1. proof.mmrSizeA = MMRIndex(n)
        BY DEF IndexConsistencyProofBagged
      <4>2. HashPeaksRHS(PeakBagRHS(t, 0, PosPeaks(MMRIndex(n)))) = BagOf(k, b)
        BY <3>3, <4>1 DEF CheckConsistencyBagged, VerifyConsistencyBagged
      <4> QED BY <2>2, <4>2, BagRead DEF PeaksOfLog
    <3>4. shown => b = n /\ b <= k
      BY <2>2, <2>3, <2>4, <3>3, BagsTell
    <3>5. b = n /\ b <= k => shown
      BY <2>2, <2>3, <2>4, BagsTold
    <3> QED BY <2>12, <2>2, <2>3, <2>5, <2>8, <2>9, <3>2, <3>4, <3>5
  <2>10. CASE version = 2
    <3>1. seal.signed = PeaksOfLog(n)
      BY <2>2, <2>4, <2>6, <2>10, PeaksTell
    <3>2. verifyContext(c, seal, options)
            <=> CheckConsistency(NodesSeen(c), MMRIndex(b), MMRIndex(n), base.peaks)
      BY <2>2, <2>6, <2>7, <2>10, <3>1, SealChecked
    <3>3. PeaksInReach(a, b) =>
            (CheckConsistency(NodesSeen(c), MMRIndex(b), MMRIndex(n), base.peaks) <=> b <= k)
      BY <2>2, <2>3, <2>4, <2>6, SeenConsistent, ForksTold
    <3>4. CheckConsistency(NodesSeen(c), MMRIndex(b), MMRIndex(n), base.peaks) => PeaksInReach(a, b)
      BY <2>2, <2>3, OutOfReach DEF CheckConsistency
    <3>5. PeaksInReach(a, b)
            <=> \/ s > mc.firstIndex
                \/ Range(Peaks(s - 1)) \subseteq Range(Peaks(mc.firstIndex - 1))
      BY <2>2, <2>3, ReachOfPeaks
    <3> QED BY <2>12, <2>2, <2>3, <2>5, <2>10, <3>2, <3>3, <3>4, <3>5
  <2> QED BY <2>9, <2>10
<1>2. ASSUME HoldsTheLog PROVE BaseIsExtended
  BY <1>1, <1>2 DEF BaseIsExtended
<1> QED BY <1>2, MassifHoldsTheLog, PTL

=============================================================================
