------------------------------ MODULE MMRBagged ------------------------------
(***************************************************************************)
(* Package mmr: proofs against a single root, as the seals of version 0    *)
(* have it.  The peaks of a range are bagged, from the lowest up, into one *)
(* hash.  A proof leads to the peak of its node first and through the bag  *)
(* of peaks from there.                                                    *)
(***************************************************************************)
EXTENDS MMRProof

(* A hash that commits to no position *)
HashPair(a, b) == <<0, a, b>>

(* proofbagged.go: << >> stands for nil, the bag without peaks.  The last  *)
(* two of the list are replaced by their hash until one is left.           *)
HashPeaksRHS(peakHashes) ==
  IF peakHashes = << >> THEN << >>
  ELSE FoldLeft(LAMBDA bag, left : HashPair(bag, left), Last(peakHashes),
                Reverse(Front(peakHashes)))

HashesAt(store, positions) ==
  [k \in DOMAIN positions |-> store[positions[k] - 1]]

(* The peaks are listed in ascending order, so those that are skipped are  *)
(* the first and those that are kept until the loop breaks are.            *)
PeakBagRHS(store, pos, peaks) ==
  LET skipped == {k \in DOMAIN peaks : peaks[k] <= pos}
  IN HashesAt(store, SubSeq(peaks, Cardinality(skipped) + 1, Len(peaks)))

BagPeaksRHS(store, pos, peaks) == HashPeaksRHS(PeakBagRHS(store, pos, peaks))

(* No bag, and no sibling, if there are no peaks to the right *)
RightSibling(store, pos, peaks) ==
  IF PeakBagRHS(store, pos, peaks) = << >> THEN << >>
  ELSE <<BagPeaksRHS(store, pos, peaks)>>

PeaksLHS(store, pos, peaks) ==
  LET kept == {k \in DOMAIN peaks : peaks[k] < pos}
  IN HashesAt(store, SubSeq(peaks, 1, Cardinality(kept)))

GetRoot(mmrSize, store) == BagPeaksRHS(store, 0, PosPeaks(mmrSize))

-----------------------------------------------------------------------------
(* Inclusion *)

(* The index where the climb from i ends *)
climb[at \in Nat \X Nat \X Nat] ==
  LET i == at[1]
      g == at[2]
      mmrSize == at[3]
      right == IndexHeight(i + 1) > g
      iSibling == IF right THEN i - 2 * 2^g + 1 ELSE i + 2 * 2^g - 1
  IN IF i >= mmrSize \/ iSibling >= mmrSize THEN i
     ELSE climb[<<IF right THEN i + 1 ELSE i + 2 * 2^g, g + 1, mmrSize>>]
LocalPeak(mmrSize, i) == climb[<<i, IndexHeight(i), mmrSize>>]

InclusionProofLocal(mmrSize, store, i) ==
  IF i >= mmrSize THEN << >> ELSE InclusionProof(store, mmrSize - 1, i)

(* Slip: the peaks to the left are not reversed *)
InclusionProofBaggedForwards(mmrSize, store, i) ==
  LET iLocalPeak == LocalPeak(mmrSize, i)
  IN InclusionProofLocal(mmrSize, store, i)
     \o RightSibling(store, iLocalPeak + 1, PosPeaks(mmrSize))
     \o PeaksLHS(store, iLocalPeak + 1, PosPeaks(mmrSize))

InclusionProofBagged(mmrSize, store, i) ==
  LET iLocalPeak == LocalPeak(mmrSize, i)
  IN InclusionProofLocal(mmrSize, store, i)
     \o RightSibling(store, iLocalPeak + 1, PosPeaks(mmrSize))
     \o Reverse(PeaksLHS(store, iLocalPeak + 1, PosPeaks(mmrSize)))

(* One element of a proof: on a peak the bag of the peaks to the right, or *)
(* a peak to the left; below it a sibling.                                 *)
AccumulateBagged(at, p, peaks, localPeak) ==
  LET commit(pos, a, b) ==
        IF pos <= localPeak THEN HashPosPair64(pos, a, b) ELSE HashPair(a, b)
      pos == at.pos
      left == pos + 2 * 2^at.g
  IN IF pos \in Range(peaks)
     THEN [at EXCEPT !.pos = Last(peaks),
                     !.hash = IF pos = Last(peaks) THEN HashPair(@, p)
                              ELSE HashPair(p, @)]
     ELSE IF PosHeight(pos + 1) > at.g
     THEN [pos |-> pos + 1, g |-> at.g + 1, hash |-> commit(pos + 1, p, at.hash)]
     ELSE [pos |-> left, g |-> at.g + 1, hash |-> commit(left, at.hash, p)]

(* The loop returns with the first hash that is the root *)
BaggedRound(at, p, peaks, localPeak, root) ==
  IF at.found THEN at
  ELSE LET next == AccumulateBagged(at.node, p, peaks, localPeak)
       IN [node |-> next, used |-> at.used + 1, found |-> next.hash = root]

(* Whether a prefix of the path leads to the root, and the shortest one    *)
VerifyFirstInclusionPathBagged(mmrSize, leafHash, iNode, proof, root) ==
  LET peaks == PosPeaks(mmrSize)
      above == {p \in Range(peaks) : p >= iNode + 1}
      localPeak == IF above = {} THEN 0 ELSE Min(above)
      round(at, p) == BaggedRound(at, p, peaks, localPeak, root)
      end == FoldLeft(round,
               [node |-> [pos |-> iNode + 1, g |-> IndexHeight(iNode), hash |-> leafHash],
                used |-> 0, found |-> FALSE], proof)
  IN IF Len(proof) = 0 /\ leafHash = root THEN <<TRUE, 0>>
     ELSE <<end.found, end.used>>

VerifyInclusionBagged(mmrSize, nodeHash, iNode, proof, root) ==
  VerifyFirstInclusionPathBagged(mmrSize, nodeHash, iNode, proof, root)
    = <<TRUE, Len(proof)>>

-----------------------------------------------------------------------------
(* proofofconsistencybagged.go, verifyconsistencybagged.go *)

(* The proofs of the peaks of A in B, one after the other *)
IndexConsistencyProofBagged(mmrSizeA, mmrSizeB, store) ==
  LET add(proofs, pos) == proofs \o InclusionProofBagged(mmrSizeB, store, pos - 1)
  IN [mmrSizeA |-> mmrSizeA, mmrSizeB |-> mmrSizeB,
      path |-> FoldLeft(add, << >>, PosPeaks(mmrSizeA))]

(* The path is used up peak by peak *)
UsesUpPath(peakHashesA, proof, rootB) ==
  LET round(at, k) ==
        LET first == VerifyFirstInclusionPathBagged(proof.mmrSizeB, peakHashesA[k],
                       PosPeaks(proof.mmrSizeA)[k] - 1, at.path, rootB)
        IN IF ~at.ok \/ ~first[1] THEN [at EXCEPT !.ok = FALSE]
           ELSE [ok |-> TRUE, path |-> SubSeq(at.path, first[2] + 1, Len(at.path))]
      end == FoldLeftDomain(round, [ok |-> TRUE, path |-> proof.path], peakHashesA)
  IN end.ok /\ end.path = << >>

(* Slip: the root that is known is not reproduced *)
VerifyConsistencyBaggedUnrooted(peakHashesA, proof, rootA, rootB) ==
  /\ peakHashesA # << >>
  /\ IF proof.path = << >> THEN rootA = rootB
     ELSE UsesUpPath(peakHashesA, proof, rootB)

VerifyConsistencyBagged(peakHashesA, proof, rootA, rootB) ==
  /\ peakHashesA # << >>
  /\ HashPeaksRHS(peakHashesA) = rootA
  /\ IF proof.path = << >> THEN rootA = rootB
     ELSE UsesUpPath(peakHashesA, proof, rootB)

(* The peaks of A are those the store has now.  A peak that cannot be read *)
(* is an error, and the check fails.                                       *)
CheckConsistencyBagged(store, proof, rootA) ==
  LET peaksA == PosPeaks(proof.mmrSizeA)
      readable(p) == p - 1 \in DOMAIN store
  IN /\ \A k \in DOMAIN peaksA : readable(peaksA[k])
     /\ VerifyConsistencyBagged(PeakBagRHS(store, 0, peaksA), proof, rootA,
                                GetRoot(proof.mmrSizeB, store))

-----------------------------------------------------------------------------
(* proofrefresh.go *)

(* The node the loop is at when it has gone up to a height, and its        *)
(* sibling.  Heights are counted from 0 at i, as is right if i is a leaf.  *)
ascent[at \in Nat \X Nat] ==
  LET i == at[1]
      height == at[2]
      below == ascent[<<i, height - 1>>]
  IN IF height = 0 THEN i
     ELSE IF IndexHeight(below + 1) > IndexHeight(below) THEN below + 1
     ELSE below + 2 * 2^(height - 1)

SiblingAt(i, height) ==
  LET node == ascent[<<i, height>>]
  IN IF IndexHeight(node + 1) > IndexHeight(node) THEN node - 2 * 2^height + 1
     ELSE node + 2 * 2^height - 1

(* Slip: the sibling is compared with the size of A one too late *)
HeightsBeyondLate(mmrSizeA, i, heights) == {g \in heights : SiblingAt(i, g) > mmrSizeA}

(* Where the sibling is not in A *)
HeightsBeyond(mmrSizeA, i, heights) == {g \in heights : SiblingAt(i, g) >= mmrSizeA}

(* The empty result, which comes with ErrNewLogSizeMustBeGreater *)
NoExtension == [path |-> << >>, heightA |-> 0, peakIndexA |-> 0, peakIndexB |-> 0]

(* A node's proof in B, and how much of it is its proof in A.  The loop    *)
(* goes up to a height if it has met a sibling in B at each lower one; it  *)
(* takes notice of A once, at the first sibling that is not in A.          *)
InclusionProofLocalExtend(mmrSizeA, mmrSizeB, store, i) ==
  LET entered(g) == ascent[<<i, g>>] < mmrSizeB
      heights == {g \in 0 .. mmrSizeB :
                    \A f \in 0 .. g - 1 : entered(f) /\ SiblingAt(i, f) < mmrSizeB}
      top == Max(heights)
      beyondA == HeightsBeyond(mmrSizeA, i, {g \in heights : entered(g)})
      heightA == IF beyondA = {} THEN 0 ELSE Min(beyondA)
  IN IF mmrSizeB <= mmrSizeA THEN NoExtension
     ELSE [path |-> [k \in 1 .. top |-> store[SiblingAt(i, k - 1)]],
           heightA |-> heightA,
           peakIndexA |-> IF beyondA = {} THEN 0 ELSE ascent[<<i, heightA>>],
           peakIndexB |-> ascent[<<i, top>>]]

=============================================================================
