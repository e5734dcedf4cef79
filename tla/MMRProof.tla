------------------------------ MODULE MMRProof ------------------------------
(***************************************************************************)
(* Package mmr: proofs that a node is in a range, and that a range extends *)
(* an earlier one.  Where the code returns an error a separate predicate   *)
(* says when it does not, and a check that errs is a check that fails.     *)
(***************************************************************************)
EXTENDS MMR, SequencesExt

HashPosPair64(pos, a, b) == <<pos, a, b>>

(* add.go: the store after a leaf and the parents it completes.  A round   *)
(* that appends nothing is the loop's exit: no later round appends either. *)
AddHashedLeaf(nodes, value) ==
  LET round(s, g) ==
        LET i == Len(s)
        IN IF IndexHeight(i) > g - 1
           THEN Append(s, HashPosPair64(i + 1, s[i - 2^g + 1], s[i]))
           ELSE s
  IN FoldLeft(round, Append(nodes, value),
              [g \in 1 .. BitLength(Len(nodes) + 1) |-> g])

(* A sequence of nodes as a store that is read by mmr index *)
StoreOf(nodes) == [i \in 0 .. Len(nodes) - 1 |-> nodes[i + 1]]

-----------------------------------------------------------------------------
(* proof.go *)

(* Slip: the index of a sibling is compared with the size of the range *)
pathBeyond[at \in Nat \X Nat \X Nat] ==
  LET i == at[1]
      g == at[2]
      mmrLastIndex == at[3]
      right == IndexHeight(i + 1) > g
      iSibling == IF right THEN i - 2 * 2^g + 1 ELSE i + 2 * 2^g - 1
      iParent == IF right THEN i + 1 ELSE i + 2 * 2^g
  IN IF iSibling > mmrLastIndex + 1 THEN << >>
     ELSE <<iSibling>> \o pathBeyond[<<iParent, g + 1, mmrLastIndex>>]
PathBeyondTheEnd(mmrLastIndex, i) == pathBeyond[<<i, IndexHeight(i), mmrLastIndex>>]

path[at \in Nat \X Nat \X Nat] ==
  LET i == at[1]
      g == at[2]
      mmrLastIndex == at[3]
      right == IndexHeight(i + 1) > g
      iSibling == IF right THEN i - 2 * 2^g + 1 ELSE i + 2 * 2^g - 1
      iParent == IF right THEN i + 1 ELSE i + 2 * 2^g
  IN IF iSibling > mmrLastIndex THEN << >>
     ELSE <<iSibling>> \o path[<<iParent, g + 1, mmrLastIndex>>]

InclusionProofPath(mmrLastIndex, i) == path[<<i, IndexHeight(i), mmrLastIndex>>]

(* The index is in range and the store has every node of the path *)
Provable(store, mmrLastIndex, i) ==
  /\ i <= mmrLastIndex
  /\ \A k \in DOMAIN InclusionProofPath(mmrLastIndex, i) :
       InclusionProofPath(mmrLastIndex, i)[k] \in DOMAIN store

InclusionProof(store, mmrLastIndex, i) ==
  LET p == InclusionProofPath(mmrLastIndex, i)
  IN [k \in DOMAIN p |-> store[p[k]]]

GetProofPeakIndex(mmrSize, d, heightIndex) ==
  PeakIndex(PeaksBitmap(mmrSize), heightIndex + d)

(* The peak list is counted from 0 in the code *)
GetProofPeakRoot(mmrSize, i, peakHashes, proofLen) ==
  peakHashes[GetProofPeakIndex(mmrSize, proofLen, IndexHeight(i)) + 1]

-----------------------------------------------------------------------------
(* includedroot.go, verify.go *)

(* Slip: the siblings are hashed in the order of the climb *)
IncludedRootUnordered(i, nodeHash, proof) ==
  LET round(at, sibling) ==
        IF IndexHeight(at.i + 1) > at.g
        THEN [i |-> at.i + 1, g |-> at.g + 1,
              root |-> HashPosPair64(at.i + 2, at.root, sibling)]
        ELSE [i |-> at.i + 2 * 2^at.g, g |-> at.g + 1,
              root |-> HashPosPair64(at.i + 2 * 2^at.g + 1, at.root, sibling)]
  IN FoldLeft(round, [i |-> i, g |-> IndexHeight(i), root |-> nodeHash], proof).root

IncludedRoot(i, nodeHash, proof) ==
  LET round(at, sibling) ==
        IF IndexHeight(at.i + 1) > at.g
        THEN [i |-> at.i + 1, g |-> at.g + 1,
              root |-> HashPosPair64(at.i + 2, sibling, at.root)]
        ELSE [i |-> at.i + 2 * 2^at.g, g |-> at.g + 1,
              root |-> HashPosPair64(at.i + 2 * 2^at.g + 1, at.root, sibling)]
  IN FoldLeft(round, [i |-> i, g |-> IndexHeight(i), root |-> nodeHash], proof).root

VerifyInclusion(store, mmrSize, leafHash, iNode, proof) ==
  LET peaks == PeakHashes(store, mmrSize - 1)
      ipeak == PeakIndex(LeafCount(mmrSize), Len(proof))
  IN /\ ipeak < Len(peaks)
     /\ IncludedRoot(iNode, leafHash, proof) = peaks[ipeak + 1]

(* How many steps of the proof reach the root, and whether any does *)
VerifyInclusionPath(leafHash, iNode, proof, root) ==
  LET reached == {k \in DOMAIN proof :
                    IncludedRoot(iNode, leafHash, SubSeq(proof, 1, k)) = root}
  IN IF Len(proof) = 0 /\ leafHash = root THEN <<TRUE, 0>>
     ELSE IF reached = {} THEN <<FALSE, Len(proof)>>
     ELSE <<TRUE, CHOOSE k \in reached : \A j \in reached : k <= j>>

-----------------------------------------------------------------------------
(* proofofconsistency.go, consistentroots.go, verifyconsistency.go *)

(* One inclusion proof in MMR(B) for each peak of MMR(A) *)
IndexConsistencyProof(store, mmrIndexA, mmrIndexB) ==
  [k \in DOMAIN Peaks(mmrIndexA) |->
     InclusionProof(store, mmrIndexB, Peaks(mmrIndexA)[k])]

ConsistencyProvable(store, mmrIndexA, mmrIndexB) ==
  \A k \in DOMAIN Peaks(mmrIndexA) :
    Provable(store, mmrIndexB, Peaks(mmrIndexA)[k])

(* The peaks the proofs lead to, each once; those that share a peak are    *)
(* neighbours.                                                             *)
ConsistentRoots(ifrom, accumulatorfrom, proofs) ==
  LET root(k) == IncludedRoot(Peaks(ifrom)[k], accumulatorfrom[k], proofs[k])
      round(roots, k) ==
        IF roots # << >> /\ roots[Len(roots)] = root(k) THEN roots
        ELSE Append(roots, root(k))
  IN FoldLeftDomain(round, << >>, accumulatorfrom)

(* The linear scan: each root is the current peak or the next one down *)
MatchPeaks(proven, peaksTo) ==
  LET round(at, root) ==
        IF ~at.ok \/ peaksTo[at.ito] = root THEN at
        ELSE [ito |-> at.ito + 1,
              ok |-> at.ito + 1 <= Len(peaksTo) /\ peaksTo[at.ito + 1] = root]
  IN FoldLeft(round, [ito |-> 1, ok |-> TRUE], proven).ok

VerifyConsistency(mmrSizeA, proofs, peaksFrom, peaksTo) ==
  /\ Len(Peaks(mmrSizeA - 1)) = Len(proofs)
  /\ MatchPeaks(ConsistentRoots(mmrSizeA - 1, peaksFrom, proofs), peaksTo)

(* A proof or a peak with a node that cannot be read is an error *)
CheckConsistency(store, mmrSizeA, mmrSizeB, peakHashesA) ==
  /\ ConsistencyProvable(store, mmrSizeA - 1, mmrSizeB - 1)
  /\ \A k \in DOMAIN Peaks(mmrSizeB - 1) : Peaks(mmrSizeB - 1)[k] \in DOMAIN store
  /\ VerifyConsistency(mmrSizeA,
       IndexConsistencyProof(store, mmrSizeA - 1, mmrSizeB - 1),
       peakHashesA, PeakHashes(store, mmrSizeB - 1))

=============================================================================
