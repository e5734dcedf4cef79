----------------------------- MODULE MMRVerify -----------------------------
(***************************************************************************)
(* A verifier that follows a log it does not keep.  All it remembers is    *)
(* the size and the peaks of the range it last accepted.  The log grows,   *)
(* and its store may be put back to an earlier state and grow differently. *)
(* From time to time the verifier takes the store's proof that the range   *)
(* extends the one it knows: mmr.CheckConsistency, which verifyContext     *)
(* calls with the state of a trusted base.                                 *)
(***************************************************************************)
EXTENDS MMRBagged

CONSTANTS Values,       \* leaf values
          MaxLogLeaves  \* bound: leaves in a log

ASSUME ValuesAssumption == Values # {} /\ MaxLogLeaves \in Nat \ {0}

VARIABLES
  nodes,      \* the store: the nodes by mmr index, from 1
  logLeaves,  \* history: the leaves they were built from
  trusted,    \* the state the verifier accepted last
  accepted    \* history: the leaves of that state

verifyVars == <<nodes, logLeaves, trusted, accepted>>

Build(values) == FoldLeft(AddHashedLeaf, << >>, values)

State(ns) == [mmrSize |-> Len(ns), peaks |-> PeakHashes(StoreOf(ns), Len(ns) - 1)]

(* The verifier takes the first state it sees on trust *)
VerifyInit ==
  /\ \E v \in Values : logLeaves = <<v>>
  /\ nodes = Build(logLeaves)
  /\ accepted = logLeaves
  /\ trusted = State(nodes)

Add(v) ==
  /\ Len(logLeaves) < MaxLogLeaves
  /\ nodes' = AddHashedLeaf(nodes, v)
  /\ logLeaves' = Append(logLeaves, v)
  /\ UNCHANGED <<trusted, accepted>>

(* The store is put back to an earlier state *)
PutBack(n) ==
  /\ n < Len(logLeaves)
  /\ logLeaves' = SubSeq(logLeaves, 1, n)
  /\ nodes' = Build(logLeaves')
  /\ UNCHANGED <<trusted, accepted>>

(* What MassifContext.CheckConsistency does instead, which nothing here    *)
(* calls: a store of the size that is trusted is not looked at.            *)
ContextCheckConsistency(base, ns) ==
  /\ Len(ns) >= base.mmrSize
  /\ Len(ns) > base.mmrSize =>
       CheckConsistency(StoreOf(ns), base.mmrSize, Len(ns), base.peaks)

Consistent(base, ns) ==
  CheckConsistency(StoreOf(ns), base.mmrSize, Len(ns), base.peaks)

Accept ==
  /\ Consistent(trusted, nodes)
  /\ trusted' = State(nodes)
  /\ accepted' = logLeaves
  /\ UNCHANGED <<nodes, logLeaves>>

VerifyNext ==
  \/ \E v \in Values : Add(v)
  \/ \E n \in 1 .. MaxLogLeaves : PutBack(n)
  \/ Accept

VerifySpec == VerifyInit /\ [][VerifyNext]_verifyVars

-----------------------------------------------------------------------------
(* Properties *)

(* The verifier never accepts a log that does not extend the one it knows, *)
(* whatever the store went through in between: the peaks are enough.  That *)
(* verifyContext checks a base of the store's own size too is what it      *)
(* takes: with ContextCheckConsistency a fork of that size is accepted.    *)
NeverAcceptsAFork == [][IsPrefix(accepted, accepted')]_accepted

(* It never turns down one that does. *)
AcceptsEveryExtension == IsPrefix(accepted, logLeaves) => Consistent(trusted, nodes)

Size == Len(nodes)
Store == StoreOf(nodes)

(* The two properties below are of the store alone: it is enough to look   *)
(* at each store once, when it has just been accepted.                     *)
JustAccepted == accepted = logLeaves

(* The proof of a leaf, by the length of the proof, and of any node, with  *)
(* its height taken into account, lead to the peak it is under, and not    *)
(* before the proof ends; no other node's value is shown by it.            *)
InclusionProofsVerify ==
  JustAccepted => \A i \in 0 .. Size - 1, j \in 0 .. Size - 1 :
    LET proof == InclusionProof(Store, Size - 1, i)
        root == GetProofPeakRoot(Size, i, PeakHashes(Store, Size - 1), Len(proof))
        shown == VerifyInclusionPath(Store[j], i, proof, root)
    IN /\ IF Store[j] = Store[i] THEN shown = <<TRUE, Len(proof)>> ELSE ~shown[1]
       /\ IndexHeight(i) = 0 =>
            (VerifyInclusion(Store, Size, Store[j], i, proof) <=> Store[j] = Store[i])

(* Against the single root too, the proof of a node shows its value and no *)
(* other, whichever peak the node is under.                                *)
BaggedProofsVerify ==
  JustAccepted => \A i \in 0 .. Size - 1, j \in 0 .. Size - 1 :
    VerifyInclusionBagged(Size, Store[j], i, InclusionProofBagged(Size, Store, i),
                          GetRoot(Size, Store))
      <=> Store[j] = Store[i]

(* A verifier that remembers the root only, and has the peaks from the     *)
(* store that may have forked, accepts the extensions of the log it knows  *)
(* and nothing else.                                                       *)
BaggedConsistency ==
  LET proof == IndexConsistencyProofBagged(trusted.mmrSize, Size, Store)
  IN CheckConsistencyBagged(Store, proof, HashPeaksRHS(trusted.peaks))
       <=> IsPrefix(accepted, logLeaves)

(* The proof of a leaf is extended as the log is: it begins with the proof *)
(* in the range known before, which leads to the peak that was.            *)
ProofsAreExtended ==
  IsPrefix(accepted, logLeaves) /\ accepted # logLeaves =>
    \A k \in DOMAIN accepted :
      LET i == MMRIndex(k - 1)
          sizeA == trusted.mmrSize
          ext == InclusionProofLocalExtend(sizeA, Size, Store, i)
          proofA == SubSeq(ext.path, 1, ext.heightA)
      IN /\ VerifyInclusion(Store, sizeA, accepted[k], i, proofA)
         /\ IncludedRoot(i, accepted[k], proofA) = Store[ext.peakIndexA]
         /\ IncludedRoot(i, accepted[k], ext.path) = Store[ext.peakIndexB]
         /\ ext.peakIndexA \in Range(Peaks(sizeA - 1))
         /\ ext.peakIndexB \in Range(Peaks(Size - 1))

=============================================================================
