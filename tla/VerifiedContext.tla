--------------------------- MODULE VerifiedContext ---------------------------
(***************************************************************************)
(* massifs/massifcontextverified.go, massifcontextverifiedv0.go and        *)
(* mmriver.go: what a reader checks of a massif before relying on it, and  *)
(* the receipts it makes from it.  A seal is signed over the peaks of a    *)
(* range and published without them, so that a verifier has to take them   *)
(* from the log: the signature holds if they are what was signed.  A seal  *)
(* of version 0 is signed over the bag of the peaks.                       *)
(*                                                                         *)
(* These are operators over the contexts of module Massif; module Sealing has *)
(* the order in which massifs and seals are read and written.              *)
(***************************************************************************)
EXTENDS Massif, MMRBagged

NoBase == [version |-> -1]
NoKey == "none"

(* The peaks below i, read one by one: without a map each read of an       *)
(* ancestor uses one up                                                    *)
ReadPeaks(c, i) ==
  LET round(at, p) ==
        IF at.err \/ ~Readable(at.c, p) THEN [at EXCEPT !.err = TRUE]
        ELSE [c |-> AfterGet(at.c, p), err |-> FALSE,
              peaks |-> Append(at.peaks, Get(at.c, p))]
  IN FoldLeft(round, [c |-> c, err |-> FALSE, peaks |-> << >>], Peaks(i))

(* What is signed, and a receipt for each peak, signed in advance *)
SealOf(version, mmrSize, peaks, key) ==
  [version |-> version, mmrSize |-> mmrSize, key |-> key,
   signed |-> IF version = 0 THEN HashPeaksRHS(peaks) ELSE peaks,
   receipts |-> IF version = 0 THEN << >> ELSE peaks]

(* The state a seal stands for, its peaks put back *)
StateOf(version, mmrSize, peaks) ==
  [version |-> version, mmrSize |-> mmrSize, peaks |-> peaks,
   root |-> HashPeaksRHS(peaks)]

(* Slip: the size is taken for the index of the last node *)
ContextCommittedBySize(c, version, key) ==
  LET read == ReadPeaks(c, RangeCount(c))
  IN IF Count(c) = 0 \/ read.err THEN << >>
     ELSE <<SealOf(version, RangeCount(c), read.peaks, key)>>

(* Empty if the peaks cannot be read *)
ContextCommitted(c, version, key) ==
  LET read == ReadPeaks(c, RangeCount(c) - 1)
  IN IF Count(c) = 0 \/ read.err THEN << >>
     ELSE <<SealOf(version, RangeCount(c), read.peaks, key)>>

-----------------------------------------------------------------------------
(* Verification, of a context with a peak map *)

Mapped(c) == [c EXCEPT !.peakStackMap = PeakStackMap(c.height, c.firstIndex)]

NodesSeen(c) ==
  [i \in {j \in DOMAIN c.peakStackMap \cup (c.firstIndex .. RangeCount(c) - 1) :
            Readable(c, j)} |-> Get(c, i)]

PeaksReadable(store, mmrSize) == Range(Peaks(mmrSize - 1)) \subseteq DOMAIN store

SealPublicKey(seal, options) == options.key \in {NoKey, seal.key}

(* Slips: the base is compared with the seal by size alone; the signature  *)
(* is not verified                                                         *)
verifyContextTrustingSize(c, seal, options) ==
  LET store == NodesSeen(c)
      statePeaks == PeakHashes(store, seal.mmrSize - 1)
  IN /\ PeaksReadable(store, seal.mmrSize)
     /\ SealPublicKey(seal, options)
     /\ seal.signed = statePeaks
     /\ CheckConsistency(store, seal.mmrSize, RangeCount(c), statePeaks)
     /\ options.base # NoBase => options.base.mmrSize <= seal.mmrSize

verifyContextUnsigned(c, seal, options) ==
  LET store == NodesSeen(c)
      statePeaks == PeakHashes(store, seal.mmrSize - 1)
  IN /\ PeaksReadable(store, seal.mmrSize)
     /\ SealPublicKey(seal, options)
     /\ CheckConsistency(store, seal.mmrSize, RangeCount(c), statePeaks)

verifyContextV1V2(c, seal, options) ==
  LET store == NodesSeen(c)
      size == RangeCount(c)
      statePeaks == PeakHashes(store, seal.mmrSize - 1)
  IN /\ PeaksReadable(store, seal.mmrSize)
     /\ SealPublicKey(seal, options)
     /\ seal.signed = statePeaks
     /\ CheckConsistency(store, seal.mmrSize, size, statePeaks)
     /\ options.base # NoBase =>
          /\ options.base.version # 0
          /\ CheckConsistency(store, options.base.mmrSize, size, options.base.peaks)

(* The base is checked with a proof from the size of the seal *)
verifyContextV0(c, seal, options) ==
  LET store == NodesSeen(c)
      size == RangeCount(c)
      root == GetRoot(seal.mmrSize, store)
      proof == IndexConsistencyProofBagged(seal.mmrSize, size, store)
  IN /\ PeaksReadable(store, seal.mmrSize)
     /\ SealPublicKey(seal, options)
     /\ seal.signed = root
     /\ PeaksReadable(store, size)
     /\ ConsistencyProvable(store, seal.mmrSize - 1, size - 1)
     /\ CheckConsistencyBagged(store, proof, root)
     /\ options.base # NoBase =>
          CheckConsistencyBagged(store, proof, options.base.root)

verifyContext(c, seal, options) ==
  /\ seal.mmrSize <= RangeCount(c)
  /\ IF seal.version = 0 THEN verifyContextV0(c, seal, options)
     ELSE verifyContextV1V2(c, seal, options)

-----------------------------------------------------------------------------
(* Receipts *)

(* Slip: the peak is chosen from the size of the data, not of the seal *)
ReceiptPeakOfData(c, seal, proof) ==
  PeakIndex(LeafCount(RangeCount(c)), Len(proof))

ReceiptPeak(c, seal, proof) == PeakIndex(LeafCount(seal.mmrSize), Len(proof))

(* From a verified context and its seal: empty if it is refused *)
NewReceipt(c, seal, i) ==
  LET store == NodesSeen(c)
      proof == InclusionProof(store, seal.mmrSize - 1, i)
      peak == ReceiptPeak(c, seal, proof)
  IN IF ~Provable(store, seal.mmrSize - 1, i) \/ peak >= Len(seal.receipts)
     THEN << >>
     ELSE <<[signed |-> seal.receipts[peak + 1], index |-> i, path |-> proof]>>

VerifySignedInclusionReceipt(receipt, candidate) ==
  IncludedRoot(receipt.index, candidate, receipt.path) = receipt.signed

-----------------------------------------------------------------------------
(* Properties *)

(* The log, and logs that are the same up to leaf k and differ after it *)
LogForkedAt ==
  [k \in 0 .. MaxLeaves |->
     StoreOf(FoldLeft(AddHashedLeaf, << >>,
               [n \in 1 .. MaxLeaves |->
                  IF n <= k THEN LeafValue(n - 1) ELSE <<"forked", n - 1>>]))]

Forks(n) == {0, n - 1, n, leaves}

(* The contents of a massif are looked at once, when it was just read *)
JustRead == mc.peakStackMap = NoMap /\ mc.nextAncestor = 0 /\ Count(mc) > 0

CompleteSizes(from) ==
  {s \in from + 1 .. RangeCount(mc) : Peaks(s - 1) # << >>}

Options(key, base) == [key |-> key, base |-> base]

(* A massif is verified by a seal of any of its sizes, of either version,  *)
(* exactly if the log that was sealed is the one it holds.                 *)
SealVerifiesItsLog ==
  JustRead =>
    \A s \in CompleteSizes(mc.firstIndex), version \in {0, 2} :
      \A k \in Forks(LeafCount(s)) :
        LET seal == SealOf(version, s, PeakHashes(LogForkedAt[k], s - 1), "key")
        IN verifyContext(Mapped(mc), seal, Options(NoKey, NoBase))
             <=> LeafCount(s) <= k

(* With a trusted state of any earlier size, a fork is never accepted. One *)
(* that the log extends is, if its peaks are in the massif or its stack:   *)
(* a state from within an earlier massif has peaks in neither.  Version 0  *)
(* accepts the state of the seal's own size only.                          *)
BaseIsExtended ==
  JustRead =>
    LET size == RangeCount(mc)
        seal(version) == SealOf(version, size, PeakHashes(LogForkedAt[leaves], size - 1), "key")
        inReach(b) == \/ b > mc.firstIndex
                      \/ Range(Peaks(b - 1)) \subseteq Range(Peaks(mc.firstIndex - 1))
    IN \A b \in CompleteSizes(0), version \in {0, 2} :
         \A k \in Forks(LeafCount(b)) :
           LET base == StateOf(version, b, PeakHashes(LogForkedAt[k], b - 1))
           IN verifyContext(Mapped(mc), seal(version), Options("key", base))
                <=> /\ LeafCount(b) <= k
                    /\ IF version = 0 THEN b = size ELSE inReach(b)

(* A sealer that reads the peaks through a context with the map of its     *)
(* massif signs the peaks of the log.  Without a map it may sign others or *)
(* fail, but a seal that is not the log's is not accepted.                 *)
SealedPeaks ==
  LET sealed == ContextCommitted(mc, 2, "key")
  IN /\ mc.peakStackMap # NoMap /\ MapIsFresh /\ Count(mc) > 0 => sealed # << >>
     /\ sealed # << >> =>
          LET right == sealed[1].signed = PeakHashes(LogForkedAt[leaves], RangeCount(mc) - 1)
          IN /\ mc.peakStackMap # NoMap /\ MapIsFresh => right
             /\ verifyContext(Mapped(mc), sealed[1], Options(NoKey, NoBase)) <=> right

(* The receipt of a leaf is given by any seal of version 2 that covers it, *)
(* and shows the leaf's value and no other.  None is made from a seal of   *)
(* version 0, or for a leaf the seal does not cover.                       *)
ReceiptsShowLeaves ==
  JustRead =>
    \A s \in CompleteSizes(mc.firstIndex), i \in mc.firstIndex .. RangeCount(mc) - 1 :
      IndexHeight(i) = 0 =>
        LET log == LogForkedAt[leaves]
            seal(version) == SealOf(version, s, PeakHashes(log, s - 1), "key")
            receipt == NewReceipt(Mapped(mc), seal(2), i)
        IN /\ NewReceipt(Mapped(mc), seal(0), i) = << >>
           /\ receipt # << >> <=> i < s
           /\ receipt # << >> =>
                \A j \in {i, s - 1, mc.firstIndex} :
                  VerifySignedInclusionReceipt(receipt[1], log[j])
                    <=> log[j] = log[i]

(* "Note that any node value in the log may be proven by a receipt, not    *)
(* just leaves" (mmriver.go:51).  The peak is chosen as if the node were a *)
(* leaf: for an interior node there may be none, or another's.             *)
ReceiptsShowNodes ==
  JustRead =>
    \A s \in CompleteSizes(mc.firstIndex), i \in mc.firstIndex .. RangeCount(mc) - 1 :
      i < s =>
        LET log == LogForkedAt[leaves]
            seal == SealOf(2, s, PeakHashes(log, s - 1), "key")
            receipt == NewReceipt(Mapped(mc), seal, i)
        IN receipt # << >> /\ VerifySignedInclusionReceipt(receipt[1], log[i])
=============================================================================
