---------------------------- MODULE SealingProofs ----------------------------
(***************************************************************************)
(* Proofs about module Sealing, for any number of sealers and put backs    *)
(* and logs and massifs of any size.                                       *)
(*                                                                         *)
(* Two logs that are both extended by a third can be compared by their     *)
(* length (ExtensionsCompare): what a reader verified last and what it     *)
(* verifies now are both extended by the massif that was read.  That the   *)
(* longer one is the new one rests on Followed: the seal of the massif in  *)
(* which the trusted state ends has not become shorter.  That nothing is   *)
(* refused but for a reason rests on Genuine: while the store has not been *)
(* put back the log extends whatever was read or trusted, and whatever was *)
(* signed or put but the seals of full massifs signed without a peak map.  *)
(***************************************************************************)
EXTENDS Sealing, FiniteSetTheorems, TLAPS

(* What is put is a log of at most the greatest length, and what is read   *)
(* of a massif ends with the massif.                                       *)
Sizes ==
  /\ Len(log) <= MaxLeaves
  /\ \A s \in Sealers : Len(pending[s]) <= MaxLeaves
  /\ reader.phase = "massif" =>
       Len(reader.data) <= FirstLeaf(reader.massif + 1)

Followed ==
  trusted # << >> =>
    /\ MassifOf(Len(trusted)) \in Massifs
    /\ ~regressed => Len(trusted) <= Len(seals[MassifOf(Len(trusted))])

(* What may have been signed without a peak map over peaks in another order *)
OutOfOrder(seal) ==
  IsFull(Len(seal)) /\ Cardinality(AncestorPeaks(Len(seal))) > 1

SignedOver(seal, leaves) ==
  \/ IsExtendedBy(seal, leaves)
  \/ Len(seal) <= Len(leaves) /\ OutOfOrder(seal)

Genuine ==
  branch = 0 =>
    /\ \A s \in Sealers : SignedOver(pending[s], log)
    /\ \A m \in Massifs : SignedOver(seals[m], log)
    /\ IsExtendedBy(reader.data, log)
    /\ IsExtendedBy(trusted, log)

IInv == TypeOK /\ Sizes /\ Followed /\ Genuine

-----------------------------------------------------------------------------
(* Massifs and their leaves *)

(* The massifs are in the order of their leaves. *)
LEMMA Monotone ==
  ASSUME NEW a \in Nat, NEW b \in Nat, a <= b
  PROVE  FirstLeaf(a) <= FirstLeaf(b)
BY MassifLeavesAssumption DEF FirstLeaf

(* A massif begins where the one before it ends. *)
LEMMA FirstLeafNext ==
  ASSUME NEW m \in Nat
  PROVE  /\ FirstLeaf(m) \in Nat /\ FirstLeaf(m + 1) \in Nat
         /\ FirstLeaf(m + 1) = FirstLeaf(m) + MassifLeaves
BY MassifLeavesAssumption DEF FirstLeaf

(* A leaf is in the massif that the division gives. *)
LEMMA Divided ==
  ASSUME NEW n \in Nat
  PROVE  /\ n \div MassifLeaves \in Nat
         /\ FirstLeaf(n \div MassifLeaves) <= n
         /\ n < FirstLeaf(n \div MassifLeaves + 1)
BY MassifLeavesAssumption DEF FirstLeaf

(* A log that is not empty ends in the massif that MassifOf gives. *)
LEMMA MassifBounds ==
  ASSUME NEW n \in Nat \ {0}
  PROVE  /\ MassifOf(n) \in Nat
         /\ FirstLeaf(MassifOf(n)) < n
         /\ n <= FirstLeaf(MassifOf(n) + 1)
<1>1. n - 1 \in Nat
  OBVIOUS
<1>2. /\ MassifOf(n) \in Nat
      /\ FirstLeaf(MassifOf(n)) <= n - 1
      /\ n - 1 < FirstLeaf(MassifOf(n) + 1)
  BY <1>1, Divided DEF MassifOf
<1> QED
  BY <1>2, FirstLeafNext

(* And in no other. *)
LEMMA MassifUnique ==
  ASSUME NEW n \in Nat \ {0}, NEW m \in Nat,
         FirstLeaf(m) < n, n <= FirstLeaf(m + 1)
  PROVE  MassifOf(n) = m
<1>1. MassifOf(n) < m => FirstLeaf(MassifOf(n) + 1) <= FirstLeaf(m)
  BY MassifBounds, Monotone
<1>2. m < MassifOf(n) => FirstLeaf(m + 1) <= FirstLeaf(MassifOf(n))
  BY MassifBounds, Monotone
<1>3. /\ FirstLeaf(m) \in Nat /\ FirstLeaf(m + 1) \in Nat
      /\ FirstLeaf(MassifOf(n)) \in Nat /\ FirstLeaf(MassifOf(n) + 1) \in Nat
  BY MassifBounds, FirstLeafNext
<1> QED
  BY <1>1, <1>2, <1>3, MassifBounds

(* The massif in which a log within the bound ends is one of the model's. *)
LEMMA MassifInRange ==
  ASSUME NEW n \in 1 .. MaxLeaves
  PROVE  MassifOf(n) \in Massifs
<1> DEFINE top == MaxLeaves \div MassifLeaves
<1>1. MassifOf(n) \in Nat /\ FirstLeaf(MassifOf(n)) < n
  BY MassifBounds
<1>2. top \in Nat /\ MaxLeaves < FirstLeaf(top + 1)
  BY BoundsAssumption, Divided
<1>3. top < MassifOf(n) => FirstLeaf(top + 1) <= FirstLeaf(MassifOf(n))
  BY <1>1, <1>2, Monotone
<1>4. FirstLeaf(top + 1) \in Nat /\ FirstLeaf(MassifOf(n)) \in Nat
  BY <1>1, <1>2, FirstLeafNext
<1> HIDE DEF top
<1>5. MassifOf(n) <= top
  BY <1>1, <1>2, <1>3, <1>4, BoundsAssumption
<1> QED
  BY <1>1, <1>2, <1>5 DEF Massifs, top

(* A log whose last massif is full ends with it.                           *)
LEMMA FullEnds ==
  ASSUME NEW n \in Nat \ {0}, IsFull(n)
  PROVE  n = FirstLeaf(MassifOf(n) + 1)
<1> DEFINE q == n \div MassifLeaves
           m == MassifOf(n)
<1>1. q \in Nat /\ FirstLeaf(q) = n
  BY MassifLeavesAssumption DEF IsFull, FirstLeaf
<1>2. m \in Nat /\ FirstLeaf(m) < n /\ n <= FirstLeaf(m + 1)
  BY MassifBounds
<1> HIDE DEF q, m
<1>3. q <= m => FirstLeaf(q) <= FirstLeaf(m)
  BY <1>1, <1>2, Monotone
<1>4. m + 1 <= q => FirstLeaf(m + 1) <= FirstLeaf(q)
  BY <1>1, <1>2, Monotone
<1>5. FirstLeaf(m) \in Nat /\ FirstLeaf(m + 1) \in Nat
  BY <1>2, FirstLeafNext
<1>6. n = FirstLeaf(m + 1)
  BY <1>1, <1>2, <1>3, <1>4, <1>5
<1> QED
  BY <1>6 DEF m

(* A massif's number is a natural number. *)
LEMMA MassifsAreNat == Massifs \subseteq Nat
BY DEF Massifs

-----------------------------------------------------------------------------
(* Logs and their extensions *)

(* A log that is not empty has a length of one or more.                    *)
LEMMA NotEmpty ==
  ASSUME NEW s \in Seq(Nat), s # << >> PROVE Len(s) \in Nat \ {0}
OBVIOUS

(* A log is extended by itself.                                            *)
LEMMA ExtensionReflexive ==
  ASSUME NEW s \in Seq(Nat) PROVE IsExtendedBy(s, s)
BY DEF IsExtendedBy

(* The log without leaves is extended by every log.                        *)
LEMMA EmptyIsExtended ==
  ASSUME NEW s \in Seq(Nat) PROVE IsExtendedBy(<< >>, s)
BY DEF IsExtendedBy

(* What extends an extension is an extension.                              *)
LEMMA ExtensionTransitive ==
  ASSUME NEW s \in Seq(Nat), NEW t \in Seq(Nat), NEW u \in Seq(Nat),
         IsExtendedBy(s, t), IsExtendedBy(t, u)
  PROVE  IsExtendedBy(s, u)
<1>1. Len(s) \in Nat /\ Len(t) \in Nat /\ Len(u) \in Nat
  OBVIOUS
<1>2. Len(s) <= Len(t) /\ Len(t) <= Len(u)
  BY DEF IsExtendedBy
<1>3. ASSUME NEW k \in 1 .. Len(s) PROVE s[k] = u[k]
  <2>1. k \in 1 .. Len(t)
    BY <1>1, <1>2
  <2> QED
    BY <2>1 DEF IsExtendedBy
<1> QED
  BY <1>1, <1>2, <1>3 DEF IsExtendedBy

(* Of two logs that a third extends the longer extends the shorter. *)
LEMMA ExtensionsCompare ==
  ASSUME NEW s \in Seq(Nat), NEW t \in Seq(Nat), NEW u \in Seq(Nat),
         IsExtendedBy(s, u), IsExtendedBy(t, u), Len(s) <= Len(t)
  PROVE  IsExtendedBy(s, t)
<1>1. Len(s) \in Nat /\ Len(t) \in Nat
  OBVIOUS
<1>2. ASSUME NEW k \in 1 .. Len(s) PROVE s[k] = t[k]
  <2>1. k \in 1 .. Len(t)
    BY <1>1
  <2>2. s[k] = u[k]
    BY DEF IsExtendedBy
  <2>3. t[k] = u[k]
    BY <2>1 DEF IsExtendedBy
  <2> QED
    BY <2>2, <2>3
<1> QED
  BY <1>2 DEF IsExtendedBy

(* A log with a leaf more extends it.                                      *)
LEMMA AppendExtends ==
  ASSUME NEW s \in Seq(Nat), NEW x \in Nat
  PROVE  /\ Append(s, x) \in Seq(Nat)
         /\ Len(Append(s, x)) = Len(s) + 1
         /\ IsExtendedBy(s, Append(s, x))
BY DEF IsExtendedBy

(* The leading part of a log. *)
LEMMA UptoFacts ==
  ASSUME NEW s \in Seq(Nat), NEW n \in Nat
  PROVE  /\ Upto(s, n) \in Seq(Nat)
         /\ Len(Upto(s, n)) = IF n < Len(s) THEN n ELSE Len(s)
         /\ IsExtendedBy(Upto(s, n), s)
<1> DEFINE k == IF n < Len(s) THEN n ELSE Len(s)
<1>1. k \in Nat /\ k <= Len(s)
  OBVIOUS
<1>2. Upto(s, n) = [j \in 1 .. k |-> s[j]]
  BY DEF Upto, Lesser
<1> HIDE DEF k
<1>3. Upto(s, n) \in Seq(Nat) /\ Len(Upto(s, n)) = k
  BY <1>1, <1>2
<1>4. IsExtendedBy(Upto(s, n), s)
  BY <1>1, <1>2, <1>3 DEF IsExtendedBy
<1> QED
  BY <1>3, <1>4 DEF k

(* What is signed over a longer log is signed over the one that has grown. *)
LEMMA SignedStays ==
  ASSUME NEW x \in Seq(Nat), NEW s \in Seq(Nat), NEW t \in Seq(Nat),
         IsExtendedBy(s, t), SignedOver(x, s)
  PROVE  SignedOver(x, t)
<1>1. Len(x) \in Nat /\ Len(s) \in Nat /\ Len(t) \in Nat /\ Len(s) <= Len(t)
  BY DEF IsExtendedBy
<1>2. IsExtendedBy(x, s) => IsExtendedBy(x, t)
  BY ExtensionTransitive
<1> QED
  BY <1>1, <1>2 DEF SignedOver

(* The log, no seal, or a seal of its size that may be out of order.       *)
LEMMA SignedFacts ==
  ASSUME NEW leaves \in Seq(Nat), leaves # << >>, NEW map \in BOOLEAN
  PROVE  /\ Signed(leaves, map) \in Seq(Nat)
         /\ Len(Signed(leaves, map)) <= Len(leaves)
         /\ SignedOver(Signed(leaves, map), leaves)
<1> DEFINE n == Len(leaves)
           peaks == AncestorPeaks(n)
<1>1. n \in Nat \ {0} /\ NoSeal \in Seq(Nat) /\ Len(NoSeal) = 0
  BY DEF NoSeal
<1>2. Reordered(leaves) \in Seq(Nat) /\ Len(Reordered(leaves)) = n
  <2>1. MaxPutBacks + 1 \in Nat
    BY BoundsAssumption
  <2> QED
    BY <1>1, <2>1 DEF Reordered
<1>3. Cardinality(peaks) \in Nat
  <2>1. IsFiniteSet(0 .. n)
    BY <1>1, FS_Interval
  <2>2. peaks \subseteq 0 .. n
    BY DEF AncestorPeaks
  <2> QED
    BY <2>1, <2>2, FS_Subset, FS_CardinalityType
<1>4. CASE Signed(leaves, map) = leaves
  BY <1>1, <1>4, ExtensionReflexive DEF SignedOver
<1>5. CASE Signed(leaves, map) = NoSeal
  BY <1>1, <1>5, EmptyIsExtended DEF SignedOver, NoSeal
<1>6. CASE /\ Signed(leaves, map) = Reordered(leaves)
           /\ IsFull(n) /\ ~(Cardinality(peaks) < 2)
  BY <1>1, <1>2, <1>3, <1>6 DEF SignedOver, OutOfOrder
<1> QED
  BY <1>4, <1>5, <1>6 DEF Signed

-----------------------------------------------------------------------------
(* The steps, one by one *)

(* A commit: what the log had it has still.                                *)
LEMMA CommitStep ==
  ASSUME IInv, NEW s \in Sealers, Commit(s)
  PROVE  IInv'
<1> DEFINE seal == Signed(log', mapped[s])
<1>1. /\ log \in Seq(Nat) /\ branch \in Nat /\ Len(log) < MaxLeaves
      /\ pending \in [Sealers -> Seq(Nat)]
      /\ seals \in [Massifs -> Seq(Nat)]
      /\ mapped \in [Sealers -> BOOLEAN]
      /\ reader.data \in Seq(Nat) /\ trusted \in Seq(Nat)
  BY DEF IInv, TypeOK, Commit
<1>2. /\ log' = Append(log, branch) /\ pending' = [pending EXCEPT ![s] = seal]
      /\ mapped' = [mapped EXCEPT ![s] = @ \/ seal = NoSeal]
      /\ UNCHANGED <<branch, seals, reader, trusted, regressed>>
  BY DEF Commit
<1>3. /\ log' \in Seq(Nat) /\ Len(log') = Len(log) + 1 /\ IsExtendedBy(log, log')
      /\ log' # << >>
  <2>1. log' \in Seq(Nat) /\ Len(log') = Len(log) + 1 /\ IsExtendedBy(log, log')
    BY <1>1, <1>2, AppendExtends
  <2>2. Len(log) \in Nat
    BY <1>1
  <2> QED
    BY <2>1, <2>2
<1>4. seal \in Seq(Nat) /\ Len(seal) <= Len(log') /\ SignedOver(seal, log')
  BY <1>1, <1>3, SignedFacts
<1> HIDE DEF seal
<1>5. \A r \in Sealers : pending'[r] = IF r = s THEN seal ELSE pending[r]
  BY <1>1, <1>2
<1>6. TypeOK'
  <2>1. pending' \in [Sealers -> Seq(Nat)] /\ mapped' \in [Sealers -> BOOLEAN]
    BY <1>1, <1>2, <1>4
  <2> QED
    BY <1>2, <1>3, <2>1 DEF IInv, TypeOK
<1>7. Sizes'
  <2>1. Len(log') <= MaxLeaves
    BY <1>1, <1>3, BoundsAssumption
  <2>2. Len(seal) <= MaxLeaves
    BY <1>3, <1>4, <2>1, BoundsAssumption
  <2> QED
    BY <1>2, <1>5, <2>1, <2>2 DEF IInv, Sizes
<1>8. Followed'
  BY <1>2 DEF IInv, Followed
<1>9. Genuine'
  <2> SUFFICES ASSUME branch = 0
               PROVE  /\ \A r \in Sealers : SignedOver(pending'[r], log')
                      /\ \A m \in Massifs : SignedOver(seals[m], log')
                      /\ IsExtendedBy(reader.data, log')
                      /\ IsExtendedBy(trusted, log')
    BY <1>2 DEF Genuine
  <2>1. \A t \in Seq(Nat) : IsExtendedBy(t, log) => IsExtendedBy(t, log')
    BY <1>1, <1>3, ExtensionTransitive
  <2>2. \A t \in Seq(Nat) : SignedOver(t, log) => SignedOver(t, log')
    BY <1>1, <1>3, SignedStays
  <2> QED
    BY <1>1, <1>4, <1>5, <2>1, <2>2 DEF IInv, Genuine
<1> QED
  BY <1>6, <1>7, <1>8, <1>9 DEF IInv

(* A put: a seal of fewer leaves than the one it replaces is recorded.     *)
LEMMA PutSealStep ==
  ASSUME IInv, NEW s \in Sealers, PutSeal(s)
  PROVE  IInv'
<1> DEFINE seal == pending[s]
           m == MassifOf(Len(seal))
<1>1. /\ pending \in [Sealers -> Seq(Nat)] /\ seals \in [Massifs -> Seq(Nat)]
      /\ mapped \in [Sealers -> BOOLEAN]
      /\ seal \in Seq(Nat) /\ << >> \in Seq(Nat)
  BY DEF IInv, TypeOK
<1>2. /\ seal # << >>
      /\ seals' = [seals EXCEPT ![m] = seal]
      /\ regressed' = (regressed \/ Len(seal) < Len(seals[m]))
      /\ pending' = [pending EXCEPT ![s] = << >>]
      /\ UNCHANGED <<log, branch, reader, trusted>>
  BY DEF PutSeal, NoSeal
<1>3. Len(seal) \in 1 .. MaxLeaves
  BY <1>1, <1>2, BoundsAssumption DEF IInv, Sizes
<1>4. m \in Massifs
  BY <1>3, MassifInRange
<1>5. \A k \in Massifs : seals'[k] = IF k = m THEN seal ELSE seals[k]
  BY <1>1, <1>2, <1>4
<1>6. \A r \in Sealers : pending'[r] = IF r = s THEN << >> ELSE pending[r]
  BY <1>1, <1>2
<1>7. seals' \in [Massifs -> Seq(Nat)] /\ pending' \in [Sealers -> Seq(Nat)]
  BY <1>1, <1>2
<1>8. TypeOK'
  <2>1. \A k \in Massifs : seals'[k] # NoSeal => MassifOf(Len(seals'[k])) = k
    BY <1>5 DEF IInv, TypeOK
  <2>2. regressed' \in BOOLEAN
    BY <1>2
  <2>3. mapped' \in [Sealers -> BOOLEAN]
    BY <1>1 DEF PutSeal
  <2> QED
    BY <1>2, <1>7, <2>1, <2>2, <2>3 DEF IInv, TypeOK
<1>9. Sizes'
  BY <1>2, <1>6, BoundsAssumption DEF IInv, Sizes
<1>10. Followed'
  <2> SUFFICES ASSUME trusted # << >>
               PROVE  /\ MassifOf(Len(trusted)) \in Massifs
                      /\ ~regressed' =>
                           Len(trusted) <= Len(seals'[MassifOf(Len(trusted))])
    BY <1>2 DEF Followed
  <2> DEFINE k == MassifOf(Len(trusted))
  <2>1. k \in Massifs /\ (~regressed => Len(trusted) <= Len(seals[k]))
    BY DEF IInv, Followed
  <2>2. Len(trusted) \in Nat /\ Len(seals[k]) \in Nat /\ Len(seal) \in Nat
    BY <1>1, <2>1 DEF IInv, TypeOK
  <2>3. seals'[k] = IF k = m THEN seal ELSE seals[k]
    BY <1>5, <2>1
  <2>4. ~regressed' => ~regressed /\ ~(Len(seal) < Len(seals[m]))
    BY <1>2
  <2> HIDE DEF seal, m, k
  <2>5. ~regressed' => Len(trusted) <= Len(seals'[k])
    BY <2>1, <2>2, <2>3, <2>4
  <2> QED
    BY <2>1, <2>5 DEF k
<1>11. Genuine'
  <2>1. SignedOver(<< >>, log)
    BY EmptyIsExtended DEF IInv, TypeOK, SignedOver
  <2> QED
    BY <1>2, <1>5, <1>6, <2>1 DEF IInv, Genuine
<1> QED
  BY <1>8, <1>9, <1>10, <1>11 DEF IInv

(* A seal that is never put.                                               *)
LEMMA AbandonStep ==
  ASSUME IInv, NEW s \in Sealers, Abandon(s)
  PROVE  IInv'
<1>1. /\ pending \in [Sealers -> Seq(Nat)] /\ << >> \in Seq(Nat)
      /\ log \in Seq(Nat) /\ mapped \in [Sealers -> BOOLEAN]
  BY DEF IInv, TypeOK
<1>2. /\ pending' = [pending EXCEPT ![s] = << >>]
      /\ mapped' = [mapped EXCEPT ![s] = TRUE]
      /\ UNCHANGED <<log, branch, seals, reader, trusted, regressed>>
  BY DEF Abandon, NoSeal
<1>3. \A r \in Sealers : pending'[r] = IF r = s THEN << >> ELSE pending[r]
  BY <1>1, <1>2
<1>4. TypeOK'
  <2>1. pending' \in [Sealers -> Seq(Nat)] /\ mapped' \in [Sealers -> BOOLEAN]
    BY <1>1, <1>2
  <2> QED
    BY <1>2, <2>1 DEF IInv, TypeOK
<1>5. Sizes' /\ Followed'
  BY <1>2, <1>3, BoundsAssumption DEF IInv, Sizes, Followed
<1>6. Genuine'
  BY <1>1, <1>2, <1>3, EmptyIsExtended DEF IInv, Genuine, SignedOver
<1> QED
  BY <1>4, <1>5, <1>6 DEF IInv

(* The store is put back: a seal that is lost is recorded.                 *)
LEMMA PutBackStep ==
  ASSUME IInv, NEW n \in 0 .. MaxLeaves, PutBack(n)
  PROVE  IInv'
<1>1. log \in Seq(Nat) /\ branch \in Nat /\ seals \in [Massifs -> Seq(Nat)]
  BY DEF IInv, TypeOK
<1>2. /\ log' = Upto(log, n) /\ branch' = branch + 1
      /\ seals' = [m \in Massifs |-> IF Len(seals[m]) > n THEN NoSeal ELSE seals[m]]
      /\ regressed' = (regressed \/ seals' # seals)
      /\ UNCHANGED <<pending, mapped, reader, trusted>>
  BY DEF PutBack
<1>3. log' \in Seq(Nat) /\ Len(log') <= Len(log) /\ Len(log') \in Nat
  BY <1>1, <1>2, UptoFacts, BoundsAssumption
<1>4. seals' \in [Massifs -> Seq(Nat)]
  BY <1>1, <1>2 DEF NoSeal
<1>5. TypeOK'
  <2>1. \A m \in Massifs : seals'[m] \in {NoSeal, seals[m]}
    BY <1>2
  <2>2. \A m \in Massifs : seals'[m] # NoSeal => MassifOf(Len(seals'[m])) = m
    BY <2>1 DEF IInv, TypeOK
  <2>3. regressed' \in BOOLEAN /\ branch' \in Nat
    BY <1>1, <1>2
  <2> QED
    BY <1>2, <1>3, <1>4, <2>2, <2>3 DEF IInv, TypeOK
<1>6. Sizes'
  <2>1. Len(log') <= MaxLeaves
    BY <1>1, <1>3, BoundsAssumption DEF IInv, Sizes
  <2> QED
    BY <1>2, <2>1 DEF IInv, Sizes
<1>7. Followed'
  <2>1. ~regressed' => ~regressed /\ seals' = seals
    BY <1>2
  <2> QED
    BY <1>2, <2>1 DEF IInv, Followed
<1>8. Genuine'
  BY <1>1, <1>2 DEF Genuine
<1> QED
  BY <1>5, <1>6, <1>7, <1>8 DEF IInv

(* What is read of a massif, and where it ends. *)
LEMMA BlobFacts ==
  ASSUME log \in Seq(Nat), NEW m \in Massifs
  PROVE  /\ Blob(m) \in Seq(Nat)
         /\ Len(Blob(m)) =
              IF FirstLeaf(m + 1) < Len(log) THEN FirstLeaf(m + 1) ELSE Len(log)
         /\ Len(Blob(m)) <= FirstLeaf(m + 1)
         /\ IsExtendedBy(Blob(m), log)
<1>1. FirstLeaf(m + 1) \in Nat /\ Len(log) \in Nat
  BY FirstLeafNext, MassifsAreNat
<1>2. /\ Blob(m) \in Seq(Nat)
      /\ Len(Blob(m)) =
           IF FirstLeaf(m + 1) < Len(log) THEN FirstLeaf(m + 1) ELSE Len(log)
      /\ IsExtendedBy(Blob(m), log)
  BY <1>1, UptoFacts DEF Blob
<1> QED
  BY <1>1, <1>2

(* A massif is read: it ends where the massif ends.                        *)
LEMMA GetMassifStep ==
  ASSUME IInv, NEW m \in Massifs, GetMassif(m)
  PROVE  IInv'
<1>1. /\ reader' = [phase |-> "massif", massif |-> m, data |-> Blob(m)]
      /\ UNCHANGED <<log, branch, seals, pending, mapped, trusted, regressed>>
  BY DEF GetMassif
<1>2. log \in Seq(Nat)
  BY DEF IInv, TypeOK
<1>3. /\ Blob(m) \in Seq(Nat) /\ Len(Blob(m)) <= FirstLeaf(m + 1)
      /\ IsExtendedBy(Blob(m), log)
  BY <1>2, BlobFacts
<1>4. reader'.phase = "massif" /\ reader'.massif = m /\ reader'.data = Blob(m)
  BY <1>1
<1>5. TypeOK'
  BY <1>1, <1>3 DEF IInv, TypeOK
<1>6. Sizes' /\ Followed'
  BY <1>1, <1>3, <1>4 DEF IInv, Sizes, Followed
<1>7. Genuine'
  BY <1>1, <1>3, <1>4 DEF IInv, Genuine
<1> QED
  BY <1>5, <1>6, <1>7 DEF IInv

(* A verdict says what was compared. *)
LEMMA Verdicts ==
  ASSUME NEW m, NEW data, NEW seal, NEW base
  PROVE  LET verdict == verifyContext(m, data, seal, base)
         IN /\ verdict = "verified" <=>
                 /\ seal # NoSeal /\ ~(Len(seal) > Len(data))
                 /\ IsExtendedBy(seal, data) /\ BaseConsistent(base, m, data)
            /\ verdict = "ErrSealVerifyFailed" =>
                 ~(Len(seal) > Len(data)) /\ ~IsExtendedBy(seal, data)
            /\ verdict = "ErrStateSizeExceedsData" =>
                 seal # NoSeal /\ Len(seal) > Len(data)
            /\ verdict = "ErrConsistencyCheck" => ~BaseConsistent(base, m, data)
BY DEF verifyContext

(* A seal is read: the state that is trusted then is that of a seal.       *)
LEMMA GetSignedRootStep ==
  ASSUME IInv, GetSignedRoot
  PROVE  IInv'
<1> DEFINE m == reader.massif
           seal == seals[m]
<1>1. /\ reader' = Idle
      /\ trusted' = IF Outcome = "verified" THEN seal ELSE trusted
      /\ UNCHANGED <<log, branch, seals, pending, mapped, regressed>>
  BY DEF GetSignedRoot
<1>2. /\ m \in Massifs /\ seal \in Seq(Nat) /\ trusted \in Seq(Nat)
      /\ log \in Seq(Nat) /\ << >> \in Seq(Nat)
  BY DEF IInv, TypeOK
<1>3. /\ Idle.phase = "idle" /\ Idle.data = << >>
      /\ Idle \in [phase : {"idle", "massif"}, massif : Massifs, data : Seq(Nat)]
  <2>1. 0 \in Massifs
    BY Divided, BoundsAssumption DEF Massifs
  <2> QED
    BY <1>2, <2>1 DEF Idle
<1>4. TypeOK'
  BY <1>1, <1>2, <1>3 DEF IInv, TypeOK
<1>5. Sizes'
  BY <1>1, <1>3 DEF IInv, Sizes
<1>6. Followed'
  <2>1. CASE trusted' = trusted
    BY <1>1, <2>1 DEF IInv, Followed
  <2>2. CASE trusted' = seal /\ Outcome = "verified"
    <3>1. seal # NoSeal
      BY <2>2, Verdicts DEF Outcome
    <3>2. MassifOf(Len(seal)) = m
      BY <1>2, <3>1 DEF IInv, TypeOK
    <3> QED
      BY <1>1, <1>2, <2>2, <3>2 DEF Followed
  <2> QED
    BY <1>1, <2>1, <2>2
<1>7. Genuine'
  <2>1. IsExtendedBy(<< >>, log)
    BY <1>2, EmptyIsExtended
  <2>2. ASSUME branch = 0 PROVE IsExtendedBy(trusted', log)
    <3>1. IsExtendedBy(trusted, log) /\ IsExtendedBy(reader.data, log)
      BY <2>2 DEF IInv, Genuine
    <3>2. reader.data \in Seq(Nat)
      BY DEF IInv, TypeOK
    <3>3. Outcome = "verified" => IsExtendedBy(seal, reader.data)
      BY Verdicts DEF Outcome
    <3>4. Outcome = "verified" => IsExtendedBy(seal, log)
      BY <1>2, <3>1, <3>2, <3>3, ExtensionTransitive
    <3> QED
      BY <1>1, <3>1, <3>4
  <2> QED
    BY <1>1, <1>2, <1>3, <2>1, <2>2 DEF IInv, Genuine
<1> QED
  BY <1>4, <1>5, <1>6, <1>7 DEF IInv

(* The invariant holds at first.                                           *)
LEMMA Initially == Init => IInv
<1> SUFFICES ASSUME Init PROVE IInv
  OBVIOUS
<1>1. /\ log \in Seq(Nat) /\ Len(log) = OldLeaves /\ Len(log) <= MaxLeaves
      /\ << >> \in Seq(Nat) /\ Len(<< >>) = 0
  BY BoundsAssumption DEF Init
<1>2. 0 \in Massifs
  BY Divided, BoundsAssumption DEF Massifs
<1>3. \A m \in Massifs :
        /\ seals[m] = IF Exists(m) THEN Blob(m) ELSE NoSeal
        /\ Blob(m) \in Seq(Nat) /\ IsExtendedBy(Blob(m), log)
  BY <1>1, BlobFacts DEF Init
<1>4. ASSUME NEW m \in Massifs, seals[m] # NoSeal
      PROVE  MassifOf(Len(seals[m])) = m
  <2>1. /\ seals[m] = Blob(m) /\ FirstLeaf(m) < Len(log)
        /\ Len(Blob(m)) =
             IF FirstLeaf(m + 1) < Len(log) THEN FirstLeaf(m + 1) ELSE Len(log)
    BY <1>1, <1>3, <1>4, BlobFacts DEF Exists
  <2>2. /\ m \in Nat /\ FirstLeaf(m) \in Nat /\ FirstLeaf(m + 1) \in Nat
        /\ FirstLeaf(m) < FirstLeaf(m + 1)
    BY MassifsAreNat, FirstLeafNext, MassifLeavesAssumption
  <2>3. /\ Len(seals[m]) \in Nat \ {0}
        /\ FirstLeaf(m) < Len(seals[m]) /\ Len(seals[m]) <= FirstLeaf(m + 1)
    BY <1>1, <2>1, <2>2
  <2> QED
    BY <2>2, <2>3, MassifUnique
<1>5. TypeOK
  <2>1. seals \in [Massifs -> Seq(Nat)]
    BY <1>1, <1>3 DEF Init, NoSeal
  <2> QED
    BY <1>1, <1>2, <1>4, <2>1 DEF Init, TypeOK, Idle, NoSeal
<1>6. Sizes /\ Followed
  BY <1>1, BoundsAssumption DEF Init, Sizes, Followed, Idle, NoSeal
<1>7. Genuine
  <2>1. IsExtendedBy(<< >>, log)
    BY <1>1, EmptyIsExtended
  <2>2. \A m \in Massifs : SignedOver(seals[m], log)
    BY <1>3, <2>1 DEF SignedOver, NoSeal
  <2> QED
    BY <2>1, <2>2 DEF Init, Genuine, SignedOver, Idle, NoSeal
<1> QED
  BY <1>5, <1>6, <1>7 DEF IInv

(* Every step keeps the invariant.                                         *)
LEMMA Inductive == IInv /\ [Next]_vars => IInv'
<1> SUFFICES ASSUME IInv, [Next]_vars PROVE IInv'
  OBVIOUS
<1>1. CASE UNCHANGED vars
  BY <1>1 DEF IInv, TypeOK, Sizes, Followed, Genuine, vars
<1> QED
  BY <1>1, CommitStep, PutSealStep, AbandonStep, PutBackStep, GetMassifStep,
     GetSignedRootStep DEF Next

-----------------------------------------------------------------------------
(* Theorems *)

(* Every variable has its type: a seal is put as that of the massif in     *)
(* which what was signed ends.                                             *)
THEOREM TypeCorrect == Spec => []TypeOK
<1>1. IInv => TypeOK
  BY DEF IInv
<1> QED
  BY <1>1, Initially, Inductive, PTL DEF Spec

(* One call that verifies a seal: what it comes to trust extends what it   *)
(* trusted, or is extended by it and a seal has become shorter.            *)
LEMMA TrustStep ==
  ASSUME IInv, GetSignedRoot
  PROVE  \/ IsExtendedBy(trusted, trusted')
         \/ regressed /\ IsExtendedBy(trusted', trusted)
<1> DEFINE m == reader.massif
           data == reader.data
           seal == seals[m]
<1>1. /\ m \in Massifs /\ seal \in Seq(Nat) /\ trusted \in Seq(Nat)
      /\ data \in Seq(Nat)
  BY DEF IInv, TypeOK
<1>2. trusted' = IF Outcome = "verified" THEN seal ELSE trusted
  BY DEF GetSignedRoot
<1>3. CASE Outcome # "verified" \/ trusted = << >>
  BY <1>1, <1>2, <1>3, ExtensionReflexive, EmptyIsExtended
<1>4. CASE Outcome = "verified" /\ trusted # << >>
  <2>1. seal # NoSeal /\ IsExtendedBy(seal, data) /\ IsExtendedBy(trusted, data)
    BY <1>4, Verdicts DEF Outcome, BaseConsistent
  <2>2. CASE Len(trusted) <= Len(seal)
    BY <1>1, <1>2, <1>4, <2>1, <2>2, ExtensionsCompare
  <2>3. CASE Len(seal) < Len(trusted)
    <3>1. IsExtendedBy(seal, trusted)
      BY <1>1, <2>1, <2>3, ExtensionsCompare
    <3>2. MassifOf(Len(trusted)) = m
      <4>1. MassifOf(Len(seal)) = m /\ Len(seal) \in Nat \ {0} /\ m \in Nat
        <5>1. MassifOf(Len(seal)) = m
          BY <1>1, <2>1 DEF IInv, TypeOK
        <5>2. Len(seal) \in Nat \ {0}
          BY <1>1, <2>1, NotEmpty DEF NoSeal
        <5>3. m \in Nat
          BY <1>1, MassifsAreNat
        <5> QED
          BY <5>1, <5>2, <5>3
      <4>2. FirstLeaf(m) < Len(seal) /\ FirstLeaf(m) \in Nat
                                     /\ FirstLeaf(m + 1) \in Nat
        BY <4>1, MassifBounds, FirstLeafNext
      <4>3. Len(trusted) <= Len(data) /\ Len(data) <= FirstLeaf(m + 1)
        BY <2>1 DEF IInv, Sizes, GetSignedRoot, IsExtendedBy
      <4>4. Len(trusted) \in Nat \ {0} /\ Len(data) \in Nat
        BY <1>1, <1>4
      <4>5. FirstLeaf(m) < Len(trusted) /\ Len(trusted) <= FirstLeaf(m + 1)
        BY <2>3, <4>1, <4>2, <4>3, <4>4
      <4> QED
        BY <4>1, <4>4, <4>5, MassifUnique
    <3>3. regressed
      <4>1. ~regressed => Len(trusted) <= Len(seal)
        BY <1>4, <3>2 DEF IInv, Followed
      <4> QED
        BY <1>1, <2>3, <4>1
    <3> QED
      BY <1>2, <1>4, <3>1, <3>3
  <2> QED
    BY <1>1, <2>2, <2>3
<1> QED
  BY <1>3, <1>4

(* What a reader trusts is never given up for a log that does not extend   *)
(* it.                                                                     *)
THEOREM NoFork == Spec => NeverTrustsAFork
<1>1. IInv /\ [Next]_vars =>
        [\/ IsExtendedBy(trusted, trusted')
         \/ regressed /\ IsExtendedBy(trusted', trusted)]_vars
  <2> SUFFICES ASSUME IInv, [Next]_vars
               PROVE  \/ IsExtendedBy(trusted, trusted')
                      \/ regressed /\ IsExtendedBy(trusted', trusted)
    OBVIOUS
  <2>1. GetSignedRoot \/ trusted' = trusted
    BY DEF Next, vars, Commit, PutSeal, Abandon, PutBack, GetMassif
  <2>2. trusted \in Seq(Nat)
    BY DEF IInv, TypeOK
  <2> QED
    BY <2>1, <2>2, TrustStep, ExtensionReflexive
<1> QED
  BY <1>1, Initially, Inductive, PTL DEF Spec, NeverTrustsAFork

(* While the store has not been put back: a call that is refused is        *)
(* refused for a reason that has to do with the order of reads and writes, *)
(* or because the seal was signed without a peak map.                      *)
LEMMA RefusalStep ==
  ASSUME IInv, GetSignedRoot, branch = 0
  PROVE  LET m == reader.massif
         IN /\ Outcome = "ErrSealVerifyFailed" =>
                 /\ Len(seals[m]) = FirstLeaf(m + 1)
                 /\ Cardinality(AncestorPeaks(Len(seals[m]))) > 1
            /\ Outcome = "ErrStateSizeExceedsData" =>
                 Len(reader.data) < Len(Blob(m)) /\ Len(seals[m]) <= Len(Blob(m))
            /\ Outcome = "ErrConsistencyCheck" =>
                 \/ Len(trusted) > Len(reader.data)
                 \/ ~InReach(trusted, m)
<1> DEFINE m == reader.massif
           data == reader.data
           seal == seals[m]
<1>1. /\ m \in Massifs /\ seal \in Seq(Nat) /\ trusted \in Seq(Nat)
      /\ data \in Seq(Nat) /\ log \in Seq(Nat)
  BY DEF IInv, TypeOK
<1>2. /\ SignedOver(seal, log) /\ IsExtendedBy(data, log)
      /\ IsExtendedBy(trusted, log)
  BY <1>1 DEF IInv, Genuine
<1>3. ASSUME seal # NoSeal
      PROVE  MassifOf(Len(seal)) = m /\ Len(seal) \in Nat \ {0}
  BY <1>1, <1>3 DEF IInv, TypeOK, NoSeal
<1>4. ASSUME Outcome = "ErrSealVerifyFailed"
      PROVE  /\ Len(seal) = FirstLeaf(m + 1)
             /\ Cardinality(AncestorPeaks(Len(seal))) > 1
  <2>1. ~(Len(seal) > Len(data)) /\ ~IsExtendedBy(seal, data)
    BY <1>4, Verdicts DEF Outcome
  <2>2. IsExtendedBy(seal, log) => IsExtendedBy(seal, data)
    BY <1>1, <1>2, <2>1, ExtensionsCompare
  <2>3. OutOfOrder(seal)
    BY <1>2, <2>1, <2>2 DEF SignedOver
  <2>4. seal # NoSeal
    BY <1>1, <2>1, EmptyIsExtended DEF NoSeal
  <2> QED
    BY <1>3, <2>3, <2>4, FullEnds DEF OutOfOrder
<1>5. ASSUME Outcome = "ErrStateSizeExceedsData"
      PROVE  Len(data) < Len(Blob(m)) /\ Len(seal) <= Len(Blob(m))
  <2>1. seal # NoSeal /\ Len(seal) > Len(data)
    BY <1>5, Verdicts DEF Outcome
  <2>2. Len(seal) <= FirstLeaf(m + 1) /\ FirstLeaf(m + 1) \in Nat
    BY <1>1, <1>3, <2>1, MassifBounds, MassifsAreNat, FirstLeafNext
  <2>3. Len(seal) <= Len(log)
    BY <1>2 DEF SignedOver, IsExtendedBy
  <2>4. Len(Blob(m)) =
          IF FirstLeaf(m + 1) < Len(log) THEN FirstLeaf(m + 1) ELSE Len(log)
    BY <1>1, BlobFacts
  <2> QED
    BY <1>1, <2>1, <2>2, <2>3, <2>4
<1>6. ASSUME Outcome = "ErrConsistencyCheck", ~(Len(trusted) > Len(data)),
             InReach(trusted, m)
      PROVE  FALSE
  <2>1. IsExtendedBy(trusted, data)
    BY <1>1, <1>2, <1>6, ExtensionsCompare
  <2>2. ~BaseConsistent(trusted, m, data)
    BY <1>6, Verdicts DEF Outcome
  <2> QED
    BY <1>6, <2>1, <2>2 DEF BaseConsistent
<1> QED
  BY <1>4, <1>5, <1>6

(* A reader is refused for a reason: the only seals that do not verify are *)
(* those of full massifs, signed without a peak map over several peaks     *)
(* before the massif.                                                      *)
THEOREM Refused == Spec => RefusedForAReason
<1>1. IInv /\ [Next]_vars =>
        [GetSignedRoot /\ branch = 0 =>
           LET m == reader.massif
           IN /\ Outcome = "ErrSealVerifyFailed" =>
                   /\ Len(seals[m]) = FirstLeaf(m + 1)
                   /\ Cardinality(AncestorPeaks(Len(seals[m]))) > 1
              /\ Outcome = "ErrStateSizeExceedsData" =>
                   Len(reader.data) < Len(Blob(m)) /\ Len(seals[m]) <= Len(Blob(m))
              /\ Outcome = "ErrConsistencyCheck" =>
                   \/ Len(trusted) > Len(reader.data)
                   \/ ~InReach(trusted, m)]_vars
  BY RefusalStep
<1> QED
  BY <1>1, Initially, Inductive, PTL DEF Spec, RefusedForAReason
=============================================================================
