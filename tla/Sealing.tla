------------------------------- MODULE Sealing -------------------------------
(***************************************************************************)
(* Seals, and readers that verify what they read.  A sealer signs the      *)
(* massif it has committed and puts the seal without looking at the one    *)
(* that is there (testcommitter.go).  A reader gets a massif, then its     *)
(* seal, and verifies the one against the other and against the state it   *)
(* trusts already (massifcontextverified.go).  In between, the log grows   *)
(* and is sealed by others; and the store may be put back to an earlier    *)
(* state and grow differently, against which "the only defense is an       *)
(* indpendent replica".                                                    *)
(*                                                                         *)
(* A log is the sequence of its leaves.  Two leaves at one place differ    *)
(* only if the store was put back in between, so that a leaf is the number *)
(* of times it was when it was added.  The blob of a massif has the log up *)
(* to its end: the earlier part is committed to by its peak stack.  That   *)
(* commits are atomic and the log is append only is what module Committer  *)
(* shows; what verification amounts to, module VerifiedContext.            *)
(***************************************************************************)
EXTENDS Integers, Sequences, FiniteSets

CONSTANTS Sealers,      \* processes that commit leaves and seal them
          MassifLeaves, \* leaves in a massif
          OldLeaves,    \* leaves the log has at first, and keeps
          MaxLeaves,    \* bound: leaves in the log
          MaxPutBacks   \* bound: times the store is put back

ASSUME MassifLeavesAssumption == MassifLeaves \in Nat \ {0}
ASSUME BoundsAssumption ==
  MaxLeaves \in Nat /\ OldLeaves \in 0 .. MaxLeaves /\ MaxPutBacks \in Nat

VARIABLES
  log,        \* the leaves in the massif blobs
  branch,     \* how often the store was put back
  seals,      \* the seal blob of each massif: the leaves it was signed over
  pending,    \* for each sealer the seal it has signed and not put
  mapped,     \* for each sealer, has the context it uses next a peak map
  reader,     \* the call of GetVerifiedContext
  trusted,    \* the sealed leaves the reader verified last: its trusted base
  regressed   \* history: was a seal replaced by one of fewer leaves, or lost

vars == <<log, branch, seals, pending, mapped, reader, trusted, regressed>>

(* Stands for a seal blob that does not exist: seals cover a leaf or more  *)
NoSeal == << >>

Massifs == 0 .. (MaxLeaves \div MassifLeaves)

IsExtendedBy(s, t) == Len(s) <= Len(t) /\ \A k \in 1 .. Len(s) : s[k] = t[k]

Lesser(a, b) == IF a < b THEN a ELSE b
Upto(s, n) == [k \in 1 .. Lesser(n, Len(s)) |-> s[k]]

FirstLeaf(m) == m * MassifLeaves
MassifOf(leafCount) == (leafCount - 1) \div MassifLeaves

Exists(m) == FirstLeaf(m) < Len(log)
Blob(m) == Upto(log, FirstLeaf(m + 1))

Idle == [phase |-> "idle", massif |-> 0, data |-> << >>]

(* Each massif is sealed, and any sealer may be at the end of one *)
Init ==
  /\ log = [k \in 1 .. OldLeaves |-> 0] /\ branch = 0
  /\ seals = [m \in Massifs |-> IF Exists(m) THEN Blob(m) ELSE NoSeal]
  /\ pending = [s \in Sealers |-> NoSeal]
  /\ mapped \in [Sealers -> BOOLEAN]
  /\ reader = Idle
  /\ trusted = << >>
  /\ regressed = FALSE

-----------------------------------------------------------------------------
(* The log *)

(* The peaks that n leaves have in the massifs before the last, by height *)
AncestorPeaks(n) ==
  {k \in 0 .. n : (n \div 2^k) % 2 = 1 /\ n - (n % 2^k) <= FirstLeaf(MassifOf(n))}

IsFull(n) == n % MassifLeaves = 0

(* Stands for a seal over the peaks of the log in another order: its last  *)
(* leaf is in no log                                                       *)
Reordered(leaves) == [leaves EXCEPT ![Len(leaves)] = MaxPutBacks + 1]

(* ContextCommitted reads the peaks through the context that was committed. *)
(* Without a map each read of an ancestor takes the next one there is:     *)
(* from the lowest up if the context has added the last leaf, and else the *)
(* highest only, so that a second read is an error.                        *)
Signed(leaves, map) ==
  LET n == Len(leaves)
  IN IF map \/ Cardinality(AncestorPeaks(n)) < 2 THEN leaves
     ELSE IF IsFull(n) THEN Reordered(leaves)
     ELSE NoSeal

(* CommitContext, and the signature of ContextCommitted.  If the peaks     *)
(* cannot be read that is the end of AddLeaves.                            *)
Commit(s) ==
  /\ pending[s] = NoSeal
  /\ Len(log) < MaxLeaves
  /\ log' = Append(log, branch)
  /\ LET seal == Signed(log', mapped[s])
     IN /\ pending' = [pending EXCEPT ![s] = seal]
        /\ mapped' = [mapped EXCEPT ![s] = @ \/ seal = NoSeal]
  /\ UNCHANGED <<branch, seals, reader, trusted, regressed>>

(* The put of ContextCommitted, "without the etag check".  If the massif   *)
(* is full AddLeaves may go on with ErrMassifFull: the context it reads    *)
(* then gets no map.                                                       *)
PutSeal(s) ==
  LET seal == pending[s]
      m == MassifOf(Len(seal))
  IN /\ seal # NoSeal
     /\ seals' = [seals EXCEPT ![m] = seal]
     /\ regressed' = (regressed \/ Len(seal) < Len(seals[m]))
     /\ pending' = [pending EXCEPT ![s] = NoSeal]
     /\ \E goesOn \in BOOLEAN :
          /\ goesOn => IsFull(Len(seal))
          /\ mapped' = [mapped EXCEPT ![s] = ~goesOn]
     /\ UNCHANGED <<log, branch, reader, trusted>>

(* The sealer stops, or does not seal: the commit stands.  AddLeaves ends. *)
Abandon(s) ==
  /\ pending[s] # NoSeal \/ ~mapped[s]
  /\ pending' = [pending EXCEPT ![s] = NoSeal]
  /\ mapped' = [mapped EXCEPT ![s] = TRUE]
  /\ UNCHANGED <<log, branch, seals, reader, trusted, regressed>>

(* The store is put back to when it had n leaves *)
PutBack(n) ==
  /\ branch < MaxPutBacks
  /\ OldLeaves <= n /\ n < Len(log)
  /\ log' = Upto(log, n)
  /\ branch' = branch + 1
  /\ seals' = [m \in Massifs |-> IF Len(seals[m]) > n THEN NoSeal ELSE seals[m]]
  /\ regressed' = (regressed \/ seals' # seals)
  /\ UNCHANGED <<pending, mapped, reader, trusted>>

-----------------------------------------------------------------------------
(* The reader *)

(* GetMassif; of a massif that is not there nothing comes *)
GetMassif(m) ==
  /\ reader.phase = "idle"
  /\ Exists(m)
  /\ reader' = [phase |-> "massif", massif |-> m, data |-> Blob(m)]
  /\ UNCHANGED <<log, branch, seals, pending, mapped, trusted, regressed>>

(* Slip: the peaks in the stack are not used *)
InMassif(base, m) == Len(base) > FirstLeaf(m)

(* A trusted state is shown to be extended if it ends in the massif, or if *)
(* its peaks are in the stack: then it is the leading part of the leaves   *)
(* before the massif, its last mountains taken off.                        *)
InReach(base, m) ==
  \/ Len(base) > FirstLeaf(m)
  \/ \E k \in 0 .. FirstLeaf(m) : Len(base) = FirstLeaf(m) - (FirstLeaf(m) % 2^k)

(* Slip: a state of a size the seal covers is taken for consistent *)
BaseCovered(base, m, data) == Len(base) <= Len(data)

BaseConsistent(base, m, data) ==
  base # << >> => InReach(base, m) /\ IsExtendedBy(base, data)

(* Slip: leaves that are not yet sealed are refused *)
VerifyWithoutTail(m, data, seal, base) ==
  IF seal = NoSeal THEN "ErrSealNotFound"
  ELSE IF Len(seal) > Len(data) THEN "ErrStateSizeExceedsData"
  ELSE IF ~IsExtendedBy(data, seal) THEN "ErrSealVerifyFailed"
  ELSE IF ~BaseConsistent(base, m, data) THEN "ErrConsistencyCheck"
  ELSE "verified"

verifyContext(m, data, seal, base) ==
  IF seal = NoSeal THEN "ErrSealNotFound"
  ELSE IF Len(seal) > Len(data) THEN "ErrStateSizeExceedsData"
  ELSE IF ~IsExtendedBy(seal, data) THEN "ErrSealVerifyFailed"
  ELSE IF ~BaseConsistent(base, m, data) THEN "ErrConsistencyCheck"
  ELSE "verified"

(* What the call returns, if it comes to the seal now *)
Outcome == verifyContext(reader.massif, reader.data, seals[reader.massif], trusted)

(* The seal is read and the massif is verified.  The state of the seal is  *)
(* the base of the next call.                                              *)
GetSignedRoot ==
  /\ reader.phase = "massif"
  /\ reader' = Idle
  /\ trusted' = IF Outcome = "verified" THEN seals[reader.massif] ELSE trusted
  /\ UNCHANGED <<log, branch, seals, pending, mapped, regressed>>

Next ==
  \/ \E s \in Sealers : Commit(s) \/ PutSeal(s) \/ Abandon(s)
  \/ \E n \in 0 .. MaxLeaves : PutBack(n)
  \/ \E m \in Massifs : GetMassif(m)
  \/ GetSignedRoot

Spec == Init /\ [][Next]_vars

(* A caller goes on trying each massif *)
FairSpec ==
  /\ Spec
  /\ \A m \in Massifs : SF_vars(GetMassif(m))
  /\ WF_vars(GetSignedRoot)

-----------------------------------------------------------------------------
(* Properties *)

(* Every variable has its type: what is signed has leaves, and is put as   *)
(* the seal of the massif in which it ends.                                *)
TypeOK ==
  /\ log \in Seq(Nat) /\ branch \in Nat
  /\ seals \in [Massifs -> Seq(Nat)] /\ pending \in [Sealers -> Seq(Nat)]
  /\ mapped \in [Sealers -> BOOLEAN]
  /\ reader \in [phase : {"idle", "massif"}, massif : Massifs, data : Seq(Nat)]
  /\ trusted \in Seq(Nat) /\ regressed \in BOOLEAN
  /\ \A m \in Massifs : seals[m] # NoSeal => MassifOf(Len(seals[m])) = m

(* What a reader trusts is never given up for a log that does not extend   *)
(* it, whatever was put back and whichever seals are on their way.  It can *)
(* shrink only if a later seal was lost or replaced by a slower sealer's.  *)
NeverTrustsAFork ==
  [][\/ IsExtendedBy(trusted, trusted')
     \/ regressed /\ IsExtendedBy(trusted', trusted)]_vars

(* Unless the store was put back a reader is refused for one of five       *)
(* reasons: there is no seal yet; the massif has grown since it was read,  *)
(* and has as many leaves as are sealed when it is read again; the state   *)
(* it trusts is beyond the massif, or is not in its reach; or the seal was *)
(* signed without a peak map.  That can only be the seal of a full massif  *)
(* with more than one peak before it: any other seal verifies.             *)
RefusedForAReason ==
  [][GetSignedRoot /\ branch = 0 =>
       LET m == reader.massif
       IN /\ Outcome = "ErrSealVerifyFailed" =>
               /\ Len(seals[m]) = FirstLeaf(m + 1)
               /\ Cardinality(AncestorPeaks(Len(seals[m]))) > 1
          /\ Outcome = "ErrStateSizeExceedsData" =>
               Len(reader.data) < Len(Blob(m)) /\ Len(seals[m]) <= Len(Blob(m))
          /\ Outcome = "ErrConsistencyCheck" =>
               \/ Len(trusted) > Len(reader.data)
               \/ ~InReach(trusted, m)]_vars

AllSealed == \A m \in Massifs : Exists(m) => seals[m] = Blob(m)

(* A reader that goes on trying each massif comes to trust the whole log,  *)
(* once it is sealed and no longer grows: no state it may have trusted     *)
(* before is one it cannot get on from.                                    *)
FollowsTheLog == <>[](AllSealed /\ branch = 0) => <>[](trusted = log)

=============================================================================
