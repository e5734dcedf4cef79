------------------------------- MODULE Replica -------------------------------
(***************************************************************************)
(* The local replica of a log (localmassifreader.go) and the cache of its  *)
(* two directories (logdircache.go).  A replicator takes massifs and their *)
(* seals, verified, from the remote log and replaces the files: first the  *)
(* massif, then the seal, each truncated and written again.  It may fail   *)
(* or stop at any point.  Other processes read the same files at the same  *)
(* time.  A process scans a directory once and keeps what it has read.     *)
(*                                                                         *)
(* The remote log only grows, and a seal is of a state of it (Committer,   *)
(* Sealing): a massif, a seal and what they are verified to are numbers of *)
(* leaves.  What verification amounts to is shown in VerifiedContext.      *)
(***************************************************************************)
EXTENDS Integers

CONSTANTS Processes,    \* each has a cache of its own
          Replicator,   \* the one that replaces files
          MassifLeaves, \* leaves in a massif
          MaxLeaves     \* bound: leaves in the remote log

ASSUME ReplicatorAssumption == Replicator \in Processes
ASSUME MassifLeavesAssumption == MassifLeaves \in Nat \ {0}
ASSUME MaxLeavesAssumption == MaxLeaves \in Nat \ {0}

VARIABLES
  remote,     \* the leaves the remote log had when it was read last
  massifFile, \* the files of the massifs
  sealFile,   \* the files of the seals
  replacing,  \* the call of ReplaceVerifiedContext
  massifDir,  \* for each process its entry for the directory of massifs
  sealDir,    \* for each process its entry for the directory of seals
  replaced    \* history: what the replicator replaced since it started

vars == <<remote, massifFile, sealFile, replacing, massifDir, sealDir, replaced>>

Massifs == 0 .. ((MaxLeaves - 1) \div MassifLeaves)
FirstLeaf(m) == m * MassifLeaves

Lesser(a, b) == IF a < b THEN a ELSE b
Blob(m, leaves) == Lesser(leaves, FirstLeaf(m + 1))

(* A file is whole, or was cut off: at the end of a leaf, elsewhere (then  *)
(* it is torn), or before its header has ended (then it is short).  For a  *)
(* process that did not see it written, one that is cut looks whole.       *)
Forms == {"none", "short", "torn", "cut", "whole"}
Files == [form : Forms, leaves : 0 .. MaxLeaves]
NoFile == [form |-> "none", leaves |-> 0]
Short == [form |-> "short", leaves |-> 0]
Torn == [form |-> "torn", leaves |-> 0]
Whole(n) == [form |-> "whole", leaves |-> n]
HasHeader(file) == file.form \in {"torn", "cut", "whole"}

NoFiles == [m \in Massifs |-> NoFile]

(* An entry of the cache.  HeadMassifIndex and FirstMassifIndex are the    *)
(* greatest and the least of its paths.                                    *)
NewLogDirCacheEntry == [known |-> FALSE, paths |-> {}, read |-> NoFiles]

NoneReplaced == [massif |-> NoFiles, seal |-> NoFiles]

Idle == [phase |-> "idle", massif |-> 0, data |-> 0, seal |-> 0]

Init ==
  /\ remote = 0
  /\ massifFile = NoFiles /\ sealFile = NoFiles
  /\ replacing = Idle
  /\ massifDir = [p \in Processes |-> NewLogDirCacheEntry]
  /\ sealDir = [p \in Processes |-> NewLogDirCacheEntry]
  /\ replaced = NoneReplaced

-----------------------------------------------------------------------------
(* Reading *)

(* Slip: a file that is too short to be a massif ends the scan *)
FindMassifFilesStrictly ==
  [NewLogDirCacheEntry EXCEPT
     !.known = TRUE,
     !.paths = {m \in Massifs : HasHeader(massifFile[m]) /\
                                \A k \in Massifs : massifFile[k].form # "short"}]

(* Files that have no massif header are passed over *)
FindMassifFiles ==
  [NewLogDirCacheEntry EXCEPT
     !.known = TRUE,
     !.paths = {m \in Massifs : HasHeader(massifFile[m])}]

TornSeal(m) == sealFile[m].form = "torn"

(* All seals are read at once, in the order of their names.  At one that   *)
(* cannot be decoded the scan ends, and the entry stays as it is then.     *)
FindSealFiles ==
  LET found == {m \in Massifs : sealFile[m].form = "whole" /\
                                \A k \in Massifs : k <= m => ~TornSeal(k)}
  IN [known |-> TRUE, paths |-> found,
      read |-> [m \in Massifs |-> IF m \in found THEN sealFile[m] ELSE NoFile]]

(* An entry that is there is used, however it came to be there *)
ReadMassifDirEntry(dir) == IF dir.known THEN dir ELSE FindMassifFiles
ReadSealDirEntry(dir) == IF dir.known THEN dir ELSE FindSealFiles

(* The massif that was read before, or the file as it is now *)
GetMassif(dir, m) ==
  LET entry == ReadMassifDirEntry(dir)
  IN IF m \notin entry.paths THEN NoFile
     ELSE IF HasHeader(entry.read[m]) THEN entry.read[m]
     ELSE massifFile[m]

ReadMassif(dir, m) ==
  [ReadMassifDirEntry(dir) EXCEPT
     !.read[m] = IF HasHeader(GetMassif(dir, m)) THEN GetMassif(dir, m) ELSE @]

GetSeal(dir, m) == ReadSealDirEntry(dir).read[m]

(* The seals are scanned once the massif has been read *)
SealScanFails(dir) == ~dir.known /\ \E m \in Massifs : TornSeal(m)

(* The nodes of a torn massif are those of no range, which has no peaks:   *)
(* VerifyConsistency reads beyond them, unless the seal covers more.       *)
Outcome(massifs, seals, m) ==
  LET data == GetMassif(massifs, m)
      seal == GetSeal(seals, m)
  IN IF data.form = "none" THEN "ErrLogFileMassifNotFound"
     ELSE IF data.form = "short" THEN "ErrMassifFixedHeaderBadType"
     ELSE IF SealScanFails(seals) THEN "ErrDecode"
     ELSE IF seal.form = "none" THEN "ErrLogFileSealNotFound"
     ELSE IF data.form = "torn" THEN "panic_or_ErrStateSizeExceedsData"
     ELSE IF seal.leaves > data.leaves THEN "ErrStateSizeExceedsData"
     ELSE "verified"

Busy(p) == p = Replicator /\ replacing.phase # "idle"

(* GetVerifiedContext; GetHeadVerifiedContext is the same of the head      *)
GetVerifiedContext(p, m) ==
  /\ ~Busy(p)
  /\ massifDir' = [massifDir EXCEPT ![p] = ReadMassif(@, m)]
  /\ sealDir' = [sealDir EXCEPT
       ![p] = IF HasHeader(GetMassif(massifDir[p], m))
             THEN ReadSealDirEntry(@) ELSE @]
  /\ UNCHANGED <<remote, massifFile, sealFile, replacing, replaced>>

-----------------------------------------------------------------------------
(* Replacing *)

(* Slip: the file is opened and not created, so that writes are appended *)
Opened(file) == IF file.form = "none" THEN Short ELSE file

(* writeAll: Create empties the file, and Write appends to what there is *)
Created(file) == Short
Written(file, n) == IF file = Short THEN Whole(n) ELSE Torn

(* ReplaceVerifiedContext of what was verified: of a massif of the remote  *)
(* log, which has grown to n leaves by now, sealed up to s.                *)
ReplaceVerifiedContext(m, n, s) ==
  /\ replacing.phase = "idle"
  /\ remote <= n /\ FirstLeaf(m) < n
  /\ s \in FirstLeaf(m) + 1 .. Blob(m, n)
  /\ remote' = n
  /\ massifFile' = [massifFile EXCEPT ![m] = Created(@)]
  /\ replacing' = [phase |-> "massif", massif |-> m, data |-> Blob(m, n), seal |-> s]
  /\ UNCHANGED <<sealFile, massifDir, sealDir, replaced>>

WriteMassif ==
  /\ replacing.phase = "massif"
  /\ massifFile' = [massifFile EXCEPT ![replacing.massif] = Written(@, replacing.data)]
  /\ replacing' = [replacing EXCEPT !.phase = "written"]
  /\ UNCHANGED <<remote, sealFile, massifDir, sealDir, replaced>>

CreateSeal ==
  /\ replacing.phase = "written"
  /\ sealFile' = [sealFile EXCEPT ![replacing.massif] = Torn]
  /\ replacing' = [replacing EXCEPT !.phase = "seal"]
  /\ UNCHANGED <<remote, massifFile, massifDir, sealDir, replaced>>

(* Slip: what was read before stays in the cache *)
ReplacedOnDiskOnly(dir, m, file) ==
  [known |-> TRUE, paths |-> dir.paths \union {m},
   read |-> [dir.read EXCEPT ![m] = IF @.form = "none" THEN file ELSE @]]

(* ReplaceMassif, ReplaceSeal: an entry that was not there is made, and is *)
(* from then on taken for scanned.                                         *)
Replaced(dir, m, file) ==
  [known |-> TRUE, paths |-> dir.paths \union {m},
   read |-> [dir.read EXCEPT ![m] = file]]

WriteSeal ==
  LET m == replacing.massif
      data == Whole(replacing.data)
      seal == Whole(replacing.seal)
  IN /\ replacing.phase = "seal"
     /\ sealFile' = [sealFile EXCEPT ![m] = seal]
     /\ massifDir' = [massifDir EXCEPT ![Replicator] = Replaced(@, m, data)]
     /\ sealDir' = [sealDir EXCEPT ![Replicator] = Replaced(@, m, seal)]
     /\ replaced' = [massif |-> [replaced.massif EXCEPT ![m] = data],
                     seal |-> [replaced.seal EXCEPT ![m] = seal]]
     /\ replacing' = Idle
     /\ UNCHANGED <<remote, massifFile>>

(* What there may be of the massif file when its write does not end *)
Partly(m, n) ==
  {Short, Torn} \union [form : {"cut"}, leaves : FirstLeaf(m) + 1 .. n - 1]

(* The write fails, or is short: the call returns an error *)
Interrupted ==
  /\ replacing.phase # "idle"
  /\ IF replacing.phase = "massif"
     THEN \E part \in Partly(replacing.massif, replacing.data) :
            massifFile' = [massifFile EXCEPT ![replacing.massif] = part]
     ELSE UNCHANGED massifFile
  /\ replacing' = Idle
  /\ UNCHANGED <<remote, sealFile>>

Fail ==
  /\ Interrupted
  /\ UNCHANGED <<massifDir, sealDir, replaced>>

(* DeleteEntry: the files of a directory are read again *)
DeleteEntry(p) ==
  /\ ~Busy(p)
  /\ \/ /\ massifDir' = [massifDir EXCEPT ![p] = NewLogDirCacheEntry]
        /\ UNCHANGED sealDir
     \/ /\ sealDir' = [sealDir EXCEPT ![p] = NewLogDirCacheEntry]
        /\ UNCHANGED massifDir
  /\ replaced' = IF p = Replicator THEN NoneReplaced ELSE replaced
  /\ UNCHANGED <<remote, massifFile, sealFile, replacing>>

(* A process starts again: with it goes its cache *)
Restart(p) ==
  /\ massifDir' = [massifDir EXCEPT ![p] = NewLogDirCacheEntry]
  /\ sealDir' = [sealDir EXCEPT ![p] = NewLogDirCacheEntry]
  /\ replaced' = IF p = Replicator THEN NoneReplaced ELSE replaced
  /\ IF Busy(p) THEN Interrupted
     ELSE UNCHANGED <<remote, massifFile, sealFile, replacing>>

Next ==
  \/ \E p \in Processes, m \in Massifs : GetVerifiedContext(p, m)
  \/ \E m \in Massifs, n, s \in 1 .. MaxLeaves : ReplaceVerifiedContext(m, n, s)
  \/ WriteMassif \/ CreateSeal \/ WriteSeal \/ Fail
  \/ \E p \in Processes : DeleteEntry(p) \/ Restart(p)

Spec == Init /\ [][Next]_vars

(* A caller goes on replicating each massif, and a call that is not cut    *)
(* off goes on to its end.                                                 *)
FairSpec ==
  /\ Spec
  /\ \A m \in Massifs :
       SF_vars(\E n, s \in 1 .. MaxLeaves : ReplaceVerifiedContext(m, n, s))
  /\ WF_vars(WriteMassif) /\ WF_vars(CreateSeal) /\ WF_vars(WriteSeal)

-----------------------------------------------------------------------------
(* Properties *)

(* Every variable has its type, and a file of a massif has leaves of it *)
TypeOK ==
  /\ remote \in 0 .. MaxLeaves
  /\ massifFile \in [Massifs -> Files] /\ sealFile \in [Massifs -> Files]
  /\ replacing \in [phase : {"idle", "massif", "written", "seal"},
                    massif : Massifs, data : 0 .. MaxLeaves, seal : 0 .. MaxLeaves]
  /\ massifDir \in [Processes -> [known : BOOLEAN, paths : SUBSET Massifs,
                                  read : [Massifs -> Files]]]
  /\ sealDir \in [Processes -> [known : BOOLEAN, paths : SUBSET Massifs,
                                read : [Massifs -> Files]]]
  /\ replaced \in [massif : [Massifs -> Files], seal : [Massifs -> Files]]

ServedTo(p, m) == Outcome(massifDir[p], sealDir[p], m) = "verified"
ServedAfterRestart(m) ==
  Outcome(NewLogDirCacheEntry, NewLogDirCacheEntry, m) = "verified"

(* A process that starts on what another left, wherever that stopped, gets *)
(* each massif verified that was written to the end and has a seal, and    *)
(* nothing that was left of other massifs keeps it from it.  Only a seal   *)
(* file that was left empty does.                                          *)
IntactIsServed ==
  \A m \in Massifs :
    /\ massifFile[m].form = "whole" /\ sealFile[m].form = "whole"
    /\ \A k \in Massifs : ~TornSeal(k)
    => ServedAfterRestart(m)

(* The replicator serves what it has replaced, the massif and the seal     *)
(* together, whatever it had read before and whatever of it has failed     *)
(* since.                                                                  *)
ServesWhatItReplaced ==
  \A m \in Massifs :
    replaced.seal[m] # NoFile =>
      /\ ServedTo(Replicator, m)
      /\ GetMassif(massifDir[Replicator], m) = replaced.massif[m]
      /\ GetSeal(sealDir[Replicator], m) = replaced.seal[m]

(* Once nothing fails or is forgotten any more, replicating each massif    *)
(* again repairs all that was left behind: again and again the whole       *)
(* replica is verified, by the replicator and by one that starts then, and *)
(* has all of the remote log.                                              *)
Repaired ==
  <>[][~Fail /\ \A p \in Processes : ~Restart(p) /\ ~DeleteEntry(p)]_vars =>
    []<>(\A m \in Massifs : FirstLeaf(m) < remote =>
           /\ ServedTo(Replicator, m) /\ ServedAfterRestart(m)
           /\ massifFile[m].leaves = Blob(m, remote))

=============================================================================
