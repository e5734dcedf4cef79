---------------------------- MODULE ReplicaProofs ----------------------------
(***************************************************************************)
(* Proofs about module Replica, for any number of processes and logs and   *)
(* massifs of any size.                                                    *)
(*                                                                         *)
(* A massif file that was written to the end and a seal file that was fit  *)
(* together however they came to be there (FilesFit): the seal that is     *)
(* left when a massif is replaced covers no more than the remote log had,  *)
(* and what replaces the massif is all that the remote log has (OnItsWay). *)
(* What the replicator has replaced it has in both entries of its cache    *)
(* (Cached), and an entry that is there is not read again.                 *)
(***************************************************************************)
EXTENDS Replica, TLAPS

OnItsWay ==
  replacing.phase # "idle" =>
    /\ replacing.data = Blob(replacing.massif, remote)
    /\ replacing.seal <= replacing.data
    /\ massifFile[replacing.massif] =
         IF replacing.phase = "massif" THEN Short ELSE Whole(replacing.data)

FilesFit ==
  \A m \in Massifs :
    sealFile[m].form = "whole" =>
      /\ sealFile[m].leaves <= Blob(m, remote)
      /\ massifFile[m].form = "whole" => sealFile[m].leaves <= massifFile[m].leaves

Cached ==
  \A m \in Massifs :
    replaced.seal[m] # NoFile =>
      /\ massifDir[Replicator].known /\ sealDir[Replicator].known
      /\ m \in massifDir[Replicator].paths
      /\ massifDir[Replicator].read[m] = replaced.massif[m]
      /\ sealDir[Replicator].read[m] = replaced.seal[m]
      /\ replaced.massif[m].form = "whole" /\ replaced.seal[m].form = "whole"
      /\ replaced.seal[m].leaves <= replaced.massif[m].leaves

IInv == TypeOK /\ OnItsWay /\ FilesFit /\ Cached

Dirs == [known : BOOLEAN, paths : SUBSET Massifs, read : [Massifs -> Files]]

-----------------------------------------------------------------------------
(* Massifs and files *)

(* The numbers of massifs and of their first leaves.                       *)
LEMMA MassifFacts ==
  /\ Massifs \subseteq Nat
  /\ 0 \in Massifs
  /\ \A m \in Massifs : FirstLeaf(m) \in Nat /\ FirstLeaf(m + 1) \in Nat
<1>1. (MaxLeaves - 1) \div MassifLeaves \in Nat
  BY MaxLeavesAssumption, MassifLeavesAssumption
<1>2. Massifs \subseteq Nat /\ 0 \in Massifs
  BY <1>1 DEF Massifs
<1>3. \A m \in Nat : FirstLeaf(m) \in Nat /\ FirstLeaf(m + 1) \in Nat
  BY MassifLeavesAssumption DEF FirstLeaf
<1> QED
  BY <1>2, <1>3

(* A massif has no more leaves than its log, and no fewer when it grows. *)
LEMMA BlobFacts ==
  ASSUME NEW m \in Massifs, NEW n \in 0 .. MaxLeaves
  PROVE  /\ Blob(m, n) \in 0 .. MaxLeaves
         /\ \A k \in 0 .. n : Blob(m, k) <= Blob(m, n)
BY MassifFacts, MaxLeavesAssumption DEF Blob, Lesser

(* The forms of files are told apart.                                      *)
LEMMA FileFacts ==
  /\ NoFile \in Files /\ Short \in Files /\ Torn \in Files
  /\ \A n \in 0 .. MaxLeaves : Whole(n) \in Files
  /\ NoFiles \in [Massifs -> Files]
  /\ NoFile.form = "none" /\ Short.form = "short" /\ Torn.form = "torn"
  /\ \A n : Whole(n).form = "whole" /\ Whole(n).leaves = n
BY MaxLeavesAssumption
   DEF NoFile, Short, Torn, Whole, Files, Forms, NoFiles

(* A write that did not end leaves no whole file, and leaves of the massif. *)
LEMMA PartlyFacts ==
  ASSUME NEW m \in Massifs, NEW n \in 0 .. MaxLeaves, NEW part \in Partly(m, n)
  PROVE  part \in Files /\ part.form # "whole"
<1>1. CASE part \in {Short, Torn}
  BY <1>1, FileFacts
<1>2. CASE part \in [form : {"cut"}, leaves : FirstLeaf(m) + 1 .. n - 1]
  <2>1. FirstLeaf(m) + 1 .. n - 1 \subseteq 0 .. MaxLeaves
    BY MassifFacts, MaxLeavesAssumption
  <2> QED
    BY <1>2, <2>1 DEF Files, Forms
<1> QED
  BY <1>1, <1>2 DEF Partly

-----------------------------------------------------------------------------
(* The entries of a cache *)

(* Reading and replacing keep the type of an entry.                        *)
LEMMA EntryTypes ==
  ASSUME TypeOK, NEW dir \in Dirs, NEW m \in Massifs
  PROVE  /\ NewLogDirCacheEntry \in Dirs
         /\ ReadMassifDirEntry(dir) \in Dirs
         /\ ReadSealDirEntry(dir) \in Dirs
         /\ GetMassif(dir, m) \in Files
         /\ ReadMassif(dir, m) \in Dirs
         /\ \A file \in Files : Replaced(dir, m, file) \in Dirs
<1>1. NewLogDirCacheEntry \in Dirs
  BY FileFacts DEF NewLogDirCacheEntry, Dirs
<1>2. FindMassifFiles \in Dirs
  BY <1>1 DEF FindMassifFiles, Dirs
<1>3. FindSealFiles \in Dirs
  BY FileFacts DEF FindSealFiles, Dirs, TypeOK
<1>4. ReadMassifDirEntry(dir) \in Dirs /\ ReadSealDirEntry(dir) \in Dirs
  BY <1>2, <1>3 DEF ReadMassifDirEntry, ReadSealDirEntry
<1>5. GetMassif(dir, m) \in Files
  BY <1>4, FileFacts DEF GetMassif, Dirs, TypeOK
<1>6. ReadMassif(dir, m) \in Dirs
  BY <1>4, <1>5 DEF ReadMassif, Dirs
<1>7. \A file \in Files : Replaced(dir, m, file) \in Dirs
  BY DEF Replaced, Dirs
<1> QED
  BY <1>1, <1>4, <1>5, <1>6, <1>7

(* What is in an entry that is known stays there when massifs are read. *)
LEMMA KnownStays ==
  ASSUME TypeOK, NEW dir \in Dirs, dir.known, NEW m \in Massifs,
         NEW k \in dir.paths, HasHeader(dir.read[k])
  PROVE  /\ GetMassif(dir, k) = dir.read[k]
         /\ ReadMassif(dir, m).known /\ k \in ReadMassif(dir, m).paths
         /\ ReadMassif(dir, m).read[k] = dir.read[k]
         /\ ReadSealDirEntry(dir) = dir
<1>1. ReadMassifDirEntry(dir) = dir /\ ReadSealDirEntry(dir) = dir
  BY DEF ReadMassifDirEntry, ReadSealDirEntry
<1>2. GetMassif(dir, k) = dir.read[k]
  BY <1>1 DEF GetMassif
<1>3. ReadMassif(dir, m) =
        [dir EXCEPT !.read[m] = IF HasHeader(GetMassif(dir, m))
                                THEN GetMassif(dir, m) ELSE @]
  BY <1>1 DEF ReadMassif
<1>4. ReadMassif(dir, m).known /\ k \in ReadMassif(dir, m).paths
  BY <1>3 DEF Dirs
<1>5. ReadMassif(dir, m).read[k] = dir.read[k]
  BY <1>2, <1>3 DEF Dirs
<1> QED
  BY <1>1, <1>2, <1>4, <1>5

(* What the type invariant says, entries by their name.                    *)
LEMMA TypeFacts ==
  ASSUME TypeOK
  PROVE  /\ remote \in 0 .. MaxLeaves
         /\ massifFile \in [Massifs -> Files] /\ sealFile \in [Massifs -> Files]
         /\ massifDir \in [Processes -> Dirs] /\ sealDir \in [Processes -> Dirs]
         /\ replacing.massif \in Massifs
         /\ replacing.data \in 0 .. MaxLeaves /\ replacing.seal \in 0 .. MaxLeaves
         /\ replaced.massif \in [Massifs -> Files]
         /\ replaced.seal \in [Massifs -> Files]
         /\ Replicator \in Processes
BY ReplicatorAssumption DEF TypeOK, Dirs

-----------------------------------------------------------------------------
(* The steps, one by one *)

(* A verified read: what was replaced is not read again.                   *)
LEMMA GetStep ==
  ASSUME IInv, NEW p \in Processes, NEW m \in Massifs, GetVerifiedContext(p, m)
  PROVE  IInv'
<1> USE DEF IInv
<1>1. /\ massifDir' = [massifDir EXCEPT ![p] = ReadMassif(@, m)]
      /\ \/ sealDir' = sealDir
         \/ sealDir' = [sealDir EXCEPT ![p] = ReadSealDirEntry(@)]
      /\ UNCHANGED <<remote, massifFile, sealFile, replacing, replaced>>
  BY TypeFacts DEF GetVerifiedContext
<1>2. massifDir[p] \in Dirs /\ sealDir[p] \in Dirs
  BY TypeFacts
<1>3. massifDir' \in [Processes -> Dirs] /\ sealDir' \in [Processes -> Dirs]
  BY <1>1, <1>2, TypeFacts, EntryTypes
<1>4. TypeOK'
  BY <1>1, <1>3 DEF TypeOK, Dirs
<1>5. OnItsWay' /\ FilesFit'
  BY <1>1 DEF OnItsWay, FilesFit
<1>6. Cached'
  <2> SUFFICES ASSUME NEW k \in Massifs, replaced.seal[k] # NoFile
               PROVE  /\ massifDir'[Replicator].known /\ sealDir'[Replicator].known
                      /\ k \in massifDir'[Replicator].paths
                      /\ massifDir'[Replicator].read[k] = massifDir[Replicator].read[k]
                      /\ sealDir'[Replicator].read[k] = sealDir[Replicator].read[k]
    BY <1>1 DEF Cached
  <2>1. /\ massifDir[Replicator].known /\ sealDir[Replicator].known
        /\ k \in massifDir[Replicator].paths
        /\ HasHeader(massifDir[Replicator].read[k])
    BY DEF Cached, HasHeader
  <2>2. massifDir[Replicator] \in Dirs /\ sealDir[Replicator] \in Dirs
    BY TypeFacts
  <2>3. CASE p # Replicator
    BY <1>1, <2>1, <2>3, TypeFacts
  <2>4. CASE p = Replicator
    <3>1. massifDir'[Replicator] = ReadMassif(massifDir[Replicator], m)
      BY <1>1, <2>4, TypeFacts
    <3>2. sealDir'[Replicator] = sealDir[Replicator]
      <4>1. ReadSealDirEntry(sealDir[Replicator]) = sealDir[Replicator]
        BY <2>1 DEF ReadSealDirEntry
      <4> QED
        BY <1>1, <2>4, <4>1, TypeFacts
    <3> QED
      BY <2>1, <2>2, <3>1, <3>2, KnownStays
  <2> QED
    BY <2>3, <2>4
<1> QED
  BY <1>4, <1>5, <1>6

(* The massif file is emptied: a seal is left that the log covers.         *)
LEMMA ReplaceStep ==
  ASSUME IInv, NEW m \in Massifs, NEW n \in 1 .. MaxLeaves, NEW s \in 1 .. MaxLeaves,
         ReplaceVerifiedContext(m, n, s)
  PROVE  IInv'
<1> USE DEF IInv
<1>1. /\ remote <= n /\ FirstLeaf(m) < n
      /\ s \in FirstLeaf(m) + 1 .. Blob(m, n)
      /\ remote' = n
      /\ massifFile' = [massifFile EXCEPT ![m] = Short]
      /\ replacing' = [phase |-> "massif", massif |-> m, data |-> Blob(m, n), seal |-> s]
      /\ UNCHANGED <<sealFile, massifDir, sealDir, replaced>>
  BY DEF ReplaceVerifiedContext, Created
<1>2. n \in 0 .. MaxLeaves /\ s \in 0 .. MaxLeaves /\ remote \in 0 .. n
  BY <1>1, TypeFacts, MaxLeavesAssumption
<1>3. Blob(m, n) \in 0 .. MaxLeaves
  BY <1>2, BlobFacts
<1>4. TypeOK'
  <2>1. replacing' \in [phase : {"idle", "massif", "written", "seal"},
                        massif : Massifs, data : 0 .. MaxLeaves, seal : 0 .. MaxLeaves]
    BY <1>1, <1>2, <1>3
  <2>2. massifFile' \in [Massifs -> Files]
    BY <1>1, TypeFacts, FileFacts
  <2> QED
    BY <1>1, <1>2, <2>1, <2>2 DEF TypeOK
<1>5. OnItsWay'
  BY <1>1, <1>3, TypeFacts DEF OnItsWay
<1>6. FilesFit'
  <2> SUFFICES ASSUME NEW k \in Massifs, sealFile[k].form = "whole"
               PROVE  /\ sealFile[k].leaves <= Blob(k, n)
                      /\ massifFile'[k].form = "whole" =>
                           sealFile[k].leaves <= massifFile'[k].leaves
    BY <1>1 DEF FilesFit
  <2>1. sealFile[k].leaves <= Blob(k, remote) /\ Blob(k, remote) <= Blob(k, n)
    BY <1>2, BlobFacts DEF FilesFit
  <2>2. /\ sealFile[k].leaves \in Nat
        /\ Blob(k, remote) \in Nat /\ Blob(k, n) \in Nat
    BY <1>2, TypeFacts, BlobFacts DEF Files
  <2>3. massifFile'[k].form = "whole" => massifFile'[k] = massifFile[k]
    BY <1>1, TypeFacts, FileFacts
  <2> QED
    BY <2>1, <2>2, <2>3 DEF FilesFit
<1>7. Cached'
  BY <1>1 DEF Cached
<1> QED
  BY <1>4, <1>5, <1>6, <1>7

(* The massif is written: all that the remote log has of it.               *)
LEMMA WriteMassifStep ==
  ASSUME IInv, WriteMassif
  PROVE  IInv'
<1> USE DEF IInv
<1> DEFINE m == replacing.massif
           file == Whole(replacing.data)
<1>1. /\ replacing.phase = "massif" /\ massifFile[m] = Short
      /\ replacing.data = Blob(m, remote) /\ replacing.seal <= replacing.data
  BY DEF WriteMassif, OnItsWay
<1>2. /\ massifFile' = [massifFile EXCEPT ![m] = file]
      /\ replacing' = [replacing EXCEPT !.phase = "written"]
      /\ UNCHANGED <<remote, sealFile, massifDir, sealDir, replaced>>
  BY <1>1 DEF WriteMassif, Written
<1>3. /\ replacing'.phase = "written" /\ replacing'.massif = m
      /\ replacing'.data = replacing.data /\ replacing'.seal = replacing.seal
      /\ replacing' \in [phase : {"idle", "massif", "written", "seal"},
                         massif : Massifs, data : 0 .. MaxLeaves, seal : 0 .. MaxLeaves]
  BY <1>2 DEF TypeOK
<1>4. file \in Files /\ file.form = "whole" /\ file.leaves = replacing.data
  BY TypeFacts, FileFacts
<1>5. massifFile' \in [Massifs -> Files]
      /\ \A k \in Massifs : massifFile'[k] = IF k = m THEN file ELSE massifFile[k]
  BY <1>2, <1>4, TypeFacts
<1>6. TypeOK'
  BY <1>2, <1>3, <1>5 DEF TypeOK
<1>7. OnItsWay'
  BY <1>1, <1>2, <1>3, <1>5, TypeFacts DEF OnItsWay
<1>8. FilesFit'
  BY <1>1, <1>2, <1>4, <1>5 DEF FilesFit
<1>9. Cached'
  BY <1>2 DEF Cached
<1> QED
  BY <1>6, <1>7, <1>8, <1>9

(* The seal file is emptied.                                               *)
LEMMA CreateSealStep ==
  ASSUME IInv, CreateSeal
  PROVE  IInv'
<1> USE DEF IInv
<1>1. /\ replacing.phase = "written"
      /\ sealFile' = [sealFile EXCEPT ![replacing.massif] = Torn]
      /\ replacing' = [replacing EXCEPT !.phase = "seal"]
      /\ UNCHANGED <<remote, massifFile, massifDir, sealDir, replaced>>
  BY DEF CreateSeal
<1>2. /\ replacing'.phase = "seal" /\ replacing'.massif = replacing.massif
      /\ replacing'.data = replacing.data /\ replacing'.seal = replacing.seal
      /\ replacing' \in [phase : {"idle", "massif", "written", "seal"},
                         massif : Massifs, data : 0 .. MaxLeaves, seal : 0 .. MaxLeaves]
  BY <1>1 DEF TypeOK
<1>3. sealFile' \in [Massifs -> Files]
      /\ \A k \in Massifs : sealFile'[k] \in {Torn, sealFile[k]}
  BY <1>1, TypeFacts, FileFacts
<1>4. TypeOK'
  BY <1>1, <1>2, <1>3 DEF TypeOK
<1>5. OnItsWay'
  BY <1>1, <1>2 DEF OnItsWay
<1>6. FilesFit'
  <2>1. Torn.form # "whole"
    BY FileFacts
  <2> QED
    BY <1>1, <1>3, <2>1 DEF FilesFit
<1>7. Cached'
  BY <1>1 DEF Cached
<1> QED
  BY <1>4, <1>5, <1>6, <1>7

(* The seal is written, and both go to the cache.                          *)
LEMMA WriteSealStep ==
  ASSUME IInv, WriteSeal
  PROVE  IInv'
<1> USE DEF IInv
<1> DEFINE m == replacing.massif
           data == Whole(replacing.data)
           seal == Whole(replacing.seal)
           mdir == massifDir[Replicator]
           sdir == sealDir[Replicator]
<1>1. /\ replacing.phase = "seal"
      /\ sealFile' = [sealFile EXCEPT ![m] = seal]
      /\ massifDir' = [massifDir EXCEPT ![Replicator] = Replaced(@, m, data)]
      /\ sealDir' = [sealDir EXCEPT ![Replicator] = Replaced(@, m, seal)]
      /\ replaced' = [massif |-> [replaced.massif EXCEPT ![m] = data],
                      seal |-> [replaced.seal EXCEPT ![m] = seal]]
      /\ replacing' = Idle
      /\ UNCHANGED <<remote, massifFile>>
  BY DEF WriteSeal
<1>2. /\ massifFile[m] = data
      /\ replacing.data = Blob(m, remote) /\ replacing.seal <= replacing.data
  BY <1>1 DEF OnItsWay
<1>3. /\ data \in Files /\ data.form = "whole" /\ data.leaves = replacing.data
      /\ seal \in Files /\ seal.form = "whole" /\ seal.leaves = replacing.seal
      /\ m \in Massifs /\ mdir \in Dirs /\ sdir \in Dirs
  BY TypeFacts, FileFacts
<1> HIDE DEF m, data, seal, mdir, sdir
<1>4. /\ sealFile' \in [Massifs -> Files]
      /\ \A k \in Massifs : sealFile'[k] = IF k = m THEN seal ELSE sealFile[k]
  BY <1>1, <1>3, TypeFacts
<1>5. /\ replaced'.massif \in [Massifs -> Files]
      /\ replaced'.seal \in [Massifs -> Files]
      /\ \A k \in Massifs :
           /\ replaced'.massif[k] = IF k = m THEN data ELSE replaced.massif[k]
           /\ replaced'.seal[k] = IF k = m THEN seal ELSE replaced.seal[k]
  BY <1>1, <1>3, TypeFacts
<1>6. /\ massifDir'[Replicator] = Replaced(mdir, m, data)
      /\ sealDir'[Replicator] = Replaced(sdir, m, seal)
  BY <1>1, TypeFacts DEF mdir, sdir
<1>7. massifDir' \in [Processes -> Dirs] /\ sealDir' \in [Processes -> Dirs]
  <2>1. Replaced(mdir, m, data) \in Dirs /\ Replaced(sdir, m, seal) \in Dirs
    BY <1>3, EntryTypes
  <2> QED
    BY <1>1, <2>1, TypeFacts DEF mdir, sdir
<1>8. TypeOK'
  <2>1. replacing' \in [phase : {"idle", "massif", "written", "seal"},
                        massif : Massifs, data : 0 .. MaxLeaves, seal : 0 .. MaxLeaves]
    BY <1>1, MassifFacts, MaxLeavesAssumption DEF Idle
  <2>2. replaced' \in [massif : [Massifs -> Files], seal : [Massifs -> Files]]
    BY <1>1, <1>5
  <2> QED
    BY <1>1, <1>4, <1>7, <2>1, <2>2 DEF TypeOK, Dirs
<1>9. OnItsWay'
  BY <1>1 DEF OnItsWay, Idle
<1>10. FilesFit'
  BY <1>1, <1>2, <1>3, <1>4 DEF FilesFit
<1>11. Cached'
  <2> SUFFICES ASSUME NEW k \in Massifs, replaced'.seal[k] # NoFile
               PROVE  /\ massifDir'[Replicator].known /\ sealDir'[Replicator].known
                      /\ k \in massifDir'[Replicator].paths
                      /\ massifDir'[Replicator].read[k] = replaced'.massif[k]
                      /\ sealDir'[Replicator].read[k] = replaced'.seal[k]
                      /\ replaced'.massif[k].form = "whole"
                      /\ replaced'.seal[k].form = "whole"
                      /\ replaced'.seal[k].leaves <= replaced'.massif[k].leaves
    BY DEF Cached
  <2>1. /\ massifDir'[Replicator].known /\ sealDir'[Replicator].known
        /\ massifDir'[Replicator].paths = mdir.paths \union {m}
        /\ massifDir'[Replicator].read = [mdir.read EXCEPT ![m] = data]
        /\ sealDir'[Replicator].read = [sdir.read EXCEPT ![m] = seal]
    BY <1>6 DEF Replaced
  <2>2. CASE k = m
    BY <1>2, <1>3, <1>5, <2>1, <2>2 DEF Dirs, m
  <2>3. CASE k # m
    <3>1. /\ massifDir'[Replicator].read[k] = mdir.read[k]
          /\ sealDir'[Replicator].read[k] = sdir.read[k]
      BY <1>3, <2>1, <2>3 DEF Dirs
    <3> QED
      BY <1>5, <2>1, <2>3, <3>1 DEF Cached, mdir, sdir
  <2> QED
    BY <2>2, <2>3
<1> QED
  BY <1>8, <1>9, <1>10, <1>11

(* A call that is cut off leaves no massif file that does not fit.         *)
LEMMA InterruptedStep ==
  ASSUME IInv, Interrupted
  PROVE  /\ remote' = remote /\ sealFile' = sealFile /\ replacing' = Idle
         /\ massifFile' \in [Massifs -> Files]
         /\ OnItsWay' /\ FilesFit'
<1> USE DEF IInv
<1>1. remote' = remote /\ sealFile' = sealFile /\ replacing' = Idle
  BY DEF Interrupted
<1>2. CASE massifFile' = massifFile
  BY <1>1, <1>2, TypeFacts DEF FilesFit, OnItsWay, Idle
<1>3. CASE \E part \in Partly(replacing.massif, replacing.data) :
             massifFile' = [massifFile EXCEPT ![replacing.massif] = part]
  <2>1. PICK part \in Partly(replacing.massif, replacing.data) :
          massifFile' = [massifFile EXCEPT ![replacing.massif] = part]
    BY <1>3
  <2>2. part \in Files /\ part.form # "whole"
    BY PartlyFacts, TypeFacts
  <2>3. massifFile' \in [Massifs -> Files]
        /\ \A k \in Massifs : massifFile'[k] \in {part, massifFile[k]}
    BY <2>1, <2>2, TypeFacts
  <2>4. FilesFit'
    BY <1>1, <2>2, <2>3 DEF FilesFit
  <2> QED
    BY <1>1, <2>3, <2>4 DEF OnItsWay, Idle
<1> QED
  BY <1>2, <1>3 DEF Interrupted

(* A write fails.                                                          *)
LEMMA FailStep ==
  ASSUME IInv, Fail
  PROVE  IInv'
<1>1. /\ UNCHANGED <<remote, sealFile, massifDir, sealDir, replaced>>
      /\ replacing' = Idle
      /\ massifFile' \in [Massifs -> Files] /\ OnItsWay' /\ FilesFit'
  BY InterruptedStep DEF Fail
<1>2. Idle \in [phase : {"idle", "massif", "written", "seal"},
                massif : Massifs, data : 0 .. MaxLeaves, seal : 0 .. MaxLeaves]
  BY MassifFacts, MaxLeavesAssumption DEF Idle
<1>3. TypeOK'
  BY <1>1, <1>2 DEF IInv, TypeOK
<1>4. Cached'
  BY <1>1 DEF IInv, Cached
<1> QED
  BY <1>1, <1>3, <1>4 DEF IInv

(* Entries are forgotten, and with those of the replicator what it has     *)
(* replaced.                                                               *)
LEMMA ForgetStep ==
  ASSUME IInv, NEW p \in Processes,
         massifDir' \in {massifDir, [massifDir EXCEPT ![p] = NewLogDirCacheEntry]},
         sealDir' \in {sealDir, [sealDir EXCEPT ![p] = NewLogDirCacheEntry]},
         replaced' = IF p = Replicator THEN NoneReplaced ELSE replaced
  PROVE  /\ massifDir' \in [Processes -> Dirs] /\ sealDir' \in [Processes -> Dirs]
         /\ replaced' \in [massif : [Massifs -> Files], seal : [Massifs -> Files]]
         /\ Cached'
<1> USE DEF IInv
<1>1. NewLogDirCacheEntry \in Dirs
  BY FileFacts DEF NewLogDirCacheEntry, Dirs
<1>2. massifDir' \in [Processes -> Dirs] /\ sealDir' \in [Processes -> Dirs]
  BY <1>1, TypeFacts
<1>3. CASE p = Replicator
  <2>1. /\ NoneReplaced \in [massif : [Massifs -> Files], seal : [Massifs -> Files]]
        /\ \A m \in Massifs : NoneReplaced.seal[m] = NoFile
    BY FileFacts DEF NoneReplaced, NoFiles
  <2> QED
    BY <1>2, <1>3, <2>1 DEF Cached
<1>4. CASE p # Replicator
  <2>1. /\ massifDir'[Replicator] = massifDir[Replicator]
        /\ sealDir'[Replicator] = sealDir[Replicator]
        /\ replaced' = replaced
    BY <1>4, TypeFacts
  <2> QED
    BY <1>2, <2>1 DEF Cached, TypeOK
<1> QED
  BY <1>3, <1>4

(* An entry is deleted.                                                    *)
LEMMA DeleteEntryStep ==
  ASSUME IInv, NEW p \in Processes, DeleteEntry(p)
  PROVE  IInv'
<1>1. UNCHANGED <<remote, massifFile, sealFile, replacing>>
  BY DEF DeleteEntry
<1>2. /\ massifDir' \in [Processes -> Dirs] /\ sealDir' \in [Processes -> Dirs]
      /\ replaced' \in [massif : [Massifs -> Files], seal : [Massifs -> Files]]
      /\ Cached'
  BY ForgetStep DEF DeleteEntry
<1>3. TypeOK'
  BY <1>1, <1>2 DEF IInv, TypeOK, Dirs
<1>4. OnItsWay' /\ FilesFit'
  BY <1>1 DEF IInv, OnItsWay, FilesFit
<1> QED
  BY <1>2, <1>3, <1>4 DEF IInv

(* A process starts again, in the midst of a call or not.                  *)
LEMMA RestartStep ==
  ASSUME IInv, NEW p \in Processes, Restart(p)
  PROVE  IInv'
<1>1. /\ massifDir' \in [Processes -> Dirs] /\ sealDir' \in [Processes -> Dirs]
      /\ replaced' \in [massif : [Massifs -> Files], seal : [Massifs -> Files]]
      /\ Cached'
  BY ForgetStep DEF Restart
<1>2. CASE Interrupted
  <2>1. /\ remote' = remote /\ sealFile' = sealFile /\ replacing' = Idle
        /\ massifFile' \in [Massifs -> Files] /\ OnItsWay' /\ FilesFit'
    BY <1>2, InterruptedStep
  <2>2. Idle \in [phase : {"idle", "massif", "written", "seal"},
                  massif : Massifs, data : 0 .. MaxLeaves, seal : 0 .. MaxLeaves]
    BY MassifFacts, MaxLeavesAssumption DEF Idle
  <2>3. TypeOK'
    BY <1>1, <2>1, <2>2 DEF IInv, TypeOK, Dirs
  <2> QED
    BY <1>1, <2>1, <2>3 DEF IInv
<1>3. CASE UNCHANGED <<remote, massifFile, sealFile, replacing>>
  <2>1. TypeOK'
    BY <1>1, <1>3 DEF IInv, TypeOK, Dirs
  <2>2. OnItsWay' /\ FilesFit'
    BY <1>3 DEF IInv, OnItsWay, FilesFit
  <2> QED
    BY <1>1, <2>1, <2>2 DEF IInv
<1> QED
  BY <1>2, <1>3 DEF Restart

(* The invariant holds at first. *)
LEMMA Initially == Init => IInv
<1> SUFFICES ASSUME Init PROVE IInv
  OBVIOUS
<1>1. /\ NewLogDirCacheEntry \in Dirs
      /\ \A m \in Massifs : NoFiles[m] = NoFile
  BY FileFacts DEF NewLogDirCacheEntry, Dirs, NoFiles
<1>2. TypeOK
  BY <1>1, FileFacts, MassifFacts, MaxLeavesAssumption
     DEF Init, TypeOK, Idle, NoneReplaced, Dirs
<1>3. OnItsWay
  BY DEF Init, OnItsWay, Idle
<1>4. FilesFit /\ Cached
  BY <1>1, FileFacts DEF Init, FilesFit, Cached, NoneReplaced
<1> QED
  BY <1>2, <1>3, <1>4 DEF IInv

(* Every step keeps the invariant. *)
LEMMA Inductive == IInv /\ [Next]_vars => IInv'
<1> SUFFICES ASSUME IInv, [Next]_vars PROVE IInv'
  OBVIOUS
<1>1. CASE UNCHANGED vars
  BY <1>1 DEF IInv, TypeOK, OnItsWay, FilesFit, Cached, vars
<1> QED
  BY <1>1, GetStep, ReplaceStep, WriteMassifStep, CreateSealStep, WriteSealStep,
     FailStep, DeleteEntryStep, RestartStep DEF Next

-----------------------------------------------------------------------------
(* Theorems *)

(* Every variable has its type. *)
THEOREM TypeCorrect == Spec => []TypeOK
<1>1. IInv => TypeOK
  BY DEF IInv
<1> QED
  BY <1>1, Initially, Inductive, PTL DEF Spec

(* What another process left whole is served to one that starts, whatever  *)
(* else was left.                                                          *)
THEOREM Intact == Spec => []IntactIsServed
<1>1. IInv => IntactIsServed
  <2> SUFFICES ASSUME IInv, NEW m \in Massifs,
                      massifFile[m].form = "whole", sealFile[m].form = "whole",
                      \A k \in Massifs : ~TornSeal(k)
               PROVE  ServedAfterRestart(m)
    BY DEF IntactIsServed
  <2> DEFINE new == NewLogDirCacheEntry
  <2>1. ~new.known /\ new.read[m] = NoFile
    BY DEF NewLogDirCacheEntry, NoFiles
  <2>2. GetMassif(new, m) = massifFile[m]
    <3>1. FindMassifFiles.paths = {k \in Massifs : HasHeader(massifFile[k])}
          /\ FindMassifFiles.read = new.read
      BY DEF FindMassifFiles, NewLogDirCacheEntry
    <3>2. HasHeader(massifFile[m]) /\ ~HasHeader(NoFile)
      BY FileFacts DEF HasHeader
    <3> QED
      BY <2>1, <3>1, <3>2 DEF GetMassif, ReadMassifDirEntry
  <2>3. GetSeal(new, m) = sealFile[m] /\ ~SealScanFails(new)
    BY <2>1 DEF GetSeal, ReadSealDirEntry, FindSealFiles, SealScanFails
  <2>4. ~(sealFile[m].leaves > massifFile[m].leaves)
    <3>1. sealFile[m].leaves <= massifFile[m].leaves
      BY DEF IInv, FilesFit
    <3>2. sealFile[m].leaves \in Nat /\ massifFile[m].leaves \in Nat
      BY TypeFacts DEF IInv, Files
    <3> QED
      BY <3>1, <3>2
  <2> HIDE DEF new
  <2>5. Outcome(new, new, m) = "verified"
    BY <2>2, <2>3, <2>4 DEF Outcome
  <2> QED
    BY <2>5 DEF ServedAfterRestart, new
<1> QED
  BY <1>1, Initially, Inductive, PTL DEF Spec

(* The replicator serves what it has replaced. *)
THEOREM Serves == Spec => []ServesWhatItReplaced
<1>1. IInv => ServesWhatItReplaced
  <2> SUFFICES ASSUME IInv, NEW m \in Massifs, replaced.seal[m] # NoFile
               PROVE  /\ ServedTo(Replicator, m)
                      /\ GetMassif(massifDir[Replicator], m) = replaced.massif[m]
                      /\ GetSeal(sealDir[Replicator], m) = replaced.seal[m]
    BY DEF ServesWhatItReplaced
  <2> DEFINE mdir == massifDir[Replicator]
             sdir == sealDir[Replicator]
  <2>1. /\ mdir.known /\ sdir.known /\ m \in mdir.paths
        /\ mdir.read[m] = replaced.massif[m] /\ sdir.read[m] = replaced.seal[m]
        /\ replaced.massif[m].form = "whole" /\ replaced.seal[m].form = "whole"
        /\ replaced.seal[m].leaves <= replaced.massif[m].leaves
    BY DEF IInv, Cached
  <2>2. GetMassif(mdir, m) = replaced.massif[m]
    BY <2>1 DEF GetMassif, ReadMassifDirEntry, HasHeader
  <2>3. GetSeal(sdir, m) = replaced.seal[m] /\ ~SealScanFails(sdir)
    BY <2>1 DEF GetSeal, ReadSealDirEntry, SealScanFails
  <2>4. ~(replaced.seal[m].leaves > replaced.massif[m].leaves)
    <3>1. replaced.seal[m].leaves \in Nat /\ replaced.massif[m].leaves \in Nat
      BY TypeFacts DEF IInv, Files
    <3> QED
      BY <2>1, <3>1
  <2> HIDE DEF mdir, sdir
  <2>5. Outcome(mdir, sdir, m) = "verified"
    BY <2>1, <2>2, <2>3, <2>4 DEF Outcome
  <2> QED
    BY <2>2, <2>3, <2>5 DEF ServedTo, mdir, sdir
<1> QED
  BY <1>1, Initially, Inductive, PTL DEF Spec
=============================================================================
