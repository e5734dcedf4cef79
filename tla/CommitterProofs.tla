-------------------------- MODULE CommitterProofs --------------------------
(***************************************************************************)
(* What module Committer promises for any number of writers, any massif    *)
(* size and any interleaving, proved from an inductive invariant.          *)
(*                                                                         *)
(* The store only protects a blob by its etag.  The invariant says why     *)
(* that is enough: a context whose precondition the store would accept     *)
(* extends what is stored under its path, and the massifs before it are    *)
(* full.                                                                   *)
(***************************************************************************)
EXTENDS Committer, FiniteSetTheorems, TLAPS

(* The contexts whose content may yet reach the store *)
Live(w) == pc[w] \in {"open"} \cup InFlight
InPlay == {mc[w] : w \in {v \in Writers : Live(v)}} \cup late

(* The contexts that have been listed and not read *)
Listed == {mc[w] : w \in {v \in Writers : pc[v] = "listed"}}

Filled(n) == \A j \in 0 .. n - 1 : Full(j)

Extends(s, t) == Len(t) <= Len(s) /\ \A k \in 1 .. Len(t) : s[k] = t[k]

LastLeafId(s, id) == s # << >> => id = s[Len(s)]

EtagsFresh ==
  /\ \A i \in DOMAIN blobs : blobs[i].etag \in 1 .. nextEtag - 1
  /\ \A i, j \in DOMAIN blobs : blobs[i].etag = blobs[j].etag => i = j

StoreOK ==
  /\ EtagsFresh
  /\ OnlyLastHasRoom
  /\ HeadersLocate
  /\ \A i \in DOMAIN blobs : LastLeafId(blobs[i].leaves, blobs[i].lastID)

(* What a listed but unread context knows *)
ListedOK(c) ==
  /\ c.path \in DOMAIN blobs
  /\ c.count = c.path + 1
  /\ c.etag \in 1 .. nextEtag - 1
  /\ ~c.creating

ContextOK(c) ==
  /\ Len(c.leaves) <= MassifLeaves
  /\ c.index = c.path
  /\ c.tagFirst = MassifFirstLeaf(c.path)
  /\ LastLeafId(c.leaves, c.lastID)
  /\ c.creating => c.etag = NoEtag /\ Filled(c.path)
  /\ ~c.creating =>
       /\ c.etag \in 1 .. nextEtag - 1
       /\ c.path \in DOMAIN blobs
       /\ blobs[c.path].etag = c.etag => Extends(c.leaves, blobs[c.path].leaves)

IInv ==
  /\ TypeOK
  /\ StoreOK
  /\ \A c \in Listed : ListedOK(c)
  /\ \A c \in InPlay : ContextOK(c)
  /\ \A w \in Writers : pc[w] = "stored" => Leaves(mc[w].leaves) \subseteq Logged
  /\ AckedDurable

-----------------------------------------------------------------------------
(* Type correctness *)

(* The context of a writer that has read nothing is a context.             *)
LEMMA NoContextType == NoContext \in MassifContext
<1>1. << >> \in Seq(Nat)
  OBVIOUS
<1> QED
  BY <1>1 DEF NoContext, MassifContext, NoEtag

(* So is the one of the first massif.                                      *)
LEMMA CreateFirstType == createFirstMassifContext \in MassifContext
  BY NoContextType DEF createFirstMassifContext, MassifContext

(* A blob that is read gives a context.                                    *)
LEMMA ReadBlobType ==
  ASSUME NEW c \in MassifContext, NEW b \in Blob
  PROVE  ReadBlob(c, b) \in MassifContext
<1>1. MassifFirstLeaf(b.index) \in Nat
  BY MassifLeavesAssumption DEF Blob, MassifFirstLeaf
<1> QED
  BY <1>1 DEF ReadBlob, Blob, MassifContext

(* Starting the next massif gives a context.                               *)
LEMMA StartNextType ==
  ASSUME NEW c \in MassifContext
  PROVE  StartNextMassif(c) \in MassifContext
<1>1. RangeCount(c) \in Nat
  BY DEF RangeCount, MassifContext
<1>2. << >> \in Seq(Nat)
  OBVIOUS
<1>3. c.index + 1 \in Nat /\ NoEtag \in Nat
  BY DEF MassifContext, NoEtag
<1> QED
  BY <1>1, <1>2, <1>3 DEF StartNextMassif, MassifContext

(* Adding a leaf gives a context.                                          *)
LEMMA AddLeafType ==
  ASSUME NEW c \in MassifContext, NEW id \in Nat
  PROVE  [c EXCEPT !.leaves = Append(@, id), !.lastID = id] \in MassifContext
<1>1. Append(c.leaves, id) \in Seq(Nat)
  BY DEF MassifContext
<1> QED
  BY <1>1 DEF MassifContext

(* What the listing tells of a massif is a context.                        *)
LEMMA ListedType ==
  ASSUME NEW p \in Nat, NEW n \in Nat, NEW e \in Nat
  PROVE  [NoContext EXCEPT !.path = p, !.count = n, !.etag = e] \in MassifContext
  BY NoContextType DEF MassifContext

(* Ids are numbers.                                                        *)
LEMMA LeavesType ==
  ASSUME NEW s \in Seq(Nat)
  PROVE  Leaves(s) \subseteq Nat
  BY DEF Leaves

(* A put leaves a store of massif blobs.                                   *)
LEMMA PutType ==
  ASSUME TypeOK, NEW c \in MassifContext, Put(c)
  PROVE  /\ DOMAIN blobs' = DOMAIN blobs \cup {c.path}
         /\ DOMAIN blobs' \subseteq Nat
         /\ \A p \in DOMAIN blobs' : blobs'[p] \in Blob
         /\ nextEtag' \in Nat \ {0}
<1>1. Stored(c) \in Blob
  BY DEF Stored, TypeOK, MassifContext, Blob
<1>2. c.path \in Nat
  BY DEF MassifContext
<1> QED
  BY <1>1, <1>2 DEF Put, TypeOK

(* Every step keeps the types.                                             *)
LEMMA TypeStep == TypeOK /\ [Next]_vars => TypeOK'
<1> SUFFICES ASSUME TypeOK, [Next]_vars PROVE TypeOK'
  OBVIOUS
<1> USE DEF TypeOK, InFlight, ids
<1>1. ASSUME NEW w \in Writers, GetLastMassif(w)
      PROVE  TypeOK'
  <2>1. CASE blobs = [p \in {} |-> 0]
    BY <1>1, <2>1, CreateFirstType DEF GetLastMassif, store
  <2>2. CASE blobs # [p \in {} |-> 0]
    <3>1. PICK last \in DOMAIN blobs :
            /\ \A p \in DOMAIN blobs : p <= last
            /\ pc' = [pc EXCEPT ![w] = "listed"]
            /\ mc' = [mc EXCEPT ![w] =
                       [NoContext EXCEPT !.path = last,
                                         !.count = Cardinality(DOMAIN blobs),
                                         !.etag = blobs[last].etag]]
      BY <1>1, <2>2 DEF GetLastMassif
    <3>2. Cardinality(DOMAIN blobs) \in Nat
      <4>1. DOMAIN blobs \subseteq 0 .. last
        BY <3>1
      <4>2. IsFiniteSet(0 .. last)
        BY FS_Interval
      <4>3. IsFiniteSet(DOMAIN blobs)
        BY <4>1, <4>2, FS_Subset
      <4> QED
        BY <4>3, FS_CardinalityType
    <3>3. blobs[last].etag \in Nat /\ last \in Nat
      BY DEF Blob
    <3>4. [NoContext EXCEPT !.path = last, !.count = Cardinality(DOMAIN blobs),
                            !.etag = blobs[last].etag] \in MassifContext
      BY <3>2, <3>3, ListedType
    <3> QED
      BY <1>1, <3>1, <3>4 DEF GetLastMassif, store
  <2> QED
    BY <2>1, <2>2
<1>2. ASSUME NEW w \in Writers, GetCurrentContext(w)
      PROVE  TypeOK'
  <2> DEFINE c == ReadBlob(mc[w], blobs[mc[w].path])
  <2>1. CASE /\ mc[w].path \in DOMAIN blobs
             /\ mc' = [mc EXCEPT ![w] = IF HasSpace(c) THEN c
                                        ELSE StartNextMassif(c)]
             /\ pc' = [pc EXCEPT ![w] = "open"]
    <3>1. c \in MassifContext
      BY <2>1, ReadBlobType
    <3>2. StartNextMassif(c) \in MassifContext
      BY <3>1, StartNextType
    <3> HIDE DEF c
    <3> QED
      BY <1>2, <2>1, <3>1, <3>2 DEF GetCurrentContext, store
  <2>2. CASE /\ mc' = [mc EXCEPT ![w] = NoContext]
             /\ pc' = [pc EXCEPT ![w] = "idle"]
    BY <1>2, <2>2, NoContextType DEF GetCurrentContext, store
  <2> HIDE DEF TypeOK, c
  <2> QED
    BY <1>2, <2>1, <2>2 DEF GetCurrentContext, c
<1>3. ASSUME NEW w \in Writers, AddHashedLeaf(w)
      PROVE  TypeOK'
  <2>1. PICK id \in made[w] :
          /\ mc' = [mc EXCEPT ![w].leaves = Append(@, id), ![w].lastID = id]
          /\ made' = [made EXCEPT ![w] = @ \ {id}]
    BY <1>3 DEF AddHashedLeaf
  <2>2. id \in Nat
    OBVIOUS
  <2>3. [mc[w] EXCEPT !.leaves = Append(@, id), !.lastID = id] \in MassifContext
    BY <2>2, AddLeafType
  <2>4. mc' = [mc EXCEPT ![w] =
                [mc[w] EXCEPT !.leaves = Append(@, id), !.lastID = id]]
    BY <2>1
  <2>5. made' \in [Writers -> SUBSET Nat]
    BY <2>1
  <2>6. mc' \in [Writers -> MassifContext]
    BY <2>3, <2>4
  <2> QED
    BY <1>3, <2>5, <2>6 DEF AddHashedLeaf, store
<1>4. ASSUME NEW w \in Writers, CommitContext(w)
      PROVE  TypeOK'
  BY <1>4 DEF CommitContext, store
<1>5. ASSUME NEW w \in Writers, Deliver(w)
      PROVE  TypeOK'
  <2>1. CASE Put(mc[w])
    BY <1>5, <2>1, PutType DEF Deliver
  <2>2. CASE UNCHANGED store
    BY <1>5, <2>2 DEF Deliver, store
  <2> HIDE DEF TypeOK
  <2> QED
    BY <1>5, <2>1, <2>2 DEF Deliver
<1>6. ASSUME NEW w \in Writers, Committed(w)
      PROVE  TypeOK'
  <2>1. Leaves(mc[w].leaves) \subseteq Nat
    BY LeavesType DEF MassifContext
  <2> QED
    BY <1>6, <2>1 DEF Committed, store
<1>7. ASSUME NEW w \in Writers, Refused(w)
      PROVE  TypeOK'
  BY <1>7 DEF Refused, store
<1>8. ASSUME NEW w \in Writers, GiveUp(w)
      PROVE  TypeOK'
  BY <1>8 DEF GiveUp, store
<1>9. ASSUME NEW w \in Writers, Discard(w)
      PROVE  TypeOK'
  BY <1>9, NoContextType DEF Discard, store
<1>12. ASSUME NEW w \in Writers, MakeId(w)
       PROVE  TypeOK'
  BY <1>12, BoundsAssumption DEF MakeId, NextID, Id, store
<1>10. ASSUME NEW c \in late, LatePut(c)
       PROVE  TypeOK'
  BY <1>10, PutType DEF LatePut
<1>11. CASE UNCHANGED vars
  BY <1>11 DEF vars
<1> QED
  BY <1>1, <1>2, <1>3, <1>4, <1>5, <1>6, <1>7, <1>8, <1>9, <1>10, <1>11, <1>12
     DEF Next, WriterStep

(* Every variable has its type, in every reachable state. *)
THEOREM TypeCorrect == Spec => []TypeOK
<1>1. Init => TypeOK
  BY NoContextType DEF Init, TypeOK, InFlight
<1> QED
  BY <1>1, TypeStep, PTL DEF Spec

-----------------------------------------------------------------------------
(* What a successful put does, whoever sent it and whenever it arrives *)

(* What is being put, or may be put later, is a context.                   *)
LEMMA InPlayType ==
  ASSUME TypeOK PROVE InPlay \subseteq MassifContext
  BY DEF InPlay, TypeOK

(* An accepted update extends the leaves it replaces. *)
LEMMA AcceptedExtends ==
  ASSUME IInv, NEW c \in InPlay, Precondition(c), c.path \in DOMAIN blobs
  PROVE  /\ ~c.creating
         /\ Extends(c.leaves, blobs[c.path].leaves)
<1>1. ContextOK(c) /\ c \in MassifContext
  BY InPlayType DEF IInv
<1>2. ~c.creating
  BY DEF Precondition
<1>3. blobs[c.path].etag = c.etag
  BY <1>1, <1>2 DEF Precondition, ContextOK, NoEtag
<1> QED
  BY <1>1, <1>2, <1>3 DEF ContextOK

(* Leaves extend themselves.                                               *)
LEMMA ExtendsReflexive ==
  ASSUME NEW s \in Seq(Nat) PROVE Extends(s, s)
  BY DEF Extends

(* No put removes, moves or replaces a leaf. *)
LEMMA PutGrows ==
  ASSUME IInv, NEW c \in InPlay, Put(c)
  PROVE  \A i \in DOMAIN blobs :
           /\ i \in DOMAIN blobs'
           /\ Extends(blobs'[i].leaves, blobs[i].leaves)
<1> SUFFICES ASSUME NEW i \in DOMAIN blobs
             PROVE  i \in DOMAIN blobs' /\ Extends(blobs'[i].leaves, blobs[i].leaves)
  OBVIOUS
<1>1. c \in MassifContext /\ TypeOK
  BY InPlayType DEF IInv
<1>2. i \in DOMAIN blobs'
  BY DEF Put
<1>3. CASE i = c.path
  BY <1>2, <1>3, AcceptedExtends DEF Put, Stored
<1>4. CASE i # c.path
  <2>1. blobs'[i] = blobs[i] /\ blobs[i].leaves \in Seq(Nat)
    BY <1>1, <1>2, <1>4 DEF Put, TypeOK, Blob
  <2> QED
    BY <1>2, <2>1, ExtendsReflexive
<1> QED
  BY <1>3, <1>4

(* A full massif stays full.                                               *)
LEMMA PutKeepsFull ==
  ASSUME IInv, NEW c \in InPlay, Put(c), NEW i, Full(i)
  PROVE  Full(i)'
<1>1. c \in MassifContext /\ TypeOK /\ ContextOK(c) /\ i \in DOMAIN blobs
  BY InPlayType DEF IInv, Full
<1>2. i \in DOMAIN blobs'
  BY <1>1, PutGrows
<1>3. CASE i = c.path
  <2>1. Len(c.leaves) >= MassifLeaves
    BY <1>1, <1>3, AcceptedExtends DEF Put, Extends, Full
  <2>2. Len(c.leaves) = MassifLeaves
    BY <1>1, <2>1, MassifLeavesAssumption DEF ContextOK, MassifContext
  <2> QED
    BY <1>2, <1>3, <2>2 DEF Put, Stored, Full
<1>4. CASE i # c.path
  BY <1>1, <1>2, <1>4 DEF Put, Full
<1> QED
  BY <1>3, <1>4

(* A put keeps what is known of the store.                                 *)
LEMMA PutStoreOK ==
  ASSUME IInv, NEW c \in InPlay, Put(c)
  PROVE  StoreOK'
<1>1. c \in MassifContext /\ TypeOK /\ ContextOK(c) /\ StoreOK
  BY InPlayType DEF IInv
<1>2. /\ DOMAIN blobs' = DOMAIN blobs \cup {c.path}
      /\ blobs'[c.path] = Stored(c)
      /\ \A i \in DOMAIN blobs : i # c.path => blobs'[i] = blobs[i]
      /\ nextEtag' = nextEtag + 1
  BY DEF Put
<1>3. EtagsFresh'
  BY <1>1, <1>2 DEF EtagsFresh, StoreOK, Stored, TypeOK
<1>4. OnlyLastHasRoom'
  <2> SUFFICES ASSUME NEW i \in DOMAIN blobs'
               PROVE  /\ Len(blobs'[i].leaves) <= MassifLeaves
                      /\ \A j \in 0 .. i - 1 : Full(j)'
    BY DEF OnlyLastHasRoom
  <2>1. Len(blobs'[i].leaves) <= MassifLeaves
    BY <1>1, <1>2 DEF StoreOK, OnlyLastHasRoom, Stored, ContextOK
  <2>2. Filled(i)
    BY <1>1, <1>2 DEF StoreOK, OnlyLastHasRoom, ContextOK, Filled
  <2> QED
    BY <2>1, <2>2, PutKeepsFull DEF Filled
<1>5. HeadersLocate'
  BY <1>1, <1>2 DEF HeadersLocate, StoreOK, Stored, ContextOK
<1>6. \A i \in DOMAIN blobs' : LastLeafId(blobs'[i].leaves, blobs'[i].lastID)
  BY <1>1, <1>2 DEF StoreOK, Stored, ContextOK
<1> QED
  BY <1>3, <1>4, <1>5, <1>6 DEF StoreOK

(* A put keeps what is known of the contexts of the other writers.         *)
LEMMA PutKeepsContexts ==
  ASSUME IInv, NEW c \in InPlay, Put(c), NEW d \in MassifContext
  PROVE  /\ ContextOK(d) => ContextOK(d)'
         /\ ListedOK(d) => ListedOK(d)'
<1>1. c \in MassifContext /\ TypeOK
  BY InPlayType DEF IInv
<1>2. /\ DOMAIN blobs' = DOMAIN blobs \cup {c.path}
      /\ blobs'[c.path].etag = nextEtag
      /\ \A i \in DOMAIN blobs : i # c.path => blobs'[i] = blobs[i]
      /\ nextEtag' = nextEtag + 1
  BY DEF Put, Stored
<1>3. ListedOK(d) => ListedOK(d)'
  BY <1>1, <1>2 DEF ListedOK, TypeOK
<1>4. ASSUME ContextOK(d) PROVE ContextOK(d)'
  <2>1. CASE d.creating
    <3>1. Filled(d.path)'
      BY <1>4, <2>1, PutKeepsFull DEF ContextOK, Filled
    <3> QED
      BY <1>4, <2>1, <3>1 DEF ContextOK
  <2>2. CASE ~d.creating
    BY <1>1, <1>2, <1>4, <2>2 DEF ContextOK, TypeOK
  <2> QED
    BY <2>1, <2>2
<1> QED
  BY <1>3, <1>4

(* What was logged stays logged, and what is put is logged.                *)
LEMMA PutLogged ==
  ASSUME IInv, NEW c \in InPlay, Put(c)
  PROVE  Logged \subseteq Logged' /\ Leaves(c.leaves) \subseteq Logged'
<1>1. c \in MassifContext /\ TypeOK
  BY InPlayType DEF IInv
<1>2. ASSUME NEW x \in Logged PROVE x \in Logged'
  <2>1. PICK i \in DOMAIN blobs : x \in Leaves(blobs[i].leaves)
    BY DEF Logged
  <2>2. PICK k \in 1 .. Len(blobs[i].leaves) : x = blobs[i].leaves[k]
    BY <2>1 DEF Leaves
  <2>3. i \in DOMAIN blobs' /\ Extends(blobs'[i].leaves, blobs[i].leaves)
    BY PutGrows
  <2>4. blobs[i].leaves \in Seq(Nat) /\ blobs'[i].leaves \in Seq(Nat)
    BY <1>1, <2>3, PutType DEF TypeOK, Blob
  <2>5. k \in 1 .. Len(blobs'[i].leaves) /\ x = blobs'[i].leaves[k]
    BY <2>2, <2>3, <2>4 DEF Extends
  <2> QED
    BY <2>3, <2>5 DEF Logged, Leaves
<1>3. Leaves(c.leaves) \subseteq Logged'
  <2>1. c.path \in DOMAIN blobs' /\ blobs'[c.path].leaves = c.leaves
    BY DEF Put, Stored
  <2> QED
    BY <2>1 DEF Logged
<1> QED
  BY <1>2, <1>3

-----------------------------------------------------------------------------
(* The steps that leave the store alone *)

(* What is known of a store that does not change does not change.          *)
LEMMA SameStore ==
  ASSUME IInv, UNCHANGED store
  PROVE  /\ StoreOK'
         /\ Logged' = Logged
         /\ \A d : ContextOK(d) => ContextOK(d)'
         /\ \A d : ListedOK(d) => ListedOK(d)'
  BY DEF IInv, store, StoreOK, EtagsFresh, OnlyLastHasRoom, Full, HeadersLocate,
         Logged, ContextOK, ListedOK, Filled

(* The last blob of the listing is at the path its number says *)
LEMMA ListedCount ==
  ASSUME IInv, NEW last \in DOMAIN blobs, \A p \in DOMAIN blobs : p <= last
  PROVE  Cardinality(DOMAIN blobs) = last + 1
<1>1. last \in Nat /\ DOMAIN blobs \subseteq Nat
  BY DEF IInv, TypeOK
<1>2. DOMAIN blobs \subseteq 0 .. last
  BY <1>1
<1>3. 0 .. last - 1 \subseteq DOMAIN blobs
  BY DEF IInv, StoreOK, OnlyLastHasRoom, Full
<1>4. \A x : x \in 0 .. last <=> x \in 0 .. last - 1 \/ x = last
  BY <1>1
<1>5. DOMAIN blobs = 0 .. last
  BY <1>2, <1>3, <1>4
<1>6. Cardinality(0 .. last) = last + 1
  BY <1>1, FS_Interval
<1> QED
  BY <1>5, <1>6

(* What reading the listed blob gives, and what starting the next gives. *)
LEMMA ReadOK ==
  ASSUME IInv, NEW m \in MassifContext, ListedOK(m),
         blobs[m.path].etag = m.etag
  PROVE  LET c == ReadBlob(m, blobs[m.path])
         IN  /\ HasSpace(c) => ContextOK(c)
             /\ ~HasSpace(c) => ContextOK(StartNextMassif(c))
<1> DEFINE b == blobs[m.path]
           c == ReadBlob(m, b)
<1>1. /\ m.path \in DOMAIN blobs /\ b \in Blob /\ m.path \in Nat
      /\ b.index = m.path /\ b.tagFirst = MassifFirstLeaf(m.path)
      /\ Len(b.leaves) <= MassifLeaves
      /\ LastLeafId(b.leaves, b.lastID)
      /\ Filled(m.path)
  BY DEF IInv, StoreOK, HeadersLocate, OnlyLastHasRoom, ListedOK, TypeOK, Filled
<1>2. c \in MassifContext
  BY <1>1, ReadBlobType
<1>3. /\ c.path = m.path /\ c.count = m.count /\ c.etag = m.etag
      /\ c.creating = m.creating /\ c.index = b.index
      /\ c.firstLeaf = MassifFirstLeaf(b.index)
      /\ c.lastID = b.lastID /\ c.tagFirst = b.tagFirst /\ c.leaves = b.leaves
  BY DEF ReadBlob, MassifContext
<1>4. ASSUME HasSpace(c) PROVE ContextOK(c)
  <2>1. Extends(b.leaves, b.leaves)
    BY <1>1, ExtendsReflexive DEF Blob
  <2> QED
    BY <1>1, <1>3, <2>1 DEF ContextOK, ListedOK
<1>5. ASSUME ~HasSpace(c) PROVE ContextOK(StartNextMassif(c))
  <2>1. Len(b.leaves) = MassifLeaves
    BY <1>1, <1>3, <1>5, MassifLeavesAssumption DEF HasSpace, Blob
  <2>2. RangeCount(c) = MassifFirstLeaf(m.path + 1)
    BY <1>1, <1>3, <2>1, MassifLeavesAssumption DEF RangeCount, MassifFirstLeaf
  <2> DEFINE n == StartNextMassif(c)
  <2>3. /\ n.path = m.path + 1 /\ n.index = m.path + 1 /\ n.etag = NoEtag
        /\ n.creating = TRUE /\ n.tagFirst = RangeCount(c) /\ n.leaves = << >>
    BY <1>1, <1>2, <1>3 DEF StartNextMassif, ListedOK, MassifContext
  <2>4. Filled(m.path + 1)
    BY <1>1, <2>1 DEF Filled, Full
  <2> HIDE DEF n
  <2>5. ContextOK(n)
    BY <2>2, <2>3, <2>4, MassifLeavesAssumption DEF ContextOK, LastLeafId
  <2> QED
    BY <2>5 DEF n
<1> QED
  BY <1>4, <1>5

(* A leaf added to the context of a writer keeps what is known of it.      *)
LEMMA AddLeafOK ==
  ASSUME IInv, NEW m \in MassifContext, ContextOK(m), HasSpace(m), NEW id \in Nat
  PROVE  ContextOK([m EXCEPT !.leaves = Append(@, id), !.lastID = id])
<1> DEFINE n == [m EXCEPT !.leaves = Append(@, id), !.lastID = id]
<1>1. /\ n.path = m.path /\ n.etag = m.etag /\ n.creating = m.creating
      /\ n.index = m.index /\ n.tagFirst = m.tagFirst
      /\ n.leaves = Append(m.leaves, id) /\ n.lastID = id
      /\ m.leaves \in Seq(Nat)
  BY DEF MassifContext
<1> HIDE DEF n
<1>2. /\ Len(n.leaves) = Len(m.leaves) + 1 /\ n.leaves[Len(n.leaves)] = id
      /\ \A k \in 1 .. Len(m.leaves) : n.leaves[k] = m.leaves[k]
  BY <1>1
<1>3. Len(n.leaves) <= MassifLeaves
  BY <1>1, <1>2, MassifLeavesAssumption DEF HasSpace
<1>4. ASSUME NEW t \in Seq(Nat), Extends(m.leaves, t) PROVE Extends(n.leaves, t)
  BY <1>1, <1>2, <1>4 DEF Extends
<1>5. m.path \in DOMAIN blobs => blobs[m.path].leaves \in Seq(Nat)
  BY DEF IInv, TypeOK, Blob
<1>6. ContextOK(n)
  BY <1>1, <1>2, <1>3, <1>4, <1>5 DEF ContextOK, LastLeafId
<1> QED
  BY <1>6 DEF n

-----------------------------------------------------------------------------
(* The invariant *)

(* An action that leaves the store alone and gives writer w a context that *)
(* is in order keeps the invariant.                                        *)
LEMMA WriterKeeps ==
  ASSUME IInv, TypeOK', UNCHANGED <<store, acked>>, NEW w \in Writers,
         \A v \in Writers \ {w} : pc'[v] = pc[v] /\ mc'[v] = mc[v],
         pc'[w] = "listed" => ListedOK(mc'[w]),
         Live(w)' => ContextOK(mc'[w]),
         pc'[w] # "stored",
         \A c \in late' : c \in late \/ ContextOK(c)
  PROVE  IInv'
<1>1. /\ StoreOK' /\ Logged' = Logged
      /\ \A d : ContextOK(d) => ContextOK(d)'
      /\ \A d : ListedOK(d) => ListedOK(d)'
  BY SameStore
<1>2. AckedDurable'
  BY <1>1 DEF IInv, AckedDurable
<1>3. ASSUME NEW c \in Listed' PROVE ListedOK(c)'
  <2>1. PICK v \in Writers : pc'[v] = "listed" /\ c = mc'[v]
    BY <1>3 DEF Listed
  <2>2. v # w => c \in Listed
    BY <2>1 DEF Listed
  <2>3. ListedOK(c)
    BY <2>1, <2>2 DEF IInv
  <2> QED
    BY <1>1, <2>3
<1>5. ASSUME NEW c \in InPlay' PROVE ContextOK(c)'
  <2>1. ContextOK(c)
    <3>1. CASE c \in late'
      BY <3>1 DEF IInv, InPlay
    <3>2. CASE c \notin late'
      <4>1. PICK v \in Writers : Live(v)' /\ c = mc'[v]
        BY <1>5, <3>2 DEF InPlay
      <4>2. v # w => c \in InPlay
        BY <4>1 DEF InPlay, Live
      <4> QED
        BY <4>1, <4>2 DEF IInv
    <3> QED
      BY <3>1, <3>2
  <2> QED
    BY <1>1, <2>1
<1>6. ASSUME NEW v \in Writers, pc'[v] = "stored"
      PROVE  Leaves(mc'[v].leaves) \subseteq Logged'
  BY <1>1, <1>6 DEF IInv
<1> QED
  BY <1>1, <1>2, <1>3, <1>5, <1>6 DEF IInv

(* A put that succeeds keeps the invariant. *)
LEMMA PutKeeps ==
  ASSUME IInv, TypeOK', NEW c \in InPlay, Put(c),
         UNCHANGED <<mc, late, acked>>,
         \A v \in Writers : pc'[v] = pc[v] \/ (pc[v] \in InFlight /\ pc'[v] = "stored"
                                              /\ c = mc[v])
  PROVE  IInv'
<1>1. TypeOK
  BY DEF IInv
<1>2. StoreOK'
  BY PutStoreOK
<1>3. ASSUME NEW d \in Listed' PROVE ListedOK(d)'
  <2>1. d \in Listed
    BY <1>3 DEF Listed
  <2>2. d \in MassifContext /\ ListedOK(d)
    BY <1>1, <2>1 DEF IInv, Listed, TypeOK
  <2> QED
    BY <2>2, PutKeepsContexts
<1>4. ASSUME NEW d \in InPlay' PROVE ContextOK(d)'
  <2>1. d \in InPlay
    BY <1>4 DEF InPlay, Live, InFlight
  <2>2. d \in MassifContext /\ ContextOK(d)
    BY <1>1, <2>1, InPlayType DEF IInv
  <2> QED
    BY <2>2, PutKeepsContexts
<1>5. ASSUME NEW v \in Writers, pc'[v] = "stored"
      PROVE  Leaves(mc'[v].leaves) \subseteq Logged'
  BY <1>5, PutLogged DEF IInv
<1>6. AckedDurable'
  BY PutLogged DEF IInv, AckedDurable
<1> QED
  BY <1>2, <1>3, <1>4, <1>5, <1>6 DEF IInv

(* An empty store has nothing to be known of.                              *)
LEMMA InitOK == Init => IInv
<1> SUFFICES ASSUME Init PROVE IInv
  OBVIOUS
<1>1. TypeOK
  BY NoContextType DEF Init, TypeOK, InFlight
<1>2. InPlay = {} /\ Listed = {}
  BY DEF Init, InPlay, Listed, Live, InFlight
<1>3. StoreOK
  BY DEF Init, StoreOK, EtagsFresh, OnlyLastHasRoom, HeadersLocate
<1> QED
  BY <1>1, <1>2, <1>3 DEF Init, IInv, AckedDurable

(* Every step keeps the invariant.                                         *)
LEMMA NextOK == IInv /\ [Next]_vars => IInv'
<1> SUFFICES ASSUME IInv, [Next]_vars PROVE IInv'
  OBVIOUS
<1>1. TypeOK /\ TypeOK'
  BY TypeStep DEF IInv
<1>2. ASSUME NEW w \in Writers, GetLastMassif(w) PROVE IInv'
  <2>1. CASE blobs = [p \in {} |-> 0]
    <3>1. mc'[w] = createFirstMassifContext /\ pc'[w] = "open"
      BY <1>1, <1>2, <2>1 DEF GetLastMassif, TypeOK
    <3>2. ContextOK(createFirstMassifContext)
      BY MassifLeavesAssumption
         DEF ContextOK, createFirstMassifContext, NoContext, MassifFirstLeaf,
             LastLeafId, Filled
    <3>3. \A v \in Writers \ {w} : pc'[v] = pc[v] /\ mc'[v] = mc[v]
      BY <1>1, <1>2, <2>1 DEF GetLastMassif, TypeOK
    <3>4. UNCHANGED <<store, acked, late>>
      BY <1>2 DEF GetLastMassif
    <3> QED
      BY <1>1, <3>1, <3>2, <3>3, <3>4, WriterKeeps
  <2>2. CASE blobs # [p \in {} |-> 0]
    <3>1. PICK last \in DOMAIN blobs :
            /\ \A p \in DOMAIN blobs : p <= last
            /\ pc' = [pc EXCEPT ![w] = "listed"]
            /\ mc' = [mc EXCEPT ![w] =
                       [NoContext EXCEPT !.path = last,
                                         !.count = Cardinality(DOMAIN blobs),
                                         !.etag = blobs[last].etag]]
      BY <1>2, <2>2 DEF GetLastMassif
    <3> DEFINE m == [NoContext EXCEPT !.path = last,
                                      !.count = Cardinality(DOMAIN blobs),
                                      !.etag = blobs[last].etag]
    <3>2. m.path = last /\ m.count = last + 1 /\ m.etag = blobs[last].etag
          /\ m.creating = FALSE
      BY <3>1, ListedCount DEF NoContext
    <3>3. ListedOK(m)
      BY <3>2 DEF ListedOK, IInv, StoreOK, EtagsFresh
    <3>4. /\ mc'[w] = m /\ pc'[w] = "listed"
          /\ \A v \in Writers \ {w} : pc'[v] = pc[v] /\ mc'[v] = mc[v]
      BY <1>1, <3>1 DEF TypeOK
    <3>5. UNCHANGED <<store, acked, late>>
      BY <1>2 DEF GetLastMassif
    <3>6. ~Live(w)'
      BY <3>4 DEF Live, InFlight
    <3> QED
      BY <1>1, <3>3, <3>4, <3>5, <3>6, WriterKeeps
  <2> QED
    BY <2>1, <2>2
<1>3. ASSUME NEW w \in Writers, GetCurrentContext(w) PROVE IInv'
  <2> DEFINE c == ReadBlob(mc[w], blobs[mc[w].path])
  <2>1. mc[w] \in MassifContext /\ ListedOK(mc[w])
    BY <1>1, <1>3 DEF GetCurrentContext, IInv, Listed, TypeOK
  <2>2. UNCHANGED <<store, acked, late>>
    BY <1>3 DEF GetCurrentContext
  <2>3. CASE /\ blobs[mc[w].path].etag = mc[w].etag
             /\ pc' = [pc EXCEPT ![w] = "open"]
             /\ mc' = [mc EXCEPT ![w] = IF HasSpace(c) THEN c
                                        ELSE StartNextMassif(c)]
    <3>1. ContextOK(IF HasSpace(c) THEN c ELSE StartNextMassif(c))
      BY <2>1, <2>3, ReadOK
    <3> HIDE DEF c
    <3>2. /\ pc'[w] = "open"
          /\ mc'[w] = IF HasSpace(c) THEN c ELSE StartNextMassif(c)
          /\ \A v \in Writers \ {w} : pc'[v] = pc[v] /\ mc'[v] = mc[v]
      BY <1>1, <2>3 DEF TypeOK
    <3>3. ContextOK(mc'[w])
      BY <3>1, <3>2
    <3> QED
      BY <1>1, <2>2, <3>2, <3>3, WriterKeeps
  <2>4. CASE /\ pc' = [pc EXCEPT ![w] = "idle"]
             /\ mc' = [mc EXCEPT ![w] = NoContext]
    <3>1. /\ pc'[w] = "idle" /\ ~Live(w)'
          /\ \A v \in Writers \ {w} : pc'[v] = pc[v] /\ mc'[v] = mc[v]
      BY <1>1, <2>4 DEF TypeOK, Live, InFlight
    <3> QED
      BY <1>1, <2>2, <3>1, WriterKeeps
  <2> QED
    BY <1>3, <2>3, <2>4 DEF GetCurrentContext
<1>4. ASSUME NEW w \in Writers, AddHashedLeaf(w) PROVE IInv'
  <2>1. PICK id \in made[w] :
          mc' = [mc EXCEPT ![w].leaves = Append(@, id), ![w].lastID = id]
    BY <1>4 DEF AddHashedLeaf
  <2>2. id \in Nat
    BY <1>1 DEF TypeOK
  <2>3. mc[w] \in MassifContext /\ ContextOK(mc[w]) /\ HasSpace(mc[w])
    BY <1>1, <1>4 DEF AddHashedLeaf, IInv, InPlay, Live, TypeOK
  <2>4. /\ mc'[w] = [mc[w] EXCEPT !.leaves = Append(@, id), !.lastID = id]
        /\ pc'[w] = "open"
        /\ \A v \in Writers \ {w} : pc'[v] = pc[v] /\ mc'[v] = mc[v]
        /\ UNCHANGED <<store, acked, late>>
    BY <1>1, <1>4, <2>1 DEF AddHashedLeaf, TypeOK
  <2>5. ContextOK(mc'[w])
    BY <2>2, <2>3, <2>4, AddLeafOK
  <2> QED
    BY <1>1, <2>4, <2>5, WriterKeeps
<1>5. ASSUME NEW w \in Writers,
             CommitContext(w) \/ Refused(w) \/ GiveUp(w) \/ Discard(w)
      PROVE  IInv'
  <2>1. Live(w) /\ mc[w] \in InPlay /\ ContextOK(mc[w])
    BY <1>5 DEF CommitContext, Refused, GiveUp, Discard, Live, InFlight, InPlay, IInv
  <2>2. CASE Discard(w)
    <3>1. /\ pc'[w] = "idle" /\ ~Live(w)'
          /\ \A v \in Writers \ {w} : pc'[v] = pc[v] /\ mc'[v] = mc[v]
          /\ UNCHANGED <<store, acked, late>>
      BY <1>1, <2>2 DEF Discard, TypeOK, Live, InFlight
    <3> QED
      BY <1>1, <3>1, WriterKeeps
  <2>3. CASE ~Discard(w)
    <3>1. /\ pc'[w] \in {"sent", "open"} /\ mc' = mc
          /\ \A v \in Writers \ {w} : pc'[v] = pc[v] /\ mc'[v] = mc[v]
          /\ UNCHANGED <<store, acked>>
          /\ \A c \in late' : c \in late \/ c = mc[w]
      BY <1>1, <1>5, <2>3 DEF CommitContext, Refused, GiveUp, TypeOK
    <3>2. ContextOK(mc'[w]) /\ \A c \in late' : c \in late \/ ContextOK(c)
      BY <2>1, <3>1
    <3> QED
      BY <1>1, <3>1, <3>2, WriterKeeps
  <2> QED
    BY <2>2, <2>3
<1>6. ASSUME NEW w \in Writers, Committed(w) PROVE IInv'
  <2>1. /\ StoreOK' /\ Logged' = Logged
        /\ \A d : ContextOK(d) => ContextOK(d)'
        /\ \A d : ListedOK(d) => ListedOK(d)'
    BY <1>6, SameStore DEF Committed
  <2>2. InPlay' = InPlay /\ Listed' = Listed
    BY <1>1, <1>6 DEF Committed, InPlay, Listed, Live, InFlight, TypeOK
  <2>3. AckedDurable'
    BY <1>6, <2>1 DEF Committed, AckedDurable, IInv
  <2>4. \A v \in Writers : pc'[v] = "stored" => Leaves(mc'[v].leaves) \subseteq Logged'
    BY <1>1, <1>6, <2>1 DEF Committed, IInv, TypeOK
  <2> QED
    BY <1>1, <2>1, <2>2, <2>3, <2>4 DEF IInv
<1>7. ASSUME NEW w \in Writers, Deliver(w) PROVE IInv'
  <2>1. Live(w) /\ mc[w] \in InPlay /\ ContextOK(mc[w])
    BY <1>7 DEF Deliver, Live, InPlay, IInv
  <2>2. CASE Put(mc[w]) /\ pc' = [pc EXCEPT ![w] = "stored"]
    <3>1. \A v \in Writers :
            pc'[v] = pc[v] \/ (pc[v] \in InFlight /\ pc'[v] = "stored" /\ mc[w] = mc[v])
      BY <1>1, <1>7, <2>2 DEF Deliver, TypeOK
    <3>2. UNCHANGED <<mc, late, acked>>
      BY <1>7 DEF Deliver
    <3> QED
      BY <1>1, <2>1, <2>2, <3>1, <3>2, PutKeeps
  <2>3. CASE UNCHANGED store /\ pc' = [pc EXCEPT ![w] = "refused"]
    <3>1. /\ pc'[w] = "refused" /\ mc' = mc /\ late' = late /\ acked' = acked
          /\ \A v \in Writers \ {w} : pc'[v] = pc[v] /\ mc'[v] = mc[v]
      BY <1>1, <1>7, <2>3 DEF Deliver, TypeOK
    <3> QED
      BY <1>1, <2>1, <2>3, <3>1, WriterKeeps
  <2> QED
    BY <1>7, <2>2, <2>3 DEF Deliver
<1>8. ASSUME NEW c \in late, LatePut(c) PROVE IInv'
  <2>1. c \in InPlay
    BY DEF InPlay
  <2> QED
    BY <1>1, <1>8, <2>1, PutKeeps DEF LatePut
<1>9. CASE UNCHANGED vars
  <2>1. /\ StoreOK' /\ Logged' = Logged
        /\ \A d : ContextOK(d) => ContextOK(d)'
        /\ \A d : ListedOK(d) => ListedOK(d)'
    BY <1>9, SameStore DEF vars, store
  <2>2. InPlay' = InPlay /\ Listed' = Listed /\ AckedDurable'
    BY <1>9, <2>1 DEF vars, InPlay, Listed, Live, AckedDurable, IInv
  <2> QED
    BY <1>1, <1>9, <2>1, <2>2 DEF vars, IInv
<1>10. ASSUME NEW w \in Writers, MakeId(w) PROVE IInv'
  <2>1. mc[w] \in InPlay /\ ContextOK(mc[w])
    BY <1>10 DEF MakeId, InPlay, Live, IInv
  <2>2. /\ pc'[w] = "open" /\ mc' = mc /\ pc' = pc
        /\ UNCHANGED <<store, acked, late>>
    BY <1>10 DEF MakeId
  <2> QED
    BY <1>1, <2>1, <2>2, WriterKeeps
<1> QED
  BY <1>2, <1>3, <1>4, <1>5, <1>6, <1>7, <1>8, <1>9, <1>10 DEF Next, WriterStep

(* The invariant holds in every reachable state. *)
THEOREM Invariant == Spec => []IInv
  BY InitOK, NextOK, PTL DEF Spec

(* A commit that was acknowledged is never undone. *)
THEOREM Durability == Spec => []AckedDurable
<1>1. IInv => AckedDurable
  BY DEF IInv
<1> QED
  BY <1>1, Invariant, PTL

(* The log has no gap and no massif but the last has room. *)
THEOREM NoGap == Spec => []OnlyLastHasRoom
<1>1. IInv => OnlyLastHasRoom
  BY DEF IInv, StoreOK
<1> QED
  BY <1>1, Invariant, PTL

(* The index and the first index tag of a blob say where it is in the log. *)
THEOREM Located == Spec => []HeadersLocate
<1>1. IInv => HeadersLocate
  BY DEF IInv, StoreOK
<1> QED
  BY <1>1, Invariant, PTL

-----------------------------------------------------------------------------
(* The order of the log.  No id is in it twice, the ids of a writer are in *)
(* log order, a full massif is frozen, and the committer implements the    *)
(* append only log: all from one more inductive                            *)
(* invariant.  Another says that a context without leaves has taken over   *)
(* the last id of the massif before it, which is full and keeps it.        *)

(* x may come before y in the log, if I are the ids of each writer *)
Precedes(I, x, y) == x # y /\ \A w \in Writers : x \in I[w] /\ y \in I[w] => x < y

Sorted(I, s) ==
  \A k \in 1 .. Len(s) : \A j \in 1 .. k - 1 : Precedes(I, s[j], s[k])

AllPrecede(I, s, t) == \A x \in Leaves(s), y \in Leaves(t) : Precedes(I, x, y)

(* The leaves s fit in the blobs b in place of massif n *)
Fits(I, b, s, n) ==
  \A i \in DOMAIN b :
    /\ i < n => AllPrecede(I, b[i].leaves, s)
    /\ n < i => AllPrecede(I, s, b[i].leaves)

(* The ids that were added to a context, or dropped *)
UsedIds == UNION {issued[w] \ made[w] : w \in Writers}

MadeOK ==
  /\ \A w \in Writers : made[w] \subseteq issued[w]
  /\ \A v, w \in Writers : v # w => issued[v] \cap issued[w] = {}
  /\ \A w \in Writers : \A id \in made[w] : \A x \in issued[w] \ made[w] : x < id

ContextOrder(c) ==
  /\ Sorted(issued, c.leaves)
  /\ Leaves(c.leaves) \subseteq UsedIds
  /\ Precondition(c) => Fits(issued, blobs, c.leaves, c.path)

OrderInv ==
  /\ MadeOK
  /\ \A i \in DOMAIN blobs : /\ Sorted(issued, blobs[i].leaves)
                             /\ Leaves(blobs[i].leaves) \subseteq UsedIds
                             /\ Fits(issued, blobs, blobs[i].leaves, i)
  /\ \A c \in InPlay : ContextOrder(c)

-----------------------------------------------------------------------------
(* A context that would be accepted, for a massif that has successors, has *)
(* exactly the leaves of that massif.                                      *)
LEMMA AcceptedOfFull ==
  ASSUME IInv, NEW c \in InPlay, Precondition(c), Full(c.path)
  PROVE  c.leaves = blobs[c.path].leaves
<1>1. c \in MassifContext /\ TypeOK /\ ContextOK(c)
  BY InPlayType DEF IInv
<1>2. blobs[c.path].leaves \in Seq(Nat) /\ c.leaves \in Seq(Nat)
  BY <1>1 DEF TypeOK, Full, Blob, MassifContext
<1>3. Extends(c.leaves, blobs[c.path].leaves)
  BY AcceptedExtends DEF Full
<1>4. Len(c.leaves) = Len(blobs[c.path].leaves)
  BY <1>1, <1>2, <1>3, MassifLeavesAssumption DEF ContextOK, Full, Extends
<1>5. \A k \in 1 .. Len(c.leaves) : c.leaves[k] = blobs[c.path].leaves[k]
  BY <1>3, <1>4 DEF Extends
<1> DEFINE s == c.leaves
           t == blobs[c.path].leaves
<1>6. s \in Seq(Nat) /\ t \in Seq(Nat) /\ Len(s) = Len(t)
      /\ \A k \in 1 .. Len(s) : s[k] = t[k]
  BY <1>2, <1>4, <1>5
<1> HIDE DEF s, t
<1>7. s = t
  BY <1>6
<1> QED
  BY <1>7 DEF s, t

(* Where an accepted context stands: the massifs before it are full, and if *)
(* it has a successor it is full itself.                                    *)
LEMMA AcceptedPlace ==
  ASSUME IInv, NEW c \in InPlay, Precondition(c)
  PROVE  /\ c.path \in Nat
         /\ \A j \in 0 .. c.path - 1 : Full(j)
         /\ \A i \in DOMAIN blobs : c.path < i => Full(c.path)
<1>1. c \in MassifContext /\ TypeOK /\ ContextOK(c) /\ StoreOK
  BY InPlayType DEF IInv
<1>2. c.path \in Nat
  BY <1>1 DEF MassifContext
<1>3. \A j \in 0 .. c.path - 1 : Full(j)
  <2>1. CASE c.creating
    BY <1>1, <2>1 DEF ContextOK, Filled
  <2>2. CASE ~c.creating
    BY <1>1, <2>2 DEF ContextOK, StoreOK, OnlyLastHasRoom
  <2> QED
    BY <2>1, <2>2
<1>4. ASSUME NEW i \in DOMAIN blobs, c.path < i PROVE Full(c.path)
  <2>1. c.path \in 0 .. i - 1
    BY <1>1, <1>2, <1>4 DEF TypeOK
  <2> QED
    BY <1>1, <2>1 DEF StoreOK, OnlyLastHasRoom
<1> QED
  BY <1>2, <1>3, <1>4

(* After a put of c, a context d that would still be accepted is for another *)
(* massif and would have been accepted before.                               *)
LEMMA StillAccepted ==
  ASSUME IInv, NEW c \in InPlay, Put(c), NEW d \in InPlay, Precondition(d)'
  PROVE  Precondition(d) /\ d.path # c.path
<1>1. /\ TypeOK /\ c \in MassifContext /\ d \in MassifContext
      /\ ContextOK(c) /\ ContextOK(d)
  BY InPlayType DEF IInv
<1>2. /\ DOMAIN blobs' = DOMAIN blobs \cup {c.path}
      /\ blobs'[c.path].etag = nextEtag
      /\ \A i \in DOMAIN blobs : i # c.path => blobs'[i] = blobs[i]
  BY DEF Put, Stored
<1>3. CASE d.creating
  BY <1>1, <1>2, <1>3 DEF Precondition, ContextOK
<1>4. CASE ~d.creating
  <2>1. d.etag \in 1 .. nextEtag - 1 /\ d.path \in DOMAIN blobs
    BY <1>1, <1>4 DEF ContextOK
  <2>2. blobs'[d.path].etag = d.etag
    BY <2>1 DEF Precondition, NoEtag
  <2>3. d.path # c.path
    BY <1>1, <1>2, <2>1, <2>2 DEF TypeOK
  <2> QED
    BY <1>2, <1>4, <2>1, <2>2, <2>3 DEF Precondition
<1> QED
  BY <1>3, <1>4

(* Two contexts for different massifs that would both be accepted: the one  *)
(* for the earlier massif repeats what is stored there.                     *)
LEMMA EarlierRepeats ==
  ASSUME IInv, NEW c \in InPlay, Precondition(c), NEW d \in InPlay, Precondition(d),
         c.path < d.path
  PROVE  c.path \in DOMAIN blobs /\ c.leaves = blobs[c.path].leaves
<1>1. c.path \in 0 .. d.path - 1
  BY AcceptedPlace
<1>2. Full(c.path)
  BY <1>1, AcceptedPlace
<1> QED
  BY <1>2, AcceptedOfFull DEF Full

(* A put keeps the leaves in the order of their ids.                       *)
LEMMA PutKeepsOrder ==
  ASSUME IInv, OrderInv, NEW c \in InPlay, Put(c), InPlay' \subseteq InPlay,
         UNCHANGED <<issued, made>>
  PROVE  OrderInv'
<1>1. TypeOK /\ c \in MassifContext /\ Precondition(c) /\ c.path \in Nat
  BY InPlayType, AcceptedPlace DEF IInv, Put
<1>2. /\ DOMAIN blobs' = DOMAIN blobs \cup {c.path}
      /\ blobs'[c.path].leaves = c.leaves
      /\ \A i \in DOMAIN blobs : i # c.path => blobs'[i] = blobs[i]
  BY DEF Put, Stored
<1>3. UsedIds' = UsedIds /\ MadeOK' /\ issued' = issued
  BY DEF UsedIds, MadeOK, OrderInv
<1>4. /\ Sorted(issued, c.leaves) /\ Leaves(c.leaves) \subseteq UsedIds
      /\ Fits(issued, blobs, c.leaves, c.path)
  BY <1>1 DEF OrderInv, ContextOrder
<1>5. ASSUME NEW i \in DOMAIN blobs'
      PROVE  /\ Sorted(issued, blobs'[i].leaves)
             /\ Leaves(blobs'[i].leaves) \subseteq UsedIds
             /\ Fits(issued, blobs', blobs'[i].leaves, i)
  <2>1. CASE i = c.path
    <3>1. \A j \in DOMAIN blobs' : j < c.path \/ c.path < j =>
            j \in DOMAIN blobs /\ blobs'[j] = blobs[j]
      BY <1>1, <1>2
    <3> QED
      BY <1>2, <1>4, <2>1, <3>1 DEF Fits
  <2>2. CASE i # c.path
    <3>1. /\ i \in DOMAIN blobs /\ blobs'[i] = blobs[i]
          /\ Sorted(issued, blobs[i].leaves) /\ Leaves(blobs[i].leaves) \subseteq UsedIds
          /\ Fits(issued, blobs, blobs[i].leaves, i)
      BY <1>2, <2>2 DEF OrderInv
    <3> QED
      BY <1>2, <1>4, <3>1 DEF Fits
  <2> QED
    BY <2>1, <2>2
<1>6. ASSUME NEW d \in InPlay', Precondition(d)'
      PROVE  Fits(issued, blobs', d.leaves, d.path)
  <2>1. d \in InPlay /\ Precondition(d) /\ d.path # c.path
    BY <1>6, StillAccepted
  <2>2. Fits(issued, blobs, d.leaves, d.path) /\ d.path \in Nat
    BY <2>1, AcceptedPlace DEF OrderInv, ContextOrder
  <2>3. CASE d.path < c.path
    <3>1. AllPrecede(issued, d.leaves, c.leaves)
      BY <1>1, <1>4, <2>1, <2>3, EarlierRepeats DEF Fits
    <3> QED
      BY <1>1, <1>2, <2>2, <2>3, <3>1 DEF Fits
  <2>4. CASE c.path < d.path
    <3>1. AllPrecede(issued, c.leaves, d.leaves)
      BY <1>1, <2>1, <2>2, <2>4, EarlierRepeats DEF Fits
    <3> QED
      BY <1>1, <1>2, <2>2, <2>4, <3>1 DEF Fits
  <2> QED
    BY <1>1, <2>1, <2>2, <2>3, <2>4
<1>7. ASSUME NEW d \in InPlay' PROVE ContextOrder(d)'
  <2>1. d \in InPlay /\ ContextOrder(d)
    BY <1>7 DEF OrderInv
  <2> QED
    BY <1>3, <1>6, <1>7, <2>1 DEF ContextOrder
<1> QED
  BY <1>3, <1>5, <1>7 DEF OrderInv

-----------------------------------------------------------------------------
(* The steps that leave the store alone *)

(* So does a step of a writer that puts nothing.                           *)
LEMMA WriterKeepsOrder ==
  ASSUME OrderInv, UNCHANGED <<store, issued>>, MadeOK', UsedIds \subseteq UsedIds',
         NEW m, ContextOrder(m)', InPlay' \subseteq InPlay \cup {m}
  PROVE  OrderInv'
<1>1. UNCHANGED <<blobs, issued>>
  BY DEF store
<1>2. ASSUME NEW d \in InPlay PROVE ContextOrder(d)'
  BY <1>1, <1>2 DEF OrderInv, ContextOrder, Precondition
<1> QED
  BY <1>1, <1>2 DEF OrderInv

(* No leaves are in any order.                                             *)
LEMMA EmptyOrder ==
  ASSUME NEW c, c.leaves = << >> PROVE ContextOrder(c)
  BY DEF ContextOrder, Sorted, Leaves, Fits, AllPrecede

(* Reading the last massif, or starting the next *)
LEMMA ReadOrder ==
  ASSUME IInv, OrderInv, NEW m \in MassifContext, ListedOK(m)
  PROVE  LET c == ReadBlob(m, blobs[m.path])
         IN  ContextOrder(c) /\ ContextOrder(StartNextMassif(c))
<1> DEFINE c == ReadBlob(m, blobs[m.path])
<1>1. m.path \in DOMAIN blobs /\ blobs[m.path] \in Blob
  BY DEF ListedOK, IInv, TypeOK
<1>2. c.path = m.path /\ c.leaves = blobs[m.path].leaves /\ c \in MassifContext
  BY <1>1, ReadBlobType DEF ReadBlob, MassifContext
<1> HIDE DEF c
<1>3. ContextOrder(c)
  BY <1>1, <1>2 DEF OrderInv, ContextOrder
<1>4. StartNextMassif(c).leaves = << >>
  BY <1>2 DEF StartNextMassif, MassifContext
<1>5. ContextOrder(StartNextMassif(c))
  BY <1>4, EmptyOrder
<1> QED
  BY <1>3, <1>5 DEF c

(* The next id of a batch comes after every id used before it. *)
LEMMA NewIdFollows ==
  ASSUME MadeOK, NEW w \in Writers, NEW id \in made[w]
  PROVE  \A x \in UsedIds : Precedes(issued, x, id)
<1> SUFFICES ASSUME NEW v \in Writers, NEW x \in issued[v] \ made[v]
             PROVE  Precedes(issued, x, id)
  BY DEF UsedIds
<1>1. CASE v = w
  <2>1. x < id /\ x # id
    BY <1>1 DEF MadeOK
  <2> QED
    BY <2>1 DEF Precedes
<1>2. CASE v # w
  <2>1. id \in issued[w] /\ issued[v] \cap issued[w] = {}
    BY <1>2 DEF MadeOK
  <2>2. \A u \in Writers : ~(x \in issued[u] /\ id \in issued[u])
    BY <2>1 DEF MadeOK
  <2>3. x # id
    BY <2>1
  <2> QED
    BY <2>2, <2>3 DEF Precedes
<1> QED
  BY <1>1, <1>2

(* An id that is made changes nothing for those used before it.            *)
LEMMA MadeKeepsOrder ==
  ASSUME TypeOK, MadeOK, NEW w \in Writers, MakeId(w)
  PROVE  /\ MadeOK' /\ UsedIds' = UsedIds
         /\ \A x, y \in UsedIds : Precedes(issued, x, y) => Precedes(issued', x, y)
<1>1. PICK id \in NextID(w) : /\ issued' = [issued EXCEPT ![w] = @ \cup {id}]
                              /\ made' = [made EXCEPT ![w] = @ \cup {id}]
  BY DEF MakeId
<1>2. /\ issued'[w] = issued[w] \cup {id} /\ made'[w] = made[w] \cup {id}
      /\ \A v \in Writers \ {w} : issued'[v] = issued[v] /\ made'[v] = made[v]
  BY <1>1 DEF TypeOK
<1>3. /\ \A v \in Writers : id \notin issued[v]
      /\ \A x \in issued[w] : x < id
  BY DEF NextID, IssuedIds
<1>4. \A v \in Writers : issued'[v] \ made'[v] = issued[v] \ made[v]
  BY <1>2, <1>3
<1>5. MadeOK'
  BY <1>2, <1>3, <1>4 DEF MadeOK
<1>6. UsedIds' = UsedIds
  BY <1>4 DEF UsedIds
<1>7. ASSUME NEW x \in UsedIds, NEW y \in UsedIds, Precedes(issued, x, y)
      PROVE  Precedes(issued', x, y)
  <2>1. x # id /\ y # id
    BY <1>3 DEF UsedIds
  <2>2. \A v \in Writers : /\ x \in issued'[v] <=> x \in issued[v]
                           /\ y \in issued'[v] <=> y \in issued[v]
    BY <1>2, <2>1
  <2> QED
    BY <1>7, <2>2 DEF Precedes
<1> QED
  BY <1>5, <1>6, <1>7

WithLeaf(c, id) == [c EXCEPT !.leaves = Append(@, id), !.lastID = id]

(* A new id comes after those in the context it is added to.               *)
LEMMA AddLeafOrder ==
  ASSUME IInv, OrderInv, NEW w \in Writers, pc[w] = "open", HasSpace(mc[w]),
         NEW id \in made[w],
         NEW n, n = WithLeaf(mc[w], id)
  PROVE  /\ Sorted(issued, n.leaves)
         /\ Leaves(n.leaves) \subseteq UsedIds \cup {id}
         /\ Precondition(n) => Fits(issued, blobs, n.leaves, n.path)
<1> DEFINE m == mc[w]
<1>1. m \in MassifContext /\ m \in InPlay /\ ContextOrder(m) /\ TypeOK
  BY DEF IInv, TypeOK, OrderInv, InPlay, Live
<1>2. /\ n.path = m.path /\ n.etag = m.etag /\ n.creating = m.creating
      /\ n.leaves = Append(m.leaves, id) /\ m.leaves \in Seq(Nat)
  BY <1>1 DEF MassifContext, WithLeaf
<1> HIDE DEF m
<1>3. id \in Nat /\ MadeOK
  BY <1>1 DEF TypeOK, OrderInv
<1>4. /\ Len(n.leaves) = Len(m.leaves) + 1 /\ n.leaves[Len(n.leaves)] = id
      /\ \A k \in 1 .. Len(m.leaves) : n.leaves[k] = m.leaves[k]
      /\ Len(m.leaves) \in Nat
  BY <1>2, <1>3
<1>5. Leaves(n.leaves) = Leaves(m.leaves) \cup {id}
  <2>1. ASSUME NEW x \in Leaves(n.leaves) PROVE x \in Leaves(m.leaves) \cup {id}
    <3>1. PICK k \in 1 .. Len(n.leaves) : x = n.leaves[k]
      BY <2>1 DEF Leaves
    <3>2. k \in 1 .. Len(m.leaves) \/ k = Len(n.leaves)
      BY <1>4
    <3> QED
      BY <1>4, <3>1, <3>2 DEF Leaves
  <2>2. ASSUME NEW x \in Leaves(m.leaves) PROVE x \in Leaves(n.leaves)
    <3>1. PICK k \in 1 .. Len(m.leaves) : x = m.leaves[k]
      BY <2>2 DEF Leaves
    <3>2. k \in 1 .. Len(n.leaves) /\ x = n.leaves[k]
      BY <1>4, <3>1
    <3> QED
      BY <3>2 DEF Leaves
  <2>3. Len(n.leaves) \in 1 .. Len(n.leaves)
    BY <1>4
  <2>4. id \in Leaves(n.leaves)
    BY <1>4, <2>3 DEF Leaves
  <2> QED
    BY <2>1, <2>2, <2>4
<1>6. \A x \in Leaves(m.leaves) : Precedes(issued, x, id)
  BY <1>1, <1>3, NewIdFollows DEF ContextOrder
<1>7. Sorted(issued, n.leaves)
  <2> SUFFICES ASSUME NEW k \in 1 .. Len(n.leaves), NEW j \in 1 .. k - 1
               PROVE  Precedes(issued, n.leaves[j], n.leaves[k])
    BY DEF Sorted
  <2>1. j \in 1 .. Len(m.leaves) /\ n.leaves[j] = m.leaves[j]
    BY <1>4
  <2>2. CASE k \in 1 .. Len(m.leaves)
    BY <1>1, <1>4, <2>1, <2>2 DEF ContextOrder, Sorted
  <2>3. CASE k = Len(n.leaves)
    <3>1. n.leaves[j] \in Leaves(m.leaves)
      BY <2>1 DEF Leaves
    <3> QED
      BY <1>4, <1>6, <2>3, <3>1
  <2> QED
    BY <1>4, <2>2, <2>3
<1>8. ASSUME Precondition(n) PROVE Fits(issued, blobs, n.leaves, n.path)
  <2>1. Precondition(m)
    BY <1>2, <1>8 DEF Precondition
  <2>2. Fits(issued, blobs, m.leaves, m.path)
    BY <1>1, <2>1 DEF ContextOrder
  <2>3. \A i \in DOMAIN blobs : ~(m.path < i)
    <3> SUFFICES ASSUME NEW i \in DOMAIN blobs, m.path < i PROVE FALSE
      OBVIOUS
    <3>1. Full(m.path)
      BY <1>1, <2>1, AcceptedPlace
    <3>2. Len(m.leaves) = MassifLeaves
      BY <1>1, <2>1, <3>1, AcceptedOfFull DEF Full
    <3> QED
      BY <3>2, MassifLeavesAssumption DEF HasSpace, m
  <2>4. ASSUME NEW i \in DOMAIN blobs, i < m.path
        PROVE  AllPrecede(issued, blobs[i].leaves, n.leaves)
    <3>1. Leaves(blobs[i].leaves) \subseteq UsedIds
      BY DEF OrderInv
    <3>2. AllPrecede(issued, blobs[i].leaves, m.leaves)
      BY <2>2, <2>4 DEF Fits
    <3> QED
      BY <1>3, <1>5, <3>1, <3>2, NewIdFollows DEF AllPrecede
  <2> QED
    BY <1>2, <2>3, <2>4 DEF Fits
<1> QED
  BY <1>1, <1>5, <1>7, <1>8 DEF ContextOrder

-----------------------------------------------------------------------------
(* The invariant *)

(* The empty log is in order.                                              *)
LEMMA OrderInit == Init => OrderInv
  BY DEF Init, OrderInv, MadeOK, InPlay, Live, InFlight

(* Every step keeps the order.                                             *)
LEMMA OrderNext == IInv /\ OrderInv /\ [Next]_vars => OrderInv'
<1> SUFFICES ASSUME IInv, OrderInv, [Next]_vars PROVE OrderInv'
  OBVIOUS
<1>1. TypeOK /\ TypeOK'
  BY TypeStep DEF IInv
<1>2. ASSUME NEW w \in Writers, GetLastMassif(w) PROVE OrderInv'
  <2>1. UNCHANGED <<store, late, issued, made>>
    BY <1>2 DEF GetLastMassif, ids
  <2>2. \A v \in Writers \ {w} : pc'[v] = pc[v] /\ mc'[v] = mc[v]
    BY <1>1, <1>2 DEF GetLastMassif, TypeOK
  <2>3. Live(w)' => mc'[w] = createFirstMassifContext
    BY <1>1, <1>2 DEF GetLastMassif, TypeOK, Live, InFlight
  <2>4. InPlay' \subseteq InPlay \cup {createFirstMassifContext}
    BY <2>1, <2>2, <2>3 DEF InPlay, Live
  <2>5. createFirstMassifContext.leaves = << >>
    BY DEF createFirstMassifContext, NoContext
  <2>6. ContextOrder(createFirstMassifContext)
    BY <2>5, EmptyOrder
  <2>7. ContextOrder(createFirstMassifContext)'
    BY <2>1, <2>6 DEF ContextOrder, Precondition, UsedIds, store
  <2>8. UsedIds' = UsedIds /\ MadeOK'
    BY <2>1 DEF UsedIds, MadeOK, OrderInv
  <2> QED
    BY <2>1, <2>4, <2>7, <2>8, WriterKeepsOrder
<1>3. ASSUME NEW w \in Writers, GetCurrentContext(w) PROVE OrderInv'
  <2> DEFINE c == ReadBlob(mc[w], blobs[mc[w].path])
             n == IF HasSpace(c) THEN c ELSE StartNextMassif(c)
  <2>1. UNCHANGED <<store, late, issued, made>>
    BY <1>3 DEF GetCurrentContext, ids
  <2>2. mc[w] \in MassifContext /\ ListedOK(mc[w])
    BY <1>1, <1>3 DEF GetCurrentContext, IInv, Listed, TypeOK
  <2>3. ContextOrder(n)
    BY <2>2, ReadOrder
  <2>4. \A v \in Writers \ {w} : pc'[v] = pc[v] /\ mc'[v] = mc[v]
    BY <1>1, <1>3 DEF GetCurrentContext, TypeOK
  <2>5. Live(w)' => mc'[w] = n
    <3> HIDE DEF n, c
    <3>1. \/ pc' = [pc EXCEPT ![w] = "open"] /\ mc' = [mc EXCEPT ![w] = n]
          \/ pc' = [pc EXCEPT ![w] = "idle"]
      BY <1>3 DEF GetCurrentContext, n, c
    <3> QED
      BY <1>1, <3>1 DEF TypeOK, Live, InFlight
  <2> HIDE DEF n, c
  <2>6. PICK x : x = n
    OBVIOUS
  <2>7. InPlay' \subseteq InPlay \cup {x}
    BY <2>1, <2>4, <2>5, <2>6 DEF InPlay, Live
  <2>8. ContextOrder(x)'
    BY <2>1, <2>3, <2>6 DEF ContextOrder, Precondition, UsedIds, store
  <2>9. UsedIds' = UsedIds /\ MadeOK'
    BY <2>1 DEF UsedIds, MadeOK, OrderInv
  <2> QED
    BY <2>1, <2>7, <2>8, <2>9, WriterKeepsOrder
<1>4. ASSUME NEW w \in Writers, AddHashedLeaf(w) PROVE OrderInv'
  <2>1. PICK id \in made[w] :
          /\ \A j \in made[w] : id <= j
          /\ mc' = [mc EXCEPT ![w].leaves = Append(@, id), ![w].lastID = id]
          /\ made' = [made EXCEPT ![w] = @ \ {id}]
    BY <1>4 DEF AddHashedLeaf
  <2>2. PICK n : n = WithLeaf(mc[w], id)
    OBVIOUS
  <2>3. /\ Sorted(issued, n.leaves)
        /\ Leaves(n.leaves) \subseteq UsedIds \cup {id}
        /\ Precondition(n) => Fits(issued, blobs, n.leaves, n.path)
    <3>1. pc[w] = "open" /\ HasSpace(mc[w])
      BY <1>4 DEF AddHashedLeaf
    <3> QED
      BY <2>1, <2>2, <3>1, AddLeafOrder
  <2>4. UNCHANGED <<store, late, pc, issued>>
    BY <1>4 DEF AddHashedLeaf
  <2>5. UsedIds \cup {id} \subseteq UsedIds' /\ MadeOK'
    <3>1. /\ made'[w] = made[w] \ {id} /\ MadeOK /\ id \in issued[w]
          /\ \A v \in Writers \ {w} : made'[v] = made[v]
      BY <1>1, <2>1 DEF TypeOK, OrderInv, MadeOK
    <3>2. UsedIds \cup {id} \subseteq UsedIds'
      BY <2>4, <3>1 DEF UsedIds
    <3>3. \A k \in made'[w] : \A x \in issued[w] \ made'[w] : x < k
      <4> SUFFICES ASSUME NEW k \in made'[w], NEW x \in issued[w] \ made'[w]
                   PROVE  x < k
        OBVIOUS
      <4>1. id <= k /\ id # k /\ id \in Nat /\ k \in Nat /\ k \in made[w]
        BY <1>1, <2>1, <3>1 DEF TypeOK
      <4>2. CASE x = id
        BY <4>1, <4>2
      <4>3. CASE x # id
        BY <3>1, <4>1, <4>3 DEF MadeOK
      <4> QED
        BY <4>2, <4>3
    <3>4. MadeOK'
      BY <2>4, <3>1, <3>3 DEF MadeOK
    <3> QED
      BY <3>2, <3>4
  <2>6. ContextOrder(n)'
    BY <2>3, <2>4, <2>5 DEF ContextOrder, Precondition, store
  <2>7. mc'[w] = n /\ \A v \in Writers \ {w} : mc'[v] = mc[v]
    BY <1>1, <2>1, <2>2 DEF TypeOK, WithLeaf
  <2>8. InPlay' \subseteq InPlay \cup {n}
    BY <2>4, <2>7 DEF InPlay, Live
  <2> QED
    BY <2>4, <2>5, <2>6, <2>8, WriterKeepsOrder
<1>5. ASSUME NEW w \in Writers,
             CommitContext(w) \/ Committed(w) \/ Refused(w) \/ GiveUp(w) \/ Discard(w)
      PROVE  OrderInv'
  <2>1. UNCHANGED <<store, issued>> /\ (made' = made \/ made' = [made EXCEPT ![w] = {}])
    BY <1>5 DEF CommitContext, Committed, Refused, GiveUp, Discard, ids
  <2>7. UsedIds \subseteq UsedIds' /\ MadeOK'
    <3>1. \A v \in Writers : made'[v] = made[v] \/ made'[v] = {}
      BY <1>1, <2>1 DEF TypeOK
    <3> QED
      BY <2>1, <3>1 DEF UsedIds, MadeOK, OrderInv
  <2>2. Live(w) /\ mc[w] \in InPlay
    BY <1>5 DEF CommitContext, Committed, Refused, GiveUp, Discard, Live, InFlight,
                InPlay
  <2>3. InPlay' \subseteq InPlay
    BY <1>1, <1>5, <2>2
       DEF CommitContext, Committed, Refused, GiveUp, Discard, InPlay, Live, InFlight,
           TypeOK
  <2>4. ContextOrder(mc[w])
    BY <2>2 DEF OrderInv
  <2>5. PICK x : x = mc[w]
    OBVIOUS
  <2>6. ContextOrder(x)'
    BY <2>1, <2>4, <2>5, <2>7 DEF ContextOrder, Precondition, store
  <2> QED
    BY <2>1, <2>3, <2>6, <2>7, WriterKeepsOrder
<1>6. ASSUME NEW w \in Writers, Deliver(w) PROVE OrderInv'
  <2>1. mc[w] \in InPlay /\ UNCHANGED <<mc, late, issued, made>>
    BY <1>6 DEF Deliver, InPlay, Live, ids
  <2>2. InPlay' \subseteq InPlay
    BY <1>1, <1>6 DEF Deliver, InPlay, Live, InFlight, TypeOK
  <2>3. CASE Put(mc[w])
    BY <2>1, <2>2, <2>3, PutKeepsOrder
  <2>4. CASE UNCHANGED store
    <3>1. PICK x : x = mc[w]
      OBVIOUS
    <3>2. ContextOrder(x) /\ UsedIds' = UsedIds /\ MadeOK'
      BY <2>1, <3>1 DEF OrderInv, UsedIds, MadeOK
    <3>3. ContextOrder(x)'
      BY <2>1, <2>4, <3>2 DEF ContextOrder, Precondition, store
    <3> QED
      BY <2>1, <2>2, <2>4, <3>2, <3>3, WriterKeepsOrder
  <2> QED
    BY <1>6, <2>3, <2>4 DEF Deliver
<1>7. ASSUME NEW c \in late, LatePut(c) PROVE OrderInv'
  <2>1. c \in InPlay /\ InPlay' \subseteq InPlay /\ UNCHANGED <<issued, made>>
    BY <1>7 DEF LatePut, InPlay, Live, ids
  <2> QED
    BY <1>7, <2>1, PutKeepsOrder DEF LatePut
<1>8. ASSUME NEW w \in Writers, MakeId(w) PROVE OrderInv'
  <2>1. /\ MadeOK' /\ UsedIds' = UsedIds
        /\ \A x, y \in UsedIds : Precedes(issued, x, y) => Precedes(issued', x, y)
    BY <1>1, <1>8, MadeKeepsOrder DEF OrderInv
  <2>2. blobs' = blobs /\ InPlay' = InPlay
    BY <1>8 DEF MakeId, store, InPlay, Live
  <2>3. ASSUME NEW s, Leaves(s) \subseteq UsedIds, Sorted(issued, s)
        PROVE  Sorted(issued', s)
    <3> SUFFICES ASSUME NEW k \in 1 .. Len(s), NEW j \in 1 .. k - 1
                 PROVE  Precedes(issued', s[j], s[k])
      BY DEF Sorted
    <3>1. Precedes(issued, s[j], s[k])
      BY <2>3 DEF Sorted
    <3>2. s[k] \in Leaves(s)
      BY DEF Leaves
    <3>3. s[j] \in Leaves(s)
      BY DEF Leaves
    <3> QED
      BY <2>1, <2>3, <3>1, <3>2, <3>3
  <2>4. ASSUME NEW s, NEW t, Leaves(s) \subseteq UsedIds, Leaves(t) \subseteq UsedIds,
               AllPrecede(issued, s, t)
        PROVE  AllPrecede(issued', s, t)
    BY <2>1, <2>4 DEF AllPrecede
  <2>5. ASSUME NEW s, NEW n, Leaves(s) \subseteq UsedIds, Fits(issued, blobs, s, n)
        PROVE  Fits(issued', blobs, s, n)
    <3>1. \A i \in DOMAIN blobs : Leaves(blobs[i].leaves) \subseteq UsedIds
      BY DEF OrderInv
    <3> QED
      BY <2>4, <2>5, <3>1 DEF Fits
  <2>6. ASSUME NEW i \in DOMAIN blobs
        PROVE  /\ Sorted(issued', blobs[i].leaves)
               /\ Leaves(blobs[i].leaves) \subseteq UsedIds
               /\ Fits(issued', blobs, blobs[i].leaves, i)
    BY <2>3, <2>5 DEF OrderInv
  <2>7. ASSUME NEW c \in InPlay PROVE ContextOrder(c)'
    <3>1. ContextOrder(c)
      BY <2>7 DEF OrderInv
    <3>2. Precondition(c)' <=> Precondition(c)
      BY <2>2 DEF Precondition
    <3> QED
      BY <2>1, <2>2, <2>3, <2>5, <3>1, <3>2 DEF ContextOrder
  <2> QED
    BY <2>1, <2>2, <2>6, <2>7 DEF OrderInv
<1>9. CASE UNCHANGED vars
  BY <1>9 DEF vars, OrderInv, MadeOK, ContextOrder, Precondition, UsedIds, InPlay, Live
<1> QED
  BY <1>2, <1>3, <1>4, <1>5, <1>6, <1>7, <1>8, <1>9 DEF Next, WriterStep

(* The order of the leaves in the store and in every context *)
THEOREM Ordered == Spec => []OrderInv
  BY OrderInit, OrderNext, Invariant, PTL DEF Spec

-----------------------------------------------------------------------------
(* What follows for the log *)

(* A position of the log is a massif and a place in it.                    *)
LEMMA LogPosition ==
  ASSUME TypeOK
  PROVE  \A p \in DOMAIN Log :
           /\ p[1] \in DOMAIN blobs
           /\ p[2] \in 1 .. Len(blobs[p[1]].leaves)
           /\ p = <<p[1], p[2]>>
           /\ Log[p] = blobs[p[1]].leaves[p[2]]
           /\ Log[p] \in Leaves(blobs[p[1]].leaves)
  BY DEF Log, Leaves

(* Of two positions the first has the earlier id.                          *)
LEMMA LogOrder ==
  ASSUME IInv, OrderInv, NEW p \in DOMAIN Log, NEW q \in DOMAIN Log, Before(p, q)
  PROVE  Precedes(issued, Log[p], Log[q])
<1> DEFINE s == blobs[p[1]].leaves
           t == blobs[q[1]].leaves
<1>1. /\ p[1] \in DOMAIN blobs /\ p[2] \in 1 .. Len(s) /\ Log[p] = s[p[2]]
      /\ q[1] \in DOMAIN blobs /\ q[2] \in 1 .. Len(t) /\ Log[q] = t[q[2]]
      /\ Log[p] \in Leaves(s) /\ Log[q] \in Leaves(t)
  BY LogPosition DEF IInv
<1>2. CASE p[1] < q[1]
  <2>1. AllPrecede(issued, s, t)
    BY <1>1, <1>2 DEF OrderInv, Fits
  <2> QED
    BY <1>1, <2>1 DEF AllPrecede
<1>3. CASE p[1] = q[1] /\ p[2] < q[2]
  <2>1. Sorted(issued, t) /\ s = t
    BY <1>1, <1>3 DEF OrderInv
  <2>2. p[2] \in 1 .. q[2] - 1
    BY <1>1, <1>3
  <2> HIDE DEF s, t
  <2> QED
    BY <1>1, <2>1, <2>2 DEF Sorted
<1> QED
  BY <1>2, <1>3 DEF Before

(* So no id is in the log twice.                                           *)
LEMMA OrderedIsUnique == IInv /\ OrderInv => IdsUnique
<1> SUFFICES ASSUME IInv, OrderInv, NEW p \in DOMAIN Log, NEW q \in DOMAIN Log,
                    Log[p] = Log[q]
             PROVE  p = q
  BY DEF IdsUnique
<1>1. ~Before(p, q) /\ ~Before(q, p)
  BY LogOrder DEF Precedes
<1>2. p[1] \in Nat /\ q[1] \in Nat /\ p[2] \in Nat /\ q[2] \in Nat
  BY LogPosition DEF IInv, TypeOK
<1>3. p[1] = q[1] /\ p[2] = q[2]
  BY <1>1, <1>2 DEF Before
<1> QED
  BY <1>3, LogPosition DEF IInv

(* No id is in the log twice: there is a 1:1 mapping from ids to positions. *)
THEOREM UniqueIds == Spec => []IdsUnique
  BY OrderedIsUnique, Invariant, Ordered, PTL

(* The leaves of each writer are in the order of its ids, whatever races,  *)
(* retries and batches that go on in another context there were.           *)
THEOREM IdOrder == Spec => []LeavesInIdOrder
<1>1. IInv /\ OrderInv => LeavesInIdOrder
  BY LogOrder DEF LeavesInIdOrder, Precedes
<1> QED
  BY <1>1, Invariant, Ordered, PTL

(* A step of the log is a put, or it acknowledges what is there.           *)
LEMMA StepIsPut ==
  ASSUME [Next]_vars
  PROVE  \/ UNCHANGED <<store, acked>>
         \/ \E c \in InPlay : Put(c) /\ UNCHANGED acked
         \/ \E w \in Writers : Committed(w)
<1>1. ASSUME NEW w \in Writers, Deliver(w), Put(mc[w])
      PROVE  \E c \in InPlay : Put(c) /\ UNCHANGED acked
  BY <1>1 DEF Deliver, InPlay, Live
<1>2. ASSUME NEW c \in late, LatePut(c)
      PROVE  c \in InPlay /\ Put(c) /\ UNCHANGED acked
  BY <1>2 DEF LatePut, InPlay
<1>3. ASSUME NEW w \in Writers, WriterStep(w), ~(Deliver(w) /\ Put(mc[w]))
      PROVE  UNCHANGED <<store, acked>> \/ Committed(w)
  BY <1>3 DEF WriterStep, GetLastMassif, GetCurrentContext, MakeId, AddHashedLeaf,
              CommitContext, Deliver, Committed, Refused, GiveUp, Discard
<1> QED
  BY <1>1, <1>2, <1>3 DEF Next, vars, store

(* A full massif is frozen: later puts may only give it a new etag. *)
THEOREM Frozen == Spec => FullMassifFrozen
<1>1. IInv /\ [Next]_vars =>
        \A i \in DOMAIN blobs :
          Len(blobs[i].leaves) = MassifLeaves =>
            /\ i \in DOMAIN blobs'
            /\ blobs'[i] = [blobs[i] EXCEPT !.etag = blobs'[i].etag]
  <2> SUFFICES ASSUME IInv, [Next]_vars, NEW i \in DOMAIN blobs, Full(i)
               PROVE  /\ i \in DOMAIN blobs'
                      /\ blobs'[i] = [blobs[i] EXCEPT !.etag = blobs'[i].etag]
    BY DEF Full
  <2>1. TypeOK /\ blobs[i] \in Blob
    BY DEF IInv, TypeOK
  <2>2. ASSUME NEW b \in Blob PROVE b = [b EXCEPT !.etag = b.etag]
    BY <2>2 DEF Blob
  <2>3. CASE UNCHANGED store
    BY <2>1, <2>2, <2>3 DEF store
  <2>4. ASSUME NEW c \in InPlay, Put(c)
        PROVE  /\ i \in DOMAIN blobs'
               /\ blobs'[i] = [blobs[i] EXCEPT !.etag = blobs'[i].etag]
    <3>1. i \in DOMAIN blobs'
      BY <2>4, PutGrows
    <3>2. CASE i # c.path
      BY <2>1, <2>2, <2>4, <3>1, <3>2 DEF Put
    <3>3. CASE i = c.path
      <4>1. c \in MassifContext /\ ContextOK(c) /\ StoreOK
        BY <2>1, InPlayType DEF IInv
      <4>2. c.leaves = blobs[i].leaves
        BY <2>4, <3>3, AcceptedOfFull DEF Put
      <4>3. c.leaves # << >>
        BY <4>2, MassifLeavesAssumption DEF Full
      <4>4. c.lastID = blobs[i].lastID
        BY <4>1, <4>2, <4>3 DEF ContextOK, StoreOK, LastLeafId
      <4>5. c.index = blobs[i].index /\ c.tagFirst = blobs[i].tagFirst
        BY <3>3, <4>1 DEF ContextOK, StoreOK, HeadersLocate
      <4>6. blobs'[i] = Stored(c)
        BY <2>4, <3>1, <3>3 DEF Put
      <4>7. [blobs[i] EXCEPT !.etag = blobs'[i].etag] = Stored(c)
        <5>1. ASSUME NEW b \in Blob, NEW e
              PROVE  [b EXCEPT !.etag = e] =
                       [etag |-> e, index |-> b.index, lastID |-> b.lastID,
                        tagFirst |-> b.tagFirst, leaves |-> b.leaves]
          BY DEF Blob
        <5>2. blobs'[i].etag = nextEtag
          BY <4>6 DEF Stored
        <5> QED
          BY <2>1, <4>2, <4>4, <4>5, <5>1, <5>2 DEF Stored
      <4> QED
        BY <3>1, <4>6, <4>7
    <3> QED
      BY <3>2, <3>3
  <2>5. ASSUME NEW w \in Writers, Committed(w) PROVE UNCHANGED store
    BY <2>5 DEF Committed
  <2> QED
    BY <2>3, <2>4, <2>5, StepIsPut
<1>2. IInv /\ [Next]_vars =>
        [\A i \in DOMAIN blobs :
           Len(blobs[i].leaves) = MassifLeaves =>
             /\ i \in DOMAIN blobs'
             /\ blobs'[i] = [blobs[i] EXCEPT !.etag = blobs'[i].etag]]_blobs
  BY <1>1
<1> QED
  BY <1>2, Invariant, PTL DEF Spec, FullMassifFrozen

-----------------------------------------------------------------------------
(* The last id *)

(* The id that a massif without leaves takes over *)
LastBefore(n) == IF n = 0 THEN 0 ELSE blobs[n - 1].lastID

TakesOver(x, n) == x.leaves = << >> => x.lastID = LastBefore(n)

LastInv ==
  /\ \A i \in DOMAIN blobs : TakesOver(blobs[i], i)
  /\ \A c \in InPlay : TakesOver(c, c.path)

(* The massif before that of a context or a blob is full. *)
LEMMA FullBefore ==
  ASSUME IInv
  PROVE  /\ \A i \in DOMAIN blobs : i \in Nat /\ (i # 0 => Full(i - 1))
         /\ \A c \in InPlay : c.path \in Nat /\ (c.path # 0 => Full(c.path - 1))
<1>1. TypeOK /\ StoreOK
  BY DEF IInv
<1>2. ASSUME NEW i \in DOMAIN blobs PROVE i \in Nat /\ (i # 0 => Full(i - 1))
  <2>1. i \in Nat
    BY <1>1 DEF TypeOK
  <2>2. i # 0 => i - 1 \in 0 .. i - 1
    BY <2>1
  <2> QED
    BY <1>1, <2>1, <2>2 DEF StoreOK, OnlyLastHasRoom
<1>3. ASSUME NEW c \in InPlay
      PROVE  c.path \in Nat /\ (c.path # 0 => Full(c.path - 1))
  <2>1. ContextOK(c) /\ c.path \in Nat
    BY <1>1, InPlayType DEF IInv, MassifContext
  <2>2. c.path # 0 => c.path - 1 \in 0 .. c.path - 1
    BY <2>1
  <2> QED
    BY <1>2, <2>1, <2>2 DEF ContextOK, Filled
<1> QED
  BY <1>2, <1>3

(* A put leaves the last id of a full massif as it is. *)
LEMMA PutKeepsLast ==
  ASSUME IInv, NEW c \in InPlay, Put(c), NEW n \in Nat, n # 0 => Full(n - 1)
  PROVE  LastBefore(n)' = LastBefore(n)
<1> SUFFICES ASSUME n # 0 PROVE blobs'[n - 1].lastID = blobs[n - 1].lastID
  BY DEF LastBefore
<1>1. n - 1 \in DOMAIN blobs
  BY DEF Full
<1>2. CASE n - 1 # c.path
  BY <1>1, <1>2 DEF Put
<1>3. CASE n - 1 = c.path
  <2>1. c.leaves = blobs[n - 1].leaves
    BY <1>3, AcceptedOfFull DEF Put
  <2>2. c.leaves # << >>
    BY <2>1, MassifLeavesAssumption DEF Full
  <2>3. c.lastID = blobs[n - 1].lastID
    BY <1>1, <2>1, <2>2 DEF IInv, ContextOK, StoreOK, LastLeafId
  <2> QED
    BY <1>3, <2>3 DEF Put, Stored
<1> QED
  BY <1>2, <1>3

(* After a put only the last massif has room.                              *)
LEMMA PutKeepsLastInv ==
  ASSUME IInv, LastInv, NEW c \in InPlay, Put(c), InPlay' \subseteq InPlay
  PROVE  LastInv'
<1>1. ASSUME NEW i \in DOMAIN blobs' PROVE TakesOver(blobs[i], i)'
  <2>1. CASE i = c.path
    <3>1. LastBefore(i)' = LastBefore(i)
      BY <2>1, FullBefore, PutKeepsLast
    <3>2. blobs'[i].leaves = c.leaves /\ blobs'[i].lastID = c.lastID
      BY <2>1 DEF Put, Stored
    <3> QED
      BY <2>1, <3>1, <3>2 DEF LastInv, TakesOver
  <2>2. CASE i # c.path
    <3>1. i \in DOMAIN blobs /\ blobs'[i] = blobs[i]
      BY <1>1, <2>2 DEF Put
    <3>2. LastBefore(i)' = LastBefore(i)
      BY <3>1, FullBefore, PutKeepsLast
    <3> QED
      BY <3>1, <3>2 DEF LastInv, TakesOver
  <2> QED
    BY <2>1, <2>2
<1>2. ASSUME NEW d \in InPlay' PROVE TakesOver(d, d.path)'
  <2>1. d \in InPlay
    BY <1>2
  <2>2. LastBefore(d.path)' = LastBefore(d.path)
    BY <2>1, FullBefore, PutKeepsLast
  <2> QED
    BY <2>1, <2>2 DEF LastInv, TakesOver
<1> QED
  BY <1>1, <1>2 DEF LastInv

(* A context that was read has the last id of its blob, and one that was   *)
(* started that of the blob before.                                        *)
LEMMA ReadLast ==
  ASSUME IInv, LastInv, NEW m \in MassifContext, ListedOK(m)
  PROVE  LET c == ReadBlob(m, blobs[m.path])
             n == StartNextMassif(c)
         IN  TakesOver(c, c.path) /\ TakesOver(n, n.path)
<1> DEFINE c == ReadBlob(m, blobs[m.path])
           n == StartNextMassif(c)
<1>1. m.path \in DOMAIN blobs /\ m.path \in Nat /\ blobs[m.path] \in Blob
  BY DEF ListedOK, IInv, TypeOK
<1>2. /\ c \in MassifContext /\ c.path = m.path /\ c.count = m.path + 1
      /\ c.leaves = blobs[m.path].leaves /\ c.lastID = blobs[m.path].lastID
  BY <1>1, ReadBlobType DEF ReadBlob, MassifContext, ListedOK
<1> HIDE DEF c
<1>3. n.path = m.path + 1 /\ n.lastID = blobs[m.path].lastID
  BY <1>2 DEF StartNextMassif, MassifContext
<1>4. TakesOver(c, c.path)
  BY <1>1, <1>2 DEF LastInv, TakesOver
<1> HIDE DEF n
<1>5. LastBefore(n.path) = blobs[m.path].lastID
  BY <1>1, <1>3 DEF LastBefore
<1>6. TakesOver(n, n.path)
  BY <1>3, <1>5 DEF TakesOver
<1> QED
  BY <1>4, <1>6 DEF c, n

(* A step that leaves the store alone and gives a writer a context that    *)
(* has the last id it should.                                              *)
LEMMA WriterKeepsLast ==
  ASSUME LastInv, UNCHANGED blobs, NEW m, TakesOver(m, m.path),
         InPlay' \subseteq InPlay \cup {m}
  PROVE  LastInv'
  BY DEF LastInv, TakesOver, LastBefore

(* Every step keeps that.                                                  *)
LEMMA LastNext == IInv /\ LastInv /\ [Next]_vars => LastInv'
<1> SUFFICES ASSUME IInv, LastInv, [Next]_vars PROVE LastInv'
  OBVIOUS
<1>1. TypeOK /\ TypeOK'
  BY TypeStep DEF IInv
<1>2. ASSUME NEW w \in Writers, GetLastMassif(w) PROVE LastInv'
  <2>1. UNCHANGED <<blobs, late>>
    BY <1>2 DEF GetLastMassif, store
  <2>2. \A v \in Writers \ {w} : pc'[v] = pc[v] /\ mc'[v] = mc[v]
    BY <1>1, <1>2 DEF GetLastMassif, TypeOK
  <2>3. Live(w)' => mc'[w] = createFirstMassifContext
    BY <1>1, <1>2 DEF GetLastMassif, TypeOK, Live, InFlight
  <2>4. InPlay' \subseteq InPlay \cup {createFirstMassifContext}
    BY <2>1, <2>2, <2>3 DEF InPlay, Live
  <2>5. createFirstMassifContext.path = 0 /\ createFirstMassifContext.lastID = 0
    BY DEF createFirstMassifContext, NoContext
  <2>6. TakesOver(createFirstMassifContext, createFirstMassifContext.path)
    BY <2>5 DEF TakesOver, LastBefore
  <2> QED
    BY <2>1, <2>4, <2>6, WriterKeepsLast
<1>3. ASSUME NEW w \in Writers, GetCurrentContext(w) PROVE LastInv'
  <2> DEFINE c == ReadBlob(mc[w], blobs[mc[w].path])
             n == IF HasSpace(c) THEN c ELSE StartNextMassif(c)
  <2>1. UNCHANGED <<blobs, late>>
    BY <1>3 DEF GetCurrentContext, store
  <2>2. mc[w] \in MassifContext /\ ListedOK(mc[w])
    BY <1>1, <1>3 DEF GetCurrentContext, IInv, Listed, TypeOK
  <2>3. TakesOver(n, n.path)
    BY <2>2, ReadLast
  <2>4. \A v \in Writers \ {w} : pc'[v] = pc[v] /\ mc'[v] = mc[v]
    BY <1>1, <1>3 DEF GetCurrentContext, TypeOK
  <2>5. Live(w)' => mc'[w] = n
    <3> HIDE DEF n, c
    <3>1. \/ pc' = [pc EXCEPT ![w] = "open"] /\ mc' = [mc EXCEPT ![w] = n]
          \/ pc' = [pc EXCEPT ![w] = "idle"]
      BY <1>3 DEF GetCurrentContext, n, c
    <3> QED
      BY <1>1, <3>1 DEF TypeOK, Live, InFlight
  <2> HIDE DEF n, c
  <2>6. PICK x : x = n
    OBVIOUS
  <2>7. InPlay' \subseteq InPlay \cup {x}
    BY <2>1, <2>4, <2>5, <2>6 DEF InPlay, Live
  <2>8. TakesOver(x, x.path)
    BY <2>3, <2>6
  <2> QED
    BY <2>1, <2>7, <2>8, WriterKeepsLast
<1>4. ASSUME NEW w \in Writers, AddHashedLeaf(w) PROVE LastInv'
  <2>1. PICK id \in made[w] :
          mc' = [mc EXCEPT ![w].leaves = Append(@, id), ![w].lastID = id]
    BY <1>4 DEF AddHashedLeaf
  <2>2. PICK n : n = WithLeaf(mc[w], id)
    OBVIOUS
  <2>3. UNCHANGED <<blobs, late, pc>>
    BY <1>4 DEF AddHashedLeaf, store
  <2>4. n.leaves # << >>
    <3>1. mc[w] \in MassifContext /\ mc[w].leaves \in Seq(Nat) /\ id \in Nat
      BY <1>1 DEF TypeOK, MassifContext
    <3>2. n.leaves = Append(mc[w].leaves, id)
      BY <2>2, <3>1 DEF WithLeaf, MassifContext
    <3> QED
      BY <3>1, <3>2
  <2>5. mc'[w] = n /\ \A v \in Writers \ {w} : mc'[v] = mc[v]
    BY <1>1, <2>1, <2>2 DEF TypeOK, WithLeaf
  <2>6. InPlay' \subseteq InPlay \cup {n}
    BY <2>3, <2>5 DEF InPlay, Live
  <2>7. TakesOver(n, n.path)
    BY <2>4 DEF TakesOver
  <2> QED
    BY <2>3, <2>6, <2>7, WriterKeepsLast
<1>5. ASSUME NEW w \in Writers,
             CommitContext(w) \/ Committed(w) \/ Refused(w) \/ GiveUp(w) \/ Discard(w)
      PROVE  LastInv'
  <2>1. UNCHANGED blobs
    BY <1>5 DEF CommitContext, Committed, Refused, GiveUp, Discard, store
  <2>2. mc[w] \in InPlay
    BY <1>5 DEF CommitContext, Committed, Refused, GiveUp, Discard, Live, InFlight,
                InPlay
  <2>3. InPlay' \subseteq InPlay
    BY <1>1, <1>5, <2>2
       DEF CommitContext, Committed, Refused, GiveUp, Discard, InPlay, Live, InFlight,
           TypeOK
  <2> QED
    BY <2>1, <2>3 DEF LastInv, TakesOver, LastBefore
<1>6. ASSUME NEW w \in Writers, Deliver(w) PROVE LastInv'
  <2>1. mc[w] \in InPlay
    BY <1>6 DEF Deliver, InPlay, Live
  <2>2. InPlay' \subseteq InPlay
    BY <1>1, <1>6 DEF Deliver, InPlay, Live, InFlight, TypeOK
  <2>3. CASE Put(mc[w])
    BY <2>1, <2>2, <2>3, PutKeepsLastInv
  <2>4. CASE UNCHANGED store
    BY <2>2, <2>4 DEF store, LastInv, TakesOver, LastBefore
  <2> QED
    BY <1>6, <2>3, <2>4 DEF Deliver
<1>7. ASSUME NEW c \in late, LatePut(c) PROVE LastInv'
  <2>1. c \in InPlay /\ InPlay' \subseteq InPlay
    BY <1>7 DEF LatePut, InPlay, Live
  <2> QED
    BY <1>7, <2>1, PutKeepsLastInv DEF LatePut
<1>9. ASSUME NEW w \in Writers, MakeId(w) PROVE LastInv'
  BY <1>9 DEF MakeId, store, LastInv, TakesOver, LastBefore, InPlay, Live
<1>8. CASE UNCHANGED vars
  BY <1>8 DEF vars, LastInv, TakesOver, LastBefore, InPlay, Live
<1> QED
  BY <1>2, <1>3, <1>4, <1>5, <1>6, <1>7, <1>8, <1>9 DEF Next, WriterStep

(* The last id in the header of a massif is that of the last leaf of the   *)
(* log up to it, in a massif without leaves too, whatever races, retries   *)
(* and abandoned contexts there were.                                      *)
THEOREM LastId == Spec => []LastIdIsLast
<1>1. Init => LastInv
  BY DEF Init, LastInv, InPlay, Live, InFlight
<1>2. IInv /\ LastInv => LastIdIsLast
  BY DEF IInv, StoreOK, LastInv, TakesOver, LastBefore, LastIdIsLast, LastLeafId
<1> QED
  BY <1>1, <1>2, LastNext, Invariant, PTL DEF Spec

-----------------------------------------------------------------------------
(* The committer implements the append only log *)

(* If only the last massif has room the positions have no gaps.            *)
LEMMA LogGapFree == TypeOK /\ OnlyLastHasRoom => Promise!GapFree(DOMAIN Log)
<1> SUFFICES ASSUME TypeOK, OnlyLastHasRoom,
                    NEW p \in DOMAIN Log
             PROVE  /\ p[1] \in Nat
                    /\ p[2] \in 1 .. MassifLeaves
                    /\ \A j \in 1 .. p[2] : <<p[1], j>> \in DOMAIN Log
                    /\ \A i \in 0 .. p[1] - 1, j \in 1 .. MassifLeaves :
                         <<i, j>> \in DOMAIN Log
  BY DEF Promise!GapFree, Promise!Offsets
<1>1. /\ p[1] \in DOMAIN blobs /\ p[1] \in Nat
      /\ p[2] \in 1 .. Len(blobs[p[1]].leaves)
      /\ Len(blobs[p[1]].leaves) \in Nat
  BY LogPosition DEF TypeOK, Blob
<1>2. \A i \in DOMAIN blobs : \A j \in 1 .. Len(blobs[i].leaves) :
        <<i, j>> \in DOMAIN Log
  BY DEF Log
<1>3. p[2] \in 1 .. MassifLeaves
  BY <1>1, MassifLeavesAssumption DEF OnlyLastHasRoom
<1>4. ASSUME NEW j \in 1 .. p[2] PROVE <<p[1], j>> \in DOMAIN Log
  <2>1. j \in 1 .. Len(blobs[p[1]].leaves)
    BY <1>1
  <2> QED
    BY <1>1, <1>2, <2>1
<1>5. ASSUME NEW i \in 0 .. p[1] - 1, NEW j \in 1 .. MassifLeaves
      PROVE  <<i, j>> \in DOMAIN Log
  BY <1>1, <1>2 DEF OnlyLastHasRoom, Full
<1> QED
  BY <1>1, <1>3, <1>4, <1>5

(* A put keeps every position of the log, with its leaf.                   *)
LEMMA PutExtendsLog ==
  ASSUME IInv, TypeOK', NEW c \in InPlay, Put(c)
  PROVE  /\ DOMAIN Log \subseteq DOMAIN Log'
         /\ \A p \in DOMAIN Log : Log'[p] = Log[p]
<1> SUFFICES ASSUME NEW p \in DOMAIN Log
             PROVE  p \in DOMAIN Log' /\ Log'[p] = Log[p]
  OBVIOUS
<1> DEFINE i == p[1]
           k == p[2]
<1>1. /\ i \in DOMAIN blobs /\ k \in 1 .. Len(blobs[i].leaves) /\ p = <<i, k>>
      /\ Log[p] = blobs[i].leaves[k]
  BY LogPosition DEF IInv
<1>2. /\ i \in DOMAIN blobs' /\ Extends(blobs'[i].leaves, blobs[i].leaves)
  BY <1>1, PutGrows
<1>3. blobs[i].leaves \in Seq(Nat) /\ blobs'[i].leaves \in Seq(Nat)
  BY <1>1, <1>2 DEF IInv, TypeOK, Blob
<1>4. k \in 1 .. Len(blobs'[i].leaves) /\ blobs'[i].leaves[k] = blobs[i].leaves[k]
  BY <1>1, <1>2, <1>3 DEF Extends
<1> HIDE DEF i, k
<1>5. <<i, k>> \in DOMAIN Log' /\ Log'[<<i, k>>] = blobs'[i].leaves[k]
  BY <1>2, <1>4 DEF Log
<1> QED
  BY <1>1, <1>4, <1>5

(* Every step of the committer appends to the log, acknowledges, or leaves *)
(* both the log and what is acknowledged as they are.                      *)
THEOREM Refinement == Spec => AppendOnly
<1>1. Init => Promise!Init
  <2> SUFFICES ASSUME Init PROVE Promise!Init
    OBVIOUS
  <2>1. DOMAIN Log = {}
    BY DEF Init, Log
  <2>2. Log = [p \in {} |-> 0]
    BY <2>1 DEF Log
  <2> QED
    BY <2>2 DEF Init, Promise!Init
<1>2. IInv /\ IInv' /\ OrderInv /\ OrderInv' /\ [Next]_vars => [Promise!Next]_(Promise!vars)
  <2> SUFFICES ASSUME IInv, IInv', OrderInv, OrderInv', [Next]_vars
               PROVE  [Promise!Next]_(Promise!vars)
    OBVIOUS
  <2>1. CASE UNCHANGED <<store, acked>>
    <3>1. Log' = Log /\ acked' = acked
      BY <2>1 DEF store, Log
    <3> QED
      BY <3>1 DEF Promise!vars
  <2>2. ASSUME NEW c \in InPlay, Put(c), UNCHANGED acked PROVE Promise!Append
    <3>1. DOMAIN Log \subseteq DOMAIN Log' /\ \A p \in DOMAIN Log : Log'[p] = Log[p]
      BY <2>2, PutExtendsLog DEF IInv
    <3>2. Promise!GapFree(DOMAIN Log')
      <4>1. TypeOK' /\ OnlyLastHasRoom'
        BY DEF IInv, StoreOK
      <4>2. Promise!GapFree(DOMAIN Log)'
        BY <4>1, LogGapFree, PTL
      <4> QED
        BY <4>2 DEF Promise!GapFree, Promise!Offsets
    <3>3. IdsUnique'
      BY OrderedIsUnique, PTL
    <3> QED
      BY <2>2, <3>1, <3>2, <3>3 DEF Promise!Append, Promise!Distinct, IdsUnique
  <2>3. ASSUME NEW w \in Writers, Committed(w) PROVE Promise!Acknowledge
    <3>1. Leaves(mc[w].leaves) \subseteq Logged /\ AckedDurable
      BY <2>3 DEF Committed, IInv
    <3>2. Logged \subseteq Promise!Entries(Log)
      <4> SUFFICES ASSUME NEW i \in DOMAIN blobs,
                          NEW k \in 1 .. Len(blobs[i].leaves)
                   PROVE  blobs[i].leaves[k] \in Promise!Entries(Log)
        BY DEF Logged, Leaves
      <4>1. <<i, k>> \in DOMAIN Log /\ Log[<<i, k>>] = blobs[i].leaves[k]
        BY DEF Log
      <4> QED
        BY <4>1 DEF Promise!Entries
    <3>3. UNCHANGED Log
      BY <2>3 DEF Committed, store, Log
    <3> QED
      BY <2>3, <3>1, <3>2, <3>3 DEF Committed, AckedDurable, Promise!Acknowledge
  <2>4. UNCHANGED <<store, acked>> \/ Promise!Append \/ Promise!Acknowledge
    BY <2>2, <2>3, StepIsPut
  <2> QED
    BY <2>1, <2>4 DEF Promise!Next
<1> QED
  BY <1>1, <1>2, Invariant, Ordered, PTL DEF Spec, AppendOnly, Promise!Spec

=============================================================================
