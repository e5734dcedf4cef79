----------------------------- MODULE Committer -----------------------------
(***************************************************************************)
(* massifs/massifcommitter.go and the parts of massifs/massifcontext.go it *)
(* relies on: several writers, in several processes, extend one tenant's   *)
(* log with no lock between them.  The log is a run of massif blobs in an  *)
(* object store.  A writer lists the blobs, reads the last one, adds       *)
(* leaves to its private copy and puts the whole blob back under an etag   *)
(* condition; the store decides who wins.                                  *)
(*                                                                         *)
(* Data is abstracted to leaves: a leaf is its id timestamp, a blob is the *)
(* sequence of its leaves, and the mmr index FirstIndex of a massif is the *)
(* number of leaves before it.  Module Massif models the nodes.            *)
(***************************************************************************)
EXTENDS Integers, Sequences, FiniteSets

CONSTANTS Writers,        \* processes that write to the tenant's log
          MassifLeaves,   \* leaves in a full massif, 2^(MassifHeight - 1)
          ClocksAgree,    \* the generators' clocks agree on the time of an id
          MaxId,          \* bound: the largest id timestamp
          MaxMade,        \* bound: leaves a writer has yet to add
          MaxPuts,        \* bound: successful puts
          MaxLate         \* bound: puts abandoned by their writer

(* "We require that count to be a power of 2 and > 1", massifcontext.go:39 *)
ASSUME MassifLeavesAssumption == MassifLeaves \in Nat /\ MassifLeaves > 1
ASSUME BoundsAssumption ==
  /\ ClocksAgree \in BOOLEAN
  /\ MaxId \in Nat /\ MaxMade \in Nat /\ MaxPuts \in Nat /\ MaxLate \in Nat

VARIABLES
  blobs,      \* the object store: the massif blob at each path that exists
  nextEtag,   \* the store's next etag; etags are never reused
  pc,         \* where each writer is in GetCurrentContext .. CommitContext
  mc,         \* each writer's MassifContext
  late,       \* puts abandoned by their writer that may still reach the store
  issued,     \* ids each writer's generator has issued
  made,       \* of those, the ids of leaves each writer has yet to add
  acked       \* history: leaves a writer has been told are committed

vars == <<blobs, nextEtag, pc, mc, late, issued, made, acked>>

NoEtag == 0

Id == 1 .. MaxId

Leaves(s) == {s[k] : k \in 1 .. Len(s)}

(* A stored blob: its etag, what its header and tags record and its leaves *)
Blob == [etag : Nat, index : Nat, lastID : Nat, tagFirst : Nat,
         leaves : Seq(Nat)]

MassifContext ==
  [path : Nat, count : Nat, etag : Nat, creating : BOOLEAN, index : Nat,
   firstLeaf : Nat, lastID : Nat, tagFirst : Nat, leaves : Seq(Nat)]

NoContext ==
  [path |-> 0, count |-> 0, etag |-> NoEtag, creating |-> FALSE, index |-> 0,
   firstLeaf |-> 0, lastID |-> 0, tagFirst |-> 0, leaves |-> << >>]

Init ==
  /\ blobs = [p \in {} |-> 0]
  /\ nextEtag = 1
  /\ pc = [w \in Writers |-> "idle"]
  /\ mc = [w \in Writers |-> NoContext]
  /\ late = {}
  /\ issued = [w \in Writers |-> {}]
  /\ made = [w \in Writers |-> {}]
  /\ acked = {}

store == <<blobs, nextEtag>>
ids == <<issued, made>>

-----------------------------------------------------------------------------
(* GetCurrentContext: list, read the last blob, extend it or start the next *)

createFirstMassifContext == [NoContext EXCEPT !.creating = TRUE]

(* The last blob and the number of blobs, as the listing shows them *)
GetLastMassif(w) ==
  /\ pc[w] = "idle"
  /\ IF blobs = [p \in {} |-> 0]
     THEN /\ pc' = [pc EXCEPT ![w] = "open"]
          /\ mc' = [mc EXCEPT ![w] = createFirstMassifContext]
     ELSE \E last \in DOMAIN blobs :
            /\ \A p \in DOMAIN blobs : p <= last
            /\ pc' = [pc EXCEPT ![w] = "listed"]
            /\ mc' = [mc EXCEPT ![w] =
                       [NoContext EXCEPT !.path = last,
                                         !.count = Cardinality(DOMAIN blobs),
                                         !.etag = blobs[last].etag]]
  /\ UNCHANGED <<store, late, ids, acked>>

(* The header's FirstIndex is not stored, it is derived from the index *)
MassifFirstLeaf(index) == MassifLeaves * index

(* What the read of blob b leaves in context c *)
ReadBlob(c, b) ==
  [c EXCEPT !.index = b.index, !.firstLeaf = MassifFirstLeaf(b.index),
            !.lastID = b.lastID, !.tagFirst = b.tagFirst, !.leaves = b.leaves]

(* Slip: a full massif is taken to have room for one more leaf *)
HasSpaceOffByOne(c) == Len(c.leaves) <= MassifLeaves

HasSpace(c) == Len(c.leaves) < MassifLeaves

RangeCount(c) == c.firstLeaf + Len(c.leaves)

(* Slips in starting a massif: an index that goes down, a tag that stays, a *)
(* lastID that is forgotten, the data of the predecessor kept               *)
StartPreviousIndex(c) ==
  [c EXCEPT !.path = c.count, !.etag = NoEtag, !.creating = TRUE,
            !.index = c.index - 1, !.firstLeaf = RangeCount(c),
            !.tagFirst = RangeCount(c), !.leaves = << >>]
StartWithStaleTag(c) ==
  [c EXCEPT !.path = c.count, !.etag = NoEtag, !.creating = TRUE,
            !.index = c.index + 1, !.firstLeaf = RangeCount(c), !.leaves = << >>]
StartWithoutLastID(c) ==
  [c EXCEPT !.path = c.count, !.etag = NoEtag, !.creating = TRUE,
            !.index = c.index + 1, !.firstLeaf = RangeCount(c), !.lastID = 0,
            !.tagFirst = RangeCount(c), !.leaves = << >>]
StartWithOldLeaves(c) ==
  [c EXCEPT !.path = c.count, !.etag = NoEtag, !.creating = TRUE,
            !.index = c.index + 1, !.firstLeaf = RangeCount(c),
            !.tagFirst = RangeCount(c)]

StartNextMassif(c) ==
  [c EXCEPT !.path = c.count, !.etag = NoEtag, !.creating = TRUE,
            !.index = c.index + 1, !.firstLeaf = RangeCount(c),
            !.tagFirst = RangeCount(c), !.leaves = << >>]

(* The read carries an etag condition: it fails if the blob moved on since *)
(* the listing.  It also fails if the tag disagrees with the header.       *)
GetCurrentContext(w) ==
  /\ pc[w] = "listed"
  /\ LET c == ReadBlob(mc[w], blobs[mc[w].path])
     IN IF /\ mc[w].path \in DOMAIN blobs
           /\ blobs[mc[w].path].etag = mc[w].etag
           /\ c.tagFirst = c.firstLeaf
        THEN /\ pc' = [pc EXCEPT ![w] = "open"]
             /\ mc' = [mc EXCEPT ![w] = IF HasSpace(c) THEN c
                                        ELSE StartNextMassif(c)]
        ELSE /\ pc' = [pc EXCEPT ![w] = "idle"]
             /\ mc' = [mc EXCEPT ![w] = NoContext]
  /\ UNCHANGED <<store, late, ids, acked>>

-----------------------------------------------------------------------------
(* AddHashedLeaf *)

IssuedIds == UNION {issued[v] : v \in Writers}

(* Slip: the generator does not remember the last id it issued *)
NextIDForgetful(w) == Id \ IssuedIds

(* The ids writer w's generator may issue next: later than all it issued   *)
(* and never one of another worker's.  If the clocks agree the ids of all  *)
(* workers are in the order of issue, in which they are then numbered.     *)
NextID(w) ==
  {id \in Id \ IssuedIds :
     /\ \A j \in issued[w] : j < id
     /\ ClocksAgree => \A j \in Id : j < id <=> j \in IssuedIds}

(* A batch of leaves gets its ids before it is added *)
MakeId(w) ==
  /\ pc[w] = "open"
  /\ Cardinality(made[w]) < MaxMade
  /\ \E id \in NextID(w) :
       /\ issued' = [issued EXCEPT ![w] = @ \cup {id}]
       /\ made' = [made EXCEPT ![w] = @ \cup {id}]
  /\ UNCHANGED <<store, pc, mc, late, acked>>

(* ErrMassifFull leaves the context as it is *)
AddHashedLeaf(w) ==
  /\ pc[w] = "open"
  /\ HasSpace(mc[w])
  /\ \E id \in made[w] :
       /\ \A j \in made[w] : id <= j
       /\ mc' = [mc EXCEPT ![w].leaves = Append(@, id), ![w].lastID = id]
       /\ made' = [made EXCEPT ![w] = @ \ {id}]
  /\ UNCHANGED <<store, pc, late, issued, acked>>

-----------------------------------------------------------------------------
(* CommitContext and the store *)

(* Slips: an update, or a creation, that is put unconditionally *)
UpdateUnconditionally(c) == c.creating => c.path \notin DOMAIN blobs
CreateUnconditionally(c) ==
  c.etag # NoEtag => /\ c.path \in DOMAIN blobs
                     /\ blobs[c.path].etag = c.etag

Precondition(c) ==
  /\ c.etag # NoEtag => /\ c.path \in DOMAIN blobs
                        /\ blobs[c.path].etag = c.etag
  /\ c.creating => c.path \notin DOMAIN blobs

Stored(c) ==
  [etag |-> nextEtag, index |-> c.index, lastID |-> c.lastID,
   tagFirst |-> c.tagFirst, leaves |-> c.leaves]

Put(c) ==
  /\ nextEtag <= MaxPuts
  /\ Precondition(c)
  /\ blobs' = [p \in DOMAIN blobs \cup {c.path} |->
                 IF p = c.path THEN Stored(c) ELSE blobs[p]]
  /\ nextEtag' = nextEtag + 1

(* The context is passed by value and not refreshed by a commit: it keeps  *)
(* its etag and its Creating flag whatever the outcome.                    *)
CommitContext(w) ==
  /\ pc[w] = "open"
  /\ mc[w].etag # NoEtag \/ mc[w].creating
  /\ pc' = [pc EXCEPT ![w] = "sent"]
  /\ UNCHANGED <<store, mc, late, ids, acked>>

InFlight == {"sent", "stored", "refused"}

(* The request reaches the store, and may reach it again when the client   *)
(* library resends it: the writer sees the answer to the last delivery.    *)
Deliver(w) ==
  /\ pc[w] \in InFlight
  /\ \/ /\ Put(mc[w])
        /\ pc' = [pc EXCEPT ![w] = "stored"]
     \/ /\ ~Precondition(mc[w])
        /\ pc' = [pc EXCEPT ![w] = "refused"]
        /\ UNCHANGED store
  /\ UNCHANGED <<mc, late, ids, acked>>

(* A request whose writer gave up reaches the store after all *)
LatePut(c) ==
  /\ Put(c)
  /\ UNCHANGED <<pc, mc, late, ids, acked>>

(* Slip: the store's refusal is reported as success *)
CommittedDespiteError(w) ==
  /\ pc[w] \in {"stored", "refused"}
  /\ pc' = [pc EXCEPT ![w] = "open"]
  /\ acked' = acked \cup Leaves(mc[w].leaves)
  /\ UNCHANGED <<store, mc, late, ids>>

(* CommitContext returns without error *)
Committed(w) ==
  /\ pc[w] = "stored"
  /\ pc' = [pc EXCEPT ![w] = "open"]
  /\ acked' = acked \cup Leaves(mc[w].leaves)
  /\ UNCHANGED <<store, mc, late, ids>>

(* CommitContext returns the store's error *)
Refused(w) ==
  /\ pc[w] = "refused"
  /\ pc' = [pc EXCEPT ![w] = "open"]
  /\ UNCHANGED <<store, mc, late, ids, acked>>

(* CommitContext returns a timeout: the request may or may not arrive *)
GiveUp(w) ==
  /\ pc[w] \in {"sent", "stored"}
  /\ pc' = [pc EXCEPT ![w] = "open"]
  /\ IF pc[w] = "sent"
     THEN /\ Cardinality(late) < MaxLate
          /\ late' = late \cup {mc[w]}
     ELSE late' = late
  /\ UNCHANGED <<store, mc, ids, acked>>

(* The writer drops its context, by choice or because it crashed, and with *)
(* it the rest of its batch or not: after ErrMassifFull the leaf it could  *)
(* not add goes to the next context.  A writer that crashes with a request *)
(* in flight first gives up.                                               *)
Discard(w) ==
  /\ pc[w] = "open"
  /\ pc' = [pc EXCEPT ![w] = "idle"]
  /\ mc' = [mc EXCEPT ![w] = NoContext]
  /\ made' \in {made, [made EXCEPT ![w] = {}]}
  /\ UNCHANGED <<store, late, issued, acked>>

-----------------------------------------------------------------------------

WriterStep(w) ==
  \/ GetLastMassif(w) \/ GetCurrentContext(w)
  \/ MakeId(w) \/ AddHashedLeaf(w)
  \/ CommitContext(w) \/ Deliver(w) \/ Committed(w) \/ Refused(w)
  \/ GiveUp(w) \/ Discard(w)

Next ==
  \/ \E w \in Writers : WriterStep(w)
  \/ \E c \in late : LatePut(c)

Spec == Init /\ [][Next]_vars

-----------------------------------------------------------------------------
(* Properties *)

(* Every variable has its type. *)
TypeOK ==
  /\ DOMAIN blobs \subseteq Nat
  /\ \A p \in DOMAIN blobs : blobs[p] \in Blob
  /\ nextEtag \in Nat \ {0}
  /\ pc \in [Writers -> {"idle", "listed", "open"} \cup InFlight]
  /\ mc \in [Writers -> MassifContext]
  /\ late \subseteq MassifContext
  /\ issued \in [Writers -> SUBSET Nat]
  /\ made \in [Writers -> SUBSET Nat]
  /\ acked \subseteq Nat

(* The log read back from the store, blob by blob *)
Log ==
  [p \in UNION {{i} \X (1 .. Len(blobs[i].leaves)) : i \in DOMAIN blobs} |->
     blobs[p[1]].leaves[p[2]]]

Logged == UNION {Leaves(blobs[i].leaves) : i \in DOMAIN blobs}

(* A commit that returned without error is never undone by a racing, late, *)
(* repeated or stale commit: the etag guard of CommitContext.              *)
AckedDurable == acked \subseteq Logged

Full(i) == i \in DOMAIN blobs /\ Len(blobs[i].leaves) = MassifLeaves

(* The massif blobs have no gap, none overflows and only the last one has  *)
(* room, whoever created them: GetCurrentContext's choice between          *)
(* extending a massif and creating one, and AddHashedLeaf's ErrMassifFull. *)
OnlyLastHasRoom ==
  \A i \in DOMAIN blobs :
    /\ Len(blobs[i].leaves) <= MassifLeaves
    /\ \A j \in 0 .. i - 1 : Full(j)

(* The header and the tag of each blob say where it is in the log: so the  *)
(* tag check of GetCurrentContext never locks a tenant out of its log.     *)
HeadersLocate ==
  \A i \in DOMAIN blobs :
    /\ blobs[i].index = i
    /\ blobs[i].tagFirst = MassifFirstLeaf(i)

(* The lastID a massif records is the id of the last leaf of the log up to *)
(* it, carried over from its predecessor when it has no leaf yet.          *)
LastIdIsLast ==
  \A i \in DOMAIN blobs :
    blobs[i].lastID =
      IF blobs[i].leaves # << >> THEN blobs[i].leaves[Len(blobs[i].leaves)]
      ELSE IF i = 0 THEN 0 ELSE blobs[i - 1].lastID

(* "There is a 1:1 mapping from snowflake id to log position", and a commit *)
(* that is retried, repeated or arrives late does not break it.             *)
IdsUnique ==
  \A p, q \in DOMAIN Log : Log[p] = Log[q] => p = q

Before(p, q) == p[1] < q[1] \/ (p[1] = q[1] /\ p[2] < q[2])

(* The leaves of one writer are in the log in the order of their ids, also *)
(* when a batch goes on in another massif or in a context read again.      *)
LeavesInIdOrder ==
  \A w \in Writers : \A p, q \in DOMAIN Log :
    Before(p, q) /\ Log[p] \in issued[w] /\ Log[q] \in issued[w] => Log[p] < Log[q]

(* A massif that is full never changes again, except for its etag. *)
FullMassifFrozen ==
  [][\A i \in DOMAIN blobs :
       Len(blobs[i].leaves) = MassifLeaves =>
         /\ i \in DOMAIN blobs'
         /\ blobs'[i] = [blobs[i] EXCEPT !.etag = blobs'[i].etag]]_blobs

(* The committer implements the append only log. *)
Promise == INSTANCE AppendOnlyLog WITH log <- Log
AppendOnly == Promise!Spec

=============================================================================
