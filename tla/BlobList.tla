------------------------------ MODULE BlobList ------------------------------
(***************************************************************************)
(* massifs/bloblast.go: finding the last blobs of a log in a listing that  *)
(* comes in pages, while writers go on creating and updating blobs.  The   *)
(* committer starts the next massif at the path numbered by the count, and *)
(* reads the last one under the etag it was listed with.                   *)
(*                                                                         *)
(* The path of a blob is its number, counted from 0: paths are listed in   *)
(* their order.  A blob is its etag.                                       *)
(***************************************************************************)
EXTENDS Integers, Sequences

CONSTANTS Tails,        \* lengths of tail that callers ask for
          MaxPage,      \* bound: items in a page
          MaxBlobs,     \* bound: blobs in the log
          MaxEtag       \* bound: writes to the log

ASSUME BoundsAssumption ==
  /\ Tails \subseteq Nat \ {0} /\ MaxPage \in Nat \ {0}
  /\ MaxBlobs \in Nat /\ MaxEtag \in Nat

VARIABLES
  blobs,      \* the store: the etag of each blob
  nextEtag,   \* etags are never reused
  pc,         \* "idle", "last" in LastPrefixedBlob, "tail" in PrefixedBlobLastN
              \* or how the call ended
  marker,     \* where the next page starts
  foundCount, \* local variable
  bc,         \* LastPrefixedBlob's result
  tail,       \* PrefixedBlobLastN's result
  seen        \* history: what the log was since the call began

listVars == <<blobs, nextEtag, pc, marker, foundCount, bc, tail, seen>>

(* An item of a page; NoItem is the zero value of a LogBlobContext.  Tags  *)
(* are known by the etag of the blob they were listed with.                *)
Item(p) == [path |-> p, etag |-> blobs[p + 1], tags |-> blobs[p + 1]]
NoItem == [path |-> 0, etag |-> 0, tags |-> 0]

ListInit ==
  /\ blobs = << >> /\ nextEtag = 1
  /\ pc = "idle"
  /\ marker = 0 /\ foundCount = 0 /\ bc = NoItem /\ tail = << >>
  /\ seen = {}

-----------------------------------------------------------------------------
(* Writers, which keep to the promise of module Committer *)

Create ==
  /\ Len(blobs) < MaxBlobs /\ nextEtag <= MaxEtag
  /\ blobs' = Append(blobs, nextEtag)

Update ==
  /\ blobs # << >> /\ nextEtag <= MaxEtag
  /\ blobs' = [blobs EXCEPT ![Len(blobs)] = nextEtag]

Write ==
  /\ Create \/ Update
  /\ nextEtag' = nextEtag + 1
  /\ seen' = IF pc \in {"last", "tail"} THEN seen \cup {blobs'} ELSE seen
  /\ UNCHANGED <<pc, marker, foundCount, bc, tail>>

-----------------------------------------------------------------------------
(* The listing *)

Call(op, n) ==
  /\ pc \notin {"last", "tail"}
  /\ pc' = op
  /\ marker' = 0 /\ foundCount' = 0 /\ bc' = NoItem
  /\ tail' = [k \in 1 .. n |-> NoItem]
  /\ seen' = {blobs}
  /\ UNCHANGED <<blobs, nextEtag>>

(* A page is empty if nothing is left, and only then; the one that reaches *)
(* the end may or may not say that it is the last.                         *)
Pages ==
  {[items |-> [k \in 1 .. n |-> Item(marker + k - 1)],
    more |-> more] :
     n \in {m \in 0 .. MaxPage : m <= Len(blobs) - marker}, more \in BOOLEAN}

Page(page) ==
  /\ Len(page.items) = 0 => marker = Len(blobs)
  /\ marker + Len(page.items) < Len(blobs) => page.more
  /\ marker' = marker + Len(page.items)

(* Slip: the first item of the page *)
FirstItem(b, page) ==
  [path |-> page.items[1].path, etag |-> page.items[1].etag,
   tags |-> IF page.more THEN b.tags ELSE page.items[1].tags]

(* The tags are taken over from a page that says it is the last, only *)
LastItem(b, page) ==
  LET i == page.items[Len(page.items)]
  IN [path |-> i.path, etag |-> i.etag,
      tags |-> IF page.more THEN b.tags ELSE i.tags]
CountFound(count, items) == count + Len(items)

LastPrefixedBlob(page) ==
  /\ pc = "last"
  /\ Page(page)
  /\ IF Len(page.items) = 0
     THEN UNCHANGED <<foundCount, bc>>
     ELSE /\ foundCount' = CountFound(foundCount, page.items)
          /\ bc' = LastItem(bc, page)
  /\ pc' = IF Len(page.items) = 0 \/ ~page.more THEN "lastFound" ELSE "last"
  /\ UNCHANGED <<blobs, nextEtag, tail, seen>>

(* copy(tail, tail[n-stale-1:]): the end of the tail moves to its front *)
Shifted(t, stale) ==
  LET from == Len(t) - stale - 1
  IN IF stale = Len(t) THEN t
     ELSE [k \in DOMAIN t |-> IF from + k <= Len(t) THEN t[from + k] ELSE t[k]]

(* The last of the items replace the last of the tail *)
Taken(t, items) ==
  LET stale == IF Len(items) < Len(t) THEN Len(items) ELSE Len(t)
      s == Shifted(t, stale)
  IN [k \in DOMAIN t |->
        IF k <= Len(t) - stale THEN s[k] ELSE items[Len(items) - Len(t) + k]]

PrefixedBlobLastN(page) ==
  /\ pc = "tail"
  /\ Page(page)
  /\ IF Len(page.items) = 0
     THEN UNCHANGED <<foundCount, tail>>
     ELSE /\ foundCount' = CountFound(foundCount, page.items)
          /\ tail' = Taken(tail, page.items)
  /\ pc' = IF Len(page.items) = 0 \/ ~page.more THEN "tailFound" ELSE "tail"
  /\ UNCHANGED <<blobs, nextEtag, bc, seen>>

(* A page that cannot be had ends the call with an error *)
ListError ==
  /\ pc \in {"last", "tail"}
  /\ pc' = "error"
  /\ UNCHANGED <<blobs, nextEtag, marker, foundCount, bc, tail, seen>>

ListNext ==
  \/ Write
  \/ Call("last", 0)
  \/ \E n \in Tails : Call("tail", n)
  \/ \E page \in Pages : LastPrefixedBlob(page) \/ PrefixedBlobLastN(page)
  \/ ListError

ListSpec == ListInit /\ [][ListNext]_listVars

-----------------------------------------------------------------------------
(* Properties *)

Items == [path : 0 .. MaxBlobs, etag : 0 .. MaxEtag, tags : 0 .. MaxEtag]

(* Every variable has its type, and the count is that of the items seen. *)
ListTypeOK ==
  /\ blobs \in Seq(1 .. MaxEtag) /\ Len(blobs) <= MaxBlobs
  /\ pc \in {"idle", "last", "tail", "lastFound", "tailFound", "error"}
  /\ marker \in 0 .. Len(blobs)
  /\ foundCount = marker
  /\ bc \in Items
  /\ tail \in Seq(Items)

(* Is b the last blob of the log, with its tags or without *)
IsLastOf(b, log) ==
  IF log = << >> THEN b = NoItem
  ELSE /\ b.path = Len(log) - 1
       /\ b.etag = log[Len(log)]
       /\ b.tags \in {0, b.etag}

(* The last blob and the count are those of one moment of the call, though *)
(* the pages are of many: the committer may take the listing as one step,  *)
(* and the path it numbers by the count follows the blob it read.          *)
ListingIsAtomic ==
  pc = "lastFound" =>
    \E log \in seen : foundCount = Len(log) /\ IsLastOf(bc, log)

(* "The number of items in the returned tail is always min(massifCount,    *)
(* n).  Un filled items are zero valued": the tail has the last blobs of   *)
(* the log, in their order (massifs/bloblast.go:92).                       *)
TailIsLast ==
  pc = "tailFound" =>
    \A k \in DOMAIN tail :
      LET p == foundCount - Len(tail) + k - 1
      IN IF p < 0 THEN tail[k] = NoItem ELSE tail[k].path = p /\ tail[k].etag # 0

=============================================================================
