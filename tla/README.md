# go-datatrails-merklelog in TLA+

go-datatrails-merklelog keeps, for each tenant, an append only log of 32 byte
entries as a Merkle mountain range (MMR). The range is cut into *massifs*, blobs
of a fixed number of leaves in an object store. Writers with no lock between them
extend the log; sealers sign its state; anyone can replicate and verify it.

This directory models the parts of the repository that decide whether the log
is append only, whether its ids are unique and ordered and whether its proofs
mean what they say. TLC checks the models on small instances; TLAPS proves the
main results for every size. Paths are those of the repository's source.

## The system

| Component | State it keeps | Operations | Talks to |
|---|---|---|---|
| Committer, `massifs/massifcommitter.go` | none of its own: a `MassifContext` is handed to the caller and back | `GetCurrentContext`, `CommitContext` | blob store, listing, massif context |
| Id generator, `massifs/snowflakeid` | one atomic 64 bit word for each process | `NextID` | the clock; callers add its ids to massifs |
| MMR arithmetic and construction, `mmr/` | none: a flat sequence of nodes is passed in | `AddHashedLeaf`, `Peaks`, `IndexHeight`, `LeafCount`, ... | called by everything below |
| MMR proofs, `mmr/` | none | inclusion and consistency proofs and their verification, against the peaks or one bagged root | verified contexts, receipts |
| Massif context, `massifs/massifcontext.go` | one massif in memory: header, index, peak stack, nodes, and how far the stack is used | `AddHashedLeaf`, `Get`, `StartNextMassif`, `CreatePeakStackMap` | MMR, committer, readers |
| Blob listing, `massifs/bloblast.go` | none | `LastPrefixedBlob`, `FirstPrefixedBlob`, `PrefixedBlobLastN` | blob store, page by page |
| Massif reader, `massifs/masssifreader.go` | none | `GetMassif`, `GetHeadMassif`, ... | blob store |
| Sealing, `massifs/rootsigner.go`, `signedrootreader.go`, `testcommitter.go` | the seal blob of each massif | `Sign1`, `GetSignedRoot`, `ContextCommitted` | a signer, blob store |
| Verified contexts, `massifs/massifcontextverified*.go` | the caller's trusted state | `GetVerifiedContext`, `verifyContext` | reader, seals, proofs |
| Receipts, `massifs/mmriver.go` | none | `NewReceipt` | verified contexts, pre-signed peaks |
| Local replica, `massifs/localmassifreader.go`, `logdircache.go` | two files for each massif, and in each process a cache of directories | `ReplaceVerifiedContext`, `GetMassif`, `GetVerifiedContext`, ... | verified contexts, file system |
| Watcher, `massifs/watcher` | the horizon and the tails collated so far | `ConfigDefaults`, `FirstFilter`, `NextFilter`, `CollatePage` | blob index tags, by last id |
| Id formats and tags | none | conversions | all of the above |

What makes these hard, and what correctness means for each:

- **Committer.** Any number of writers list, read, extend and put at once. The
  only protection is the etag of the blob. A put may be refused, resent, arrive
  after its writer gave up or have its answer lost; a context may be put twice.
  The log must never lose, repeat, move or replace a leaf, and the massifs must
  have no gap.
- **Id generator.** Goroutines race with compare and swap; the sequence number
  runs out; clocks pause; processes restart; the epoch ends. Ids must be unique,
  go up for each worker, not be backdated, and callers must be served. What a restart
  leaves of that depends on the clock.
- **MMR.** Everything follows from the binary form of an index, and one error at
  one boundary shifts all later nodes. Construction has to give the tree, each
  way to compute a height or a peak has to agree with it, and proofs must accept
  what is in the log and nothing else.
- **Massif context.** A massif has to be usable without the ones before it. What
  is carried over is a stack of peaks, read by a counter and not by an index
  while adding leaves, and by a map while proving.
- **Listing.** The answer comes in pages while the log changes.
- **Sealing and verification.** Massif and seal are two blobs, written and read
  one after the other, and seals are put without an etag. Seals do not carry the
  peaks that were signed: they are taken from the data that is being verified. A
  reader must never give up what it trusts for another history, should be refused
  only for reasons that pass, and should not get stuck on a state it trusts.
- **Local replica.** Two files are truncated and written one after the other, by a
  process that may stop anywhere; caches never look twice. What is whole must be
  served, what was replaced must be served by its replicator at once, and
  replicating again must repair the rest.
- **Watcher.** A poll asks for what changed within the horizon; the index lags
  behind the commits, and polls fail. Nothing that could be seen may be left out.

`PROJECT.json` lists each hazard at the line where it bites, with the properties
that would catch it going wrong.

## Modules

| Module | What it models |
|---|---|
| `AppendOnlyLog` | What a log promises: entries are appended, in massifs, and acknowledged. The abstract specification of `Committer`. |
| `Committer`, `MCCommitter` | Writers racing for massif blobs. Nodes are left out: a massif is the sequence of its leaves' ids. |
| `CommitterProofs` | Theorems about `Committer`. |
| `IdSource` | What the generators promise: no id from two workers, the ids of a worker go up in each of its lives, and over a restart as far as the clock allows. The abstract specification of `SnowflakeID`. |
| `SnowflakeID`, `MCSnowflakeID` | `NextID`, step by step between its atomic operations. |
| `SnowflakeProofs` | Theorems about `SnowflakeID`. |
| `MMR` | The index arithmetic: operators, one for each function of the code. |
| `MMRProofs` | What they compute, for every index, and the nodes, peaks and proofs of a range over any leaves: theorems and the lemmas that the proofs about the modules below need. |
| `MMRTree` | A reference: the nodes of a mountain range in post order, without arithmetic on indices. |
| `MMRBuild` | `mmr.AddHashedLeaf`, one append at a time, against `MMRTree`. |
| `MMRProof` | Inclusion and consistency proofs against the peaks: operators. |
| `MMRBagged` | The same against one bagged root, as seals of version 0 have it, and the extension of a proof to a later range: operators. |
| `MMRVerify`, `MCMMRVerify` | A verifier that remembers a size and its peaks, or the bagged root, and a store that may be put back and fork. |
| `MMRVerifyProofs` | Theorems about `MMRBuild` and `MMRVerify`: how a range is built, and what its peaks and their bag show of it. |
| `Massif` | One `MassifContext` through all massifs of a log, at the level of nodes, with what is in the blob told apart from what is not. Uses `MMRProof`. |
| `MassifProofs` | Theorems about `Massif` and `VerifiedContext`, which rest on those of `MMRVerifyProofs` about bags of peaks. |
| `VerifiedContext` | Signing the peaks of a context, `verifyContext` for both versions of seals, receipts: operators on the contexts of `Massif`, which it extends, and properties of them in all its states. |
| `BlobList` | Listings in pages while writers go on. |
| `Sealing`, `SealingProofs` | Sealers that race, a reader that fetches massif and seal in two steps, a store that is put back; theorems. |
| `Replica`, `ReplicaProofs` | Files, caches, failures and restarts of a replica; theorems. |
| `Watcher`, `MCWatcher` | Commits, the lagging index, polls and collation. |
| `ListingProofs` | Theorems about `Watcher` and `BlobList`. |

The modules meet where the code does. `Committer` takes a listing as one step
(`BlobList` shows that it may), takes ids from generators of which it assumes what
`IdSource` says, and takes a massif as its leaves (`Massif` shows that the nodes,
the header and the tests for room follow from them). `Massif` and `MMRVerify` take
`AddHashedLeaf` as one step (`MMRBuild` looks at each append). `Sealing` takes a
massif as the log up to its end and a verification as "the seal's leaves begin the
massif's, and so do the trusted state's if it is in reach": `VerifiedContext` shows
that this is what `verifyContext` computes from nodes, stack and seal, *in reach*
included; that the log only grows is `Committer`. `Replica` takes massifs and seals
as numbers of leaves, since the remote log only grows and what is replaced was verified.

### How state and actions correspond to the code

**Committer.** `blobs` is the store, `mc[w]` the context writer `w` holds, `pc[w]`
where it is between `GetCurrentContext` and the return of `CommitContext`.
`GetLastMassif` is the listing; `GetCurrentContext` the read under the listed etag,
with the check of the first index tag and the start of the next massif;
`AddHashedLeaf` adds to the private copy; `CommitContext` sends the put; `Deliver`
is its arrival, which may happen again; `GiveUp` and `LatePut` are a timeout and a
put that arrives nevertheless; `Discard` drops the context, by choice or by a crash. `MakeId`
is the id of a leaf of a batch, which a caller has before it adds the leaf: the id is
an argument of `AddHashedLeaf`. After `ErrMassifFull` the rest of the batch keeps
its ids and goes to a context that is read again (`testcommitter.go:163-190`), so a
`Discard` keeps `made[w]` or drops it. The code passes the context by value and does not refresh its etag: a caller may go on
with it, and in the model does. Ids are numbers from 1; `NextID` gives any id the
generators might.

**SnowflakeID.** `pc[t]` stands between the clock, the load and the compare and swap
of a call. An id is a record of its three fields, compared in their order. `Tick`
moves one clock; a clock may stand still. `Restart` is a process that starts again
with nothing remembered, at any time: the wall clock "_does_ go backwards"
(`nextid.go:267`), and the last id of the life before may have been ahead of the clock. For
each id the history `issued` has the life it was given out in and the clock at which that
life began. `allowSpins` is 0, which is what
`NewIDState` leaves it at.

**MMRBuild.** `appended` is the store, `nextIndex` and `loopHeight` are the variables of
`AddHashedLeaf`. `AppendLeaf` is the call up to its first append, `AppendParent` a round
of the loop, `Return` its end. `MassifProofs` extends `Massif`, `MMRBuild` and
`MMRVerify`, so what they all have is called differently in each.

**MMR, MMRProof, MMRBagged.** Loops are recursive functions or folds; a loop over several
variables is a function of one tuple, which the provers can reason about. A
hash is the tuple of what is hashed, so two are equal exactly if they commit to the
same. Numbers are not bounded; 64 bits are enough for any log that fits a store. A
function that can return an error has a predicate that says when it does not.
The loop of `InclusionProofLocalExtend` counts heights from 0 whatever node it starts at:
`ascent` and `SiblingAt` have that, and the heights it reaches are those up to which it has
met a sibling in the log; `HeightsBeyond` is where it takes notice of the earlier log.
`proofold.go` and `verifyold.go` are the code of `InclusionProofLocal` and
`VerifyInclusionBagged` under other names.

**MMRVerify.** `Accept` is `mmr.CheckConsistency` with the trusted peaks, as
`verifyContext` calls it (`massifcontextverified.go:252`). `MassifContext.CheckConsistency`,
which has no caller, is `ContextCheckConsistency`: it does not look at a store of the trusted
size, and with it `NeverAcceptsAFork` would not hold. The store is put back
by `PutBack` and grows again by `Add`, so it may fork at any point behind or before
the trusted state.

**Massif.** `mc` is the context. `Reopen` writes and reads the blob: `FirstIndex` and
`PeakStackLen` are not stored and are derived again, the peak map and the counter of
used ancestors are lost. `AddLeaf` is the whole of `AddHashedLeaf`, index entry, last
id, nodes and all, or nothing if it fails. `kept` is a copy of the context of the massif before, as
Go copies it: the header by value, the data by reference.

**VerifiedContext.** A seal is what was signed (the peaks, or the bag of them), the
size and the receipts signed in advance. `ContextCommitted` reads the peaks through
the context as it is, map or not, and each read without a map uses up an ancestor.
`verifyContextV1V2` and `verifyContextV0` are the checks in the order of the code over
the nodes the context can read. A signature holds if what the verifier puts back is
what was signed. `NewReceipt` is of a verified context.

**BlobList.** A page has any number of items up to a bound; an empty page is only
returned at the end, after a page that did not say it was the last.

**Sealing.** `Commit` is a commit and the signature of `ContextCommitted`; `PutSeal`
the put that follows, which may never come (`Abandon`) or come after a later one.
`AddLeaves` makes a peak map for the context it begins with, and none for the one it reads
after `ErrMassifFull` (`testcommitter.go:157,176`): `mapped[s]`. Without a map a read of an
ancestor takes the next one there is (`peakStackIndex`), so that with two or more peaks
before the massif (`AncestorPeaks`) a full massif is sealed over them in reverse
(`Reordered`), and another cannot be sealed at all: the stack is used from the highest peak
only, and the second read is an error (`Signed`). `SealedPeaks` of `VerifiedContext` is about
the same at the level of nodes.
`GetMassif` and `GetSignedRoot` are the two reads of `GetVerifiedContext`; the second
verifies, and its state is the trusted base of the next call. `PutBack` is a store
that is restored from a backup and grows differently. A leaf is the number of times
the store had been put back when it was added: logs fork only so.

**Replica.** A file is not there, too short for its header, torn, cut off at the end
of a leaf, or whole. `ReplaceVerifiedContext` creates the massif file, `WriteMassif`,
`CreateSeal` and `WriteSeal` are the other steps of the call, the last with the
update of the caches; `Fail` is an error of a write, `Restart` a process that stops
anywhere and starts with empty caches, `DeleteEntry` what a caller does to read a
directory again. `GetVerifiedContext` fills the caches: a directory is scanned when it
has no entry and never again. What a process would be told is the operator `Outcome`.

**Watcher.** `Commit` tags a blob with the time of its last id, `Index` is when the
index has the tag, at most `Lag` later. `NewWatcher` is `ConfigDefaults` with its
errors; `Poll` computes the filter and makes a collator; `CollectPageItem` is one item of
a page, in any order; a page that is asked for again with the marker it had changes
nothing. `FailPoll` is a page that is not listed, or has an item whose path cannot be parsed
(`logtails.go:167,211`): the poll is over, what was collated is dropped and the next one
begins an interval later. `EndPoll` is a poll whose last page was collated. The loop around the
polls is the caller's and not in the repository: it is taken to use the first filter
until a poll is complete, and no visitor. `began`, `visible` and `reported` are histories: when a
poll began, and what the index had then; the same of the last complete poll; and what a
caller that keeps the newest tails knows.

## Runs

| Run | Shows | Bounds |
|---|---|---|
| `committer` | The log stays append only, has no gap, no id twice and the leaves of each writer in id order; what was acknowledged stays; full massifs are frozen; headers and tags are right. | Two writers, massifs of 2 leaves, 3 ids, of which a writer has up to two ahead, 3 puts, one late put: enough for a massif to fill, the next to be created by two at once, and a stale, repeated or late put of each kind to meet either. Clocks agree, so that ids are numbered in the order of issue and few are enough; the theorems do not need it. |
| `snowflake` | Ids are unique and go up per worker across races and drift; over a restart, at whatever time, those do whose time was over; none is backdated. At the end of the epoch the generator stops and does not repeat; `ErrSequenceViolation` is seen only there; until then callers are served. | Two goroutines in a process, which starts twice and is to give out 4 ids, and one in another; a sequence of 2, an epoch and clocks of 3 milliseconds: the sequence runs out within a millisecond, the value runs ahead of the clock, a new life may begin before, at or after any id of the old one, and clock and value reach the end of the epoch. |
| `mmr_build` | Every node of every range of up to 64 leaves has the place, height, children, ancestors and leaf number it should; peaks are those of the tree. | 64 leaves: seven heights, every shape of the peaks of up to six bits. |
| `mmr_verify` | A verifier of peaks or of the bagged root never accepts a fork and never refuses an extension; inclusion proofs, of either kind, show the right value and no other; a leaf's proof in a later range begins with its proof in the earlier one. | All logs of up to 7 leaves over two values: all pairs of shapes of three bits and every fork. |
| `massif` | The log cut in massifs is the undivided log; what is not stored can be derived; each massif is self contained; a leaf is refused only when it should be. Seals of each size and both versions verify their own log and no fork of it; a trusted state is shown to be extended exactly if it is in reach; there is a receipt of each leaf that a seal covers, and it shows the leaf. | Heights 2, 3 and 4, 20 leaves: up to 10 massifs, stacks of up to 3 peaks; the forks tried are at the first leaf, just before and just after the last sealed one, and none. |
| `massif_receipt` | Violation: an interior node has no receipt, or another peak's. | as above |
| `massif_alias` | Violation: the peak stack of a kept context is overwritten. | Heights 2 and 3, 8 leaves. |
| `bloblist` | The last blob and the count are of one moment of the call. | Up to 5 blobs, 6 writes, pages of up to 3. |
| `bloblist_tail` | Violation: an item of the tail is lost. | as above, tails of 1 to 3 |
| `sealing` | No seal that is stale, slow or from before the store was put back makes a reader leave the history it trusts; refusals have one of five reasons, a seal signed without a peak map being one; a reader that goes on trying comes to trust the whole log. | Two sealers, massifs of 2 leaves, 12 leaves that are there at first and up to 14, one put back: the massif that fills has two peaks before it, the fewest that a sealer without a map gets wrong; a seal can be overtaken in its massif or from the next, and a reader may be behind by any number of the earlier massifs. |
| `replica` | What is intact is served by a process that starts then; the replicator serves what it replaced; replicating again repairs everything. | Two massifs of 2 leaves. One process: the others change no file, and what a process that starts now is served is part of each property. |
| `watcher` | Complete polls leave out nothing that was visible when they began, whichever polls fail. | One log of two massifs, 3 commits, 8 moments, one failure in a row, lag, poll and interval of 1, and horizons of 5, which just covers them (with 4 a change is missed); every kind of configuration: several polls, so that a commit can fall in each gap between polls, tag and horizon. Logs do not interact, and the theorem is for any number of them. |

The three runs marked *Violation* are meant to find one; all others pass. Deadlock is
not checked: each model stops when its bounds are used up.

**Fairness.**

- `Progress` (SnowflakeID): goroutines that are able to take a step of `NextID`
  eventually do, which the Go scheduler gives, and a refused caller calls again.
  Nothing is assumed of the clocks.
- `FollowsTheLog` (Sealing): a caller goes on trying each massif (strong fairness of
  `GetMassif` for each, since between two calls the reader is busy) and a call that has
  read the massif goes on to the seal. Nothing is assumed of the sealers; the property is
  about logs that are sealed and stop growing.
- `Repaired` (Replica): a caller goes on replacing each massif, and the steps of a
  call that nothing cuts off follow each other. The property is about executions in which
  failures, restarts and deleted entries come to an end.

**Bounds in the specifications.** `MaxId`, `MaxMade`, `MaxPuts`, `MaxLate` (Committer), `MaxTime`,
`MaxLives`, `MaxIds` (SnowflakeID), `MaxAdded` (MMRBuild), `MaxLogLeaves` (MMRVerify), `MaxLeaves` (Massif, Sealing, Replica),
`MaxPutBacks` (Sealing), `MaxPage`, `MaxBlobs`, `MaxEtag` (BlobList), `MaxNumber`,
`MaxTime`, `MaxCommits` (Watcher) are guards. `MaxFailures` (Watcher) is a guard too, but it is an
assumption about the store: the horizon has to cover it. The theorems hold for every value of them.

## What the violations say

1. `TailIsLast` (`bloblist_tail`). `copy(tail, tail[n-stale-1:])` should start at
   `stale`: a page with fewer items than the tail
   moves what is kept of it by the wrong number of places.
2. `KeptIsIntact` (`massif_alias`). `NextPeakStack` appends in place to the data of
   the context it is called on. The committer does not use the old context again, so
   its log is not affected; a caller who kept a copy reads a wrong peak.
3. `ReceiptsShowNodes` (`massif_receipt`). `NewReceipt` chooses the peak by the length of the
   proof (`mmriver.go:160`), which is right for leaves. An interior node's proof is shorter by
   its height: in a massif of three nodes the node at index 2 is the peak, its proof is empty, and
   the place computed for it is after the last peak, so that there is no receipt. Elsewhere another
   peak is chosen, and the receipt does not verify. The comment at `mmriver.go:51` has any node
   value proven by a receipt, not just leaves.

## What else was found on the way

Where code and comments differ or a limit is worth knowing, and the models follow the code:

- *Order of ids.* `snowflakeid/doc.go:11` has the leaves of a tenant's log in the order of their
  ids. `AddHashedLeaf` (`massifcontext.go:417`) does not compare an id with the last one, and ids
  are made before leaves are added: a writer whose leaf is refused with `ErrMassifFull` adds it
  with the same id after what others have committed since. So the claim does not hold over several
  writers, even if all clocks agree. It holds for the leaves of each writer
  (`LeavesInIdOrder`, for any clocks), if its batches are added in the order they were made in.
- *Restarts.* `nextid.go:199-203` has the overlap over a restart as a possibility; `Linearizable`
  says how far it goes: only ids whose time is not before the clock of the new life can be given
  out again, or be followed by lower ones.
- *Consistency at equal size.* `MassifContext.CheckConsistency` returns without a look at the nodes
  if the state has the massif's size (`massifcontext.go:453`), though its comment (line 430) has the
  data checked. Nothing calls it; `verifyContext` calls `mmr.CheckConsistency` itself.
- *Seals without a map.* `AddLeaves` goes on after `ErrMassifFull` with a context without a peak map
  (`testcommitter.go:176`), and seals through it: `RefusedForAReason` says which of its seals do not
  verify.
- *Spins.* `NewIDState` does not copy `Config.AllowSpins` (`snowflakeid/config.go:18`): no call
  spins (`nextid.go:61`), and a call that loses one race is refused. `Progress` shows that
  callers that try again are served.
- *Trusted states out of reach.* A state from within an earlier massif cannot be shown to
  be extended by the current one alone (`BaseIsExtended`, `RefusedForAReason`). A reader
  that tries the earlier massif first gets on (`FollowsTheLog`).
- *Version 0.* The trusted base is checked with the size of the seal
  (`massifcontextverifiedv0.go:73`), so only a base of that very size is accepted.
- *Torn massifs.* On a file that was cut off within a leaf the size is that of no
  range, there are no peaks, and `VerifyConsistency` indexes the empty list
  (`verifyconsistency.go:76`); `Outcome` has it as a panic. A replica is replaced, not read, to repair it.
- *Caches of the replica.* An entry that `ReplaceMassif` or `ReplaceSeal` makes is taken
  for scanned from then on (`logdircache.go:254,266`), so that files that were there
  before are not seen until the entry is deleted; a scan of seals that fails leaves a
  partial entry, and the next read finds no error.
- *Seal files.* The payload that is written has the peaks in it (`rootsigverify.go:49`
  put them back), although `localmassifreader.go:221` says the root is never written.
- *Watcher.* 30 seconds are forced where there is no horizon, and the constant
  `DefaultHorizon` of one minute is not used. A horizon that does not cover
  the interval and the poll, once more than polls fail in a row, and the lag misses changes
  (`Covers`); nothing checks it.

## Proofs

TLAPS checks the following for all values of the constants that the modules'
assumptions allow.

**Committer** (`MassifLeaves > 1`). The store compares etags only. The inductive
invariant `IInv` of `CommitterProofs` says why this is enough: a context that is open,
in flight or late, and whose etag is that of the stored blob, *extends* the blob;
a context that creates a massif has full massifs before it; etags are not reused. None of
the properties is inductive without it: each speaks of stored blobs, and the next put
stores what a context holds. From it: `TypeCorrect`, `Durability`, `NoGap`, `Located`.
The second part of the module adds `OrderInv`, that a context which the store would accept
fits between its neighbours in each writer's id order, and that the ids a writer has yet to
use come after all it has used, for `UniqueIds`, `IdOrder` (whether clocks
agree or not), `Frozen`, and `Refinement`: every step is a step of `AppendOnlyLog` or stutters;
and `LastInv`, that a context or blob without leaves has the last id of the massif before
it, which is full and so keeps it, for `LastId`.

**SnowflakeID.** The invariant: an id issued by a worker in its present life is at most the value
its generator holds, and a call has not read the clock before the start of that
life. Compare and swap makes the loaded value the current one, and the value
installed comes after it and is not before the clock that was read; an id of an earlier life whose time was over at the start comes
before every value of this one. From it: `TypeCorrect` (no sequence number runs over into
the worker field), `Atomic` (the generators implement `IdSource`, wherever clocks start
again), `Dated` (if no clock runs beyond the epoch). The conjunct
added for `ViolationAtEnd` is that no time leaves its field: a value at the end of the
epoch then stays there until its process restarts. Assumed:
worker ids differ, and a deployment whose processes restart does not outlive its epoch.

**BlobList.** The invariant: the last item seen is the last of the first *n* items of
some log of the call, *n* being the count so far, and no log of the call is longer
than the log now. When the pages reach the end the two meet. From it: `ListTypeCorrect`
and `Atomic`. Assumed: blobs are added at the end and only the last is updated,
which is what `Committer` promises (`FullMassifFrozen`, `OnlyLastHasRoom`).

**Sealing.** Two logs that a third extends can be compared by their length: what a
reader verified last and what it verifies now are both leading parts of the massif it
has read, so one extends the other. That the longer one is the new one, unless a
seal was lost or overtaken, is the conjunct `Followed` of the invariant: the seal of
the massif in which the trusted state ends has not become shorter. From it: `NoFork`.
`Refused` rests on the conjunct `Genuine`: while the store has not been put back the
log extends whatever was read or trusted, and whatever was signed or put but the seals of full
massifs that were signed without a map over several peaks (`SignedOver`, `OutOfOrder`).

**Replica.** The invariant: a massif file that is whole and a seal file that is whole
fit together however they came to be there (`FilesFit`), since what replaces a massif is
all that the remote log has and the seal that is left covers no more (`OnItsWay`); what
the replicator has replaced is in both entries of its cache (`Cached`), and an entry
that is there is not read again. From it: `TypeCorrect`, `Intact`, `Serves`.

**Watcher.** The invariant: what a poll passes over because its tag is before the filter
has been reported before (`PassedOver`), since a tag that has changed since a poll began
is not older than that poll by more than the lag (`Recent`) and the next filter goes back
further than that, by the rounds since the last complete poll (`Gap`); what a poll does not pass
over it collates (`Collated`), and is reported if it is complete. From it:
`TypeCorrect`, `NothingMissed`, for any number of logs, configurations, failures and timings within
the lag.

**MMR arithmetic.** Induction is by the least counterexample: a set of numbers that is
not empty has a least member (`FS_StrictSubsetOrderingWellFounded` and `WFMin` of the
library). What a recursive function computes rests on `Recursion`, which says
for any recursion whose steps look at arguments of smaller measure that a function
satisfies it. Powers of two are a symbol to the provers: that 2^(n+1) is twice 2^n
is taken from the number of subsets of a set (`FS_SUBSET`). On these rest `HeightOfNode`
(the bit operations of `PosHeight` find the height of the node at every position),
`IndexOfNode` and `NodesCount` (the arithmetic agrees with the nodes of `MMRTree` in post
order, counted as a set) and `PeaksAre`.

**MMR construction.** The invariant `BuildInv` of `MMRVerifyProofs`: while `AddHashedLeaf` runs, the
next index is one after the node over the last 2^height leaves, and every node below
the next index is stored as the tree has it. There is more to fill exactly if that node
is a right child (`HeightAfter`), and what is appended then is its parent (`ParentPos`).
From it: `StoreBuilt`, `TreeBuilt`. `LeavesNumbered` adds what the code does to find a leaf
again: `FirstMMRSize` runs to the next leaf (`FirstMMRSizeIs`), the sum of `SpurSumHeight`
has the closed form that makes `TreeIndexOld` the same recursion as `MMRIndex`
(`SpurSumHeightIs`, `TreeIndexIs`), and trailing zeros are the length of the climb
(`TrailingZerosIs`).

`NodesNavigated`, from the same invariant: the remainders of `IndexHeight2` lose one perfect tree
after another until the height is left (`RemainderIs`), and each round of the climbs of `LeftAncestors`
and `Ancestors` is one of `AppendParent` (`NavigationOf`). `PeaksListed`: the nodes without a
parent, in ascending order, are the list `Peaks` makes (`PeaksAscend`). A jump to the right of a
peak is to the root of a tree as high, which is not there; the steps down from it end at the
longest run that begins where that tree does and fits (`DownToIs`), which is the next peak
(`NextPeakJump`), so `PeaksOld` lists the same (`PeaksOldIs`). With each leaf the list loses the peaks
that are merged and gains one, as `LeafMinusSpurSum` counts (`HowManyPeaks`).

**Massif** (heights above 1). The inductive invariant `HoldsTheLog` of `MassifProofs`: the
context is where its number puts it (`firstIndex` is the `MMRIndex` of its first leaf, the
stack has as many values as the range before it has peaks), its stack and nodes are
those of the undivided log, its index has the ids of its leaves and no other, the last id
is the log's, and its map is nil or that of some massif. TLC cannot
evaluate the set of all hashes in its type part; the rest of it is `NodesAndStack`, `FullAgrees` and
`IndexMatchesLeaves`, which `massif` checks. The
argument of `AddLeaf`: with n + 1 = (2b + 1) 2^f leaves the rounds of `BackFill` append
exactly f nodes (`MergeRound`, `StopRound`), each with the children that the log has. A left child
is in the massif, or it is a peak of the range before the massif. That happens only for the last
leaf: then the ancestors come in the order of the stack, its top first, which is what a
context without a map relies on (`AtAncestor`), and a fresh map has their places. The next stack is
the old one without the peaks that were merged, and the last node (`NextPeaks`). From it:
`MassifHoldsTheLog`, `NodesAreTheLogs`, `RoomIsFound`, `MassifsFill`, `IndexHasTheLeaves`.

`MassifsProveTheirNodes`: the map of a massif has exactly the peaks of the range before it
(`HighPeaks`: they are all as high as a massif, and the first leaf after them merges none),
and through it a context reads them as the log has them (`StackRead`). So what a context
shows is the nodes in reach: those that end in the massif and the peaks before it
(`ReachIsSeen`). A climb never leaves them (`ReachGrows`): the parent of a peak before the
massif ends in it, and a left sibling that does not end in it is such a peak.

**Verified contexts** (from `HoldsTheLog`). `LogForkedAt` is a range for each place of the fork
(`ForkTree`), and the log is the one that does not fork. The peaks over *b* leaves tell it from
a fork that is earlier (`PeaksTell`, from what `AcceptsNoFork` rests on), and its leaves are
not hashes of nodes (`SealHashesAre`), which is what that theorem has as a hypothesis.
`SealsOfTheLog`: `ReadPeaks` with a map reads the log's peaks and uses nothing up
(`PeaksAreRead`); a seal of a range that ends in the massif passes `verifyContext` exactly if
the log's peaks were signed (`SealChecked`), since the peaks are in reach (`LaterPeaks`) and
the proofs a massif has of them are the log's (`SeenConsistent`). `ReceiptsAreShown`: the place
that `PeakIndex` computes from the leaves and the height is that of the peak (`PlaceOfPeak`);
`NewReceipt` gives it the length of the proof for the height, which it is if the node is a leaf,
so that there is a receipt and it is for the leaf's own peak. A proof of some length leads to a
hash with the position of that peak, which is the one that was signed exactly if the value is the
leaf's; an empty one leads to the value it is given (`ReceiptShows`).

`SealsVerify`, for a seal of any size of the massif and a fork at any leaf. In version 2
it is `SealChecked` and `PeaksTell`. In version 0 the seal is a bag. What it begins with, the last peak, is a hash with
its position or the last leaf itself and never the hash of a pair (`LastPeak`), so the bag tells
the peaks, however many there are (`BagTells`), and the last of them tells the size of the log
(`BagsTell`). A massif makes the proofs against the bag that the log makes
(`SeenConsistentBagged`), since it reads the same peaks to either side (`AsideTheSame`).

`BasesExtend`, for a trusted state of any earlier size. If the peaks of the state are in reach the
checks are those of the whole log (`SeenConsistent`, `BagSealChecked`), and these tell the
fork (`ForksTold`, `BagsTold`); with version 0 the proof is from the size of the seal, so that the
state has to be of that size too (`BagsTell` again). If one of them is out of reach
there is no proof of it (`OutOfReach`): it is a left child, and its sibling ends before the massif
too. A right child is no peak, so the sibling is not in the stack, and it is the first
node of every proof of that peak. And the peaks are in reach exactly if the state
ends in the massif or its peaks are those in the stack (`ReachOfPeaks`), which is how
the property puts it.

**MMR proofs.** `AcceptsNoFork`: no history of the store makes the verifier accept a
fork, for any leaf values and any number of leaves. `TreeOf(H, ns, vs)` says that `ns` is
the range over the leaves `vs`; `AddHashedLeafTree` that adding a leaf keeps it. The
invariant `VInv` is that the store is the range over `logLeaves`, and that what is trusted
is the state of *some* range over `accepted`, whose nodes nobody keeps. The argument of
the step: the proof of a peak of the old range climbs, in the new store, through
exactly the nodes above its place (`PathClimbs`), so that its root commits to the
old peak at that place (`ClimbRoot`); the root is some peak of the new range
(`EveryRootIsMatched`), and since a node's hash has its position in it, it is the one
above the place (`StampedOnce`, `NodeStamped`); going down from there the old
peak is the new store's node at its place (`AcceptedPeaks`), and so are the nodes under it
(`SubtreesAgree`). Peaks cover all leaves (`AcceptedExtends`). The theorem has one
hypothesis, `NoLeafIsNode`: no leaf value is the hash of a position and two nodes. The
package stores the leaves it is given, so this is for its callers to see to; with peaks
compared by value the theorem needs it. `Values` in `mmr_verify` satisfies it.

`AcceptsExtensions`, from the same invariant and without that hypothesis: a log that
extends the trusted one is accepted. A range's nodes are among those of every range that
extends it (`PrefixNodes`), so the proof of an old peak leads to the new peak above it
(`RootOfExtension`). The old peaks lie under the new ones in order and none of those is
skipped (`UnderFollows`); neighbouring peaks differ, except that the last may be a
leaf with the value of the hash before it (`LeafPeakIsLast`, `NeighboursDiffer`). So the
roots, with repetitions dropped, begin the list of new peaks (`RootsBegin`), which is
what `MatchPeaks` accepts (`BeginningMatches`).

`InclusionIsShown`, again for any leaf values. The loop of `PeaksBitmap` counts the leaves
(`PeaksBitmapIs`, by induction on the powers of two it looks at). The bits of that count
are the heights of the peaks (`BitIs`, `PeakOfBit`), which go down from left to
right, so there are as many bits above a peak's height as peaks before it, and
`PeakIndex` is its place in the list (`PeakIndexIs`, by a bijection). A climb that has
begun has a hash with the position of the node it is at (`ClimbEnds`): no part of
a proof leads to the peak (`ReachesPeak`), and the whole does exactly for the node's value
(`WholeProof`).

`ProofsExtend`, also for any leaf values. Two climbs from a node take the same siblings
while both go on, and the one in the longer log goes on for at least as long, since the
peak of the shorter log may get a parent and a node below it has one (`ClimbsAgree`,
`PathExtends`). With the nodes in common (`SameNodes`) this makes the proof in the old log
the beginning of the proof in the new (`ProofBefore`). `LocalPeak`, a loop of its own in
the code, ends at the node the path ends at (`LocalPeakIs`), which is in the list of peaks
(`LocalPeakListed`).

**Bagged proofs**, of `MMRVerify` too and for any leaf values, from `VInv`. The bag of a list
of peaks is a chain of hashes, one for each peak from the last down (`BagIs`), and tells the
list if its length is known (`BagTells`). `BaggedIsShown`: a proof is the siblings below the
peak, the bag of the peaks to its right and the peaks to its left, from the nearest to the
farthest (`BaggedProofOf`). The loop of `VerifyInclusionBagged` is on the node it should be on
after each of them, and has its hash exactly if the value was the node's (`TrailBelow`,
`TrailOnPeak`, `TrailAbove`, `Trail`). It does not return early (`NoEarlyRoot`): a hash below the peak has its
own position in it, which the root has not, and the hash made from a peak on the left is not
that made from the first peak, which is the root. So it returns after the last hash or not at all (`BaggedFound`).
`BaggedIsConsistent`, in the one direction: the peaks that are read at the old places have the
bag that is known, so they are the old peaks, and those cover all old leaves
(`SameBagExtends`). In the other: the proofs of the old peaks are put one after the other, and
each is used up before the next begins, since none returns early, with more behind it or not
(`PathPrefix`, `PathIsUsed`). The list of proofs is empty only if both ranges are the same
one tree (`EmptyPath`), and then the roots are compared.

**Only model checked.** The liveness properties `Progress`, `FollowsTheLog` and
`Repaired`, which are out of reach of TLAPS. Every invariant and action property that a run
checks and that holds is also a theorem.

## Not modelled

- Cryptography: hashes do not collide, signatures and keys are not there; encodings of
  seals and receipts.
- 64 bit widths in `mmr/`, byte offsets in blobs, paths, tags as strings.
- The body of `BlobRead`, caching of blobs, options of readers, lazy contexts, logging.
- Trie keys, extra bytes and application ids in index entries; massif epochs.
- The mode of the directory cache in which one directory is given for both kinds of file
  (one entry then serves both scans), and the checks of a file's height and tenant.
- Loss of power: in `Replica` a process stops, the file system does not.
- Visitors of `FilterBlobs`, and the loop around polls, which the repository leaves to its callers.
- `TryReplacePath` (it has no caller; it takes over the number of a tail and not its path,
  `logtails.go:68`), `EnumerateIdentifiedPaths` and the parsing of paths.
- Id formats and tags: conversions without state.
- Test support, mocks, generated test data and build files.

## Plan

What is left, in order:

1. **Refinement of the sealed log**: what a reader trusts as an abstract specification of
   its own, `Sealing` and `MMRVerify` shown to implement it.
2. **Replica**: the mode with one directory for both kinds of file.
