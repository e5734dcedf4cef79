---------------------------- MODULE ListingProofs ----------------------------
(***************************************************************************)
(* Proofs about the two modules that list the blobs of a store while       *)
(* writers go on: Watcher, for any number of logs, any configuration and   *)
(* any lag of the index, interval and length of polls, and BlobList, for   *)
(* pages, logs and tails of any length.                                    *)
(*                                                                         *)
(* What a poll passes over because its tag is before the filter has been   *)
(* reported before (PassedOver).  For a tag that has changed since a poll  *)
(* began is not older than that poll by more than the lag (Recent), and    *)
(* the next filter goes back further than that, by the intervals and the   *)
(* lengths of the polls since the last complete one (Gap).  What a poll    *)
(* does not pass over it collates (Collated), and when it is complete that *)
(* is reported (Reported).                                                 *)
(***************************************************************************)
EXTENDS Watcher, BlobList, TLAPS

TailRecords == [Number : -1 .. MaxNumber, LastID : Nat]

TailOf(b, id) == [Number |-> b[2], LastID |-> id]

(* Of a blob that the watcher is to report: its tag is not before the      *)
(* start of the watch.                                                     *)
Wanted(id) == id # 0 /\ id >= cfg.IDSince

OnTime ==
  /\ \A c \in pending : c.id <= now /\ now <= c.id + Lag
  /\ began.at <= now /\ visible.at <= now
  /\ poll.phase = "polling" =>
       poll.at = began.at /\ poll.at <= now /\ now <= poll.at + PollTime
  /\ poll.phase = "waiting" => poll.at <= now /\ now <= poll.at + cfg.Interval

(* The time of so many polls and the intervals before them                 *)
Rounds(n) == n * (cfg.Interval + PollTime)

Gap ==
  ~poll.first =>
    /\ poll.phase = "polling" => poll.at <= visible.at + Rounds(failures + 1)
    /\ poll.phase = "waiting" => poll.at <= visible.at + Rounds(failures) + PollTime

(* Until a poll is complete                                                *)
Fresh ==
  /\ poll.phase \in {"off", "new"} => poll.first
  /\ poll.first => \A b \in Blobs : visible.index[b] = 0

RecentSince(snapshot) ==
  \A b \in Blobs :
    /\ snapshot.index[b] <= index[b]
    /\ snapshot.index[b] # index[b] => snapshot.at - Lag <= index[b]

Recent == RecentSince(began) /\ RecentSince(visible)

PassedOver ==
  poll.phase = "polling" /\ Covers =>
    \A b \in Blobs :
      Wanted(began.index[b]) /\ began.index[b] < poll.since =>
        ~Later(reported[b[1]], TailOf(b, began.index[b]))

Collated ==
  poll.phase = "polling" =>
    \A b \in Blobs :
      /\ b \notin poll.left /\ began.index[b] # 0 /\ poll.since <= began.index[b] =>
           ~Later(tails[b[1]], TailOf(b, began.index[b]))
      /\ tails[b[1]].Number = b[2] => b \notin poll.left

Reported ==
  Covers =>
    \A b \in Blobs :
      Wanted(visible.index[b]) => ~Later(reported[b[1]], TailOf(b, visible.index[b]))

Kept == PassedOver /\ Collated /\ Reported

IInv == TypeOK /\ OnTime /\ Gap /\ Fresh /\ Recent /\ Kept

-----------------------------------------------------------------------------
(* Blobs and tails *)

(* A blob is a log and a number. *)
LEMMA BlobFacts ==
  /\ \A b \in Blobs : b[1] \in Logs /\ b[2] \in Numbers /\ b = <<b[1], b[2]>>
  /\ \A l \in Logs, n \in Numbers : <<l, n>> \in Blobs
  /\ Numbers \subseteq Nat /\ Numbers \subseteq -1 .. MaxNumber
BY MaxNumberAssumption DEF Blobs, Numbers

(* The type of a tail.                                                     *)
LEMMA TailFacts ==
  /\ NoTail \in TailRecords /\ NoTail.Number = -1
  /\ \A b \in Blobs, id \in Nat : TailOf(b, id) \in TailRecords
BY BlobFacts, MaxNumberAssumption DEF NoTail, TailRecords, TailOf

(* TailRecords are ordered. *)
LEMMA LaterOrder ==
  ASSUME NEW x \in TailRecords, NEW y \in TailRecords, NEW z \in TailRecords
  PROVE  /\ ~Later(x, x)
         /\ Later(x, y) /\ ~Later(x, z) => ~Later(y, z)
BY DEF Later, TailRecords

(* What the type invariant says of the variables the proofs are about.     *)
LEMMA TypeFacts ==
  ASSUME TypeOK
  PROVE  /\ now \in Nat
         /\ index \in [Blobs -> Nat]
         /\ began.at \in Nat /\ began.index \in [Blobs -> Nat]
         /\ visible.at \in Nat /\ visible.index \in [Blobs -> Nat]
         /\ cfg.IDSince \in Int /\ cfg.Horizon \in Nat /\ cfg.Interval \in Nat
         /\ poll.phase \in {"off", "new", "polling", "waiting"} /\ poll.first \in BOOLEAN
         /\ poll.at \in Nat /\ poll.since \in Int /\ poll.left \subseteq Blobs
         /\ tails \in [Logs -> TailRecords] /\ reported \in [Logs -> TailRecords]
         /\ failures \in Nat /\ failures <= MaxFailures
         /\ Lag \in Nat /\ PollTime \in Nat /\ MaxFailures \in Nat
BY TimesAssumption DEF TypeOK, TailRecords

(* A round more, and no more than there may be.                            *)
LEMMA RoundsFacts ==
  ASSUME TypeOK, NEW n \in Nat
  PROVE  /\ Rounds(n) \in Nat /\ Rounds(0) = 0
         /\ Rounds(n + 1) = Rounds(n) + cfg.Interval + PollTime
         /\ n <= MaxFailures + 1 => Rounds(n) <= Rounds(MaxFailures + 1)
<1>1. PICK d \in Nat : d = cfg.Interval + PollTime
  BY TypeFacts
<1>2. PICK m \in Nat : m = MaxFailures + 1
  BY TypeFacts
<1>3. n * d \in Nat /\ 0 * d = 0 /\ (n + 1) * d = n * d + d
  OBVIOUS
<1>4. n <= m => n * d <= m * d
  <2>1. SUFFICES ASSUME n <= m PROVE n * d <= m * d
    OBVIOUS
  <2>2. PICK k \in Nat : m = n + k
    <3>1. m - n \in Nat /\ m = n + (m - n)
      BY <2>1
    <3> QED BY <3>1
  <2>3. m * d = n * d + k * d /\ k * d \in Nat /\ n * d \in Nat
    BY <2>2
  <2> QED BY <2>3
<1>5. Rounds(n) = n * d /\ Rounds(0) = 0 * d /\ Rounds(n + 1) = (n + 1) * d /\ Rounds(m) = m * d
  BY <1>1 DEF Rounds
<1> QED BY <1>1, <1>2, <1>3, <1>4, <1>5, TypeFacts

-----------------------------------------------------------------------------
(* The steps, one by one *)

(* A commit: its tag is on its way.                                        *)
LEMMA CommitStep ==
  ASSUME IInv, NEW l \in Logs, NEW n \in Numbers, Commit(l, n)
  PROVE  IInv'
<1> USE DEF IInv
<1>1. /\ head' = [head EXCEPT ![l] = n]
      /\ commits' = [commits EXCEPT ![l] = @ + 1]
      /\ pending' = pending \union {[blob |-> <<l, n>>, id |-> now]}
      /\ UNCHANGED <<now, index, cfg, poll, tails, failures, began, visible, reported>>
  BY DEF Commit, history
<1>2. TypeOK'
  <2>1. pending' \subseteq [blob : Blobs, id : Nat]
    BY <1>1, BlobFacts DEF TypeOK
  <2> QED
    BY <1>1, <2>1 DEF TypeOK
<1>3. OnTime'
  BY <1>1, TypeFacts DEF OnTime
<1>4. Gap' /\ Fresh' /\ Recent' /\ Kept'
  BY <1>1 DEF Gap, Rounds, Fresh, Recent, RecentSince, Kept, PassedOver, Collated,
              Reported, Covers, Wanted
<1> QED
  BY <1>2, <1>3, <1>4

(* A tag is indexed: it is as recent as the lag allows.                    *)
LEMMA IndexStep ==
  ASSUME IInv, NEW c \in pending, Index(c)
  PROVE  IInv'
<1> USE DEF IInv
<1>1. /\ pending' = pending \ {c}
      /\ index' = [index EXCEPT ![c.blob] = IF c.id > @ THEN c.id ELSE @]
      /\ UNCHANGED <<now, head, commits, cfg, poll, tails, failures, began, visible, reported>>
  BY DEF Index, history
<1>2. c.blob \in Blobs /\ c.id \in Nat /\ now <= c.id + Lag
  BY DEF TypeOK, OnTime
<1>3. \A b \in Blobs :
        /\ index'[b] \in Nat /\ index[b] <= index'[b]
        /\ index'[b] # index[b] => index'[b] = c.id
  BY <1>1, <1>2, TypeFacts
<1>4. TypeOK'
  <2>1. index' \in [Blobs -> Nat] /\ pending' \subseteq [blob : Blobs, id : Nat]
    BY <1>1, <1>2, TypeFacts DEF TypeOK
  <2> QED
    BY <1>1, <2>1 DEF TypeOK
<1>5. OnTime'
  BY <1>1 DEF OnTime
<1>6. ASSUME NEW shot, RecentSince(shot), shot' = shot, shot.at \in Nat, shot.at <= now,
             shot.index \in [Blobs -> Nat]
      PROVE  RecentSince(shot)'
  <2> SUFFICES ASSUME NEW b \in Blobs
               PROVE  /\ shot.index[b] <= index'[b]
                      /\ shot.index[b] # index'[b] => shot.at - Lag <= index'[b]
    BY <1>6 DEF RecentSince
  <2>1. CASE index'[b] = index[b]
    BY <1>6, <2>1 DEF RecentSince
  <2>2. CASE index'[b] = c.id
    <3>1. shot.index[b] <= index[b] /\ index[b] \in Nat /\ shot.index[b] \in Nat
      BY <1>6, TypeFacts DEF RecentSince
    <3> QED
      BY <1>2, <1>3, <1>6, <2>2, <3>1, TypeFacts
  <2> QED
    BY <1>3, <2>1, <2>2
<1>7. Recent'
  BY <1>1, <1>6, TypeFacts DEF Recent, OnTime
<1>8. Gap' /\ Fresh' /\ Kept'
  BY <1>1 DEF Gap, Rounds, Fresh, Kept, PassedOver, Collated, Reported, Covers, Wanted
<1> QED
  BY <1>4, <1>5, <1>7, <1>8

(* Time passes until something is due.                                     *)
LEMMA TickStep ==
  ASSUME IInv, Tick
  PROVE  IInv'
<1> USE DEF IInv
<1>1. /\ \A c \in pending : now < c.id + Lag
      /\ poll.phase = "polling" => now < poll.at + PollTime
      /\ poll.phase = "waiting" => now < poll.at + cfg.Interval
      /\ now' = now + 1
      /\ UNCHANGED <<head, commits, pending, index, cfg, poll, tails, failures,
                     began, visible, reported>>
  BY DEF Tick, logVars, history
<1>2. TypeOK'
  BY <1>1 DEF TypeOK
<1>3. OnTime'
  <2>1. \A c \in pending : c.id \in Nat
    BY DEF TypeOK
  <2> QED
    BY <1>1, <2>1, TypeFacts DEF OnTime
<1>4. Gap' /\ Fresh' /\ Recent' /\ Kept'
  BY <1>1 DEF Gap, Rounds, Fresh, Recent, RecentSince, Kept, PassedOver, Collated,
              Reported, Covers, Wanted
<1> QED
  BY <1>2, <1>3, <1>4

(* A watcher is made: it has a horizon, and nothing was reported before.   *)
LEMMA NewWatcherStep ==
  ASSUME IInv, NEW c \in Configs, NewWatcher(c)
  PROVE  IInv'
<1> USE DEF IInv
<1>1. /\ poll.phase = "off"
      /\ cfg' = ConfigDefaults(c)
      /\ poll' = [poll EXCEPT !.phase = "new"]
      /\ UNCHANGED <<now, head, commits, pending, index, tails, failures,
                     began, visible, reported>>
  BY DEF NewWatcher, logVars, history
<1>2. /\ cfg' \in [Since : Int, IDSince : Int, Horizon : Nat, Interval : Nat]
      /\ cfg'.Horizon # 0
  <2>1. c \in [Since : Nat, IDSince : Nat, Horizon : Nat, Interval : Nat]
    BY ConfigsAssumption
  <2> QED
    BY <1>1, <2>1, TypeFacts, TimesAssumption DEF ConfigDefaults, Unset
<1>3. /\ poll' \in [phase : {"off", "new", "polling", "waiting"}, at : Nat,
                    first : BOOLEAN, left : SUBSET Blobs, since : Int]
      /\ poll'.phase = "new" /\ poll'.first = poll.first
  BY <1>1 DEF TypeOK
<1>4. poll.first /\ \A b \in Blobs : visible.index[b] = 0
  BY <1>1 DEF Fresh
<1>5. TypeOK'
  BY <1>1, <1>2, <1>3 DEF TypeOK
<1>6. OnTime' /\ Gap' /\ Fresh' /\ Recent'
  BY <1>1, <1>3, <1>4 DEF OnTime, Gap, Fresh, Recent, RecentSince
<1>7. Kept'
  BY <1>1, <1>3, <1>4 DEF Kept, PassedOver, Collated, Reported, Wanted
<1> QED
  BY <1>5, <1>6, <1>7

(* A poll begins: what its filter leaves out has been reported.            *)
LEMMA PollStep ==
  ASSUME IInv, Poll
  PROVE  IInv'
<1> USE DEF IInv
<1> DEFINE since == IF poll.first THEN FirstFilter ELSE NextFilter
<1>1. /\ poll.phase \in {"new", "waiting"}
      /\ poll' = [phase |-> "polling", at |-> now, first |-> poll.first,
                  left |-> Blobs, since |-> since]
      /\ tails' = [l \in Logs |-> NoTail]
      /\ began' = [at |-> now, index |-> index]
      /\ UNCHANGED <<now, head, commits, pending, index, cfg, failures, visible, reported>>
  BY DEF Poll, logVars
<1>2. cfg.Horizon # 0
  BY <1>1 DEF TypeOK
<1>3. since = IF poll.first THEN cfg.IDSince ELSE now - cfg.Horizon
  BY <1>2 DEF FirstFilter, NextFilter
<1> HIDE DEF since
<1>4. /\ poll'.phase = "polling" /\ poll'.at = now /\ poll'.left = Blobs
      /\ poll'.since = since /\ poll'.first = poll.first
      /\ began'.at = now /\ began'.index = index
  BY <1>1
<1>5. TypeOK'
  <2>1. since \in Int
    BY <1>3, TypeFacts
  <2>2. poll' \in [phase : {"off", "new", "polling", "waiting"}, at : Nat,
                   first : BOOLEAN, left : SUBSET Blobs, since : Int]
    BY <1>1, <2>1, TypeFacts
  <2>3. tails' \in [Logs -> [Number : -1 .. MaxNumber, LastID : Nat]]
    BY <1>1, TailFacts DEF TailRecords
  <2>4. began' \in [at : Nat, index : [Blobs -> Nat]]
    BY <1>1, TypeFacts
  <2> QED
    BY <1>1, <1>2, <2>2, <2>3, <2>4 DEF TypeOK
<1>6. OnTime'
  BY <1>1, <1>4, TypeFacts DEF OnTime
<1>7. Fresh' /\ Recent'
  BY <1>1, <1>4, TypeFacts DEF Fresh, Recent, RecentSince
<1>8. ~poll.first => now <= visible.at + Rounds(failures + 1)
  <2> SUFFICES ASSUME ~poll.first PROVE now <= visible.at + Rounds(failures + 1)
    OBVIOUS
  <2>1. poll.phase = "waiting"
    BY <1>1 DEF Fresh
  <2>2. /\ now <= poll.at + cfg.Interval
        /\ poll.at <= visible.at + Rounds(failures) + PollTime
    BY <2>1 DEF OnTime, Gap
  <2>3. /\ Rounds(failures) \in Nat
        /\ Rounds(failures + 1) = Rounds(failures) + cfg.Interval + PollTime
    BY TypeFacts, RoundsFacts
  <2> QED
    BY <2>2, <2>3, TypeFacts
<1>9. Gap'
  <2>1. Rounds(failures + 1)' = Rounds(failures + 1)
    BY <1>1 DEF Rounds
  <2> QED
    BY <1>1, <1>4, <1>8, <2>1 DEF Gap
<1>10. PassedOver'
  <2> SUFFICES ASSUME Covers, NEW b \in Blobs, Wanted(index[b]), index[b] < since
               PROVE  ~Later(reported[b[1]], TailOf(b, index[b]))
    BY <1>1, <1>4 DEF PassedOver, Covers, Wanted
  <2>1. ~poll.first
    BY <1>3, TypeFacts DEF Wanted
  <2>2. /\ now <= visible.at + Rounds(failures + 1)
        /\ Rounds(failures + 1) <= Rounds(MaxFailures + 1)
        /\ Rounds(failures + 1) \in Nat /\ Rounds(MaxFailures + 1) \in Nat
    <3>1. failures + 1 \in Nat /\ failures + 1 <= MaxFailures + 1 /\ MaxFailures + 1 \in Nat
      BY TypeFacts
    <3> QED BY <1>8, <2>1, <3>1, RoundsFacts
  <2>3. visible.index[b] = index[b]
    <3>1. SUFFICES ASSUME visible.index[b] # index[b] PROVE FALSE
      OBVIOUS
    <3>2. visible.at - Lag <= index[b]
      BY <3>1 DEF Recent, RecentSince
    <3>3. index[b] < now - cfg.Horizon
      BY <1>3, <2>1
    <3>4. Rounds(MaxFailures + 1) + Lag <= cfg.Horizon
      BY DEF Covers, Rounds
    <3>5. index[b] \in Nat
      BY TypeFacts
    <3> QED
      BY <2>2, <3>2, <3>3, <3>4, <3>5, TypeFacts
  <2> QED
    BY <2>3 DEF Kept, Reported
<1>11. Collated'
  BY <1>1, <1>4, BlobFacts, TailFacts DEF Collated
<1>12. Reported'
  BY <1>1 DEF Kept, Reported, Covers, Wanted
<1> QED
  BY <1>5, <1>6, <1>7, <1>9, <1>10, <1>11, <1>12 DEF Kept

(* An item is collated: the tail keeps the highest number.                 *)
LEMMA CollectStep ==
  ASSUME IInv, NEW b \in Blobs, CollectPageItem(b)
  PROVE  IInv'
<1> USE DEF IInv
<1> DEFINE l == b[1]
           item == TailOf(b, index[b])
<1>1. /\ poll.phase = "polling" /\ b \in poll.left
      /\ poll' = [poll EXCEPT !.left = @ \ {b}]
      /\ UNCHANGED <<now, head, commits, pending, index, cfg, failures,
                     began, visible, reported>>
  BY DEF CollectPageItem, logVars, history
<1>2. /\ poll'.phase = poll.phase /\ poll'.at = poll.at /\ poll'.since = poll.since
      /\ poll'.first = poll.first
      /\ poll'.left = poll.left \ {b}
      /\ poll' \in [phase : {"off", "new", "polling", "waiting"}, at : Nat,
                    first : BOOLEAN, left : SUBSET Blobs, since : Int]
  BY <1>1 DEF TypeOK
<1>3. l \in Logs /\ b[2] \in Numbers /\ tails[l] \in TailRecords /\ item \in TailRecords
      /\ item.Number = b[2] /\ item.LastID = index[b]
  BY TypeFacts, BlobFacts, TailFacts DEF TailOf
(* The number is not that of the tail: then b would have been collected *)
<1>4. tails[l].Number # b[2]
  BY <1>1 DEF Kept, Collated
<1>5. TryReplaceTail(tails[l], item) = IF b[2] < tails[l].Number THEN tails[l] ELSE item
  BY <1>3, <1>4, BlobFacts DEF TryReplaceTail, TailRecords
<1> HIDE DEF l, item
<1>6. CASE index[b] = 0 \/ index[b] < poll.since
  <2>1. tails' = tails
    BY <1>6 DEF CollectPageItem
  <2>2. Collated'
    <3>1. began.index[b] = 0 \/ began.index[b] < poll.since
      BY <1>6, TypeFacts DEF Recent, RecentSince
    <3>2. ~(poll.since <= began.index[b]) \/ began.index[b] = 0
      BY <3>1, TypeFacts
    <3> QED
      BY <1>1, <1>2, <2>1, <3>2 DEF Kept, Collated
  <2>3. TypeOK'
    BY <1>1, <1>2, <2>1 DEF TypeOK
  <2> QED
    BY <1>1, <1>2, <2>1, <2>2, <2>3
       DEF OnTime, Gap, Rounds, Fresh, Recent, RecentSince, Kept, PassedOver, Reported,
           Covers, Wanted
<1>7. CASE ~(index[b] = 0 \/ index[b] < poll.since)
  <2>1. tails' = [tails EXCEPT ![l] =
                    IF b[2] < tails[l].Number THEN tails[l] ELSE item]
    BY <1>5, <1>7 DEF CollectPageItem, l, item, TailOf
  <2>2. tails' \in [Logs -> TailRecords]
        /\ \A k \in Logs : tails'[k] = IF k # l THEN tails[k]
                                       ELSE IF b[2] < tails[l].Number THEN tails[l]
                                       ELSE item
    BY <1>3, <2>1, TypeFacts
  <2>3. TypeOK'
    BY <1>1, <1>2, <2>2 DEF TypeOK, TailRecords
  <2>4. Collated'
    <3> SUFFICES ASSUME NEW a \in Blobs
                 PROVE  /\ a \notin poll'.left /\ began.index[a] # 0 /\ poll.since <= began.index[a] =>
                             ~Later(tails'[a[1]], TailOf(a, began.index[a]))
                        /\ tails'[a[1]].Number = a[2] => a \notin poll'.left
      BY <1>1, <1>2 DEF Collated
    <3>1. /\ a[1] \in Logs /\ a[2] \in Numbers /\ a = <<a[1], a[2]>>
          /\ b = <<b[1], b[2]>>
      BY BlobFacts
    <3>2. /\ a \notin poll.left /\ began.index[a] # 0 /\ poll.since <= began.index[a] =>
               ~Later(tails[a[1]], TailOf(a, began.index[a]))
          /\ tails[a[1]].Number = a[2] => a \notin poll.left
      BY <1>1 DEF Kept, Collated
    <3>3. CASE a[1] # l
      BY <1>2, <2>2, <3>1, <3>2, <3>3 DEF l
    <3>4. CASE a[1] = l /\ b[2] < tails[l].Number
      <4>1. tails'[l] = tails[l]
        BY <1>3, <2>2, <3>4
      <4>2. a = b => ~Later(tails[l], TailOf(a, began.index[a]))
        BY <1>3, <3>4, BlobFacts DEF Later, TailOf, TailRecords
      <4> QED
        BY <1>2, <3>2, <3>4, <4>1, <4>2
    <3>5. CASE a[1] = l /\ ~(b[2] < tails[l].Number)
      <4>1. tails'[l] = item
        BY <1>3, <2>2, <3>5
      <4>2. tails[l].Number < b[2]
        BY <1>3, <1>4, <3>5, BlobFacts DEF l, TailRecords
      <4>3. a = b => ~Later(item, TailOf(a, began.index[a]))
        <5>1. began.index[b] <= index[b] /\ began.index[b] \in Nat /\ index[b] \in Nat
          BY TypeFacts DEF Recent, RecentSince
        <5> QED
          BY <1>3, <5>1, BlobFacts DEF Later, TailOf
      <4>4. ~Later(tails[l], TailOf(a, began.index[a])) => ~Later(item, TailOf(a, began.index[a]))
        BY <1>3, <3>1, <4>2, BlobFacts DEF Later, TailOf, TailRecords
      <4>5. item.Number = a[2] => a = b
        BY <1>3, <3>1, <3>5 DEF l
      <4> QED
        BY <1>2, <3>2, <3>5, <4>1, <4>3, <4>4, <4>5
    <3> QED
      BY <3>3, <3>4, <3>5
  <2> QED
    BY <1>1, <1>2, <2>3, <2>4
       DEF OnTime, Gap, Rounds, Fresh, Recent, RecentSince, Kept, PassedOver, Reported,
           Covers, Wanted
<1> QED
  BY <1>6, <1>7

(* A poll fails: the time it took is added to the gap.                     *)
LEMMA FailPollStep ==
  ASSUME IInv, FailPoll
  PROVE  IInv'
<1> USE DEF IInv
<1>1. /\ poll.phase = "polling" /\ failures < MaxFailures
      /\ poll' = [poll EXCEPT !.phase = "waiting", !.at = now, !.left = {}]
      /\ failures' = failures + 1
      /\ UNCHANGED <<now, head, commits, pending, index, cfg, tails, began, visible, reported>>
  BY DEF FailPoll, logVars, history
<1>2. /\ poll'.phase = "waiting" /\ poll'.at = now /\ poll'.first = poll.first
      /\ poll' \in [phase : {"off", "new", "polling", "waiting"}, at : Nat,
                    first : BOOLEAN, left : SUBSET Blobs, since : Int]
  BY <1>1, TypeFacts DEF TypeOK
<1>3. TypeOK'
  <2>1. failures' \in 0 .. MaxFailures
    BY <1>1, TypeFacts
  <2> QED
    BY <1>1, <1>2, <2>1 DEF TypeOK
<1>4. OnTime'
  BY <1>1, <1>2, TypeFacts DEF OnTime
<1>5. Gap'
  <2>1. ~poll.first => poll.at <= visible.at + Rounds(failures + 1)
    BY <1>1 DEF Gap
  <2>2. now <= poll.at + PollTime
    BY <1>1 DEF OnTime
  <2>3. Rounds(failures + 1) \in Nat
    BY TypeFacts, RoundsFacts
  <2>4. ~poll.first => now <= visible.at + Rounds(failures + 1) + PollTime
    BY <2>1, <2>2, <2>3, TypeFacts
  <2>5. Rounds(failures)' = Rounds(failures + 1)
    BY <1>1 DEF Rounds
  <2> QED
    BY <1>1, <1>2, <2>4, <2>5 DEF Gap
<1>6. Fresh' /\ Recent'
  BY <1>1, <1>2 DEF Fresh, Recent, RecentSince
<1>7. Kept'
  BY <1>1, <1>2 DEF Kept, PassedOver, Collated, Reported, Covers, Wanted
<1> QED
  BY <1>3, <1>4, <1>5, <1>6, <1>7

(* A poll ends: what was reported and what was collated together.          *)
LEMMA EndPollStep ==
  ASSUME IInv, EndPoll
  PROVE  IInv'
<1> USE DEF IInv
<1>1. /\ poll.phase = "polling" /\ poll.left = {}
      /\ poll' = [poll EXCEPT !.phase = "waiting", !.at = now, !.first = FALSE]
      /\ failures' = 0
      /\ visible' = began
      /\ reported' = [l \in Logs |-> IF Later(reported[l], tails[l]) THEN tails[l]
                                     ELSE reported[l]]
      /\ UNCHANGED <<now, head, commits, pending, index, cfg, tails, began>>
  BY DEF EndPoll, logVars
<1>2. /\ poll'.phase = "waiting" /\ poll'.at = now /\ ~poll'.first
      /\ poll' \in [phase : {"off", "new", "polling", "waiting"}, at : Nat,
                    first : BOOLEAN, left : SUBSET Blobs, since : Int]
  BY <1>1, TypeFacts DEF TypeOK
<1>3. poll.at = began.at /\ poll.at <= now /\ now <= poll.at + PollTime
  BY <1>1 DEF OnTime
<1>4. reported' \in [Logs -> TailRecords]
  BY <1>1, TypeFacts
<1>5. TypeOK'
  <2>1. failures' \in 0 .. MaxFailures
    BY <1>1, TypeFacts
  <2> QED
    BY <1>1, <1>2, <1>4, <2>1 DEF TypeOK, TailRecords
<1>6. OnTime'
  BY <1>1, <1>2, <1>3, TypeFacts DEF OnTime
<1>7. Gap'
  <2>1. Rounds(0) = 0 /\ Rounds(failures)' = Rounds(0)
    BY <1>1, RoundsFacts DEF Rounds
  <2>2. now <= began.at + 0 + PollTime
    BY <1>3, TypeFacts
  <2> QED
    BY <1>1, <1>2, <2>1, <2>2 DEF Gap
<1>8. Fresh' /\ Recent'
  BY <1>1, <1>2 DEF Fresh, Recent, RecentSince
<1>9. PassedOver' /\ Collated'
  BY <1>2 DEF PassedOver, Collated
<1>10. Reported'
  <2> SUFFICES ASSUME Covers, NEW b \in Blobs, Wanted(began.index[b])
               PROVE  ~Later(reported'[b[1]], TailOf(b, began.index[b]))
    BY <1>1 DEF Reported, Covers, Wanted
  <2> DEFINE x == TailOf(b, began.index[b])
             r == reported[b[1]]
             t == tails[b[1]]
  <2>1. x \in TailRecords /\ r \in TailRecords /\ t \in TailRecords /\ b[1] \in Logs
    BY TypeFacts, BlobFacts, TailFacts
  <2>2. ~Later(r, x) \/ ~Later(t, x)
    <3>1. began.index[b] \in Nat /\ began.index[b] # 0
      BY TypeFacts DEF Wanted
    <3>2. CASE began.index[b] < poll.since
      BY <1>1, <3>2 DEF Kept, PassedOver
    <3>3. CASE poll.since <= began.index[b]
      BY <1>1, <3>1, <3>3 DEF Kept, Collated
    <3> QED
      BY <3>1, <3>2, <3>3, TypeFacts
  <2>3. reported'[b[1]] = IF Later(r, t) THEN t ELSE r
    BY <1>1, <2>1
  <2> HIDE DEF x, r, t
  <2>4. Later(r, t) /\ ~Later(r, x) => ~Later(t, x)
    BY <2>1, LaterOrder
  <2>5. ~Later(r, t) /\ ~Later(t, x) => ~Later(r, x)
    BY <2>1 DEF Later, TailRecords
  <2> QED
    BY <2>2, <2>3, <2>4, <2>5 DEF x
<1> QED
  BY <1>5, <1>6, <1>7, <1>8, <1>9, <1>10 DEF Kept

(* The invariant holds at first.                                           *)
LEMMA Initially == Init => IInv
<1> SUFFICES ASSUME Init PROVE IInv
  OBVIOUS
<1>1. /\ index = [b \in Blobs |-> 0] /\ began = [at |-> 0, index |-> index]
      /\ visible = began /\ now = 1 /\ pending = {}
      /\ poll = [phase |-> "off", at |-> 0, first |-> TRUE, since |-> 0, left |-> {}]
  BY DEF Init
<1>2. TypeOK
  BY <1>1, MaxNumberAssumption, TimesAssumption DEF Init, TypeOK, NoTail, Numbers
<1>3. OnTime /\ Gap /\ Fresh /\ Recent
  BY <1>1 DEF OnTime, Gap, Fresh, Recent, RecentSince
<1>4. Kept
  BY <1>1 DEF Kept, PassedOver, Collated, Reported, Wanted
<1> QED
  BY <1>2, <1>3, <1>4 DEF IInv

(* Every step keeps the invariant.                                         *)
LEMMA Inductive == IInv /\ [Next]_vars => IInv'
<1> SUFFICES ASSUME IInv, [Next]_vars PROVE IInv'
  OBVIOUS
<1>1. CASE UNCHANGED vars
  <2>1. UNCHANGED <<now, head, commits, pending, index, cfg, poll, tails, failures,
                    began, visible, reported>>
    BY <1>1 DEF vars, logVars, history
  <2>2. TypeOK' /\ OnTime' /\ Gap' /\ Fresh' /\ Recent'
    BY <2>1 DEF IInv, TypeOK, OnTime, Gap, Rounds, Fresh, Recent, RecentSince
  <2>3. Kept'
    BY <2>1 DEF IInv, Kept, PassedOver, Collated, Reported, Covers, Wanted
  <2> QED
    BY <2>2, <2>3 DEF IInv
<1> QED
  BY <1>1, CommitStep, IndexStep, TickStep, NewWatcherStep, PollStep,
     CollectStep, FailPollStep, EndPollStep DEF Next

-----------------------------------------------------------------------------
(* Theorems *)

(* Every variable has its type, and a watcher has a horizon. *)
THEOREM TypeCorrect == Spec => []TypeOK
<1>1. IInv => TypeOK
  BY DEF IInv
<1> QED
  BY <1>1, Initially, Inductive, PTL DEF Spec

(* Nothing that a complete poll could see is left out for good, if the     *)
(* horizon covers as many rounds as polls may fail and one more.           *)
THEOREM NothingMissed == Spec => []ReportsWhatIsVisible
<1>1. IInv => ReportsWhatIsVisible
  <2> SUFFICES ASSUME IInv, Covers, NEW l \in Logs, NEW n \in Numbers,
                      NEW id, id = visible.index[<<l, n>>], id # 0, id >= cfg.IDSince
               PROVE  ~Later(reported[l], [Number |-> n, LastID |-> id])
    BY DEF ReportsWhatIsVisible
  <2> DEFINE b == <<l, n>>
  <2>1. b \in Blobs /\ b[1] = l /\ b[2] = n
    BY BlobFacts
  <2>2. ~Later(reported[b[1]], TailOf(b, visible.index[b]))
    BY <2>1 DEF IInv, Kept, Reported, Wanted
  <2> QED
    BY <2>1, <2>2 DEF TailOf
<1> QED
  BY <1>1, Initially, Inductive, PTL DEF Spec

-----------------------------------------------------------------------------
(* Module BlobList.  ListingIsAtomic speaks of a call that has ended.      *)
(* While a call is under way the last item it saw is the last of the first *)
(* "marker" items of some log of the call, and no log of the call was      *)
(* longer than the log is now.  When the pages reach the end of the log    *)
(* the two meet: a log that has at least, and at most, as many blobs as    *)
(* were counted.                                                           *)

LogStates == Seq(1 .. MaxEtag)

ListTypeInv ==
  /\ blobs \in LogStates /\ Len(blobs) <= MaxBlobs
  /\ nextEtag \in Nat \ {0}
  /\ pc \in {"idle", "last", "tail", "lastFound", "tailFound", "error"}
  /\ marker \in 0 .. Len(blobs)
  /\ foundCount = marker
  /\ bc \in Items
  /\ tail \in Seq(Items)
  /\ seen \subseteq LogStates

(* What LastPrefixedBlob knows between two pages *)
SoFar ==
  pc = "last" =>
    /\ blobs \in seen
    /\ \A log \in seen : Len(log) <= Len(blobs)
    /\ bc.tags = 0
    /\ IF marker = 0 THEN bc = NoItem
       ELSE \E log \in seen :
              /\ marker <= Len(log)
              /\ bc.path = marker - 1 /\ bc.etag = log[marker]

ListInv == ListTypeInv /\ SoFar /\ ListingIsAtomic

-----------------------------------------------------------------------------

(* The places of a sequence have its elements. *)
LEMMA Elements ==
  ASSUME NEW S, NEW s \in Seq(S)
  PROVE  /\ Len(s) \in Nat
         /\ DOMAIN s = 1 .. Len(s)
         /\ \A k \in 1 .. Len(s) : s[k] \in S
OBVIOUS

(* What a log and its places are, said once for the provers. *)
LEMMA LogFacts ==
  ASSUME NEW log \in LogStates
  PROVE  /\ Len(log) \in Nat
         /\ Len(log) = 0 <=> log = << >>
         /\ \A k \in 1 .. Len(log) : log[k] \in 1 .. MaxEtag
         /\ \A k \in 1 .. Len(log) : log[k] \in Nat \ {0}
<1>1. log \in Seq(1 .. MaxEtag)
  BY DEF LogStates
<1>2. \A k \in 1 .. Len(log) : log[k] \in 1 .. MaxEtag
  BY <1>1, Elements
<1>3. \A x \in 1 .. MaxEtag : x \in Nat \ {0}
  BY BoundsAssumption
<1> QED
  BY <1>1, <1>2, <1>3

(* A page has the items that follow the marker, each with its type. *)
LEMMA PageItems ==
  ASSUME ListTypeInv, NEW page \in Pages
  PROVE  /\ Len(page.items) \in 0 .. Len(blobs) - marker
         /\ DOMAIN page.items = 1 .. Len(page.items)
         /\ page.items \in Seq(Items)
         /\ page.more \in BOOLEAN
         /\ \A k \in 1 .. Len(page.items) : page.items[k] = Item(marker + k - 1)
<1>1. PICK n \in {m \in 0 .. MaxPage : m <= Len(blobs) - marker}, more \in BOOLEAN :
        page = [items |-> [k \in 1 .. n |-> Item(marker + k - 1)], more |-> more]
  BY DEF Pages
<1>2. n \in Nat /\ n <= Len(blobs) - marker
  BY <1>1, BoundsAssumption
<1>3. \A k \in 1 .. n : Item(marker + k - 1) \in Items
  <2> SUFFICES ASSUME NEW k \in 1 .. n PROVE Item(marker + k - 1) \in Items
    OBVIOUS
  <2>0. blobs \in LogStates /\ Len(blobs) \in Nat /\ marker \in 0 .. Len(blobs)
    BY LogFacts DEF ListTypeInv
  <2>1. marker + k \in 1 .. Len(blobs)
    BY <1>2, <2>0
  <2>2. blobs[marker + k] \in 1 .. MaxEtag
    BY <2>0, <2>1, LogFacts
  <2>3. (marker + k - 1) + 1 = marker + k /\ marker + k - 1 \in 0 .. MaxBlobs
    BY <2>0, <2>1, BoundsAssumption DEF ListTypeInv
  <2> QED
    BY <2>2, <2>3, BoundsAssumption DEF Item, Items
<1>4. page.items = [k \in 1 .. n |-> Item(marker + k - 1)] /\ page.more = more
  BY <1>1
<1>5. page.items \in Seq(Items) /\ Len(page.items) = n
  BY <1>2, <1>3, <1>4
<1> QED
  BY <1>2, <1>4, <1>5

(* The tail keeps its length and type, shifted or not. *)
LEMMA TakenType ==
  ASSUME NEW t \in Seq(Items), NEW items \in Seq(Items)
  PROVE  Taken(t, items) \in Seq(Items)
<1> DEFINE stale == IF Len(items) < Len(t) THEN Len(items) ELSE Len(t)
           s == Shifted(t, stale)
<1>1. stale \in Nat /\ stale <= Len(t) /\ stale <= Len(items)
  OBVIOUS
<1>2. \A k \in 1 .. Len(t) : s[k] \in Items
  <2> SUFFICES ASSUME NEW k \in 1 .. Len(t) PROVE s[k] \in Items
    OBVIOUS
  <2>1. CASE stale = Len(t)
    BY <2>1 DEF Shifted
  <2>2. CASE stale # Len(t)
    <3> DEFINE from == Len(t) - stale - 1
    <3>1. from \in Nat
      BY <1>1, <2>2
    <3>2. s[k] = IF from + k <= Len(t) THEN t[from + k] ELSE t[k]
      BY <2>2 DEF Shifted
    <3> HIDE DEF s, from
    <3>3. from + k <= Len(t) => t[from + k] \in Items
      <4>1. from + k <= Len(t) => from + k \in 1 .. Len(t)
        BY <3>1, Elements
      <4> QED
        BY <4>1, Elements
    <3>4. t[k] \in Items
      OBVIOUS
    <3> QED
      BY <3>2, <3>3, <3>4
  <2> QED
    BY <2>1, <2>2
<1>3. Taken(t, items) =
        [k \in 1 .. Len(t) |->
           IF k <= Len(t) - stale THEN s[k] ELSE items[Len(items) - Len(t) + k]]
  BY DEF Taken
<1>4. \A k \in 1 .. Len(t) :
        ~(k <= Len(t) - stale) => items[Len(items) - Len(t) + k] \in Items
  <2> SUFFICES ASSUME NEW k \in 1 .. Len(t), ~(k <= Len(t) - stale)
               PROVE  items[Len(items) - Len(t) + k] \in Items
    OBVIOUS
  <2>1. Len(items) - Len(t) + k \in 1 .. Len(items)
    BY <1>1
  <2> QED
    BY <2>1
<1> HIDE DEF stale, s
<1> QED
  BY <1>2, <1>3, <1>4

(* The first state is one the invariant allows. *)
LEMMA InitHolds == ListInit => ListInv
BY BoundsAssumption
   DEF ListInit, ListInv, ListTypeInv, SoFar, ListingIsAtomic, NoItem, Items, LogStates

-----------------------------------------------------------------------------
(* One lemma for each action *)

(* A write adds a log that is at least as long as those before it. *)
LEMMA WriteHolds == ListInv /\ Write => ListInv'
<1> SUFFICES ASSUME ListInv, Write PROVE ListInv'
  OBVIOUS
<1>1. /\ blobs' \in LogStates /\ Len(blobs') <= MaxBlobs /\ Len(blobs') >= Len(blobs)
  <2>0. /\ blobs \in Seq(1 .. MaxEtag) /\ Len(blobs) \in Nat
        /\ Len(blobs) <= MaxBlobs
        /\ blobs # << >> => Len(blobs) # 0
    BY LogFacts DEF ListInv, ListTypeInv, LogStates
  <2>1. CASE Create
    <3>1. nextEtag \in 1 .. MaxEtag
      BY <2>1, BoundsAssumption DEF Create, ListInv, ListTypeInv
    <3>2. blobs' \in Seq(1 .. MaxEtag) /\ Len(blobs') = Len(blobs) + 1
      BY <2>0, <2>1, <3>1 DEF Create
    <3> QED
      BY <2>0, <2>1, <3>2, BoundsAssumption DEF Create, LogStates
  <2>2. CASE Update
    <3>1. nextEtag \in 1 .. MaxEtag
      BY <2>2, BoundsAssumption DEF Update, ListInv, ListTypeInv
    <3>2. blobs' \in Seq(1 .. MaxEtag) /\ Len(blobs') = Len(blobs)
      BY <2>0, <2>2, <3>1 DEF Update
    <3> QED
      BY <2>0, <3>2 DEF LogStates
  <2> QED
    BY <2>1, <2>2 DEF Write
<1>2. ListTypeInv'
  BY <1>1 DEF Write, ListInv, ListTypeInv, LogStates
<1>3. SoFar'
  <2> SUFFICES ASSUME pc = "last" PROVE SoFar'
    BY DEF Write, SoFar
  <2>1. seen' = seen \cup {blobs'}
    BY DEF Write
  <2>2. \A log \in seen' : Len(log) <= Len(blobs')
    BY <1>1, <2>1 DEF ListInv, ListTypeInv, SoFar, LogStates
  <2> QED
    BY <2>1, <2>2 DEF Write, ListInv, SoFar
<1>4. ListingIsAtomic'
  BY DEF Write, ListInv, ListingIsAtomic, IsLastOf, NoItem
<1> QED
  BY <1>2, <1>3, <1>4 DEF ListInv

(* A call begins with the log as it is. *)
LEMMA CallHolds ==
  ASSUME ListInv, NEW op \in {"last", "tail"}, NEW n \in Nat, Call(op, n)
  PROVE  ListInv'
<1>1. NoItem \in Items
  BY BoundsAssumption DEF NoItem, Items
<1>2. tail' \in Seq(Items)
  BY <1>1 DEF Call
<1>3. ListTypeInv'
  BY <1>1, <1>2 DEF Call, ListInv, ListTypeInv, LogStates
<1>4. SoFar' /\ ListingIsAtomic'
  BY DEF Call, ListInv, ListTypeInv, SoFar, ListingIsAtomic, NoItem, LogStates
<1> QED
  BY <1>3, <1>4 DEF ListInv

(* The last page either leaves the log where the last item was found, or   *)
(* ends at the end of the log as it is.                                    *)
LEMMA LastHolds ==
  ASSUME ListInv, NEW page \in Pages, LastPrefixedBlob(page)
  PROVE  ListInv'
<1> USE DEF ListInv
<1>0. /\ pc = "last" /\ Page(page)
      /\ UNCHANGED <<blobs, nextEtag, tail, seen>>
  BY DEF LastPrefixedBlob
<1>1. CASE Len(page.items) = 0
  <2>1. /\ marker = Len(blobs) /\ marker' = marker /\ pc' = "lastFound"
        /\ UNCHANGED <<foundCount, bc>>
    BY <1>0, <1>1 DEF LastPrefixedBlob, Page, ListTypeInv, LogStates
  <2>2. ListTypeInv'
    BY <1>0, <2>1 DEF ListTypeInv
  <2>3. CASE marker = 0
    <3>1. blobs = << >> /\ blobs \in seen /\ bc = NoItem
      BY <1>0, <2>1, <2>3 DEF SoFar, ListTypeInv, LogStates
    <3>2. ListingIsAtomic'
      BY <1>0, <2>1, <2>3, <3>1 DEF ListingIsAtomic, IsLastOf, NoItem, ListTypeInv
    <3> QED
      BY <2>1, <2>2, <3>2 DEF SoFar
  <2>4. CASE marker # 0
    <3>1. PICK log \in seen : /\ marker <= Len(log)
                              /\ bc.path = marker - 1 /\ bc.etag = log[marker]
      BY <1>0, <2>4 DEF SoFar
    <3>2. Len(log) = marker /\ log # << >>
      BY <1>0, <2>1, <2>4, <3>1 DEF SoFar, ListTypeInv, LogStates
    <3>3. IsLastOf(bc, log)
      BY <1>0, <3>1, <3>2 DEF IsLastOf, SoFar
    <3>4. ListingIsAtomic'
      BY <1>0, <2>1, <3>2, <3>3 DEF ListingIsAtomic, IsLastOf, NoItem, ListTypeInv
    <3> QED
      BY <2>1, <2>2, <3>4 DEF SoFar
  <2> QED
    BY <2>3, <2>4
<1>2. CASE Len(page.items) # 0
  <2> DEFINE n == Len(page.items)
  <2>1. /\ n \in 1 .. Len(blobs) - marker
        /\ page.items \in Seq(Items)
        /\ page.items[n] = Item(marker + n - 1)
        /\ page.more \in BOOLEAN
    BY <1>2, PageItems
  <2>2. /\ marker' = marker + n
        /\ foundCount' = foundCount + n
        /\ bc' = LastItem(bc, page)
        /\ pc' = IF page.more THEN "last" ELSE "lastFound"
    BY <1>0, <1>2 DEF LastPrefixedBlob, Page, CountFound
  <2>3. /\ marker' \in 1 .. Len(blobs) /\ foundCount' = marker'
        /\ (marker + n - 1) + 1 = marker'
    BY <2>1, <2>2 DEF ListTypeInv, LogStates
  <2>4. /\ bc'.path = marker' - 1 /\ bc'.etag = blobs[marker']
        /\ bc'.tags = IF page.more THEN bc.tags ELSE blobs[marker']
    BY <2>1, <2>2, <2>3 DEF LastItem, Item, ListTypeInv, LogStates
  <2>5. bc' \in Items
    <3>1. page.items[n] \in Items
      BY <2>1
    <3> QED
      BY <2>2, <3>1 DEF LastItem, Items, ListTypeInv
  <2>6. ListTypeInv'
    BY <1>0, <2>2, <2>3, <2>5 DEF ListTypeInv, LogStates
  <2>7. CASE page.more
    <3>1. SoFar'
      BY <1>0, <2>2, <2>3, <2>4, <2>7 DEF SoFar, ListTypeInv, LogStates
    <3> QED
      BY <2>2, <2>6, <2>7, <3>1 DEF ListingIsAtomic
  <2>8. CASE ~page.more
    <3>1. marker' = Len(blobs)
      BY <1>0, <2>2, <2>3, <2>8 DEF Page, ListTypeInv, LogStates
    <3>2. blobs # << >> /\ blobs \in seen
      BY <1>0, <2>3, <3>1 DEF SoFar, ListTypeInv, LogStates
    <3>3. ListingIsAtomic'
      BY <1>0, <2>3, <2>4, <2>8, <3>1, <3>2
      DEF ListingIsAtomic, IsLastOf, NoItem
    <3> QED
      BY <2>2, <2>6, <2>8, <3>3 DEF SoFar
  <2> QED
    BY <2>1, <2>7, <2>8
<1> QED
  BY <1>1, <1>2

(* A page of PrefixedBlobLastN leaves the other call's result alone. *)
LEMMA TailHolds ==
  ASSUME ListInv, NEW page \in Pages, PrefixedBlobLastN(page)
  PROVE  ListInv'
<1> USE DEF ListInv
<1>1. /\ pc = "tail" /\ Page(page) /\ pc' \in {"tail", "tailFound"}
      /\ UNCHANGED <<blobs, nextEtag, bc, seen>>
  BY DEF PrefixedBlobLastN
<1>2. Len(page.items) \in 0 .. Len(blobs) - marker /\ page.items \in Seq(Items)
  BY PageItems
<1>3. marker' \in 0 .. Len(blobs) /\ foundCount' = marker'
  BY <1>1, <1>2 DEF PrefixedBlobLastN, Page, CountFound, ListTypeInv, LogStates
<1>4. tail' \in Seq(Items)
  BY <1>2, TakenType DEF PrefixedBlobLastN, ListTypeInv
<1>5. ListTypeInv'
  BY <1>1, <1>3, <1>4 DEF ListTypeInv, LogStates
<1> QED
  BY <1>1, <1>5 DEF SoFar, ListingIsAtomic

(* Every step keeps the invariant. *)
LEMMA StepHolds == ListInv /\ [ListNext]_listVars => ListInv'
<1> SUFFICES ASSUME ListInv, [ListNext]_listVars PROVE ListInv'
  OBVIOUS
<1>1. CASE Write
  BY <1>1, WriteHolds
<1>2. CASE Call("last", 0)
  BY <1>2, CallHolds
<1>3. ASSUME NEW n \in Tails, Call("tail", n) PROVE ListInv'
  BY <1>3, CallHolds, BoundsAssumption
<1>4. ASSUME NEW page \in Pages, LastPrefixedBlob(page) PROVE ListInv'
  BY <1>4, LastHolds
<1>5. ASSUME NEW page \in Pages, PrefixedBlobLastN(page) PROVE ListInv'
  BY <1>5, TailHolds
<1>6. CASE ListError
  BY <1>6 DEF ListError, ListInv, ListTypeInv, SoFar, ListingIsAtomic, LogStates
<1>7. CASE UNCHANGED listVars
  BY <1>7 DEF listVars, ListInv, ListTypeInv, SoFar, ListingIsAtomic, IsLastOf, NoItem, LogStates
<1> QED
  BY <1>1, <1>2, <1>3, <1>4, <1>5, <1>6, <1>7 DEF ListNext

-----------------------------------------------------------------------------

(* The invariant holds of every listing. *)
THEOREM ListInvariant == ListSpec => []ListInv
<1>1. ListInit => ListInv
  BY InitHolds
<1>2. ListInv /\ [ListNext]_listVars => ListInv'
  BY StepHolds
<1> QED
  BY <1>1, <1>2, PTL DEF ListSpec

(* Every variable of a listing has its type, and the count is that of the  *)
(* items seen.                                                             *)
THEOREM ListTypeCorrect == ListSpec => []ListTypeOK
<1>1. ListInv => ListTypeOK
  BY DEF ListInv, ListTypeInv, ListTypeOK, LogStates
<1> QED
  BY <1>1, ListInvariant, PTL

(* LastPrefixedBlob's answer is the state of the log at one moment of the  *)
(* call, however many pages it took and whatever was written in between.   *)
THEOREM Atomic == ListSpec => []ListingIsAtomic
<1>1. ListInv => ListingIsAtomic
  BY DEF ListInv
<1> QED
  BY <1>1, ListInvariant, PTL

=============================================================================
