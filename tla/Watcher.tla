------------------------------- MODULE Watcher -------------------------------
(***************************************************************************)
(* Watching logs for changes (watcher/watcher.go, watcher/logtails.go).    *)
(* Commits tag their blob with the last id in it; the index of tags lags   *)
(* behind.  A watcher polls the index for blobs whose last id is not older *)
(* than its horizon, and collates what it gets, item by item, into the     *)
(* tail of each log: the massif, or seal, of the highest number.           *)
(*                                                                         *)
(* An id is the time it was made at.  The items of a page are taken one at *)
(* a time: what a page has at one moment, items taken without a step in    *)
(* between have too.  A page that is not listed comes with the marker it   *)
(* had (FilterBlobs): "only the caller can usefully decide if to retry the *)
(* page or the whole lot".  To ask for the page again changes nothing; the *)
(* whole lot is another poll, as it is after a page that CollatePage ends  *)
(* with an error.  A caller of either is not in the code: it is taken to   *)
(* use no visitor and the first filter until a poll is complete.           *)
(***************************************************************************)
EXTENDS Integers

CONSTANTS Logs,            \* the massifs, or the seals, of a tenant
          MaxNumber,       \* bound: the highest number of a massif
          MaxTime,         \* bound: the last moment
          MaxCommits,      \* bound: commits to a log
          Configs,         \* what a watcher may be configured with
          DefaultHorizon, DefaultInterval,
          Lag,             \* from an id to its tag in the index at most
          PollTime,        \* a poll lasts at most
          MaxFailures      \* polls that fail one after the other at most

ASSUME TimesAssumption ==
  /\ MaxTime \in Nat /\ Lag \in Nat /\ PollTime \in Nat /\ MaxFailures \in Nat
  /\ DefaultHorizon \in Nat \ {0} /\ DefaultInterval \in Nat \ {0}
ASSUME MaxNumberAssumption == MaxNumber \in Nat /\ MaxCommits \in Nat
ASSUME ConfigsAssumption ==
  Configs \subseteq [Since : Nat, IDSince : Nat, Horizon : Nat, Interval : Nat]

VARIABLES
  now,      \* the clock
  head,     \* for each log the number it is written at
  commits,  \* how many commits each log has
  pending,  \* commits whose tag is not in the index yet
  index,    \* for each log and number the last id in the index
  cfg,      \* the configuration of the watcher
  poll,     \* where it is
  tails,    \* LogTailCollator
  failures, \* polls that failed since one was complete
  began,    \* history: when the last poll began, and the index then
  visible,  \* history: the same of the last poll that was complete
  reported  \* history: the newest tail of each log in a complete poll

logVars == <<head, commits, pending, index>>
history == <<began, visible, reported>>
vars == <<now, logVars, cfg, poll, tails, failures, history>>

Unset == 0
Numbers == 0 .. MaxNumber
Blobs == Logs \X Numbers
NoTail == [Number |-> -1, LastID |-> 0]

Init ==
  /\ now = 1
  /\ head = [l \in Logs |-> 0]
  /\ commits = [l \in Logs |-> 0]
  /\ pending = {}
  /\ index = [b \in Blobs |-> 0]
  /\ cfg = [Since |-> 0, IDSince |-> 0, Horizon |-> 0, Interval |-> 0]
  /\ poll = [phase |-> "off", at |-> 0, first |-> TRUE, since |-> 0, left |-> {}]
  /\ tails = [l \in Logs |-> NoTail]
  /\ failures = 0
  /\ began = [at |-> 0, index |-> index] /\ visible = began
  /\ reported = [l \in Logs |-> NoTail]

-----------------------------------------------------------------------------
(* Logs and their tags *)

(* A commit to the massif, or the first to the next one *)
Commit(l, n) ==
  /\ commits[l] < MaxCommits
  /\ n \in {head[l], head[l] + 1} /\ n <= MaxNumber
  /\ head' = [head EXCEPT ![l] = n]
  /\ commits' = [commits EXCEPT ![l] = @ + 1]
  /\ pending' = pending \union {[blob |-> <<l, n>>, id |-> now]}
  /\ UNCHANGED <<now, index, cfg, poll, tails, failures, history>>

Index(c) ==
  /\ pending' = pending \ {c}
  /\ index' = [index EXCEPT ![c.blob] = IF c.id > @ THEN c.id ELSE @]
  /\ UNCHANGED <<now, head, commits, cfg, poll, tails, failures, history>>

(* Time passes, until the index, the poll or the next poll is due *)
Tick ==
  /\ now < MaxTime
  /\ \A c \in pending : now < c.id + Lag
  /\ poll.phase = "polling" => now < poll.at + PollTime
  /\ poll.phase = "waiting" => now < poll.at + cfg.Interval
  /\ now' = now + 1
  /\ UNCHANGED <<logVars, cfg, poll, tails, failures, history>>

-----------------------------------------------------------------------------
(* The watcher *)

(* Neither a start nor a horizon is an error *)
Configurable(c) == ~(c.Since = Unset /\ c.IDSince = Unset /\ c.Horizon = Unset)

(* A horizon is forced, and a start that is not given is that long ago *)
ConfigDefaults(c) ==
  LET horizon == IF c.Horizon = Unset THEN DefaultHorizon ELSE c.Horizon
      since == IF c.IDSince # Unset THEN c.IDSince
               ELSE IF c.Since # Unset THEN c.Since
               ELSE now - horizon
  IN [Since |-> since, IDSince |-> since, Horizon |-> horizon,
      Interval |-> IF c.Interval = Unset THEN DefaultInterval ELSE c.Interval]

NewWatcher(c) ==
  /\ poll.phase = "off"
  /\ Configurable(c)
  /\ cfg' = ConfigDefaults(c)
  /\ poll' = [poll EXCEPT !.phase = "new"]
  /\ UNCHANGED <<now, logVars, tails, failures, history>>

FirstFilter == cfg.IDSince

(* Slip: what changed since the poll before *)
NextFilterFromLast == IF cfg.Horizon = 0 THEN FirstFilter ELSE poll.at

NextFilter == IF cfg.Horizon = 0 THEN FirstFilter ELSE now - cfg.Horizon

(* A poll has a collator of its own *)
Poll ==
  /\ poll.phase \in {"new", "waiting"}
  /\ poll' = [phase |-> "polling", at |-> now, first |-> poll.first, left |-> Blobs,
              since |-> IF poll.first THEN FirstFilter ELSE NextFilter]
  /\ tails' = [l \in Logs |-> NoTail]
  /\ began' = [at |-> now, index |-> index]
  /\ UNCHANGED <<now, logVars, cfg, failures, visible, reported>>

(* The number goes before the id: of one blob the item that came first stays *)
TryReplaceTail(tail, other) == IF other.Number <= tail.Number THEN tail ELSE other

(* The index comes to a blob: it is an item if its tag passes the filter *)
CollectPageItem(b) ==
  /\ poll.phase = "polling"
  /\ b \in poll.left
  /\ poll' = [poll EXCEPT !.left = @ \ {b}]
  /\ tails' =
       IF index[b] = 0 \/ index[b] < poll.since THEN tails
       ELSE [tails EXCEPT ![b[1]] =
               TryReplaceTail(@, [Number |-> b[2], LastID |-> index[b]])]
  /\ UNCHANGED <<now, logVars, cfg, failures, history>>

Later(tail, other) ==
  \/ tail.Number < other.Number
  \/ tail.Number = other.Number /\ tail.LastID < other.LastID

(* A page is not listed, or has an item whose path cannot be parsed: the   *)
(* items that are left are not collated                                    *)
FailPoll ==
  /\ poll.phase = "polling"
  /\ failures < MaxFailures
  /\ poll' = [poll EXCEPT !.phase = "waiting", !.at = now, !.left = {}]
  /\ failures' = failures + 1
  /\ UNCHANGED <<now, logVars, cfg, tails, history>>

(* The last page has no marker, and has been collated *)
EndPoll ==
  /\ poll.phase = "polling" /\ poll.left = {}
  /\ poll' = [poll EXCEPT !.phase = "waiting", !.at = now, !.first = FALSE]
  /\ failures' = 0
  /\ visible' = began
  /\ reported' = [l \in Logs |-> IF Later(reported[l], tails[l]) THEN tails[l]
                                 ELSE reported[l]]
  /\ UNCHANGED <<now, logVars, cfg, tails, began>>

Next ==
  \/ \E l \in Logs, n \in Numbers : Commit(l, n)
  \/ \E c \in pending : Index(c)
  \/ Tick
  \/ \E c \in Configs : NewWatcher(c)
  \/ Poll
  \/ \E b \in Blobs : CollectPageItem(b)
  \/ FailPoll
  \/ EndPoll

Spec == Init /\ [][Next]_vars

-----------------------------------------------------------------------------
(* Properties *)

(* Every variable has its type; a horizon is always set.                   *)
TypeOK ==
  /\ now \in Nat
  /\ head \in [Logs -> Numbers] /\ commits \in [Logs -> Nat]
  /\ pending \subseteq [blob : Blobs, id : Nat]
  /\ index \in [Blobs -> Nat]
  /\ cfg \in [Since : Int, IDSince : Int, Horizon : Nat, Interval : Nat]
  /\ poll \in [phase : {"off", "new", "polling", "waiting"}, at : Nat,
               first : BOOLEAN, left : SUBSET Blobs, since : Int]
  /\ poll.phase # "off" => cfg.Horizon # 0
  /\ tails \in [Logs -> [Number : -1 .. MaxNumber, LastID : Nat]]
  /\ failures \in 0 .. MaxFailures
  /\ began \in [at : Nat, index : [Blobs -> Nat]]
  /\ visible \in [at : Nat, index : [Blobs -> Nat]]
  /\ reported \in [Logs -> [Number : -1 .. MaxNumber, LastID : Nat]]

(* The interval and the poll, as often as polls may fail and once more,    *)
(* and the lag of the index are within the horizon.                        *)
Covers ==
  (MaxFailures + 1) * (cfg.Interval + PollTime) + Lag <= cfg.Horizon

(* Then no poll that is complete leaves anything out that it could see:    *)
(* each log whose blob was in the index when it began, since the start of  *)
(* the watch, has been reported, in that poll or before, with that massif  *)
(* and that id or later ones; in whatever order the pages come, whatever   *)
(* else changes, and whichever polls fail.                                 *)
ReportsWhatIsVisible ==
  Covers =>
    \A l \in Logs, n \in Numbers :
      LET id == visible.index[<<l, n>>]
      IN id # 0 /\ id >= cfg.IDSince =>
           ~Later(reported[l], [Number |-> n, LastID |-> id])

=============================================================================
