---------------------------- MODULE SnowflakeID ----------------------------
(***************************************************************************)
(* massifs/snowflakeid/nextid.go: the id generator of a process, shared by *)
(* its goroutines without a lock.  A call reads the clock, loads the last  *)
(* value, works out the next one and installs it by compare and swap; a    *)
(* call that loses the race spins or gives up.  Several processes run, each*)
(* with its own worker id and clock, and may restart.                      *)
(***************************************************************************)
EXTENDS Integers, Sequences

CONSTANTS Workers,      \* processes
          Threads,      \* goroutines that call NextID
          WorkerOf,     \* the process of each goroutine
          WorkerId,     \* the worker id of each process, from its private ip
          TimeRange,    \* milliseconds in an epoch, 2^TimeBits
          SeqMask,      \* the largest sequence number
          MaxTime,      \* bound: the last millisecond of the clocks
          MaxLives,     \* bound: how often each process is started
          MaxIds        \* bound: ids issued by each process

ASSUME WorkersAssumption ==
  /\ WorkerOf \in [Threads -> Workers]
  /\ WorkerId \in [Workers -> Nat]
  /\ \A v, w \in Workers : WorkerId[v] = WorkerId[w] => v = w
ASSUME RangesAssumption ==
  /\ TimeRange \in Nat \ {0} /\ SeqMask \in Nat
  /\ MaxTime \in Nat \ {0}
  /\ MaxLives \in [Workers -> Nat] /\ MaxIds \in [Workers -> Nat]
(* An epoch is 34 years: processes that restart do not run on beyond it    *)
ASSUME EpochAssumption ==
  (\E w \in Workers : MaxLives[w] > 1) => MaxTime <= TimeRange

VARIABLES
  clock,      \* milliseconds since the epoch, as each process sees it
  monotonic,  \* IDState.monotonic of each process
  pc,         \* where each goroutine is in NextID, or how its call ended
  now,        \* its local variable
  last,       \* its local variable
  spins,      \* its loop counter
  called,     \* history: the clock when its call began
  life,       \* history: how often each process was started
  start,      \* history: the clock of each process when it was started
  issued      \* history: the ids given out

vars == <<clock, monotonic, pc, now, last, spins, called, life, start, issued>>
lives == <<life, start>>

Source == INSTANCE IdSource

(* IDState.monotonic: 0, and the worker field of the id not filled in *)
Zero == [time |-> 0, worker |-> 0, seq |-> 0]

(* NewIDState leaves IDState.allowSpins at its zero value, whatever        *)
(* Config.AllowSpins is                                                    *)
allowSpins == 0

Failed == {"overloaded", "violation"}

(* The locals of NextID go when the call returns *)
Leave(t) ==
  /\ now' = [now EXCEPT ![t] = 0]
  /\ last' = [last EXCEPT ![t] = Zero]
  /\ called' = [called EXCEPT ![t] = 0]

Init ==
  /\ clock = [w \in Workers |-> 1]
  /\ monotonic = [w \in Workers |-> Zero]
  /\ pc = [t \in Threads |-> "idle"]
  /\ now = [t \in Threads |-> 0]
  /\ last = [t \in Threads |-> Zero]
  /\ spins = [t \in Threads |-> 0]
  /\ called = [t \in Threads |-> 0]
  /\ life = [w \in Workers |-> 1]
  /\ start = [w \in Workers |-> 1]
  /\ issued = [w \in Workers |-> << >>]

-----------------------------------------------------------------------------

Call(t) ==
  /\ pc[t] \in {"idle"} \cup Failed
  /\ Len(issued[WorkerOf[t]]) < MaxIds[WorkerOf[t]]
  /\ pc' = [pc EXCEPT ![t] = "now"]
  /\ spins' = [spins EXCEPT ![t] = 0]
  /\ called' = [called EXCEPT ![t] = clock[WorkerOf[t]]]
  /\ now' = [now EXCEPT ![t] = 0]
  /\ last' = [last EXCEPT ![t] = Zero]
  /\ UNCHANGED <<clock, monotonic, lives, issued>>

millisecondMonotonicNow(t) ==
  /\ pc[t] = "now"
  /\ now' = [now EXCEPT ![t] = clock[WorkerOf[t]]]
  /\ pc' = [pc EXCEPT ![t] = "load"]
  /\ UNCHANGED <<clock, monotonic, last, spins, called, lives, issued>>

(* Slips: a clock that has not moved counts as one that has; a sequence    *)
(* that is exhausted waits for the clock; the clock is not looked at again *)
(* after the first id                                                      *)
NextInSameMillisecond(n, l) ==
  IF n >= l.time THEN [Zero EXCEPT !.time = n % TimeRange]
  ELSE IF l.seq = SeqMask THEN [Zero EXCEPT !.time = (l.time + 1) % TimeRange]
  ELSE [l EXCEPT !.seq = @ + 1]
NextWaiting(n, l) ==
  IF n > l.time THEN [Zero EXCEPT !.time = n % TimeRange]
  ELSE IF l.seq = SeqMask THEN l
  ELSE [l EXCEPT !.seq = @ + 1]
NextBehindTheClock(n, l) ==
  IF l = Zero THEN [Zero EXCEPT !.time = n % TimeRange]
  ELSE IF l.seq = SeqMask THEN [Zero EXCEPT !.time = (l.time + 1) % TimeRange]
  ELSE [l EXCEPT !.seq = @ + 1]

(* The value after l if the clock reads n.  The shift drops the high bits. *)
NextValue(n, l) ==
  IF n > l.time THEN [Zero EXCEPT !.time = n % TimeRange]
  ELSE IF l.seq = SeqMask THEN [Zero EXCEPT !.time = (l.time + 1) % TimeRange]
  ELSE [l EXCEPT !.seq = @ + 1]

(* ErrSequenceViolation ends the call *)
Load(t) ==
  /\ pc[t] = "load"
  /\ LET l == monotonic[WorkerOf[t]]
     IN /\ last' = [last EXCEPT ![t] = l]
        /\ pc' = [pc EXCEPT ![t] =
                    IF Source!Before(l, NextValue(now[t], l)) THEN "cas"
                    ELSE "violation"]
  /\ UNCHANGED <<clock, monotonic, now, spins, called, lives, issued>>

(* The id: the worker id goes to the field left zero for it *)
WithWorker(v, w) == [v EXCEPT !.worker = WorkerId[w] + @]

(* What the history keeps of it *)
Entry(v, w) == [life |-> life[w], start |-> start[w], id |-> WithWorker(v, w)]

(* Slip: the value is stored whatever the generator's state is by now *)
StoreUnconditionally(t) ==
  /\ pc[t] = "cas"
  /\ LET w == WorkerOf[t]
         next == NextValue(now[t], last[t])
     IN /\ monotonic' = [monotonic EXCEPT ![w] = next]
        /\ issued' = [issued EXCEPT ![w] = Append(@, Entry(next, w))]
        /\ pc' = [pc EXCEPT ![t] = "idle"]
        /\ Leave(t)
        /\ UNCHANGED spins
  /\ UNCHANGED <<clock, lives>>

(* A call that loses the race tries again, or ends with ErrOverloaded *)
CompareAndSwap(t) ==
  /\ pc[t] = "cas"
  /\ LET w == WorkerOf[t]
         next == NextValue(now[t], last[t])
     IN IF monotonic[w] = last[t]
        THEN /\ monotonic' = [monotonic EXCEPT ![w] = next]
             /\ issued' = [issued EXCEPT ![w] = Append(@, Entry(next, w))]
             /\ pc' = [pc EXCEPT ![t] = "idle"]
             /\ Leave(t)
             /\ UNCHANGED spins
        ELSE /\ IF spins[t] < allowSpins
                THEN /\ spins' = [spins EXCEPT ![t] = @ + 1]
                     /\ pc' = [pc EXCEPT ![t] = "now"]
                     /\ UNCHANGED <<now, last, called>>
                ELSE /\ pc' = [pc EXCEPT ![t] = "overloaded"]
                     /\ Leave(t)
                     /\ UNCHANGED spins
             /\ UNCHANGED <<monotonic, issued>>
  /\ UNCHANGED <<clock, lives>>

(* A clock may pause and never goes back while its process runs *)
Tick(w) ==
  /\ clock[w] < MaxTime
  /\ clock' = [clock EXCEPT ![w] = @ + 1]
  /\ UNCHANGED <<monotonic, pc, now, last, spins, called, lives, issued>>

(* A process starts again with nothing remembered.  Its time is that of the *)
(* wall clock, which does go backwards, and may be one it gave ids out for. *)
Restart(w) ==
  /\ life[w] < MaxLives[w]
  /\ \E c \in 1 .. MaxTime :
       /\ clock' = [clock EXCEPT ![w] = c]
       /\ start' = [start EXCEPT ![w] = c]
  /\ life' = [life EXCEPT ![w] = @ + 1]
  /\ monotonic' = [monotonic EXCEPT ![w] = Zero]
  /\ pc' = [t \in Threads |-> IF WorkerOf[t] = w THEN "idle" ELSE pc[t]]
  /\ now' = [t \in Threads |-> IF WorkerOf[t] = w THEN 0 ELSE now[t]]
  /\ last' = [t \in Threads |-> IF WorkerOf[t] = w THEN Zero ELSE last[t]]
  /\ spins' = [t \in Threads |-> IF WorkerOf[t] = w THEN 0 ELSE spins[t]]
  /\ called' = [t \in Threads |-> IF WorkerOf[t] = w THEN 0 ELSE called[t]]
  /\ UNCHANGED issued

Step(t) ==
  Call(t) \/ millisecondMonotonicNow(t) \/ Load(t) \/ CompareAndSwap(t)

Next ==
  \/ \E t \in Threads : Step(t)
  \/ \E w \in Workers : Tick(w) \/ Restart(w)

Spec == Init /\ [][Next]_vars

(* Goroutines are scheduled; callers try again when refused.  Nothing is   *)
(* assumed of the clocks, which may pause for as long as they like.        *)
FairSpec == Spec /\ \A t \in Threads : WF_vars(Step(t))

-----------------------------------------------------------------------------
(* Properties *)

Value == [time : Nat, worker : Nat, seq : Nat]

(* Every variable has its type; the worker field of a stored value is free *)
TypeOK ==
  /\ clock \in [Workers -> Nat]
  /\ monotonic \in [Workers -> Value]
  /\ \A w \in Workers : monotonic[w].worker = 0 /\ monotonic[w].seq <= SeqMask
  /\ pc \in [Threads -> {"idle", "now", "load", "cas"} \cup Failed]
  /\ now \in [Threads -> Nat]
  /\ last \in [Threads -> Value]
  /\ spins \in [Threads -> Nat]
  /\ called \in [Threads -> Nat]
  /\ life \in [Workers -> Nat] /\ start \in [Workers -> Nat]
  /\ issued \in [Workers -> Seq([life : Nat, start : Nat, id : Value])]

(* The generators together are an atomic source of ids that are unique and *)
(* go up for each worker while its process runs ("We strictly guarantee    *)
(* that monotonic only increases for all consumers"), however the calls of *)
(* goroutines interleave.  Over a restart that is so of the ids whose time *)
(* was over when the process was started again, and of no others: "The     *)
(* possibility of overlap due to process restart can be mitigated".        *)
Linearizable == Source!Spec

(* ErrSequenceViolation is only seen when the 40 bits of time run out:     *)
(* no interleaving or clock pause brings it about.                         *)
ViolationOnlyAtEpochEnd ==
  \A t \in Threads :
    pc[t] = "violation" =>
      now[t] >= TimeRange \/ monotonic[WorkerOf[t]].time = TimeRange - 1

(* The time in an id is never before the call that got it began: a proof   *)
(* of commitment is not backdated.                                         *)
NotBackdated ==
  [][\A t \in Threads :
       LET w == WorkerOf[t]
       IN pc[t] = "cas" /\ pc'[t] = "idle" /\ issued'[w] # issued[w] =>
            issued'[w][Len(issued'[w])].id.time >= called[t]]_vars

(* Callers that keep trying get ids until the time runs out, even if all   *)
(* clocks stop and every call but one loses its race.                      *)
EpochOver ==
  \E w \in Workers : clock[w] >= TimeRange \/ monotonic[w].time = TimeRange - 1
Progress ==
  <>((\A w \in Workers : Len(issued[w]) = MaxIds[w]) \/ EpochOver)

=============================================================================
