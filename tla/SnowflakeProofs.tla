-------------------------- MODULE SnowflakeProofs --------------------------
(***************************************************************************)
(* The id generators are an atomic source of ids for any number of         *)
(* processes and goroutines and any layout of the id: no two processes     *)
(* give out the same id, and an id comes after all of the life of its      *)
(* process, and after those of earlier lives whose time was over when this *)
(* one began.  And no id is backdated.                                     *)
(*                                                                         *)
(* The argument: an id of this life of worker w is at most the value w     *)
(* holds; the value a call installs comes after the one it loaded, which   *)
(* compare and swap makes the current one, and is not behind a clock that  *)
(* was read after the start.  A value at the end of the epoch stays there, *)
(* so that what makes a call fail still holds when the failure is seen.    *)
(***************************************************************************)
EXTENDS SnowflakeID, TLAPS

ValueOK(v) == v \in Value /\ v.worker = 0 /\ v.seq <= SeqMask

AtMost(a, b) == a.time < b.time \/ (a.time = b.time /\ a.seq <= b.seq)
Below(a, b) == a.time < b.time \/ (a.time = b.time /\ a.seq < b.seq)

InCall == {"load", "cas"}

EntryOK(e, w) ==
  /\ e.id.worker = WorkerId[w]
  /\ e.life \in 1 .. life[w]
  /\ e.life = life[w] => AtMost(e.id, monotonic[w])

CallOK(t) ==
  /\ now[t] <= MaxTime
  /\ ValueOK(last[t])
  /\ pc[t] = "cas" => Below(last[t], NextValue(now[t], last[t]))
  /\ called[t] <= clock[WorkerOf[t]]
  /\ pc[t] \in InCall => called[t] <= now[t] /\ start[WorkerOf[t]] <= now[t]

EntriesOK ==
  \A w \in Workers : \A k \in 1 .. Len(issued[w]) : EntryOK(issued[w][k], w)

LifeOK(w) ==
  /\ clock[w] <= MaxTime
  /\ start[w] <= clock[w]
  /\ life[w] = 1 \/ life[w] \in 2 .. MaxLives[w]

IInv ==
  /\ TypeOK
  /\ \A w \in Workers : LifeOK(w)
  /\ \A t \in Threads : CallOK(t)
  /\ EntriesOK

-----------------------------------------------------------------------------
(* The values *)

(* The constants have their types.                                         *)
LEMMA Constants ==
  /\ TimeRange \in Nat \ {0} /\ SeqMask \in Nat
  /\ MaxTime \in Nat \ {0}
  /\ MaxLives \in [Workers -> Nat] /\ MaxIds \in [Workers -> Nat]
  /\ WorkerOf \in [Threads -> Workers]
  /\ WorkerId \in [Workers -> Nat]
  BY WorkersAssumption, RangesAssumption

(* The first value is one.                                                 *)
LEMMA ZeroOK == ValueOK(Zero)
  BY Constants DEF ValueOK, Zero, Value

(* What follows a value is a value.                                        *)
LEMMA NextValueOK ==
  ASSUME NEW n \in Nat, NEW l, ValueOK(l)
  PROVE  ValueOK(NextValue(n, l))
<1>1. ASSUME NEW m \in Nat PROVE ValueOK([Zero EXCEPT !.time = m % TimeRange])
  <2>1. m % TimeRange \in Nat
    BY Constants
  <2> QED
    BY <2>1, Constants DEF ValueOK, Zero, Value
<1>2. CASE n > l.time
  BY <1>1, <1>2 DEF NextValue
<1>3. CASE ~(n > l.time) /\ l.seq = SeqMask
  <2>1. l.time + 1 \in Nat
    BY DEF ValueOK, Value
  <2> QED
    BY <1>1, <1>3, <2>1 DEF NextValue
<1>4. CASE ~(n > l.time) /\ l.seq # SeqMask
  <2>1. NextValue(n, l) = [l EXCEPT !.seq = @ + 1]
    BY <1>4 DEF NextValue
  <2>2. ValueOK([l EXCEPT !.seq = @ + 1])
    BY <1>4, Constants DEF ValueOK, Value
  <2> QED
    BY <2>1, <2>2
<1> QED
  BY <1>2, <1>3, <1>4

(* The order of ids is that of time and sequence number.                   *)
LEMMA BeforeIsBelow ==
  ASSUME NEW a, NEW b, ValueOK(a), ValueOK(b)
  PROVE  Source!Before(a, b) <=> Below(a, b)
  BY DEF Source!Before, Below, ValueOK, Value

(* The worker id is put in its own bits.                                   *)
LEMMA WithWorkerFields ==
  ASSUME NEW v, ValueOK(v), NEW w \in Workers
  PROVE  /\ WithWorker(v, w) \in Value
         /\ WithWorker(v, w).worker = WorkerId[w]
         /\ WithWorker(v, w).time = v.time
         /\ WithWorker(v, w).seq = v.seq
  BY Constants DEF WithWorker, ValueOK, Value

(* The next value is not before the clock, if that stays in its epoch.     *)
LEMMA NotBehind ==
  ASSUME MaxTime <= TimeRange, NEW n \in Nat, n <= MaxTime, NEW l, ValueOK(l),
         Below(l, NextValue(n, l))
  PROVE  n <= NextValue(n, l).time
<1>1. n < TimeRange => n % TimeRange = n
  BY Constants
<1>2. CASE n > l.time
  <2>1. CASE n < TimeRange
    BY <1>1, <1>2, <2>1 DEF NextValue, Zero
  <2>2. CASE n = TimeRange
    <3>1. n % TimeRange = 0
      BY <2>2, Constants
    <3>2. NextValue(n, l).time = 0 /\ NextValue(n, l).seq = 0
      BY <1>2, <3>1 DEF NextValue, Zero
    <3> QED
      BY <3>2 DEF Below, ValueOK, Value
  <2> QED
    BY <2>1, <2>2, Constants
<1>3. CASE ~(n > l.time)
  <2>1. l.time <= NextValue(n, l).time
    BY NextValueOK DEF Below, ValueOK, Value
  <2> QED
    BY <1>3, <2>1, NextValueOK DEF ValueOK, Value
<1> QED
  BY <1>2, <1>3

-----------------------------------------------------------------------------
(* The invariant *)

(* Nothing has been issued at first.                                       *)
LEMMA InitOK == Init => IInv
<1> SUFFICES ASSUME Init PROVE IInv
  OBVIOUS
<1>1. TypeOK
  BY ZeroOK, Constants DEF Init, TypeOK, Failed, ValueOK
<1>2. \A t \in Threads : CallOK(t)
  BY ZeroOK, Constants DEF Init, CallOK, InCall
<1>3. ASSUME NEW w \in Workers PROVE LifeOK(w)
  <2>1. clock[w] = 1 /\ start[w] = 1 /\ life[w] = 1
    BY <1>3 DEF Init
  <2>2. MaxTime \in Nat /\ 1 <= MaxTime
    BY Constants
  <2> QED
    BY <2>1, <2>2 DEF LifeOK
<1>4. \A w \in Workers : Len(issued[w]) = 0
  BY DEF Init
<1> QED
  BY <1>1, <1>2, <1>3, <1>4 DEF IInv, EntriesOK

Entries == [life : Nat, start : Nat, id : Value]

(* What has been issued is ids.                                            *)
LEMMA EntryType ==
  ASSUME TypeOK, NEW w \in Workers
  PROVE  /\ issued[w] \in Seq(Entries) /\ Len(issued[w]) \in Nat
         /\ \A k \in 1 .. Len(issued[w]) : issued[w][k] \in Entries
<1>1. ASSUME NEW S, NEW s \in Seq(S) PROVE Len(s) \in Nat /\ \A j \in 1 .. Len(s) : s[j] \in S
  BY <1>1
<1>2. issued[w] \in Seq(Entries)
  BY DEF TypeOK, Entries
<1> QED
  BY <1>1, <1>2

(* A step that gives out no id and takes no value away keeps the entries.  *)
LEMMA EntriesKept ==
  ASSUME EntriesOK, UNCHANGED <<issued, monotonic, life>>
  PROVE  EntriesOK'
  BY DEF EntriesOK, EntryOK

(* A call begins.                                                          *)
LEMMA CallStep ==
  ASSUME IInv, NEW t \in Threads, Call(t)
  PROVE  IInv'
<1>1. TypeOK /\ TypeOK'
  BY ZeroOK, Constants DEF IInv, TypeOK, Call, ValueOK, Failed, lives
<1>2. ASSUME NEW u \in Threads PROVE CallOK(u)'
  <2>1. CASE u # t
    BY <1>1, <2>1 DEF IInv, TypeOK, CallOK, Call, InCall, lives
  <2>2. CASE u = t
    <3>1. /\ now'[t] = 0 /\ last'[t] = Zero /\ pc'[t] = "now" /\ clock' = clock
          /\ called'[t] = clock[WorkerOf[t]] /\ clock[WorkerOf[t]] \in Nat
      BY <1>1, Constants DEF TypeOK, Call
    <3> QED
      BY <2>2, <3>1, ZeroOK, Constants DEF CallOK, InCall
  <2> QED
    BY <2>1, <2>2
<1>3. EntriesOK'
  BY EntriesKept DEF Call, lives, IInv
<1> QED
  BY <1>1, <1>2, <1>3 DEF IInv, Call, LifeOK, lives

(* The clock is read.                                                      *)
LEMMA NowStep ==
  ASSUME IInv, NEW t \in Threads, millisecondMonotonicNow(t)
  PROVE  IInv'
<1>1. TypeOK /\ TypeOK'
  BY Constants DEF IInv, TypeOK, millisecondMonotonicNow, Failed, lives
<1>2. \A u \in Threads : CallOK(u)'
  BY <1>1, Constants DEF IInv, TypeOK, CallOK, LifeOK, millisecondMonotonicNow, InCall, lives
<1>3. EntriesOK'
  BY EntriesKept DEF millisecondMonotonicNow, lives, IInv
<1> QED
  BY <1>1, <1>2, <1>3 DEF IInv, millisecondMonotonicNow, LifeOK, lives

(* The last value is loaded, or a sequence number is waited for.           *)
LEMMA LoadStep ==
  ASSUME IInv, NEW t \in Threads, Load(t)
  PROVE  IInv'
<1> DEFINE l == monotonic[WorkerOf[t]]
<1>0. TypeOK /\ ValueOK(l)
  BY Constants DEF IInv, TypeOK, ValueOK
<1>1. TypeOK'
  BY <1>0, Constants DEF TypeOK, Load, Failed, ValueOK, lives
<1>2. ASSUME NEW u \in Threads PROVE CallOK(u)'
  <2>1. CASE u # t
    BY <1>0, <1>2, <2>1 DEF IInv, TypeOK, CallOK, Load, InCall, lives
  <2>2. CASE u = t
    <3>1. /\ last'[t] = l /\ now' = now /\ called' = called /\ clock' = clock
          /\ start' = start
          /\ pc[t] = "load"
          /\ pc'[t] = IF Source!Before(l, NextValue(now[t], l)) THEN "cas"
                      ELSE "violation"
      BY <1>0 DEF Load, TypeOK, lives
    <3>2. pc'[t] = "cas" => Below(l, NextValue(now[t], l))
      BY <1>0, <3>1, NextValueOK, BeforeIsBelow DEF TypeOK
    <3> HIDE DEF l
    <3> QED
      BY <1>0, <2>2, <3>1, <3>2 DEF IInv, CallOK, InCall
  <2> QED
    BY <2>1, <2>2
<1>3. EntriesOK'
  BY EntriesKept DEF Load, lives, IInv
<1> QED
  BY <1>1, <1>2, <1>3 DEF IInv, Load, LifeOK, lives

(* The clock goes on.                                                      *)
LEMMA TickStep ==
  ASSUME IInv, NEW w \in Workers, Tick(w)
  PROVE  IInv'
<1>0. TypeOK
  BY DEF IInv
<1>1. TypeOK'
  <2>1. clock' \in [Workers -> Nat]
    BY <1>0 DEF TypeOK, Tick
  <2>2. UNCHANGED <<monotonic, pc, now, last, spins, called, life, start, issued>>
    BY DEF Tick, lives
  <2> QED
    BY <1>0, <2>1, <2>2 DEF TypeOK
<1>2. \A u \in Threads : CallOK(u)'
  BY <1>0, Constants DEF IInv, TypeOK, CallOK, Tick, InCall, lives
<1>3. EntriesOK'
  BY EntriesKept DEF Tick, lives, IInv
<1>4. ASSUME NEW v \in Workers PROVE LifeOK(v)'
  <2>1. /\ LifeOK(v) /\ clock[v] \in Nat /\ start[v] \in Nat /\ clock[w] \in Nat
        /\ clock[w] < MaxTime /\ start' = start /\ life' = life
        /\ clock'[v] = IF v = w THEN clock[w] + 1 ELSE clock[v]
    BY <1>0, <1>4 DEF IInv, TypeOK, Tick, lives
  <2> QED
    BY <2>1, Constants DEF LifeOK
<1> QED
  BY <1>1, <1>2, <1>3, <1>4 DEF IInv

(* A process starts again, and forgets.                                    *)
LEMMA RestartStep ==
  ASSUME IInv, NEW w \in Workers, Restart(w)
  PROVE  IInv'
<1>1. TypeOK
  BY DEF IInv
<1>2. PICK c \in 1 .. MaxTime :
        clock' = [clock EXCEPT ![w] = c] /\ start' = [start EXCEPT ![w] = c]
  BY DEF Restart
<1>3. TypeOK'
  <2>1. /\ clock' \in [Workers -> Nat] /\ start' \in [Workers -> Nat]
        /\ life' \in [Workers -> Nat] /\ issued' = issued
    BY <1>1, <1>2, Constants DEF TypeOK, Restart
  <2>2. /\ monotonic' \in [Workers -> Value]
        /\ \A v \in Workers : monotonic'[v].worker = 0 /\ monotonic'[v].seq <= SeqMask
    BY <1>1, ZeroOK DEF TypeOK, Restart, ValueOK
  <2>3. /\ pc' \in [Threads -> {"idle", "now", "load", "cas"} \cup Failed]
        /\ now' \in [Threads -> Nat] /\ last' \in [Threads -> Value]
        /\ spins' \in [Threads -> Nat] /\ called' \in [Threads -> Nat]
    BY <1>1, ZeroOK DEF TypeOK, Restart, ValueOK
  <2>4. issued' \in [Workers -> Seq([life : Nat, start : Nat, id : Value])]
    BY <1>1, <2>1 DEF TypeOK
  <2> QED
    BY <2>1, <2>2, <2>3, <2>4 DEF TypeOK
<1>4. ASSUME NEW u \in Threads PROVE CallOK(u)'
  BY <1>1, <1>2, <1>4, ZeroOK, Constants
     DEF IInv, TypeOK, CallOK, Restart, InCall
<1>5. ASSUME NEW v \in Workers, NEW k \in 1 .. Len(issued'[v]),
             NEW e, e = issued'[v][k]
      PROVE  EntryOK(e, v)'
  <2>1. EntryOK(e, v) /\ issued' = issued /\ life[v] \in Nat
    BY <1>1, <1>5 DEF IInv, EntriesOK, Restart, TypeOK
  <2>2. CASE v = w
    BY <1>1, <2>1, <2>2 DEF EntryOK, Restart, TypeOK
  <2>3. CASE v # w
    BY <1>1, <2>1, <2>3 DEF EntryOK, Restart, TypeOK
  <2> QED
    BY <2>2, <2>3
<1>6. EntriesOK'
  BY <1>5 DEF EntriesOK
<1>7. ASSUME NEW v \in Workers PROVE LifeOK(v)'
  <2>1. /\ LifeOK(v) /\ life[v] \in Nat /\ life[w] < MaxLives[w]
        /\ MaxLives[w] \in Nat /\ c \in Nat /\ c <= MaxTime
        /\ clock'[v] = IF v = w THEN c ELSE clock[v]
        /\ start'[v] = IF v = w THEN c ELSE start[v]
        /\ life'[v] = IF v = w THEN life[v] + 1 ELSE life[v]
    <3>0. /\ c \in Nat /\ c <= MaxTime
          /\ MaxLives[w] \in Nat /\ life[v] \in Nat
      <4>1. MaxTime \in Nat /\ MaxLives[w] \in Nat
        BY Constants
      <4>2. life[v] \in Nat
        BY <1>1, <1>7 DEF TypeOK
      <4> QED
        BY <1>2, <4>1, <4>2
    <3>1. LifeOK(v) /\ life[w] < MaxLives[w]
      BY <1>7 DEF IInv, Restart
    <3>2. clock'[v] = IF v = w THEN c ELSE clock[v]
      BY <1>1, <1>2, <1>7 DEF TypeOK
    <3>3. start'[v] = IF v = w THEN c ELSE start[v]
      BY <1>1, <1>2, <1>7 DEF TypeOK
    <3>4. life'[v] = IF v = w THEN life[v] + 1 ELSE life[v]
      BY <1>1, <1>7 DEF TypeOK, Restart
    <3> QED
      BY <3>0, <3>1, <3>2, <3>3, <3>4
  <2> QED
    BY <2>1 DEF LifeOK
<1> QED
  BY <1>3, <1>4, <1>6, <1>7 DEF IInv

(* The heart of the matter: what the id installed by a call is like *)
LEMMA NewId ==
  ASSUME IInv, NEW t \in Threads, pc[t] = "cas",
         monotonic[WorkerOf[t]] = last[t]
  PROVE  LET w == WorkerOf[t]
             next == NextValue(now[t], last[t])
             id == WithWorker(next, w)
         IN /\ w \in Workers
            /\ ValueOK(next)
            /\ id \in Value /\ id.worker = WorkerId[w]
            /\ id.time = next.time /\ id.seq = next.seq
            /\ \A k \in 1 .. Len(issued[w]) :
                 \/ issued[w][k].life = life[w]
                 \/ issued[w][k].id.time < start[w]
                 => Below(issued[w][k].id, next)
<1> DEFINE w == WorkerOf[t]
           next == NextValue(now[t], last[t])
           id == WithWorker(next, w)
<1>1. /\ TypeOK /\ CallOK(t) /\ w \in Workers /\ now[t] \in Nat
      /\ now[t] <= MaxTime /\ ValueOK(last[t]) /\ Below(last[t], next)
  BY Constants DEF IInv, TypeOK, CallOK
<1>2. ValueOK(next)
  BY <1>1, NextValueOK
<1> HIDE DEF next, w
<1>3. id \in Value /\ id.worker = WorkerId[w] /\ id.time = next.time /\ id.seq = next.seq
  BY <1>1, <1>2, WithWorkerFields
<1>4. ASSUME NEW k \in 1 .. Len(issued[w]),
             \/ issued[w][k].life = life[w]
             \/ issued[w][k].id.time < start[w]
      PROVE  Below(issued[w][k].id, next)
  <2>0. PICK e : e = issued[w][k]
    OBVIOUS
  <2> SUFFICES Below(e.id, next)
    BY <2>0
  <2>1. e.id \in Value /\ EntryOK(e, w)
    BY <1>1, <2>0, EntryType DEF IInv, EntriesOK, Entries
  <2>2. e.life = life[w] \/ e.id.time < start[w]
    BY <1>4, <2>0
  <2>3. /\ e.id.time \in Nat /\ e.id.seq \in Nat
        /\ next.time \in Nat /\ next.seq \in Nat
        /\ last[t].time \in Nat /\ last[t].seq \in Nat
        /\ start[w] \in Nat /\ life[w] \in Nat
    BY <1>1, <1>2, <2>1 DEF ValueOK, Value, TypeOK
  <2>4. CASE e.life = life[w]
    <3>1. AtMost(e.id, last[t])
      BY <2>1, <2>4 DEF EntryOK, w
    <3> QED
      BY <1>1, <2>3, <3>1 DEF AtMost, Below
  <2>5. CASE e.life # life[w]
    <3>1. life[w] # 1 /\ e.id.time < start[w]
      BY <2>1, <2>2, <2>3, <2>5 DEF EntryOK
    <3>2. MaxLives[w] > 1
      <4>1. LifeOK(w) /\ MaxLives[w] \in Nat
        BY <1>1, Constants DEF IInv
      <4> QED
        BY <2>3, <3>1, <4>1 DEF LifeOK
    <3>3. MaxTime <= TimeRange
      BY <1>1, <3>2, EpochAssumption
    <3>4. now[t] <= next.time
      BY <1>1, <3>3, NotBehind DEF next
    <3>5. start[w] <= now[t]
      BY DEF IInv, CallOK, InCall, w
    <3> QED
      BY <1>1, <2>3, <3>1, <3>4, <3>5 DEF Below
  <2> QED
    BY <2>4, <2>5
<1> QED
  BY <1>1, <1>2, <1>3, <1>4 DEF next, w

(* The next value is stored, or another goroutine was first.               *)
LEMMA CasStep ==
  ASSUME IInv, NEW t \in Threads, CompareAndSwap(t)
  PROVE  IInv'
<1> DEFINE w == WorkerOf[t]
           next == NextValue(now[t], last[t])
           id == WithWorker(next, w)
           new == Entry(next, w)
<1>0. TypeOK /\ w \in Workers
  BY Constants DEF IInv, TypeOK
<1>1. CASE monotonic[w] # last[t]
  <2>1. /\ pc' = [pc EXCEPT ![t] = "overloaded"]
        /\ Leave(t)
        /\ UNCHANGED <<spins, monotonic, issued, clock, life, start>>
    BY <1>0, <1>1 DEF CompareAndSwap, allowSpins, lives, IInv, TypeOK
  <2>2. TypeOK'
    BY <1>0, <2>1, ZeroOK DEF TypeOK, Failed, Leave, ValueOK
  <2>3. \A u \in Threads : CallOK(u)'
    <3> SUFFICES ASSUME NEW u \in Threads PROVE CallOK(u)'
      OBVIOUS
    <3>1. CASE u = t
      <4>1. /\ now'[t] = 0 /\ last'[t] = Zero /\ called'[t] = 0 /\ pc'[t] = "overloaded"
            /\ clock' = clock /\ clock[WorkerOf[t]] \in Nat
        BY <1>0, <2>1, Constants DEF TypeOK, Leave
      <4> QED
        BY <3>1, <4>1, ZeroOK, Constants DEF CallOK, InCall
    <3>2. CASE u # t
      BY <1>0, <2>1, <3>2 DEF IInv, TypeOK, CallOK, InCall, Leave
    <3> QED
      BY <3>1, <3>2
  <2>4. EntriesOK'
    BY <2>1, EntriesKept DEF IInv
  <2> QED
    BY <2>1, <2>2, <2>3, <2>4 DEF IInv, LifeOK
<1>2. CASE monotonic[w] = last[t]
  <2>1. /\ monotonic' = [monotonic EXCEPT ![w] = next]
        /\ issued' = [issued EXCEPT ![w] = Append(@, new)]
        /\ pc' = [pc EXCEPT ![t] = "idle"]
        /\ Leave(t)
        /\ UNCHANGED <<spins, clock, life, start>>
    BY <1>2 DEF CompareAndSwap, lives
  <2>2. /\ ValueOK(next) /\ id \in Value /\ id.worker = WorkerId[w]
        /\ id.time = next.time /\ id.seq = next.seq
        /\ \A k \in 1 .. Len(issued[w]) :
             \/ issued[w][k].life = life[w]
             \/ issued[w][k].id.time < start[w]
             => Below(issued[w][k].id, next)
    BY <1>2, NewId DEF CompareAndSwap
  <2>3. new = [life |-> life[w], start |-> start[w], id |-> id]
    BY DEF Entry
  <2>4. life[w] \in Nat /\ start[w] \in Nat /\ life[w] >= 1
    <3>1. LifeOK(w) /\ life[w] \in Nat /\ start[w] \in Nat
      BY <1>0 DEF IInv, TypeOK
    <3> QED
      BY <3>1 DEF LifeOK
  <2> HIDE DEF w, next, id, new
  <2>5. new \in Entries
    BY <2>2, <2>3, <2>4 DEF Entries
  <2>6. issued' \in [Workers -> Seq(Entries)]
    <3>1. issued \in [Workers -> Seq(Entries)]
      BY <1>0 DEF TypeOK, Entries
    <3> QED
      BY <1>0, <2>1, <2>5, <3>1
  <2>7. monotonic' \in [Workers -> Value] /\
        \A v \in Workers : monotonic'[v].worker = 0 /\ monotonic'[v].seq <= SeqMask
    BY <1>0, <2>1, <2>2 DEF TypeOK, ValueOK
  <2>8. TypeOK'
    BY <1>0, <2>1, <2>6, <2>7, ZeroOK DEF TypeOK, Failed, Leave, ValueOK, Entries
  <2>9. \A u \in Threads : CallOK(u)'
    <3> SUFFICES ASSUME NEW u \in Threads PROVE CallOK(u)'
      OBVIOUS
    <3>1. CASE u = t
      <4>1. /\ now'[t] = 0 /\ last'[t] = Zero /\ called'[t] = 0 /\ pc'[t] = "idle"
            /\ clock' = clock /\ clock[WorkerOf[t]] \in Nat
        BY <1>0, <2>1, Constants DEF TypeOK, Leave
      <4> QED
        BY <3>1, <4>1, ZeroOK, Constants DEF CallOK, InCall
    <3>2. CASE u # t
      BY <1>0, <2>1, <3>2 DEF IInv, TypeOK, CallOK, InCall, Leave
    <3> QED
      BY <3>1, <3>2
  <2>10. ASSUME NEW v \in Workers, NEW k \in 1 .. Len(issued'[v]),
                NEW e, e = issued'[v][k]
         PROVE  EntryOK(e, v)'
    <3>1. CASE v # w
      <4>1. issued'[v] = issued[v] /\ monotonic'[v] = monotonic[v] /\ life' = life
        BY <1>0, <2>1, <3>1 DEF TypeOK
      <4>2. EntryOK(issued[v][k], v)
        BY <2>10, <4>1 DEF IInv, EntriesOK
      <4> QED
        BY <2>10, <4>1, <4>2 DEF EntryOK
    <3>2. CASE v = w
      <4>1. /\ issued[w] \in Seq(Entries) /\ Len(issued[w]) \in Nat
            /\ \A j \in 1 .. Len(issued[w]) : issued[w][j] \in Entries
        BY <1>0, EntryType
      <4>2. issued'[w] = Append(issued[w], new) /\ monotonic'[w] = next /\ life' = life
        BY <1>0, <2>1 DEF TypeOK
      <4>3. CASE k = Len(issued[w]) + 1
        <5>1. e = new
          BY <2>10, <3>2, <4>1, <4>2, <4>3
        <5>2. AtMost(id, next)
          BY <2>2 DEF AtMost, ValueOK, Value
        <5> QED
          BY <2>2, <2>3, <2>4, <3>2, <4>2, <5>1, <5>2 DEF EntryOK
      <4>4. CASE k # Len(issued[w]) + 1
        <5>1. k \in 1 .. Len(issued[w]) /\ e = issued[w][k]
          BY <2>10, <3>2, <4>1, <4>2, <4>4
        <5>2. EntryOK(e, w) /\ e \in Entries
          BY <1>0, <4>1, <5>1 DEF IInv, EntriesOK
        <5>3. e.life = life[w] => Below(e.id, next)
          BY <2>2, <5>1
        <5>4. e.life = life[w] => AtMost(e.id, next)
          BY <2>2, <5>2, <5>3 DEF Below, AtMost, ValueOK, Value, Entries
        <5> QED
          BY <3>2, <4>2, <5>1, <5>2, <5>4 DEF EntryOK
      <4> QED
        BY <4>3, <4>4
    <3> QED
      BY <3>1, <3>2
  <2>11. EntriesOK'
    BY <2>10 DEF EntriesOK
  <2> QED
    BY <2>1, <2>8, <2>9, <2>11 DEF IInv, LifeOK
<1> QED
  BY <1>1, <1>2

(* Every step keeps the invariant.                                         *)
LEMMA NextOK == IInv /\ [Next]_vars => IInv'
<1> SUFFICES ASSUME IInv, [Next]_vars PROVE IInv'
  OBVIOUS
<1>1. CASE UNCHANGED vars
  BY <1>1 DEF vars, lives, IInv, TypeOK, CallOK, LifeOK, EntriesOK, EntryOK
<1> QED
  BY <1>1, CallStep, NowStep, LoadStep, CasStep, TickStep, RestartStep
     DEF Next, Step

(* The invariant holds in every reachable state. *)
THEOREM Invariant == Spec => []IInv
  BY InitOK, NextOK, PTL DEF Spec

(* Every variable has its type: no sequence number runs over into the      *)
(* worker field.                                                           *)
THEOREM TypeCorrect == Spec => []TypeOK
<1>1. IInv => TypeOK
  BY DEF IInv
<1> QED
  BY <1>1, Invariant, PTL

-----------------------------------------------------------------------------
(* What follows *)

(* While the epoch lasts no id is backdated: its time is not before the    *)
(* call that got it began.                                                 *)
THEOREM Dated == MaxTime <= TimeRange => (Spec => NotBackdated)
<1> SUFFICES ASSUME MaxTime <= TimeRange PROVE Spec => NotBackdated
  OBVIOUS
<1>1. IInv /\ [Next]_vars =>
        \A t \in Threads :
          LET w == WorkerOf[t]
          IN pc[t] = "cas" /\ pc'[t] = "idle" /\ issued'[w] # issued[w] =>
               issued'[w][Len(issued'[w])].id.time >= called[t]
  <2> SUFFICES ASSUME IInv, [Next]_vars, NEW t \in Threads, NEW w, w = WorkerOf[t],
                      pc[t] = "cas", pc'[t] = "idle", issued'[w] # issued[w]
               PROVE  issued'[w][Len(issued'[w])].id.time >= called[t]
    OBVIOUS
  <2>1. TypeOK /\ CallOK(t) /\ w \in Workers
    BY Constants DEF IInv
  <2>2. PICK u \in Threads : CompareAndSwap(u)
    BY DEF Next, Step, vars, Call, millisecondMonotonicNow, Load, Tick, Restart
  <2>3. monotonic[WorkerOf[u]] = last[u]
    BY <2>2 DEF CompareAndSwap
  <2>4. pc' = [pc EXCEPT ![u] = "idle"]
    BY <2>2, <2>3 DEF CompareAndSwap
  <2>5. u = t
    BY <2>1, <2>4 DEF TypeOK
  <2> DEFINE next == NextValue(now[t], last[t])
             new == Entry(next, w)
  <2>6. issued'[w] = Append(issued[w], new)
    BY <2>1, <2>2, <2>3, <2>5 DEF CompareAndSwap, TypeOK
  <2>7. WithWorker(next, w).time = next.time /\ ValueOK(next)
    BY <2>3, <2>5, NewId
  <2>8. now[t] <= next.time
    BY <2>1, NotBehind DEF CallOK, TypeOK
  <2>9. called[t] <= now[t]
    BY <2>1 DEF CallOK, InCall
  <2> HIDE DEF next
  <2>10. new.id.time = next.time
    BY <2>7 DEF Entry
  <2> HIDE DEF new
  <2>11. issued'[w][Len(issued'[w])] = new
    BY <2>1, <2>6, EntryType
  <2>12. called[t] \in Nat /\ now[t] \in Nat /\ next.time \in Nat
    BY <2>1, <2>7 DEF TypeOK, ValueOK, Value
  <2> QED
    BY <2>8, <2>9, <2>10, <2>11, <2>12
<1> QED
  BY <1>1, Invariant, PTL DEF Spec, NotBackdated

-----------------------------------------------------------------------------
(* The end of the epoch *)

Fits(v) == v.time < TimeRange

EpochInv ==
  /\ \A w \in Workers : Fits(monotonic[w])
  /\ \A t \in Threads : Fits(last[t])
  /\ ViolationOnlyAtEpochEnd

(* The first value is of its epoch.                                        *)
LEMMA ZeroFits == Fits(Zero)
  BY Constants DEF Fits, Zero

(* The time stays in its field; if the value does not go up, the clock or  *)
(* the value is at the end of the epoch.                                   *)
LEMMA NextValueFits ==
  ASSUME NEW n \in Nat, NEW l, ValueOK(l), Fits(l)
  PROVE  /\ Fits(NextValue(n, l))
         /\ ~Below(l, NextValue(n, l)) => n >= TimeRange \/ l.time = TimeRange - 1
<1> DEFINE next == NextValue(n, l)
<1>1. l.time \in Nat /\ l.seq \in Nat /\ l.time < TimeRange
  BY DEF ValueOK, Value, Fits
<1>2. CASE n > l.time
  <2>1. next.time = n % TimeRange
    BY <1>2 DEF NextValue, Zero
  <2>2. n < TimeRange => n % TimeRange = n
    BY Constants
  <2>3. n % TimeRange < TimeRange
    BY Constants
  <2> HIDE DEF next
  <2> QED
    BY <1>1, <1>2, <2>1, <2>2, <2>3, Constants DEF Fits, Below, next
<1>3. CASE ~(n > l.time) /\ l.seq = SeqMask
  <2>1. next.time = (l.time + 1) % TimeRange
    BY <1>3 DEF NextValue, Zero
  <2>2. l.time + 1 < TimeRange => (l.time + 1) % TimeRange = l.time + 1
    BY <1>1, Constants
  <2>3. (l.time + 1) % TimeRange < TimeRange
    BY <1>1, Constants
  <2> HIDE DEF next
  <2> QED
    BY <1>1, <2>1, <2>2, <2>3, Constants DEF Fits, Below, next
<1>4. CASE ~(n > l.time) /\ l.seq # SeqMask
  <2>1. next.time = l.time /\ next.seq = l.seq + 1
    BY <1>4 DEF NextValue, ValueOK, Value
  <2> HIDE DEF next
  <2> QED
    BY <1>1, <2>1 DEF Fits, Below, next
<1> QED
  BY <1>2, <1>3, <1>4

(* A value at the end of the epoch stays there, until its process restarts *)
LEMMA EndStays ==
  ASSUME IInv, EpochInv, NEW u \in Threads, CompareAndSwap(u),
         NEW w \in Workers, monotonic[w].time = TimeRange - 1
  PROVE  monotonic'[w].time = TimeRange - 1
<1>1. TypeOK /\ CallOK(u) /\ Fits(last[u]) /\ pc[u] = "cas"
  BY DEF IInv, EpochInv, CompareAndSwap
<1>2. CASE monotonic' = monotonic
  BY <1>2
<1>3. CASE monotonic' # monotonic
  <2> DEFINE next == NextValue(now[u], last[u])
  <2>1. /\ monotonic' = [monotonic EXCEPT ![WorkerOf[u]] = next]
        /\ monotonic[WorkerOf[u]] = last[u]
    BY <1>3 DEF CompareAndSwap
  <2>2. CASE w # WorkerOf[u]
    BY <1>1, <2>1, <2>2 DEF TypeOK
  <2>3. CASE w = WorkerOf[u]
    <3>1. ValueOK(next) /\ Fits(next) /\ Below(last[u], next)
      BY <1>1, NextValueOK, NextValueFits DEF CallOK, TypeOK
    <3>2. monotonic'[w] = next /\ last[u].time = TimeRange - 1
      BY <1>1, <2>1, <2>3 DEF TypeOK
    <3> HIDE DEF next
    <3>3. next.time = TimeRange - 1
      BY <3>1, <3>2, Constants DEF Below, Fits, ValueOK, Value
    <3> QED
      BY <3>2, <3>3
  <2> QED
    BY <2>2, <2>3
<1> QED
  BY <1>2, <1>3

(* Every step keeps what is known within an epoch.                         *)
LEMMA EpochNext == IInv /\ EpochInv /\ [Next]_vars => EpochInv'
<1> SUFFICES ASSUME IInv, EpochInv, [Next]_vars PROVE EpochInv'
  OBVIOUS
<1>0. TypeOK /\ \A w \in Workers : ValueOK(monotonic[w])
  BY DEF IInv, TypeOK, ValueOK
<1>1. ASSUME NEW t \in Threads, Call(t) \/ millisecondMonotonicNow(t) PROVE EpochInv'
  BY <1>0, <1>1, ZeroFits
     DEF Call, millisecondMonotonicNow, EpochInv, TypeOK, ViolationOnlyAtEpochEnd
<1>2. ASSUME NEW t \in Threads, Load(t) PROVE EpochInv'
  <2> DEFINE l == monotonic[WorkerOf[t]]
             next == NextValue(now[t], l)
  <2>1. ValueOK(l) /\ Fits(l) /\ now[t] \in Nat
    BY <1>0, Constants DEF EpochInv, TypeOK
  <2>2. /\ last' = [last EXCEPT ![t] = l] /\ UNCHANGED <<monotonic, now>>
        /\ pc' = [pc EXCEPT ![t] = IF Source!Before(l, next) THEN "cas" ELSE "violation"]
    BY <1>2 DEF Load
  <2>3. pc'[t] = "violation" => now[t] >= TimeRange \/ l.time = TimeRange - 1
    <3>1. pc'[t] = "violation" => ~Source!Before(l, next)
      BY <1>0, <2>2 DEF TypeOK
    <3>2. Source!Before(l, next) <=> Below(l, next)
      BY <2>1, NextValueOK, BeforeIsBelow
    <3> QED
      BY <2>1, <3>1, <3>2, NextValueFits
  <2>4. \A u \in Threads : u # t => pc'[u] = pc[u]
    BY <1>0, <2>2 DEF TypeOK
  <2>5. ViolationOnlyAtEpochEnd'
    BY <2>2, <2>3, <2>4 DEF EpochInv, ViolationOnlyAtEpochEnd
  <2>6. \A u \in Threads : Fits(last'[u])
    BY <1>0, <2>1, <2>2 DEF EpochInv, TypeOK
  <2> QED
    BY <2>2, <2>5, <2>6 DEF EpochInv
<1>3. ASSUME NEW t \in Threads, CompareAndSwap(t) PROVE EpochInv'
  <2>1. pc[t] = "cas" /\ CallOK(t) /\ Fits(last[t])
    BY <1>3 DEF CompareAndSwap, IInv, EpochInv
  <2>2. Fits(NextValue(now[t], last[t]))
    BY <1>0, <2>1, NextValueFits DEF CallOK, TypeOK
  <2>3. /\ \A w \in Workers : monotonic'[w] = monotonic[w] \/ Fits(monotonic'[w])
        /\ \A u \in Threads : last'[u] = last[u] \/ last'[u] = Zero
        /\ \A u \in Threads : u # t => pc'[u] = pc[u] /\ now'[u] = now[u]
        /\ pc'[t] # "violation"
    BY <1>0, <1>3, <2>2 DEF CompareAndSwap, Leave, TypeOK
  <2>4. ViolationOnlyAtEpochEnd'
    <3> SUFFICES ASSUME NEW u \in Threads, pc'[u] = "violation"
                 PROVE  \/ now'[u] >= TimeRange
                        \/ monotonic'[WorkerOf[u]].time = TimeRange - 1
      BY DEF ViolationOnlyAtEpochEnd
    <3>1. /\ WorkerOf[u] \in Workers /\ now'[u] = now[u]
          /\ now[u] >= TimeRange \/ monotonic[WorkerOf[u]].time = TimeRange - 1
      BY <2>3, Constants DEF EpochInv, ViolationOnlyAtEpochEnd
    <3> QED
      BY <1>3, <3>1, EndStays
  <2> QED
    BY <2>3, <2>4, ZeroFits DEF EpochInv
<1>4. ASSUME NEW w \in Workers, Tick(w) PROVE EpochInv'
  BY <1>4 DEF Tick, EpochInv, ViolationOnlyAtEpochEnd
<1>5. ASSUME NEW w \in Workers, Restart(w) PROVE EpochInv'
  <2>1. /\ \A v \in Workers : monotonic'[v] = IF v = w THEN Zero ELSE monotonic[v]
        /\ \A t \in Threads : /\ pc'[t] = IF WorkerOf[t] = w THEN "idle" ELSE pc[t]
                              /\ now'[t] = IF WorkerOf[t] = w THEN 0 ELSE now[t]
                              /\ last'[t] = IF WorkerOf[t] = w THEN Zero ELSE last[t]
    BY <1>0, <1>5 DEF Restart, TypeOK
  <2> QED
    BY <2>1, ZeroFits, Constants DEF EpochInv, ViolationOnlyAtEpochEnd
<1>6. CASE UNCHANGED vars
  BY <1>6 DEF vars, EpochInv, ViolationOnlyAtEpochEnd
<1> QED
  BY <1>1, <1>2, <1>3, <1>4, <1>5, <1>6 DEF Next, Step

(* No interleaving, clock pause or restart makes the generator fail with   *)
(* ErrSequenceViolation before its clock or its value reaches the end of   *)
(* the epoch.                                                              *)
THEOREM ViolationAtEnd == Spec => []ViolationOnlyAtEpochEnd
<1>1. Init => EpochInv
  BY ZeroFits DEF Init, EpochInv, ViolationOnlyAtEpochEnd
<1>2. EpochInv => ViolationOnlyAtEpochEnd
  BY DEF EpochInv
<1> QED
  BY <1>1, <1>2, EpochNext, Invariant, PTL DEF Spec

-----------------------------------------------------------------------------
(* The abstract source of ids *)

(* A value that is stored is issued, and comes after the ones before it in *)
(* the life of its worker, and after those whose time was over before.     *)
LEMMA CasIssues ==
  ASSUME IInv, NEW t \in Threads, CompareAndSwap(t)
  PROVE  [Source!Next]_issued
<1> DEFINE w == WorkerOf[t]
           next == NextValue(now[t], last[t])
           id == WithWorker(next, w)
           new == Entry(next, w)
<1>0. TypeOK /\ w \in Workers
  BY Constants DEF IInv, TypeOK
<1>1. CASE monotonic[w] # last[t]
  BY <1>1 DEF CompareAndSwap
<1>2. CASE monotonic[w] = last[t]
  <2>1. issued' = [issued EXCEPT ![w] = Append(@, new)]
    BY <1>2 DEF CompareAndSwap
  <2>2. /\ ValueOK(next) /\ id \in Value /\ id.worker = WorkerId[w]
        /\ id.time = next.time /\ id.seq = next.seq
        /\ \A k \in 1 .. Len(issued[w]) :
             \/ issued[w][k].life = life[w]
             \/ issued[w][k].id.time < start[w]
             => Below(issued[w][k].id, next)
    BY <1>2, NewId DEF CompareAndSwap
  <2>3. new = [life |-> life[w], start |-> start[w], id |-> id]
    BY DEF Entry
  <2> HIDE DEF w, next, id, new
  <2>4. ASSUME NEW v \in Workers, v # w, NEW k \in 1 .. Len(issued[v])
        PROVE  issued[v][k].id # new.id
    <3>1. issued[v][k].id.worker = WorkerId[v]
      BY <2>4 DEF IInv, EntriesOK, EntryOK
    <3>2. WorkerId[v] # WorkerId[w]
      BY <1>0, <2>4, WorkersAssumption
    <3> QED
      BY <2>2, <2>3, <3>1, <3>2
  <2>5. ASSUME NEW k \in 1 .. Len(issued[w]),
               \/ issued[w][k].life = new.life
               \/ issued[w][k].id.time < new.start
        PROVE  Source!Before(issued[w][k].id, new.id)
    <3> DEFINE e == issued[w][k]
    <3>1. EntryOK(e, w) /\ e \in Entries
      BY <1>0, EntryType DEF IInv, EntriesOK
    <3>2. e.id.worker = WorkerId[w] /\ e.id \in Value
      BY <3>1 DEF EntryOK, Entries
    <3>3. Below(e.id, next)
      BY <2>2, <2>3, <2>5
    <3> HIDE DEF e
    <3>4. Source!Before(e.id, id)
      BY <2>2, <3>2, <3>3, <1>0, Constants
         DEF Source!Before, Below, ValueOK, Value
    <3> QED
      BY <2>3, <3>4 DEF e
  <2>6. Source!Fresh(new, w)
    BY <2>4, <2>5 DEF Source!Fresh, Source!Given
  <2>7. issued'[w] = Append(issued[w], new)
    BY <1>0, <2>1 DEF TypeOK
  <2>8. Len(issued'[w]) = Len(issued[w]) + 1 /\ issued'[w][Len(issued'[w])] = new
    BY <1>0, <2>7, EntryType
  <2>9. Source!Issue(w)
    BY <2>1, <2>6, <2>8 DEF Source!Issue
  <2> QED
    BY <1>0, <2>9 DEF Source!Next
<1> QED
  BY <1>1, <1>2

(* The generators implement an atomic source of ids, wherever the clock of *)
(* a process that is started again is: no two workers give out the same id *)
(* and an id comes after all of its worker's life and after those whose    *)
(* time was over when that life began.                                     *)
THEOREM Atomic == Spec => Linearizable
<1>1. Init => Source!Init
  BY DEF Init, Source!Init
<1>2. IInv /\ [Next]_vars => [Source!Next]_issued
  <2> SUFFICES ASSUME IInv, [Next]_vars PROVE [Source!Next]_issued
    OBVIOUS
  <2>1. ASSUME NEW t \in Threads, CompareAndSwap(t) PROVE [Source!Next]_issued
    BY <2>1, CasIssues
  <2>2. ASSUME NEW t \in Threads, Call(t) \/ millisecondMonotonicNow(t) \/ Load(t)
        PROVE  UNCHANGED issued
    BY <2>2 DEF Call, millisecondMonotonicNow, Load
  <2>3. ASSUME NEW w \in Workers, Tick(w) \/ Restart(w) PROVE UNCHANGED issued
    BY <2>3 DEF Tick, Restart
  <2> QED
    BY <2>1, <2>2, <2>3 DEF Next, Step, vars
<1> QED
  BY <1>1, <1>2, Invariant, PTL DEF Spec, Linearizable, Source!Spec

=============================================================================
