------------------------------ MODULE IdSource ------------------------------
(***************************************************************************)
(* What the id generators of a set of workers promise together, as if each *)
(* call of NextID took effect in one step: no id is given out by two       *)
(* workers, and an id comes after all that its worker gave out since it    *)
(* was started, and after those whose time was over when it was started.   *)
(* Nothing more is said of the ids from before a start, and nothing of the *)
(* order of ids of different workers.                                      *)
(***************************************************************************)
EXTENDS Naturals, Sequences

CONSTANT Workers

VARIABLE issued     \* the ids each worker gave out, in the order of the steps

(* An id is a 64 bit number made of three fields, the highest bits first *)
Before(a, b) ==
  \/ a.time < b.time
  \/ a.time = b.time /\ a.worker < b.worker
  \/ a.time = b.time /\ a.worker = b.worker /\ a.seq < b.seq

Given(v) == 1 .. Len(issued[v])

(* An entry is an id, the life of the worker it was given out in and the   *)
(* worker's time when that life began                                      *)
Fresh(new, w) ==
  /\ \A v \in Workers \ {w} : \A k \in Given(v) : issued[v][k].id # new.id
  /\ \A k \in Given(w) :
       LET old == issued[w][k]
       IN old.life = new.life \/ old.id.time < new.start => Before(old.id, new.id)

Init == issued = [w \in Workers |-> << >>]

Issue(w) ==
  /\ Len(issued'[w]) = Len(issued[w]) + 1
  /\ LET new == issued'[w][Len(issued'[w])]
     IN /\ issued' = [issued EXCEPT ![w] = Append(@, new)]
        /\ Fresh(new, w)

Next == \E w \in Workers : Issue(w)

Spec == Init /\ [][Next]_issued

=============================================================================
