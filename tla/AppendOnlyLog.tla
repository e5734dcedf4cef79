--------------------------- MODULE AppendOnlyLog ---------------------------
(***************************************************************************)
(* What a tenant's log promises, whoever writes it: entries are placed one *)
(* after the other, in massifs of MassifLeaves entries each, and an entry  *)
(* once placed is never removed, replaced, moved or repeated.  An entry    *)
(* whose writer has been told "committed" is in the log.                   *)
(*                                                                         *)
(* The promise is the one massifcommitter.go states for its blobs ("if we  *)
(* ever break the append only rule, it will be evident (and not good)").   *)
(***************************************************************************)
EXTENDS Naturals

CONSTANT MassifLeaves

VARIABLES log,      \* the entry at each occupied <<massif, offset>>
          acked     \* the entries whose writer was told they are committed

Offsets == 1 .. MassifLeaves

(***************************************************************************)
(* The occupied positions of a log leave no gap: a massif that has a       *)
(* successor is full, and a massif is filled from its first offset.        *)
(***************************************************************************)
GapFree(D) ==
  \A p \in D :
    /\ p[1] \in Nat
    /\ p[2] \in Offsets
    /\ \A j \in 1 .. p[2] : <<p[1], j>> \in D
    /\ \A i \in 0 .. p[1] - 1, j \in Offsets : <<i, j>> \in D

Entries(l) == {l[p] : p \in DOMAIN l}

Distinct(l) == \A p, q \in DOMAIN l : l[p] = l[q] => p = q

Init ==
  /\ log = [p \in {} |-> 0]
  /\ acked = {}

(* A commit places a batch of new entries after those already there. *)
Append ==
  /\ DOMAIN log \subseteq DOMAIN log'
  /\ \A p \in DOMAIN log : log'[p] = log[p]
  /\ GapFree(DOMAIN log')
  /\ Distinct(log')
  /\ acked' = acked

(* A writer learns that entries of the log are committed. *)
Acknowledge ==
  /\ acked \subseteq acked'
  /\ acked' \subseteq Entries(log)
  /\ log' = log

Next == Append \/ Acknowledge

vars == <<log, acked>>

Spec == Init /\ [][Next]_vars

=============================================================================
