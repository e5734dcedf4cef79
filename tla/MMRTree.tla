------------------------------ MODULE MMRTree ------------------------------
(***************************************************************************)
(* What a Merkle mountain range is, said without its arithmetic: over n    *)
(* leaves it has a node for every aligned run of 2^h leaves, and the nodes *)
(* are listed in post order.  Module MMR is checked against this.          *)
(***************************************************************************)
EXTENDS MMR

(* <<h, k>> is the node over the k-th run of 2^h leaves *)
Nodes(n) == {m \in (0 .. BitLength(n)) \X (0 .. n) : (m[2] + 1) * 2^m[1] <= n}

LastLeaf(m) == (m[2] + 1) * 2^m[1] - 1

PostOrder(a, b) ==
  LastLeaf(a) < LastLeaf(b) \/ (LastLeaf(a) = LastLeaf(b) /\ a[1] < b[1])

(* The index of a node does not depend on the size of the range *)
IndexOf(m) ==
  Cardinality({x \in Nodes(LastLeaf(m) + 1) : PostOrder(x, m)})

Parent(m) == <<m[1] + 1, m[2] \div 2>>
Left(m) == <<m[1] - 1, 2 * m[2]>>
Right(m) == <<m[1] - 1, 2 * m[2] + 1>>

(* The peaks over n leaves: the nodes that have no parent yet *)
PeakNodes(n) == {m \in Nodes(n) : Parent(m) \notin Nodes(n)}

(* The members of S in ascending order *)
Ascending(S) ==
  [j \in 1 .. Cardinality(S) |->
     CHOOSE x \in S : Cardinality({y \in S : y < x}) = j - 1]

=============================================================================
