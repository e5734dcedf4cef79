------------------------------ MODULE MMRProofs ------------------------------
(***************************************************************************)
(* Facts about the arithmetic of module MMR, for every index and size.     *)
(***************************************************************************)
EXTENDS MMRBagged, MMRTree, FiniteSetTheorems, FunctionTheorems, TLAPS

-----------------------------------------------------------------------------
(* Induction and recursion.  The strict subsets of a finite set are well   *)
(* founded, so a set of numbers has a least member; a proof by induction   *)
(* looks at the least counterexample.                                      *)

(* A non-empty set of naturals has a least member: every induction below   *)
(* is over this fact, for the loops of package mmr.                        *)
LEMMA NatLeast ==
  ASSUME NEW T \in SUBSET Nat, T # {}
  PROVE  \E x \in T : \A y \in T : x <= y
<1> DEFINE R == StrictSubsetOrdering(Nat)
           I == {0 .. n : n \in T}
<1>1. IsWellFoundedOn(R, FiniteSubsetsOf(Nat))
  BY FS_StrictSubsetOrderingWellFounded
<1>2. \A n \in Nat : 0 .. n \in FiniteSubsetsOf(Nat)
  BY FS_Interval DEF FiniteSubsetsOf
<1>3. I \subseteq FiniteSubsetsOf(Nat) /\ I # {}
  BY <1>2
<1>4. \A m, n \in Nat : m < n => <<0 .. m, 0 .. n>> \in R
  BY DEF StrictSubsetOrdering
<1> HIDE DEF R
<1>5. \E a \in I : \A b \in I : ~ (<<b, a>> \in R)
  BY <1>1, <1>3, WFMin
<1>6. PICK x \in T : \A b \in I : ~ (<<b, 0 .. x>> \in R)
  BY <1>5
<1>7. ASSUME NEW y \in T PROVE x <= y
  <2>1. ~ (<<0 .. y, 0 .. x>> \in R)
    BY <1>6
  <2> QED BY <2>1, <1>4
<1> QED BY <1>7

(* f satisfies the equation f[x] = D[f, x] for the arguments that are      *)
(* below n in the measure m                                                *)
SatisfiesBelow(S, m, D, f, n) == \A x \in S : m[x] < n => f[x] = D[<<f, x>>]

(* The right-hand side D looks only at arguments smaller in the measure m  *)
LooksBelow(S, V, m, D) ==
  /\ V # {} /\ m \in [S -> Nat] /\ D \in [[S -> V] \X S -> V]
  /\ \A f, g \in [S -> V], x \in S :
       (\A y \in S : m[y] < m[x] => f[y] = g[y]) => D[<<f, x>>] = D[<<g, x>>]

(* A recursive definition whose right-hand side looks only at arguments    *)
(* that are smaller in some measure has a solution: the loops of package   *)
(* mmr end, and the functions that model them satisfy their equations.     *)
THEOREM Recursion ==
  ASSUME NEW S, NEW V, NEW m, NEW D, LooksBelow(S, V, m, D)
  PROVE  \E f \in [S -> V] : \A x \in S : f[x] = D[<<f, x>>]
<1>0. /\ V # {} /\ m \in [S -> Nat] /\ D \in [[S -> V] \X S -> V]
      /\ \A f, g \in [S -> V], x \in S :
           (\A y \in S : m[y] < m[x] => f[y] = g[y]) => D[<<f, x>>] = D[<<g, x>>]
  BY DEF LooksBelow
<1> USE <1>0
<1> DEFINE Below(f, n) == SatisfiesBelow(S, m, D, f, n)
<1>1. \A n \in Nat : \E f \in [S -> V] : Below(f, n)
  <2> DEFINE T == {n \in Nat : ~ \E f \in [S -> V] : Below(f, n)}
  <2> SUFFICES ASSUME T # {} PROVE FALSE
    OBVIOUS
  <2>1. PICK n \in T : \A y \in T : n <= y
    <3>1. T \in SUBSET Nat
      OBVIOUS
    <3> QED BY <3>1, NatLeast
  <2>2. CASE n = 0
    <3>1. PICK v \in V : TRUE
      OBVIOUS
    <3>2. [x \in S |-> v] \in [S -> V] /\ Below([x \in S |-> v], 0)
      BY <3>1 DEF SatisfiesBelow
    <3> QED BY <2>2, <3>2
  <2>3. CASE n # 0
    <3>1. n \in Nat /\ n - 1 \in Nat
      BY <2>3
    <3>2. n - 1 \notin T
      <4> HIDE DEF T
      <4> QED BY <3>1, <2>1
    <3>3. PICK g \in [S -> V] : Below(g, n - 1)
      BY <3>1, <3>2
    <3> DEFINE h == [x \in S |-> IF m[x] < n - 1 THEN g[x] ELSE D[<<g, x>>]]
    <3>4. h \in [S -> V]
      OBVIOUS
    <3>5. ASSUME NEW x \in S, m[x] < n PROVE h[x] = D[<<h, x>>]
      <4>1. \A y \in S : m[y] < m[x] => h[y] = g[y]
        BY <3>1, <3>5
      <4>2. D[<<h, x>>] = D[<<g, x>>]
        BY <3>4, <4>1
      <4>3. h[x] = D[<<g, x>>]
        BY <3>3 DEF SatisfiesBelow
      <4> QED BY <4>2, <4>3
    <3>6. Below(h, n)
      BY <3>5 DEF SatisfiesBelow
    <3> QED BY <3>4, <3>6
  <2> QED BY <2>2, <2>3
<1>2. ASSUME NEW f \in [S -> V], NEW g \in [S -> V], NEW k \in Nat, NEW n \in Nat,
             Below(f, k), Below(g, n), NEW x \in S, m[x] < k, m[x] < n
      PROVE  f[x] = g[x]
  <2> DEFINE T == {m[y] : y \in {z \in S : m[z] < k /\ m[z] < n /\ f[z] # g[z]}}
  <2>0. f[x] # g[x] => m[x] \in T
    BY <1>2
  <2> SUFFICES ASSUME T # {} PROVE FALSE
    BY <2>0
  <2>1. PICK a \in T : \A b \in T : a <= b
    <3>1. T \in SUBSET Nat
      OBVIOUS
    <3> QED BY <3>1, NatLeast
  <2>2. PICK z \in S : m[z] = a /\ m[z] < k /\ m[z] < n /\ f[z] # g[z]
    OBVIOUS
  <2>3. ASSUME NEW y \in S, m[y] < m[z] PROVE f[y] = g[y]
    <3>1. m[y] \in Nat /\ m[z] \in Nat
      OBVIOUS
    <3>2. m[y] \notin T
      <4> HIDE DEF T
      <4> QED BY <2>1, <2>2, <2>3, <3>1
    <3>3. m[y] < k /\ m[y] < n
      BY <2>2, <2>3, <3>1
    <3> QED BY <3>2, <3>3
  <2>4. D[<<f, z>>] = D[<<g, z>>]
    BY <2>3
  <2> QED BY <2>2, <2>4, <1>2 DEF SatisfiesBelow
<1> DEFINE A(n) == CHOOSE g \in [S -> V] : Below(g, n)
           f == [x \in S |-> A(m[x] + 1)[x]]
<1>3. \A n \in Nat : A(n) \in [S -> V] /\ Below(A(n), n)
  BY <1>1
<1> HIDE DEF A, Below
<1>4. f \in [S -> V]
  BY <1>3
<1>5. ASSUME NEW x \in S PROVE f[x] = D[<<f, x>>]
  <2>0. m[x] \in Nat /\ m[x] + 1 \in Nat
    OBVIOUS
  <2>1. A(m[x] + 1) \in [S -> V] /\ Below(A(m[x] + 1), m[x] + 1)
    BY <1>3, <2>0
  <2>2. ASSUME NEW y \in S, m[y] < m[x] PROVE f[y] = A(m[x] + 1)[y]
    <3>0. m[y] \in Nat /\ m[y] + 1 \in Nat
      OBVIOUS
    <3>1. A(m[y] + 1) \in [S -> V] /\ Below(A(m[y] + 1), m[y] + 1)
      BY <1>3, <3>0
    <3>2. m[y] < m[y] + 1 /\ m[y] < m[x] + 1
      BY <2>0, <3>0, <2>2
    <3>3. A(m[y] + 1)[y] = A(m[x] + 1)[y]
      BY <1>2, <2>0, <2>1, <3>0, <3>1, <3>2
    <3> QED BY <3>3
  <2>3. D[<<f, x>>] = D[<<A(m[x] + 1), x>>]
    BY <1>4, <2>1, <2>2
  <2>4. A(m[x] + 1)[x] = D[<<A(m[x] + 1), x>>]
    <3>1. m[x] < m[x] + 1
      BY <2>0
    <3>2. \A z \in S : m[z] < m[x] + 1 => A(m[x] + 1)[z] = D[<<A(m[x] + 1), z>>]
      <4> HIDE DEF A
      <4> QED BY <2>1 DEF Below, SatisfiesBelow
    <3> QED BY <3>1, <3>2
  <2> QED BY <2>3, <2>4
<1> QED BY <1>4, <1>5

(* The same for the functions of one number that look at smaller numbers.  *)
NatLooksBelow(V, D) ==
  /\ V # {} /\ D \in [[Nat -> V] \X Nat -> V]
  /\ \A f, g \in [Nat -> V], n \in Nat :
       (\A k \in Nat : k < n => f[k] = g[k]) => D[<<f, n>>] = D[<<g, n>>]

(* There is a function that satisfies such a recursion.                    *)
LEMMA NatRecursion ==
  ASSUME NEW V, NEW D, NatLooksBelow(V, D)
  PROVE  \E f \in [Nat -> V] : f = [n \in Nat |-> D[<<f, n>>]]
<1> DEFINE m == [n \in Nat |-> n]
<1>1. m \in [Nat -> Nat] /\ \A n \in Nat : m[n] = n
  OBVIOUS
<1> HIDE DEF m
<1>2. LooksBelow(Nat, V, m, D)
  BY <1>1 DEF LooksBelow, NatLooksBelow
<1>3. PICK f \in [Nat -> V] : \A x \in Nat : f[x] = D[<<f, x>>]
  BY <1>2, Recursion
<1> QED BY <1>3

-----------------------------------------------------------------------------
(* Powers of two.  The provers know the power as a symbol only: its        *)
(* recursion is that of the subsets of 1 .. n.                             *)

(* 2^n is a positive natural number: the sizes of trees are. *)
LEMMA PowType ==
  ASSUME NEW n \in Nat
  PROVE  2^n \in Nat /\ 2^n > 0
<1>1. IsFiniteSet(1 .. n) /\ Cardinality(1 .. n) = n
  BY FS_Interval
<1>2. IsFiniteSet(SUBSET (1 .. n)) /\ Cardinality(SUBSET (1 .. n)) = 2^n
  BY <1>1, FS_SUBSET
<1>3. SUBSET (1 .. n) # {}
  OBVIOUS
<1>4. 2^n # 0
  BY <1>2, <1>3, FS_EmptySet
<1>5. 2^n \in Nat
  BY <1>2, FS_CardinalityType
<1> QED BY <1>4, <1>5

(* A tree of the next height has twice the leaves. *)
LEMMA PowStep ==
  ASSUME NEW n \in Nat
  PROVE  2^(n + 1) = 2 * 2^n
<1> DEFINE S == SUBSET (1 .. n)
           U == SUBSET (1 .. n + 1)
           T == U \ S
<1>1. /\ IsFiniteSet(1 .. n) /\ Cardinality(1 .. n) = n
      /\ IsFiniteSet(1 .. n + 1) /\ Cardinality(1 .. n + 1) = n + 1
  BY FS_Interval
<1>2. IsFiniteSet(S) /\ Cardinality(S) = 2^n
  BY <1>1, FS_SUBSET
<1>3. IsFiniteSet(U) /\ Cardinality(U) = 2^(n + 1)
  BY <1>1, FS_SUBSET
<1>4. S \subseteq U
  OBVIOUS
<1>5. ExistsBijection(S, T)
  <2> DEFINE f == [s \in S |-> s \cup {n + 1}]
  <2>1. f \in [S -> T]
    OBVIOUS
  <2>2. ASSUME NEW a \in S, NEW b \in S, a \cup {n + 1} = b \cup {n + 1}
        PROVE  a = b
    <3>1. n + 1 \notin a /\ n + 1 \notin b
      OBVIOUS
    <3> QED BY <3>1, <2>2
  <2>3. ASSUME NEW t \in T PROVE \E s \in S : f[s] = t
    <3>1. t \subseteq 1 .. n + 1 /\ ~(t \subseteq 1 .. n)
      OBVIOUS
    <3>2. PICK e \in t : e \notin 1 .. n
      BY <3>1
    <3>3. n + 1 \in t
      BY <3>1, <3>2
    <3>4. t \ {n + 1} \in S /\ (t \ {n + 1}) \cup {n + 1} = t
      BY <3>3
    <3> QED BY <3>4
  <2>4. \A a, b \in S : f[a] = f[b] => a = b
    BY <2>2
  <2> HIDE DEF S, T, f
  <2>5. f \in Bijection(S, T)
    BY <2>1, <2>3, <2>4, Fun_IsBij
  <2> QED BY <2>5, Fun_ExistsBij
<1>6. IsFiniteSet(T) /\ Cardinality(T) = 2^n
  BY <1>2, <1>5, FS_Bijection
<1>7. Cardinality(T) = 2^(n + 1) - 2^n
  <2>1. U \cap S = S
    BY <1>4
  <2>2. Cardinality(T) = Cardinality(U) - Cardinality(U \cap S)
    BY <1>3, FS_Difference
  <2> HIDE DEF U, S, T
  <2> QED BY <2>1, <2>2, <1>2, <1>3
<1>8. 2^n \in Nat /\ 2^(n + 1) \in Nat
  BY PowType
<1> QED BY <1>6, <1>7, <1>8

(* A tree of no height is a leaf. *)
LEMMA PowZero == 2^0 = 1
OBVIOUS

(* Trees of trees: heights add up, leaves multiply. *)
LEMMA PowAdd ==
  ASSUME NEW a \in Nat, NEW b \in Nat
  PROVE  2^(a + b) = 2^a * 2^b
<1> DEFINE T == {n \in Nat : 2^(a + n) # 2^a * 2^n}
<1> SUFFICES ASSUME T # {} PROVE FALSE
  OBVIOUS
<1>1. PICK n \in T : \A y \in T : n <= y
  BY NatLeast
<1>2. CASE n = 0
  BY <1>2, PowZero, PowType
<1>3. CASE n # 0
  <2>1. n \in Nat /\ n - 1 \in Nat /\ a + (n - 1) \in Nat
    BY <1>3
  <2>2. n - 1 \notin T
    <3> HIDE DEF T
    <3> QED BY <2>1, <1>1
  <2>3. 2^(a + (n - 1)) = 2^a * 2^(n - 1)
    BY <2>1, <2>2
  <2>4. 2^(a + n) = 2 * 2^(a + (n - 1))
    <3>1. 2^((a + (n - 1)) + 1) = 2 * 2^(a + (n - 1))
      BY <2>1, PowStep
    <3>2. (a + (n - 1)) + 1 = a + n
      BY <2>1
    <3> QED BY <3>1, <3>2
  <2>5. 2^n = 2 * 2^(n - 1)
    <3>1. 2^((n - 1) + 1) = 2 * 2^(n - 1)
      BY <2>1, PowStep
    <3>2. (n - 1) + 1 = n
      BY <2>1
    <3> QED BY <3>1, <3>2
  <2>6. 2^a \in Nat /\ 2^(n - 1) \in Nat
    BY <2>1, PowType
  <2>7. 2^a * 2^n = 2 * (2^a * 2^(n - 1))
    BY <2>5, <2>6
  <2>8. 2^(a + n) = 2^a * 2^n
    BY <2>3, <2>4, <2>7
  <2> QED BY <2>8
<1> QED BY <1>2, <1>3

(* A tree holds trees of each lower height side by side. *)
LEMMA PowSplit ==
  ASSUME NEW a \in Nat, NEW b \in Nat, a <= b
  PROVE  /\ b - a \in Nat /\ 2^(b - a) \in Nat /\ 2^(b - a) > 0
         /\ 2^b = 2^a * 2^(b - a)
<1>1. b - a \in Nat /\ a + (b - a) = b
  OBVIOUS
<1>2. 2^(a + (b - a)) = 2^a * 2^(b - a)
  BY <1>1, PowAdd
<1>3. 2^(b - a) \in Nat /\ 2^(b - a) > 0
  BY <1>1, PowType
<1> QED BY <1>1, <1>2, <1>3

(* A higher tree is larger, by half at least. *)
LEMMA PowMono ==
  ASSUME NEW a \in Nat, NEW b \in Nat
  PROVE  /\ a <= b => 2^a <= 2^b
         /\ a < b => 2 * 2^a <= 2^b
         /\ 2^a < 2^b => a < b
         /\ 2^a = 2^b => a = b
<1>1. ASSUME NEW x \in Nat, NEW y \in Nat, x <= y PROVE 2^x <= 2^y
  <2>1. y - x \in Nat /\ x + (y - x) = y
    BY <1>1
  <2>2. 2^y = 2^x * 2^(y - x)
    BY <2>1, PowAdd
  <2>3. 2^x \in Nat /\ 2^(y - x) \in Nat /\ 2^(y - x) >= 1
    BY <2>1, PowType
  <2> QED BY <2>2, <2>3
<1>2. ASSUME NEW x \in Nat, NEW y \in Nat, x < y PROVE 2 * 2^x <= 2^y
  BY <1>2, <1>1, PowStep
<1>3. 2^a \in Nat /\ 2^a > 0 /\ 2^b \in Nat /\ 2^b > 0
  BY PowType
<1>4. a <= b => 2^a <= 2^b
  BY <1>1
<1>5. a < b => 2 * 2^a <= 2^b
  BY <1>2
<1>6. b <= a => 2^b <= 2^a
  BY <1>1
<1>7. b < a => 2 * 2^b <= 2^a
  BY <1>2
<1> QED BY <1>3, <1>4, <1>5, <1>6, <1>7

(* A number is less than the leaves of a tree that high. *)
LEMMA BelowPow ==
  ASSUME NEW n \in Nat
  PROVE  n < 2^n
<1> DEFINE T == {k \in Nat : ~ (k < 2^k)}
<1> SUFFICES ASSUME T # {} PROVE FALSE
  OBVIOUS
<1>1. PICK k \in T : \A y \in T : k <= y
  BY NatLeast
<1>2. CASE k = 0
  BY <1>2, PowZero
<1>3. CASE k # 0
  <2>1. k \in Nat /\ k - 1 \in Nat
    BY <1>3
  <2>2. k - 1 \notin T
    <3> HIDE DEF T
    <3> QED BY <2>1, <1>1
  <2>3. 2^((k - 1) + 1) = 2 * 2^(k - 1)
    BY <2>1, PowStep
  <2>4. (k - 1) + 1 = k
    BY <2>1
  <2>5. 2^(k - 1) \in Nat /\ k - 1 < 2^(k - 1)
    BY <2>1, <2>2, PowType
  <2>6. k < 2^k
    BY <2>3, <2>4, <2>5, <2>1
  <2> QED BY <2>6
<1> QED BY <1>2, <1>3

-----------------------------------------------------------------------------
(* bits.go *)

(* Exactly one length fits a number. *)
LEMMA BitLengthIs ==
  ASSUME NEW n \in Nat, NEW k \in Nat, 2^k <= n, n < 2 * 2^k
  PROVE  BitLength(n) = k + 1
<1>1. 2^k \in Nat /\ 2^k > 0 /\ n # 0
  BY PowType
<1>2. k + 1 \in 1 .. n
  BY BelowPow, <1>1
<1>3. (k + 1) - 1 = k /\ 2^(k + 1) = 2 * 2^k
  BY PowStep
<1>4. ASSUME NEW j \in 1 .. n, 2^(j - 1) <= n, n < 2^j
      PROVE  j = k + 1
  <2>1. j - 1 \in Nat /\ (j - 1) + 1 = j
    OBVIOUS
  <2>2. 2^j = 2 * 2^(j - 1)
    BY <2>1, PowStep
  <2>3. 2^(j - 1) \in Nat
    BY <2>1, PowType
  <2>4. ~ (j - 1 < k)
    <3>1. j - 1 < k => 2 * 2^(j - 1) <= 2^k
      BY <2>1, PowMono
    <3> QED BY <3>1, <2>2, <2>3, <1>1, <1>4
  <2>5. ~ (k < j - 1)
    <3>1. k < j - 1 => 2 * 2^k <= 2^(j - 1)
      BY <2>1, PowMono
    <3> QED BY <3>1, <2>3, <1>1, <1>4
  <2> QED BY <2>1, <2>4, <2>5
<1>5. BitLength(n) = CHOOSE j \in 1 .. n : 2^(j - 1) <= n /\ n < 2^j
  BY <1>1 DEF BitLength
<1>6. \E j \in 1 .. n : 2^(j - 1) <= n /\ n < 2^j
  BY <1>2, <1>3
<1> QED BY <1>4, <1>5, <1>6

(* A positive number lies between two powers of two. *)
LEMMA PowBelow ==
  ASSUME NEW n \in Nat, n # 0
  PROVE  \E k \in Nat : 2^k <= n /\ n < 2 * 2^k
<1> DEFINE T == {j \in Nat : n < 2^j}
<1>1. n \in T
  BY BelowPow
<1>2. PICK j \in T : \A y \in T : j <= y
  BY <1>1, NatLeast
<1>3. j # 0
  <2>1. j = 0 => n < 2^0
    OBVIOUS
  <2> QED BY <2>1, PowZero
<1>4. j - 1 \in Nat /\ (j - 1) + 1 = j
  BY <1>3
<1>5. j - 1 \notin T
  <2> HIDE DEF T
  <2> QED BY <1>2, <1>4
<1>6. 2^(j - 1) \in Nat /\ 2^j = 2 * 2^(j - 1)
  BY <1>4, PowType, PowStep
<1>7. 2^(j - 1) <= n /\ n < 2 * 2^(j - 1)
  BY <1>4, <1>5, <1>6
<1> QED BY <1>4, <1>7

(* bits.Len64, as its comment describes it: the bits needed to hold n. *)
LEMMA BitLengthBounds ==
  ASSUME NEW n \in Nat, n # 0
  PROVE  \E k \in Nat : /\ BitLength(n) = k + 1
                        /\ 2^k <= n /\ n < 2 * 2^k
<1>1. PICK k \in Nat : 2^k <= n /\ n < 2 * 2^k
  BY PowBelow
<1>2. BitLength(n) = k + 1
  BY <1>1, BitLengthIs
<1> QED BY <1>1, <1>2

(* Zero has no bits.                                                       *)
LEMMA BitLengthZero == BitLength(0) = 0
BY DEF BitLength

(* The length in bits is a number.                                         *)
LEMMA BitLengthType ==
  ASSUME NEW n \in Nat
  PROVE  BitLength(n) \in Nat
<1>1. CASE n = 0
  BY <1>1, BitLengthZero
<1>2. CASE n # 0
  BY <1>2, BitLengthBounds
<1> QED BY <1>1, <1>2

(* A number of one bits is a number. *)
LEMMA OnesCountType ==
  ASSUME NEW n \in Nat
  PROVE  OnesCount(n) \in Nat
<1>1. BitLength(n) \in Nat
  BY BitLengthType
<1>2. IsFiniteSet(0 .. BitLength(n))
  BY <1>1, FS_Interval
<1>3. IsFiniteSet({k \in 0 .. BitLength(n) : (n \div 2^k) % 2 = 1})
  BY <1>2, FS_Subset
<1> QED BY <1>3, FS_CardinalityType DEF OnesCount

(* Every bit of 2^k - 1 is set, up to the k-th. *)
LEMMA BitsOfOnes ==
  ASSUME NEW k \in Nat, NEW j \in Nat
  PROVE  ((2^k - 1) \div 2^j) % 2 = IF j < k THEN 1 ELSE 0
<1>0. 2^k \in Nat /\ 2^k > 0 /\ 2^j \in Nat /\ 2^j > 0
  BY PowType
<1>1. CASE j < k
  <2> DEFINE d == 2^(k - j - 1)
  <2>1. k - j - 1 \in Nat /\ (k - j - 1) + 1 = k - j /\ k - j \in Nat /\ j + (k - j) = k
    BY <1>1
  <2>2. 2^(k - j) = 2 * d /\ 2^k = 2^j * 2^(k - j) /\ d \in Nat /\ d > 0
    <3>1. 2^((k - j - 1) + 1) = 2 * 2^(k - j - 1)
      BY <2>1, PowStep
    <3>2. 2^(j + (k - j)) = 2^j * 2^(k - j)
      BY <2>1, PowAdd
    <3> QED BY <2>1, <3>1, <3>2, PowType
  <2> HIDE DEF d
  <2>3. 2^k - 1 = 2^j * (2 * d - 1) + (2^j - 1)
    BY <2>2, <1>0
  <2>4. ASSUME NEW q \in Nat, NEW c \in Nat, c > 0
        PROVE  (c * q + (c - 1)) \div c = q
    BY <2>4
  <2>5. (2^k - 1) \div 2^j = 2 * d - 1
    BY <2>2, <2>3, <2>4, <1>0
  <2>6. (2 * d - 1) % 2 = 1
    <3>1. ASSUME NEW e \in Nat, e > 0 PROVE (2 * e - 1) % 2 = 1
      BY <3>1
    <3> QED BY <3>1, <2>2
  <2>7. ((2^k - 1) \div 2^j) % 2 = 1
    BY <2>5, <2>6
  <2> QED BY <2>7, <1>1
<1>2. CASE ~ (j < k)
  <2>1. 2^k <= 2^j
    BY <1>2, PowMono
  <2>2. (2^k - 1) \div 2^j = 0
    BY <2>1, <1>0
  <2>3. 0 % 2 = 0
    OBVIOUS
  <2>4. ((2^k - 1) \div 2^j) % 2 = 0
    BY <2>2, <2>3
  <2> QED BY <2>4, <1>2
<1> QED BY <1>1, <1>2

(* AllOnes, "all bits are set": the positions that close a perfect tree. *)
LEMMA AllOnesIs ==
  ASSUME NEW n \in Nat
  PROVE  AllOnes(n) <=> \E k \in Nat : n = 2^k - 1
<1>1. ASSUME AllOnes(n) PROVE \E k \in Nat : n = 2^k - 1
  BY <1>1, OnesCountType DEF AllOnes
<1>2. ASSUME NEW k \in Nat, n = 2^k - 1 PROVE AllOnes(n)
  <2>0. 2^k \in Nat /\ 2^k > 0
    BY PowType
  <2>1. BitLength(n) = k
    <3>1. CASE k = 0
      BY <3>1, <1>2, PowZero, BitLengthZero
    <3>2. CASE k # 0
      <4>1. k - 1 \in Nat /\ (k - 1) + 1 = k
        BY <3>2
      <4>2. 2^k = 2 * 2^(k - 1) /\ 2^(k - 1) \in Nat /\ 2^(k - 1) > 0
        BY <4>1, PowStep, PowType
      <4>3. 2^(k - 1) <= n /\ n < 2 * 2^(k - 1)
        BY <4>2, <1>2
      <4> QED BY <4>1, <4>3, BitLengthIs
    <3> QED BY <3>1, <3>2
  <2>2. {j \in 0 .. BitLength(n) : (n \div 2^j) % 2 = 1} = 0 .. k - 1
    <3> DEFINE Set(j) == (n \div 2^j) % 2 = 1
    <3>1. \A j \in 0 .. k : Set(j) <=> j < k
      BY <1>2, BitsOfOnes
    <3>2. {j \in 0 .. k : Set(j)} = 0 .. k - 1
      <4> HIDE DEF Set
      <4> QED BY <3>1
    <3> QED BY <3>2, <2>1
  <2>3. Cardinality(0 .. k - 1) = k
    BY FS_Interval
  <2>4. OnesCount(n) = k
    BY <2>2, <2>3 DEF OnesCount
  <2> QED BY <2>4, <1>2 DEF AllOnes
<1> QED BY <1>1, <1>2

-----------------------------------------------------------------------------
(* The recursive functions satisfy their equations *)

(* PosHeight's loop ends: a jump to the left makes the position smaller.   *)
LEMMA JumpLeftPerfectIs ==
  ASSUME NEW pos \in Nat, ~ AllOnes(pos)
  PROVE  JumpLeftPerfect(pos) \in Nat /\ JumpLeftPerfect(pos) < pos
<1>1. pos # 0 /\ pos # 1
  <2>1. 0 = 2^0 - 1 /\ 1 = 2^1 - 1
    OBVIOUS
  <2> QED BY <2>1, AllOnesIs
<1>2. PICK k \in Nat : BitLength(pos) = k + 1 /\ 2^k <= pos /\ pos < 2 * 2^k
  BY <1>1, BitLengthBounds
<1>3. k # 0
  <2>1. k = 0 => 2^0 <= pos /\ pos < 2 * 2^0
    BY <1>2
  <2> QED BY <1>1, <2>1, PowZero
<1>4. 2^k \in Nat /\ 2^k > 1
  <2>1. k - 1 \in Nat /\ (k - 1) + 1 = k
    BY <1>3
  <2>2. 2^k = 2 * 2^(k - 1) /\ 2^(k - 1) \in Nat /\ 2^(k - 1) > 0
    BY <2>1, PowStep, PowType
  <2> QED BY <2>2
<1>5. JumpLeftPerfect(pos) = pos - (2^k - 1)
  BY <1>2 DEF JumpLeftPerfect
<1> QED BY <1>2, <1>4, <1>5

(* PosHeight, as its loop computes it. *)
LEMMA PosHeightDef ==
  ASSUME NEW pos \in Nat
  PROVE  PosHeight(pos) = IF AllOnes(pos) THEN BitLength(pos) - 1
                          ELSE PosHeight(JumpLeftPerfect(pos))
<1> DEFINE B(f, n) == IF AllOnes(n) THEN BitLength(n) - 1 ELSE f[JumpLeftPerfect(n)]
           D == [p \in [Nat -> Int] \X Nat |-> B(p[1], p[2])]
<1>1. \A f \in [Nat -> Int], n \in Nat : B(f, n) \in Int /\ D[<<f, n>>] = B(f, n)
  BY BitLengthType, JumpLeftPerfectIs
<1>2. D \in [[Nat -> Int] \X Nat -> Int]
  BY <1>1
<1>3. \A f, g \in [Nat -> Int], n \in Nat :
        (\A k \in Nat : k < n => f[k] = g[k]) => D[<<f, n>>] = D[<<g, n>>]
  BY <1>1, JumpLeftPerfectIs
<1>4. \E f \in [Nat -> Int] : f = [n \in Nat |-> D[<<f, n>>]]
  <2>1. Int # {}
    OBVIOUS
  <2> HIDE DEF D
  <2>2. NatLooksBelow(Int, D)
    BY <2>1, <1>2, <1>3 DEF NatLooksBelow
  <2> QED BY <2>2, NatRecursion
<1>5. \E f : f = [n \in Nat |-> B(f, n)]
  <2> HIDE DEF B, D
  <2> QED BY <1>1, <1>4
<1>6. posHeight = [n \in Nat |-> B(posHeight, n)]
  BY <1>5 DEF posHeight
<1>7. \A n \in Nat : posHeight[n] = B(posHeight, n)
  <2> HIDE DEF B
  <2> QED BY <1>6
<1> QED BY <1>7 DEF PosHeight

(* What is left when the highest bit of a number is cleared. *)
LEMMA ClearTop ==
  ASSUME NEW n \in Nat, n # 0
  PROVE  /\ BitLength(n) \in Nat \ {0}
         /\ n - 2^(BitLength(n) - 1) \in Nat
         /\ n - 2^(BitLength(n) - 1) < n
         /\ 2^BitLength(n) - 1 \in Nat
<1>1. PICK k \in Nat : BitLength(n) = k + 1 /\ 2^k <= n /\ n < 2 * 2^k
  BY BitLengthBounds
<1>2. BitLength(n) - 1 = k /\ 2^k \in Nat /\ 2^k > 0
      /\ 2^(k + 1) \in Nat /\ 2^(k + 1) > 0
  BY <1>1, PowType
<1> QED BY <1>1, <1>2

(* MMRIndex, as its loop computes it: the perfect tree over the highest    *)
(* bit of the leaf index, and the rest.                                    *)
LEMMA MMRIndexDef ==
  ASSUME NEW n \in Nat
  PROVE  MMRIndex(n) = IF n = 0 THEN 0
                       ELSE 2^BitLength(n) - 1 + MMRIndex(n - 2^(BitLength(n) - 1))
<1> DEFINE B(f, x) == IF x = 0 THEN 0
                      ELSE LET h == BitLength(x)
                           IN 2^h - 1 + f[x - 2^(h - 1)]
           D == [p \in [Nat -> Nat] \X Nat |-> B(p[1], p[2])]
<1>1. \A f \in [Nat -> Nat], x \in Nat : B(f, x) \in Nat /\ D[<<f, x>>] = B(f, x)
  <2>1. ASSUME NEW f \in [Nat -> Nat], NEW x \in Nat, x # 0 PROVE B(f, x) \in Nat
    <3>1. f[x - 2^(BitLength(x) - 1)] \in Nat
      BY <2>1, ClearTop
    <3>2. 2^BitLength(x) - 1 \in Nat
      BY <2>1, ClearTop
    <3> QED BY <3>1, <3>2
  <2>2. \A f \in [Nat -> Nat], x \in Nat : B(f, x) \in Nat
    BY <2>1
  <2> HIDE DEF B
  <2> QED BY <2>2
<1>2. D \in [[Nat -> Nat] \X Nat -> Nat]
  <2> HIDE DEF B
  <2> QED BY <1>1
<1>3. ASSUME NEW f \in [Nat -> Nat], NEW g \in [Nat -> Nat], NEW x \in Nat,
             \A k \in Nat : k < x => f[k] = g[k]
      PROVE  D[<<f, x>>] = D[<<g, x>>]
  <2>1. x # 0 => f[x - 2^(BitLength(x) - 1)] = g[x - 2^(BitLength(x) - 1)]
    BY <1>3, ClearTop
  <2>2. B(f, x) = B(g, x)
    BY <2>1
  <2> HIDE DEF B
  <2> QED BY <2>2
<1>4. \E f \in [Nat -> Nat] : f = [x \in Nat |-> D[<<f, x>>]]
  <2>1. Nat # {}
    OBVIOUS
  <2> HIDE DEF D
  <2>2. NatLooksBelow(Nat, D)
    BY <2>1, <1>2, <1>3 DEF NatLooksBelow
  <2> QED BY <2>2, NatRecursion
<1>5. \E f : f = [x \in Nat |-> B(f, x)]
  <2> HIDE DEF B, D
  <2> QED BY <1>1, <1>4
<1>6. mmrIndex = [x \in Nat |-> B(mmrIndex, x)]
  BY <1>5 DEF mmrIndex
<1>7. \A x \in Nat : mmrIndex[x] = B(mmrIndex, x)
  <2> HIDE DEF B
  <2> QED BY <1>6
<1> QED BY <1>7 DEF MMRIndex

-----------------------------------------------------------------------------
(* mmrindex.go: the number of nodes over n leaves *)

(* MMRIndex of a number between two powers of two: the perfect tree over   *)
(* the first leaves, and what is to the right of it.                       *)
LEMMA MMRIndexAt ==
  ASSUME NEW n \in Nat, NEW k \in Nat, 2^k <= n, n < 2 * 2^k
  PROVE  MMRIndex(n) = 2 * 2^k - 1 + MMRIndex(n - 2^k)
<1>1. BitLength(n) = k + 1 /\ BitLength(n) - 1 = k
  BY BitLengthIs
<1>2. n # 0 /\ 2^(k + 1) = 2 * 2^k
  BY PowType, PowStep
<1> QED BY <1>1, <1>2, MMRIndexDef

(* There are at least as many nodes as leaves, and at most twice as many.  *)
LEMMA MMRIndexBounds ==
  ASSUME NEW n \in Nat
  PROVE  /\ MMRIndex(n) \in Nat
         /\ n <= MMRIndex(n) /\ MMRIndex(n) <= 2 * n
         /\ n = 0 => MMRIndex(n) = 0
<1> DEFINE P(x) == /\ MMRIndex(x) \in Nat
                   /\ x <= MMRIndex(x) /\ MMRIndex(x) <= 2 * x
           T == {x \in Nat : ~ P(x)}
<1>1. ASSUME T # {} PROVE FALSE
  <2>1. PICK x \in T : \A y \in T : x <= y
    BY <1>1, NatLeast
  <2>2. CASE x = 0
    BY <2>2, MMRIndexDef
  <2>3. CASE x # 0
    <3>1. PICK k \in Nat : 2^k <= x /\ x < 2 * 2^k
      BY <2>3, PowBelow
    <3>2. 2^k \in Nat /\ 2^k > 0 /\ x - 2^k \in Nat /\ x - 2^k < x
      BY <3>1, PowType
    <3>3. P(x - 2^k)
      <4>0. x \in Nat
        OBVIOUS
      <4>1. x - 2^k \notin T
        <5> HIDE DEF T
        <5> QED BY <2>1, <3>2, <4>0
      <4> QED BY <4>1, <3>2
    <3>4. MMRIndex(x) = 2 * 2^k - 1 + MMRIndex(x - 2^k)
      BY <3>1, MMRIndexAt
    <3>5. P(x)
      BY <3>1, <3>2, <3>3, <3>4
    <3> QED BY <3>5
  <2> QED BY <2>2, <2>3
<1>2. P(n)
  BY <1>1
<1> QED BY <1>2, MMRIndexDef

(* An aligned run of 2^g leaves that begins in a perfect tree ends in it.  *)
LEMMA RunFits ==
  ASSUME NEW g \in Nat, NEW b \in Nat, NEW k \in Nat, g <= b, k * 2^g < 2^b
  PROVE  (k + 1) * 2^g <= 2^b
<1> DEFINE c == 2^(b - g)
<1>2. 2^b = 2^g * c /\ c \in Nat /\ 2^g \in Nat /\ 2^g > 0
  BY PowSplit, PowType
<1> HIDE DEF c
<1>3. k < c
  BY <1>2
<1>4. k + 1 <= c
  BY <1>2, <1>3
<1>5. ASSUME NEW x \in Nat, NEW y \in Nat, NEW z \in Nat, x <= y
      PROVE  x * z <= z * y
  BY <1>5
<1> QED BY <1>2, <1>4, <1>5

(* Where the perfect tree to the left of a run ends: the run starts as     *)
(* far into the rest, and is aligned there.                                *)
LEMMA RunInRest ==
  ASSUME NEW g \in Nat, NEW b \in Nat, NEW k \in Nat,
         2^b <= k * 2^g, k * 2^g < 2 * 2^b
  PROVE  \/ k # 0 /\ b < g
         \/ /\ g <= b /\ k - 2^(b - g) \in Nat /\ k - 2^(b - g) < k
            /\ (k - 2^(b - g)) * 2^g = k * 2^g - 2^b
            /\ (k + 1) * 2^g <= 2 * 2^b
            /\ 2^(b - g) \in Nat /\ g < b => 2^(b - g) = 2 * 2^(b - g - 1)
<1> SUFFICES ASSUME g <= b PROVE
            /\ g <= b /\ k - 2^(b - g) \in Nat /\ k - 2^(b - g) < k
            /\ (k - 2^(b - g)) * 2^g = k * 2^g - 2^b
            /\ (k + 1) * 2^g <= 2 * 2^b
            /\ 2^(b - g) \in Nat /\ g < b => 2^(b - g) = 2 * 2^(b - g - 1)
  BY PowType
<1> DEFINE c == 2^(b - g)
<1>2. 2^b = 2^g * c /\ c \in Nat /\ c > 0 /\ 2^g \in Nat /\ 2^g > 0
  BY PowSplit, PowType
<1>3. g < b => 2^(b - g) = 2 * 2^(b - g - 1)
  <2>1. ASSUME g < b PROVE b - g - 1 \in Nat /\ (b - g - 1) + 1 = b - g
    BY <2>1
  <2> QED BY <2>1, PowStep
<1>4. (k + 1) * 2^g <= 2 * 2^b
  <2>1. 2^(b + 1) = 2 * 2^b /\ b + 1 \in Nat /\ g <= b + 1
    BY PowStep
  <2>2. (k + 1) * 2^g <= 2^(b + 1)
    BY <2>1, RunFits
  <2> QED BY <2>1, <2>2
<1> HIDE DEF c
<1>5. c <= k
  BY <1>2
<1>6. k - c \in Nat /\ k - c < k
  BY <1>2, <1>5
<1>7. (k - c) * 2^g = k * 2^g - 2^b
  BY <1>2
<1> QED BY <1>2, <1>3, <1>4, <1>6, <1>7 DEF c

(* The nodes over an aligned run of leaves are a perfect tree: 2^(g+1) - 1 *)
(* nodes from its first to its root.                                       *)
LEMMA MMRIndexRun ==
  ASSUME NEW g \in Nat, NEW j \in Nat
  PROVE  MMRIndex((2 * j + 1) * 2^g) = MMRIndex(2 * j * 2^g) + 2 * 2^g - 1
<1> DEFINE P(x) == MMRIndex((2 * x + 1) * 2^g) = MMRIndex(2 * x * 2^g) + 2 * 2^g - 1
           T == {x \in Nat : ~ P(x)}
<1>0. 2^g \in Nat /\ 2^g > 0
  BY PowType
<1>1. ASSUME T # {} PROVE FALSE
  <2>1. PICK x \in T : \A y \in T : x <= y
    BY <1>1, NatLeast
  <2>2. x \in Nat
    OBVIOUS
  <2>3. CASE x = 0
    <3>1. (2 * x + 1) * 2^g = 2^g /\ 2 * x * 2^g = 0
      BY <2>3, <1>0
    <3>2. MMRIndex(2^g) = 2 * 2^g - 1 + MMRIndex(2^g - 2^g)
      BY <1>0, MMRIndexAt
    <3>3. 2^g - 2^g = 0 /\ MMRIndex(0) = 0
      BY <1>0, MMRIndexBounds
    <3>4. P(x)
      BY <3>1, <3>2, <3>3, <1>0
    <3> QED BY <3>4
  <2>4. CASE x # 0
    <3> DEFINE n == (2 * x) * 2^g
    <3>1. n \in Nat /\ n # 0
      BY <2>2, <2>4, <1>0
    <3>2. PICK b \in Nat : 2^b <= n /\ n < 2 * 2^b
      BY <3>1, PowBelow
    <3>3. 2^(g + 1) = 2 * 2^g /\ g + 1 \in Nat /\ n = x * 2^(g + 1)
      BY <2>2, <1>0, PowStep
    <3>4. 2^b \in Nat /\ 2^b > 0
      BY PowType
    <3>5. g + 1 <= b
      <4>1. b < g + 1 => 2 * 2^b <= 2^(g + 1)
        BY <3>3, PowMono
      <4>2. 2^(g + 1) <= n
        BY <3>3, <2>2, <2>4, <1>0
      <4> QED BY <4>1, <4>2, <3>1, <3>2, <3>3, <3>4
    <3> DEFINE c == 2^(b - (g + 1))
               y == x - c
    <3>6. /\ y \in Nat /\ y < x
          /\ y * 2^(g + 1) = n - 2^b
          /\ (x + 1) * 2^(g + 1) <= 2 * 2^b
      BY <2>2, <3>2, <3>3, <3>5, RunInRest
    <3> HIDE DEF c, y
    <3>7. P(y)
      <4>1. y \notin T
        <5> HIDE DEF T
        <5> QED BY <2>1, <2>2, <3>6
      <4> QED BY <4>1, <3>6
    <3>8. (2 * x + 1) * 2^g = n + 2^g /\ 2 * x * 2^g = n
      BY <2>2, <1>0
    <3>9. (2 * y + 1) * 2^g = (n + 2^g) - 2^b /\ 2 * y * 2^g = n - 2^b
      BY <2>2, <1>0, <3>3, <3>4, <3>6
    <3>10. n + 2^g \in Nat /\ 2^b <= n + 2^g /\ n + 2^g < 2 * 2^b
      <4>1. (x + 1) * 2^(g + 1) = n + 2 * 2^g
        BY <2>2, <1>0, <3>3
      <4> QED BY <4>1, <3>1, <3>2, <3>4, <3>6, <1>0
    <3>11. MMRIndex(n + 2^g) = 2 * 2^b - 1 + MMRIndex((n + 2^g) - 2^b)
      BY <3>10, MMRIndexAt
    <3>12. MMRIndex(n) = 2 * 2^b - 1 + MMRIndex(n - 2^b)
      BY <3>1, <3>2, MMRIndexAt
    <3>13. MMRIndex(n - 2^b) \in Nat
      <4>1. n - 2^b \in Nat
        BY <3>1, <3>2, <3>4
      <4> QED BY <4>1, MMRIndexBounds
    <3>14. MMRIndex((n + 2^g) - 2^b) = MMRIndex(n - 2^b) + 2 * 2^g - 1
      BY <3>7, <3>9
    <3> HIDE DEF n
    <3>15. MMRIndex(n + 2^g) = MMRIndex(n) + 2 * 2^g - 1
      BY <3>11, <3>12, <3>13, <3>14, <1>0, <3>4
    <3>16. P(x)
      BY <3>15, <3>8
    <3> QED BY <3>16
  <2> QED BY <2>3, <2>4
<1>2. P(j)
  BY <1>1
<1> QED BY <1>2

-----------------------------------------------------------------------------
(* Where the nodes are *)

(* The position of the node over the k-th run of 2^h leaves: the nodes     *)
(* over the leaves before the run, and the perfect tree that ends with it. *)
NodePos(h, k) == MMRIndex(k * 2^h) + 2 * 2^h - 1

(* The position of a node is at least the size of its tree, and at most    *)
(* the size of the perfect trees over the leaves up to its last.           *)
LEMMA NodePosBounds ==
  ASSUME NEW h \in Nat, NEW k \in Nat
  PROVE  /\ NodePos(h, k) \in Nat /\ NodePos(h, k) > 0
         /\ 2 * 2^h - 1 <= NodePos(h, k)
         /\ NodePos(h, k) <= 2 * ((k + 1) * 2^h) - 1
         /\ (k + 1) * 2^h \in Nat
<1>1. 2^h \in Nat /\ 2^h > 0
  BY PowType
<1>2. k * 2^h \in Nat /\ (k + 1) * 2^h = k * 2^h + 2^h
  BY <1>1
<1>3. MMRIndex(k * 2^h) \in Nat /\ MMRIndex(k * 2^h) <= 2 * (k * 2^h)
  BY <1>2, MMRIndexBounds
<1> QED BY <1>1, <1>2, <1>3 DEF NodePos

(* A right child is followed by its parent, and comes a whole tree after   *)
(* its sibling.                                                            *)
LEMMA ParentPos ==
  ASSUME NEW h \in Nat, NEW j \in Nat
  PROVE  /\ NodePos(h + 1, j) = NodePos(h, 2 * j + 1) + 1
         /\ NodePos(h, 2 * j) = NodePos(h, 2 * j + 1) - (2 * 2^h - 1)
<1>1. 2^h \in Nat /\ 2^h > 0 /\ 2^(h + 1) = 2 * 2^h
  BY PowType, PowStep
<1>2. j * 2^(h + 1) = 2 * j * 2^h
  BY <1>1
<1>3. MMRIndex((2 * j + 1) * 2^h) = MMRIndex(2 * j * 2^h) + 2 * 2^h - 1
  BY MMRIndexRun
<1>4. MMRIndex(2 * j * 2^h) \in Nat
  <2>1. 2 * j * 2^h \in Nat
    BY <1>1
  <2> QED BY <2>1, MMRIndexBounds
<1>5. NodePos(h + 1, j) = MMRIndex(2 * j * 2^h) + 2 * (2 * 2^h) - 1
  BY <1>1, <1>2 DEF NodePos
<1>6. NodePos(h, 2 * j + 1) = MMRIndex(2 * j * 2^h) + 2 * 2^h - 1 + 2 * 2^h - 1
  BY <1>3 DEF NodePos
<1>7. NodePos(h, 2 * j) = MMRIndex(2 * j * 2^h) + 2 * 2^h - 1
  BY DEF NodePos
<1> QED BY <1>1, <1>4, <1>5, <1>6, <1>7

(* A left child is followed by the next leaf. *)
LEMMA NextLeafPos ==
  ASSUME NEW h \in Nat, NEW j \in Nat
  PROVE  /\ NodePos(0, (2 * j + 1) * 2^h) = NodePos(h, 2 * j) + 1
         /\ MMRIndex((2 * j + 1) * 2^h) = NodePos(h, 2 * j)
<1>1. 2^h \in Nat /\ 2^h > 0 /\ (2 * j + 1) * 2^h \in Nat
  BY PowType
<1>2. MMRIndex((2 * j + 1) * 2^h) = NodePos(h, 2 * j)
  BY MMRIndexRun DEF NodePos
<1>3. NodePos(0, (2 * j + 1) * 2^h) = MMRIndex((2 * j + 1) * 2^h) + 1
  <2>1. MMRIndex((2 * j + 1) * 2^h) \in Nat /\ (2 * j + 1) * 2^h * 1 = (2 * j + 1) * 2^h
    BY <1>1, MMRIndexBounds
  <2> QED BY <2>1, PowZero DEF NodePos
<1> QED BY <1>2, <1>3

(* The position of a leaf *)
LEMMA LeafPos ==
  ASSUME NEW n \in Nat
  PROVE  NodePos(0, n) = MMRIndex(n) + 1
<1>1. MMRIndex(n) \in Nat /\ n * 1 = n
  BY MMRIndexBounds
<1> QED BY <1>1, PowZero DEF NodePos

(* The height of a node follows from its position: every jump to the left  *)
(* takes off the perfect tree over the highest bit of the run, until the   *)
(* run is the first.                                                       *)
THEOREM HeightOfNode ==
  ASSUME NEW h \in Nat, NEW k \in Nat
  PROVE  PosHeight(NodePos(h, k)) = h
<1> DEFINE P(x) == PosHeight(NodePos(h, x)) = h
           T == {x \in Nat : ~ P(x)}
<1>0. 2^h \in Nat /\ 2^h > 0 /\ 2^(h + 1) = 2 * 2^h
  BY PowType, PowStep
<1>1. ASSUME T # {} PROVE FALSE
  <2>1. PICK x \in T : \A y \in T : x <= y
    BY <1>1, NatLeast
  <2>2. x \in Nat
    OBVIOUS
  <2>3. CASE x = 0
    <3>1. NodePos(h, x) = 2 * 2^h - 1 /\ NodePos(h, x) \in Nat
      <4>1. x * 2^h = 0
        BY <2>3, <1>0
      <4> QED BY <4>1, <1>0, MMRIndexBounds DEF NodePos
    <3>2. AllOnes(NodePos(h, x))
      BY <3>1, <1>0, AllOnesIs
    <3>3. BitLength(NodePos(h, x)) = h + 1
      <4>1. 2^h <= NodePos(h, x) /\ NodePos(h, x) < 2 * 2^h
        BY <3>1, <1>0
      <4> QED BY <4>1, <3>1, BitLengthIs
    <3>4. PosHeight(NodePos(h, x)) = BitLength(NodePos(h, x)) - 1
      BY <3>1, <3>2, PosHeightDef
    <3>5. P(x)
      BY <3>3, <3>4
    <3> QED BY <3>5
  <2>4. CASE x # 0
    <3> DEFINE n == x * 2^h
               p == NodePos(h, x)
    <3>1. n \in Nat /\ n # 0 /\ 2^h <= n
      BY <2>2, <2>4, <1>0
    <3>2. PICK b \in Nat : 2^b <= n /\ n < 2 * 2^b
      BY <3>1, PowBelow
    <3>3. 2^b \in Nat /\ 2^b > 0 /\ 2^(b + 1) = 2 * 2^b
          /\ 2^(b + 2) = 2 * 2^(b + 1)
      <4>1. 2^((b + 1) + 1) = 2 * 2^(b + 1) /\ (b + 1) + 1 = b + 2
        BY PowStep
      <4> QED BY <4>1, PowType, PowStep
    <3>4. h <= b
      <4>1. b < h => 2 * 2^b <= 2^h
        BY PowMono
      <4> QED BY <4>1, <3>1, <3>2, <3>3, <1>0
    <3> DEFINE y == x - 2^(b - h)
    <3>5. /\ y \in Nat /\ y < x
          /\ y * 2^h = n - 2^b
          /\ (x + 1) * 2^h <= 2 * 2^b
      BY <2>2, <3>2, <3>4, RunInRest
    <3> HIDE DEF y
    <3>6. P(y)
      <4>1. y \notin T
        <5> HIDE DEF T
        <5> QED BY <2>1, <2>2, <3>5
      <4> QED BY <4>1, <3>5
    <3>7. p = (2 * 2^b - 1) + NodePos(h, y)
      <4>1. MMRIndex(n) = 2 * 2^b - 1 + MMRIndex(n - 2^b)
        BY <3>1, <3>2, MMRIndexAt
      <4>2. MMRIndex(n - 2^b) \in Nat
        BY <3>1, <3>2, <3>3, MMRIndexBounds
      <4>3. p = MMRIndex(n) + 2 * 2^h - 1
        BY DEF NodePos
      <4>4. NodePos(h, y) = MMRIndex(n - 2^b) + 2 * 2^h - 1
        BY <3>5 DEF NodePos
      <4> QED BY <4>1, <4>2, <4>3, <4>4, <1>0, <3>3
    <3>8. NodePos(h, y) \in Nat /\ 0 < NodePos(h, y) /\ NodePos(h, y) < 2 * 2^b
      <4>1. (y + 1) * 2^h <= 2^b
        <5>1. (y + 1) * 2^h = (x + 1) * 2^h - 2^b
          BY <3>5, <1>0, <3>3, <2>2
        <5>2. (x + 1) * 2^h \in Nat
          BY <1>0, <2>2
        <5> QED BY <5>1, <5>2, <3>3, <3>5
      <4>2. (y + 1) * 2^h \in Nat
        BY <3>5, <1>0
      <4>3. /\ NodePos(h, y) \in Nat /\ NodePos(h, y) > 0
            /\ NodePos(h, y) <= 2 * ((y + 1) * 2^h) - 1
        BY <3>5, NodePosBounds
      <4> QED BY <4>1, <4>2, <4>3, <3>3
    <3> HIDE DEF p, n
    <3>9. p \in Nat /\ 2^(b + 1) <= p /\ p + 1 < 2 * 2^(b + 1)
      BY <3>3, <3>7, <3>8
    <3>10. BitLength(p) = b + 2
      <4>1. b + 1 \in Nat /\ (b + 1) + 1 = b + 2
        OBVIOUS
      <4> QED BY <4>1, <3>9, BitLengthIs
    <3>11. ~ AllOnes(p)
      <4>1. ASSUME NEW j \in Nat, p = 2^j - 1 PROVE FALSE
        <5>1. 2^j \in Nat /\ 2^j > 0 /\ 2^(b + 1) \in Nat
          BY PowType
        <5>2. 2^(b + 1) < 2^j /\ 2^j < 2^(b + 2)
          BY <4>1, <5>1, <3>3, <3>9
        <5>3. b + 1 < j /\ j < b + 2
          BY <5>2, PowMono
        <5> QED BY <5>3
      <4> QED BY <4>1, <3>9, AllOnesIs
    <3>12. JumpLeftPerfect(p) = NodePos(h, y)
      <4>1. (b + 2) - 1 = b + 1
        OBVIOUS
      <4> QED BY <4>1, <3>3, <3>7, <3>8, <3>10 DEF JumpLeftPerfect
    <3>13. PosHeight(p) = PosHeight(NodePos(h, y))
      BY <3>9, <3>11, <3>12, PosHeightDef
    <3>14. P(x)
      BY <3>6, <3>13 DEF p
    <3> QED BY <3>14
  <2> QED BY <2>3, <2>4
<1>2. P(k)
  BY <1>1
<1> QED BY <1>2

(* A number is even or odd: a left child or a right one. *)
LEMMA EvenOrOdd ==
  ASSUME NEW n \in Nat
  PROVE  \E j \in Nat : n = 2 * j \/ n = 2 * j + 1
<1>1. n \div 2 \in Nat /\ (n = 2 * (n \div 2) \/ n = 2 * (n \div 2) + 1)
  OBVIOUS
<1> QED BY <1>1

(* A number is an odd number of runs of 2^h leaves: h counts the parents   *)
(* that its last leaf completes.                                           *)
LEMMA OddRuns ==
  ASSUME NEW n \in Nat, n # 0
  PROVE  \E h, j \in Nat : n = (2 * j + 1) * 2^h
<1> DEFINE P(x) == \E h, j \in Nat : x = (2 * j + 1) * 2^h
           T == {x \in Nat : x # 0 /\ ~ P(x)}
<1>1. ASSUME T # {} PROVE FALSE
  <2>1. PICK x \in T : \A y \in T : x <= y
    BY <1>1, NatLeast
  <2>2. x \in Nat /\ x # 0
    OBVIOUS
  <2>3. PICK j \in Nat : x = 2 * j \/ x = 2 * j + 1
    BY <2>2, EvenOrOdd
  <2>4. CASE x = 2 * j + 1
    <3>1. x = (2 * j + 1) * 2^0
      BY <2>4, PowZero
    <3> QED BY <3>1
  <2>5. CASE x = 2 * j
    <3>1. j < x /\ j # 0
      BY <2>2, <2>5
    <3>2. P(j)
      <4>1. j \notin T
        <5> HIDE DEF T
        <5> QED BY <2>1, <2>2, <3>1
      <4> QED BY <4>1, <3>1
    <3>3. PICK h, m \in Nat : j = (2 * m + 1) * 2^h
      BY <3>2
    <3>4. 2^(h + 1) = 2 * 2^h /\ 2^h \in Nat
      BY PowStep, PowType
    <3>5. x = (2 * m + 1) * 2^(h + 1)
      BY <2>5, <3>3, <3>4
    <3> QED BY <3>5
  <2> QED BY <2>3, <2>4, <2>5
<1>2. P(n)
  BY <1>1
<1> QED BY <1>2

(* Every index and position belongs to a node. *)
LEMMA EveryPosition ==
  ASSUME NEW p \in Nat, p # 0
  PROVE  \E h, k \in Nat : p = NodePos(h, k)
<1> DEFINE P(x) == \E h, k \in Nat : x = NodePos(h, k)
           T == {x \in Nat : x # 0 /\ ~ P(x)}
<1>1. ASSUME T # {} PROVE FALSE
  <2>1. PICK x \in T : \A y \in T : x <= y
    BY <1>1, NatLeast
  <2>2. x \in Nat /\ x # 0
    OBVIOUS
  <2>3. CASE x = 1
    <3>1. NodePos(0, 0) = 1
      BY LeafPos, MMRIndexBounds
    <3> QED BY <2>3, <3>1
  <2>4. CASE x # 1
    <3>1. x - 1 \in Nat /\ x - 1 # 0 /\ x - 1 < x
      BY <2>2, <2>4
    <3>2. P(x - 1)
      <4>1. x - 1 \notin T
        <5> HIDE DEF T
        <5> QED BY <2>1, <2>2, <3>1
      <4> QED BY <4>1, <3>1
    <3>3. PICK h, k \in Nat : x - 1 = NodePos(h, k)
      BY <3>2
    <3>4. PICK j \in Nat : k = 2 * j \/ k = 2 * j + 1
      BY EvenOrOdd
    <3>5. CASE k = 2 * j + 1
      <4>1. NodePos(h + 1, j) = (x - 1) + 1
        BY <3>3, <3>5, ParentPos
      <4>2. x = NodePos(h + 1, j)
        BY <4>1, <2>2
      <4> QED BY <4>2
    <3>6. CASE k = 2 * j
      <4>1. NodePos(0, (2 * j + 1) * 2^h) = (x - 1) + 1
        BY <3>3, <3>6, NextLeafPos
      <4>2. x = NodePos(0, (2 * j + 1) * 2^h) /\ (2 * j + 1) * 2^h \in Nat
        BY <4>1, <2>2, PowType
      <4> QED BY <4>2
    <3> QED BY <3>4, <3>5, <3>6
  <2> QED BY <2>3, <2>4
<1>2. P(p)
  BY <1>1
<1> QED BY <1>2

(* The nodes over more leaves are more, by one for each leaf at least. *)
LEMMA MMRIndexMono ==
  ASSUME NEW a \in Nat, NEW b \in Nat, a <= b
  PROVE  MMRIndex(a) + (b - a) <= MMRIndex(b)
<1> DEFINE P(x) == \A y \in 0 .. x : MMRIndex(y) + (x - y) <= MMRIndex(x)
           T == {x \in Nat : ~ P(x)}
<1>1. ASSUME T # {} PROVE FALSE
  <2>1. PICK x \in T : \A y \in T : x <= y
    BY <1>1, NatLeast
  <2>2. x \in Nat
    OBVIOUS
  <2>3. ASSUME NEW y \in 0 .. x PROVE MMRIndex(y) + (x - y) <= MMRIndex(x)
    <3>1. y \in Nat /\ MMRIndex(y) \in Nat /\ MMRIndex(x) \in Nat
          /\ MMRIndex(y) <= 2 * y /\ x <= MMRIndex(x)
      BY <2>2, MMRIndexBounds
    <3>2. CASE x = 0
      BY <3>1, <3>2, MMRIndexBounds
    <3>3. CASE x # 0
      <4>1. PICK k \in Nat : 2^k <= x /\ x < 2 * 2^k
        BY <2>2, <3>3, PowBelow
      <4>2. 2^k \in Nat /\ 2^k > 0 /\ x - 2^k \in Nat /\ x - 2^k < x
        BY <2>2, <4>1, PowType
      <4>3. MMRIndex(x) = 2 * 2^k - 1 + MMRIndex(x - 2^k)
        BY <2>2, <4>1, MMRIndexAt
      <4>4. CASE y < 2^k
        <5>1. MMRIndex(x - 2^k) \in Nat /\ x - 2^k <= MMRIndex(x - 2^k)
          BY <4>2, MMRIndexBounds
        <5> QED BY <5>1, <4>2, <4>3, <4>4, <3>1, <2>2
      <4>5. CASE 2^k <= y
        <5>1. y < 2 * 2^k /\ y - 2^k \in 0 .. x - 2^k
          BY <4>1, <4>2, <4>5, <3>1, <2>2
        <5>2. MMRIndex(y) = 2 * 2^k - 1 + MMRIndex(y - 2^k)
          BY <5>1, <4>5, <3>1, MMRIndexAt
        <5>3. P(x - 2^k)
          <6>1. x - 2^k \notin T
            <7> HIDE DEF T
            <7> QED BY <2>1, <2>2, <4>2
          <6> QED BY <6>1, <4>2
        <5>4. MMRIndex(y - 2^k) + ((x - 2^k) - (y - 2^k)) <= MMRIndex(x - 2^k)
          BY <5>1, <5>3
        <5>5. MMRIndex(y - 2^k) \in Nat /\ MMRIndex(x - 2^k) \in Nat
          BY <5>1, <4>2, MMRIndexBounds
        <5> QED BY <5>2, <5>4, <5>5, <4>2, <4>3, <3>1, <2>2
      <4> QED BY <4>2, <4>4, <4>5, <3>1
    <3> QED BY <3>2, <3>3
  <2>4. P(x)
    BY <2>3
  <2> QED BY <2>4
<1>2. P(b)
  BY <1>1
<1> QED BY <1>2

(* No two nodes have one index. *)
LEMMA NodePosUnique ==
  ASSUME NEW g \in Nat, NEW i \in Nat, NEW h \in Nat, NEW k \in Nat,
         NodePos(g, i) = NodePos(h, k)
  PROVE  g = h /\ i = k
<1>1. g = h
  BY HeightOfNode
<1>2. 2^h \in Nat /\ 2^h > 0 /\ i * 2^h \in Nat /\ k * 2^h \in Nat
  BY PowType
<1>3. MMRIndex(i * 2^h) = MMRIndex(k * 2^h)
  <2>1. MMRIndex(i * 2^h) \in Nat /\ MMRIndex(k * 2^h) \in Nat
    BY <1>2, MMRIndexBounds
  <2> QED BY <1>1, <1>2, <2>1 DEF NodePos
<1>4. i * 2^h = k * 2^h
  <2>1. MMRIndex(i * 2^h) \in Nat /\ MMRIndex(k * 2^h) \in Nat
    BY <1>2, MMRIndexBounds
  <2>2. i * 2^h <= k * 2^h => MMRIndex(i * 2^h) + (k * 2^h - i * 2^h) <= MMRIndex(k * 2^h)
    BY <1>2, MMRIndexMono
  <2>3. k * 2^h <= i * 2^h => MMRIndex(k * 2^h) + (i * 2^h - k * 2^h) <= MMRIndex(i * 2^h)
    BY <1>2, MMRIndexMono
  <2> QED BY <1>2, <1>3, <2>1, <2>2, <2>3
<1>5. i = k
  <2>1. (i - k) * 2^h = 0
    BY <1>2, <1>4
  <2> QED BY <2>1, <1>2
<1> QED BY <1>1, <1>5

-----------------------------------------------------------------------------
(* Module MMRTree: the index of a node is its place in post order *)

(* A node is in the range if the leaves below it are. *)
LEMMA NodesIs ==
  ASSUME NEW n \in Nat
  PROVE  /\ Nodes(n) \subseteq Nat \X Nat
         /\ \A h, k \in Nat : <<h, k>> \in Nodes(n) <=> (k + 1) * 2^h <= n
         /\ IsFiniteSet(Nodes(n))
<1>0. BitLength(n) \in Nat
  BY BitLengthType
<1>1. Nodes(n) \subseteq Nat \X Nat
  BY <1>0 DEF Nodes
<1>2. ASSUME NEW h \in Nat, NEW k \in Nat, (k + 1) * 2^h <= n
      PROVE  h \in 0 .. BitLength(n) /\ k \in 0 .. n
  <2>1. 2^h \in Nat /\ 2^h > 0 /\ (k + 1) * 2^h = k * 2^h + 2^h /\ k * 2^h \in Nat
    BY PowType
  <2>2. 2^h <= n /\ n # 0
    BY <1>2, <2>1
  <2>3. PICK b \in Nat : BitLength(n) = b + 1 /\ 2^b <= n /\ n < 2 * 2^b
    BY <2>2, BitLengthBounds
  <2>4. 2^(b + 1) = 2 * 2^b /\ 2^b \in Nat
    BY PowStep, PowType
  <2>5. h < b + 1
    <3>1. 2^h < 2^(b + 1)
      BY <2>1, <2>2, <2>3, <2>4
    <3> QED BY <3>1, PowMono
  <2>6. k <= k * 2^h
    BY <2>1
  <2> QED BY <1>2, <2>1, <2>3, <2>5, <2>6
<1>3. \A h, k \in Nat : <<h, k>> \in Nodes(n) <=> (k + 1) * 2^h <= n
  BY <1>2 DEF Nodes
<1>4. IsFiniteSet(Nodes(n))
  <2>1. IsFiniteSet(0 .. BitLength(n)) /\ IsFiniteSet(0 .. n)
    BY <1>0, FS_Interval
  <2>2. IsFiniteSet((0 .. BitLength(n)) \X (0 .. n))
    BY <2>1, FS_Product
  <2>3. Nodes(n) \subseteq (0 .. BitLength(n)) \X (0 .. n)
    BY DEF Nodes
  <2> QED BY <2>2, <2>3, FS_Subset
<1> QED BY <1>1, <1>3, <1>4

(* A run that ends with an odd number of runs of 2^g is not longer. *)
LEMMA RunOfOdd ==
  ASSUME NEW h \in Nat, NEW k \in Nat, NEW g \in Nat, NEW j \in Nat,
         (k + 1) * 2^h = (2 * j + 1) * 2^g
  PROVE  h <= g
<1>1. ASSUME g < h PROVE FALSE
  <2>1. g + 1 \in Nat /\ g + 1 <= h /\ 2^(g + 1) = 2 * 2^g
    BY <1>1, PowStep
  <2> DEFINE c == 2^(h - (g + 1))
  <2>2. c \in Nat /\ 2^h = 2 * 2^g * c /\ 2^g \in Nat /\ 2^g > 0
    BY <2>1, PowSplit, PowType
  <2> HIDE DEF c
  <2>3. (2 * ((k + 1) * c)) * 2^g = (2 * j + 1) * 2^g
    <3>1. ASSUME NEW x \in Nat, NEW y \in Nat, NEW z \in Nat
          PROVE  x * (2 * y * z) = (2 * (x * z)) * y
      OBVIOUS
    <3>2. (k + 1) * (2 * 2^g * c) = (2 * ((k + 1) * c)) * 2^g
      BY <2>2, <3>1
    <3> QED BY <2>2, <3>2
  <2>4. (k + 1) * c \in Nat
    BY <2>2
  <2>5. ASSUME NEW x \in Nat, NEW y \in Nat, NEW z \in Nat, z > 0, x * z = y * z
        PROVE  x = y
    <3>1. (x - y) * z = 0
      BY <2>5
    <3> QED BY <3>1, <2>5
  <2>6. 2 * ((k + 1) * c) = 2 * j + 1
    BY <2>2, <2>3, <2>4, <2>5
  <2> QED BY <2>4, <2>6
<1> QED BY <1>1

(* The nodes that are listed before <<h, k>> *)
NodesBefore(h, k) == {x \in Nodes(LastLeaf(<<h, k>>) + 1) : PostOrder(x, <<h, k>>)}

(* Membership, in terms of the leaves a node is over. *)
LEMMA NodesBeforeIs ==
  ASSUME NEW h \in Nat, NEW k \in Nat
  PROVE  /\ NodesBefore(h, k) \subseteq Nat \X Nat
         /\ \A g, i \in Nat : <<g, i>> \in NodesBefore(h, k) <=>
              \/ (i + 1) * 2^g < (k + 1) * 2^h
              \/ (i + 1) * 2^g = (k + 1) * 2^h /\ g < h
         /\ IsFiniteSet(NodesBefore(h, k))
         /\ IndexOf(<<h, k>>) = Cardinality(NodesBefore(h, k))
<1>1. (k + 1) * 2^h \in Nat /\ LastLeaf(<<h, k>>) + 1 = (k + 1) * 2^h
  BY NodePosBounds DEF LastLeaf
<1>2. /\ Nodes((k + 1) * 2^h) \subseteq Nat \X Nat
      /\ \A g, i \in Nat : <<g, i>> \in Nodes((k + 1) * 2^h) <=>
           (i + 1) * 2^g <= (k + 1) * 2^h
      /\ IsFiniteSet(Nodes((k + 1) * 2^h))
  BY <1>1, NodesIs
<1>3. NodesBefore(h, k) \subseteq Nodes((k + 1) * 2^h)
  BY <1>1 DEF NodesBefore
<1>4. ASSUME NEW g \in Nat, NEW i \in Nat
      PROVE  <<g, i>> \in NodesBefore(h, k) <=>
              \/ (i + 1) * 2^g < (k + 1) * 2^h
              \/ (i + 1) * 2^g = (k + 1) * 2^h /\ g < h
  <2>1. (i + 1) * 2^g \in Nat
    BY NodePosBounds
  <2>2. PostOrder(<<g, i>>, <<h, k>>) <=>
              \/ (i + 1) * 2^g < (k + 1) * 2^h
              \/ (i + 1) * 2^g = (k + 1) * 2^h /\ g < h
    BY <1>1, <2>1 DEF PostOrder, LastLeaf
  <2>3. <<g, i>> \in NodesBefore(h, k) <=>
          (i + 1) * 2^g <= (k + 1) * 2^h /\ PostOrder(<<g, i>>, <<h, k>>)
    BY <1>1, <1>2 DEF NodesBefore
  <2> QED BY <1>1, <2>1, <2>2, <2>3
<1>5. IsFiniteSet(NodesBefore(h, k))
  BY <1>2, <1>3, FS_Subset
<1> QED BY <1>2, <1>3, <1>4, <1>5 DEF IndexOf, NodesBefore

(* A parent is listed right after its right child. *)
LEMMA BeforeParent ==
  ASSUME NEW h \in Nat, NEW k \in Nat
  PROVE  /\ NodesBefore(h + 1, k) = NodesBefore(h, 2 * k + 1) \cup {<<h, 2 * k + 1>>}
         /\ <<h, 2 * k + 1>> \notin NodesBefore(h, 2 * k + 1)
<1> DEFINE n == (k + 1) * 2^(h + 1)
<1>0. h + 1 \in Nat /\ 2 * k + 1 \in Nat
  OBVIOUS
<1>1. 2^h \in Nat /\ 2^h > 0 /\ n = ((2 * k + 1) + 1) * 2^h /\ n \in Nat
  BY PowType, PowStep
<1>2. ASSUME NEW g \in Nat, NEW i \in Nat
      PROVE  /\ <<g, i>> \in NodesBefore(h + 1, k) <=>
                  (i + 1) * 2^g < n \/ ((i + 1) * 2^g = n /\ g < h + 1)
             /\ <<g, i>> \in NodesBefore(h, 2 * k + 1) <=>
                  (i + 1) * 2^g < n \/ ((i + 1) * 2^g = n /\ g < h)
  <2>1. <<g, i>> \in NodesBefore(h + 1, k) <=>
          (i + 1) * 2^g < n \/ ((i + 1) * 2^g = n /\ g < h + 1)
    BY <1>0, NodesBeforeIs
  <2>2. <<g, i>> \in NodesBefore(h, 2 * k + 1) <=>
          \/ (i + 1) * 2^g < ((2 * k + 1) + 1) * 2^h
          \/ (i + 1) * 2^g = ((2 * k + 1) + 1) * 2^h /\ g < h
    BY <1>0, NodesBeforeIs
  <2> HIDE DEF n
  <2> QED BY <1>1, <2>1, <2>2
<1>3. ASSUME NEW i \in Nat PROVE (i + 1) * 2^h = n <=> i = 2 * k + 1
  <2>1. ASSUME NEW x \in Nat, NEW y \in Nat, NEW z \in Nat, z > 0, x * z = y * z
        PROVE  x = y
    <3>1. (x - y) * z = 0
      BY <2>1
    <3> QED BY <3>1, <2>1
  <2>2. (i + 1) * 2^h = n => i + 1 = (2 * k + 1) + 1
    BY <1>1, <2>1
  <2> QED BY <1>1, <2>2
<1> HIDE DEF n
<1>4. ASSUME NEW g \in Nat, NEW i \in Nat
      PROVE  <<g, i>> \in NodesBefore(h + 1, k) <=>
               <<g, i>> \in NodesBefore(h, 2 * k + 1) \/ (g = h /\ i = 2 * k + 1)
  <2>1. g < h + 1 <=> g < h \/ g = h
    OBVIOUS
  <2> QED BY <1>2, <1>3, <2>1
<1>5. NodesBefore(h + 1, k) \subseteq Nat \X Nat
      /\ NodesBefore(h, 2 * k + 1) \subseteq Nat \X Nat
  BY <1>0, NodesBeforeIs
<1>6. <<h, 2 * k + 1>> \notin NodesBefore(h, 2 * k + 1)
  BY <1>2, <1>3
<1> QED BY <1>4, <1>5, <1>6

(* A leaf is listed right after the last node of the leaves before it.     *)
LEMMA BeforeLeaf ==
  ASSUME NEW h \in Nat, NEW j \in Nat
  PROVE  /\ NodesBefore(0, (2 * j + 1) * 2^h) = NodesBefore(h, 2 * j) \cup {<<h, 2 * j>>}
         /\ <<h, 2 * j>> \notin NodesBefore(h, 2 * j)
<1> DEFINE n == (2 * j + 1) * 2^h
<1>0. 2 * j \in Nat /\ 0 \in Nat
  OBVIOUS
<1>1. 2^h \in Nat /\ 2^h > 0 /\ n \in Nat /\ (n + 1) * 2^0 = n + 1
  BY PowType, PowZero
<1>2. ASSUME NEW g \in Nat, NEW i \in Nat
      PROVE  /\ <<g, i>> \in NodesBefore(0, n) <=>
                  (i + 1) * 2^g < n + 1 \/ ((i + 1) * 2^g = n + 1 /\ g < 0)
             /\ <<g, i>> \in NodesBefore(h, 2 * j) <=>
                  (i + 1) * 2^g < n \/ ((i + 1) * 2^g = n /\ g < h)
             /\ (i + 1) * 2^g \in Nat
  <2>1. <<g, i>> \in NodesBefore(h, 2 * j) <=>
          (i + 1) * 2^g < n \/ ((i + 1) * 2^g = n /\ g < h)
    BY <1>0, NodesBeforeIs
  <2> HIDE DEF n
  <2>2. <<g, i>> \in NodesBefore(0, n) <=>
          (i + 1) * 2^g < (n + 1) * 2^0 \/ ((i + 1) * 2^g = (n + 1) * 2^0 /\ g < 0)
    BY <1>0, <1>1, NodesBeforeIs
  <2> QED BY <1>1, <2>1, <2>2, NodePosBounds
<1>3. ASSUME NEW g \in Nat, NEW i \in Nat, (i + 1) * 2^g = n
      PROVE  g <= h /\ (g = h <=> g = h /\ i = 2 * j)
  <2>1. ASSUME NEW x \in Nat, NEW y \in Nat, NEW z \in Nat, z > 0, x * z = y * z
        PROVE  x = y
    <3>1. (x - y) * z = 0
      BY <2>1
    <3> QED BY <3>1, <2>1
  <2>2. g = h => i + 1 = 2 * j + 1
    BY <1>1, <1>3, <2>1
  <2>3. g <= h
    BY <1>3, RunOfOdd
  <2> QED BY <2>2, <2>3
<1>4. (2 * j + 1) * 2^h = n
  OBVIOUS
<1> HIDE DEF n
<1>5. ASSUME NEW g \in Nat, NEW i \in Nat
      PROVE  <<g, i>> \in NodesBefore(0, n) <=>
               <<g, i>> \in NodesBefore(h, 2 * j) \/ (g = h /\ i = 2 * j)
  <2>1. (i + 1) * 2^g < n + 1 <=> (i + 1) * 2^g < n \/ (i + 1) * 2^g = n
    BY <1>1, <1>2
  <2>2. ~ (g < 0) /\ (g <= h <=> g < h \/ g = h)
    OBVIOUS
  <2> QED BY <1>2, <1>3, <1>4, <2>1, <2>2
<1>6. NodesBefore(0, n) \subseteq Nat \X Nat
      /\ NodesBefore(h, 2 * j) \subseteq Nat \X Nat
  BY <1>0, <1>1, NodesBeforeIs
<1>7. <<h, 2 * j>> \notin NodesBefore(h, 2 * j)
  BY <1>1, <1>2, <1>4
<1>8. NodesBefore(0, n) = NodesBefore(h, 2 * j) \cup {<<h, 2 * j>>}
  BY <1>5, <1>6
<1> QED BY <1>7, <1>8 DEF n

(* The index of a node in module MMR's arithmetic is the number of nodes   *)
(* that are listed before it: the code's numbering is post order.          *)
THEOREM IndexOfNode ==
  ASSUME NEW h \in Nat, NEW k \in Nat
  PROVE  IndexOf(<<h, k>>) = NodePos(h, k) - 1
<1> DEFINE P(x) == \A g, i \in Nat :
                     NodePos(g, i) = x => Cardinality(NodesBefore(g, i)) = x - 1
           T == {x \in Nat : ~ P(x)}
<1>1. ASSUME T # {} PROVE FALSE
  <2>1. PICK x \in T : \A y \in T : x <= y
    BY <1>1, NatLeast
  <2>2. x \in Nat
    OBVIOUS
  <2>3. ASSUME NEW g \in Nat, NEW i \in Nat, NodePos(g, i) = x
        PROVE  Cardinality(NodesBefore(g, i)) = x - 1
    <3>0. x > 0
      BY <2>3, NodePosBounds
    <3>1. ASSUME NEW f \in Nat, NEW l \in Nat, NodePos(f, l) = x - 1,
                 NodesBefore(g, i) = NodesBefore(f, l) \cup {<<f, l>>},
                 <<f, l>> \notin NodesBefore(f, l)
          PROVE  Cardinality(NodesBefore(g, i)) = x - 1
      <4>1. x - 1 \in Nat /\ x - 1 < x
        BY <2>2, <3>0
      <4>2. P(x - 1)
        <5>1. x - 1 \notin T
          <6> HIDE DEF T
          <6> QED BY <2>1, <2>2, <4>1
        <5> QED BY <5>1, <4>1
      <4>3. Cardinality(NodesBefore(f, l)) = (x - 1) - 1
        BY <4>2, <3>1
      <4>4. IsFiniteSet(NodesBefore(f, l))
        BY NodesBeforeIs
      <4>5. Cardinality(NodesBefore(g, i)) = Cardinality(NodesBefore(f, l)) + 1
        BY <3>1, <4>4, FS_AddElement
      <4> QED BY <4>3, <4>5, <2>2
    <3>2. CASE g # 0
      <4>1. g - 1 \in Nat /\ (g - 1) + 1 = g /\ 2 * i + 1 \in Nat
        BY <3>2
      <4>2. NodePos(g, i) = NodePos(g - 1, 2 * i + 1) + 1
        BY <4>1, ParentPos
      <4>3. NodePos(g - 1, 2 * i + 1) = x - 1
        <5>1. NodePos(g - 1, 2 * i + 1) \in Nat
          BY <4>1, NodePosBounds
        <5> QED BY <4>2, <5>1, <2>3
      <4>4. /\ NodesBefore(g, i) = NodesBefore(g - 1, 2 * i + 1) \cup {<<g - 1, 2 * i + 1>>}
            /\ <<g - 1, 2 * i + 1>> \notin NodesBefore(g - 1, 2 * i + 1)
        BY <4>1, BeforeParent
      <4> QED BY <3>1, <4>1, <4>3, <4>4
    <3>3. CASE g = 0 /\ i # 0
      <4>1. PICK f, j \in Nat : i = (2 * j + 1) * 2^f
        BY <3>3, OddRuns
      <4>2. NodePos(0, i) = NodePos(f, 2 * j) + 1
        BY <4>1, NextLeafPos
      <4>3. NodePos(f, 2 * j) = x - 1
        <5>0. 2 * j \in Nat
          OBVIOUS
        <5>1. NodePos(f, 2 * j) \in Nat
          BY <5>0, NodePosBounds
        <5> QED BY <4>2, <5>1, <3>3, <2>3
      <4>4. /\ NodesBefore(g, i) = NodesBefore(f, 2 * j) \cup {<<f, 2 * j>>}
            /\ <<f, 2 * j>> \notin NodesBefore(f, 2 * j)
        BY <3>3, <4>1, BeforeLeaf
      <4> QED BY <3>1, <4>3, <4>4
    <3>4. CASE g = 0 /\ i = 0
      <4>1. x = 1
        BY <3>4, <2>3, LeafPos, MMRIndexBounds
      <4>2. NodesBefore(0, 0) = {}
        <5>1. NodesBefore(0, 0) \subseteq Nat \X Nat
          BY NodesBeforeIs
        <5>2. ASSUME NEW f \in Nat, NEW l \in Nat PROVE <<f, l>> \notin NodesBefore(0, 0)
          <6>1. 2^f \in Nat /\ 2^f > 0
            BY PowType
          <6>2. (l + 1) * 2^f >= 1
            BY <6>1
          <6>3. (0 + 1) * 2^0 = 1 /\ ~ (f < 0) /\ 0 \in Nat
            BY PowZero
          <6>4. <<f, l>> \in NodesBefore(0, 0) =>
                  \/ (l + 1) * 2^f < (0 + 1) * 2^0
                  \/ (l + 1) * 2^f = (0 + 1) * 2^0 /\ f < 0
            BY <6>3, NodesBeforeIs
          <6> QED BY <6>1, <6>2, <6>3, <6>4
        <5> QED BY <5>1, <5>2
      <4> QED BY <4>1, <4>2, <3>4, FS_EmptySet
    <3> QED BY <3>2, <3>3, <3>4
  <2>4. P(x)
    BY <2>3
  <2> QED BY <2>4
<1>2. NodePos(h, k) \in Nat
  BY NodePosBounds
<1>3. Cardinality(NodesBefore(h, k)) = NodePos(h, k) - 1
  BY <1>1, <1>2
<1> QED BY <1>3, NodesBeforeIs

(* The nodes over n leaves are as many as MMRIndex says. *)
THEOREM NodesCount ==
  ASSUME NEW n \in Nat
  PROVE  Cardinality(Nodes(n)) = MMRIndex(n)
<1>1. NodesBefore(0, n) = Nodes(n)
  <2>1. (n + 1) * 2^0 = n + 1
    BY PowZero
  <2>2. ASSUME NEW g \in Nat, NEW i \in Nat
        PROVE  <<g, i>> \in NodesBefore(0, n) <=> <<g, i>> \in Nodes(n)
    <3>1. (i + 1) * 2^g \in Nat /\ ~ (g < 0)
      BY NodePosBounds
    <3>2. <<g, i>> \in NodesBefore(0, n) <=> (i + 1) * 2^g < n + 1
      <4>1. <<g, i>> \in NodesBefore(0, n) <=>
              \/ (i + 1) * 2^g < (n + 1) * 2^0
              \/ (i + 1) * 2^g = (n + 1) * 2^0 /\ g < 0
        <5>1. 0 \in Nat
          OBVIOUS
        <5> QED BY <5>1, NodesBeforeIs
      <4> QED BY <4>1, <2>1, <3>1
    <3>3. <<g, i>> \in Nodes(n) <=> (i + 1) * 2^g <= n
      BY NodesIs
    <3> QED BY <3>1, <3>2, <3>3
  <2>3. NodesBefore(0, n) \subseteq Nat \X Nat /\ Nodes(n) \subseteq Nat \X Nat
    BY NodesBeforeIs, NodesIs
  <2> QED BY <2>2, <2>3
<1>2. IndexOf(<<0, n>>) = NodePos(0, n) - 1 /\ NodePos(0, n) = MMRIndex(n) + 1
  BY IndexOfNode, LeafPos
<1>3. IndexOf(<<0, n>>) = Cardinality(Nodes(n))
  BY <1>1, NodesBeforeIs
<1> QED BY <1>2, <1>3, MMRIndexBounds

(* What comes after a node: its parent if it is a right child, else a leaf *)
LEMMA HeightAfter ==
  ASSUME NEW h \in Nat, NEW j \in Nat
  PROVE  /\ PosHeight(NodePos(h, 2 * j + 1) + 1) = h + 1
         /\ PosHeight(NodePos(h, 2 * j) + 1) = 0
<1>1. h + 1 \in Nat /\ PosHeight(NodePos(h + 1, j)) = h + 1
  <2>1. h + 1 \in Nat
    OBVIOUS
  <2> QED BY <2>1, HeightOfNode
<1>2. (2 * j + 1) * 2^h \in Nat /\ PosHeight(NodePos(0, (2 * j + 1) * 2^h)) = 0
  <2>1. (2 * j + 1) * 2^h \in Nat /\ 0 \in Nat
    BY PowType
  <2> QED BY <2>1, HeightOfNode
<1> QED BY <1>1, <1>2, ParentPos, NextLeafPos

-----------------------------------------------------------------------------
(* peaks.go: the list of peaks *)

(* How many nodes the first of the peaks left has under it *)
FirstPeak(size) == TopPeak(size - 1) + 1

(* The first of the peaks is over the largest perfect tree that fits. *)
LEMMA FirstPeakIs ==
  ASSUME NEW size \in Nat, size # 0
  PROVE  /\ FirstPeak(size) \in Nat /\ FirstPeak(size) > 0
         /\ size - FirstPeak(size) \in Nat /\ size - FirstPeak(size) < size
<1>1. PICK k \in Nat : BitLength(size + 1) = k + 1 /\ 2^k <= size + 1 /\ size + 1 < 2 * 2^k
  <2>1. size + 1 \in Nat /\ size + 1 # 0
    OBVIOUS
  <2> QED BY <2>1, BitLengthBounds
<1>2. FirstPeak(size) = 2^k - 1
  <2>1. size - 1 + 2 = size + 1 /\ BitLength(size + 1) - 1 = k /\ 2^k \in Nat
    BY <1>1, PowType
  <2> QED BY <2>1 DEF FirstPeak, TopPeak
<1>3. k # 0
  <2>1. k = 0 => 2^k = 1
    BY PowZero
  <2> QED BY <1>1, <2>1
<1>4. PICK j \in Nat : k = j + 1
  <2>1. k - 1 \in Nat /\ k = (k - 1) + 1
    BY <1>3
  <2> QED BY <2>1
<1>5. 2^k = 2 * 2^j /\ 2^j \in Nat /\ 2^j > 0
  BY <1>4, PowStep, PowType
<1> QED BY <1>1, <1>2, <1>5

(* The loop of Peaks: the first peak, and those of what is left. *)
LEMMA PeaksAfterDef ==
  ASSUME NEW peak \in Nat, NEW size \in Nat
  PROVE  /\ peaksAfter[<<peak, size>>] \in Seq(Nat)
         /\ peaksAfter[<<peak, size>>] =
              IF size = 0 THEN << >>
              ELSE <<peak + FirstPeak(size) - 1>>
                     \o peaksAfter[<<peak + FirstPeak(size), size - FirstPeak(size)>>]
<1> DEFINE S == Nat \X Nat
           V == Seq(Nat)
           B(f, x) == IF x[2] = 0 THEN << >>
                      ELSE <<x[1] + FirstPeak(x[2]) - 1>>
                             \o f[<<x[1] + FirstPeak(x[2]), x[2] - FirstPeak(x[2])>>]
           D == [p \in [S -> V] \X S |-> B(p[1], p[2])]
           m == [x \in S |-> x[2]]
<1>0. \A x \in S : x[2] # 0 =>
        /\ x[1] + FirstPeak(x[2]) - 1 \in Nat
        /\ <<x[1] + FirstPeak(x[2]), x[2] - FirstPeak(x[2])>> \in S
        /\ m[<<x[1] + FirstPeak(x[2]), x[2] - FirstPeak(x[2])>>] < m[x]
  BY FirstPeakIs
<1>1. \A f \in [S -> V], x \in S : B(f, x) \in V /\ D[<<f, x>>] = B(f, x)
  <2>1. ASSUME NEW f \in [S -> V], NEW x \in S, x[2] # 0 PROVE B(f, x) \in V
    <3>1. f[<<x[1] + FirstPeak(x[2]), x[2] - FirstPeak(x[2])>>] \in V
      BY <1>0, <2>1
    <3>2. <<x[1] + FirstPeak(x[2]) - 1>> \in V
      <4>1. x[1] + FirstPeak(x[2]) - 1 \in Nat
        BY <1>0, <2>1
      <4>2. \A n \in Nat : <<n>> \in Seq(Nat)
        OBVIOUS
      <4> QED BY <4>1, <4>2
    <3> QED BY <3>1, <3>2, <2>1
  <2>2. ASSUME NEW f \in [S -> V], NEW x \in S, x[2] = 0 PROVE B(f, x) \in V
    <3>1. << >> \in V
      OBVIOUS
    <3>2. B(f, x) = << >>
      BY <2>2
    <3> QED BY <3>1, <3>2
  <2>3. \A f \in [S -> V], x \in S : B(f, x) \in V
    <3> HIDE DEF B, S, V
    <3> QED BY <2>1, <2>2
  <2> HIDE DEF B, S, V
  <2> QED BY <2>3
<1>2. D \in [[S -> V] \X S -> V]
  <2> HIDE DEF B, S, V
  <2> QED BY <1>1
<1>3. ASSUME NEW f \in [S -> V], NEW g \in [S -> V], NEW x \in S,
             \A y \in S : m[y] < m[x] => f[y] = g[y]
      PROVE  D[<<f, x>>] = D[<<g, x>>]
  <2>1. B(f, x) = B(g, x)
    BY <1>0, <1>3
  <2> HIDE DEF B, S, V
  <2> QED BY <1>1, <2>1
<1>4. \E f \in [S -> V] : \A x \in S : f[x] = D[<<f, x>>]
  <2>1. V # {} /\ m \in [S -> Nat]
    <3>1. << >> \in V
      OBVIOUS
    <3> QED BY <3>1
  <2> HIDE DEF D, S, V, m
  <2>2. LooksBelow(S, V, m, D)
    BY <2>1, <1>2, <1>3 DEF LooksBelow
  <2> QED BY <2>2, Recursion
<1>5. PICK F \in [S -> V] : F = [x \in S |-> B(F, x)]
  <2>1. PICK f \in [S -> V] : \A x \in S : f[x] = D[<<f, x>>]
    BY <1>4
  <2>2. \A x \in S : f[x] = B(f, x)
    <3> HIDE DEF B, D, S, V
    <3> QED BY <1>1, <2>1
  <2> HIDE DEF B, S, V
  <2> QED BY <2>2
<1>6. peaksAfter = [x \in S |-> B(peaksAfter, x)]
  BY <1>5 DEF peaksAfter, FirstPeak
<1>7. \A x \in S : peaksAfter[x] = B(peaksAfter, x)
  <2> HIDE DEF B
  <2> QED BY <1>6
<1> DEFINE P(n) == \A p \in Nat : peaksAfter[<<p, n>>] \in Seq(Nat)
           T == {n \in Nat : ~ P(n)}
<1>8. T = {}
  <2> SUFFICES ASSUME T # {} PROVE FALSE
    OBVIOUS
  <2>1. PICK n \in T : \A y \in T : n <= y
    <3>1. T \in SUBSET Nat
      OBVIOUS
    <3> HIDE DEF T
    <3> QED BY <3>1, NatLeast
  <2>2. n \in Nat /\ ~ P(n) /\ \A y \in Nat : y < n => P(y)
    BY <2>1
  <2>3. ASSUME NEW p \in Nat PROVE peaksAfter[<<p, n>>] \in Seq(Nat)
    <3> DEFINE c == FirstPeak(n)
    <3>1. <<p, n>> \in S
      BY <2>2
    <3>2. peaksAfter[<<p, n>>] = IF n = 0 THEN << >> ELSE <<p + c - 1>> \o peaksAfter[<<p + c, n - c>>]
      BY <1>7, <3>1
    <3>3. CASE n = 0
      BY <3>2, <3>3
    <3>4. CASE n # 0
      <4>1. c \in Nat /\ c > 0 /\ n - c \in Nat /\ n - c < n
        BY <2>2, <3>4, FirstPeakIs
      <4> HIDE DEF c
      <4>2. peaksAfter[<<p + c, n - c>>] \in Seq(Nat) /\ p + c - 1 \in Nat
        BY <2>2, <4>1
      <4> QED BY <3>2, <3>4, <4>2
    <3> QED BY <3>3, <3>4
  <2> QED BY <2>2, <2>3
<1>9. P(size)
  <2> HIDE DEF P
  <2> QED BY <1>8
<1>10. <<peak, size>> \in S
  OBVIOUS
<1> QED BY <1>7, <1>9, <1>10

(* The perfect tree over the first 2^k leaves is the first peak. *)
LEMMA FirstPeakAt ==
  ASSUME NEW size \in Nat, NEW k \in Nat, 2 * 2^k - 1 <= size, size + 1 < 4 * 2^k
  PROVE  FirstPeak(size) = 2 * 2^k - 1
<1>1. k + 1 \in Nat /\ 2^(k + 1) = 2 * 2^k /\ 2^k \in Nat /\ 2^k > 0
  BY PowStep, PowType
<1>2. 2^(k + 1) <= size + 1 /\ size + 1 < 2 * 2^(k + 1) /\ size + 1 \in Nat
  BY <1>1
<1>3. BitLength(size + 1) = k + 1 + 1
  BY <1>1, <1>2, BitLengthIs
<1>4. size - 1 + 2 = size + 1 /\ BitLength(size + 1) - 1 = k + 1
  BY <1>3
<1> QED BY <1>1, <1>4 DEF FirstPeak, TopPeak

(* The node over the l-th run of 2^h leaves has no parent among n leaves. *)
PeakOver(n, h, l) ==
  /\ (l + 1) * 2^h <= n /\ n < (l + 2) * 2^h
  /\ \E j \in Nat : l = 2 * j

(* q lists the peaks over the leaves from the a-th up to the n-th, from    *)
(* left to right.                                                          *)
ListsPeaks(q, a, n) ==
  /\ q \in Seq(Nat)
  /\ \A j \in 1 .. Len(q) : \E h, l \in Nat :
       q[j] = NodePos(h, l) - 1 /\ a <= l * 2^h /\ PeakOver(n, h, l)
  /\ \A x \in Nat : a <= x /\ x < n =>
       \E j \in 1 .. Len(q) : \E h, l \in Nat :
         q[j] = NodePos(h, l) - 1 /\ l * 2^h <= x /\ x < (l + 1) * 2^h
  /\ \A j, k \in 1 .. Len(q) : j < k => q[j] < q[k]

(* One more peak in front of a list of peaks *)
LEMMA ListsPeaksCons ==
  ASSUME NEW h \in Nat, NEW j \in Nat, NEW n \in Nat, NEW rest,
         PeakOver(n, h, 2 * j), ListsPeaks(rest, (2 * j + 1) * 2^h, n)
  PROVE  ListsPeaks(<<NodePos(h, 2 * j) - 1>> \o rest, 2 * j * 2^h, n)
<1> DEFINE e == NodePos(h, 2 * j) - 1
           q == <<e>> \o rest
           a == 2 * j * 2^h
           b == (2 * j + 1) * 2^h
<1>0. 2 * j \in Nat /\ 2^h \in Nat /\ 2^h > 0 /\ e \in Nat
  <2>1. 2 * j \in Nat
    OBVIOUS
  <2>2. NodePos(h, 2 * j) \in Nat /\ NodePos(h, 2 * j) > 0
    BY <2>1, NodePosBounds
  <2>3. 2^h \in Nat /\ 2^h > 0
    BY PowType
  <2> QED BY <2>1, <2>2, <2>3
<1>1. a \in Nat /\ b \in Nat /\ b = a + 2^h
  <2>1. ASSUME NEW x \in Nat
        PROVE  2 * j * x \in Nat /\ (2 * j + 1) * x \in Nat /\ (2 * j + 1) * x = 2 * j * x + x
    OBVIOUS
  <2> QED BY <2>1, <1>0
<1>2. rest \in Seq(Nat)
  BY DEF ListsPeaks
<1>3. /\ q \in Seq(Nat) /\ Len(q) = Len(rest) + 1 /\ q[1] = e
      /\ \A k \in 1 .. Len(q) : k # 1 => k - 1 \in 1 .. Len(rest) /\ q[k] = rest[k - 1]
      /\ \A k \in 1 .. Len(rest) : k + 1 \in 1 .. Len(q) /\ q[k + 1] = rest[k]
  <2> HIDE DEF e
  <2> QED BY <1>0, <1>2
<1>4. ASSUME NEW k \in 1 .. Len(q)
      PROVE  \E g, l \in Nat : q[k] = NodePos(g, l) - 1 /\ a <= l * 2^g /\ PeakOver(n, g, l)
  <2>1. CASE k = 1
    <3>1. q[k] = NodePos(h, 2 * j) - 1 /\ a <= 2 * j * 2^h /\ PeakOver(n, h, 2 * j)
      BY <1>1, <1>3, <2>1
    <3> QED BY <3>1, <1>0
  <2>2. CASE k # 1
    <3>1. k - 1 \in 1 .. Len(rest) /\ q[k] = rest[k - 1]
      BY <1>3, <2>2
    <3>2. PICK g, l \in Nat : /\ rest[k - 1] = NodePos(g, l) - 1
                              /\ b <= l * 2^g /\ PeakOver(n, g, l)
      BY <3>1 DEF ListsPeaks
    <3>3. l * 2^g \in Nat
      <4>1. 2^g \in Nat
        BY PowType
      <4> QED BY <4>1
    <3>4. a <= l * 2^g
      BY <1>0, <1>1, <3>2, <3>3
    <3> HIDE DEF q, a
    <3> QED BY <3>1, <3>2, <3>4
  <2> QED BY <2>1, <2>2
<1>5. ASSUME NEW x \in Nat, a <= x, x < n
      PROVE  \E k \in 1 .. Len(q) : \E g, l \in Nat :
               q[k] = NodePos(g, l) - 1 /\ l * 2^g <= x /\ x < (l + 1) * 2^g
  <2>1. CASE x < b
    <3>1. 1 \in 1 .. Len(q)
      BY <1>2, <1>3
    <3>2. q[1] = NodePos(h, 2 * j) - 1 /\ 2 * j * 2^h <= x /\ x < (2 * j + 1) * 2^h
      BY <1>3, <1>5, <2>1
    <3> HIDE DEF q
    <3> QED BY <3>1, <3>2, <1>0
  <2>2. CASE ~ (x < b)
    <3>1. b <= x
      BY <1>1, <2>2
    <3>2. PICK k \in 1 .. Len(rest) : \E g, l \in Nat :
            rest[k] = NodePos(g, l) - 1 /\ l * 2^g <= x /\ x < (l + 1) * 2^g
      BY <1>5, <3>1 DEF ListsPeaks
    <3>3. k + 1 \in 1 .. Len(q) /\ q[k + 1] = rest[k]
      BY <1>3
    <3> HIDE DEF q
    <3> QED BY <3>2, <3>3
  <2> QED BY <2>1, <2>2
<1>6. ASSUME NEW k \in 1 .. Len(rest) PROVE e < rest[k]
  <2>1. PICK g, l \in Nat : rest[k] = NodePos(g, l) - 1 /\ b <= l * 2^g
    BY DEF ListsPeaks
  <2>2. l * 2^g \in Nat /\ 2^g \in Nat /\ 2^g > 0
    <3>1. 2^g \in Nat /\ 2^g > 0
      BY PowType
    <3> QED BY <3>1
  <2>3. MMRIndex(b) + (l * 2^g - b) <= MMRIndex(l * 2^g)
    BY <1>1, <2>1, <2>2, MMRIndexMono
  <2>4. MMRIndex(b) = e + 1
    <3>1. MMRIndex((2 * j + 1) * 2^h) = NodePos(h, 2 * j) /\ NodePos(h, 2 * j) \in Nat
      BY NextLeafPos, NodePosBounds, <1>0
    <3> QED BY <3>1
  <2>5. NodePos(g, l) = MMRIndex(l * 2^g) + 2 * 2^g - 1
    BY DEF NodePos
  <2>6. MMRIndex(b) \in Nat /\ MMRIndex(l * 2^g) \in Nat
    BY <1>1, <2>2, MMRIndexBounds
  <2>7. PICK u, w, y, z : u = l * 2^g /\ w = 2^g /\ y = MMRIndex(b) /\ z = MMRIndex(l * 2^g)
    OBVIOUS
  <2>8. b \in Nat
    BY <1>1
  <2> HIDE DEF e, b
  <2>9. u \in Nat /\ w \in Nat /\ w > 0 /\ y \in Nat /\ z \in Nat /\ b <= u
    BY <2>1, <2>2, <2>6, <2>7
  <2>10. y + (u - b) <= z /\ y = e + 1
    BY <2>3, <2>4, <2>7
  <2>11. rest[k] = (z + 2 * w - 1) - 1
    BY <2>1, <2>5, <2>7
  <2>12. e = y - 1
    <3>1. e \in Int
      BY <1>0
    <3> QED BY <2>9, <2>10, <3>1
  <2> QED BY <2>8, <2>9, <2>10, <2>11, <2>12
<1>7. ASSUME NEW i \in 1 .. Len(q), NEW k \in 1 .. Len(q), i < k
      PROVE  q[i] < q[k]
  <2>1. k # 1 /\ k - 1 \in 1 .. Len(rest) /\ q[k] = rest[k - 1]
    BY <1>3, <1>7
  <2>2. CASE i = 1
    BY <1>3, <1>6, <2>1, <2>2
  <2>3. CASE i # 1
    <3>1. i - 1 \in 1 .. Len(rest) /\ q[i] = rest[i - 1] /\ i - 1 < k - 1
      BY <1>3, <1>7, <2>3
    <3> QED BY <2>1, <3>1 DEF ListsPeaks
  <2> QED BY <2>2, <2>3
<1> HIDE DEF q, a, e
<1>8. ListsPeaks(q, a, n)
  BY <1>3, <1>4, <1>5, <1>7 DEF ListsPeaks
<1> QED BY <1>8 DEF q, a, e

(* The loop of Peaks lists the peaks over what is left, to the right of    *)
(* leaves it has dealt with.                                               *)
LEMMA PeaksAfterIs ==
  ASSUME NEW n \in Nat, NEW b \in Nat, NEW c \in Nat, n < 2^b
  PROVE  ListsPeaks(peaksAfter[<<MMRIndex(c * 2^b), MMRIndex(n)>>], c * 2^b, c * 2^b + n)
<1> DEFINE P(x) == \A d, u \in Nat :
             x < 2^d => ListsPeaks(peaksAfter[<<MMRIndex(u * 2^d), MMRIndex(x)>>],
                                   u * 2^d, u * 2^d + x)
           T == {x \in Nat : ~ P(x)}
<1>1. T = {}
  <2> SUFFICES ASSUME T # {} PROVE FALSE
    OBVIOUS
  <2>1. PICK x \in T : \A y \in T : x <= y
    <3>1. T \in SUBSET Nat
      OBVIOUS
    <3> HIDE DEF T
    <3> QED BY <3>1, NatLeast
  <2>2. x \in Nat /\ ~ P(x) /\ \A y \in Nat : y < x => P(y)
    <3>1. x \in Nat /\ ~ P(x) /\ T \subseteq Nat
      OBVIOUS
    <3>2. \A y \in Nat : y \notin T => P(y)
      OBVIOUS
    <3> HIDE DEF T, P
    <3> QED BY <2>1, <3>1, <3>2
  <2>3. ASSUME NEW d \in Nat, NEW u \in Nat, x < 2^d
        PROVE  ListsPeaks(peaksAfter[<<MMRIndex(u * 2^d), MMRIndex(x)>>], u * 2^d, u * 2^d + x)
    <3> DEFINE a == u * 2^d
               q == peaksAfter[<<MMRIndex(a), MMRIndex(x)>>]
    <3>0. a \in Nat /\ MMRIndex(a) \in Nat /\ MMRIndex(x) \in Nat
      <4>1. 2^d \in Nat
        BY PowType
      <4>2. a \in Nat
        BY <4>1
      <4> HIDE DEF a
      <4> QED BY <2>2, <4>2, MMRIndexBounds
    <3>1. CASE x = 0
      <4>1. MMRIndex(x) = 0
        BY <3>1, MMRIndexBounds
      <4>2. q = << >>
        <5> HIDE DEF a
        <5> QED BY <4>1, <3>0, PeaksAfterDef
      <4>3. a + x = a
        BY <3>0, <3>1
      <4> HIDE DEF q, a
      <4>4. ListsPeaks(<< >>, a, a)
        BY <3>0 DEF ListsPeaks
      <4>5. ListsPeaks(q, a, a + x)
        BY <4>2, <4>3, <4>4
      <4> QED BY <4>5 DEF q, a
    <3>2. CASE x # 0
      <4>1. PICK h \in Nat : 2^h <= x /\ x < 2 * 2^h
        BY <2>2, <3>2, PowBelow
      <4>2. 2^h \in Nat /\ 2^h > 0 /\ 2^d \in Nat /\ h < d
        BY <4>1, <2>2, <2>3, PowType, PowMono
      <4>3. PICK j \in Nat : a = 2 * j * 2^h
        <5>1. d - h - 1 \in Nat /\ d - h - 1 + 1 = d - h /\ h <= d
          BY <4>2
        <5>2. 2^(d - h) = 2 * 2^(d - h - 1) /\ 2^(d - h - 1) \in Nat
          BY <5>1, PowStep, PowType
        <5>3. 2^d = 2^h * 2^(d - h)
          BY <5>1, PowSplit
        <5>4. ASSUME NEW y \in Nat, NEW z \in Nat
              PROVE  u * (z * (2 * y)) = 2 * (u * y) * z /\ u * y \in Nat
          OBVIOUS
        <5>5. a = 2 * (u * 2^(d - h - 1)) * 2^h /\ u * 2^(d - h - 1) \in Nat
          BY <4>2, <5>2, <5>3, <5>4
        <5> QED BY <5>5
      <4> DEFINE s == 2 * 2^h - 1
                 rest == peaksAfter[<<MMRIndex(a) + s, MMRIndex(x) - s>>]
      <4>4. x - 2^h \in Nat /\ x - 2^h < x /\ x - 2^h < 2^h
        BY <2>2, <4>1, <4>2
      <4>5. MMRIndex(x) = s + MMRIndex(x - 2^h) /\ MMRIndex(x - 2^h) \in Nat
        BY <2>2, <4>1, <4>4, MMRIndexAt, MMRIndexBounds
      <4>6. FirstPeak(MMRIndex(x)) = s
        <5>1. MMRIndex(x - 2^h) <= 2 * (x - 2^h)
          BY <4>4, MMRIndexBounds
        <5>2. MMRIndex(x) + 1 < 4 * 2^h /\ 2 * 2^h - 1 <= MMRIndex(x)
          <6> HIDE DEF a
          <6> QED BY <4>1, <4>2, <4>4, <4>5, <5>1, <2>2
        <5> QED BY <5>2, <3>0, FirstPeakAt
      <4>7. (2 * j + 1) * 2^h = a + 2^h /\ 2 * j \in Nat /\ 2 * j + 1 \in Nat
            /\ (2 * j + 1 + 1) * 2^h = a + 2 * 2^h
            /\ (2 * j + 2) * 2^h = a + 2 * 2^h
        <5>1. ASSUME NEW y \in Nat
              PROVE  (2 * j + 1) * y = 2 * j * y + y /\ (2 * j + 1 + 1) * y = 2 * j * y + 2 * y
                     /\ (2 * j + 2) * y = 2 * j * y + 2 * y
          OBVIOUS
        <5> QED BY <5>1, <4>2, <4>3
      <4>8. MMRIndex((2 * j + 1) * 2^h) = MMRIndex(a) + s
        <5>1. MMRIndex((2 * j + 1) * 2^h) = MMRIndex(2 * j * 2^h) + 2 * 2^h - 1
          BY MMRIndexRun
        <5> HIDE DEF a
        <5> QED BY <5>1, <4>3, <4>2, <3>0
      <4>9. ListsPeaks(rest, (2 * j + 1) * 2^h, a + x)
        <5>1. MMRIndex(x) - s = MMRIndex(x - 2^h)
          <6> HIDE DEF s, a
          <6>1. s \in Nat
            BY <4>2 DEF s
          <6> QED BY <4>5, <6>1
        <5>2. P(x - 2^h)
          BY <2>2, <4>4
        <5>3. ListsPeaks(peaksAfter[<<MMRIndex((2 * j + 1) * 2^h), MMRIndex(x - 2^h)>>],
                         (2 * j + 1) * 2^h, (2 * j + 1) * 2^h + (x - 2^h))
          BY <5>2, <4>4, <4>7
        <5>4. (2 * j + 1) * 2^h + (x - 2^h) = a + x
          <6> HIDE DEF a
          <6> QED BY <4>7, <3>0, <4>2, <2>2
        <5> HIDE DEF a, s
        <5> QED BY <5>1, <5>3, <5>4, <4>8
      <4>10. PeakOver(a + x, h, 2 * j)
        <5> HIDE DEF a
        <5> QED BY <4>1, <4>2, <4>7, <3>0, <2>2 DEF PeakOver
      <4>11. q = <<NodePos(h, 2 * j) - 1>> \o rest
        <5>1. MMRIndex(x) # 0
          <6> HIDE DEF a
          <6> QED BY <2>2, <3>2, MMRIndexBounds
        <5>2. q = <<MMRIndex(a) + s - 1>> \o rest
          <6> HIDE DEF a, s
          <6> QED BY <3>0, <4>6, <5>1, PeaksAfterDef
        <5>3. NodePos(h, 2 * j) = MMRIndex(a) + s
          <6>1. NodePos(h, 2 * j) = MMRIndex(2 * j * 2^h) + 2 * 2^h - 1
            BY DEF NodePos
          <6> HIDE DEF a
          <6> QED BY <6>1, <4>3, <3>0, <4>2
        <5>4. NodePos(h, 2 * j) - 1 = MMRIndex(a) + s - 1
          <6> HIDE DEF a
          <6> QED BY <5>3, <3>0, <4>2
        <5> HIDE DEF q, a, s, rest
        <5> QED BY <5>2, <5>4, Zenon
      <4> HIDE DEF q, rest
      <4>12. a + x \in Nat
        <5> HIDE DEF a
        <5> QED BY <3>0, <2>2
      <4>13. ListsPeaks(<<NodePos(h, 2 * j) - 1>> \o rest, 2 * j * 2^h, a + x)
        <5> HIDE DEF a
        <5> QED BY <4>9, <4>10, <4>12, ListsPeaksCons
      <4>14. ListsPeaks(q, a, a + x)
        <5> HIDE DEF a
        <5> QED BY <4>3, <4>11, <4>13
      <4> QED BY <4>14 DEF q
    <3> QED BY <3>1, <3>2
  <2> QED BY <2>2, <2>3
<1>2. P(n)
  <2> HIDE DEF P
  <2> QED BY <1>1
<1> QED BY <1>2

(* Peaks of a complete range lists the peaks over its leaves, and nothing  *)
(* for a range that ends with a right child.                               *)
THEOREM PeaksAre ==
  ASSUME NEW n \in Nat, n # 0
  PROVE  ListsPeaks(Peaks(MMRIndex(n) - 1), 0, n)
<1>1. PICK h, j \in Nat : n = (2 * j + 1) * 2^h
  BY OddRuns
<1>2. MMRIndex(n) = NodePos(h, 2 * j)
  BY <1>1, NextLeafPos
<1>3. MMRIndex(n) \in Nat /\ MMRIndex(n) > 0 /\ 2 * j \in Nat
  BY MMRIndexBounds
<1>4. MMRIndex(n) - 1 + 2 = MMRIndex(n) + 1 /\ MMRIndex(n) - 1 + 1 = MMRIndex(n)
  BY <1>3
<1>5. ~ (PosHeight(MMRIndex(n) + 1) > PosHeight(MMRIndex(n)))
  <2>1. PosHeight(NodePos(h, 2 * j) + 1) = 0 /\ PosHeight(NodePos(h, 2 * j)) = h
    BY <1>3, HeightAfter, HeightOfNode
  <2> QED BY <1>2, <2>1
<1>6. Peaks(MMRIndex(n) - 1) = peaksAfter[<<0, MMRIndex(n)>>]
  BY <1>4, <1>5 DEF Peaks
<1>7. 0 * 2^n = 0 /\ 0 * 2^n + n = n /\ MMRIndex(0) = 0 /\ n < 2^n /\ 0 \in Nat
  <2>1. 2^n \in Nat /\ n < 2^n /\ MMRIndex(0) = 0
    BY PowType, BelowPow, MMRIndexBounds
  <2> QED BY <2>1
<1>8. ListsPeaks(peaksAfter[<<MMRIndex(0 * 2^n), MMRIndex(n)>>], 0 * 2^n, 0 * 2^n + n)
  BY <1>7, PeaksAfterIs
<1> QED BY <1>6, <1>7, <1>8

(* While a parent is missing there are no peaks. *)
LEMMA NoPeaks ==
  ASSUME NEW h \in Nat, NEW j \in Nat
  PROVE  Peaks(NodePos(h, 2 * j + 1) - 1) = << >>
<1>1. 2 * j + 1 \in Nat /\ NodePos(h, 2 * j + 1) \in Nat
  <2>1. 2 * j + 1 \in Nat
    OBVIOUS
  <2> QED BY <2>1, NodePosBounds
<1>2. PosHeight(NodePos(h, 2 * j + 1) + 1) = h + 1 /\ PosHeight(NodePos(h, 2 * j + 1)) = h
  BY <1>1, HeightAfter, HeightOfNode
<1>3. NodePos(h, 2 * j + 1) - 1 + 2 = NodePos(h, 2 * j + 1) + 1
      /\ NodePos(h, 2 * j + 1) - 1 + 1 = NodePos(h, 2 * j + 1)
  BY <1>1
<1> QED BY <1>2, <1>3 DEF Peaks

(* Runs of leaves are nested or apart: two that have a leaf in common, the *)
(* shorter is within the longer.                                           *)
LEMMA RunsNest ==
  ASSUME NEW g \in Nat, NEW i \in Nat, NEW h \in Nat, NEW k \in Nat, NEW x \in Nat,
         i * 2^g <= x, x < (i + 1) * 2^g, k * 2^h <= x, x < (k + 1) * 2^h, g <= h
  PROVE  k * 2^h <= i * 2^g /\ (i + 1) * 2^g <= (k + 1) * 2^h
<1> DEFINE c == 2^(h - g)
<1>1. c \in Nat /\ c > 0 /\ 2^h = 2^g * c /\ 2^g \in Nat /\ 2^g > 0
  BY PowSplit, PowType
<1> HIDE DEF c
<1>2. ASSUME NEW y \in Nat, NEW d \in Nat, y > 0, NEW z \in Nat, z = k * d,
             i * y <= x, x < (i + 1) * y, k * (y * d) <= x, x < (k + 1) * (y * d)
      PROVE  z <= i /\ i + 1 <= z + d
  <2>1. k * (y * d) = z * y /\ (k + 1) * (y * d) = (z + d) * y
    BY <1>2
  <2>2. ASSUME NEW p \in Nat, NEW q \in Nat, p * y < (q + 1) * y PROVE p <= q
    <3>1. ASSUME q + 1 <= p PROVE FALSE
      <4>1. PICK r \in Nat : p = q + 1 + r
        <5>1. p - (q + 1) \in Nat /\ p = q + 1 + (p - (q + 1))
          BY <3>1
        <5> QED BY <5>1
      <4>2. p * y = (q + 1) * y + r * y /\ r * y \in Nat /\ (q + 1) * y \in Nat
        BY <4>1
      <4> QED BY <4>2, <2>2
    <3> QED BY <3>1
  <2>3. z * y < (i + 1) * y /\ i * y < (z + d) * y
    <3>1. z * y \in Nat /\ i * y \in Nat /\ (i + 1) * y \in Nat /\ (z + d) * y \in Nat
      OBVIOUS
    <3> QED BY <1>2, <2>1, <3>1
  <2>4. z <= i
    BY <2>2, <2>3
  <2>5. z + d # 0
    <3>1. z + d = 0 => (z + d) * y = 0
      OBVIOUS
    <3>2. i * y \in Nat
      OBVIOUS
    <3> QED BY <2>3, <3>1, <3>2
  <2>6. z + d - 1 \in Nat /\ z + d = (z + d - 1) + 1
    BY <2>5
  <2>7. i <= z + d - 1
    BY <2>2, <2>3, <2>6
  <2> QED BY <2>4, <2>7
<1>3. k * c \in Nat
  BY <1>1
<1>4. k * c <= i /\ i + 1 <= k * c + c
  BY <1>1, <1>2, <1>3
<1>5. ASSUME NEW y \in Nat, NEW d \in Nat, NEW z \in Nat, z = k * d,
             z <= i, i + 1 <= z + d
      PROVE  k * (y * d) <= i * y /\ (i + 1) * y <= (k + 1) * (y * d)
  <2>1. k * (y * d) = z * y /\ (k + 1) * (y * d) = (z + d) * y
    BY <1>5
  <2>2. PICK r \in Nat, s \in Nat : i = z + r /\ z + d = i + 1 + s
    <3>1. i - z \in Nat /\ i = z + (i - z) /\ z + d - (i + 1) \in Nat
          /\ z + d = i + 1 + (z + d - (i + 1))
      BY <1>5
    <3> QED BY <3>1
  <2>3. i * y = z * y + r * y /\ (z + d) * y = (i + 1) * y + s * y
        /\ r * y \in Nat /\ s * y \in Nat /\ z * y \in Nat /\ (i + 1) * y \in Nat
    BY <2>2
  <2> QED BY <2>1, <2>3
<1> QED BY <1>1, <1>3, <1>4, <1>5

-----------------------------------------------------------------------------
(* Which nodes a range has, and how the heights go on                      *)

(* A node comes h nodes after the last leaf under it. *)
LEMMA LastLeafPos ==
  ASSUME NEW h \in Nat, NEW k \in Nat
  PROVE  /\ (k + 1) * 2^h - 1 \in Nat
         /\ NodePos(h, k) = MMRIndex((k + 1) * 2^h - 1) + 1 + h
<1> DEFINE P(x) == \A l \in Nat : /\ (l + 1) * 2^x - 1 \in Nat
                                  /\ NodePos(x, l) = MMRIndex((l + 1) * 2^x - 1) + 1 + x
           T == {x \in Nat : ~ P(x)}
<1>1. T = {}
  <2> SUFFICES ASSUME T # {} PROVE FALSE
    OBVIOUS
  <2>1. PICK x \in T : \A y \in T : x <= y
    <3>1. T \in SUBSET Nat
      OBVIOUS
    <3> HIDE DEF T
    <3> QED BY <3>1, NatLeast
  <2>2. x \in Nat /\ ~ P(x) /\ \A y \in Nat : y < x => P(y)
    <3>1. x \in Nat /\ ~ P(x) /\ T \subseteq Nat
      OBVIOUS
    <3>2. \A y \in Nat : y \notin T => P(y)
      OBVIOUS
    <3> HIDE DEF T, P
    <3> QED BY <2>1, <3>1, <3>2
  <2>3. CASE x = 0
    <3>1. ASSUME NEW l \in Nat
          PROVE  (l + 1) * 2^0 - 1 = l /\ NodePos(0, l) = MMRIndex(l) + 1 + 0
      <4>1. 2^0 = 1 /\ NodePos(0, l) = MMRIndex(l) + 1 /\ MMRIndex(l) \in Nat
        BY PowZero, LeafPos, MMRIndexBounds
      <4> QED BY <4>1
    <3> QED BY <2>2, <2>3, <3>1
  <2>4. CASE x # 0
    <3>1. x - 1 \in Nat /\ x - 1 < x /\ (x - 1) + 1 = x
      BY <2>2, <2>4
    <3>2. ASSUME NEW l \in Nat
          PROVE  /\ (l + 1) * 2^x - 1 \in Nat
                 /\ NodePos(x, l) = MMRIndex((l + 1) * 2^x - 1) + 1 + x
      <4>1. 2 * l + 1 \in Nat /\ 2^(x - 1) \in Nat /\ 2^x = 2 * 2^(x - 1)
        BY <3>1, PowType, PowStep
      <4>2. (2 * l + 1 + 1) * 2^(x - 1) = (l + 1) * 2^x
        <5>1. ASSUME NEW y \in Nat PROVE (2 * l + 1 + 1) * y = (l + 1) * (2 * y)
          OBVIOUS
        <5> QED BY <4>1, <5>1
      <4>3. /\ (2 * l + 1 + 1) * 2^(x - 1) - 1 \in Nat
            /\ NodePos(x - 1, 2 * l + 1) = MMRIndex((2 * l + 1 + 1) * 2^(x - 1) - 1) + 1 + (x - 1)
        BY <2>2, <3>1, <4>1
      <4>4. NodePos(x, l) = NodePos(x - 1, 2 * l + 1) + 1
        BY <3>1, ParentPos
      <4>5. MMRIndex((l + 1) * 2^x - 1) \in Nat
        BY <4>2, <4>3, MMRIndexBounds
      <4>6. NodePos(x - 1, 2 * l + 1) = MMRIndex((l + 1) * 2^x - 1) + 1 + (x - 1)
        BY <4>2, <4>3
      <4>7. x \in Nat /\ (l + 1) * 2^x - 1 \in Nat
        BY <2>2, <4>2, <4>3
      <4> QED BY <4>4, <4>5, <4>6, <4>7
    <3> QED BY <2>2, <3>2
  <2> QED BY <2>3, <2>4
<1>2. P(h)
  <2> HIDE DEF P
  <2> QED BY <1>1
<1> QED BY <1>2

(* A range over n leaves has the nodes over runs of these leaves. *)
LEMMA NodeInRange ==
  ASSUME NEW n \in Nat, NEW h \in Nat, NEW k \in Nat
  PROVE  NodePos(h, k) <= MMRIndex(n) <=> (k + 1) * 2^h <= n
<1> DEFINE e == (k + 1) * 2^h
<1>1. e \in Nat /\ e - 1 \in Nat /\ NodePos(h, k) = MMRIndex(e - 1) + 1 + h
      /\ NodePos(h, k) \in Nat
  BY LastLeafPos, NodePosBounds
<1>2. NodePos(h, k) <= MMRIndex(e)
  <2>1. PICK g, j \in Nat : e = (2 * j + 1) * 2^g
    <3>1. e # 0
      BY <1>1
    <3> HIDE DEF e
    <3> QED BY <1>1, <3>1, OddRuns
  <2>2. 2 * j \in Nat
    OBVIOUS
  <2>3. MMRIndex(e) = NodePos(g, 2 * j)
    BY <2>1, NextLeafPos
  <2>4. NodePos(g, 2 * j) = MMRIndex((2 * j + 1) * 2^g - 1) + 1 + g
    BY <2>2, LastLeafPos
  <2>5. h <= g
    BY <2>1, RunOfOdd
  <2>6. MMRIndex(e - 1) \in Nat
    BY <1>1, MMRIndexBounds
  <2> HIDE DEF e
  <2> QED BY <1>1, <2>1, <2>3, <2>4, <2>5, <2>6
<1> HIDE DEF e
<1>3. MMRIndex(e) \in Nat /\ MMRIndex(e - 1) \in Nat /\ MMRIndex(n) \in Nat
  BY <1>1, MMRIndexBounds
<1>4. CASE e <= n
  <2>1. MMRIndex(e) + (n - e) <= MMRIndex(n)
    BY <1>1, <1>4, MMRIndexMono
  <2> QED BY <1>1, <1>2, <1>3, <1>4, <2>1 DEF e
<1>5. CASE ~ (e <= n)
  <2>1. n <= e - 1
    BY <1>1, <1>5
  <2>2. MMRIndex(n) + (e - 1 - n) <= MMRIndex(e - 1)
    BY <1>1, <2>1, MMRIndexMono
  <2>3. ~ (NodePos(h, k) <= MMRIndex(n))
    BY <1>1, <1>3, <2>1, <2>2
  <2> QED BY <1>5, <2>3 DEF e
<1> QED BY <1>4, <1>5

(* How far the next leaf is: the climbs of package mmr end before it *)
NextLeaf(i) ==
  CHOOSE d \in Nat : /\ d # 0 /\ IndexHeight(i + d) = 0
                     /\ \A e \in Nat : e # 0 /\ e < d => IndexHeight(i + e) # 0

(* A leaf follows every node, and is a node nearer after an interior one.  *)
LEMMA NextLeafIs ==
  ASSUME NEW i \in Nat
  PROVE  /\ NextLeaf(i) \in Nat /\ NextLeaf(i) # 0 /\ IndexHeight(i + NextLeaf(i)) = 0
         /\ IndexHeight(i + 1) # 0 => NextLeaf(i + 1) = NextLeaf(i) - 1
<1> DEFINE Is(j, d) == /\ d # 0 /\ IndexHeight(j + d) = 0
                       /\ \A e \in Nat : e # 0 /\ e < d => IndexHeight(j + e) # 0
<1>1. \A j \in Nat : \E d \in Nat : Is(j, d)
  <2>1. SUFFICES ASSUME NEW j \in Nat PROVE \E d \in Nat : Is(j, d)
    OBVIOUS
  <2> DEFINE T == {d \in Nat : d # 0 /\ IndexHeight(j + d) = 0}
  <2>2. T # {}
    <3>1. j + 1 \in Nat /\ 0 \in Nat
      OBVIOUS
    <3>2. NodePos(0, j + 1) = MMRIndex(j + 1) + 1 /\ j + 1 <= MMRIndex(j + 1)
          /\ MMRIndex(j + 1) \in Nat
      BY <3>1, LeafPos, MMRIndexBounds
    <3>3. MMRIndex(j + 1) - j \in Nat /\ MMRIndex(j + 1) - j # 0
          /\ j + (MMRIndex(j + 1) - j) + 1 = NodePos(0, j + 1)
      BY <3>2
    <3>4. IndexHeight(j + (MMRIndex(j + 1) - j)) = 0
      BY <3>1, <3>3, HeightOfNode DEF IndexHeight
    <3> QED BY <3>3, <3>4
  <2>3. PICK d \in T : \A e \in T : d <= e
    <3>1. T \in SUBSET Nat
      OBVIOUS
    <3> HIDE DEF T
    <3> QED BY <2>2, <3>1, NatLeast
  <2>4. d \in Nat /\ d # 0 /\ IndexHeight(j + d) = 0
    OBVIOUS
  <2>5. ASSUME NEW e \in Nat, e # 0, e < d PROVE IndexHeight(j + e) # 0
    <3>1. e \notin T
      <4> HIDE DEF T
      <4> QED BY <2>3, <2>4, <2>5
    <3> QED BY <2>5, <3>1
  <2> QED BY <2>4, <2>5
<1>2. \A j \in Nat : NextLeaf(j) \in Nat /\ Is(j, NextLeaf(j))
  <2>1. \A j \in Nat : NextLeaf(j) = CHOOSE d \in Nat : Is(j, d)
    BY DEF NextLeaf
  <2> HIDE DEF Is
  <2> QED BY <1>1, <2>1
<1>3. ASSUME NEW j \in Nat, NEW d \in Nat, NEW e \in Nat, Is(j, d), Is(j, e) PROVE d = e
  BY <1>3
<1>4. ASSUME IndexHeight(i + 1) # 0 PROVE NextLeaf(i + 1) = NextLeaf(i) - 1
  <2> DEFINE d == NextLeaf(i)
  <2>1. d \in Nat /\ Is(i, d) /\ i + 1 \in Nat
    BY <1>2
  <2> HIDE DEF d
  <2>2. d # 1
    BY <1>4, <2>1
  <2>3. d - 1 \in Nat /\ d - 1 # 0 /\ i + 1 + (d - 1) = i + d
    BY <2>1, <2>2
  <2>4. ASSUME NEW e \in Nat, e # 0, e < d - 1 PROVE IndexHeight(i + 1 + e) # 0
    <3>1. e + 1 \in Nat /\ e + 1 # 0 /\ e + 1 < d /\ i + 1 + e = i + (e + 1)
      BY <2>1, <2>4
    <3> QED BY <2>1, <3>1
  <2>5. Is(i + 1, d - 1)
    BY <2>1, <2>3, <2>4
  <2>6. NextLeaf(i + 1) \in Nat /\ Is(i + 1, NextLeaf(i + 1))
    BY <1>2, <2>1
  <2> HIDE DEF Is
  <2>7. NextLeaf(i + 1) = d - 1
    BY <1>3, <2>1, <2>3, <2>5, <2>6
  <2> QED BY <2>7 DEF d
<1> QED BY <1>2, <1>4
-----------------------------------------------------------------------------
(* peaks.go: PeaksBitmap counts the leaves                                 *)

(* Every number is less than the power of two of its length in bits. *)
LEMMA BelowBitLength ==
  ASSUME NEW n \in Nat
  PROVE  BitLength(n) \in Nat /\ n < 2^BitLength(n)
<1>1. CASE n = 0
  <2>1. BitLength(n) = 0 /\ 2^0 = 1
    BY <1>1, BitLengthZero, PowZero
  <2>2. 2^BitLength(n) = 1
    BY <2>1
  <2>3. BitLength(n) \in Nat
    BY <2>1
  <2> QED BY <1>1, <2>2, <2>3
<1>2. CASE n # 0
  <2>1. PICK k \in Nat : BitLength(n) = k + 1 /\ n < 2 * 2^k
    BY <1>2, BitLengthBounds
  <2>2. 2^(k + 1) = 2 * 2^k
    BY PowStep
  <2> QED BY <2>1, <2>2
<1> QED BY <1>1, <1>2

(* The loop of PeaksBitmap, a round unfolded *)
LEMMA PeaksBitmapDef ==
  ASSUME NEW pos \in Nat, NEW k \in Nat
  PROVE  peaksBitmap[<<pos, k>>] =
           IF k = 0 THEN 0
           ELSE IF pos >= HeightSize(k)
                THEN 2^(k - 1) + peaksBitmap[<<pos - HeightSize(k), k - 1>>]
                ELSE peaksBitmap[<<pos, k - 1>>]
<1> DEFINE S == Nat \X Nat
           B(f, x) == IF x[2] = 0 THEN 0
                      ELSE IF x[1] >= HeightSize(x[2])
                           THEN 2^(x[2] - 1) + f[<<x[1] - HeightSize(x[2]), x[2] - 1>>]
                           ELSE f[<<x[1], x[2] - 1>>]
           D == [p \in [S -> Nat] \X S |-> B(p[1], p[2])]
           m == [x \in S |-> x[2]]
<1>0. \A x \in S : x[2] # 0 =>
        /\ 2^(x[2] - 1) \in Nat
        /\ <<x[1], x[2] - 1>> \in S /\ m[<<x[1], x[2] - 1>>] < m[x]
        /\ x[1] >= HeightSize(x[2]) =>
             /\ <<x[1] - HeightSize(x[2]), x[2] - 1>> \in S
             /\ m[<<x[1] - HeightSize(x[2]), x[2] - 1>>] < m[x]
  <2> SUFFICES ASSUME NEW p \in Nat, NEW j \in Nat, j # 0
               PROVE  /\ 2^(j - 1) \in Nat /\ j - 1 \in Nat /\ j - 1 < j
                      /\ p >= HeightSize(j) => p - HeightSize(j) \in Nat
    OBVIOUS
  <2>1. j - 1 \in Nat /\ 2^j \in Nat /\ 2^j > 0
    BY PowType
  <2>2. 2^(j - 1) \in Nat
    BY <2>1, PowType
  <2> QED BY <2>1, <2>2 DEF HeightSize
<1>1. \A f \in [S -> Nat], x \in S : B(f, x) \in Nat /\ D[<<f, x>>] = B(f, x)
  <2>1. ASSUME NEW f \in [S -> Nat], NEW x \in S PROVE B(f, x) \in Nat
    <3>1. CASE x[2] = 0
      BY <3>1
    <3>2. CASE x[2] # 0 /\ x[1] >= HeightSize(x[2])
      <4>1. f[<<x[1] - HeightSize(x[2]), x[2] - 1>>] \in Nat /\ 2^(x[2] - 1) \in Nat
        <5>1. <<x[1] - HeightSize(x[2]), x[2] - 1>> \in S /\ 2^(x[2] - 1) \in Nat
          BY <1>0, <3>2
        <5> HIDE DEF S
        <5> QED BY <5>1
      <4>2. B(f, x) = 2^(x[2] - 1) + f[<<x[1] - HeightSize(x[2]), x[2] - 1>>]
        BY <3>2
      <4> HIDE DEF B
      <4> QED BY <4>1, <4>2
    <3>3. CASE x[2] # 0 /\ ~ (x[1] >= HeightSize(x[2]))
      <4>1. f[<<x[1], x[2] - 1>>] \in Nat
        <5>1. <<x[1], x[2] - 1>> \in S
          BY <1>0, <3>3
        <5> HIDE DEF S
        <5> QED BY <5>1
      <4> QED BY <3>3, <4>1
    <3> QED BY <3>1, <3>2, <3>3
  <2> HIDE DEF B, S
  <2> QED BY <2>1
<1>2. D \in [[S -> Nat] \X S -> Nat]
  <2> HIDE DEF B, S
  <2> QED BY <1>1
<1>3. ASSUME NEW f \in [S -> Nat], NEW g \in [S -> Nat], NEW x \in S,
             \A y \in S : m[y] < m[x] => f[y] = g[y]
      PROVE  D[<<f, x>>] = D[<<g, x>>]
  <2>1. B(f, x) = B(g, x)
    BY <1>0, <1>3
  <2> HIDE DEF B, S
  <2> QED BY <1>1, <2>1
<1>4. \E f \in [S -> Nat] : \A x \in S : f[x] = D[<<f, x>>]
  <2>1. Nat # {} /\ m \in [S -> Nat]
    OBVIOUS
  <2> HIDE DEF D, S, m
  <2>2. LooksBelow(S, Nat, m, D)
    BY <2>1, <1>2, <1>3 DEF LooksBelow
  <2> QED BY <2>2, Recursion
<1>5. PICK F \in [S -> Nat] : F = [x \in S |-> B(F, x)]
  <2>1. PICK f \in [S -> Nat] : \A x \in S : f[x] = D[<<f, x>>]
    BY <1>4
  <2>2. \A x \in S : f[x] = B(f, x)
    <3> HIDE DEF B, D, S
    <3> QED BY <1>1, <2>1
  <2> HIDE DEF B, S
  <2> QED BY <2>2
<1>6. peaksBitmap = [x \in S |-> B(peaksBitmap, x)]
  BY <1>5 DEF peaksBitmap
<1>7. \A x \in S : peaksBitmap[x] = B(peaksBitmap, x)
  <2> HIDE DEF B
  <2> QED BY <1>6
<1>8. <<pos, k>> \in S
  OBVIOUS
<1> QED BY <1>7, <1>8

(* MMRIndex of a power of two *)
LEMMA MMRIndexPow ==
  ASSUME NEW k \in Nat
  PROVE  MMRIndex(2^k) = 2 * 2^k - 1 /\ MMRIndex(0) = 0
<1>1. 2^k \in Nat /\ 2^k > 0 /\ 2^k - 2^k = 0
  BY PowType
<1>2. MMRIndex(2^k) = 2 * 2^k - 1 + MMRIndex(2^k - 2^k)
  BY <1>1, MMRIndexAt
<1>3. MMRIndex(0) = 0
  BY MMRIndexBounds
<1> QED BY <1>1, <1>2, <1>3

(* Rounds of k and less count the leaves of a range of less than 2^k       *)
(* leaves; of a larger one they see a range that is full.                  *)
LEMMA PeaksBitmapAt ==
  ASSUME NEW n \in Nat
  PROVE  \A a, pos \in Nat :
           a < 2^n /\ MMRIndex(a) <= pos /\ (pos < MMRIndex(a + 1) \/ a + 1 = 2^n)
             => peaksBitmap[<<pos, n>>] = a
<1> DEFINE Fits(k, a, pos) == /\ a < 2^k /\ MMRIndex(a) <= pos
                              /\ pos < MMRIndex(a + 1) \/ a + 1 = 2^k
           P(k) == \A a, pos \in Nat : Fits(k, a, pos) => peaksBitmap[<<pos, k>>] = a
           T == {k \in Nat : ~ P(k)}
<1>1. T = {}
  <2> SUFFICES ASSUME T # {} PROVE FALSE
    OBVIOUS
  <2>1. PICK k \in T : \A y \in T : k <= y
    <3>1. T \in SUBSET Nat
      OBVIOUS
    <3> HIDE DEF T
    <3> QED BY <3>1, NatLeast
  <2>2. k \in Nat /\ ~ P(k) /\ \A y \in Nat : y < k => P(y)
    <3>1. k \in Nat /\ ~ P(k) /\ \A y \in Nat : ~ P(y) => k <= y
      <4> HIDE DEF P
      <4> QED BY <2>1
    <3> HIDE DEF P
    <3> QED BY <3>1
  <2>3. ASSUME NEW a \in Nat, NEW pos \in Nat, Fits(k, a, pos)
        PROVE  peaksBitmap[<<pos, k>>] = a
    <3>1. peaksBitmap[<<pos, k>>] =
            IF k = 0 THEN 0
            ELSE IF pos >= HeightSize(k)
                 THEN 2^(k - 1) + peaksBitmap[<<pos - HeightSize(k), k - 1>>]
                 ELSE peaksBitmap[<<pos, k - 1>>]
      BY <2>2, PeaksBitmapDef
    <3>2. CASE k = 0
      <4>1. a = 0
        BY <2>3, <3>2, PowZero
      <4> QED BY <3>1, <3>2, <4>1
    <3>3. CASE k # 0
      <4> DEFINE y == 2^(k - 1)
      <4>1. /\ k - 1 \in Nat /\ k - 1 < k /\ y \in Nat /\ y > 0 /\ 2^k = 2 * y
            /\ HeightSize(k) = 2 * y - 1
        <5>1. k - 1 \in Nat /\ (k - 1) + 1 = k /\ k - 1 < k
          BY <2>2, <3>3
        <5> QED BY <5>1, PowType, PowStep DEF HeightSize
      <4>2. MMRIndex(y) = 2 * y - 1 /\ MMRIndex(2^k) = 4 * y - 1
        <5>1. MMRIndex(y) = 2 * y - 1
          BY <4>1, MMRIndexPow
        <5>2. MMRIndex(2^k) = 2 * 2^k - 1
          BY <2>2, MMRIndexPow
        <5> HIDE DEF y
        <5> QED BY <4>1, <5>1, <5>2
      <4>3. P(k - 1)
        <5> HIDE DEF P
        <5> QED BY <2>2, <4>1
      <4>4. \A b \in Nat : y <= b /\ b < 2 * y => b - y \in Nat /\ MMRIndex(b) = 2 * y - 1 + MMRIndex(b - y)
        BY <4>1, MMRIndexAt
      <4>5. MMRIndex(a) \in Nat /\ MMRIndex(a + 1) \in Nat /\ a + 1 \in Nat
        BY MMRIndexBounds
      <4> HIDE DEF y, P
      <4>6. CASE a < y
        <5>1. a + 1 <= y /\ a + 1 # 2^k
          BY <4>1, <4>6
        <5>2. MMRIndex(a + 1) <= 2 * y - 1
          <6>1. MMRIndex(a + 1) + (y - (a + 1)) <= MMRIndex(y)
            BY <4>1, <4>5, <5>1, MMRIndexMono
          <6> QED BY <4>1, <4>2, <4>5, <5>1, <6>1
        <5>3. pos < MMRIndex(a + 1) /\ ~ (pos >= HeightSize(k))
          BY <2>3, <4>1, <4>5, <5>1, <5>2
        <5>4. Fits(k - 1, a, pos)
          BY <2>3, <4>6, <5>3 DEF y
        <5>5. peaksBitmap[<<pos, k - 1>>] = a
          BY <4>3, <5>4 DEF P
        <5> QED BY <3>1, <3>3, <5>3, <5>5
      <4>7. CASE ~ (a < y)
        <5>1. a - y \in Nat /\ MMRIndex(a) = 2 * y - 1 + MMRIndex(a - y) /\ a < 2 * y
          BY <2>3, <4>1, <4>4, <4>7
        <5>2. MMRIndex(a - y) \in Nat /\ MMRIndex(a - y + 1) \in Nat
          BY <5>1, MMRIndexBounds
        <5>3. pos >= HeightSize(k) /\ pos - HeightSize(k) \in Nat
              /\ MMRIndex(a - y) <= pos - HeightSize(k)
          BY <2>3, <4>1, <5>1, <5>2
        <5>4. a - y < y
          BY <4>1, <5>1
        <5>5. pos - HeightSize(k) < MMRIndex(a - y + 1) \/ a - y + 1 = y
          <6>1. CASE a + 1 = 2^k
            BY <4>1, <6>1
          <6>2. CASE a + 1 # 2^k
            <7>1. pos < MMRIndex(a + 1) /\ y <= a + 1 /\ a + 1 < 2 * y /\ a + 1 - y = a - y + 1
              BY <2>3, <4>1, <4>7, <5>1, <6>2
            <7>2. MMRIndex(a + 1) = 2 * y - 1 + MMRIndex(a - y + 1)
              <8>1. MMRIndex(a + 1) = 2 * y - 1 + MMRIndex(a + 1 - y)
                BY <4>1, <4>4, <4>5, <7>1
              <8> QED BY <7>1, <8>1
            <7> QED BY <4>1, <5>2, <7>1, <7>2
          <6> QED BY <6>1, <6>2
        <5>6. Fits(k - 1, a - y, pos - HeightSize(k))
          BY <5>3, <5>4, <5>5 DEF y
        <5>7. peaksBitmap[<<pos - HeightSize(k), k - 1>>] = a - y
          BY <4>3, <5>1, <5>3, <5>6 DEF P
        <5>8. y + (a - y) = a
          BY <4>1
        <5> QED BY <3>1, <3>3, <5>3, <5>7, <5>8 DEF y
      <4> QED BY <4>6, <4>7
    <3> QED BY <3>2, <3>3
  <2> QED BY <2>2, <2>3
<1>2. P(n)
  <2> HIDE DEF P
  <2> QED BY <1>1
<1> QED BY <1>2

(* PeaksBitmap is the number of leaves of a complete range, and of the     *)
(* largest complete range in one that is not.                              *)
LEMMA PeaksBitmapIs ==
  ASSUME NEW n \in Nat, NEW size \in Nat, MMRIndex(n) <= size, size < MMRIndex(n + 1)
  PROVE  PeaksBitmap(size) = n
<1>1. MMRIndex(n) \in Nat /\ n <= MMRIndex(n)
  BY MMRIndexBounds
<1>2. BitLength(size) \in Nat /\ size < 2^BitLength(size)
  BY BelowBitLength
<1>3. 2^BitLength(size) \in Nat
  BY <1>2, PowType
<1>4. n < 2^BitLength(size)
  BY <1>1, <1>2, <1>3
<1> QED BY <1>2, <1>4, PeaksBitmapAt DEF PeaksBitmap

-----------------------------------------------------------------------------
(* bits.go: the bits of a count of leaves are the heights of its peaks     *)

(* How often a number fits into another *)
LEMMA DivIs ==
  ASSUME NEW m \in Nat, NEW y \in Nat, y > 0, NEW c \in Nat, c * y <= m, m < (c + 1) * y
  PROVE  m \div y = c
<1>1. c * y \in Nat /\ (c + 1) * y = c * y + y
  OBVIOUS
<1>2. PICK r \in Nat : m = c * y + r /\ r < y
  <2>1. m - c * y \in Nat /\ m = c * y + (m - c * y) /\ m - c * y < y
    BY <1>1
  <2> QED BY <2>1
<1>3. ASSUME NEW q \in Nat, NEW e \in Nat, e > 0, NEW s \in Nat, s < e
      PROVE  (q * e + s) \div e = q
  BY <1>3
<1> QED BY <1>2, <1>3

(* The division with remainder *)
LEMMA DivMod ==
  ASSUME NEW m \in Nat, NEW y \in Nat, y > 0
  PROVE  /\ m \div y \in Nat /\ m % y \in Nat /\ m % y < y
         /\ m = (m \div y) * y + (m % y)
         /\ (m \div y) * y <= m /\ m < ((m \div y) + 1) * y
<1>1. m \div y \in Nat /\ m % y \in Nat /\ m % y < y /\ m = (m \div y) * y + (m % y)
  OBVIOUS
<1>2. ASSUME NEW q \in Nat, NEW r \in Nat, r < y, m = q * y + r
      PROVE  q * y <= m /\ m < (q + 1) * y
  <2>1. (q + 1) * y = q * y + y /\ q * y \in Nat
    OBVIOUS
  <2> QED BY <1>2, <2>1
<1> QED BY <1>1, <1>2

(* The heights of the peaks over n leaves, whatever their list *)
Bits(n) == {k \in Nat : \E l \in Nat : PeakOver(n, k, l)}

(* Bit k of a number of leaves is set if there is a peak of height k. *)
LEMMA BitIs ==
  ASSUME NEW n \in Nat, NEW k \in Nat
  PROVE  (n \div 2^k) % 2 = 1 <=> k \in Bits(n)
<1> DEFINE y == 2^k
<1>1. y \in Nat /\ y > 0
  BY PowType
<1>2. ASSUME (n \div y) % 2 = 1 PROVE \E l \in Nat : PeakOver(n, k, l)
  <2> DEFINE c == n \div y
  <2>1. c \in Nat /\ c * y <= n /\ n < (c + 1) * y
    <3> HIDE DEF y
    <3> QED BY <1>1, DivMod
  <2>2. PICK j \in Nat : c = 2 * j + 1
    <3> HIDE DEF y
    <3>1. c % 2 = 1
      BY <1>2
    <3> HIDE DEF c
    <3>2. PICK j \in Nat : c = 2 * j \/ c = 2 * j + 1
      BY <2>1, EvenOrOdd
    <3>3. (2 * j) % 2 = 0
      OBVIOUS
    <3> QED BY <3>1, <3>2, <3>3
  <2>3. 2 * j \in Nat /\ c = (2 * j) + 1 /\ c + 1 = (2 * j) + 2
    BY <2>2
  <2>4. PeakOver(n, k, 2 * j)
    <3> HIDE DEF c
    <3>1. (2 * j + 1) * y <= n /\ n < (2 * j + 2) * y
      BY <2>1, <2>3
    <3> QED BY <3>1 DEF PeakOver, y
  <2> QED BY <2>3, <2>4
<1>3. ASSUME NEW l \in Nat, PeakOver(n, k, l) PROVE (n \div y) % 2 = 1
  <2>1. (l + 1) * y <= n /\ n < ((l + 1) + 1) * y
    <3>1. (l + 1) + 1 = l + 2
      OBVIOUS
    <3> QED BY <1>3, <3>1 DEF PeakOver
  <2>2. n \div y = l + 1
    <3> HIDE DEF y
    <3>1. l + 1 \in Nat
      OBVIOUS
    <3> QED BY <1>1, <2>1, <3>1, DivIs
  <2>3. PICK j \in Nat : l = 2 * j
    BY <1>3 DEF PeakOver
  <2>4. (2 * j + 1) % 2 = 1
    OBVIOUS
  <2> QED BY <2>2, <2>3, <2>4
<1> QED BY <1>2, <1>3 DEF y, Bits

(* OnesCount counts the heights of the peaks. *)
LEMMA OnesCountIs ==
  ASSUME NEW n \in Nat
  PROVE  IsFiniteSet(Bits(n)) /\ OnesCount(n) = Cardinality(Bits(n))
<1> DEFINE B == BitLength(n)
           S == {k \in 0 .. B : (n \div 2^k) % 2 = 1}
<1>1. B \in Nat /\ n < 2^B
  BY BelowBitLength
<1>2. ASSUME NEW k \in Bits(n) PROVE k \in 0 .. B
  <2>1. PICK l \in Nat : PeakOver(n, k, l)
    BY DEF Bits
  <2>2. k \in Nat /\ 2^k \in Nat /\ 2^k > 0 /\ 2^B \in Nat
    BY <1>1, PowType DEF Bits
  <2>3. 2^k <= n
    <3>1. (l + 1) * 2^k <= n
      BY <2>1 DEF PeakOver
    <3>2. \A y \in Nat : y <= (l + 1) * y /\ (l + 1) * y \in Nat
      OBVIOUS
    <3> QED BY <2>2, <3>1, <3>2
  <2>4. k < B
    <3> HIDE DEF B
    <3>1. 2^k < 2^B
      BY <1>1, <2>2, <2>3
    <3> QED BY <1>1, <2>2, <3>1, PowMono
  <2> HIDE DEF B
  <2> QED BY <1>1, <2>2, <2>4
<1>3. S = Bits(n)
  <2>1. \A k \in 0 .. B : k \in Nat
    BY <1>1
  <2>2. \A k \in 0 .. B : (n \div 2^k) % 2 = 1 <=> k \in Bits(n)
    BY <2>1, BitIs
  <2> HIDE DEF B
  <2> QED BY <1>2, <2>2
<1>4. IsFiniteSet(0 .. B)
  BY <1>1, FS_Interval
<1>5. IsFiniteSet(Bits(n))
  <2>1. Bits(n) \in SUBSET (0 .. B)
    BY <1>2
  <2> QED BY <1>4, <2>1, FS_Subset
<1> QED BY <1>3, <1>5 DEF OnesCount

(* A remainder has the lower bits. *)
LEMMA BitsOfRest ==
  ASSUME NEW n \in Nat, NEW g \in Nat
  PROVE  /\ n % 2^(g + 1) \in Nat
         /\ Bits(n % 2^(g + 1)) = {k \in Bits(n) : k <= g}
<1> DEFINE y == 2^(g + 1)
           A == n \div y
           r == n % y
<1>1. y \in Nat /\ y > 0 /\ g + 1 \in Nat
  <2>1. g + 1 \in Nat
    OBVIOUS
  <2> QED BY <2>1, PowType
<1>2. A \in Nat /\ r \in Nat /\ r < y /\ n = A * y + r
  <2> HIDE DEF y
  <2> QED BY <1>1, DivMod
<1> HIDE DEF A, r
<1>3. ASSUME NEW k \in Nat, k <= g PROVE k \in Bits(r) <=> k \in Bits(n)
  <2> DEFINE x == 2^k
             z == 2^(g - k)
             d == r \div x
  <2>1. x \in Nat /\ x > 0 /\ z \in Nat /\ y = x * (2 * z)
    <3>1. g - k \in Nat /\ g = k + (g - k)
      BY <1>3
    <3>2. 2^g = x * z /\ x \in Nat /\ x > 0 /\ z \in Nat
      BY <3>1, PowAdd, PowType
    <3>3. y = 2 * 2^g
      BY PowStep
    <3> HIDE DEF x, z, y
    <3>4. x * (2 * z) = 2 * (x * z)
      BY <3>2
    <3> QED BY <3>2, <3>3, <3>4
  <2> HIDE DEF x, z
  <2>2. d \in Nat /\ d * x <= r /\ r < (d + 1) * x
    BY <1>2, <2>1, DivMod
  <2> HIDE DEF d, y
  <2>3. 2 * (A * z) + d \in Nat /\ A * z \in Nat
    BY <1>2, <2>1, <2>2
  <2>4. n \div x = 2 * (A * z) + d
    <3> DEFINE c == 2 * (A * z) + d
    <3>1. A * y = (2 * (A * z)) * x
      BY <1>2, <2>1
    <3>2. c * x = A * y + d * x /\ (c + 1) * x = A * y + (d + 1) * x
          /\ A * y \in Nat /\ d * x \in Nat /\ (d + 1) * x \in Nat
      <4>1. ASSUME NEW b \in Nat
            PROVE  (b + d) * x = b * x + d * x /\ (b + d + 1) * x = b * x + (d + 1) * x
                   /\ b * x \in Nat /\ d * x \in Nat /\ (d + 1) * x \in Nat
        BY <2>1, <2>2
      <4>2. 2 * (A * z) \in Nat
        BY <2>3
      <4> QED BY <3>1, <4>1, <4>2
    <3>3. c * x <= n /\ n < (c + 1) * x
      <4> HIDE DEF c
      <4> QED BY <1>2, <2>2, <3>2
    <3>4. c \in Nat
      BY <2>3
    <3> HIDE DEF c
    <3>5. n \div x = c
      BY <2>1, <3>3, <3>4, DivIs
    <3> QED BY <3>5 DEF c
  <2>5. (n \div x) % 2 = d % 2
    <3>1. ASSUME NEW b \in Nat PROVE (2 * b + d) % 2 = d % 2
      BY <2>2
    <3> QED BY <2>3, <2>4, <3>1
  <2>6. (r \div x) % 2 = 1 <=> k \in Bits(r)
    BY <1>2, BitIs DEF x
  <2>7. (n \div x) % 2 = 1 <=> k \in Bits(n)
    BY BitIs DEF x
  <2> QED BY <2>5, <2>6, <2>7 DEF d
<1>4. ASSUME NEW k \in Bits(r) PROVE k \in Nat /\ k <= g
  <2>1. PICK l \in Nat : PeakOver(r, k, l)
    BY DEF Bits
  <2>2. k \in Nat /\ 2^k \in Nat /\ 2^k > 0
    BY PowType DEF Bits
  <2>3. 2^k <= r
    <3>1. (l + 1) * 2^k <= r
      BY <2>1 DEF PeakOver
    <3>2. \A e \in Nat : e <= (l + 1) * e /\ (l + 1) * e \in Nat
      OBVIOUS
    <3> QED BY <1>2, <2>2, <3>1, <3>2
  <2>4. 2^k < 2^(g + 1)
    <3>1. 2^k < y
      <4> HIDE DEF y
      <4> QED BY <1>1, <1>2, <2>2, <2>3
    <3> QED BY <3>1
  <2>5. k < g + 1
    BY <1>1, <2>2, <2>4, PowMono
  <2> QED BY <2>2, <2>5
<1>5. Bits(r) = {k \in Bits(n) : k <= g}
  <2>1. \A k \in Bits(n) : k \in Nat
    BY DEF Bits
  <2> QED BY <1>3, <1>4, <2>1
<1> QED BY <1>2, <1>5 DEF r, y

-----------------------------------------------------------------------------
(* firstmmrsize.go, leafcount.go, spurs.go: the numbering of the leaves    *)

(* After a node comes its parent or a leaf. *)
LEMMA AfterNode ==
  ASSUME NEW i \in Nat
  PROVE  IF IndexHeight(i) < IndexHeight(i + 1) THEN IndexHeight(i + 1) # 0
         ELSE IndexHeight(i + 1) = 0
<1>1. PICK h \in Nat, k \in Nat : i + 1 = NodePos(h, k)
  <2>1. i + 1 \in Nat /\ i + 1 # 0
    OBVIOUS
  <2> QED BY <2>1, EveryPosition
<1>2. IndexHeight(i) = h
  BY <1>1, HeightOfNode DEF IndexHeight
<1>3. PICK j \in Nat : k = 2 * j \/ k = 2 * j + 1
  BY EvenOrOdd
<1>4. IndexHeight(i + 1) = IF k = 2 * j THEN 0 ELSE h + 1
  <2>1. k = 2 * j => PosHeight(i + 1 + 1) = 0
    BY <1>1, HeightAfter
  <2>2. k # 2 * j => PosHeight(i + 1 + 1) = h + 1
    BY <1>1, <1>3, HeightAfter, ZenonT(60)
  <2> QED BY <2>1, <2>2 DEF IndexHeight
<1> QED BY <1>2, <1>4

(* FirstMMRSize runs to the next leaf. *)
LEMMA FirstMMRSizeIs ==
  ASSUME NEW n \in Nat
  PROVE  FirstMMRSize(n) = n + NextLeaf(n)
<1> DEFINE B(f, x) == IF IndexHeight(x) < IndexHeight(x + 1) THEN f[x + 1] ELSE x + 1
           F == [x \in Nat |-> x + NextLeaf(x)]
<1>1. \A x \in Nat : /\ NextLeaf(x) \in Nat /\ NextLeaf(x) # 0 /\ x + 1 \in Nat
                     /\ IndexHeight(x + 1) # 0 => NextLeaf(x + 1) = NextLeaf(x) - 1
                     /\ IndexHeight(x + 1) = 0 => NextLeaf(x) = 1
  <2>1. SUFFICES ASSUME NEW x \in Nat, IndexHeight(x + 1) = 0 PROVE NextLeaf(x) = 1
    BY NextLeafIs
  <2>2. 1 # 0 /\ \A e \in Nat : e # 0 /\ e < 1 => IndexHeight(x + e) # 0
    OBVIOUS
  <2>3. \A d \in Nat : d # 0 /\ IndexHeight(x + d) = 0
          /\ (\A e \in Nat : e # 0 /\ e < d => IndexHeight(x + e) # 0) => d = 1
    BY <2>1
  <2> QED BY <2>1, <2>2, <2>3 DEF NextLeaf
<1>2. \A x \in Nat : F[x] = B(F, x)
  <2>1. SUFFICES ASSUME NEW x \in Nat PROVE x + NextLeaf(x) = B(F, x)
    OBVIOUS
  <2>2. CASE IndexHeight(x) < IndexHeight(x + 1)
    <3>1. IndexHeight(x + 1) # 0
      BY <2>2, AfterNode
    <3>2. F[x + 1] = x + 1 + NextLeaf(x + 1)
      BY <1>1
    <3> QED BY <1>1, <2>2, <3>1, <3>2
  <2>3. CASE ~ (IndexHeight(x) < IndexHeight(x + 1))
    <3>1. IndexHeight(x + 1) = 0
      BY <2>3, AfterNode
    <3> QED BY <1>1, <2>3, <3>1
  <2> QED BY <2>2, <2>3
<1>3. F = [x \in Nat |-> B(F, x)]
  <2> HIDE DEF B
  <2> QED BY <1>2
<1>4. firstMMRSize = [x \in Nat |-> B(firstMMRSize, x)]
  <2>1. \E f : f = [x \in Nat |-> B(f, x)]
    <3> HIDE DEF F, B
    <3> QED BY <1>3
  <2> QED BY <2>1 DEF firstMMRSize
<1>5. \A x \in Nat : firstMMRSize[x] = B(firstMMRSize, x)
  <2> HIDE DEF B
  <2> QED BY <1>4
<1> DEFINE P(d) == \A x \in Nat : NextLeaf(x) = d => firstMMRSize[x] = x + d
           T == {d \in Nat : ~ P(d)}
<1>6. T = {}
  <2> SUFFICES ASSUME T # {} PROVE FALSE
    OBVIOUS
  <2>1. PICK d \in T : \A y \in T : d <= y
    <3>1. T \in SUBSET Nat
      OBVIOUS
    <3> HIDE DEF T
    <3> QED BY <3>1, NatLeast
  <2>2. d \in Nat /\ ~ P(d) /\ \A y \in Nat : y < d => P(y)
    <3>1. d \in Nat /\ ~ P(d) /\ \A y \in Nat : ~ P(y) => d <= y
      <4> HIDE DEF P
      <4> QED BY <2>1
    <3> HIDE DEF P
    <3> QED BY <3>1
  <2>3. ASSUME NEW x \in Nat, NextLeaf(x) = d PROVE firstMMRSize[x] = x + d
    <3>1. CASE IndexHeight(x) < IndexHeight(x + 1)
      <4>1. IndexHeight(x + 1) # 0
        BY <3>1, AfterNode
      <4>2. x + 1 \in Nat /\ d - 1 \in Nat /\ d - 1 < d /\ NextLeaf(x + 1) = d - 1
        BY <1>1, <2>3, <4>1
      <4>3. firstMMRSize[x + 1] = x + 1 + (d - 1)
        BY <2>2, <4>2
      <4>4. firstMMRSize[x] = firstMMRSize[x + 1]
        BY <1>5, <3>1
      <4> QED BY <2>2, <4>3, <4>4
    <3>2. CASE ~ (IndexHeight(x) < IndexHeight(x + 1))
      <4>1. IndexHeight(x + 1) = 0
        BY <3>2, AfterNode
      <4>2. firstMMRSize[x] = x + 1
        BY <1>5, <3>2
      <4> QED BY <1>1, <2>3, <4>1, <4>2
    <3> QED BY <3>1, <3>2
  <2> QED BY <2>2, <2>3
<1>7. NextLeaf(n) \in Nat /\ P(NextLeaf(n))
  <2> HIDE DEF P
  <2> QED BY <1>1, <1>6
<1> QED BY <1>7 DEF FirstMMRSize

(* The first complete range that has a node is that over the leaves up to  *)
(* the last one that was added with it.                                    *)
LEMMA FirstMMRSizeOf ==
  ASSUME NEW h \in Nat, NEW k \in Nat
  PROVE  FirstMMRSize(NodePos(h, k) - 1) = MMRIndex((k + 1) * 2^h)
<1> DEFINE n == (k + 1) * 2^h
           i == NodePos(h, k) - 1
           d == MMRIndex(n) - i
<1>1. /\ n \in Nat /\ n - 1 \in Nat /\ MMRIndex(n) \in Nat /\ MMRIndex(n - 1) \in Nat
      /\ NodePos(h, k) = MMRIndex(n - 1) + 1 + h /\ NodePos(h, k) <= MMRIndex(n)
  <2>1. n \in Nat /\ n - 1 \in Nat /\ NodePos(h, k) = MMRIndex(n - 1) + 1 + h
    BY NodePosBounds, LastLeafPos
  <2>2. NodePos(h, k) <= MMRIndex(n)
    <3>1. n <= n
      BY <2>1
    <3> QED BY <2>1, <3>1, NodeInRange
  <2> HIDE DEF n
  <2> QED BY <2>1, <2>2, MMRIndexBounds
<1>2. i \in Nat /\ d \in Nat /\ d # 0 /\ i + d = MMRIndex(n)
  <2> HIDE DEF n
  <2> QED BY <1>1
<1>3. IndexHeight(i + d) = 0
  <2>1. NodePos(0, n) = MMRIndex(n) + 1 /\ PosHeight(NodePos(0, n)) = 0
    <3> HIDE DEF n
    <3> QED BY <1>1, LeafPos, HeightOfNode
  <2> QED BY <1>2, <2>1 DEF IndexHeight
<1>4. ASSUME NEW e \in Nat, e # 0, e < d PROVE IndexHeight(i + e) # 0
  <2>0. i + e \in Nat /\ i + e + 1 \in Nat /\ i + e + 1 # 0
    <3> HIDE DEF i
    <3> QED BY <1>2
  <2>1. PICK g \in Nat, l \in Nat : i + e + 1 = NodePos(g, l)
    BY <2>0, EveryPosition
  <2>2. IndexHeight(i + e) = g
    BY <2>0, <2>1, HeightOfNode DEF IndexHeight
  <2>3. ASSUME g = 0 PROVE FALSE
    <3>1. NodePos(0, l) = MMRIndex(l) + 1 /\ MMRIndex(l) \in Nat
      BY LeafPos, MMRIndexBounds
    <3>2. i + e = MMRIndex(l)
      <4> HIDE DEF i
      <4> QED BY <1>2, <2>0, <2>1, <2>3, <3>1
    <3> HIDE DEF n
    <3>3. CASE l <= n - 1
      <4>1. MMRIndex(l) + (n - 1 - l) <= MMRIndex(n - 1)
        BY <1>1, <3>3, MMRIndexMono
      <4> QED BY <1>1, <1>2, <1>4, <3>1, <3>2, <3>3, <4>1
    <3>4. CASE ~ (l <= n - 1)
      <4>1. n <= l
        BY <1>1, <3>4
      <4>2. MMRIndex(n) + (l - n) <= MMRIndex(l)
        BY <1>1, <4>1, MMRIndexMono
      <4> QED BY <1>1, <1>2, <1>4, <3>1, <3>2, <4>1, <4>2
    <3> QED BY <3>3, <3>4
  <2> QED BY <2>2, <2>3
<1>5. NextLeaf(i) = d
  <2> HIDE DEF i, d
  <2>1. \A c \in Nat : c # 0 /\ IndexHeight(i + c) = 0
          /\ (\A e \in Nat : e # 0 /\ e < c => IndexHeight(i + e) # 0) => c = d
    BY <1>2, <1>3, <1>4
  <2> QED BY <1>2, <1>3, <1>4, <2>1 DEF NextLeaf
<1>6. FirstMMRSize(i) = i + d
  <2> HIDE DEF i, d
  <2> QED BY <1>2, <1>5, FirstMMRSizeIs
<1> QED BY <1>2, <1>6

(* LeafIndex of a node is the number of the last leaf under it. *)
LEMMA LeafIndexOf ==
  ASSUME NEW h \in Nat, NEW k \in Nat
  PROVE  LeafIndex(NodePos(h, k) - 1) = (k + 1) * 2^h - 1
<1> DEFINE n == (k + 1) * 2^h
<1>1. n \in Nat /\ n + 1 \in Nat /\ MMRIndex(n) \in Nat /\ MMRIndex(n + 1) \in Nat
  <2>1. n \in Nat
    BY NodePosBounds
  <2> HIDE DEF n
  <2> QED BY <2>1, MMRIndexBounds
<1>2. FirstMMRSize(NodePos(h, k) - 1) = MMRIndex(n)
  BY FirstMMRSizeOf
<1> HIDE DEF n
<1>3. MMRIndex(n) + (n + 1 - n) <= MMRIndex(n + 1)
  BY <1>1, MMRIndexMono
<1>4. PeaksBitmap(MMRIndex(n)) = n
  BY <1>1, <1>3, PeaksBitmapIs
<1> QED BY <1>2, <1>4 DEF LeafIndex, LeafCount, n

(* The trailing zeros of a number are what is not odd of it. *)
LEMMA TrailingZerosIs ==
  ASSUME NEW h \in Nat, NEW j \in Nat
  PROVE  TrailingZeros((2 * j + 1) * 2^h) = h
<1> DEFINE n == (2 * j + 1) * 2^h
<1>1. n \in Nat /\ n # 0 /\ h <= n
  <2>1. 2^h \in Nat /\ 2^h > 0 /\ h < 2^h
    BY PowType, BelowPow
  <2>2. ASSUME NEW y \in Nat, y > 0 PROVE (2 * j + 1) * y \in Nat /\ y <= (2 * j + 1) * y
    <3>1. (2 * j + 1) * y = (2 * j) * y + y /\ (2 * j) * y \in Nat
      OBVIOUS
    <3> QED BY <3>1
  <2>3. n \in Nat /\ 2^h <= n
    BY <2>1, <2>2
  <2> HIDE DEF n
  <2> QED BY <2>1, <2>3
<1>2. ASSUME NEW y \in Nat, y > 0, NEW c \in Nat PROVE (c * y) % y = 0
  <2>1. c * y \in Nat /\ c * y <= c * y /\ c * y < (c + 1) * y
    <3>1. (c + 1) * y = c * y + y /\ c * y \in Nat
      BY <1>2
    <3> QED BY <1>2, <3>1
  <2>2. (c * y) \div y = c
    <3> DEFINE m == c * y
    <3>1. m \in Nat /\ c * y <= m /\ m < (c + 1) * y
      BY <2>1
    <3> HIDE DEF m
    <3>2. m \div y = c
      BY <3>1, <1>2, DivIs
    <3> QED BY <3>2 DEF m
  <2>3. c * y = c * y + ((c * y) % y) /\ (c * y) % y \in Nat
    <3> DEFINE m == c * y
    <3>1. m \in Nat /\ m \div y = c
      BY <2>1, <2>2
    <3> HIDE DEF m
    <3>2. m = (m \div y) * y + (m % y) /\ m % y \in Nat
      BY <1>2, <3>1, DivMod
    <3>3. m = c * y + (m % y)
      BY <3>1, <3>2
    <3> QED BY <3>2, <3>3 DEF m
  <2> QED BY <2>1, <2>3
<1>3. ASSUME NEW k \in Nat, k <= h PROVE n % 2^k = 0
  <2>1. 2^(h - k) \in Nat /\ 2^h = 2^k * 2^(h - k) /\ 2^k \in Nat /\ 2^k > 0
    BY <1>3, PowSplit, PowType
  <2>2. ASSUME NEW y \in Nat, NEW z \in Nat
        PROVE  (2 * j + 1) * z \in Nat /\ (2 * j + 1) * (y * z) = ((2 * j + 1) * z) * y
    OBVIOUS
  <2>3. (2 * j + 1) * 2^(h - k) \in Nat /\ n = ((2 * j + 1) * 2^(h - k)) * 2^k
    BY <2>1, <2>2
  <2> HIDE DEF n
  <2> QED BY <1>2, <2>1, <2>3
<1>4. ASSUME NEW k \in Nat, n % 2^k = 0 PROVE k <= h
  <2>1. 2^k \in Nat /\ 2^k > 0
    BY PowType
  <2> DEFINE c == n \div 2^k
  <2>2. c \in Nat /\ n = c * 2^k
    <3> HIDE DEF n
    <3>1. c \in Nat /\ n = c * 2^k + (n % 2^k)
      BY <1>1, <2>1, DivMod
    <3>2. c * 2^k \in Nat
      BY <2>1, <3>1
    <3> QED BY <1>4, <3>1, <3>2
  <2> HIDE DEF c
  <2>3. c # 0
    <3> HIDE DEF n
    <3>1. c = 0 => c * 2^k = 0
      BY <2>1
    <3> QED BY <1>1, <2>2, <3>1
  <2>4. c - 1 \in Nat /\ (c - 1) + 1 = c
    BY <2>2, <2>3
  <2>5. ((c - 1) + 1) * 2^k = (2 * j + 1) * 2^h
    BY <2>2, <2>4
  <2> QED BY <2>4, <2>5, RunOfOdd
<1>5. \A k \in 0 .. n : n % 2^k = 0 /\ n % 2^(k + 1) # 0 <=> k = h
  <2>1. ASSUME NEW k \in 0 .. n, n % 2^k = 0, n % 2^(k + 1) # 0 PROVE k = h
    <3>1. k \in Nat /\ k + 1 \in Nat
      OBVIOUS
    <3>2. k <= h
      BY <1>4, <2>1, <3>1
    <3>3. ~ (k + 1 <= h)
      BY <1>3, <2>1, <3>1
    <3> QED BY <3>1, <3>2, <3>3
  <2>2. n % 2^h = 0 /\ n % 2^(h + 1) # 0
    <3>1. h + 1 \in Nat /\ ~ (h + 1 <= h) /\ h <= h
      OBVIOUS
    <3> QED BY <1>3, <1>4, <3>1
  <2> HIDE DEF n
  <2> QED BY <2>1, <2>2
<1>6. h \in 0 .. n
  <2> HIDE DEF n
  <2> QED BY <1>1
<1>7. TrailingZeros(n) = h
  <2> HIDE DEF n
  <2> QED BY <1>5, <1>6 DEF TrailingZeros
<1> QED BY <1>7

(* SpurSumHeight: all interior nodes but the last climb's. *)
LEMMA SpurSumHeightIs ==
  ASSUME NEW h \in Nat, h # 0
  PROVE  SpurSumHeight(h) + h = 2^h - 1
<1> DEFINE S == Nat \X Nat
           B(f, x) == IF x[2] <= x[1] - 1
                      THEN 2^(x[1] - 1 - x[2]) * x[2] + f[<<x[1], x[2] + 1>>]
                      ELSE 0
           C(g, i) == IF i <= g THEN (i + 1) * 2^(g - i) - g - 1 ELSE 0
           F == [x \in S |-> C(x[1], x[2])]
<1>1. ASSUME NEW g \in Nat, NEW i \in Nat
      PROVE  C(g, i) = IF i <= g - 1 THEN 2^(g - 1 - i) * i + C(g, i + 1) ELSE 0
  <2>1. CASE i <= g - 1
    <3>1. g - 1 - i \in Nat /\ g - i = (g - 1 - i) + 1 /\ g - (i + 1) = g - 1 - i
          /\ i <= g /\ i + 1 <= g
      BY <2>1
    <3>2. 2^(g - 1 - i) \in Nat /\ 2^(g - i) = 2 * 2^(g - 1 - i)
      BY <3>1, PowType, PowStep
    <3>3. ASSUME NEW y \in Nat
          PROVE  (i + 1) * (2 * y) - g - 1 = y * i + ((i + 1 + 1) * y - g - 1)
      OBVIOUS
    <3>4. C(g, i) = (i + 1) * (2 * 2^(g - 1 - i)) - g - 1
          /\ C(g, i + 1) = (i + 1 + 1) * 2^(g - 1 - i) - g - 1
      BY <3>1, <3>2
    <3> QED BY <2>1, <3>2, <3>3, <3>4
  <2>2. CASE i = g
    <3>1. g - i = 0 /\ 2^0 = 1
      BY <2>2, PowZero
    <3>2. C(g, i) = (i + 1) * 1 - g - 1
      BY <2>2, <3>1
    <3>3. C(g, i) = 0 /\ ~ (i <= g - 1)
      BY <2>2, <3>2
    <3> HIDE DEF C
    <3> QED BY <3>3
  <2>3. CASE i > g
    BY <2>3
  <2> QED BY <2>1, <2>2, <2>3
<1>2. \A g, i \in Nat : F[<<g, i>>] = C(g, i)
  <2> HIDE DEF C
  <2> QED OBVIOUS
<1>3. \A x \in S : F[x] = B(F, x)
  <2>1. SUFFICES ASSUME NEW g \in Nat, NEW i \in Nat PROVE F[<<g, i>>] = B(F, <<g, i>>)
    OBVIOUS
  <2>2. i + 1 \in Nat /\ F[<<g, i>>] = C(g, i) /\ F[<<g, i + 1>>] = C(g, i + 1)
    BY <1>2
  <2> HIDE DEF C, F
  <2> QED BY <1>1, <2>2
<1>4. spurs = [x \in S |-> B(spurs, x)]
  <2>1. F = [x \in S |-> B(F, x)]
    <3> HIDE DEF B, C
    <3> QED BY <1>3
  <2>2. \E f : f = [x \in S |-> B(f, x)]
    <3> HIDE DEF F, B
    <3> QED BY <2>1
  <2> QED BY <2>2 DEF spurs
<1>5. \A g, i \in Nat : spurs[<<g, i>>] = B(spurs, <<g, i>>)
  <2> HIDE DEF B
  <2> QED BY <1>4
<1> DEFINE P(d) == \A i \in Nat : i + d = h => spurs[<<h, i>>] = C(h, i)
           T == {d \in Nat : ~ P(d)}
<1>6. T = {}
  <2> SUFFICES ASSUME T # {} PROVE FALSE
    OBVIOUS
  <2>1. PICK d \in T : \A y \in T : d <= y
    <3>1. T \in SUBSET Nat
      OBVIOUS
    <3> HIDE DEF T
    <3> QED BY <3>1, NatLeast
  <2>2. d \in Nat /\ ~ P(d) /\ \A y \in Nat : y < d => P(y)
    <3>1. d \in Nat /\ ~ P(d) /\ \A y \in Nat : ~ P(y) => d <= y
      <4> HIDE DEF P
      <4> QED BY <2>1
    <3> HIDE DEF P
    <3> QED BY <3>1
  <2> HIDE DEF C
  <2>3. ASSUME NEW i \in Nat, i + d = h PROVE spurs[<<h, i>>] = C(h, i)
    <3>1. spurs[<<h, i>>] = IF i <= h - 1
                            THEN 2^(h - 1 - i) * i + spurs[<<h, i + 1>>] ELSE 0
      BY <1>5
    <3>2. i <= h - 1 => spurs[<<h, i + 1>>] = C(h, i + 1)
      <4>1. SUFFICES ASSUME i <= h - 1 PROVE spurs[<<h, i + 1>>] = C(h, i + 1)
        OBVIOUS
      <4>2. i + 1 \in Nat /\ d - 1 \in Nat /\ d - 1 < d /\ i + 1 + (d - 1) = h
        BY <2>2, <2>3, <4>1
      <4> QED BY <2>2, <4>2
    <3> QED BY <1>1, <3>1, <3>2
  <2> QED BY <2>2, <2>3
<1>7. spurs[<<h, 1>>] = C(h, 1)
  <2>1. h - 1 \in Nat /\ 1 + (h - 1) = h /\ 1 \in Nat
    OBVIOUS
  <2>2. P(h - 1)
    <3> HIDE DEF P
    <3> QED BY <1>6, <2>1
  <2> HIDE DEF C
  <2> QED BY <2>1, <2>2
<1>8. 2^h = 2 * 2^(h - 1) /\ 2^(h - 1) \in Nat
  <2>1. h - 1 \in Nat /\ (h - 1) + 1 = h
    OBVIOUS
  <2> QED BY <2>1, PowStep, PowType
<1>9. C(h, 1) = 2 * 2^(h - 1) - h - 1
  BY <1>8
<1> QED BY <1>7, <1>8, <1>9 DEF SpurSumHeight

(* TreeIndexOld and MMRIndex agree. *)
LEMMA TreeIndexIs ==
  ASSUME NEW n \in Nat
  PROVE  TreeIndexOld(n) = MMRIndex(n)
<1> DEFINE B(f, x) == IF x = 0 THEN 0
                      ELSE LET g == BitLength(x)
                           IN SpurSumHeight(g) + g + f[x - 2^(g - 1)]
           F == [x \in Nat |-> MMRIndex(x)]
<1>1. ASSUME NEW x \in Nat, x # 0
      PROVE  /\ x - 2^(BitLength(x) - 1) \in Nat /\ x - 2^(BitLength(x) - 1) < x
             /\ SpurSumHeight(BitLength(x)) + BitLength(x) = 2^BitLength(x) - 1
  BY <1>1, ClearTop, SpurSumHeightIs
<1>2. ASSUME NEW x \in Nat PROVE F[x] = B(F, x)
  <2>1. CASE x = 0
    BY <2>1, MMRIndexDef
  <2>2. CASE x # 0
    <3>1. F[x - 2^(BitLength(x) - 1)] = MMRIndex(x - 2^(BitLength(x) - 1))
      BY <1>1, <2>2
    <3>2. MMRIndex(x) = 2^BitLength(x) - 1 + MMRIndex(x - 2^(BitLength(x) - 1))
      BY <2>2, MMRIndexDef
    <3>3. B(F, x) = 2^BitLength(x) - 1 + MMRIndex(x - 2^(BitLength(x) - 1))
      <4> HIDE DEF F
      <4> QED BY <1>1, <2>2, <3>1
    <3> QED BY <3>2, <3>3
  <2> QED BY <2>1, <2>2
<1>3. treeIndex = [x \in Nat |-> B(treeIndex, x)]
  <2>1. F = [x \in Nat |-> B(F, x)]
    <3> HIDE DEF B
    <3> QED BY <1>2
  <2>2. \E f : f = [x \in Nat |-> B(f, x)]
    <3> HIDE DEF F, B
    <3> QED BY <2>1
  <2> QED BY <2>2 DEF treeIndex
<1>4. \A x \in Nat : treeIndex[x] = B(treeIndex, x)
  <2> HIDE DEF B
  <2> QED BY <1>3
<1> DEFINE T == {x \in Nat : treeIndex[x] # MMRIndex(x)}
<1>5. T = {}
  <2> SUFFICES ASSUME T # {} PROVE FALSE
    OBVIOUS
  <2>1. PICK x \in T : \A y \in T : x <= y
    <3>1. T \in SUBSET Nat
      OBVIOUS
    <3> HIDE DEF T
    <3> QED BY <3>1, NatLeast
  <2>2. x \in Nat /\ treeIndex[x] # MMRIndex(x)
        /\ \A y \in Nat : y < x => treeIndex[y] = MMRIndex(y)
    BY <2>1
  <2>3. CASE x = 0
    BY <1>4, <2>2, <2>3, MMRIndexDef
  <2>4. CASE x # 0
    <3> DEFINE r == x - 2^(BitLength(x) - 1)
    <3>1. r \in Nat /\ r < x /\ SpurSumHeight(BitLength(x)) + BitLength(x) = 2^BitLength(x) - 1
      BY <1>1, <2>2, <2>4
    <3>2. treeIndex[x] = SpurSumHeight(BitLength(x)) + BitLength(x) + treeIndex[r]
      BY <1>4, <2>2, <2>4
    <3>3. MMRIndex(x) = 2^BitLength(x) - 1 + MMRIndex(r)
      BY <2>2, <2>4, MMRIndexDef
    <3> HIDE DEF r
    <3>4. treeIndex[r] = MMRIndex(r)
      BY <2>2, <3>1
    <3> QED BY <2>2, <3>1, <3>2, <3>3, <3>4
  <2> QED BY <2>3, <2>4
<1> QED BY <1>5 DEF TreeIndexOld

-----------------------------------------------------------------------------
(* The hashes there can be.  A set that has the leaf values and the hash   *)
(* of any two of its members at any position is the union of levels.       *)

PairsOf(W) == {<<p, a, b>> : p \in Nat, a \in W, b \in W}

(* There is a set of all the hashes that can come up. *)
LEMMA HashesExist ==
  ASSUME NEW W
  PROVE  \E H : W \subseteq H /\ PairsOf(H) \subseteq H
<1> DEFINE L(n, f) == /\ f = [j \in 0 .. n |-> f[j]]
                      /\ f[0] = W
                      /\ \A j \in 1 .. n : f[j] = f[j - 1] \cup PairsOf(f[j - 1])
           T == {n \in Nat : ~ \E f : L(n, f)}
<1>1. T = {}
  <2> SUFFICES ASSUME T # {} PROVE FALSE
    OBVIOUS
  <2>1. PICK n \in T : \A y \in T : n <= y
    <3>1. T \in SUBSET Nat
      OBVIOUS
    <3> HIDE DEF T
    <3> QED BY <3>1, NatLeast
  <2>2. n \in Nat /\ ~ (\E f : L(n, f)) /\ \A y \in Nat : y < n => \E f : L(y, f)
    <3>1. n \in Nat /\ ~ (\E f : L(n, f)) /\ T \subseteq Nat
      OBVIOUS
    <3>2. \A y \in Nat : y \notin T => \E f : L(y, f)
      OBVIOUS
    <3> HIDE DEF T, L
    <3> QED BY <2>1, <3>1, <3>2
  <2>3. CASE n = 0
    <3>1. L(0, [j \in 0 .. 0 |-> W])
      OBVIOUS
    <3> QED BY <2>2, <2>3, <3>1
  <2>4. CASE n # 0
    <3>1. n - 1 \in Nat /\ n - 1 < n
      BY <2>2, <2>4
    <3>2. PICK f : L(n - 1, f)
      BY <2>2, <3>1
    <3> DEFINE h == [j \in 0 .. n |-> IF j = n THEN f[n - 1] \cup PairsOf(f[n - 1]) ELSE f[j]]
    <3>3. h = [j \in 0 .. n |-> h[j]]
      OBVIOUS
    <3>4. h[0] = W
      BY <2>2, <2>4, <3>2
    <3>5. ASSUME NEW j \in 1 .. n PROVE h[j] = h[j - 1] \cup PairsOf(h[j - 1])
      <4>1. j - 1 \in 0 .. n - 1 /\ j \in 0 .. n /\ j - 1 \in 0 .. n /\ j - 1 # n
        BY <2>2
      <4>2. h[j - 1] = f[j - 1]
        BY <4>1
      <4>3. CASE j = n
        BY <4>1, <4>2, <4>3
      <4>4. CASE j # n
        <5>1. j \in 1 .. n - 1 /\ h[j] = f[j]
          BY <2>2, <4>1, <4>4
        <5> QED BY <3>2, <4>2, <5>1
      <4> QED BY <4>3, <4>4
    <3> HIDE DEF h
    <3> QED BY <2>2, <3>3, <3>4, <3>5
  <2> QED BY <2>3, <2>4
<1>2. \A n \in Nat : \E f : L(n, f)
  <2> HIDE DEF L
  <2> QED BY <1>1
<1>3. ASSUME NEW k \in Nat, NEW n \in Nat, NEW f, NEW h, L(k, f), L(n, h), NEW x \in Nat,
             x <= k, x <= n
      PROVE  f[x] = h[x]
  <2> DEFINE Bad == {y \in Nat : y <= k /\ y <= n /\ f[y] # h[y]}
  <2> SUFFICES ASSUME Bad # {} PROVE FALSE
    BY <1>3
  <2>1. PICK y \in Bad : \A z \in Bad : y <= z
    <3>1. Bad \in SUBSET Nat
      OBVIOUS
    <3> HIDE DEF Bad
    <3> QED BY <3>1, NatLeast
  <2>2. y \in Nat /\ y <= k /\ y <= n /\ f[y] # h[y]
    OBVIOUS
  <2>3. CASE y = 0
    BY <1>3, <2>2, <2>3
  <2>4. CASE y # 0
    <3>1. y - 1 \in Nat /\ y - 1 < y /\ y - 1 <= k /\ y - 1 <= n
      BY <2>2, <2>4
    <3>2. y - 1 \notin Bad
      <4> HIDE DEF Bad
      <4> QED BY <2>1, <2>2, <3>1
    <3>3. f[y - 1] = h[y - 1]
      BY <3>1, <3>2
    <3>4. y \in 1 .. k /\ y \in 1 .. n
      BY <2>2, <2>4
    <3> QED BY <1>3, <2>2, <3>3, <3>4
  <2> QED BY <2>3, <2>4
<1> DEFINE c(n) == CHOOSE f : L(n, f)
           A(n) == c(n)[n]
           H == UNION {A(n) : n \in Nat}
<1>4. \A n \in Nat : L(n, c(n))
  <2> HIDE DEF L
  <2> QED BY <1>2
<1> HIDE DEF c
<1>5. A(0) = W
  BY <1>4
<1>6. ASSUME NEW n \in Nat PROVE A(n + 1) = A(n) \cup PairsOf(A(n))
  <2>1. n + 1 \in Nat /\ L(n, c(n)) /\ L(n + 1, c(n + 1))
    <3>1. n + 1 \in Nat
      OBVIOUS
    <3> HIDE DEF L
    <3> QED BY <3>1, <1>4
  <2>2. A(n + 1) = c(n + 1)[n] \cup PairsOf(c(n + 1)[n])
    <3>1. n + 1 \in 1 .. n + 1 /\ n + 1 - 1 = n
      OBVIOUS
    <3> QED BY <2>1, <3>1
  <2>3. c(n + 1)[n] = A(n)
    <3>1. n <= n + 1 /\ n <= n
      OBVIOUS
    <3> HIDE DEF L
    <3> QED BY <1>3, <2>1, <3>1
  <2> HIDE DEF A
  <2> QED BY <2>2, <2>3
<1> HIDE DEF A
<1>7. ASSUME NEW n \in Nat, NEW k \in Nat, n <= k PROVE A(n) \subseteq A(k)
  <2> DEFINE Bad == {y \in Nat : n <= y /\ ~ (A(n) \subseteq A(y))}
  <2> SUFFICES ASSUME Bad # {} PROVE FALSE
    BY <1>7
  <2>1. PICK y \in Bad : \A z \in Bad : y <= z
    <3>1. Bad \in SUBSET Nat
      OBVIOUS
    <3> HIDE DEF Bad
    <3> QED BY <3>1, NatLeast
  <2>2. y \in Nat /\ n <= y /\ ~ (A(n) \subseteq A(y))
    OBVIOUS
  <2>3. y # n
    BY <2>2
  <2>4. y - 1 \in Nat /\ n <= y - 1 /\ y - 1 < y /\ y = (y - 1) + 1
    BY <2>2, <2>3
  <2>5. y - 1 \notin Bad
    <3> HIDE DEF Bad
    <3> QED BY <2>1, <2>2, <2>4
  <2>6. A(n) \subseteq A(y - 1)
    BY <2>4, <2>5
  <2>7. A(y - 1) \subseteq A(y)
    BY <1>6, <2>4
  <2> QED BY <2>2, <2>6, <2>7
<1>8. W \subseteq H
  BY <1>5
<1>9. ASSUME NEW e \in PairsOf(H) PROVE e \in H
  <2>1. PICK p \in Nat, a \in H, b \in H : e = <<p, a, b>>
    BY DEF PairsOf
  <2>2. PICK n \in Nat, k \in Nat : a \in A(n) /\ b \in A(k)
    OBVIOUS
  <2>3. PICK l \in Nat : n <= l /\ k <= l
    OBVIOUS
  <2>4. a \in A(l) /\ b \in A(l)
    BY <1>7, <2>2, <2>3
  <2>5. e \in A(l + 1)
    BY <1>6, <2>1, <2>4 DEF PairsOf
  <2> QED BY <2>5
<1> HIDE DEF H
<1> QED BY <1>8, <1>9

-----------------------------------------------------------------------------
(* Folds over sequences: what FoldLeft computes is the last of a run of    *)
(* values, one for each element and one to begin with.                     *)

(* Induction over the rounds of a loop. *)
LEMMA UpTo ==
  ASSUME NEW S, NEW n \in Nat, 0 \in S, \A x \in 1 .. n : x - 1 \in S => x \in S
  PROVE  \A x \in 0 .. n : x \in S
<1> DEFINE Bad == {x \in Nat : x <= n /\ x \notin S}
<1>1. Bad = {}
  <2> SUFFICES ASSUME Bad # {} PROVE FALSE
    OBVIOUS
  <2>1. PICK x \in Bad : \A y \in Bad : x <= y
    <3>1. Bad \in SUBSET Nat
      OBVIOUS
    <3> HIDE DEF Bad
    <3> QED BY <3>1, NatLeast
  <2>2. x \in Nat /\ x <= n /\ x \notin S /\ x # 0
    OBVIOUS
  <2>3. x \in 1 .. n /\ x - 1 \in Nat /\ x - 1 <= n /\ ~ (x <= x - 1)
    BY <2>2
  <2>4. x - 1 \notin Bad
    <3> HIDE DEF Bad
    <3> QED BY <2>1, <2>3
  <2>5. x - 1 \in S
    BY <2>3, <2>4
  <2> QED BY <2>2, <2>3, <2>5
<1> QED BY <1>1

(* The largest of some indices is one of them. *)
LEMMA MaxOfIndices ==
  ASSUME NEW E, NEW seq \in Seq(E), NEW s \in SUBSET DOMAIN seq, s # {}
  PROVE  Max(s) \in s /\ seq[Max(s)] \in E
<1> DEFINE R == {Len(seq) - x : x \in s}
<1>1. s \subseteq 1 .. Len(seq) /\ Len(seq) \in Nat
  OBVIOUS
<1>2. R \in SUBSET Nat /\ R # {}
  BY <1>1
<1>3. PICK r \in R : \A y \in R : r <= y
  <2> HIDE DEF R
  <2> QED BY <1>2, NatLeast
<1>4. PICK x \in s : r = Len(seq) - x
  OBVIOUS
<1>5. ASSUME NEW y \in s PROVE x >= y
  <2>1. Len(seq) - y \in R /\ x \in Nat /\ y \in Nat
    BY <1>1
  <2>2. Len(seq) - x <= Len(seq) - y
    <3> HIDE DEF R
    <3> QED BY <2>1, <1>3, <1>4
  <2> QED BY <2>1, <2>2, <1>1
<1>6. Max(s) \in s
  BY <1>4, <1>5 DEF Max
<1> QED BY <1>1, <1>6

(* The function that MapThenFoldSet iterates, for a fold over seq *)
FoldEquation(f, V, Op, base, seq) ==
  /\ f \in [SUBSET DOMAIN seq -> V]
  /\ f = [s \in SUBSET DOMAIN seq |->
            IF s = {} THEN base ELSE Op[<<f[s \ {Max(s)}], seq[Max(s)]>>]]

(* The equation of the function that MapThenFoldSet iterates has a         *)
(* solution.                                                               *)
LEMMA FoldSolution ==
  ASSUME NEW V, NEW E, NEW Op \in [V \X E -> V], NEW base \in V, NEW seq \in Seq(E)
  PROVE  \E f : FoldEquation(f, V, Op, base, seq)
<1> DEFINE S == SUBSET DOMAIN seq
           B(f, s) == IF s = {} THEN base ELSE Op[<<f[s \ {Max(s)}], seq[Max(s)]>>]
           D == [p \in [S -> V] \X S |-> B(p[1], p[2])]
           m == [s \in S |-> Cardinality(s)]
<1>1. ASSUME NEW s \in S
      PROVE  /\ Cardinality(s) \in Nat
             /\ s # {} => /\ Max(s) \in s /\ s \ {Max(s)} \in S /\ seq[Max(s)] \in E
                          /\ Cardinality(s \ {Max(s)}) < Cardinality(s)
  <2>1. IsFiniteSet(s) /\ Cardinality(s) \in Nat
    <3>1. IsFiniteSet(1 .. Len(seq)) /\ s \subseteq 1 .. Len(seq)
      BY FS_Interval
    <3> QED BY <3>1, FS_Subset, FS_CardinalityType
  <2>2. s # {} => Max(s) \in s /\ seq[Max(s)] \in E
    BY MaxOfIndices
  <2>3. s # {} => Cardinality(s \ {Max(s)}) < Cardinality(s)
    <3>1. s # {} => Cardinality(s \ {Max(s)}) = Cardinality(s) - 1
      BY <2>1, <2>2, FS_RemoveElement
    <3> QED BY <2>1, <3>1
  <2> QED BY <2>1, <2>2, <2>3
<1>2. \A f \in [S -> V], s \in S : B(f, s) \in V /\ D[<<f, s>>] = B(f, s)
  <2>1. ASSUME NEW f \in [S -> V], NEW s \in S PROVE B(f, s) \in V
    <3>1. s # {} => f[s \ {Max(s)}] \in V /\ seq[Max(s)] \in E
      <4> HIDE DEF S
      <4> QED BY <1>1
    <3> HIDE DEF S
    <3> QED BY <3>1
  <2> HIDE DEF B, S
  <2> QED BY <2>1
<1>3. D \in [[S -> V] \X S -> V]
  <2> HIDE DEF B, S
  <2> QED BY <1>2
<1>4. ASSUME NEW f \in [S -> V], NEW g \in [S -> V], NEW s \in S,
             \A t \in S : m[t] < m[s] => f[t] = g[t]
      PROVE  D[<<f, s>>] = D[<<g, s>>]
  <2>1. s # {} => f[s \ {Max(s)}] = g[s \ {Max(s)}]
    <3> HIDE DEF S
    <3> QED BY <1>1, <1>4
  <2>2. B(f, s) = B(g, s)
    BY <2>1
  <2> HIDE DEF B, S, m
  <2> QED BY <1>2, <2>2
<1>5. \E f \in [S -> V] : \A s \in S : f[s] = D[<<f, s>>]
  <2>1. V # {} /\ m \in [S -> Nat]
    <3> HIDE DEF S
    <3> QED BY <1>1
  <2> HIDE DEF D, S, m
  <2>2. LooksBelow(S, V, m, D)
    BY <2>1, <1>3, <1>4 DEF LooksBelow
  <2> QED BY <2>2, Recursion
<1>6. PICK f \in [S -> V] : \A s \in S : f[s] = D[<<f, s>>]
  BY <1>5
<1>7. \A s \in S : f[s] = B(f, s)
  <2> HIDE DEF B, D, S
  <2> QED BY <1>2, <1>6
<1>8. f = [s \in S |-> B(f, s)]
  <2> HIDE DEF B, S
  <2> QED BY <1>7
<1>9. FoldEquation(f, V, Op, base, seq)
  BY <1>6, <1>8 DEF FoldEquation
<1> QED BY <1>9

(* The largest element of an initial segment is the last. *)
LEMMA MaxOfSegment ==
  ASSUME NEW n \in Nat, n # 0
  PROVE  Max(1 .. n) = n /\ (1 .. n) \ {n} = 1 .. n - 1 /\ 1 .. n # {}
<1>1. n \in 1 .. n /\ \A y \in 1 .. n : n >= y
  OBVIOUS
<1>2. \A x \in 1 .. n : (\A y \in 1 .. n : x >= y) => x = n
  OBVIOUS
<1>3. Max(1 .. n) = n
  BY <1>1, <1>2 DEF Max
<1> QED BY <1>1, <1>3

(* The values of a fold over seq, the last of which is x *)
FoldsTo(r, V, Op, base, seq, x) ==
  /\ r \in [0 .. Len(seq) -> V]
  /\ r[0] = base
  /\ \A j \in 1 .. Len(seq) : r[j] = Op[<<r[j - 1], seq[j]>>]
  /\ r[Len(seq)] = x

(* The run of values of a fold, from the function that it iterates *)
LEMMA FoldRun ==
  ASSUME NEW V, NEW E, NEW Op \in [V \X E -> V], NEW base \in V, NEW seq \in Seq(E), NEW F,
         F[{}] = base,
         \A s \in SUBSET DOMAIN seq : s # {} /\ F[s \ {Max(s)}] \in V =>
           F[s] = Op[<<F[s \ {Max(s)}], seq[Max(s)]>>]
  PROVE  \E r : FoldsTo(r, V, Op, base, seq, F[DOMAIN seq])
<1> DEFINE r == [j \in 0 .. Len(seq) |-> F[1 .. j]]
           S == {j \in Nat : F[1 .. j] \in V}
<1>1. DOMAIN seq = 1 .. Len(seq) /\ Len(seq) \in Nat /\ 1 .. 0 = {}
  OBVIOUS
<1>2. ASSUME NEW j \in 1 .. Len(seq), F[1 .. j - 1] \in V
      PROVE  /\ F[1 .. j] = Op[<<F[1 .. j - 1], seq[j]>>]
             /\ F[1 .. j] \in V
  <2>1. Max(1 .. j) = j /\ (1 .. j) \ {j} = 1 .. j - 1 /\ 1 .. j # {}
    BY MaxOfSegment
  <2>2. 1 .. j \in SUBSET DOMAIN seq /\ seq[j] \in E
    BY <1>1
  <2>3. F[1 .. j] = Op[<<F[1 .. j - 1], seq[j]>>]
    BY <1>2, <2>1, <2>2
  <2> QED BY <1>2, <2>2, <2>3
<1>3. \A j \in 0 .. Len(seq) : j \in S
  <2>1. 0 \in S
    BY <1>1
  <2>2. ASSUME NEW j \in 1 .. Len(seq), j - 1 \in S PROVE j \in S
    <3>1. j \in Nat /\ F[1 .. j - 1] \in V
      BY <2>2
    <3> QED BY <1>2, <3>1
  <2> HIDE DEF S
  <2> QED BY <1>1, <2>1, <2>2, UpTo
<1>4. r \in [0 .. Len(seq) -> V] /\ r[0] = base /\ r[Len(seq)] = F[DOMAIN seq]
  <2>1. \A j \in 0 .. Len(seq) : F[1 .. j] \in V
    BY <1>3
  <2>2. 0 \in 0 .. Len(seq) /\ Len(seq) \in 0 .. Len(seq)
    BY <1>1
  <2> QED BY <1>1, <2>1, <2>2
<1>5. ASSUME NEW j \in 1 .. Len(seq) PROVE r[j] = Op[<<r[j - 1], seq[j]>>]
  <2>1. j \in 0 .. Len(seq) /\ j - 1 \in 0 .. Len(seq)
    BY <1>1
  <2>2. r[j] = F[1 .. j] /\ r[j - 1] = F[1 .. j - 1] /\ F[1 .. j - 1] \in V
    BY <1>3, <2>1
  <2> HIDE DEF r
  <2> QED BY <1>2, <2>2
<1> HIDE DEF r
<1>6. FoldsTo(r, V, Op, base, seq, F[DOMAIN seq])
  BY <1>4, <1>5 DEF FoldsTo
<1> QED BY <1>6

-----------------------------------------------------------------------------
(* add.go: the range over a sequence of leaves, and the loop that adds one. *)

(* The nodes there are have the leaves vs, and the hashes of their children. *)
HashesOf(ns, vs) ==
  /\ \A k \in Nat : NodePos(0, k) <= Len(ns) => ns[NodePos(0, k)] = vs[k + 1]
  /\ \A g, k \in Nat : NodePos(g + 1, k) <= Len(ns) =>
       ns[NodePos(g + 1, k)]
         = HashPosPair64(NodePos(g + 1, k), ns[NodePos(g, 2 * k)], ns[NodePos(g, 2 * k + 1)])

(* ns is the Merkle mountain range over the values vs. *)
RangeOver(H, ns, vs) ==
  /\ vs \in Seq(H) /\ ns \in Seq(H) /\ Len(ns) = MMRIndex(Len(vs))
  /\ HashesOf(ns, vs)

(* The place of a leaf is in the range if the leaf is. *)
LEMMA LeafInRange ==
  ASSUME NEW n \in Nat, NEW k \in Nat
  PROVE  NodePos(0, k) <= MMRIndex(n) <=> k < n
<1>1. NodePos(0, k) = MMRIndex(k) + 1 /\ MMRIndex(k) \in Nat /\ MMRIndex(n) \in Nat
  BY LeafPos, MMRIndexBounds
<1>2. k < n => MMRIndex(k) + (n - k) <= MMRIndex(n)
  BY MMRIndexMono
<1>3. n <= k => MMRIndex(n) + (k - n) <= MMRIndex(k)
  BY MMRIndexMono
<1> QED BY <1>1, <1>2, <1>3

(* The nodes of a range, by the runs of leaves they are over *)
LEMMA TreeNodes ==
  ASSUME NEW H, NEW ns, NEW vs, RangeOver(H, ns, vs)
  PROVE  /\ Len(vs) \in Nat
         /\ \A k \in Nat : k < Len(vs) => ns[NodePos(0, k)] = vs[k + 1]
         /\ \A g, k \in Nat : (k + 1) * 2^(g + 1) <= Len(vs) =>
              ns[NodePos(g + 1, k)]
                = HashPosPair64(NodePos(g + 1, k), ns[NodePos(g, 2 * k)], ns[NodePos(g, 2 * k + 1)])
<1>1. Len(vs) \in Nat /\ Len(ns) = MMRIndex(Len(vs)) /\ HashesOf(ns, vs)
  BY DEF RangeOver
<1>2. ASSUME NEW k \in Nat, k < Len(vs) PROVE ns[NodePos(0, k)] = vs[k + 1]
  <2>1. NodePos(0, k) <= Len(ns)
    BY <1>1, <1>2, LeafInRange
  <2> QED BY <1>1, <2>1 DEF HashesOf
<1>3. ASSUME NEW g \in Nat, NEW k \in Nat, (k + 1) * 2^(g + 1) <= Len(vs)
      PROVE  ns[NodePos(g + 1, k)]
               = HashPosPair64(NodePos(g + 1, k), ns[NodePos(g, 2 * k)], ns[NodePos(g, 2 * k + 1)])
  <2>1. g + 1 \in Nat
    OBVIOUS
  <2>2. NodePos(g + 1, k) <= Len(ns)
    BY <1>1, <1>3, <2>1, NodeInRange
  <2> QED BY <1>1, <2>2 DEF HashesOf
<1> QED BY <1>1, <1>2, <1>3

(* add.go: one round of the loop that adds the parents a leaf completes *)
AddRound(s, g) ==
  IF IndexHeight(Len(s)) > g - 1
  THEN Append(s, HashPosPair64(Len(s) + 1, s[Len(s) - 2^g + 1], s[Len(s)]))
  ELSE s

(* A round hashes two nodes that there are. *)
LEMMA AddRoundType ==
  ASSUME NEW H, PairsOf(H) \subseteq H, NEW s \in Seq(H), NEW g \in Nat, g # 0
  PROVE  AddRound(s, g) \in Seq(H)
<1>1. CASE IndexHeight(Len(s)) > g - 1
  <2>1. PICK f \in Nat, k \in Nat : Len(s) + 1 = NodePos(f, k)
    BY EveryPosition
  <2>2. IndexHeight(Len(s)) = f
    BY <2>1, HeightOfNode DEF IndexHeight
  <2>3. 2^g <= 2^f /\ 2^f \in Nat /\ 2^g \in Nat /\ 2^g >= 2
    <3>1. g <= f /\ g - 1 \in Nat /\ g = (g - 1) + 1
      BY <1>1, <2>2
    <3>2. 2^(g - 1) \in Nat /\ 2^(g - 1) > 0 /\ 2^((g - 1) + 1) = 2 * 2^(g - 1)
      BY <3>1, PowType, PowStep
    <3>3. 2^g >= 2
      BY <3>1, <3>2
    <3> QED BY <3>1, <3>3, PowMono, PowType
  <2>4. 2 * 2^f - 1 <= Len(s) + 1
    BY <2>1, NodePosBounds
  <2>5. Len(s) - 2^g + 1 \in 1 .. Len(s) /\ Len(s) \in 1 .. Len(s)
    <3>1. ASSUME NEW x \in Nat, NEW y \in Nat, NEW l \in Nat, y <= x, y >= 2, 2 * x - 1 <= l + 1
          PROVE  l - y + 1 \in 1 .. l /\ l \in 1 .. l
      BY <3>1
    <3>2. Len(s) \in Nat
      OBVIOUS
    <3> QED BY <2>3, <2>4, <3>1, <3>2
  <2>6. HashPosPair64(Len(s) + 1, s[Len(s) - 2^g + 1], s[Len(s)]) \in H
    <3>1. s[Len(s) - 2^g + 1] \in H /\ s[Len(s)] \in H /\ Len(s) + 1 \in Nat
      BY <2>5
    <3> QED BY <3>1 DEF HashPosPair64, PairsOf
  <2> QED BY <1>1, <2>6 DEF AddRound
<1>2. CASE ~ (IndexHeight(Len(s)) > g - 1)
  BY <1>2 DEF AddRound
<1> QED BY <1>1, <1>2

(* The rounds after a leaf is added *)
AddRun(H, r, ns, v) ==
  /\ BitLength(Len(ns) + 1) \in Nat
  /\ r \in [0 .. BitLength(Len(ns) + 1) -> Seq(H)]
  /\ r[0] = Append(ns, v)
  /\ \A g \in 1 .. BitLength(Len(ns) + 1) : r[g] = AddRound(r[g - 1], g)
  /\ AddHashedLeaf(ns, v) = r[BitLength(Len(ns) + 1)]

(* AddHashedLeaf has such rounds.                                          *)
LEMMA AddHashedLeafRun ==
  ASSUME NEW H, PairsOf(H) \subseteq H, NEW ns \in Seq(H), NEW v \in H
  PROVE  \E r : AddRun(H, r, ns, v)
<1> DEFINE N == BitLength(Len(ns) + 1)
           V == Seq(H)
           E == Nat \ {0}
           base == Append(ns, v)
           seq == [g \in 1 .. N |-> g]
           Op == [p \in V \X E |-> AddRound(p[1], p[2])]
           Is(f) == f = [s \in SUBSET DOMAIN seq |->
                           IF s = {} THEN base
                           ELSE AddRound(f[s \ {Max(s)}], seq[Max(s)])]
           F == CHOOSE f : Is(f)
<1>1. N \in Nat
  <2>1. Len(ns) + 1 \in Nat
    OBVIOUS
  <2> QED BY <2>1, BitLengthType
<1>2. AddHashedLeaf(ns, v) = F[DOMAIN seq]
  BY DEF AddHashedLeaf, FoldLeft, MapThenFoldSet, AddRound
<1> HIDE DEF N
<1>3. /\ seq \in Seq(E) /\ Len(seq) = N /\ DOMAIN seq = 1 .. N
      /\ \A g \in 1 .. N : seq[g] = g
  BY <1>1
<1>4. \A s \in V, g \in E : AddRound(s, g) \in V
  BY AddRoundType
<1>5. Op \in [V \X E -> V] /\ base \in V /\ \A s \in V, g \in E : Op[<<s, g>>] = AddRound(s, g)
  <2>1. base \in V
    OBVIOUS
  <2> HIDE DEF V, base, E
  <2> QED BY <1>4, <2>1
<1> HIDE DEF V, base, Op, E, seq
<1>6. \E f : Is(f)
  <2>1. PICK f : FoldEquation(f, V, Op, base, seq)
    BY <1>3, <1>5, FoldSolution
  <2>2. /\ f \in [SUBSET DOMAIN seq -> V]
        /\ f = [s \in SUBSET DOMAIN seq |->
                 IF s = {} THEN base ELSE Op[<<f[s \ {Max(s)}], seq[Max(s)]>>]]
    BY <2>1 DEF FoldEquation
  <2>3. ASSUME NEW s \in SUBSET DOMAIN seq, s # {}
        PROVE  Op[<<f[s \ {Max(s)}], seq[Max(s)]>>] = AddRound(f[s \ {Max(s)}], seq[Max(s)])
    BY <1>3, <1>5, <2>2, <2>3, MaxOfIndices
  <2>4. Is(f)
    BY <2>2, <2>3
  <2> QED BY <2>4
<1>7. Is(F)
  <2> HIDE DEF Is
  <2> QED BY <1>6
<1> HIDE DEF F
<1>8. PICK r : FoldsTo(r, V, Op, base, seq, F[DOMAIN seq])
  <2>1. F[{}] = base
    BY <1>7
  <2>2. ASSUME NEW s \in SUBSET DOMAIN seq, s # {}, F[s \ {Max(s)}] \in V
        PROVE  F[s] = Op[<<F[s \ {Max(s)}], seq[Max(s)]>>]
    <3>1. seq[Max(s)] \in E
      BY <1>3, <2>2, MaxOfIndices
    <3> QED BY <1>5, <1>7, <2>2, <3>1
  <2> HIDE DEF Is
  <2> QED BY <1>3, <1>5, <2>1, <2>2, FoldRun
<1>9. ASSUME NEW g \in 1 .. N PROVE r[g] = AddRound(r[g - 1], g)
  <2>1. g - 1 \in 0 .. N /\ g \in E
    BY <1>1 DEF E
  <2>2. r[g - 1] \in V
    BY <1>3, <1>8, <2>1 DEF FoldsTo
  <2> QED BY <1>3, <1>5, <1>8, <2>1, <2>2 DEF FoldsTo
<1>10. AddRun(H, r, ns, v)
  BY <1>1, <1>2, <1>3, <1>8, <1>9 DEF AddRun, FoldsTo, V, base, N
<1> QED BY <1>10

(* The node that comes next has the hash of its children, or is a leaf. *)
LEMMA HashesAppend ==
  ASSUME NEW H, NEW s \in Seq(H), NEW vs, HashesOf(s, vs), NEW G \in Nat, NEW K \in Nat,
         Len(s) + 1 = NodePos(G, K), NEW x \in H,
         G = 0 => x = vs[K + 1],
         \A g \in Nat : G = g + 1 =>
           x = HashPosPair64(NodePos(G, K), s[NodePos(g, 2 * K)], s[NodePos(g, 2 * K + 1)])
  PROVE  Append(s, x) \in Seq(H) /\ HashesOf(Append(s, x), vs)
<1> DEFINE t == Append(s, x)
<1>1. /\ t \in Seq(H) /\ Len(t) = Len(s) + 1 /\ Len(s) \in Nat /\ t[Len(s) + 1] = x
      /\ \A p \in Nat : p > 0 /\ p <= Len(s) => t[p] = s[p]
  OBVIOUS
<1> HIDE DEF t
<1>2. \A h, k \in Nat : NodePos(h, k) \in Nat /\ NodePos(h, k) > 0
  BY NodePosBounds
<1>3. ASSUME NEW k \in Nat, NodePos(0, k) <= Len(t) PROVE t[NodePos(0, k)] = vs[k + 1]
  <2>1. CASE NodePos(0, k) <= Len(s)
    BY <1>1, <1>2, <2>1 DEF HashesOf
  <2>2. CASE NodePos(0, k) = Len(s) + 1
    <3>1. G = 0 /\ K = k
      BY <2>2, NodePosUnique
    <3> QED BY <1>1, <2>2, <3>1
  <2>3. NodePos(0, k) \in Nat
    <3>1. 0 \in Nat
      OBVIOUS
    <3> QED BY <3>1, <1>2
  <2> QED BY <1>1, <1>3, <2>1, <2>2, <2>3
<1>4. ASSUME NEW g \in Nat, NEW k \in Nat, NodePos(g + 1, k) <= Len(t)
      PROVE  t[NodePos(g + 1, k)]
               = HashPosPair64(NodePos(g + 1, k), t[NodePos(g, 2 * k)], t[NodePos(g, 2 * k + 1)])
  <2>0. /\ g + 1 \in Nat /\ 2 * k \in Nat /\ 2 * k + 1 \in Nat
        /\ NodePos(g + 1, k) \in Nat /\ NodePos(g + 1, k) > 0
        /\ NodePos(g, 2 * k) \in Nat /\ NodePos(g, 2 * k) > 0
        /\ NodePos(g, 2 * k + 1) \in Nat /\ NodePos(g, 2 * k + 1) > 0
    <3>1. g + 1 \in Nat /\ 2 * k \in Nat /\ 2 * k + 1 \in Nat
      OBVIOUS
    <3> QED BY <3>1, <1>2
  <2>1. t[NodePos(g, 2 * k)] = s[NodePos(g, 2 * k)]
        /\ t[NodePos(g, 2 * k + 1)] = s[NodePos(g, 2 * k + 1)]
    <3>1. /\ NodePos(g + 1, k) = NodePos(g, 2 * k + 1) + 1
          /\ NodePos(g, 2 * k) = NodePos(g, 2 * k + 1) - (2 * 2^g - 1)
          /\ 2^g \in Nat /\ 2^g > 0
      BY ParentPos, PowType
    <3>2. ASSUME NEW y \in Nat, y > 0, NEW a \in Nat, NEW b \in Nat, b = a - (2 * y - 1)
          PROVE  b < a
      BY <3>2
    <3>3. NodePos(g, 2 * k) < NodePos(g, 2 * k + 1)
      BY <2>0, <3>1, <3>2
    <3>4. NodePos(g, 2 * k + 1) <= Len(s) /\ NodePos(g, 2 * k) <= Len(s)
      BY <1>1, <1>4, <2>0, <3>1, <3>3
    <3> QED BY <1>1, <2>0, <3>4
  <2>2. CASE NodePos(g + 1, k) <= Len(s)
    <3>1. t[NodePos(g + 1, k)] = s[NodePos(g + 1, k)]
      BY <1>1, <2>0, <2>2
    <3> QED BY <2>1, <2>2, <3>1 DEF HashesOf
  <2>3. CASE NodePos(g + 1, k) = Len(s) + 1
    <3>1. G = g + 1 /\ K = k
      BY <2>0, <2>3, NodePosUnique
    <3>2. x = HashPosPair64(NodePos(G, K), s[NodePos(g, 2 * K)], s[NodePos(g, 2 * K + 1)])
      BY <3>1
    <3> QED BY <1>1, <2>1, <2>3, <3>1, <3>2
  <2> QED BY <1>1, <1>4, <2>0, <2>2, <2>3
<1> QED BY <1>1, <1>3, <1>4 DEF HashesOf, t

(* AddHashedLeaf makes the range over one leaf more. *)
LEMMA AddHashedLeafRange ==
  ASSUME NEW H, PairsOf(H) \subseteq H,
         NEW ns, NEW vs, RangeOver(H, ns, vs), NEW v \in H
  PROVE  RangeOver(H, AddHashedLeaf(ns, v), Append(vs, v))
<1> DEFINE n == Len(vs)
           ws == Append(vs, v)
           N == BitLength(Len(ns) + 1)
<1>1. /\ vs \in Seq(H) /\ n \in Nat /\ ns \in Seq(H) /\ Len(ns) = MMRIndex(n)
      /\ HashesOf(ns, vs) /\ MMRIndex(n) \in Nat /\ n <= MMRIndex(n)
  BY MMRIndexBounds DEF RangeOver
<1>2. /\ ws \in Seq(H) /\ Len(ws) = n + 1 /\ ws[n + 1] = v
      /\ \A k \in Nat : k < n => ws[k + 1] = vs[k + 1]
  BY <1>1
<1> HIDE DEF n, ws
<1>3. PICK h \in Nat, c \in Nat : n + 1 = (2 * c + 1) * 2^h
  <2>1. n + 1 \in Nat /\ n + 1 # 0
    BY <1>1
  <2> QED BY <2>1, OddRuns
<1>4. PICK r : AddRun(H, r, ns, v)
  BY <1>1, AddHashedLeafRun
<1>5. /\ N \in Nat /\ r \in [0 .. N -> Seq(H)] /\ r[0] = Append(ns, v)
      /\ \A g \in 1 .. N : r[g] = AddRound(r[g - 1], g)
      /\ AddHashedLeaf(ns, v) = r[N]
  BY <1>4 DEF AddRun
<1> HIDE DEF N
<1>6. /\ 2 * c \in Nat /\ 2 * c + 1 \in Nat /\ 2^h \in Nat /\ 2^h > 0
      /\ MMRIndex(n + 1) = NodePos(h, 2 * c)
      /\ NodePos(h, 2 * c) = MMRIndex(n) + 1 + h
  <2>1. 2 * c \in Nat /\ 2 * c + 1 \in Nat
    OBVIOUS
  <2>2. NodePos(h, 2 * c) = MMRIndex((2 * c + 1) * 2^h - 1) + 1 + h
    BY <2>1, LastLeafPos
  <2>3. (2 * c + 1) * 2^h - 1 = n
    BY <1>1, <1>3
  <2>4. MMRIndex((2 * c + 1) * 2^h) = NodePos(h, 2 * c)
    BY NextLeafPos
  <2> QED BY <1>3, <2>1, <2>2, <2>3, <2>4, PowType
<1>7. h <= N
  <2>1. PICK k \in Nat : N = k + 1 /\ 2^k <= MMRIndex(n) + 1 /\ MMRIndex(n) + 1 < 2 * 2^k
    <3>1. MMRIndex(n) + 1 \in Nat /\ MMRIndex(n) + 1 # 0
      BY <1>1
    <3> QED BY <1>1, <3>1, BitLengthBounds DEF N
  <2>2. 2^h <= n + 1
    <3>1. ASSUME NEW y \in Nat, NEW d \in Nat PROVE y <= (2 * d + 1) * y
      OBVIOUS
    <3> QED BY <1>3, <1>6, <3>1
  <2>3. k + 1 \in Nat /\ 2^(k + 1) = 2 * 2^k /\ 2^k \in Nat
    BY PowStep, PowType
  <2>4. 2^h < 2^(k + 1)
    BY <1>1, <1>6, <2>1, <2>2, <2>3
  <2>5. h < k + 1
    BY <2>3, <2>4, PowMono
  <2> QED BY <2>1, <2>5
<1> DEFINE Ok(g) == \E m \in Nat :
                      /\ g <= h => m = g
                      /\ g > h => m = h
                      /\ Len(r[g]) = MMRIndex(n) + 1 + m
                      /\ HashesOf(r[g], ws)
<1>8. Ok(0)
  <2>1. HashesOf(ns, ws)
    <3>1. ASSUME NEW k \in Nat, NodePos(0, k) <= Len(ns) PROVE ns[NodePos(0, k)] = ws[k + 1]
      <4>1. k < n
        BY <1>1, <3>1, LeafInRange
      <4> QED BY <1>1, <1>2, <3>1, <4>1 DEF HashesOf
    <3> QED BY <1>1, <3>1 DEF HashesOf
  <2>2. Len(ns) + 1 = NodePos(0, n)
    BY <1>1, LeafPos
  <2>3. Append(ns, v) \in Seq(H) /\ HashesOf(Append(ns, v), ws)
    <3>1. \A g \in Nat : 0 # g + 1
      OBVIOUS
    <3>2. 0 \in Nat /\ v \in H
      OBVIOUS
    <3> QED BY <1>1, <1>2, <2>1, <2>2, <3>1, <3>2, HashesAppend
  <2>4. Len(r[0]) = MMRIndex(n) + 1 + 0
    BY <1>1, <1>5
  <2> QED BY <1>5, <2>3, <2>4
<1>9. ASSUME NEW g \in 1 .. N, Ok(g - 1) PROVE Ok(g)
  <2> DEFINE s == r[g - 1]
             f == g - 1
  <2>1. g \in Nat /\ f \in Nat /\ g = f + 1 /\ g # 0 /\ s \in Seq(H) /\ Len(s) \in Nat
    <3>1. g - 1 \in 0 .. N
      BY <1>5
    <3>2. s \in Seq(H)
      BY <1>5, <3>1
    <3> QED BY <1>5, <3>2
  <2>2. PICK m \in Nat : /\ g - 1 <= h => m = g - 1
                         /\ g - 1 > h => m = h
                         /\ Len(s) = MMRIndex(n) + 1 + m
                         /\ HashesOf(s, ws)
    BY <1>9
  <2>3. r[g] = AddRound(s, g) /\ r[g] \in Seq(H)
    BY <1>5
  <2> HIDE DEF s, f
  <2>4. CASE g <= h
    <3>1. PICK k \in Nat : /\ n + 1 = (k + 1) * 2^g /\ n + 1 = (2 * k + 2) * 2^f
      <4>1. /\ h - g \in Nat /\ 2^(h - g) \in Nat /\ 2^(h - g) > 0 /\ 2^h = 2^g * 2^(h - g)
            /\ 2^g \in Nat /\ 2^f \in Nat /\ 2^g = 2 * 2^f
        BY <2>1, <2>4, PowSplit, PowType, PowStep
      <4> DEFINE a == 2^g
                 b == 2^(h - g)
                 d == 2^f
                 k == (2 * c + 1) * b - 1
      <4>2. a \in Nat /\ b \in Nat /\ b > 0 /\ d \in Nat /\ a = 2 * d /\ n + 1 = (2 * c + 1) * (a * b)
        BY <1>3, <4>1
      <4> HIDE DEF a, b, d
      <4>3. k \in Nat /\ k + 1 = (2 * c + 1) * b
        <5>1. (2 * c + 1) * b = 2 * (c * b) + b /\ c * b \in Nat
          BY <4>2
        <5> QED BY <4>2, <5>1
      <4>4. (2 * c + 1) * (a * b) = ((2 * c + 1) * b) * a
        BY <4>2
      <4> HIDE DEF k
      <4>5. n + 1 = (k + 1) * a /\ n + 1 = (2 * k + 2) * d
        <5>1. n + 1 = (k + 1) * a
          BY <4>2, <4>3, <4>4
        <5>2. (k + 1) * (2 * d) = (2 * k + 2) * d
          BY <4>2, <4>3
        <5> QED BY <4>2, <5>1, <5>2
      <4> QED BY <4>3, <4>5 DEF a, d
    <3>2. m = f
      BY <2>1, <2>2, <2>4
    <3>3. 2 * k \in Nat /\ 2 * k + 1 \in Nat /\ 2^f \in Nat /\ 2^g = 2 * 2^f
      BY <2>1, PowType, PowStep
    <3>4. Len(s) = NodePos(f, 2 * k + 1)
      <4>1. NodePos(f, 2 * k + 1) = MMRIndex((2 * k + 1 + 1) * 2^f - 1) + 1 + f
        BY <2>1, <3>3, LastLeafPos
      <4>2. (2 * k + 1 + 1) * 2^f - 1 = n
        <5>1. 2 * k + 1 + 1 = 2 * k + 2
          OBVIOUS
        <5> QED BY <1>1, <3>1, <5>1
      <4> QED BY <2>2, <3>2, <4>1, <4>2
    <3>5. Len(s) + 1 = NodePos(g, k) /\ NodePos(f, 2 * k) = Len(s) - 2^g + 1
      <4>1. /\ NodePos(f + 1, k) = NodePos(f, 2 * k + 1) + 1
            /\ NodePos(f, 2 * k) = NodePos(f, 2 * k + 1) - (2 * 2^f - 1)
        BY <2>1, ParentPos
      <4> QED BY <2>1, <3>3, <3>4, <4>1
    <3>6. IndexHeight(Len(s)) > g - 1
      <4>1. PosHeight(NodePos(f, 2 * k + 1) + 1) = f + 1
        BY <2>1, HeightAfter
      <4> QED BY <2>1, <3>4, <4>1 DEF IndexHeight
    <3> DEFINE x == HashPosPair64(NodePos(g, k), s[NodePos(f, 2 * k)], s[NodePos(f, 2 * k + 1)])
    <3>7. r[g] = Append(s, x)
      BY <2>3, <3>4, <3>5, <3>6 DEF AddRound
    <3>8. x \in H
      <4>1. NodePos(f, 2 * k) \in 1 .. Len(s) /\ NodePos(f, 2 * k + 1) \in 1 .. Len(s)
        <5>1. /\ NodePos(f, 2 * k) \in Nat /\ NodePos(f, 2 * k) > 0
              /\ NodePos(f, 2 * k + 1) \in Nat /\ NodePos(f, 2 * k + 1) > 0
          BY <2>1, <3>3, NodePosBounds
        <5>2. 2^f > 0 /\ 2^f \in Nat
          BY <2>1, PowType
        <5> QED BY <2>1, <3>3, <3>4, <3>5, <5>1, <5>2
      <4>2. s[NodePos(f, 2 * k)] \in H /\ s[NodePos(f, 2 * k + 1)] \in H /\ NodePos(g, k) \in Nat
        BY <2>1, <3>5, <4>1
      <4> QED BY <4>2 DEF HashPosPair64, PairsOf
    <3>9. HashesOf(Append(s, x), ws)
      <4>1. \A e \in Nat : g = e + 1 =>
              x = HashPosPair64(NodePos(g, k), s[NodePos(e, 2 * k)], s[NodePos(e, 2 * k + 1)])
        <5>1. \A e \in Nat : g = e + 1 => e = f
          BY <2>1
        <5> QED BY <5>1
      <4>2. g = 0 => x = ws[k + 1]
        BY <2>1
      <4> HIDE DEF x
      <4>3. Append(s, x) \in Seq(H) /\ HashesOf(Append(s, x), ws)
        <5>1. s \in Seq(H) /\ HashesOf(s, ws) /\ g \in Nat /\ Len(s) + 1 = NodePos(g, k) /\ x \in H
          BY <2>1, <2>2, <3>5, <3>8
        <5> QED BY <4>1, <4>2, <5>1, HashesAppend
      <4> QED BY <4>3
    <3>10. Len(r[g]) = MMRIndex(n) + 1 + g
      <4> HIDE DEF x
      <4>1. Len(Append(s, x)) = Len(s) + 1
        BY <2>1, <3>8
      <4> QED BY <1>1, <2>1, <2>2, <3>2, <3>7, <4>1
    <3> HIDE DEF x
    <3> QED BY <2>1, <2>4, <3>7, <3>9, <3>10
  <2>5. CASE g > h
    <3>1. m = h
      BY <2>1, <2>2, <2>5
    <3>2. Len(s) = NodePos(h, 2 * c)
      BY <1>6, <2>2, <3>1
    <3>3. IndexHeight(Len(s)) = 0
      BY <3>2, HeightAfter DEF IndexHeight
    <3>4. r[g] = s
      BY <2>1, <2>3, <3>3 DEF AddRound
    <3> QED BY <2>2, <2>5, <3>1, <3>4
  <2> QED BY <2>1, <2>4, <2>5
<1> HIDE DEF Ok
<1>10. Ok(N)
  <2> DEFINE S == {g \in Nat : Ok(g)}
  <2>1. 0 \in S /\ \A g \in 1 .. N : g - 1 \in S => g \in S
    BY <1>8, <1>9
  <2> HIDE DEF S
  <2>2. \A g \in 0 .. N : g \in S
    BY <1>5, <2>1, UpTo
  <2>3. N \in S
    BY <1>5, <2>2
  <2> QED BY <2>3 DEF S
<1>11. PICK m \in Nat : /\ N <= h => m = N
                        /\ N > h => m = h
                        /\ Len(r[N]) = MMRIndex(n) + 1 + m
                        /\ HashesOf(r[N], ws)
  BY <1>10 DEF Ok
<1>12. Len(r[N]) = MMRIndex(n + 1) /\ r[N] \in Seq(H)
  BY <1>5, <1>6, <1>7, <1>11
<1>13. RangeOver(H, r[N], ws)
  BY <1>2, <1>11, <1>12 DEF RangeOver
<1> QED BY <1>5, <1>13 DEF ws

(* The range over no leaves *)
LEMMA EmptyRange ==
  ASSUME NEW H
  PROVE  RangeOver(H, << >>, << >>)
<1>1. Len(<< >>) = 0 /\ << >> \in Seq(H) /\ MMRIndex(0) = 0
  BY MMRIndexBounds
<1>2. \A h, k \in Nat : ~ (NodePos(h, k) <= 0)
  <2>1. \A h, k \in Nat : NodePos(h, k) \in Nat /\ NodePos(h, k) > 0
    BY NodePosBounds
  <2> QED BY <2>1
<1>3. \A g \in Nat : g + 1 \in Nat
  OBVIOUS
<1>4. HashesOf(<< >>, << >>)
  <2>1. 0 \in Nat
    OBVIOUS
  <2> QED BY <1>1, <1>2, <1>3, <2>1 DEF HashesOf
<1> QED BY <1>1, <1>4 DEF RangeOver

(* The range over some values is made by adding them in turn. *)
LEMMA BuildRange ==
  ASSUME NEW H, PairsOf(H) \subseteq H, NEW values \in Seq(H)
  PROVE  RangeOver(H, FoldLeft(AddHashedLeaf, << >>, values), values)
<1> DEFINE V == Seq(H)
           base == << >>
           Op == [p \in V \X H |-> AddHashedLeaf(p[1], p[2])]
           Is(f) == f = [s \in SUBSET DOMAIN values |->
                           IF s = {} THEN base
                           ELSE AddHashedLeaf(f[s \ {Max(s)}], values[Max(s)])]
           F == CHOOSE f : Is(f)
           N == Len(values)
<1>1. FoldLeft(AddHashedLeaf, << >>, values) = F[DOMAIN values]
  BY DEF FoldLeft, MapThenFoldSet
<1>2. N \in Nat /\ DOMAIN values = 1 .. N
  OBVIOUS
<1>3. ASSUME NEW s \in V, NEW v \in H PROVE AddHashedLeaf(s, v) \in V
  <2>1. PICK r : AddRun(H, r, s, v)
    <3>1. v \in H
      OBVIOUS
    <3> QED BY <3>1, AddHashedLeafRun
  <2>2. BitLength(Len(s) + 1) \in 0 .. BitLength(Len(s) + 1)
    BY <2>1 DEF AddRun
  <2> QED BY <2>1, <2>2 DEF AddRun
<1>4. /\ Op \in [V \X H -> V] /\ base \in V
      /\ \A s \in V, v \in H : Op[<<s, v>>] = AddHashedLeaf(s, v)
  <2>1. base \in V
    OBVIOUS
  <2> HIDE DEF V, base
  <2> QED BY <1>3, <2>1
<1> HIDE DEF V, base, Op, N
<1>5. \E f : Is(f)
  <2>1. PICK f : FoldEquation(f, V, Op, base, values)
    BY <1>4, FoldSolution
  <2>2. /\ f \in [SUBSET DOMAIN values -> V]
        /\ f = [s \in SUBSET DOMAIN values |->
                 IF s = {} THEN base ELSE Op[<<f[s \ {Max(s)}], values[Max(s)]>>]]
    BY <2>1 DEF FoldEquation
  <2>3. ASSUME NEW s \in SUBSET DOMAIN values, s # {}
        PROVE  Op[<<f[s \ {Max(s)}], values[Max(s)]>>]
                 = AddHashedLeaf(f[s \ {Max(s)}], values[Max(s)])
    <3>1. values[Max(s)] \in H
      BY <2>3, MaxOfIndices
    <3>2. f[s \ {Max(s)}] \in V
      BY <2>2
    <3> QED BY <1>4, <3>1, <3>2
  <2>4. Is(f)
    BY <2>2, <2>3
  <2> QED BY <2>4
<1>6. Is(F)
  <2> HIDE DEF Is
  <2> QED BY <1>5
<1> HIDE DEF F
<1>7. PICK r : FoldsTo(r, V, Op, base, values, F[DOMAIN values])
  <2>1. F[{}] = base
    BY <1>6
  <2>2. ASSUME NEW s \in SUBSET DOMAIN values, s # {}, F[s \ {Max(s)}] \in V
        PROVE  F[s] = Op[<<F[s \ {Max(s)}], values[Max(s)]>>]
    <3>1. values[Max(s)] \in H
      BY <2>2, MaxOfIndices
    <3> QED BY <1>4, <1>6, <2>2, <3>1
  <2> HIDE DEF Is
  <2> QED BY <1>4, <2>1, <2>2, FoldRun
<1> DEFINE S == {j \in Nat : RangeOver(H, r[j], SubSeq(values, 1, j))}
<1>8. 0 \in S
  <2>1. SubSeq(values, 1, 0) = << >> /\ r[0] = << >>
    BY <1>7 DEF FoldsTo, base
  <2> QED BY <2>1, EmptyRange
<1>9. ASSUME NEW j \in 1 .. N, j - 1 \in S PROVE j \in S
  <2>1. /\ j \in Nat /\ j - 1 \in 0 .. Len(values) /\ j \in 1 .. Len(values)
        /\ values[j] \in H
    BY <1>2 DEF N
  <2>2. r[j] = AddHashedLeaf(r[j - 1], values[j])
    <3>1. r[j - 1] \in V /\ r[j] = Op[<<r[j - 1], values[j]>>]
      BY <1>7, <2>1 DEF FoldsTo
    <3> QED BY <1>4, <2>1, <3>1
  <2>3. SubSeq(values, 1, j) = Append(SubSeq(values, 1, j - 1), values[j])
    BY <2>1
  <2>4. RangeOver(H, r[j - 1], SubSeq(values, 1, j - 1))
    BY <1>9
  <2>5. RangeOver(H, AddHashedLeaf(r[j - 1], values[j]), Append(SubSeq(values, 1, j - 1), values[j]))
    BY <2>1, <2>4, AddHashedLeafRange
  <2> QED BY <2>1, <2>2, <2>3, <2>5
<1> HIDE DEF S
<1>10. N \in S
  <2>1. \A j \in 0 .. N : j \in S
    BY <1>2, <1>8, <1>9, UpTo
  <2> QED BY <1>2, <2>1
<1>11. SubSeq(values, 1, N) = values
  BY DEF N
<1>12. r[N] = F[DOMAIN values]
  BY <1>7 DEF FoldsTo, N
<1> QED BY <1>1, <1>10, <1>11, <1>12 DEF S

-----------------------------------------------------------------------------
(* How the peaks lie                                                       *)

(* The k-th run of 2^h leaves is within the l-th run of 2^g leaves. *)
Under(h, k, g, l) == l * 2^g <= k * 2^h /\ (k + 1) * 2^h <= (l + 1) * 2^g

(* Leaf x is in the k-th run of 2^h leaves. *)
InRun(x, h, k) == k * 2^h <= x /\ x < (k + 1) * 2^h

(* The ends of a run *)
LEMMA RunEnds ==
  ASSUME NEW h \in Nat, NEW k \in Nat
  PROVE  /\ k * 2^h \in Nat /\ (k + 1) * 2^h \in Nat /\ k * 2^h < (k + 1) * 2^h
         /\ InRun(k * 2^h, h, k)
<1>1. 2^h \in Nat /\ 2^h > 0
  BY PowType
<1>2. ASSUME NEW y \in Nat, y > 0
      PROVE  k * y \in Nat /\ (k + 1) * y \in Nat /\ k * y < (k + 1) * y
  <2>1. (k + 1) * y = k * y + y /\ k * y \in Nat
    OBVIOUS
  <2> QED BY <1>2, <2>1
<1>3. k * 2^h \in Nat /\ (k + 1) * 2^h \in Nat /\ k * 2^h < (k + 1) * 2^h
  BY <1>1, <1>2
<1> QED BY <1>3 DEF InRun

(* A run that has a leaf of a longer one is within it. *)
LEMMA InUnder ==
  ASSUME NEW g \in Nat, NEW i \in Nat, NEW h \in Nat, NEW k \in Nat, NEW x \in Nat,
         InRun(x, g, i), InRun(x, h, k), g <= h
  PROVE  Under(g, i, h, k)
BY RunsNest DEF InRun, Under

(* No leaf is under two peaks. *)
LEMMA OnePeak ==
  ASSUME NEW n \in Nat, NEW x \in Nat,
         NEW h \in Nat, NEW k \in Nat, PeakOver(n, h, k), InRun(x, h, k),
         NEW g \in Nat, NEW l \in Nat, PeakOver(n, g, l), InRun(x, g, l)
  PROVE  h = g /\ k = l
<1>1. ASSUME NEW a \in Nat, NEW b \in Nat, PeakOver(n, a, b), InRun(x, a, b),
             NEW c \in Nat, NEW d \in Nat, PeakOver(n, c, d), InRun(x, c, d), a < c
      PROVE  FALSE
  <2>1. PICK j \in Nat : b = 2 * j
    BY <1>1 DEF PeakOver
  <2>2. a + 1 \in Nat /\ a + 1 <= c /\ 2^a \in Nat /\ 2^(a + 1) = 2 * 2^a
    BY <1>1, PowType, PowStep
  <2>3. j * 2^(a + 1) = b * 2^a /\ (j + 1) * 2^(a + 1) = (b + 2) * 2^a
        /\ (b + 1) * 2^a <= (b + 2) * 2^a /\ (b + 1) * 2^a \in Nat /\ (b + 2) * 2^a \in Nat
    <3>1. ASSUME NEW y \in Nat
          PROVE  j * (2 * y) = b * y /\ (j + 1) * (2 * y) = (b + 2) * y
                 /\ (b + 1) * y <= (b + 2) * y /\ (b + 1) * y \in Nat /\ (b + 2) * y \in Nat
      <4>1. b * y = (2 * j) * y /\ (b + 1) * y = (2 * j) * y + y
            /\ (b + 2) * y = (2 * j) * y + y + y /\ (2 * j) * y \in Nat
        BY <2>1
      <4>2. j * (2 * y) = (2 * j) * y /\ (j + 1) * (2 * y) = (2 * j) * y + y + y
        OBVIOUS
      <4> QED BY <4>1, <4>2
    <3> QED BY <2>2, <3>1
  <2>4. InRun(x, a + 1, j)
    <3>1. b * 2^a <= x /\ x < (b + 1) * 2^a
      BY <1>1 DEF InRun
    <3> QED BY <2>3, <3>1 DEF InRun
  <2>5. Under(a + 1, j, c, d)
    BY <1>1, <2>2, <2>4, InUnder
  <2>6. (b + 2) * 2^a <= (d + 1) * 2^c /\ (d + 1) * 2^c <= n /\ n < (b + 2) * 2^a
    BY <1>1, <2>3, <2>5 DEF Under, PeakOver
  <2>7. (d + 1) * 2^c \in Nat
    BY RunEnds
  <2> QED BY <2>3, <2>6, <2>7
<1>2. h = g
  <2>1. ~ (h < g)
    BY <1>1
  <2>2. ~ (g < h)
    BY <1>1
  <2> QED BY <2>1, <2>2
<1>3. ASSUME NEW b \in Nat, NEW d \in Nat, InRun(x, h, b), InRun(x, h, d) PROVE ~ (b < d)
  <2>1. Under(h, d, h, b)
    BY <1>3, InUnder
  <2>2. (d + 1) * 2^h <= (b + 1) * 2^h /\ 2^h \in Nat /\ 2^h > 0
    BY <2>1, PowType DEF Under
  <2>3. ASSUME NEW y \in Nat, y > 0, b < d PROVE (b + 1) * y < (d + 1) * y
    <3>1. PICK r \in Nat : d = b + 1 + r
      <4>1. d - (b + 1) \in Nat /\ d = b + 1 + (d - (b + 1))
        BY <2>3
      <4> QED BY <4>1
    <3>2. (d + 1) * y = (b + 1) * y + y + r * y /\ r * y \in Nat /\ (b + 1) * y \in Nat
      BY <3>1
    <3> QED BY <2>3, <3>2
  <2>4. (b + 1) * 2^h \in Nat /\ (d + 1) * 2^h \in Nat
    BY RunEnds
  <2> QED BY <2>2, <2>3, <2>4
<1>4. k = l
  <2>1. ~ (k < l)
    BY <1>2, <1>3
  <2>2. ~ (l < k)
    BY <1>2, <1>3
  <2> QED BY <2>1, <2>2
<1> QED BY <1>2, <1>4

(* A node comes before those over the leaves that follow its own. *)
LEMMA PosInOrder ==
  ASSUME NEW h \in Nat, NEW k \in Nat, NEW g \in Nat, NEW l \in Nat,
         (l + 1) * 2^g <= k * 2^h
  PROVE  NodePos(g, l) < NodePos(h, k)
<1>1. k * 2^h \in Nat /\ MMRIndex(k * 2^h) \in Nat
  BY RunEnds, MMRIndexBounds
<1>2. NodePos(g, l) <= MMRIndex(k * 2^h)
  BY <1>1, NodeInRange
<1>3. NodePos(h, k) = MMRIndex(k * 2^h) + 2 * 2^h - 1 /\ 2^h \in Nat /\ 2^h > 0
      /\ NodePos(g, l) \in Nat
  BY PowType, NodePosBounds DEF NodePos
<1>4. ASSUME NEW y \in Nat, y > 0, NEW a \in Nat, NEW b \in Nat, NEW c \in Nat,
             c = a + 2 * y - 1, b <= a
      PROVE  b < c
  BY <1>4
<1> QED BY <1>1, <1>2, <1>3, <1>4, NodePosBounds

(* Peaks are in the order of their leaves. *)
LEMMA PeaksInOrder ==
  ASSUME NEW n \in Nat,
         NEW h \in Nat, NEW k \in Nat, PeakOver(n, h, k),
         NEW g \in Nat, NEW l \in Nat, PeakOver(n, g, l),
         NodePos(h, k) < NodePos(g, l)
  PROVE  (k + 1) * 2^h <= l * 2^g
<1> DEFINE a == k * 2^h
           c == (k + 1) * 2^h
           d == l * 2^g
           e == (l + 1) * 2^g
<1>1. a \in Nat /\ c \in Nat /\ a < c /\ d \in Nat /\ e \in Nat /\ d < e
      /\ NodePos(h, k) \in Nat /\ NodePos(g, l) \in Nat
  BY RunEnds, NodePosBounds
<1>2. ASSUME NEW x \in Nat, a <= x, x < c, d <= x, x < e PROVE FALSE
  <2>1. h = g /\ k = l
    BY <1>2, OnePeak DEF InRun
  <2> QED BY <1>1, <2>1
<1>3. ~ (e <= a)
  <2>1. e <= a => NodePos(g, l) < NodePos(h, k)
    BY PosInOrder
  <2> QED BY <1>1, <2>1
<1> HIDE DEF a, c, d, e
<1>4. c <= d
  <2>1. ~ (a <= d /\ d < c)
    BY <1>1, <1>2
  <2>2. ~ (d <= a /\ a < e)
    BY <1>1, <1>2
  <2> QED BY <1>1, <1>3, <2>1, <2>2
<1> QED BY <1>4 DEF c, d

(* The j-th of the peaks q over n leaves is over the k-th run of 2^h. *)
PeakAt(q, n, j, h, k) == q[j] = NodePos(h, k) - 1 /\ PeakOver(n, h, k)

(* The lists of peaks that Peaks makes: each peak is over the leaves that  *)
(* follow those of the one before.                                         *)
Tiles(q, n) ==
  /\ q \in Seq(Nat)
  /\ \A j \in 1 .. Len(q) : \E h, k \in Nat : PeakAt(q, n, j, h, k)
  /\ \A x \in Nat : x < n =>
       \E j \in 1 .. Len(q) : \E h, k \in Nat : PeakAt(q, n, j, h, k) /\ InRun(x, h, k)
  /\ \A i, j \in 1 .. Len(q) : \A h, k, g, l \in Nat :
       i < j /\ PeakAt(q, n, i, h, k) /\ PeakAt(q, n, j, g, l) => (k + 1) * 2^h <= l * 2^g

(* Peaks makes such a list. *)
LEMMA PeaksTile ==
  ASSUME NEW n \in Nat, n # 0
  PROVE  Tiles(Peaks(MMRIndex(n) - 1), n)
<1> DEFINE q == Peaks(MMRIndex(n) - 1)
<1>1. ListsPeaks(q, 0, n)
  BY PeaksAre
<1> HIDE DEF q
<1>2. q \in Seq(Nat)
  BY <1>1 DEF ListsPeaks
<1>3. ASSUME NEW j \in 1 .. Len(q) PROVE \E h, k \in Nat : PeakAt(q, n, j, h, k)
  BY <1>1 DEF ListsPeaks, PeakAt
<1>4. ASSUME NEW x \in Nat, x < n
      PROVE  \E j \in 1 .. Len(q) : \E h, k \in Nat : PeakAt(q, n, j, h, k) /\ InRun(x, h, k)
  <2>1. 0 <= x
    OBVIOUS
  <2>2. PICK j \in 1 .. Len(q) : \E h, k \in Nat :
          q[j] = NodePos(h, k) - 1 /\ k * 2^h <= x /\ x < (k + 1) * 2^h
    BY <1>1, <1>4, <2>1, Zenon DEF ListsPeaks
  <2>3. PICK h \in Nat, k \in Nat :
          q[j] = NodePos(h, k) - 1 /\ k * 2^h <= x /\ x < (k + 1) * 2^h
    BY <2>2
  <2>4. PICK g \in Nat, l \in Nat : PeakAt(q, n, j, g, l)
    BY <1>3
  <2>5. g = h /\ l = k
    <3>1. NodePos(g, l) \in Nat /\ NodePos(h, k) \in Nat
      BY NodePosBounds
    <3>2. NodePos(g, l) = NodePos(h, k)
      BY <2>3, <2>4, <3>1 DEF PeakAt
    <3> QED BY <3>2, NodePosUnique
  <2> QED BY <2>3, <2>4, <2>5 DEF InRun
<1>5. ASSUME NEW i \in 1 .. Len(q), NEW j \in 1 .. Len(q),
             NEW h \in Nat, NEW k \in Nat, NEW g \in Nat, NEW l \in Nat,
             i < j, PeakAt(q, n, i, h, k), PeakAt(q, n, j, g, l)
      PROVE  (k + 1) * 2^h <= l * 2^g
  <2>1. q[i] < q[j]
    BY <1>1, <1>5 DEF ListsPeaks
  <2>2. NodePos(h, k) \in Nat /\ NodePos(g, l) \in Nat
    BY NodePosBounds
  <2>3. NodePos(h, k) < NodePos(g, l)
    BY <1>5, <2>1, <2>2 DEF PeakAt
  <2> QED BY <1>5, <2>3, PeaksInOrder DEF PeakAt
<1> QED BY <1>2, <1>3, <1>4, <1>5 DEF Tiles, q

(* The first peak is over the first leaves. *)
LEMMA FirstTile ==
  ASSUME NEW n \in Nat, n # 0, NEW q, Tiles(q, n),
         NEW j \in 1 .. Len(q), NEW h \in Nat, NEW k \in Nat, PeakAt(q, n, j, h, k)
  PROVE  j = 1 <=> k * 2^h = 0
<1>1. q \in Seq(Nat) /\ 1 \in 1 .. Len(q)
  BY DEF Tiles
<1>2. 0 < n
  OBVIOUS
<1>3. PICK i \in 1 .. Len(q), g \in Nat, l \in Nat : PeakAt(q, n, i, g, l) /\ InRun(0, g, l)
  BY <1>2 DEF Tiles
<1>4. l * 2^g = 0
  <2>1. l * 2^g \in Nat
    BY RunEnds
  <2> QED BY <1>3, <2>1 DEF InRun
<1>5. ASSUME NEW a \in 1 .. Len(q), NEW b \in Nat, NEW c \in Nat, PeakAt(q, n, a, b, c),
             c * 2^b = 0
      PROVE  a = 1
  <2>1. PICK f \in Nat, m \in Nat : PeakAt(q, n, 1, f, m)
    BY <1>1 DEF Tiles
  <2>2. (m + 1) * 2^f \in Nat /\ m * 2^f \in Nat /\ m * 2^f < (m + 1) * 2^f
    BY RunEnds
  <2>3. 1 < a => (m + 1) * 2^f <= c * 2^b
    BY <1>1, <1>5, <2>1 DEF Tiles
  <2> QED BY <1>5, <2>2, <2>3
<1>6. i = 1
  BY <1>3, <1>4, <1>5
<1>7. j = 1 => h = g /\ k = l
  <2> SUFFICES ASSUME j = 1 PROVE h = g /\ k = l
    OBVIOUS
  <2>1. NodePos(h, k) \in Nat /\ NodePos(g, l) \in Nat
    BY NodePosBounds
  <2>2. NodePos(h, k) = NodePos(g, l)
    BY <1>3, <1>6, <2>1 DEF PeakAt
  <2> QED BY <2>2, NodePosUnique
<1> QED BY <1>4, <1>5, <1>7

(* The next peak is over the leaves that follow. *)
LEMMA NextTile ==
  ASSUME NEW n \in Nat, NEW q, Tiles(q, n),
         NEW j \in 1 .. Len(q), NEW h \in Nat, NEW k \in Nat, PeakAt(q, n, j, h, k),
         NEW g \in Nat, NEW l \in Nat, j + 1 \in 1 .. Len(q), PeakAt(q, n, j + 1, g, l)
  PROVE  l * 2^g = (k + 1) * 2^h
<1> DEFINE e == (k + 1) * 2^h
           s == l * 2^g
           z == (l + 1) * 2^g
<1>1. e \in Nat /\ s \in Nat /\ z \in Nat /\ s < z
  BY RunEnds
<1>2. e <= s
  <2>1. j < j + 1
    OBVIOUS
  <2> QED BY <2>1 DEF Tiles
<1>3. z <= n
  BY DEF PeakOver, PeakAt
<1>4. e < n
  BY <1>1, <1>2, <1>3
<1>5. PICK i \in 1 .. Len(q), f \in Nat, m \in Nat : PeakAt(q, n, i, f, m) /\ InRun(e, f, m)
  <2> HIDE DEF e
  <2> QED BY <1>1, <1>4 DEF Tiles
<1>6. m * 2^f <= e /\ e < (m + 1) * 2^f /\ m * 2^f \in Nat /\ (m + 1) * 2^f \in Nat
  BY <1>5, RunEnds DEF InRun
<1>7. ~ (i < j)
  <2>1. i < j => (m + 1) * 2^f <= k * 2^h
    BY <1>5 DEF Tiles
  <2>2. k * 2^h \in Nat /\ k * 2^h < e
    BY RunEnds
  <2> HIDE DEF e
  <2> QED BY <1>1, <1>6, <2>1, <2>2
<1>8. i # j
  <2> SUFFICES ASSUME i = j PROVE FALSE
    OBVIOUS
  <2>1. NodePos(h, k) \in Nat /\ NodePos(f, m) \in Nat
    BY NodePosBounds
  <2>2. NodePos(h, k) = NodePos(f, m)
    BY <1>5, <2>1 DEF PeakAt
  <2>3. h = f /\ k = m
    BY <2>2, NodePosUnique
  <2> QED BY <1>1, <1>6, <2>3
<1>9. ~ (j + 1 < i)
  <2>1. j + 1 < i => z <= m * 2^f
    BY <1>5 DEF Tiles
  <2> HIDE DEF e, s, z
  <2> QED BY <1>1, <1>2, <1>6, <2>1
<1>10. i = j + 1
  <2>1. i \in Nat /\ j \in Nat
    OBVIOUS
  <2> QED BY <1>7, <1>8, <1>9, <2>1
<1>11. f = g /\ m = l
  <2>1. NodePos(g, l) \in Nat /\ NodePos(f, m) \in Nat
    BY NodePosBounds
  <2>2. NodePos(g, l) = NodePos(f, m)
    BY <1>5, <1>10, <2>1 DEF PeakAt
  <2> QED BY <2>2, NodePosUnique
<1>12. s <= e
  BY <1>6, <1>11
<1> HIDE DEF e, s
<1>13. s = e
  BY <1>1, <1>2, <1>12
<1> QED BY <1>13 DEF e, s

(* Peaks get lower from left to right. *)
LEMMA PeaksDescend ==
  ASSUME NEW n \in Nat, NEW q, Tiles(q, n),
         NEW i \in 1 .. Len(q), NEW j \in 1 .. Len(q), i < j,
         NEW h \in Nat, NEW k \in Nat, PeakAt(q, n, i, h, k),
         NEW g \in Nat, NEW l \in Nat, PeakAt(q, n, j, g, l)
  PROVE  g < h
<1> DEFINE x == 2^h
           y == 2^g
<1>1. x \in Nat /\ y \in Nat
  BY PowType
<1>2. (k + 1) * x <= l * y
  BY DEF Tiles
<1>3. n < (k + 2) * x /\ (l + 1) * y <= n
  BY DEF PeakAt, PeakOver
<1> HIDE DEF x, y
<1>4. (k + 2) * x = (k + 1) * x + x /\ (l + 1) * y = l * y + y
      /\ (k + 1) * x \in Nat /\ l * y \in Nat
  BY <1>1
<1>5. y < x
  BY <1>1, <1>2, <1>3, <1>4
<1> QED BY <1>5, PowMono DEF x, y

(* There is one peak of a height. *)
LEMMA SamePeak ==
  ASSUME NEW n \in Nat, NEW g \in Nat, NEW l \in Nat, PeakOver(n, g, l),
         NEW m \in Nat, PeakOver(n, g, m)
  PROVE  l = m
<1> DEFINE y == 2^g
<1>1. y \in Nat /\ y > 0
  BY PowType
<1>2. (l + 1) * y <= n /\ n < ((l + 1) + 1) * y
  <2>1. (l + 1) + 1 = l + 2
    OBVIOUS
  <2> QED BY <2>1 DEF PeakOver
<1>3. (m + 1) * y <= n /\ n < ((m + 1) + 1) * y
  <2>1. (m + 1) + 1 = m + 2
    OBVIOUS
  <2> QED BY <2>1 DEF PeakOver
<1> HIDE DEF y
<1>4. n \div y = l + 1
  <2>1. l + 1 \in Nat
    OBVIOUS
  <2> QED BY <1>1, <1>2, <2>1, DivIs
<1>5. n \div y = m + 1
  <2>1. m + 1 \in Nat
    OBVIOUS
  <2> QED BY <1>1, <1>3, <2>1, DivIs
<1> QED BY <1>4, <1>5

(* There is a peak in the list for each bit of the number of leaves. *)
LEMMA PeakOfBit ==
  ASSUME NEW n \in Nat, NEW q, Tiles(q, n), NEW b \in Bits(n)
  PROVE  \E i \in 1 .. Len(q) : \E k \in Nat : PeakAt(q, n, i, b, k)
<1>1. b \in Nat
  BY DEF Bits
<1>2. PICK k \in Nat : PeakOver(n, b, k)
  BY DEF Bits
<1>3. k * 2^b \in Nat /\ (k + 1) * 2^b \in Nat /\ k * 2^b < (k + 1) * 2^b /\ InRun(k * 2^b, b, k)
  BY <1>1, RunEnds
<1>4. k * 2^b < n
  <2>1. (k + 1) * 2^b <= n
    BY <1>2 DEF PeakOver
  <2> QED BY <1>3, <2>1
<1>5. PICK i \in 1 .. Len(q), f \in Nat, m \in Nat : PeakAt(q, n, i, f, m) /\ InRun(k * 2^b, f, m)
  BY <1>3, <1>4 DEF Tiles
<1>6. f = b /\ m = k
  <2>1. PeakOver(n, f, m)
    BY <1>5 DEF PeakAt
  <2> QED BY <1>1, <1>2, <1>3, <1>5, <2>1, OnePeak
<1> QED BY <1>5, <1>6

(* PeakIndex of the height of a peak is the number of the peaks before it. *)
LEMMA PeakIndexIs ==
  ASSUME NEW n \in Nat, NEW q, Tiles(q, n),
         NEW j \in 1 .. Len(q), NEW g \in Nat, NEW l \in Nat, PeakAt(q, n, j, g, l)
  PROVE  PeakIndex(n, g) = j - 1
<1> DEFINE S == 1 .. j - 1
           T == {b \in Bits(n) : b > g}
           IsHeight(i, h) == \E k \in Nat : PeakAt(q, n, i, h, k)
           f == [i \in S |-> CHOOSE h \in Nat : IsHeight(i, h)]
<1>1. q \in Seq(Nat) /\ Len(q) \in Nat /\ j \in Nat
  BY DEF Tiles
<1>2. \A i \in S : i \in 1 .. Len(q) /\ i < j
  BY <1>1
<1>3. \A i \in S : f[i] \in Nat /\ IsHeight(i, f[i])
  <2> SUFFICES ASSUME NEW i \in S PROVE f[i] \in Nat /\ IsHeight(i, f[i])
    OBVIOUS
  <2>1. \E h \in Nat : IsHeight(i, h)
    BY <1>2 DEF Tiles
  <2>2. f[i] = CHOOSE h \in Nat : IsHeight(i, h)
    OBVIOUS
  <2> HIDE DEF f, IsHeight
  <2> QED BY <2>1, <2>2
<1>4. DOMAIN f = S
  OBVIOUS
<1>5. f = [i \in S |-> f[i]]
  <2> HIDE DEF S, IsHeight
  <2> QED OBVIOUS
<1> HIDE DEF f
<1>6. \A i \in S : f[i] \in T
  <2> SUFFICES ASSUME NEW i \in S PROVE f[i] \in T
    OBVIOUS
  <2>1. PICK k \in Nat : PeakAt(q, n, i, f[i], k)
    BY <1>3
  <2>2. f[i] > g
    BY <1>2, <1>3, <2>1, PeaksDescend
  <2>3. f[i] \in Bits(n)
    BY <1>3, <2>1 DEF PeakAt, Bits
  <2> QED BY <2>2, <2>3
<1>7. \A a, b \in S : f[a] = f[b] => a = b
  <2> SUFFICES ASSUME NEW a \in S, NEW b \in S, f[a] = f[b], a < b PROVE FALSE
    <3>1. \A a, b \in S : f[a] = f[b] => ~ (a < b) /\ ~ (b < a)
      OBVIOUS
    <3>2. \A a \in S : a \in Nat
      BY <1>2
    <3> HIDE DEF S
    <3> QED BY <3>1, <3>2
  <2>1. PICK k \in Nat : PeakAt(q, n, a, f[a], k)
    BY <1>3
  <2>2. PICK m \in Nat : PeakAt(q, n, b, f[b], m)
    BY <1>3
  <2>3. f[a] \in Nat /\ f[b] \in Nat /\ a \in 1 .. Len(q) /\ b \in 1 .. Len(q)
    BY <1>2, <1>3
  <2>4. f[b] < f[a]
    BY <2>1, <2>2, <2>3, PeaksDescend
  <2> QED BY <2>3, <2>4
<1>8. \A b \in T : \E i \in S : f[i] = b
  <2> SUFFICES ASSUME NEW b \in T PROVE \E i \in S : f[i] = b
    OBVIOUS
  <2>1. b \in Bits(n) /\ b > g /\ b \in Nat
    BY DEF Bits
  <2>2. PICK i \in 1 .. Len(q), k \in Nat : PeakAt(q, n, i, b, k)
    BY <2>1, PeakOfBit
  <2>3. ~ (j < i)
    <3>1. j < i => b < g
      BY <2>1, <2>2, PeaksDescend
    <3> QED BY <2>1, <3>1
  <2>4. i # j
    <3> SUFFICES ASSUME i = j PROVE FALSE
      OBVIOUS
    <3>1. NodePos(b, k) \in Nat /\ NodePos(g, l) \in Nat
      BY <2>1, NodePosBounds
    <3>2. NodePos(b, k) = NodePos(g, l)
      BY <2>2, <3>1 DEF PeakAt
    <3>3. b = g
      BY <2>1, <3>2, NodePosUnique
    <3> QED BY <2>1, <3>3
  <2>5. i \in S
    BY <1>1, <2>3, <2>4
  <2>6. f[i] = b
    <3>1. PICK m \in Nat : PeakAt(q, n, i, f[i], m)
      BY <1>3, <2>5
    <3>2. f[i] \in Nat
      BY <1>3, <2>5
    <3>3. NodePos(b, k) \in Nat /\ NodePos(f[i], m) \in Nat
      BY <2>1, <3>2, NodePosBounds
    <3>4. NodePos(b, k) = NodePos(f[i], m)
      BY <2>2, <3>1, <3>3 DEF PeakAt
    <3> QED BY <2>1, <3>2, <3>4, NodePosUnique
  <2> QED BY <2>5, <2>6
<1>9. ExistsBijection(S, T)
  <2> HIDE DEF S, T
  <2>1. f \in [S -> T]
    BY <1>5, <1>6
  <2>2. f \in Bijection(S, T)
    BY <1>7, <1>8, <2>1, Fun_IsBij
  <2> QED BY <2>2 DEF ExistsBijection
<1>10. Cardinality(T) = j - 1
  <2>1. IsFiniteSet(S) /\ Cardinality(S) = j - 1
    <3>1. 1 \in Int /\ j - 1 \in Int /\ ~ (1 > j - 1) => (j - 1) - 1 + 1 = j - 1
      BY <1>1
    <3>2. 1 > j - 1 => j - 1 = 0
      BY <1>1
    <3>3. IsFiniteSet(S) /\ Cardinality(S) = IF 1 > j - 1 THEN 0 ELSE (j - 1) - 1 + 1
      BY <3>1, FS_Interval
    <3> HIDE DEF S
    <3> QED BY <1>1, <3>3
  <2> HIDE DEF S, T
  <2> QED BY <1>9, <2>1, FS_Bijection
<1>11. Cardinality(T) = OnesCount(n) - OnesCount(n % 2^(g + 1))
  <2> DEFINE B == Bits(n)
             R == Bits(n % 2^(g + 1))
  <2>1. n % 2^(g + 1) \in Nat /\ R = {k \in B : k <= g}
    BY BitsOfRest
  <2>2. OnesCount(n) = Cardinality(B) /\ IsFiniteSet(B)
    BY OnesCountIs
  <2>3. OnesCount(n % 2^(g + 1)) = Cardinality(R)
    BY <2>1, OnesCountIs
  <2>4. T = B \ R /\ B \cap R = R
    <3>1. \A k \in B : k \in Nat
      BY DEF Bits
    <3> HIDE DEF B, R
    <3>2. T = {b \in B : b > g}
      BY DEF B
    <3> HIDE DEF T
    <3> QED BY <2>1, <3>1, <3>2
  <2> HIDE DEF T, B, R
  <2>5. Cardinality(B \ R) = Cardinality(B) - Cardinality(B \cap R)
    BY <2>2, FS_Difference
  <2> QED BY <2>2, <2>3, <2>4, <2>5
<1> QED BY <1>10, <1>11 DEF PeakIndex

-----------------------------------------------------------------------------
(* The peaks over runs of leaves *)

(* halves[n] is the sum of n, its half, the half of that and so on.        *)
LEMMA HalvesDef ==
  ASSUME NEW n \in Nat
  PROVE  /\ halves[n] \in Nat
         /\ halves[n] = IF n = 0 THEN 0 ELSE n + halves[n \div 2]
<1> DEFINE B(f, x) == IF x = 0 THEN 0 ELSE x + f[x \div 2]
           D == [p \in [Nat -> Nat] \X Nat |-> B(p[1], p[2])]
<1>0. \A x \in Nat : x \div 2 \in Nat /\ (x # 0 => x \div 2 < x)
  OBVIOUS
<1>1. \A f \in [Nat -> Nat], x \in Nat : B(f, x) \in Nat /\ D[<<f, x>>] = B(f, x)
  <2>1. ASSUME NEW f \in [Nat -> Nat], NEW x \in Nat PROVE B(f, x) \in Nat
    <3>1. f[x \div 2] \in Nat
      BY <1>0
    <3> QED BY <3>1
  <2> HIDE DEF B
  <2> QED BY <2>1
<1>2. D \in [[Nat -> Nat] \X Nat -> Nat]
  <2> HIDE DEF B
  <2> QED BY <1>1
<1>3. ASSUME NEW f \in [Nat -> Nat], NEW g \in [Nat -> Nat], NEW x \in Nat,
             \A k \in Nat : k < x => f[k] = g[k]
      PROVE  D[<<f, x>>] = D[<<g, x>>]
  <2>1. x # 0 => f[x \div 2] = g[x \div 2]
    BY <1>0, <1>3
  <2>2. B(f, x) = B(g, x)
    BY <2>1
  <2> HIDE DEF B
  <2> QED BY <2>2
<1>4. \E f \in [Nat -> Nat] : f = [x \in Nat |-> D[<<f, x>>]]
  <2>1. Nat # {}
    OBVIOUS
  <2> HIDE DEF D
  <2>2. NatLooksBelow(Nat, D)
    BY <2>1, <1>2, <1>3 DEF NatLooksBelow
  <2> QED BY <2>2, NatRecursion
<1>5. \E f : f \in [Nat -> Nat] /\ f = [x \in Nat |-> B(f, x)]
  <2>1. PICK f \in [Nat -> Nat] : f = [x \in Nat |-> D[<<f, x>>]]
    BY <1>4
  <2>2. [x \in Nat |-> D[<<f, x>>]] = [x \in Nat |-> B(f, x)]
    <3> HIDE DEF B, D
    <3> QED BY <1>1
  <2> HIDE DEF B, D
  <2> QED BY <2>1, <2>2
<1>6. halves = [x \in Nat |-> B(halves, x)]
  BY <1>5 DEF halves
<1>7. \A x \in Nat : halves[x] = B(halves, x)
  <2> HIDE DEF B
  <2> QED BY <1>6
<1>8. ASSUME NEW T, T = {x \in Nat : halves[x] \notin Nat}, T # {} PROVE FALSE
  <2>1. T \in SUBSET Nat
    BY <1>8
  <2>2. PICK x \in T : \A y \in T : x <= y
    BY <1>8, <2>1, NatLeast
  <2>3. x \in Nat /\ halves[x] \notin Nat
    BY <1>8
  <2>4. x # 0 => halves[x \div 2] \in Nat
    <3>1. x # 0 => x \div 2 \in Nat /\ x \div 2 < x
      BY <1>0, <2>3
    <3> HIDE DEF B
    <3> QED BY <1>8, <2>2, <2>3, <3>1
  <2>5. B(halves, x) \in Nat
    BY <2>3, <2>4
  <2> HIDE DEF B
  <2> QED BY <1>7, <2>3, <2>5
<1>9. halves[n] \in Nat
  BY <1>8
<1> QED BY <1>7, <1>9

(* A number has one odd part. *)
LEMMA OddPart ==
  ASSUME NEW g \in Nat, NEW a \in Nat, NEW h \in Nat, NEW b \in Nat,
         (2 * a + 1) * 2^g = (2 * b + 1) * 2^h
  PROVE  g = h /\ a = b
<1>1. MMRIndex((2 * a + 1) * 2^g) = NodePos(g, 2 * a)
      /\ MMRIndex((2 * b + 1) * 2^h) = NodePos(h, 2 * b)
  BY NextLeafPos
<1>2. 2 * a \in Nat /\ 2 * b \in Nat /\ NodePos(g, 2 * a) = NodePos(h, 2 * b)
  BY <1>1
<1>3. g = h /\ 2 * a = 2 * b
  BY <1>2, NodePosUnique
<1> QED BY <1>3

(* leafcount.go: each leaf adds a peak, and takes away those it merges. *)
LEMMA PeaksLeft ==
  ASSUME NEW h \in Nat, NEW j \in Nat
  PROVE  /\ (2 * j + 1) * 2^h - 1 \in Nat
         /\ LeafMinusSpurSum((2 * j + 1) * 2^h)
              = LeafMinusSpurSum((2 * j + 1) * 2^h - 1) + 1 - h
         /\ SpurHeightLeaf((2 * j + 1) * 2^h - 1) = h
<1> DEFINE N(g) == (2 * j + 1) * 2^g
           S == {g \in Nat : halves[N(g) \div 2] = halves[(N(g) - 1) \div 2] + g}
<1>1. \A g \in Nat : N(g) \in Nat /\ N(g) # 0 /\ N(g + 1) = 2 * N(g) /\ N(0) = 2 * j + 1
  <2>1. ASSUME NEW g \in Nat PROVE N(g) \in Nat /\ N(g) # 0 /\ N(g + 1) = 2 * N(g)
    <3>1. 2^g \in Nat /\ 2^g > 0 /\ 2^(g + 1) = 2 * 2^g
      BY PowType, PowStep
    <3>2. ASSUME NEW y \in Nat, y > 0
          PROVE  /\ (2 * j + 1) * y \in Nat /\ (2 * j + 1) * y # 0
                 /\ (2 * j + 1) * (2 * y) = 2 * ((2 * j + 1) * y)
      <4>1. (2 * j + 1) * y = 2 * (j * y) + y /\ j * y \in Nat
            /\ (2 * j + 1) * (2 * y) = 4 * (j * y) + 2 * y
        OBVIOUS
      <4> QED BY <3>2, <4>1
    <3> QED BY <3>1, <3>2
  <2>2. N(0) = 2 * j + 1
    BY PowZero
  <2> HIDE DEF N
  <2> QED BY <2>1, <2>2
<1> HIDE DEF N
<1>2. 0 \in S
  <2>1. N(0) = 2 * j + 1
    <3>1. 0 \in Nat
      OBVIOUS
    <3> QED BY <3>1, <1>1
  <2>2. (2 * j + 1) \div 2 = j /\ (2 * j + 1 - 1) \div 2 = j
    OBVIOUS
  <2>3. halves[N(0) \div 2] = halves[j] /\ halves[(N(0) - 1) \div 2] = halves[j]
    BY <2>1, <2>2
  <2>4. halves[j] \in Nat
    BY HalvesDef
  <2>5. halves[N(0) \div 2] = halves[(N(0) - 1) \div 2] + 0
    BY <2>3, <2>4
  <2> QED BY <2>5
<1>3. \A g \in 1 .. h : g - 1 \in S => g \in S
  <2> SUFFICES ASSUME NEW g \in 1 .. h, g - 1 \in S PROVE g \in S
    OBVIOUS
  <2>1. PICK f \in Nat : g = f + 1 /\ f \in S
    <3>1. g - 1 \in Nat /\ g = (g - 1) + 1
      OBVIOUS
    <3> QED BY <3>1
  <2>2. PICK q \in Nat : q = N(f) /\ q # 0 /\ N(g) = 2 * q
    BY <1>1, <2>1
  <2>3. N(g) \div 2 = q /\ (N(g) - 1) \div 2 = q - 1 /\ q - 1 \in Nat
    BY <2>2
  <2>4. halves[q] = q + halves[q \div 2] /\ q \div 2 \in Nat /\ halves[q \div 2] \in Nat
    <3>1. q \div 2 \in Nat
      OBVIOUS
    <3> QED BY <2>2, <3>1, HalvesDef
  <2>5. halves[q - 1] = q - 1 + halves[(q - 1) \div 2] /\ halves[(q - 1) \div 2] \in Nat
    <3>1. (q - 1) \div 2 \in Nat /\ (q - 1 = 0 => (q - 1) \div 2 = 0)
      BY <2>3
    <3>2. halves[0] = 0 /\ halves[(q - 1) \div 2] \in Nat
      <4>1. 0 \in Nat
        OBVIOUS
      <4> QED BY <4>1, <3>1, HalvesDef
    <3>3. halves[q - 1] = IF q - 1 = 0 THEN 0 ELSE q - 1 + halves[(q - 1) \div 2]
      BY <2>3, HalvesDef
    <3> QED BY <2>3, <3>1, <3>2, <3>3
  <2>6. halves[q \div 2] = halves[(q - 1) \div 2] + f
    BY <2>1, <2>2
  <2>7. g \in Nat /\ halves[N(g) \div 2] = halves[(N(g) - 1) \div 2] + g
    <3>1. halves[N(g) \div 2] = halves[q] /\ halves[(N(g) - 1) \div 2] = halves[q - 1]
      BY <2>3
    <3>2. halves[q] = halves[q - 1] + g
      BY <2>1, <2>2, <2>4, <2>5, <2>6
    <3> QED BY <3>1, <3>2
  <2> QED BY <2>7
<1>4. h \in S
  <2> HIDE DEF S
  <2>1. \A g \in 0 .. h : g \in S
    BY <1>2, <1>3, UpTo
  <2> QED BY <2>1
<1>5. N(h) - 1 \in Nat /\ N(h) \in Nat /\ (N(h) - 1) + 1 = N(h) /\ (N(h) - 1) \div 2 \in Nat
  <2>1. PICK x \in Nat : x = N(h) /\ x # 0
    BY <1>1
  <2>2. x - 1 \in Nat /\ (x - 1) + 1 = x
    BY <2>1
  <2>3. (x - 1) \div 2 \in Nat
    BY <2>2
  <2> QED BY <2>1, <2>2, <2>3
<1>6. halves[(N(h) - 1) \div 2] \in Nat
  BY <1>5, HalvesDef
<1>7. LeafMinusSpurSum(N(h)) = LeafMinusSpurSum(N(h) - 1) + 1 - h
  BY <1>4, <1>5, <1>6 DEF LeafMinusSpurSum
<1>8. SpurHeightLeaf(N(h) - 1) = h
  BY <1>5, TrailingZerosIs DEF SpurHeightLeaf, N
<1> QED BY <1>5, <1>7, <1>8 DEF N

-----------------------------------------------------------------------------
(* How the lists of the peaks of two ranges agree                          *)

(* The peaks over n leaves, those over none too *)
PeaksOver(n) == IF n = 0 THEN << >> ELSE Peaks(MMRIndex(n) - 1)

(* The first j of the peaks q are those over the first e leaves. *)
Covers(q, n, j, e) ==
  /\ j = 0 => e = 0
  /\ j # 0 => /\ j \in 1 .. Len(q)
              /\ \E h, k \in Nat : PeakAt(q, n, j, h, k) /\ e = (k + 1) * 2^h

(* Peaks makes a list of the peaks. *)
LEMMA PeaksOverTile ==
  ASSUME NEW n \in Nat
  PROVE  Tiles(PeaksOver(n), n)
<1>1. CASE n = 0
  <2>1. << >> \in Seq(Nat) /\ Len(<< >>) = 0 /\ 1 .. 0 = {}
    OBVIOUS
  <2>2. \A x \in Nat : ~ (x < 0)
    OBVIOUS
  <2> QED BY <1>1, <2>1, <2>2 DEF PeaksOver, Tiles
<1>2. CASE n # 0
  BY <1>2, PeaksTile DEF PeaksOver
<1> QED BY <1>1, <1>2

(* All the peaks are over all the leaves. *)
LEMMA AllCovered ==
  ASSUME NEW n \in Nat, NEW q, Tiles(q, n)
  PROVE  Covers(q, n, Len(q), n)
<1>1. q \in Seq(Nat) /\ Len(q) \in Nat
  BY DEF Tiles
<1>2. CASE n = 0
  <2>1. Len(q) = 0
    <3> SUFFICES ASSUME Len(q) # 0 PROVE FALSE
      OBVIOUS
    <3>1. 1 \in 1 .. Len(q)
      BY <1>1
    <3>2. PICK h \in Nat, k \in Nat : PeakAt(q, n, 1, h, k)
      BY <3>1 DEF Tiles
    <3>3. k * 2^h \in Nat /\ (k + 1) * 2^h \in Nat /\ k * 2^h < (k + 1) * 2^h
      BY RunEnds
    <3>4. (k + 1) * 2^h <= 0
      BY <3>2, <1>2 DEF PeakAt, PeakOver
    <3> QED BY <3>3, <3>4
  <2> QED BY <1>2, <2>1 DEF Covers
<1>3. CASE n # 0
  <2>1. PICK x \in Nat : x = n - 1 /\ x < n
    <3>1. n - 1 \in Nat /\ n - 1 < n
      BY <1>3
    <3> QED BY <3>1
  <2>2. PICK j \in 1 .. Len(q), h \in Nat, k \in Nat : PeakAt(q, n, j, h, k) /\ InRun(x, h, k)
    BY <2>1 DEF Tiles
  <2>3. (k + 1) * 2^h \in Nat /\ x < (k + 1) * 2^h /\ (k + 1) * 2^h <= n
    BY <2>2, RunEnds DEF InRun, PeakAt, PeakOver
  <2>4. n = (k + 1) * 2^h
    <3> DEFINE e == (k + 1) * 2^h
    <3> HIDE DEF e
    <3>1. e \in Nat /\ x < e /\ e <= n
      BY <2>3 DEF e
    <3>2. n = e
      BY <2>1, <3>1
    <3> QED BY <3>2 DEF e
  <2>5. j = Len(q)
    <3> SUFFICES ASSUME j < Len(q) PROVE FALSE
      BY <1>1, <2>2
    <3>1. Len(q) \in 1 .. Len(q)
      BY <1>1, <2>2
    <3>2. PICK g \in Nat, l \in Nat : PeakAt(q, n, Len(q), g, l)
      BY <3>1 DEF Tiles
    <3>3. (k + 1) * 2^h <= l * 2^g
      BY <2>2, <3>1, <3>2 DEF Tiles
    <3>4. l * 2^g \in Nat /\ (l + 1) * 2^g \in Nat /\ l * 2^g < (l + 1) * 2^g
      BY RunEnds
    <3>5. (l + 1) * 2^g <= n
      BY <3>2 DEF PeakAt, PeakOver
    <3> DEFINE a == l * 2^g
               b == (l + 1) * 2^g
    <3> HIDE DEF a, b
    <3>6. a \in Nat /\ b \in Nat /\ a < b /\ b <= n /\ n <= a
      BY <2>4, <3>3, <3>4, <3>5 DEF a, b
    <3> QED BY <3>6
  <2>6. Len(q) # 0 /\ Len(q) \in 1 .. Len(q)
    BY <1>1, <2>2
  <2> QED BY <2>2, <2>4, <2>5, <2>6 DEF Covers
<1> QED BY <1>2, <1>3

(* The last of the peaks over some leaves is the highest there can be. *)
LEMMA LastCovering ==
  ASSUME NEW n \in Nat, NEW q, Tiles(q, n), NEW j \in Nat,
         NEW g \in Nat, NEW d \in Nat, Covers(q, n, j, (2 * d + 1) * 2^g)
  PROVE  /\ j # 0 /\ j - 1 \in Nat /\ j \in 1 .. Len(q)
         /\ PeakAt(q, n, j, g, 2 * d)
         /\ Covers(q, n, j - 1, 2 * d * 2^g)
<1>1. 2 * d \in Nat /\ (2 * d + 1) * 2^g \in Nat /\ (2 * d + 1) * 2^g # 0
  <2>1. 2 * d \in Nat
    OBVIOUS
  <2>2. 2 * d * 2^g \in Nat /\ (2 * d + 1) * 2^g \in Nat /\ 2 * d * 2^g < (2 * d + 1) * 2^g
    BY <2>1, RunEnds
  <2> QED BY <2>1, <2>2
<1>2. j # 0 /\ j \in 1 .. Len(q)
  BY <1>1 DEF Covers
<1>3. PICK h \in Nat, k \in Nat : PeakAt(q, n, j, h, k) /\ (2 * d + 1) * 2^g = (k + 1) * 2^h
  BY <1>2 DEF Covers
<1>4. PICK c \in Nat : k = 2 * c
  BY <1>3 DEF PeakAt, PeakOver
<1>5. g = h /\ d = c
  BY <1>3, <1>4, OddPart
<1>6. PeakAt(q, n, j, g, 2 * d)
  BY <1>3, <1>4, <1>5
<1>7. CASE j = 1
  <2>1. 2 * d * 2^g = 0
    <3>1. n # 0
      <4>1. (2 * d + 1) * 2^g <= n
        BY <1>6 DEF PeakAt, PeakOver
      <4> QED BY <1>1, <4>1
    <3> QED BY <1>1, <1>2, <1>6, <1>7, <3>1, FirstTile
  <2> QED BY <1>2, <1>6, <1>7, <2>1 DEF Covers
<1>8. CASE j # 1
  <2>1. PICK y \in Nat : y = j - 1 /\ y # 0 /\ y \in 1 .. Len(q) /\ y + 1 = j
    <3>1. Len(q) \in Nat
      BY DEF Tiles
    <3>2. j - 1 \in Nat /\ j - 1 # 0 /\ j - 1 \in 1 .. Len(q) /\ (j - 1) + 1 = j
      BY <1>2, <1>8, <3>1
    <3> QED BY <3>2
  <2>2. PICK f \in Nat, l \in Nat : PeakAt(q, n, y, f, l)
    BY <2>1 DEF Tiles
  <2>3. 2 * d * 2^g = (l + 1) * 2^f
    BY <1>1, <1>2, <1>6, <2>1, <2>2, NextTile
  <2>4. Covers(q, n, y, 2 * d * 2^g)
    BY <2>1, <2>2, <2>3 DEF Covers
  <2> QED BY <1>2, <1>6, <2>1, <2>4
<1> QED BY <1>7, <1>8

(* What two ranges have in common the same peaks are over, in the same     *)
(* places.                                                                 *)
LEMMA SameCovering ==
  ASSUME NEW n \in Nat, NEW q, Tiles(q, n), NEW m \in Nat, NEW r, Tiles(r, m),
         NEW j \in Nat, NEW k \in Nat, NEW e, Covers(q, n, j, e), Covers(r, m, k, e)
  PROVE  j = k /\ \A y \in 1 .. j : q[y] = r[y]
<1> DEFINE P(x) == \A f, y : Covers(q, n, x, f) /\ y \in Nat /\ Covers(r, m, y, f) =>
                     x = y /\ \A z \in 1 .. x : q[z] = r[z]
           S == {x \in Nat : P(x)}
<1>1. 0 \in S
  <2> SUFFICES ASSUME NEW f, NEW y, Covers(q, n, 0, f), y \in Nat, Covers(r, m, y, f)
               PROVE  y = 0
    OBVIOUS
  <2>1. f = 0
    BY DEF Covers
  <2>2. \A h, l \in Nat : (l + 1) * 2^h # 0
    <3> SUFFICES ASSUME NEW h \in Nat, NEW l \in Nat PROVE (l + 1) * 2^h # 0
      OBVIOUS
    <3>1. l * 2^h \in Nat /\ (l + 1) * 2^h \in Nat /\ l * 2^h < (l + 1) * 2^h
      BY RunEnds
    <3> QED BY <3>1
  <2> QED BY <2>1, <2>2 DEF Covers
<1>2. \A x \in 1 .. j : x - 1 \in S => x \in S
  <2> SUFFICES ASSUME NEW x \in 1 .. j, x - 1 \in S, NEW f, NEW y,
                      Covers(q, n, x, f), y \in Nat, Covers(r, m, y, f)
               PROVE  x = y /\ \A z \in 1 .. x : q[z] = r[z]
    OBVIOUS
  <2>0. x \in Nat /\ x # 0 /\ x - 1 \in Nat
    OBVIOUS
  <2>1. PICK h \in Nat, l \in Nat : PeakAt(q, n, x, h, l) /\ f = (l + 1) * 2^h
    BY <2>0 DEF Covers
  <2>2. PICK d \in Nat : l = 2 * d
    BY <2>1 DEF PeakAt, PeakOver
  <2>3. f = (2 * d + 1) * 2^h
    BY <2>1, <2>2
  <2>4. PeakAt(q, n, x, h, 2 * d) /\ Covers(q, n, x - 1, 2 * d * 2^h)
    BY <2>0, <2>3, LastCovering
  <2>5. y # 0 /\ y - 1 \in Nat /\ PeakAt(r, m, y, h, 2 * d) /\ Covers(r, m, y - 1, 2 * d * 2^h)
    BY <2>3, LastCovering
  <2>6. x - 1 = y - 1 /\ \A z \in 1 .. x - 1 : q[z] = r[z]
    <3>1. P(x - 1)
      OBVIOUS
    <3> HIDE DEF S
    <3> QED BY <2>4, <2>5, <3>1
  <2>7. x = y
    BY <2>0, <2>5, <2>6
  <2>8. q[x] = r[x]
    BY <2>4, <2>5, <2>7 DEF PeakAt
  <2>9. \A z \in 1 .. x : z = x \/ z \in 1 .. x - 1
    BY <2>0
  <2> QED BY <2>6, <2>7, <2>8, <2>9
<1> HIDE DEF S
<1>3. j \in S
  <2>1. \A x \in 0 .. j : x \in S
    BY <1>1, <1>2, UpTo
  <2> QED BY <2>1
<1> QED BY <1>3 DEF S

(* A node that is a peak of two ranges has the same place among the peaks  *)
(* of both.                                                                *)
LEMMA SamePlace ==
  ASSUME NEW n \in Nat, NEW q, Tiles(q, n), NEW m \in Nat, NEW r, Tiles(r, m),
         NEW j \in 1 .. Len(q), NEW k \in 1 .. Len(r), NEW h \in Nat, NEW l \in Nat,
         PeakAt(q, n, j, h, l), PeakAt(r, m, k, h, l)
  PROVE  j = k
<1>1. Len(q) \in Nat /\ Len(r) \in Nat
  BY DEF Tiles
<1>2. j \in Nat /\ j # 0 /\ k \in Nat /\ k # 0
  BY <1>1
<1>3. Covers(q, n, j, (l + 1) * 2^h) /\ Covers(r, m, k, (l + 1) * 2^h)
  BY <1>2 DEF Covers
<1> QED BY <1>2, <1>3, SameCovering

(* The peaks that more leaves merge: each is the left child of the one     *)
(* that comes next, and they are the last of the peaks, from the last back.*)
LEMMA MergedPeaks ==
  ASSUME NEW n \in Nat, NEW q, Tiles(q, n), NEW a \in Nat, NEW f \in Nat, a <= f,
         NEW c \in Nat, n + 2^a = (2 * c + 1) * 2^f
  PROVE  \A s \in 0 .. f - a :
           /\ Len(q) - s \in Nat
           /\ Covers(q, n, Len(q) - s, n + 2^a - 2^(a + s))
           /\ s < f - a => \A k \in Nat : (k + 2) * 2^(a + s) = n + 2^a =>
                PeakAt(q, n, Len(q) - s, a + s, k) /\ Len(q) - s \in 1 .. Len(q)
<1> DEFINE z == n + 2^a
           P(s) == /\ Len(q) - s \in Nat
                   /\ Covers(q, n, Len(q) - s, z - 2^(a + s))
           S == {s \in Nat : P(s)}
<1>1. 2^a \in Nat /\ z \in Nat /\ Len(q) \in Nat /\ f - a \in Nat
  BY PowType DEF Tiles
<1>2. ASSUME NEW s \in Nat, s < f - a, P(s), NEW k \in Nat, (k + 2) * 2^(a + s) = z
      PROVE  /\ PeakAt(q, n, Len(q) - s, a + s, k) /\ Len(q) - s \in 1 .. Len(q)
             /\ P(s + 1)
  <2>1. a + s \in Nat /\ a + s < f
    BY <1>1, <1>2
  <2> DEFINE y == 2^(a + s)
  <2>2. y \in Nat /\ y > 0 /\ 2^(a + s + 1) = 2 * y
    BY <2>1, PowType, PowStep
  <2>3. PICK d \in Nat : k = 2 * d
    <3>1. PICK d \in Nat : k = 2 * d \/ k = 2 * d + 1
      BY EvenOrOdd
    <3>2. ASSUME k = 2 * d + 1 PROVE FALSE
      <4>1. (2 * (d + 1) + 1) * 2^(a + s) = (2 * c + 1) * 2^f
        <5>1. 2 * (d + 1) + 1 = k + 2
          BY <3>2
        <5> QED BY <1>2, <5>1
      <4>2. d + 1 \in Nat
        OBVIOUS
      <4>3. a + s = f
        BY <2>1, <4>1, <4>2, OddPart
      <4> QED BY <2>1, <4>3
    <3> QED BY <3>1, <3>2
  <2>4. z - y = (2 * d + 1) * y /\ z - 2 * y = 2 * d * y
    <3>1. (2 * d + 2) * y = (2 * d + 1) * y + y /\ (2 * d + 2) * y = 2 * d * y + 2 * y
          /\ (2 * d + 1) * y \in Nat /\ 2 * d * y \in Nat
      BY <2>2
    <3>2. z = (2 * d + 2) * y
      BY <1>2, <2>3
    <3> HIDE DEF y, z
    <3> QED BY <2>2, <3>1, <3>2
  <2>5. PICK j \in Nat : j = Len(q) - s
    BY <1>2
  <2>6. Covers(q, n, j, (2 * d + 1) * 2^(a + s))
    BY <1>2, <2>4, <2>5
  <2>7. /\ j # 0 /\ j - 1 \in Nat /\ j \in 1 .. Len(q)
        /\ PeakAt(q, n, j, a + s, 2 * d)
        /\ Covers(q, n, j - 1, 2 * d * 2^(a + s))
    BY <2>1, <2>6, LastCovering
  <2>8. Len(q) - (s + 1) = j - 1 /\ a + (s + 1) = a + s + 1
    BY <1>1, <2>5
  <2>9. Covers(q, n, Len(q) - (s + 1), z - 2^(a + (s + 1)))
    BY <2>2, <2>4, <2>7, <2>8
  <2> QED BY <2>3, <2>5, <2>7, <2>8, <2>9
<1>3. ASSUME NEW s \in Nat, s < f - a PROVE \E k \in Nat : (k + 2) * 2^(a + s) = z
  <2>1. PICK b \in Nat : f = a + s + 1 + b
    <3>1. f - (a + s + 1) \in Nat /\ f = a + s + 1 + (f - (a + s + 1))
      BY <1>1, <1>3
    <3> QED BY <3>1
  <2>2. a + s \in Nat /\ a + s + 1 \in Nat
    OBVIOUS
  <2>3. 2^f = 2^(a + s + 1) * 2^b /\ 2^(a + s + 1) = 2 * 2^(a + s)
        /\ 2^b \in Nat /\ 2^b > 0 /\ 2^(a + s) \in Nat
    BY <2>1, <2>2, PowAdd, PowStep, PowType
  <2>4. ASSUME NEW x \in Nat, x > 0, NEW y \in Nat
        PROVE  \E k \in Nat : (2 * c + 1) * ((2 * y) * x) = (k + 2) * y
    <3>1. (2 * c + 1) * x \in Nat /\ (2 * c + 1) * x > 0
      <4>1. (2 * c + 1) * x = 2 * (c * x) + x /\ c * x \in Nat
        OBVIOUS
      <4> QED BY <2>4, <4>1
    <3>2. PICK u \in Nat : (2 * c + 1) * x = u + 1
      <4>1. (2 * c + 1) * x - 1 \in Nat /\ (2 * c + 1) * x = ((2 * c + 1) * x - 1) + 1
        BY <3>1
      <4> QED BY <4>1
    <3>3. (2 * c + 1) * ((2 * y) * x) = (2 * ((2 * c + 1) * x)) * y
      OBVIOUS
    <3>4. (2 * u + 2) * y = (2 * (u + 1)) * y /\ 2 * u \in Nat
      OBVIOUS
    <3> QED BY <3>2, <3>3, <3>4
  <2>5. \E k \in Nat : (2 * c + 1) * ((2 * 2^(a + s)) * 2^b) = (k + 2) * 2^(a + s)
    BY <2>3, <2>4
  <2> QED BY <2>3, <2>5
<1>4. 0 \in S
  <2>1. Len(q) - 0 = Len(q) /\ a + 0 = a /\ z - 2^a = n
    BY <1>1
  <2>2. Covers(q, n, Len(q), n)
    BY AllCovered
  <2> HIDE DEF z
  <2> QED BY <1>1, <2>1, <2>2
<1>5. \A s \in 1 .. f - a : s - 1 \in S => s \in S
  <2> SUFFICES ASSUME NEW s \in 1 .. f - a, s - 1 \in S PROVE s \in S
    OBVIOUS
  <2>1. PICK t \in Nat : t + 1 = s /\ t < f - a /\ t \in S
    <3>1. s - 1 \in Nat /\ (s - 1) + 1 = s /\ s - 1 < f - a
      BY <1>1
    <3> QED BY <3>1
  <2>2. PICK k \in Nat : (k + 2) * 2^(a + t) = z
    BY <1>3, <2>1
  <2>3. P(t)
    BY <2>1
  <2> HIDE DEF P, z
  <2>4. P(t + 1)
    BY <1>2, <2>1, <2>2, <2>3
  <2> QED BY <2>1, <2>4
<1>6. \A s \in 0 .. f - a : s \in S
  <2> HIDE DEF S
  <2> QED BY <1>1, <1>4, <1>5, UpTo
<1>7. ASSUME NEW s \in 0 .. f - a
      PROVE  /\ P(s)
             /\ s < f - a => \A k \in Nat : (k + 2) * 2^(a + s) = z =>
                  PeakAt(q, n, Len(q) - s, a + s, k) /\ Len(q) - s \in 1 .. Len(q)
  <2>1. s \in Nat /\ P(s)
    BY <1>6
  <2> HIDE DEF P, z
  <2> QED BY <1>2, <2>1
<1>8. ASSUME NEW s \in 0 .. f - a
      PROVE  /\ Len(q) - s \in Nat
             /\ Covers(q, n, Len(q) - s, n + 2^a - 2^(a + s))
  BY <1>7
<1>9. ASSUME NEW s \in 0 .. f - a, s < f - a, NEW k \in Nat, (k + 2) * 2^(a + s) = n + 2^a
      PROVE  PeakAt(q, n, Len(q) - s, a + s, k) /\ Len(q) - s \in 1 .. Len(q)
  BY <1>7, <1>9
<1> QED BY <1>8, <1>9

(* r is q without the last w, and the node at position p.                  *)
Continues(q, r, w, p) ==
  /\ Len(q) - w \in Nat
  /\ Len(r) = Len(q) - w + 1
  /\ \A y \in 1 .. Len(q) - w : r[y] = q[y]
  /\ r[Len(r)] = p - 1

(* The peaks over so many leaves more: those that are not merged, and the  *)
(* one that comes of it.                                                   *)
LEMMA NextPeaks ==
  ASSUME NEW n \in Nat, NEW q, Tiles(q, n), NEW a \in Nat, NEW f \in Nat, a <= f,
         NEW c \in Nat, NEW e, e = n + 2^a, e = (2 * c + 1) * 2^f,
         NEW r, Tiles(r, e), NEW w, w = f - a, NEW p, p = NodePos(f, 2 * c)
  PROVE  Continues(q, r, w, p)
<1>0. n + 2^a = (2 * c + 1) * 2^f /\ Tiles(r, n + 2^a)
  OBVIOUS
<1>1. f - a \in 0 .. f - a /\ a + (f - a) = f /\ 2^a \in Nat /\ n + 2^a \in Nat
      /\ Len(r) \in Nat /\ 2^f \in Nat
  <2>1. 2^a \in Nat /\ 2^f \in Nat /\ Len(r) \in Nat
    BY <1>0, PowType DEF Tiles
  <2> QED BY <2>1
<1>2. PICK j \in Nat : j = Len(q) - (f - a) /\ Covers(q, n, j, n + 2^a - 2^f)
  <2>1. Len(q) - (f - a) \in Nat /\ Covers(q, n, Len(q) - (f - a), n + 2^a - 2^(a + (f - a)))
    BY <1>0, <1>1, MergedPeaks
  <2> QED BY <1>1, <2>1
<1>3. Covers(r, n + 2^a, Len(r), (2 * c + 1) * 2^f)
  BY <1>0, <1>1, AllCovered
<1>4. /\ Len(r) - 1 \in Nat /\ PeakAt(r, n + 2^a, Len(r), f, 2 * c)
      /\ Covers(r, n + 2^a, Len(r) - 1, 2 * c * 2^f)
  BY <1>0, <1>1, <1>3, LastCovering
<1>5. n + 2^a - 2^f = 2 * c * 2^f
  <2>1. ASSUME NEW y \in Nat PROVE (2 * c + 1) * y - y = 2 * c * y
    OBVIOUS
  <2> QED BY <1>0, <1>1, <2>1
<1>6. j = Len(r) - 1 /\ \A y \in 1 .. j : q[y] = r[y]
  <2>1. Covers(q, n, j, 2 * c * 2^f)
    BY <1>2, <1>5
  <2> QED BY <1>0, <1>1, <1>4, <2>1, SameCovering
<1>7. Len(r) = j + 1
  BY <1>1, <1>6
<1> QED BY <1>2, <1>4, <1>6, <1>7 DEF PeakAt, Continues

-----------------------------------------------------------------------------
(* includedroot.go: the climb *)

(* includedroot.go: one round of the climb *)
ClimbStart(i, v) == [i |-> i, g |-> IndexHeight(i), root |-> v]
ClimbStep(at, sibling) ==
  IF IndexHeight(at.i + 1) > at.g
  THEN [i |-> at.i + 1, g |-> at.g + 1,
        root |-> HashPosPair64(at.i + 2, sibling, at.root)]
  ELSE [i |-> at.i + 2 * 2^at.g, g |-> at.g + 1,
        root |-> HashPosPair64(at.i + 2 * 2^at.g + 1, at.root, sibling)]

(* The rounds of the climb with a proof, from the node i with the value v *)
ClimbRun(r, i, v, proof) ==
  /\ r[0] = ClimbStart(i, v)
  /\ \A j \in 1 .. Len(proof) : r[j] = ClimbStep(r[j - 1], proof[j])
  /\ IncludedRoot(i, v, proof) = r[Len(proof)].root

(* IncludedRoot hashes its way up, a sibling a round. *)
LEMMA IncludedRootRun ==
  ASSUME NEW H, PairsOf(H) \subseteq H, NEW i \in Nat, IndexHeight(i) \in Nat,
         NEW v \in H, NEW proof \in Seq(H)
  PROVE  \E r : ClimbRun(r, i, v, proof) /\ IncludedRoot(i, v, proof) \in H
<1> DEFINE V == [i : Nat, g : Nat, root : H]
           Op == [p \in V \X H |-> ClimbStep(p[1], p[2])]
           base == ClimbStart(i, v)
           Is(f) == f = [s \in SUBSET DOMAIN proof |->
                           IF s = {} THEN base
                           ELSE ClimbStep(f[s \ {Max(s)}], proof[Max(s)])]
           F == CHOOSE f : Is(f)
           r == [j \in 0 .. Len(proof) |-> F[1 .. j]]
<1>1. \A at \in V, h \in H : ClimbStep(at, h) \in V
  <2>1. ASSUME NEW at \in V, NEW h \in H PROVE ClimbStep(at, h) \in V
    <3>1. at.i \in Nat /\ at.g \in Nat /\ at.root \in H /\ 2^at.g \in Nat
      BY PowType
    <3>2. \A p \in Nat : <<p, h, at.root>> \in H /\ <<p, at.root, h>> \in H
      BY <3>1 DEF PairsOf
    <3>3. /\ at.i + 1 \in Nat /\ at.i + 2 \in Nat /\ at.g + 1 \in Nat
          /\ at.i + 2 * 2^at.g \in Nat /\ at.i + 2 * 2^at.g + 1 \in Nat
      BY <3>1
    <3>4. /\ HashPosPair64(at.i + 2, h, at.root) \in H
          /\ HashPosPair64(at.i + 2 * 2^at.g + 1, at.root, h) \in H
      BY <3>2, <3>3 DEF HashPosPair64
    <3> QED BY <3>3, <3>4 DEF ClimbStep
  <2> QED BY <2>1
<1>2. Op \in [V \X H -> V] /\ base \in V
  <2>1. base \in V
    BY DEF ClimbStart
  <2> HIDE DEF V, base
  <2> QED BY <1>1, <2>1
<1>3. \E f : Is(f)
  <2> HIDE DEF V, base, Op
  <2>0. PICK f : FoldEquation(f, V, Op, base, proof)
    BY <1>2, FoldSolution
  <2>1. /\ f \in [SUBSET DOMAIN proof -> V]
        /\ f = [s \in SUBSET DOMAIN proof |->
                 IF s = {} THEN base ELSE Op[<<f[s \ {Max(s)}], proof[Max(s)]>>]]
    BY <2>0 DEF FoldEquation
  <2>2. ASSUME NEW s \in SUBSET DOMAIN proof, s # {}
        PROVE  Op[<<f[s \ {Max(s)}], proof[Max(s)]>>] = ClimbStep(f[s \ {Max(s)}], proof[Max(s)])
    <3>1. f[s \ {Max(s)}] \in V
      BY <2>1
    <3>2. proof[Max(s)] \in H
      BY <2>2, MaxOfIndices
    <3> QED BY <3>1, <3>2 DEF Op
  <2>3. Is(f)
    BY <2>1, <2>2
  <2> QED BY <2>3
<1>4. IncludedRoot(i, v, proof) = F[DOMAIN proof].root
  BY DEF IncludedRoot, FoldLeft, MapThenFoldSet, ClimbStep, ClimbStart
<1>5. Is(F)
  <2> HIDE DEF Is
  <2> QED BY <1>3
<1> HIDE DEF F
<1>6. DOMAIN proof = 1 .. Len(proof) /\ Len(proof) \in Nat
  OBVIOUS
<1>7. F[{}] = base
  BY <1>5
<1>8. ASSUME NEW j \in 1 .. Len(proof)
      PROVE  F[1 .. j] = ClimbStep(F[1 .. j - 1], proof[j])
  <2>1. Max(1 .. j) = j /\ (1 .. j) \ {j} = 1 .. j - 1 /\ 1 .. j # {}
    BY MaxOfSegment
  <2>2. 1 .. j \in SUBSET DOMAIN proof
    BY <1>6
  <2> HIDE DEF base
  <2> QED BY <1>5, <2>1, <2>2
<1>9. r[0] = base
  <2>1. 1 .. 0 = {} /\ 0 \in 0 .. Len(proof)
    OBVIOUS
  <2> HIDE DEF base
  <2> QED BY <1>7, <2>1
<1>10. ASSUME NEW j \in 1 .. Len(proof) PROVE r[j] = ClimbStep(r[j - 1], proof[j])
  <2>1. j \in 0 .. Len(proof) /\ j - 1 \in 0 .. Len(proof)
    OBVIOUS
  <2>2. r[j] = F[1 .. j] /\ r[j - 1] = F[1 .. j - 1]
    BY <2>1
  <2> HIDE DEF r
  <2> QED BY <1>8, <2>2
<1>11. IncludedRoot(i, v, proof) = r[Len(proof)].root
  <2>1. Len(proof) \in 0 .. Len(proof)
    OBVIOUS
  <2>2. r[Len(proof)] = F[DOMAIN proof]
    BY <2>1, <1>6
  <2> HIDE DEF r
  <2> QED BY <1>4, <2>2
<1> HIDE DEF r
<1>12. ClimbRun(r, i, v, proof)
  BY <1>9, <1>10, <1>11 DEF ClimbRun
<1>13. \A j \in 0 .. Len(proof) : j \in {x \in Nat : r[x] \in V}
  <2> DEFINE S == {x \in Nat : r[x] \in V}
  <2>1. 0 \in S
    <3> HIDE DEF V, base
    <3> QED BY <1>2, <1>9
  <2>2. ASSUME NEW j \in 1 .. Len(proof), j - 1 \in S PROVE j \in S
    <3>1. r[j - 1] \in V /\ proof[j] \in H /\ j \in Nat
      BY <2>2
    <3> HIDE DEF V
    <3> QED BY <3>1, <1>1, <1>10
  <2> HIDE DEF S
  <2>3. \A j \in 0 .. Len(proof) : j \in S
    BY <1>6, <2>1, <2>2, UpTo
  <2> QED BY <2>3 DEF S
<1>14. IncludedRoot(i, v, proof) \in H
  <2>1. r[Len(proof)] \in V
    <3>1. Len(proof) \in 0 .. Len(proof)
      OBVIOUS
    <3> HIDE DEF V
    <3> QED BY <3>1, <1>13
  <2>2. \A at \in V : at.root \in H
    OBVIOUS
  <2> HIDE DEF V
  <2> QED BY <1>11, <2>1, <2>2
<1> QED BY <1>12, <1>14

-----------------------------------------------------------------------------
(* proof.go: the path of an inclusion proof                                *)

(* One round of InclusionProofPath: where the sibling is, and the parent *)
PathSibling(i, g) == IF IndexHeight(i + 1) > g THEN i - 2 * 2^g + 1 ELSE i + 2 * 2^g - 1
PathParent(i, g) == IF IndexHeight(i + 1) > g THEN i + 1 ELSE i + 2 * 2^g

(* What gets less from a node to its parent, while they are in the range   *)
(* or next to its end.                                                     *)
PathMeasure(i, size) == IF i >= size THEN NextLeaf(i) ELSE size - i + NextLeaf(size)

(* The climb ends: it leaves the range or comes nearer to its end.         *)
LEMMA PathShrinks ==
  ASSUME NEW j \in Nat, NEW h \in Nat, NEW size \in Nat
  PROVE  /\ PathSibling(j, h) \in Int /\ PathParent(j, h) \in Nat /\ PathMeasure(j, size) \in Nat
         /\ PathSibling(j, h) < size =>
              PathMeasure(PathParent(j, h), size) < PathMeasure(j, size)
<1>1. 2^h \in Nat /\ 2^h > 0
  BY PowType
<1>2. PathSibling(j, h) \in Int /\ PathParent(j, h) \in Nat
  BY <1>1 DEF PathSibling, PathParent
<1>3. /\ NextLeaf(j) \in Nat /\ NextLeaf(j) # 0
      /\ NextLeaf(size) \in Nat /\ NextLeaf(j + 1) \in Nat
  <2>1. j + 1 \in Nat
    OBVIOUS
  <2> QED BY <2>1, NextLeafIs
<1>4. PathMeasure(j, size) \in Nat
  BY <1>3 DEF PathMeasure
<1>5. ASSUME PathSibling(j, h) < size
      PROVE  PathMeasure(PathParent(j, h), size) < PathMeasure(j, size)
  <2>1. CASE IndexHeight(j + 1) > h
    <3>1. PathParent(j, h) = j + 1
      BY <2>1 DEF PathParent
    <3>2. NextLeaf(j + 1) = NextLeaf(j) - 1
      BY <2>1, NextLeafIs
    <3>3. CASE j + 1 = size
      BY <1>3, <3>1, <3>3 DEF PathMeasure
    <3>4. CASE j + 1 # size
      BY <1>3, <3>1, <3>2, <3>4 DEF PathMeasure
    <3> QED BY <3>3, <3>4
  <2>2. CASE ~ (IndexHeight(j + 1) > h)
    <3>1. PathParent(j, h) = j + 2 * 2^h /\ PathSibling(j, h) = j + 2 * 2^h - 1
      BY <2>2 DEF PathParent, PathSibling
    <3>2. j + 2 * 2^h <= size
      BY <1>1, <1>5, <3>1
    <3>3. CASE j + 2 * 2^h = size
      <4>1. PathParent(j, h) = size /\ j < size
        BY <1>1, <3>1, <3>3
      <4> QED BY <1>3, <4>1 DEF PathMeasure
    <3>4. CASE j + 2 * 2^h # size
      <4>1. PathParent(j, h) < size /\ j < PathParent(j, h) /\ PathParent(j, h) \in Nat
        BY <1>1, <3>1, <3>2, <3>4
      <4> QED BY <1>3, <4>1 DEF PathMeasure
    <3> QED BY <3>3, <3>4
  <2> QED BY <2>1, <2>2
<1> QED BY <1>2, <1>4, <1>5

(* The path is the sibling and the path of the parent, while the sibling   *)
(* is in the range.                                                        *)
LEMMA PathDef ==
  ASSUME NEW i \in Nat, NEW g \in Nat, NEW last \in Nat
  PROVE  path[<<i, g, last>>] =
           IF PathSibling(i, g) > last THEN << >>
           ELSE <<PathSibling(i, g)>> \o path[<<PathParent(i, g), g + 1, last>>]
<1> DEFINE S == Nat \X Nat \X Nat
           V == Seq(Int)
           next(x) == <<PathParent(x[1], x[2]), x[2] + 1, x[3]>>
           B(f, x) == IF PathSibling(x[1], x[2]) > x[3] THEN << >>
                      ELSE <<PathSibling(x[1], x[2])>> \o f[next(x)]
           D == [p \in [S -> V] \X S |-> B(p[1], p[2])]
           m == [x \in S |-> PathMeasure(x[1], x[3] + 1)]
<1>1. ASSUME NEW x \in S
      PROVE  /\ PathSibling(x[1], x[2]) \in Int /\ m[x] \in Nat /\ next(x) \in S
             /\ ~ (PathSibling(x[1], x[2]) > x[3]) => m[next(x)] < m[x]
  <2>1. PICK j \in Nat, h \in Nat, l \in Nat : x = <<j, h, l>>
    OBVIOUS
  <2>2. x[1] = j /\ x[2] = h /\ x[3] = l /\ l + 1 \in Nat
    BY <2>1
  <2>3. /\ PathSibling(j, h) \in Int /\ PathParent(j, h) \in Nat /\ PathMeasure(j, l + 1) \in Nat
        /\ PathSibling(j, h) < l + 1 =>
             PathMeasure(PathParent(j, h), l + 1) < PathMeasure(j, l + 1)
    BY <2>2, PathShrinks
  <2>4. next(x) = <<PathParent(j, h), h + 1, l>> /\ next(x) \in S
    BY <2>2, <2>3
  <2>5. m[x] = PathMeasure(j, l + 1) /\ m[next(x)] = PathMeasure(PathParent(j, h), l + 1)
    BY <2>2, <2>4
  <2> HIDE DEF m, next
  <2> QED BY <2>2, <2>3, <2>4, <2>5
<1> HIDE DEF m, next
<1>2. \A f \in [S -> V], x \in S : B(f, x) \in V /\ D[<<f, x>>] = B(f, x)
  <2>1. ASSUME NEW f \in [S -> V], NEW x \in S PROVE B(f, x) \in V
    <3>1. f[next(x)] \in V
      <4> HIDE DEF S, V
      <4> QED BY <1>1
    <3>2. << >> \in V /\ <<PathSibling(x[1], x[2])>> \in V
      <4>1. \A n \in Int : <<n>> \in Seq(Int)
        OBVIOUS
      <4> QED BY <4>1, <1>1
    <3> QED BY <3>1, <3>2
  <2> HIDE DEF B, S, V
  <2> QED BY <2>1
<1>3. D \in [[S -> V] \X S -> V]
  <2> HIDE DEF B, S, V
  <2> QED BY <1>2
<1>4. ASSUME NEW f \in [S -> V], NEW f2 \in [S -> V], NEW x \in S,
             \A y \in S : m[y] < m[x] => f[y] = f2[y]
      PROVE  D[<<f, x>>] = D[<<f2, x>>]
  <2>1. ~ (PathSibling(x[1], x[2]) > x[3]) => f[next(x)] = f2[next(x)]
    <3> HIDE DEF S, V
    <3> QED BY <1>1, <1>4
  <2>2. B(f, x) = B(f2, x)
    BY <2>1
  <2> HIDE DEF B, S, V
  <2> QED BY <1>2, <2>2
<1>5. \E f \in [S -> V] : \A x \in S : f[x] = D[<<f, x>>]
  <2>1. V # {}
    <3>1. << >> \in V
      OBVIOUS
    <3> QED BY <3>1
  <2>2. m \in [S -> Nat]
    <3>1. m = [x \in S |-> m[x]]
      BY DEF m
    <3> HIDE DEF S
    <3> QED BY <1>1, <3>1
  <2> HIDE DEF D, S, V
  <2>3. LooksBelow(S, V, m, D)
    BY <2>1, <2>2, <1>3, <1>4 DEF LooksBelow
  <2> QED BY <2>3, Recursion
<1>6. PICK F : F = [x \in S |-> B(F, x)]
  <2>1. PICK f \in [S -> V] : \A x \in S : f[x] = D[<<f, x>>]
    BY <1>5
  <2>2. \A x \in S : f[x] = B(f, x)
    <3> HIDE DEF B, D, S, V
    <3> QED BY <1>2, <2>1
  <2> HIDE DEF B, S, V
  <2> QED BY <2>2
<1>7. path = [x \in S |-> B(path, x)]
  BY <1>6 DEF path, PathSibling, PathParent, next
<1>8. \A x \in S : path[x] = B(path, x)
  <2> HIDE DEF B
  <2> QED BY <1>7
<1>9. <<i, g, last>> \in S /\ next(<<i, g, last>>) = <<PathParent(i, g), g + 1, last>>
  BY DEF next
<1> QED BY <1>8, <1>9

(* The index that a climb ends at, a round unfolded                        *)
LEMMA LocalClimbDef ==
  ASSUME NEW i \in Nat, NEW g \in Nat, NEW size \in Nat
  PROVE  climb[<<i, g, size>>] =
           IF i >= size \/ PathSibling(i, g) >= size THEN i
           ELSE climb[<<PathParent(i, g), g + 1, size>>]
<1> DEFINE S == Nat \X Nat \X Nat
           next(x) == <<PathParent(x[1], x[2]), x[2] + 1, x[3]>>
           B(f, x) == IF x[1] >= x[3] \/ PathSibling(x[1], x[2]) >= x[3] THEN x[1]
                      ELSE f[next(x)]
           D == [p \in [S -> Nat] \X S |-> B(p[1], p[2])]
           m == [x \in S |-> PathMeasure(x[1], x[3])]
<1>1. ASSUME NEW x \in S
      PROVE  /\ x[1] \in Nat /\ m[x] \in Nat /\ next(x) \in S
             /\ ~ (PathSibling(x[1], x[2]) >= x[3]) => m[next(x)] < m[x]
  <2>1. PICK j \in Nat, h \in Nat, l \in Nat : x = <<j, h, l>>
    OBVIOUS
  <2>2. x[1] = j /\ x[2] = h /\ x[3] = l
    BY <2>1
  <2>3. /\ PathSibling(j, h) \in Int /\ PathParent(j, h) \in Nat /\ PathMeasure(j, l) \in Nat
        /\ PathSibling(j, h) < l => PathMeasure(PathParent(j, h), l) < PathMeasure(j, l)
    BY PathShrinks
  <2>4. next(x) = <<PathParent(j, h), h + 1, l>> /\ next(x) \in S
    BY <2>2, <2>3
  <2>5. m[x] = PathMeasure(j, l) /\ m[next(x)] = PathMeasure(PathParent(j, h), l)
    BY <2>2, <2>4
  <2> HIDE DEF m, next
  <2> QED BY <2>2, <2>3, <2>4, <2>5
<1> HIDE DEF m, next
<1>2. \A f \in [S -> Nat], x \in S : B(f, x) \in Nat /\ D[<<f, x>>] = B(f, x)
  <2>1. ASSUME NEW f \in [S -> Nat], NEW x \in S PROVE B(f, x) \in Nat
    <3>1. f[next(x)] \in Nat /\ x[1] \in Nat
      <4> HIDE DEF S
      <4> QED BY <1>1
    <3> QED BY <3>1
  <2> HIDE DEF B, S
  <2> QED BY <2>1
<1>3. D \in [[S -> Nat] \X S -> Nat]
  <2> HIDE DEF B, S
  <2> QED BY <1>2
<1>4. ASSUME NEW f \in [S -> Nat], NEW f2 \in [S -> Nat], NEW x \in S,
             \A y \in S : m[y] < m[x] => f[y] = f2[y]
      PROVE  D[<<f, x>>] = D[<<f2, x>>]
  <2>1. ~ (PathSibling(x[1], x[2]) >= x[3]) => f[next(x)] = f2[next(x)]
    <3> HIDE DEF S
    <3> QED BY <1>1, <1>4
  <2>2. B(f, x) = B(f2, x)
    BY <2>1
  <2> HIDE DEF B, S
  <2> QED BY <1>2, <2>2
<1>5. \E f \in [S -> Nat] : \A x \in S : f[x] = D[<<f, x>>]
  <2>1. Nat # {}
    OBVIOUS
  <2>2. m \in [S -> Nat]
    <3>1. m = [x \in S |-> m[x]]
      BY DEF m
    <3> HIDE DEF S
    <3> QED BY <1>1, <3>1
  <2> HIDE DEF D, S
  <2>3. LooksBelow(S, Nat, m, D)
    BY <2>1, <2>2, <1>3, <1>4 DEF LooksBelow
  <2> QED BY <2>1, <2>3, Recursion
<1>6. PICK F : F = [x \in S |-> B(F, x)]
  <2>1. PICK f \in [S -> Nat] : \A x \in S : f[x] = D[<<f, x>>]
    BY <1>5
  <2>2. \A x \in S : f[x] = B(f, x)
    <3> HIDE DEF B, D, S
    <3> QED BY <1>2, <2>1
  <2> HIDE DEF B, S
  <2> QED BY <2>2
<1>7. climb = [x \in S |-> B(climb, x)]
  BY <1>6 DEF climb, PathSibling, PathParent, next
<1>8. \A x \in S : climb[x] = B(climb, x)
  <2> HIDE DEF B
  <2> QED BY <1>7
<1>9. <<i, g, size>> \in S /\ next(<<i, g, size>>) = <<PathParent(i, g), g + 1, size>>
  BY DEF next
<1> QED BY <1>8, <1>9

(* The path p climbs from the node over the k-th run of 2^h leaves, by way *)
(* of the runs K, in a range over n leaves: at each height it has the      *)
(* other child of the parent.                                              *)
Climbing(p, K, n, h, k) ==
  /\ p \in Seq(Nat) /\ K \in [0 .. Len(p) -> Nat] /\ K[0] = k
  /\ \A x \in 1 .. Len(p) :
       /\ (K[x] + 1) * 2^(h + x) <= n
       /\ \/ K[x - 1] = 2 * K[x] /\ p[x] = NodePos(h + x - 1, 2 * K[x] + 1) - 1
          \/ K[x - 1] = 2 * K[x] + 1 /\ p[x] = NodePos(h + x - 1, 2 * K[x]) - 1

(* It climbs to a peak. *)
ClimbsFrom(p, K, n, h, k) ==
  Climbing(p, K, n, h, k) /\ PeakOver(n, h + Len(p), K[Len(p)])

(* A climb from the parent, with the sibling put in front *)
LEMMA ClimbsCons ==
  ASSUME NEW n \in Nat, NEW h \in Nat, NEW k \in Nat, NEW j \in Nat, NEW s \in Nat,
         NEW p, NEW K, ClimbsFrom(p, K, n, h + 1, j), (j + 1) * 2^(h + 1) <= n,
         \/ k = 2 * j /\ s = NodePos(h, 2 * j + 1) - 1
         \/ k = 2 * j + 1 /\ s = NodePos(h, 2 * j) - 1
  PROVE  \E L : ClimbsFrom(<<s>> \o p, L, n, h, k)
<1> DEFINE q == <<s>> \o p
           L == [x \in 0 .. Len(q) |-> IF x = 0 THEN k ELSE K[x - 1]]
<1>1. p \in Seq(Nat) /\ K \in [0 .. Len(p) -> Nat] /\ K[0] = j
  BY DEF ClimbsFrom, Climbing
<1>2. /\ q \in Seq(Nat) /\ Len(q) = Len(p) + 1 /\ Len(p) \in Nat /\ q[1] = s
      /\ \A x \in 1 .. Len(p) : q[x + 1] = p[x]
  BY <1>1
<1> HIDE DEF q
<1>3. /\ L \in [0 .. Len(q) -> Nat] /\ L[0] = k
      /\ \A x \in 0 .. Len(p) : L[x + 1] = K[x]
  BY <1>1, <1>2
<1> HIDE DEF L
<1>4. ASSUME NEW x \in 1 .. Len(q)
      PROVE  /\ (L[x] + 1) * 2^(h + x) <= n
             /\ \/ L[x - 1] = 2 * L[x] /\ q[x] = NodePos(h + x - 1, 2 * L[x] + 1) - 1
                \/ L[x - 1] = 2 * L[x] + 1 /\ q[x] = NodePos(h + x - 1, 2 * L[x]) - 1
  <2>1. CASE x = 1
    <3>1. L[x] = j /\ L[x - 1] = k /\ h + x = h + 1 /\ h + x - 1 = h /\ q[x] = s
      <4>1. 0 \in 0 .. Len(p) /\ 0 + 1 = 1 /\ 1 - 1 = 0 /\ h + 1 - 1 = h
        BY <1>2
      <4> QED BY <1>1, <1>2, <1>3, <2>1, <4>1
    <3> QED BY <3>1
  <2>2. CASE x # 1
    <3>1. PICK y \in 1 .. Len(p) : x = y + 1
      <4>1. x - 1 \in 1 .. Len(p) /\ x = (x - 1) + 1
        BY <1>2, <2>2
      <4> QED BY <4>1
    <3>2. /\ (K[y] + 1) * 2^(h + 1 + y) <= n
          /\ \/ K[y - 1] = 2 * K[y] /\ p[y] = NodePos(h + 1 + y - 1, 2 * K[y] + 1) - 1
             \/ K[y - 1] = 2 * K[y] + 1 /\ p[y] = NodePos(h + 1 + y - 1, 2 * K[y]) - 1
      BY <3>1 DEF ClimbsFrom, Climbing
    <3>3. h + 1 + y = h + x /\ h + 1 + y - 1 = h + x - 1
      BY <3>1
    <3>4. L[x] = K[y] /\ L[x - 1] = K[y - 1] /\ q[x] = p[y]
      <4>1. y \in 0 .. Len(p) /\ y - 1 \in 0 .. Len(p) /\ x - 1 = (y - 1) + 1
        BY <1>2, <3>1
      <4> QED BY <1>2, <1>3, <3>1, <4>1
    <3> QED BY <3>2, <3>3, <3>4
  <2> QED BY <2>1, <2>2
<1>5. PeakOver(n, h + Len(q), L[Len(q)])
  <2>1. PeakOver(n, h + 1 + Len(p), K[Len(p)])
    BY DEF ClimbsFrom, Climbing
  <2>2. h + 1 + Len(p) = h + Len(q) /\ L[Len(q)] = K[Len(p)]
    BY <1>2, <1>3
  <2> QED BY <2>1, <2>2
<1>6. ClimbsFrom(q, L, n, h, k)
  BY <1>2, <1>3, <1>4, <1>5 DEF ClimbsFrom, Climbing
<1> QED BY <1>6 DEF q

(* A round of the climb, from the left child and from the right one        *)
LEMMA PathRound ==
  ASSUME NEW g \in Nat, NEW j \in Nat
  PROVE  /\ PathSibling(NodePos(g, 2 * j) - 1, g) = NodePos(g, 2 * j + 1) - 1
         /\ PathParent(NodePos(g, 2 * j) - 1, g) = NodePos(g + 1, j) - 1
         /\ PathSibling(NodePos(g, 2 * j + 1) - 1, g) = NodePos(g, 2 * j) - 1
         /\ PathParent(NodePos(g, 2 * j + 1) - 1, g) = NodePos(g + 1, j) - 1
<1> DEFINE a == NodePos(g, 2 * j)
           b == NodePos(g, 2 * j + 1)
<1>1. a \in Nat /\ b \in Nat /\ 2^g \in Nat
  <2>1. 2 * j \in Nat /\ 2 * j + 1 \in Nat
    OBVIOUS
  <2> QED BY <2>1, NodePosBounds, PowType
<1>2. NodePos(g + 1, j) = b + 1 /\ a = b - (2 * 2^g - 1)
  BY ParentPos
<1>3. IndexHeight(a - 1 + 1) = 0 /\ IndexHeight(b - 1 + 1) = g + 1
  <2>1. PosHeight(a + 1) = 0 /\ PosHeight(b + 1) = g + 1
    BY HeightAfter
  <2>2. a - 1 + 1 + 1 = a + 1 /\ b - 1 + 1 + 1 = b + 1
    BY <1>1
  <2> QED BY <2>1, <2>2 DEF IndexHeight
<1> HIDE DEF a, b
<1>4. PathSibling(a - 1, g) = b - 1 /\ PathParent(a - 1, g) = b
  <2>1. ~ (0 > g)
    OBVIOUS
  <2>2. PathSibling(a - 1, g) = a - 1 + 2 * 2^g - 1 /\ PathParent(a - 1, g) = a - 1 + 2 * 2^g
    BY <1>3, <2>1 DEF PathSibling, PathParent
  <2> QED BY <1>1, <1>2, <2>2
<1>5. PathSibling(b - 1, g) = a - 1 /\ PathParent(b - 1, g) = b
  <2>1. g + 1 > g
    OBVIOUS
  <2>2. PathSibling(b - 1, g) = b - 1 - 2 * 2^g + 1 /\ PathParent(b - 1, g) = b - 1 + 1
    BY <1>3, <2>1 DEF PathSibling, PathParent
  <2> QED BY <1>1, <1>2, <2>2
<1>6. NodePos(g + 1, j) - 1 = b
  BY <1>1, <1>2
<1> QED BY <1>4, <1>5, <1>6 DEF a, b

(* The path of a node of a complete range leads to the peak it is under.   *)
LEMMA PathClimbs ==
  ASSUME NEW n \in Nat, NEW h \in Nat, NEW k \in Nat, (k + 1) * 2^h <= n
  PROVE  \E K : ClimbsFrom(path[<<NodePos(h, k) - 1, h, MMRIndex(n) - 1>>], K, n, h, k)
<1> DEFINE P(g, l) == \E K : ClimbsFrom(path[<<NodePos(g, l) - 1, g, MMRIndex(n) - 1>>], K, n, g, l)
           In(g, l) == (l + 1) * 2^g <= n
           T == {t \in Nat : \E g, l \in Nat : In(g, l) /\ ~ P(g, l)
                                               /\ t = MMRIndex(n) - NodePos(g, l)}
<1>0. MMRIndex(n) \in Nat
  BY MMRIndexBounds
<1>1. \A g, l \in Nat : /\ NodePos(g, l) \in Nat /\ NodePos(g, l) > 0
                        /\ In(g, l) <=> NodePos(g, l) <= MMRIndex(n)
  BY NodePosBounds, NodeInRange
<1>2. ASSUME NEW g \in Nat, NEW l \in Nat, In(g, l),
             \A f, i \in Nat : In(f, i) /\ NodePos(g, l) < NodePos(f, i) => P(f, i)
      PROVE  P(g, l)
  <2> DEFINE i == NodePos(g, l) - 1
             last == MMRIndex(n) - 1
             pth == path[<<i, g, last>>]
  <2>1. i \in Nat /\ i + 1 = NodePos(g, l) /\ last \in Nat
    <3>1. NodePos(g, l) \in Nat /\ NodePos(g, l) > 0 /\ NodePos(g, l) <= MMRIndex(n)
      <4> HIDE DEF In, P
      <4> QED BY <1>1, <1>2
    <3> QED BY <1>0, <3>1
  <2>2. PICK j \in Nat : l = 2 * j \/ l = 2 * j + 1
    BY EvenOrOdd
  <2>3. /\ 2 * j \in Nat /\ 2 * j + 1 \in Nat /\ g + 1 \in Nat
        /\ 2^g \in Nat /\ 2^g > 0 /\ 2^(g + 1) = 2 * 2^g
    BY PowType, PowStep
  <2>4. /\ NodePos(g + 1, j) = NodePos(g, 2 * j + 1) + 1
        /\ NodePos(g, 2 * j) = NodePos(g, 2 * j + 1) - (2 * 2^g - 1)
    BY ParentPos
  <2>5. /\ (j + 1) * 2^(g + 1) = (2 * j + 2) * 2^g
        /\ (2 * j + 1 + 1) * 2^g = (2 * j + 2) * 2^g
        /\ (2 * j + 2) * 2^g \in Nat
    <3>1. ASSUME NEW y \in Nat
          PROVE  (j + 1) * (2 * y) = (2 * j + 2) * y /\ (2 * j + 1 + 1) * y = (2 * j + 2) * y
                 /\ (2 * j + 2) * y \in Nat
      OBVIOUS
    <3> QED BY <2>3, <3>1
  <2>6. NodePos(g, 2 * j + 1) \in Nat /\ NodePos(g, 2 * j) \in Nat /\ NodePos(g + 1, j) \in Nat
    BY <1>1, <2>3
  <2>7. pth = IF PathSibling(i, g) > last THEN << >>
              ELSE <<PathSibling(i, g)>> \o path[<<PathParent(i, g), g + 1, last>>]
    BY <2>1, PathDef
  <2>8. ASSUME NEW s \in Nat, pth = <<s>> \o path[<<NodePos(g + 1, j) - 1, g + 1, last>>],
               In(g + 1, j),
               \/ l = 2 * j /\ s = NodePos(g, 2 * j + 1) - 1
               \/ l = 2 * j + 1 /\ s = NodePos(g, 2 * j) - 1
        PROVE  P(g, l)
    <3>1. NodePos(g, l) < NodePos(g + 1, j)
      <4>1. CASE l = 2 * j
        <5>1. NodePos(g, l) = NodePos(g, 2 * j)
          BY <4>1
        <5>2. ASSUME NEW y \in Nat, y > 0, NEW a \in Nat, NEW b \in Nat, b = a - (2 * y - 1)
              PROVE  b < a + 1
          BY <5>2
        <5> QED BY <2>3, <2>4, <2>6, <5>1, <5>2
      <4>2. CASE l = 2 * j + 1
        <5>1. NodePos(g, l) = NodePos(g, 2 * j + 1)
          BY <4>2
        <5> QED BY <2>4, <2>6, <5>1
      <4> QED BY <2>8, <4>1, <4>2
    <3>2. PICK K : ClimbsFrom(path[<<NodePos(g + 1, j) - 1, g + 1, last>>], K, n, g + 1, j)
      BY <1>2, <2>3, <2>8, <3>1
    <3>3. \E L : ClimbsFrom(<<s>> \o path[<<NodePos(g + 1, j) - 1, g + 1, last>>], L, n, g, l)
      <4> HIDE DEF last
      <4> QED BY <2>8, <3>2, ClimbsCons
    <3> QED BY <2>8, <3>3
  <2>9. CASE l = 2 * j
    <3>2. PathSibling(i, g) = NodePos(g, 2 * j + 1) - 1 /\ PathParent(i, g) = NodePos(g + 1, j) - 1
      BY <2>9, PathRound
    <3>3. CASE In(g, 2 * j + 1)
      <4>1. ~ (PathSibling(i, g) > last)
        <5>1. NodePos(g, 2 * j + 1) <= MMRIndex(n)
          BY <1>1, <2>3, <3>3
        <5> QED BY <1>0, <2>6, <3>2, <5>1
      <4>2. NodePos(g, 2 * j + 1) - 1 \in Nat
        BY <1>1, <2>3
      <4>3. pth = <<NodePos(g, 2 * j + 1) - 1>> \o path[<<NodePos(g + 1, j) - 1, g + 1, last>>]
        BY <2>7, <3>2, <4>1
      <4>4. In(g + 1, j)
        BY <2>5, <3>3
      <4> HIDE DEF P, pth
      <4> QED BY <2>8, <2>9, <4>2, <4>3, <4>4
    <3>4. CASE ~ In(g, 2 * j + 1)
      <4>1. PathSibling(i, g) > last
        <5>1. ~ (NodePos(g, 2 * j + 1) <= MMRIndex(n))
          BY <1>1, <2>3, <3>4
        <5> QED BY <1>0, <2>6, <3>2, <5>1
      <4>2. pth = << >>
        BY <2>7, <4>1
      <4>3. PeakOver(n, g, l)
        <5>1. n < (l + 2) * 2^g
          BY <2>5, <2>9, <3>4
        <5> QED BY <1>2, <2>9, <5>1 DEF PeakOver
      <4>4. ClimbsFrom(<< >>, [x \in 0 .. 0 |-> l], n, g, l)
        <5>1. Len(<< >>) = 0 /\ << >> \in Seq(Nat) /\ 1 .. 0 = {} /\ g + 0 = g
          OBVIOUS
        <5> QED BY <4>3, <5>1 DEF ClimbsFrom, Climbing
      <4> QED BY <4>2, <4>4
    <3> QED BY <3>3, <3>4
  <2>10. CASE l = 2 * j + 1
    <3>2. PathSibling(i, g) = NodePos(g, 2 * j) - 1 /\ PathParent(i, g) = NodePos(g + 1, j) - 1
      BY <2>10, PathRound
    <3>3. In(g + 1, j)
      BY <1>2, <2>5, <2>10
    <3>4. ~ (PathSibling(i, g) > last)
      <4>1. NodePos(g, 2 * j + 1) <= MMRIndex(n)
        BY <1>1, <1>2, <2>3, <2>10
      <4>2. ASSUME NEW y \in Nat, y > 0, NEW a \in Nat, NEW b \in Nat, b = a - (2 * y - 1),
                   NEW m \in Nat, a <= m
            PROVE  ~ (b - 1 > m - 1)
        BY <4>2
      <4> QED BY <1>0, <2>3, <2>4, <2>6, <3>2, <4>1, <4>2
    <3>5. NodePos(g, 2 * j) - 1 \in Nat
      BY <1>1, <2>3
    <3>6. pth = <<NodePos(g, 2 * j) - 1>> \o path[<<NodePos(g + 1, j) - 1, g + 1, last>>]
      BY <2>7, <3>2, <3>4
    <3> HIDE DEF P, pth
    <3> QED BY <2>8, <2>10, <3>3, <3>5, <3>6
  <2> QED BY <2>2, <2>9, <2>10
<1> HIDE DEF P
<1>3. T = {}
  <2> SUFFICES ASSUME T # {} PROVE FALSE
    OBVIOUS
  <2>1. PICK t \in T : \A y \in T : t <= y
    <3>1. T \in SUBSET Nat
      OBVIOUS
    <3> HIDE DEF T
    <3> QED BY <3>1, NatLeast
  <2>2. PICK g \in Nat, l \in Nat : In(g, l) /\ ~ P(g, l) /\ t = MMRIndex(n) - NodePos(g, l)
    OBVIOUS
  <2>3. ASSUME NEW f \in Nat, NEW i \in Nat, In(f, i), NodePos(g, l) < NodePos(f, i)
        PROVE  P(f, i)
    <3>1. MMRIndex(n) - NodePos(f, i) \in Nat /\ MMRIndex(n) - NodePos(f, i) < t
      <4>1. /\ NodePos(f, i) \in Nat /\ NodePos(f, i) <= MMRIndex(n)
            /\ NodePos(g, l) \in Nat
        <5> HIDE DEF In
        <5> QED BY <1>1, <2>3
      <4> QED BY <1>0, <2>2, <2>3, <4>1
    <3>2. MMRIndex(n) - NodePos(f, i) \notin T
      <4>1. t \in Nat
        OBVIOUS
      <4> HIDE DEF T
      <4> QED BY <2>1, <3>1, <4>1
    <3> QED BY <2>3, <3>1, <3>2
  <2> HIDE DEF In
  <2> QED BY <1>2, <2>2, <2>3
<1>4. In(h, k) => P(h, k)
  <2> SUFFICES ASSUME In(h, k) PROVE P(h, k)
    OBVIOUS
  <2>1. MMRIndex(n) - NodePos(h, k) \in Nat
    <3>1. NodePos(h, k) \in Nat /\ NodePos(h, k) <= MMRIndex(n)
      <4> HIDE DEF In
      <4> QED BY <1>1
    <3> QED BY <1>0, <3>1
  <2> QED BY <1>3, <2>1
<1> QED BY <1>4 DEF P

-----------------------------------------------------------------------------
(* The nodes over a sequence of leaves, and what a climb shows of them.    *)

(* ns is the Merkle mountain range over the values vs. *)
TreeOf(Values, H, ns, vs) == vs \in Seq(Values) /\ RangeOver(H, ns, vs)

(* Adding a leaf makes the range over one value more. *)
LEMMA AddHashedLeafTree ==
  ASSUME NEW Values, NEW H, PairsOf(H) \subseteq H, Values \subseteq H,
         NEW ns, NEW vs, TreeOf(Values, H, ns, vs), NEW v \in Values
  PROVE  TreeOf(Values, H, AddHashedLeaf(ns, v), Append(vs, v))
<1>1. RangeOver(H, ns, vs) /\ vs \in Seq(Values) /\ v \in H
  BY DEF TreeOf
<1>2. RangeOver(H, AddHashedLeaf(ns, v), Append(vs, v))
  BY <1>1, AddHashedLeafRange
<1> QED BY <1>1, <1>2 DEF TreeOf

(* x is the hash of a node at the place of the k-th run of 2^h leaves *)
Stamped(Values, x, h, k) ==
  IF h = 0 THEN x \in Values ELSE \E a, b : x = HashPosPair64(NodePos(h, k), a, b)

(* The climb is at the node over the run l of 2^g leaves, with the hash R. *)
AtNode(g, l, R) == [i |-> NodePos(g, l) - 1, g |-> g, root |-> R]

(* A round of a climb from the node over the run l of 2^g leaves to its    *)
(* parent, with the hash of the other child of the parent.                 *)
LEMMA ClimbRound ==
  ASSUME NEW g \in Nat, NEW l \in Nat, NEW j \in Nat, NEW R, NEW s
  PROVE  /\ l = 2 * j => ClimbStep(AtNode(g, l, R), s) =
              AtNode(g + 1, j, HashPosPair64(NodePos(g + 1, j), R, s))
         /\ l = 2 * j + 1 => ClimbStep(AtNode(g, l, R), s) =
              AtNode(g + 1, j, HashPosPair64(NodePos(g + 1, j), s, R))
<1> DEFINE at == AtNode(g, l, R)
<1>1. /\ 2 * j \in Nat /\ 2 * j + 1 \in Nat /\ g + 1 \in Nat /\ 2^g \in Nat
  BY PowType
<1>2. /\ NodePos(g + 1, j) = NodePos(g, 2 * j + 1) + 1
      /\ NodePos(g, 2 * j) = NodePos(g, 2 * j + 1) - (2 * 2^g - 1)
  BY ParentPos
<1>3. NodePos(g, 2 * j + 1) \in Nat /\ NodePos(g, 2 * j) \in Nat /\ NodePos(g + 1, j) \in Nat
  BY <1>1, NodePosBounds
<1>4. at.i = NodePos(g, l) - 1 /\ at.g = g /\ at.root = R
  BY DEF AtNode
<1> HIDE DEF at
<1>5. CASE l = 2 * j
  <2>1. IndexHeight(at.i + 1) = 0
    <3>1. at.i + 1 + 1 = NodePos(g, 2 * j) + 1
      BY <1>3, <1>4, <1>5
    <3> QED BY <3>1, HeightAfter DEF IndexHeight
  <2>2. /\ at.i + 2 * 2^at.g = NodePos(g + 1, j) - 1
        /\ at.i + 2 * 2^at.g + 1 = NodePos(g + 1, j)
    <3>1. at.i = NodePos(g, 2 * j) - 1
      BY <1>4, <1>5
    <3> QED BY <1>1, <1>2, <1>3, <1>4, <3>1
  <2>3. ~ (IndexHeight(at.i + 1) > at.g)
    BY <1>4, <2>1
  <2> QED BY <1>4, <1>5, <2>2, <2>3 DEF ClimbStep, AtNode, at
<1>6. CASE l = 2 * j + 1
  <2>1. IndexHeight(at.i + 1) = g + 1
    <3>1. at.i + 1 + 1 = NodePos(g, 2 * j + 1) + 1
      BY <1>3, <1>4, <1>6
    <3> QED BY <3>1, HeightAfter DEF IndexHeight
  <2>2. at.i + 1 = NodePos(g + 1, j) - 1 /\ at.i + 2 = NodePos(g + 1, j)
    <3>1. at.i = NodePos(g, 2 * j + 1) - 1
      BY <1>4, <1>6
    <3> QED BY <1>2, <1>3, <3>1
  <2>3. IndexHeight(at.i + 1) > at.g /\ l # 2 * j
    BY <1>4, <1>6, <2>1
  <2> QED BY <1>4, <2>2, <2>3 DEF ClimbStep, AtNode, at
<1> QED BY <1>5, <1>6 DEF at

(* Runs are under the run of the parent. *)
LEMMA UnderParent ==
  ASSUME NEW h \in Nat, NEW k \in Nat, NEW g \in Nat, NEW l \in Nat, NEW j \in Nat,
         Under(h, k, g, l), l = 2 * j \/ l = 2 * j + 1
  PROVE  Under(h, k, g + 1, j)
<1>1. 2^h \in Nat /\ 2^g \in Nat /\ 2^(g + 1) = 2 * 2^g
  BY PowType, PowStep
<1>2. ASSUME NEW y \in Nat
      PROVE  /\ j * (2 * y) <= l * y
             /\ (l + 1) * y <= (j + 1) * (2 * y)
  <2>1. j * (2 * y) = (2 * j) * y /\ (j + 1) * (2 * y) = (2 * j) * y + y + y
    OBVIOUS
  <2>2. l = 2 * j => l * y = (2 * j) * y /\ (l + 1) * y = (2 * j) * y + y
    OBVIOUS
  <2>3. l = 2 * j + 1 => l * y = (2 * j) * y + y /\ (l + 1) * y = (2 * j) * y + y + y
    OBVIOUS
  <2>4. (2 * j) * y \in Nat
    OBVIOUS
  <2> QED BY <2>1, <2>2, <2>3, <2>4
<1>3. j * (2 * 2^g) <= l * 2^g /\ (l + 1) * 2^g <= (j + 1) * (2 * 2^g)
  BY <1>1, <1>2
<1>4. \A a, b \in Nat : a * b \in Nat
  OBVIOUS
<1>5. /\ j * (2 * 2^g) \in Nat /\ l * 2^g \in Nat /\ k * 2^h \in Nat
      /\ (k + 1) * 2^h \in Nat /\ (l + 1) * 2^g \in Nat /\ (j + 1) * (2 * 2^g) \in Nat
  <2>1. 2 * 2^g \in Nat /\ k + 1 \in Nat /\ l + 1 \in Nat /\ j + 1 \in Nat
    BY <1>1
  <2> QED BY <1>1, <1>4, <2>1
<1> QED BY <1>1, <1>3, <1>5 DEF Under

(* What a climb has of the node it began with: it is above it, and it has  *)
(* the value of the range where it is if it had it where it began.         *)
Leads(ns, x, g, l, v, h, k) ==
  /\ Under(h, k, g, l)
  /\ x = ns[NodePos(g, l)] <=> v = ns[NodePos(h, k)]

(* A climb of no round has the value it began with, a longer one a hash of *)
(* its place.                                                              *)
ClimbsTo(Values, ns, x, g, l, v, h, k, rounds) ==
  /\ Leads(ns, x, g, l, v, h, k)
  /\ Stamped(Values, v, h, k) \/ rounds # 0 => Stamped(Values, x, g, l)
  /\ rounds = 0 => x = v

(* A climb with the hashes of the range for siblings, whatever the value   *)
(* it began with                                                           *)
LEMMA ClimbEnds ==
  ASSUME NEW Values, NEW H, PairsOf(H) \subseteq H, NEW ns, NEW vs, TreeOf(Values, H, ns, vs),
         NEW h \in Nat, NEW k \in Nat, NEW v \in H,
         NEW p, NEW K, Climbing(p, K, Len(vs), h, k),
         NEW proof \in Seq(H), Len(proof) = Len(p),
         \A x \in 1 .. Len(p) : proof[x] = ns[p[x] + 1]
  PROVE  ClimbsTo(Values, ns, IncludedRoot(NodePos(h, k) - 1, v, proof),
                  h + Len(p), K[Len(p)], v, h, k, Len(p))
<1>0. ASSUME NEW f \in Nat, NEW m \in Nat, (m + 1) * 2^(f + 1) <= Len(vs)
      PROVE  ns[NodePos(f + 1, m)]
               = HashPosPair64(NodePos(f + 1, m), ns[NodePos(f, 2 * m)], ns[NodePos(f, 2 * m + 1)])
  BY <1>0, TreeNodes DEF TreeOf
<1> DEFINE i == NodePos(h, k) - 1
           N == Len(p)
<1>1. i \in Nat /\ i + 1 = NodePos(h, k)
  <2>1. NodePos(h, k) \in Nat /\ NodePos(h, k) > 0
    BY NodePosBounds
  <2> QED BY <2>1
<1>2. IndexHeight(i) = h
  BY <1>1, HeightOfNode DEF IndexHeight
<1>3. PICK r : ClimbRun(r, i, v, proof)
  <2> HIDE DEF i
  <2> QED BY <1>1, <1>2, IncludedRootRun
<1>4. N \in Nat /\ p \in Seq(Nat) /\ K \in [0 .. N -> Nat] /\ K[0] = k
  BY DEF Climbing
<1> HIDE DEF i
<1> DEFINE Ok(x) == \E R : /\ r[x] = AtNode(h + x, K[x], R)
                           /\ ClimbsTo(Values, ns, R, h + x, K[x], v, h, k, x)
<1>5. Ok(0)
  <2>1. r[0] = AtNode(h, k, v)
    BY <1>2, <1>3 DEF ClimbRun, ClimbStart, AtNode, i
  <2>2. ClimbsTo(Values, ns, v, h, k, v, h, k, 0)
    <3>1. k * 2^h \in Nat /\ (k + 1) * 2^h \in Nat
      <4>1. 2^h \in Nat
        BY PowType
      <4>2. \A a, b \in Nat : a * b \in Nat
        OBVIOUS
      <4> QED BY <4>1, <4>2
    <3> QED BY <3>1 DEF ClimbsTo, Leads, Under
  <2>3. h + 0 = h
    OBVIOUS
  <2> QED BY <1>4, <2>1, <2>2, <2>3
<1>6. ASSUME NEW x \in 1 .. N, Ok(x - 1) PROVE Ok(x)
  <2> DEFINE g == h + x - 1
             l == K[x - 1]
             j == K[x]
  <2>1. /\ g \in Nat /\ l \in Nat /\ j \in Nat /\ h + (x - 1) = g /\ h + x = g + 1
        /\ 2 * j \in Nat /\ 2 * j + 1 \in Nat /\ x \in 1 .. Len(proof)
    <3>1. x - 1 \in 0 .. N /\ x \in 0 .. N /\ x \in Nat /\ x >= 1
      BY <1>4
    <3>2. l \in Nat /\ j \in Nat
      BY <1>4, <3>1
    <3>3. g \in Nat /\ h + (x - 1) = g /\ h + x = g + 1
      BY <3>1
    <3>4. 2 * j \in Nat /\ 2 * j + 1 \in Nat
      <4> HIDE DEF j
      <4> QED BY <3>2
    <3> QED BY <3>2, <3>3, <3>4
  <2>2. PICK R : /\ r[x - 1] = AtNode(g, l, R)
                 /\ ClimbsTo(Values, ns, R, g, l, v, h, k, x - 1)
    BY <1>6, <2>1
  <2>3. /\ (j + 1) * 2^(g + 1) <= Len(vs)
        /\ \/ l = 2 * j /\ p[x] = NodePos(g, 2 * j + 1) - 1
           \/ l = 2 * j + 1 /\ p[x] = NodePos(g, 2 * j) - 1
    BY <2>1 DEF Climbing
  <2>4. ns[NodePos(g + 1, j)] = HashPosPair64(NodePos(g + 1, j), ns[NodePos(g, 2 * j)], ns[NodePos(g, 2 * j + 1)])
    <3> HIDE DEF g, j
    <3> QED BY <1>0, <2>1, <2>3
  <2>5. NodePos(g, 2 * j) \in Nat /\ NodePos(g, 2 * j + 1) \in Nat
    <3> HIDE DEF g, j
    <3> QED BY <2>1, NodePosBounds
  <2>6. r[x] = ClimbStep(r[x - 1], proof[x])
    BY <1>3, <2>1 DEF ClimbRun
  <2>7. proof[x] = ns[p[x] + 1]
    BY <2>1
  <2> HIDE DEF g, l, j
  <2>8. ASSUME NEW Q, r[x] = AtNode(g + 1, j, Q),
               ClimbsTo(Values, ns, Q, g + 1, j, v, h, k, x)
        PROVE  Ok(x)
    BY <2>1, <2>8 DEF j
  <2>9. Stamped(Values, HashPosPair64(NodePos(g + 1, j), R, proof[x]), g + 1, j)
        /\ Stamped(Values, HashPosPair64(NodePos(g + 1, j), proof[x], R), g + 1, j)
    <3>1. g + 1 # 0
      BY <2>1
    <3> QED BY <3>1 DEF Stamped
  <2>10. /\ l = 2 * j => ClimbStep(r[x - 1], proof[x]) =
              AtNode(g + 1, j, HashPosPair64(NodePos(g + 1, j), R, proof[x]))
         /\ l = 2 * j + 1 => ClimbStep(r[x - 1], proof[x]) =
              AtNode(g + 1, j, HashPosPair64(NodePos(g + 1, j), proof[x], R))
    BY <2>1, <2>2, ClimbRound
  <2>11. CASE l = 2 * j
    <3>1. proof[x] = ns[NodePos(g, 2 * j + 1)]
      <4>1. p[x] + 1 = NodePos(g, 2 * j + 1)
        <5>1. l # 2 * j + 1
          BY <2>1, <2>11
        <5> QED BY <2>3, <2>5, <5>1
      <4> QED BY <2>7, <4>1
    <3>2. r[x] = AtNode(g + 1, j, HashPosPair64(NodePos(g + 1, j), R, proof[x]))
      BY <2>6, <2>10, <2>11
    <3>3. ClimbsTo(Values, ns, HashPosPair64(NodePos(g + 1, j), R, proof[x]), g + 1, j, v, h, k, x)
      <4>1. HashPosPair64(NodePos(g + 1, j), R, proof[x]) = ns[NodePos(g + 1, j)]
              <=> R = ns[NodePos(g, l)]
        BY <2>4, <2>11, <3>1 DEF HashPosPair64
      <4>2. Under(h, k, g + 1, j)
        BY <2>1, <2>2, <2>11, UnderParent DEF ClimbsTo, Leads
      <4> QED BY <2>1, <2>2, <2>9, <4>1, <4>2 DEF ClimbsTo, Leads
    <3> QED BY <2>8, <3>2, <3>3
  <2>12. CASE l = 2 * j + 1
    <3>1. proof[x] = ns[NodePos(g, 2 * j)]
      <4>1. p[x] + 1 = NodePos(g, 2 * j)
        <5>1. l # 2 * j
          BY <2>1, <2>12
        <5> QED BY <2>3, <2>5, <5>1
      <4> QED BY <2>7, <4>1
    <3>2. r[x] = AtNode(g + 1, j, HashPosPair64(NodePos(g + 1, j), proof[x], R))
      BY <2>6, <2>10, <2>12
    <3>3. ClimbsTo(Values, ns, HashPosPair64(NodePos(g + 1, j), proof[x], R), g + 1, j, v, h, k, x)
      <4>1. HashPosPair64(NodePos(g + 1, j), proof[x], R) = ns[NodePos(g + 1, j)]
              <=> R = ns[NodePos(g, l)]
        BY <2>4, <2>12, <3>1 DEF HashPosPair64
      <4>2. Under(h, k, g + 1, j)
        BY <2>1, <2>2, <2>12, UnderParent DEF ClimbsTo, Leads
      <4> QED BY <2>1, <2>2, <2>9, <4>1, <4>2 DEF ClimbsTo, Leads
    <3> QED BY <2>8, <3>2, <3>3
  <2> QED BY <2>3, <2>11, <2>12
<1> HIDE DEF Ok
<1>7. \A x \in 0 .. N : x \in {y \in Nat : Ok(y)}
  <2> DEFINE S == {y \in Nat : Ok(y)}
  <2>1. 0 \in S /\ \A x \in 1 .. N : x - 1 \in S => x \in S
    BY <1>4, <1>5, <1>6
  <2> HIDE DEF S
  <2>2. \A x \in 0 .. N : x \in S
    BY <1>4, <2>1, UpTo
  <2> QED BY <2>2 DEF S
<1>8. Ok(N)
  BY <1>4, <1>7
<1>9. PICK R : /\ r[N] = AtNode(h + N, K[N], R)
               /\ ClimbsTo(Values, ns, R, h + N, K[N], v, h, k, N)
  BY <1>8 DEF Ok
<1>10. IncludedRoot(i, v, proof) = R
  BY <1>3, <1>9 DEF ClimbRun, AtNode
<1> QED BY <1>9, <1>10 DEF i

(* What the root of a climb shows of the node it began with *)
Shows(Values, ns, x, g, l, v, h, k) == Stamped(Values, x, g, l) /\ Leads(ns, x, g, l, v, h, k)

(* The root that a proof of consistency leads to has the place of the peak *)
(* above the node that the proof began with, and it is the value of that   *)
(* peak exactly if the proof began with the value of that node.            *)
LEMMA ClimbRoot ==
  ASSUME NEW Values, NEW H, PairsOf(H) \subseteq H, NEW ns, NEW vs, TreeOf(Values, H, ns, vs),
         NEW h \in Nat, NEW k \in Nat, NEW v \in H, Stamped(Values, v, h, k),
         NEW p, NEW K, ClimbsFrom(p, K, Len(vs), h, k),
         NEW proof \in Seq(H), Len(proof) = Len(p),
         \A x \in 1 .. Len(p) : proof[x] = ns[p[x] + 1]
  PROVE  \E g, l \in Nat :
           /\ PeakOver(Len(vs), g, l)
           /\ Shows(Values, ns, IncludedRoot(NodePos(h, k) - 1, v, proof), g, l, v, h, k)
<1>1. Climbing(p, K, Len(vs), h, k)
  BY DEF ClimbsFrom
<1>2. ClimbsTo(Values, ns, IncludedRoot(NodePos(h, k) - 1, v, proof),
               h + Len(p), K[Len(p)], v, h, k, Len(p))
  BY <1>1, ClimbEnds
<1>3. /\ h + Len(p) \in Nat /\ K[Len(p)] \in Nat
      /\ PeakOver(Len(vs), h + Len(p), K[Len(p)])
  <2>1. Len(p) \in Nat /\ K \in [0 .. Len(p) -> Nat]
    BY <1>1 DEF Climbing
  <2>2. Len(p) \in 0 .. Len(p)
    BY <2>1
  <2> QED BY <2>1, <2>2 DEF ClimbsFrom
<1>4. Shows(Values, ns, IncludedRoot(NodePos(h, k) - 1, v, proof), h + Len(p), K[Len(p)], v, h, k)
  BY <1>2 DEF ClimbsTo, Shows
<1> QED BY <1>3, <1>4

-----------------------------------------------------------------------------
(* consistentroots.go, verifyconsistency.go                                *)

Has(s, x) == \E y \in 1 .. Len(s) : s[y] = x

(* One round of ConsistentRoots *)
RootOf(ifrom, acc, proofs, k) == IncludedRoot(Peaks(ifrom)[k], acc[k], proofs[k])
AddRoot(roots, root) ==
  IF roots # << >> /\ roots[Len(roots)] = root THEN roots ELSE Append(roots, root)

(* The lists of roots, one longer for each new root *)
RootsRun(r, H, ifrom, acc, proofs) ==
  /\ r \in [0 .. Len(acc) -> Seq(H)] /\ r[0] = << >>
  /\ \A j \in 1 .. Len(acc) : r[j] = AddRoot(r[j - 1], RootOf(ifrom, acc, proofs, j))
  /\ ConsistentRoots(ifrom, acc, proofs) = r[Len(acc)]

(* ConsistentRoots makes such lists. *)
LEMMA ConsistentRootsRun ==
  ASSUME NEW H, NEW ifrom, NEW acc \in Seq(H), NEW proofs,
         \A k \in 1 .. Len(acc) : RootOf(ifrom, acc, proofs, k) \in H
  PROVE  \E r : RootsRun(r, H, ifrom, acc, proofs)
<1> DEFINE V == Seq(H)
           E == 1 .. Len(acc)
           N == Len(acc)
           base == << >>
           seq == [i \in DOMAIN acc |-> i]
           Op == [p \in V \X E |-> AddRoot(p[1], RootOf(ifrom, acc, proofs, p[2]))]
           Is(f) == f = [s \in SUBSET DOMAIN seq |->
                           IF s = {} THEN base
                           ELSE AddRoot(f[s \ {Max(s)}],
                                        RootOf(ifrom, acc, proofs, seq[Max(s)]))]
           F == CHOOSE f : Is(f)
<1>1. ConsistentRoots(ifrom, acc, proofs) = F[DOMAIN seq]
  BY DEF ConsistentRoots, FoldLeftDomain, FoldLeft, MapThenFoldSet, RootOf, AddRoot
<1>2. /\ N \in Nat /\ seq \in Seq(E) /\ Len(seq) = N /\ DOMAIN seq = 1 .. N
      /\ \A k \in 1 .. N : seq[k] = k
  OBVIOUS
<1>3. ASSUME NEW s \in V, NEW x \in H PROVE AddRoot(s, x) \in V
  BY DEF AddRoot
<1>4. /\ Op \in [V \X E -> V] /\ base \in V
      /\ \A s \in V, k \in E : Op[<<s, k>>] = AddRoot(s, RootOf(ifrom, acc, proofs, k))
  <2>1. base \in V
    OBVIOUS
  <2>2. \A s \in V, k \in E : AddRoot(s, RootOf(ifrom, acc, proofs, k)) \in V
    <3> HIDE DEF V
    <3> QED BY <1>3
  <2> HIDE DEF V, base, E
  <2> QED BY <2>1, <2>2
<1> HIDE DEF V, base, Op, N, seq
<1>5. \E f : Is(f)
  <2>1. PICK f : FoldEquation(f, V, Op, base, seq)
    <3> HIDE DEF E
    <3> QED BY <1>2, <1>4, FoldSolution
  <2>2. /\ f \in [SUBSET DOMAIN seq -> V]
        /\ f = [s \in SUBSET DOMAIN seq |->
                 IF s = {} THEN base ELSE Op[<<f[s \ {Max(s)}], seq[Max(s)]>>]]
    BY <2>1 DEF FoldEquation
  <2>3. ASSUME NEW s \in SUBSET DOMAIN seq, s # {}
        PROVE  Op[<<f[s \ {Max(s)}], seq[Max(s)]>>]
                 = AddRoot(f[s \ {Max(s)}], RootOf(ifrom, acc, proofs, seq[Max(s)]))
    <3> HIDE DEF E
    <3>1. seq[Max(s)] \in E
      BY <1>2, <2>3, MaxOfIndices
    <3>2. f[s \ {Max(s)}] \in V
      BY <2>2
    <3> QED BY <1>4, <3>1, <3>2
  <2>4. Is(f)
    BY <2>2, <2>3
  <2> QED BY <2>4
<1>6. Is(F)
  <2> HIDE DEF Is
  <2> QED BY <1>5
<1> HIDE DEF F
<1>7. PICK r : FoldsTo(r, V, Op, base, seq, F[DOMAIN seq])
  <2>1. F[{}] = base
    BY <1>6
  <2>2. ASSUME NEW s \in SUBSET DOMAIN seq, s # {}, F[s \ {Max(s)}] \in V
        PROVE  F[s] = Op[<<F[s \ {Max(s)}], seq[Max(s)]>>]
    <3>1. seq[Max(s)] \in E
      <4> HIDE DEF E
      <4> QED BY <1>2, <2>2, MaxOfIndices
    <3> HIDE DEF E
    <3> QED BY <1>4, <1>6, <2>2, <3>1
  <2> HIDE DEF Is, E
  <2> QED BY <1>2, <1>4, <2>1, <2>2, FoldRun
<1>8. ASSUME NEW j \in 1 .. N
      PROVE  r[j] = AddRoot(r[j - 1], RootOf(ifrom, acc, proofs, j))
  <2>1. j \in Nat /\ j - 1 \in 0 .. Len(seq) /\ j \in 1 .. Len(seq) /\ j \in E
    BY <1>2 DEF N
  <2>2. r[j - 1] \in V /\ r[j] = Op[<<r[j - 1], seq[j]>>] /\ seq[j] = j
    BY <1>2, <1>7, <2>1 DEF FoldsTo
  <2> HIDE DEF E
  <2> QED BY <1>4, <2>1, <2>2
<1>9. r \in [0 .. N -> Seq(H)] /\ r[0] = << >> /\ r[N] = ConsistentRoots(ifrom, acc, proofs)
  BY <1>1, <1>2, <1>7 DEF FoldsTo, V, base
<1> QED BY <1>8, <1>9 DEF RootsRun, N

(* No root is left out. *)
LEMMA EveryRootIsListed ==
  ASSUME NEW H, NEW ifrom, NEW acc \in Seq(H), NEW proofs,
         \A k \in 1 .. Len(acc) : RootOf(ifrom, acc, proofs, k) \in H
  PROVE  /\ ConsistentRoots(ifrom, acc, proofs) \in Seq(H)
         /\ \A k \in 1 .. Len(acc) :
              Has(ConsistentRoots(ifrom, acc, proofs), RootOf(ifrom, acc, proofs, k))
<1> DEFINE N == Len(acc)
<1>1. PICK r : RootsRun(r, H, ifrom, acc, proofs)
  BY ConsistentRootsRun
<1>2. N \in Nat
  OBVIOUS
<1>3. ASSUME NEW s \in Seq(H), NEW x \in H
      PROVE  /\ Has(AddRoot(s, x), x)
             /\ \A z : Has(s, z) => Has(AddRoot(s, x), z)
  <2>1. CASE s # << >> /\ s[Len(s)] = x
    <3>1. Len(s) \in 1 .. Len(s)
      BY <2>1
    <3> QED BY <2>1, <3>1 DEF AddRoot, Has
  <2>2. CASE ~ (s # << >> /\ s[Len(s)] = x)
    <3>1. AddRoot(s, x) = Append(s, x)
      BY <2>2 DEF AddRoot
    <3>2. /\ Len(Append(s, x)) = Len(s) + 1 /\ Len(s) \in Nat
          /\ Append(s, x)[Len(s) + 1] = x
          /\ \A y \in 1 .. Len(s) : Append(s, x)[y] = s[y]
      OBVIOUS
    <3>3. Len(s) + 1 \in 1 .. Len(s) + 1 /\ \A y \in 1 .. Len(s) : y \in 1 .. Len(s) + 1
      BY <3>2
    <3> QED BY <3>1, <3>2, <3>3 DEF Has
  <2> QED BY <2>1, <2>2
<1> DEFINE S == {j \in Nat : \A k \in 1 .. j : Has(r[j], RootOf(ifrom, acc, proofs, k))}
<1>4. 0 \in S
  OBVIOUS
<1>5. ASSUME NEW j \in 1 .. N, j - 1 \in S PROVE j \in S
  <2>1. j \in Nat /\ j - 1 \in 0 .. N /\ j \in 1 .. N
    BY <1>2
  <2>2. r[j - 1] \in Seq(H) /\ r[j] = AddRoot(r[j - 1], RootOf(ifrom, acc, proofs, j))
    BY <1>1, <2>1 DEF RootsRun
  <2>3. RootOf(ifrom, acc, proofs, j) \in H
    BY <2>1
  <2>4. Has(r[j], RootOf(ifrom, acc, proofs, j))
    BY <1>3, <2>2, <2>3
  <2>5. ASSUME NEW k \in 1 .. j - 1 PROVE Has(r[j], RootOf(ifrom, acc, proofs, k))
    <3>1. Has(r[j - 1], RootOf(ifrom, acc, proofs, k))
      BY <1>5
    <3> QED BY <1>3, <2>2, <2>3, <3>1
  <2>6. \A k \in 1 .. j : k = j \/ k \in 1 .. j - 1
    BY <2>1
  <2> QED BY <2>1, <2>4, <2>5, <2>6
<1> HIDE DEF S
<1>6. N \in S
  <2>1. \A j \in 0 .. N : j \in S
    BY <1>2, <1>4, <1>5, UpTo
  <2> QED BY <1>2, <2>1
<1>7. r[N] = ConsistentRoots(ifrom, acc, proofs) /\ r[N] \in Seq(H)
  BY <1>1, <1>2 DEF RootsRun
<1> QED BY <1>6, <1>7 DEF S

(* One round of the scan of verifyconsistency.go *)
MatchRound(peaksTo, at, root) ==
  IF ~at.ok \/ peaksTo[at.ito] = root THEN at
  ELSE [ito |-> at.ito + 1,
        ok |-> at.ito + 1 <= Len(peaksTo) /\ peaksTo[at.ito + 1] = root]

(* Where the scan is after each root *)
Scan == [ito : Nat, ok : BOOLEAN]
MatchRun(r, proven, peaksTo) ==
  /\ r \in [0 .. Len(proven) -> Scan] /\ r[0] = [ito |-> 1, ok |-> TRUE]
  /\ \A j \in 1 .. Len(proven) : r[j] = MatchRound(peaksTo, r[j - 1], proven[j])
  /\ MatchPeaks(proven, peaksTo) = r[Len(proven)].ok

(* MatchPeaks is such a scan. *)
LEMMA MatchPeaksRun ==
  ASSUME NEW H, NEW proven \in Seq(H), NEW peaksTo, Len(peaksTo) \in Nat
  PROVE  \E r : MatchRun(r, proven, peaksTo)
<1> DEFINE V == [ito : Nat, ok : BOOLEAN]
           N == Len(proven)
           base == [ito |-> 1, ok |-> TRUE]
           Op == [p \in V \X H |-> MatchRound(peaksTo, p[1], p[2])]
           Is(f) == f = [s \in SUBSET DOMAIN proven |->
                           IF s = {} THEN base
                           ELSE MatchRound(peaksTo, f[s \ {Max(s)}], proven[Max(s)])]
           F == CHOOSE f : Is(f)
<1>1. MatchPeaks(proven, peaksTo) = F[DOMAIN proven].ok
  BY DEF MatchPeaks, FoldLeft, MapThenFoldSet, MatchRound
<1>2. N \in Nat /\ DOMAIN proven = 1 .. N
  OBVIOUS
<1>3. ASSUME NEW at \in V, NEW x \in H PROVE MatchRound(peaksTo, at, x) \in V
  <2>1. at.ito + 1 \in Nat /\ (at.ito + 1 <= Len(peaksTo) /\ peaksTo[at.ito + 1] = x) \in BOOLEAN
    OBVIOUS
  <2> QED BY <2>1 DEF MatchRound
<1>4. /\ Op \in [V \X H -> V] /\ base \in V
      /\ \A at \in V, x \in H : Op[<<at, x>>] = MatchRound(peaksTo, at, x)
  <2>1. base \in V
    OBVIOUS
  <2> HIDE DEF V, base
  <2> QED BY <1>3, <2>1
<1> HIDE DEF Op, N
<1>5. \E f : Is(f)
  <2> HIDE DEF V, base
  <2>1. PICK f : FoldEquation(f, V, Op, base, proven)
    BY <1>4, FoldSolution
  <2>2. /\ f \in [SUBSET DOMAIN proven -> V]
        /\ f = [s \in SUBSET DOMAIN proven |->
                 IF s = {} THEN base ELSE Op[<<f[s \ {Max(s)}], proven[Max(s)]>>]]
    BY <2>1 DEF FoldEquation
  <2>3. ASSUME NEW s \in SUBSET DOMAIN proven, s # {}
        PROVE  Op[<<f[s \ {Max(s)}], proven[Max(s)]>>]
                 = MatchRound(peaksTo, f[s \ {Max(s)}], proven[Max(s)])
    <3>1. proven[Max(s)] \in H
      BY <2>3, MaxOfIndices
    <3>2. f[s \ {Max(s)}] \in V
      BY <2>2
    <3> QED BY <1>4, <3>1, <3>2
  <2>4. Is(f)
    BY <2>2, <2>3
  <2> QED BY <2>4
<1>6. Is(F)
  <2> HIDE DEF Is
  <2> QED BY <1>5
<1> HIDE DEF F
<1>7. PICK r : FoldsTo(r, V, Op, base, proven, F[DOMAIN proven])
  <2> HIDE DEF V, base
  <2>1. F[{}] = base
    BY <1>6
  <2>2. ASSUME NEW s \in SUBSET DOMAIN proven, s # {}, F[s \ {Max(s)}] \in V
        PROVE  F[s] = Op[<<F[s \ {Max(s)}], proven[Max(s)]>>]
    <3>1. proven[Max(s)] \in H
      BY <2>2, MaxOfIndices
    <3> QED BY <1>4, <1>6, <2>2, <3>1
  <2> HIDE DEF Is
  <2> QED BY <1>4, <2>1, <2>2, FoldRun
<1>8. ASSUME NEW j \in 1 .. N PROVE r[j] = MatchRound(peaksTo, r[j - 1], proven[j])
  <2>1. j - 1 \in 0 .. Len(proven) /\ j \in 1 .. Len(proven)
    BY <1>2 DEF N
  <2>2. r[j - 1] \in V /\ r[j] = Op[<<r[j - 1], proven[j]>>] /\ proven[j] \in H
    <3> HIDE DEF V, Op, base, F
    <3>1. r[j - 1] \in V
      BY <1>7, <2>1 DEF FoldsTo
    <3>2. r[j] = Op[<<r[j - 1], proven[j]>>]
      BY <1>7, <2>1 DEF FoldsTo
    <3>3. proven[j] \in H
      BY <2>1
    <3> QED BY <3>1, <3>2, <3>3
  <2> HIDE DEF V
  <2> QED BY <1>4, <2>2
<1>9. /\ r \in [0 .. N -> Scan] /\ r[0] = base
      /\ MatchPeaks(proven, peaksTo) = r[N].ok
  BY <1>1, <1>7 DEF FoldsTo, N, Scan
<1> QED BY <1>8, <1>9 DEF MatchRun, N

(* If the scan succeeds, every root is one of the peaks. *)
LEMMA EveryRootIsMatched ==
  ASSUME NEW H, NEW proven \in Seq(H), NEW peaksTo, Len(peaksTo) \in Nat, Len(peaksTo) > 0,
         MatchPeaks(proven, peaksTo)
  PROVE  \A x \in 1 .. Len(proven) : Has(peaksTo, proven[x])
<1> DEFINE N == Len(proven)
<1>1. PICK r : MatchRun(r, proven, peaksTo)
  BY MatchPeaksRun
<1>2. N \in Nat
  OBVIOUS
<1> DEFINE Good(j) == r[j].ok =>
             /\ r[j].ito \in 1 .. Len(peaksTo)
             /\ \A x \in 1 .. j : Has(peaksTo, proven[x])
           S == {j \in Nat : Good(j)}
<1>3. 0 \in S
  <2>1. r[0].ito = 1
    BY <1>1 DEF MatchRun
  <2> QED BY <2>1
<1>4. ASSUME NEW j \in 1 .. N, j - 1 \in S PROVE j \in S
  <2>1. j \in Nat /\ j - 1 \in 0 .. N /\ j \in 1 .. N
    BY <1>2
  <2>2. r[j - 1] \in Scan /\ r[j] = MatchRound(peaksTo, r[j - 1], proven[j])
    BY <1>1, <2>1 DEF MatchRun
  <2>3. ASSUME r[j].ok
        PROVE  /\ r[j - 1].ok
               /\ r[j].ito \in 1 .. Len(peaksTo) /\ peaksTo[r[j].ito] = proven[j]
    <3>1. r[j - 1].ok
      BY <2>2, <2>3 DEF MatchRound
    <3>2. r[j - 1].ito \in 1 .. Len(peaksTo)
      BY <1>4, <3>1
    <3>3. CASE peaksTo[r[j - 1].ito] = proven[j]
      BY <2>2, <3>1, <3>2, <3>3 DEF MatchRound
    <3>4. CASE peaksTo[r[j - 1].ito] # proven[j]
      <4>1. /\ r[j].ito = r[j - 1].ito + 1
            /\ r[j - 1].ito + 1 <= Len(peaksTo) /\ peaksTo[r[j - 1].ito + 1] = proven[j]
        <5> DEFINE to == r[j - 1].ito + 1
                   b == to <= Len(peaksTo) /\ peaksTo[to] = proven[j]
        <5>1. r[j] = [ito |-> to, ok |-> b]
          BY <2>2, <3>1, <3>4 DEF MatchRound
        <5> HIDE DEF b, to
        <5>2. r[j].ok = b /\ r[j].ito = to
          BY <5>1
        <5>3. b
          BY <2>3, <5>2
        <5> QED BY <5>2, <5>3 DEF b, to
      <4> QED BY <3>1, <3>2, <4>1
    <3> QED BY <3>3, <3>4
  <2>4. ASSUME r[j].ok, NEW x \in 1 .. j PROVE Has(peaksTo, proven[x])
    <3>1. CASE x = j
      BY <2>3, <2>4, <3>1 DEF Has
    <3>2. CASE x # j
      <4>1. x \in 1 .. j - 1
        BY <2>1, <3>2
      <4> QED BY <1>4, <2>3, <2>4, <4>1
    <3> QED BY <3>1, <3>2
  <2> QED BY <2>1, <2>3, <2>4
<1> HIDE DEF S, Good
<1>5. N \in S
  <2>1. \A j \in 0 .. N : j \in S
    BY <1>2, <1>3, <1>4, UpTo
  <2> QED BY <1>2, <2>1
<1>6. r[N].ok
  BY <1>1 DEF MatchRun
<1> QED BY <1>5, <1>6 DEF S, Good

-----------------------------------------------------------------------------
(* What is accepted                                                        *)

(* No leaf value is the hash of a position and two nodes.  AddHashedLeaf   *)
(* stores the value it is given, so this is for its callers to see to, who *)
(* hash an event (term-cheatsheet.md:245).  The theorem needs it: the last *)
(* leaf of a range may be a peak, and peaks are compared by their value.   *)
NoLeafIsNode(Values) ==
  \A v \in Values : \A pos, a, b : v # HashPosPair64(pos, a, b)

(* Nodes of the same hash are at the same place, if they are both peaks. *)
LEMMA StampedOnce ==
  ASSUME NEW Values, NoLeafIsNode(Values), NEW n \in Nat, NEW x,
         NEW g \in Nat, NEW l \in Nat, PeakOver(n, g, l), Stamped(Values, x, g, l),
         NEW f \in Nat, NEW i \in Nat, PeakOver(n, f, i), Stamped(Values, x, f, i)
  PROVE  f = g /\ i = l
<1>1. CASE g = 0 /\ f = 0
  <2>1. l + 1 <= n /\ n < l + 2 /\ i + 1 <= n /\ n < i + 2
    <3>1. (l + 1) * 2^0 <= n /\ n < (l + 2) * 2^0 /\ (i + 1) * 2^0 <= n /\ n < (i + 2) * 2^0
      BY <1>1 DEF PeakOver
    <3>2. \A y \in Nat : y * 2^0 = y
      BY PowZero
    <3>3. l + 1 \in Nat /\ l + 2 \in Nat /\ i + 1 \in Nat /\ i + 2 \in Nat
      OBVIOUS
    <3> QED BY <3>1, <3>2, <3>3
  <2> QED BY <1>1, <2>1
<1>2. CASE g = 0 /\ f # 0
  BY <1>2 DEF NoLeafIsNode, Stamped
<1>3. CASE g # 0 /\ f = 0
  BY <1>3 DEF NoLeafIsNode, Stamped
<1>4. CASE g # 0 /\ f # 0
  <2>1. NodePos(g, l) = NodePos(f, i)
    BY <1>4 DEF Stamped, HashPosPair64
  <2> QED BY <2>1, NodePosUnique
<1> QED BY <1>1, <1>2, <1>3, <1>4

(* Every node of a range has the hash of its place. *)
LEMMA NodeStamped ==
  ASSUME NEW Values, NEW H, NEW ns, NEW vs, TreeOf(Values, H, ns, vs),
         NEW h \in Nat, NEW k \in Nat, (k + 1) * 2^h <= Len(vs)
  PROVE  /\ NodePos(h, k) \in 1 .. Len(ns)
         /\ ns[NodePos(h, k)] \in H
         /\ Stamped(Values, ns[NodePos(h, k)], h, k)
<1>1. Len(vs) \in Nat /\ ns \in Seq(H) /\ Len(ns) = MMRIndex(Len(vs)) /\ vs \in Seq(Values)
  BY DEF TreeOf, RangeOver
<1>2. NodePos(h, k) \in Nat /\ NodePos(h, k) > 0 /\ NodePos(h, k) <= Len(ns)
  <2>1. NodePos(h, k) \in Nat /\ NodePos(h, k) > 0
    BY NodePosBounds
  <2>2. NodePos(h, k) <= Len(ns)
    BY <1>1, NodeInRange
  <2> QED BY <2>1, <2>2
<1>3. NodePos(h, k) \in 1 .. Len(ns) /\ ns[NodePos(h, k)] \in H
  <2>1. Len(ns) \in Nat
    BY <1>1
  <2>2. NodePos(h, k) \in 1 .. Len(ns)
    BY <1>2, <2>1
  <2> QED BY <1>1, <2>2
<1>4. CASE h = 0
  <2>1. k < Len(vs)
    <3>1. (k + 1) * 2^0 = k + 1
      <4>1. k + 1 \in Nat
        OBVIOUS
      <4> QED BY <4>1, PowZero
    <3> QED BY <1>1, <1>4, <3>1
  <2>2. vs[k + 1] \in Values
    <3>1. k + 1 \in 1 .. Len(vs)
      BY <1>1, <2>1
    <3> QED BY <1>1, <3>1
  <2> QED BY <1>3, <1>4, <2>1, <2>2, TreeNodes DEF Stamped, TreeOf
<1>5. CASE h # 0
  <2>1. PICK g \in Nat : h = g + 1
    <3>1. h - 1 \in Nat /\ h = (h - 1) + 1
      BY <1>5
    <3> QED BY <3>1
  <2>2. ns[NodePos(h, k)]
          = HashPosPair64(NodePos(h, k), ns[NodePos(g, 2 * k)], ns[NodePos(g, 2 * k + 1)])
    BY <2>1, TreeNodes DEF TreeOf
  <2> QED BY <1>3, <1>5, <2>2 DEF Stamped
<1> QED BY <1>4, <1>5

(* Where the children of a node are *)
LEMMA ChildPos ==
  ASSUME NEW g \in Nat, NEW j \in Nat
  PROVE  /\ NodePos(g + 1, j) = NodePos(g, 2 * j + 1) + 1
         /\ NodePos(g, 2 * j) \in Nat /\ NodePos(g, 2 * j + 1) \in Nat
         /\ NodePos(g, 2 * j) < NodePos(g, 2 * j + 1)
<1>1. 2 * j \in Nat /\ 2 * j + 1 \in Nat
  OBVIOUS
<1>2. NodePos(g, 2 * j) \in Nat /\ NodePos(g, 2 * j + 1) \in Nat
  BY <1>1, NodePosBounds
<1>3. /\ NodePos(g + 1, j) = NodePos(g, 2 * j + 1) + 1
      /\ NodePos(g, 2 * j) = NodePos(g, 2 * j + 1) - (2 * 2^g - 1)
  BY ParentPos
<1>4. 2^g \in Nat /\ 2^g > 0
  BY PowType
<1>5. ASSUME NEW y \in Nat, y > 0, NEW a \in Nat, NEW b \in Nat, b = a - (2 * y - 1)
      PROVE  b < a
  BY <1>5
<1>6. NodePos(g, 2 * j) < NodePos(g, 2 * j + 1)
  BY <1>2, <1>3, <1>4, <1>5
<1> QED BY <1>2, <1>3, <1>6

(* The nodes that a climb has are in the range. *)
LEMMA ClimbInRange ==
  ASSUME NEW n \in Nat, NEW h \in Nat, NEW k \in Nat, NEW p, NEW K, ClimbsFrom(p, K, n, h, k),
         NEW x \in 1 .. Len(p)
  PROVE  p[x] \in Nat /\ p[x] < MMRIndex(n)
<1>1. p \in Seq(Nat) /\ K \in [0 .. Len(p) -> Nat] /\ MMRIndex(n) \in Nat
  BY MMRIndexBounds DEF ClimbsFrom, Climbing
<1> DEFINE g == h + x - 1
           j == K[x]
<1>2. g \in Nat /\ g + 1 = h + x /\ j \in Nat /\ x \in Nat
  <2>1. x \in Nat /\ x >= 1 /\ x \in 0 .. Len(p)
    BY <1>1
  <2> QED BY <1>1, <2>1
<1>3. /\ (j + 1) * 2^(g + 1) <= n
      /\ p[x] = NodePos(g, 2 * j + 1) - 1 \/ p[x] = NodePos(g, 2 * j) - 1
  BY <1>2 DEF ClimbsFrom, Climbing
<1>4. p[x] \in Nat
  BY <1>1
<1> HIDE DEF g, j
<1>5. /\ NodePos(g + 1, j) = NodePos(g, 2 * j + 1) + 1
      /\ NodePos(g, 2 * j) \in Nat /\ NodePos(g, 2 * j + 1) \in Nat
      /\ NodePos(g, 2 * j) < NodePos(g, 2 * j + 1)
  BY <1>2, ChildPos
<1>6. NodePos(g + 1, j) <= MMRIndex(n)
  <2>1. g + 1 \in Nat
    BY <1>2
  <2> QED BY <1>2, <1>3, <2>1, NodeInRange
<1>7. CASE p[x] = NodePos(g, 2 * j + 1) - 1
  BY <1>1, <1>4, <1>5, <1>6, <1>7
<1>8. CASE p[x] = NodePos(g, 2 * j) - 1
  BY <1>1, <1>4, <1>5, <1>6, <1>8
<1> QED BY <1>3, <1>7, <1>8

(* The proof has the hashes of the range that the path p lists. *)
Siblings(proof, H, ns, p) ==
  /\ proof \in Seq(H) /\ Len(proof) = Len(p)
  /\ \A x \in 1 .. Len(p) : proof[x] = ns[p[x] + 1]

(* The path climbs from the run k of 2^h leaves, the proof has its hashes. *)
ProofOf(H, ns, n, h, k, p, proof) ==
  (\E K : ClimbsFrom(p, K, n, h, k)) /\ Siblings(proof, H, ns, p)

(* The proof has the hashes of a climb from the run k of 2^h leaves. *)
ProofClimbs(proof, H, ns, n, h, k) ==
  /\ proof \in Seq(H)
  /\ \E p, K : /\ ClimbsFrom(p, K, n, h, k) /\ Len(proof) = Len(p)
               /\ \A x \in 1 .. Len(p) : proof[x] = ns[p[x] + 1]

(* The inclusion proof of a node has the nodes of the climb from it. *)
LEMMA InclusionProofOf ==
  ASSUME NEW Values, NEW H, NEW ns, NEW vs, TreeOf(Values, H, ns, vs),
         NEW h \in Nat, NEW k \in Nat, (k + 1) * 2^h <= Len(vs)
  PROVE  /\ Provable(StoreOf(ns), Len(ns) - 1, NodePos(h, k) - 1)
         /\ ProofOf(H, ns, Len(vs), h, k, InclusionProofPath(Len(ns) - 1, NodePos(h, k) - 1),
                    InclusionProof(StoreOf(ns), Len(ns) - 1, NodePos(h, k) - 1))
<1> DEFINE i == NodePos(h, k) - 1
           p == InclusionProofPath(Len(ns) - 1, i)
           proof == InclusionProof(StoreOf(ns), Len(ns) - 1, i)
<1>1. Len(vs) \in Nat /\ ns \in Seq(H) /\ Len(ns) = MMRIndex(Len(vs)) /\ MMRIndex(Len(vs)) \in Nat
  BY MMRIndexBounds DEF TreeOf, RangeOver
<1>2. i + 1 = NodePos(h, k) /\ NodePos(h, k) \in 1 .. Len(ns)
  <2>1. NodePos(h, k) \in 1 .. Len(ns)
    BY NodeStamped
  <2> QED BY <2>1
<1>3. p = path[<<NodePos(h, k) - 1, h, MMRIndex(Len(vs)) - 1>>]
  <2>1. IndexHeight(i) = h
    BY <1>2, HeightOfNode DEF IndexHeight
  <2> QED BY <1>1, <2>1 DEF InclusionProofPath
<1>4. PICK K : ClimbsFrom(p, K, Len(vs), h, k)
  BY <1>1, <1>3, PathClimbs
<1>5. proof = [x \in DOMAIN p |-> StoreOf(ns)[p[x]]]
  BY DEF InclusionProof
<1>6. p \in Seq(Nat)
  BY <1>4 DEF ClimbsFrom, Climbing
<1> HIDE DEF p, proof
<1>7. DOMAIN p = 1 .. Len(p) /\ Len(p) \in Nat
  BY <1>6
<1>8. ASSUME NEW x \in 1 .. Len(p)
      PROVE  /\ p[x] \in DOMAIN StoreOf(ns)
             /\ StoreOf(ns)[p[x]] = ns[p[x] + 1]
             /\ ns[p[x] + 1] \in H
  <2>1. p[x] \in Nat /\ p[x] < Len(ns)
    BY <1>1, <1>4, ClimbInRange
  <2>2. p[x] \in 0 .. Len(ns) - 1 /\ p[x] + 1 \in 1 .. Len(ns)
    BY <1>1, <2>1
  <2> QED BY <1>1, <2>2 DEF StoreOf
<1>9. proof \in Seq(H) /\ Len(proof) = Len(p) /\ \A x \in 1 .. Len(p) : proof[x] = ns[p[x] + 1]
  BY <1>5, <1>7, <1>8
<1>10. Provable(StoreOf(ns), Len(ns) - 1, i)
  <2>1. i <= Len(ns) - 1
    BY <1>1, <1>2
  <2> HIDE DEF i
  <2> QED BY <1>7, <1>8, <2>1 DEF Provable, p
<1>11. ProofOf(H, ns, Len(vs), h, k, p, proof)
  BY <1>4, <1>9 DEF ProofOf, Siblings
<1> QED BY <1>10, <1>11 DEF p, proof

(* So it has the hashes of a climb. *)
LEMMA InclusionProofClimbs ==
  ASSUME NEW Values, NEW H, NEW ns, NEW vs, TreeOf(Values, H, ns, vs),
         NEW h \in Nat, NEW k \in Nat, (k + 1) * 2^h <= Len(vs)
  PROVE  /\ Provable(StoreOf(ns), Len(ns) - 1, NodePos(h, k) - 1)
         /\ ProofClimbs(InclusionProof(StoreOf(ns), Len(ns) - 1, NodePos(h, k) - 1),
                        H, ns, Len(vs), h, k)
<1> DEFINE p == InclusionProofPath(Len(ns) - 1, NodePos(h, k) - 1)
           proof == InclusionProof(StoreOf(ns), Len(ns) - 1, NodePos(h, k) - 1)
<1>1. Provable(StoreOf(ns), Len(ns) - 1, NodePos(h, k) - 1) /\ ProofOf(H, ns, Len(vs), h, k, p, proof)
  BY InclusionProofOf
<1> HIDE DEF p, proof
<1>2. ProofClimbs(proof, H, ns, Len(vs), h, k)
  BY <1>1 DEF ProofOf, ProofClimbs, Siblings
<1> QED BY <1>1, <1>2 DEF proof

(* The peaks of a range, each with its place *)
IsPeak(q, n, h, k) == q = NodePos(h, k) - 1 /\ PeakOver(n, h, k)

(* q lists the peaks of the range ns over vs, and ph their hashes. *)
PeakList(Values, H, ns, vs, q, ph) ==
  /\ q \in Seq(Nat) /\ ph \in Seq(H) /\ Len(ph) = Len(q)
  /\ \A j \in 1 .. Len(q) : \E h, k \in Nat :
       /\ IsPeak(q[j], Len(vs), h, k)
       /\ (k + 1) * 2^h <= Len(vs)
       /\ ph[j] = ns[NodePos(h, k)]
       /\ ns[NodePos(h, k)] \in H
       /\ Stamped(Values, ns[NodePos(h, k)], h, k)
  /\ \A x \in Nat : x < Len(vs) =>
       \E j \in 1 .. Len(q) : \E h, k \in Nat :
         q[j] = NodePos(h, k) - 1 /\ k * 2^h <= x /\ x < (k + 1) * 2^h

(* The list of the peaks' hashes *)
LEMMA PeakHashesOf ==
  ASSUME NEW Values, NEW H, NEW ns, NEW vs, TreeOf(Values, H, ns, vs), Len(vs) # 0
  PROVE  /\ Len(ns) \in Nat /\ Len(ns) > 0
         /\ PeakList(Values, H, ns, vs, Peaks(Len(ns) - 1), PeakHashes(StoreOf(ns), Len(ns) - 1))
<1> DEFINE q == Peaks(Len(ns) - 1)
           ph == PeakHashes(StoreOf(ns), Len(ns) - 1)
           n == Len(vs)
<1>1. n \in Nat /\ ns \in Seq(H) /\ Len(ns) = MMRIndex(n) /\ MMRIndex(n) \in Nat /\ n <= MMRIndex(n)
  BY MMRIndexBounds DEF TreeOf, RangeOver
<1>2. ListsPeaks(q, 0, n)
  BY <1>1, PeaksAre
<1>3. q \in Seq(Nat)
  BY <1>2 DEF ListsPeaks
<1>4. ph = [j \in DOMAIN q |-> StoreOf(ns)[q[j]]]
  BY DEF PeakHashes
<1> HIDE DEF q, ph
<1>5. DOMAIN q = 1 .. Len(q) /\ Len(q) \in Nat
  BY <1>3
<1>6. ASSUME NEW j \in 1 .. Len(q)
      PROVE  \E h, k \in Nat :
               /\ IsPeak(q[j], n, h, k)
               /\ (k + 1) * 2^h <= n
               /\ ph[j] = ns[NodePos(h, k)]
               /\ ns[NodePos(h, k)] \in H
               /\ Stamped(Values, ns[NodePos(h, k)], h, k)
  <2>1. PICK h \in Nat, k \in Nat : q[j] = NodePos(h, k) - 1 /\ PeakOver(n, h, k)
    BY <1>2 DEF ListsPeaks
  <2>2. (k + 1) * 2^h <= n
    BY <2>1 DEF PeakOver
  <2>3. NodePos(h, k) \in 1 .. Len(ns) /\ ns[NodePos(h, k)] \in H /\ Stamped(Values, ns[NodePos(h, k)], h, k)
    BY <2>2, NodeStamped
  <2>4. StoreOf(ns)[q[j]] = ns[NodePos(h, k)]
    <3>1. q[j] \in 0 .. Len(ns) - 1 /\ q[j] + 1 = NodePos(h, k)
      BY <1>1, <2>1, <2>3
    <3> QED BY <3>1 DEF StoreOf
  <2>5. ph[j] = ns[NodePos(h, k)]
    BY <1>4, <1>5, <2>4
  <2> QED BY <2>1, <2>2, <2>3, <2>5 DEF IsPeak
<1>7. \A j \in 1 .. Len(q) : ph[j] \in H
  BY <1>6
<1>8. ph \in Seq(H) /\ Len(ph) = Len(q)
  BY <1>4, <1>5, <1>7
<1>9. \A x \in Nat : x < n => \E j \in 1 .. Len(q) : \E h, k \in Nat :
        q[j] = NodePos(h, k) - 1 /\ k * 2^h <= x /\ x < (k + 1) * 2^h
  BY <1>2 DEF ListsPeaks
<1>10. PeakList(Values, H, ns, vs, q, ph)
  BY <1>3, <1>6, <1>8, <1>9 DEF PeakList
<1>11. Len(ns) \in Nat /\ Len(ns) > 0
  BY <1>1
<1> QED BY <1>10, <1>11 DEF q, ph
(* A verifier that knows the range na accepts the range nb. *)
Accepts(na, nb) ==
  CheckConsistency(StoreOf(nb), Len(na), Len(nb), PeakHashes(StoreOf(na), Len(na) - 1))


(* Both ranges have the node over the run, and the same. *)
SameAt(na, va, nb, vb, h, k) ==
  /\ (k + 1) * 2^h <= Len(va)
  /\ (k + 1) * 2^h <= Len(vb)
  /\ na[NodePos(h, k)] = nb[NodePos(h, k)]

(* A range that is accepted has the peaks of the range that is known, each *)
(* at its place.                                                           *)
LEMMA AcceptedPeaks ==
  ASSUME NEW Values, NEW H, PairsOf(H) \subseteq H, NoLeafIsNode(Values),
         NEW na, NEW va, TreeOf(Values, H, na, va), Len(va) # 0,
         NEW nb, NEW vb, TreeOf(Values, H, nb, vb), Len(vb) # 0,
         Accepts(na, nb),
         NEW j \in 1 .. Len(Peaks(Len(na) - 1)), NEW h \in Nat, NEW k \in Nat,
         Peaks(Len(na) - 1)[j] = NodePos(h, k) - 1
  PROVE  SameAt(na, va, nb, vb, h, k)
<1> DEFINE A == Len(na) - 1
           B == Len(nb) - 1
           q == Peaks(A)
           acc == PeakHashes(StoreOf(na), A)
           to == PeakHashes(StoreOf(nb), B)
           proofs == IndexConsistencyProof(StoreOf(nb), A, B)
           Root(x) == RootOf(A, acc, proofs, x)
           b == Len(vb)
<1>1. /\ Len(na) \in Nat /\ q \in Seq(Nat) /\ acc \in Seq(H) /\ Len(acc) = Len(q)
      /\ \A x \in 1 .. Len(q) : \E g, l \in Nat :
           /\ IsPeak(q[x], Len(va), g, l) /\ (l + 1) * 2^g <= Len(va)
           /\ acc[x] = na[NodePos(g, l)] /\ na[NodePos(g, l)] \in H
           /\ Stamped(Values, na[NodePos(g, l)], g, l)
  <2>1. Len(na) \in Nat /\ PeakList(Values, H, na, va, q, acc)
    BY PeakHashesOf
  <2> HIDE DEF q, acc
  <2> QED BY <2>1 DEF PeakList
<1>2. /\ Len(nb) \in Nat /\ Len(nb) = MMRIndex(b) /\ b \in Nat
      /\ to \in Seq(H) /\ Len(to) = Len(Peaks(B)) /\ Peaks(B) \in Seq(Nat)
      /\ \A x \in 1 .. Len(Peaks(B)) : \E g, l \in Nat :
           /\ IsPeak(Peaks(B)[x], b, g, l)
           /\ to[x] = nb[NodePos(g, l)]
           /\ Stamped(Values, nb[NodePos(g, l)], g, l)
  <2>1. Len(nb) = MMRIndex(b) /\ b \in Nat
    BY DEF TreeOf, RangeOver
  <2>2. Len(nb) \in Nat /\ PeakList(Values, H, nb, vb, Peaks(B), to)
    BY PeakHashesOf
  <2> HIDE DEF B, to
  <2> QED BY <2>1, <2>2 DEF PeakList
<1>3. Len(to) > 0
  <2>1. \E x \in 1 .. Len(Peaks(B)) : \E g, l \in Nat :
          Peaks(B)[x] = NodePos(g, l) - 1 /\ l * 2^g <= 0 /\ 0 < (l + 1) * 2^g
    <3>1. 0 \in Nat /\ 0 < b
      BY <1>2
    <3>2. PeakList(Values, H, nb, vb, Peaks(B), to)
      BY PeakHashesOf
    <3> HIDE DEF B, to
    <3> QED BY <3>1, <3>2 DEF PeakList
  <2>2. \E x \in 1 .. Len(to) : TRUE
    BY <1>2, <2>1
  <2> QED BY <1>2, <2>2
<1>4. CheckConsistency(StoreOf(nb), Len(na), Len(nb), acc)
  BY DEF Accepts
<1>5. /\ \A x \in DOMAIN q : Provable(StoreOf(nb), B, q[x])
      /\ MatchPeaks(ConsistentRoots(A, acc, proofs), to)
  BY <1>4 DEF CheckConsistency, ConsistencyProvable, VerifyConsistency
<1>6. \A x \in 1 .. Len(q) : proofs[x] = InclusionProof(StoreOf(nb), B, q[x])
  <2>1. DOMAIN q = 1 .. Len(q)
    BY <1>1
  <2> QED BY <2>1 DEF IndexConsistencyProof
<1> HIDE DEF acc, proofs, to, q, A, B, b
<1>7. ASSUME NEW x \in 1 .. Len(q), NEW g \in Nat, NEW l \in Nat, q[x] = NodePos(g, l) - 1
      PROVE  /\ (l + 1) * 2^g <= Len(va) /\ (l + 1) * 2^g <= b
             /\ acc[x] = na[NodePos(g, l)] /\ Root(x) \in H
             /\ \E f, i \in Nat :
                  PeakOver(b, f, i) /\ Shows(Values, nb, Root(x), f, i, na[NodePos(g, l)], g, l)
  <2>1. /\ (l + 1) * 2^g <= Len(va)
        /\ acc[x] = na[NodePos(g, l)] /\ na[NodePos(g, l)] \in H
        /\ Stamped(Values, na[NodePos(g, l)], g, l)
    <3>1. PICK f \in Nat, i \in Nat :
             /\ IsPeak(q[x], Len(va), f, i) /\ (i + 1) * 2^f <= Len(va)
             /\ acc[x] = na[NodePos(f, i)] /\ na[NodePos(f, i)] \in H
             /\ Stamped(Values, na[NodePos(f, i)], f, i)
      BY <1>1
    <3>2. NodePos(f, i) = NodePos(g, l)
      <4>1. NodePos(f, i) \in Nat /\ NodePos(g, l) \in Nat /\ NodePos(f, i) - 1 = NodePos(g, l) - 1
        BY <1>7, <3>1, NodePosBounds DEF IsPeak
      <4> QED BY <4>1
    <3>3. f = g /\ i = l
      BY <3>2, NodePosUnique
    <3> QED BY <3>1, <3>3
  <2>2. (l + 1) * 2^g <= b
    <3>1. q[x] <= B
      <4>1. x \in DOMAIN q
        BY <1>1
      <4> QED BY <1>5, <4>1 DEF Provable
    <3>2. NodePos(g, l) <= MMRIndex(b)
      <4>1. NodePos(g, l) \in Nat /\ B = MMRIndex(b) - 1 /\ MMRIndex(b) \in Nat
        BY <1>2, NodePosBounds DEF B
      <4> QED BY <1>7, <3>1, <4>1
    <3> QED BY <1>2, <3>2, NodeInRange
  <2>3. proofs[x] = InclusionProof(StoreOf(nb), Len(nb) - 1, NodePos(g, l) - 1)
    BY <1>6, <1>7 DEF B
  <2>4. PICK p, K :
          /\ proofs[x] \in Seq(H)
          /\ ClimbsFrom(p, K, Len(vb), g, l)
          /\ Len(proofs[x]) = Len(p)
          /\ \A y \in 1 .. Len(p) : proofs[x][y] = nb[p[y] + 1]
    <3>1. ProofClimbs(proofs[x], H, nb, Len(vb), g, l)
      BY <2>2, <2>3, InclusionProofClimbs DEF b
    <3> QED BY <3>1 DEF ProofClimbs
  <2>5. Root(x) = IncludedRoot(NodePos(g, l) - 1, na[NodePos(g, l)], proofs[x])
    BY <1>7, <2>1 DEF RootOf, q
  <2>6. \E f, i \in Nat : /\ PeakOver(Len(vb), f, i)
                          /\ Shows(Values, nb, IncludedRoot(NodePos(g, l) - 1, na[NodePos(g, l)], proofs[x]),
                                   f, i, na[NodePos(g, l)], g, l)
    BY <2>1, <2>4, ClimbRoot
  <2>7. Root(x) \in H
    <3> DEFINE i == NodePos(g, l) - 1
               v == na[NodePos(g, l)]
               proof == proofs[x]
    <3>1. i \in Nat /\ i + 1 = NodePos(g, l)
      <4>1. NodePos(g, l) \in Nat /\ NodePos(g, l) > 0
        BY NodePosBounds
      <4> QED BY <4>1
    <3>2. IndexHeight(i) \in Nat
      BY <3>1, HeightOfNode DEF IndexHeight
    <3>3. v \in H /\ proof \in Seq(H) /\ Root(x) = IncludedRoot(i, v, proof)
      BY <2>1, <2>4, <2>5
    <3> HIDE DEF i, v, proof, Root
    <3>4. IncludedRoot(i, v, proof) \in H
      BY <3>1, <3>2, <3>3, IncludedRootRun
    <3> QED BY <3>3, <3>4
  <2> QED BY <2>1, <2>2, <2>5, <2>6, <2>7 DEF b
<1>8. \A x \in 1 .. Len(acc) : Root(x) \in H
  <2> SUFFICES ASSUME NEW x \in 1 .. Len(acc) PROVE Root(x) \in H
    OBVIOUS
  <2>1. x \in 1 .. Len(q)
    BY <1>1
  <2>2. \E g, l \in Nat : q[x] = NodePos(g, l) - 1
    BY <1>1, <2>1 DEF IsPeak
  <2> HIDE DEF Root
  <2> QED BY <1>7, <2>1, <2>2
<1>9. /\ ConsistentRoots(A, acc, proofs) \in Seq(H)
      /\ \A x \in 1 .. Len(acc) : Has(ConsistentRoots(A, acc, proofs), Root(x))
  BY <1>1, <1>8, EveryRootIsListed
<1>10. \A y \in 1 .. Len(ConsistentRoots(A, acc, proofs)) :
         Has(to, ConsistentRoots(A, acc, proofs)[y])
  BY <1>2, <1>3, <1>5, <1>9, EveryRootIsMatched
<1>11. j \in 1 .. Len(q) /\ q[j] = NodePos(h, k) - 1
  BY DEF q, A
<1>12. Has(to, Root(j))
  <2>1. j \in 1 .. Len(acc)
    BY <1>1, <1>11
  <2> HIDE DEF Root
  <2>2. Has(ConsistentRoots(A, acc, proofs), Root(j))
    BY <1>9, <2>1
  <2> QED BY <1>10, <2>2 DEF Has
<1>13. /\ (k + 1) * 2^h <= Len(va) /\ (k + 1) * 2^h <= b
       /\ \E f, i \in Nat :
            PeakOver(b, f, i) /\ Shows(Values, nb, Root(j), f, i, na[NodePos(h, k)], h, k)
  <2> HIDE DEF Root
  <2> QED BY <1>7, <1>11
<1> HIDE DEF Root
<1>14. PICK f \in Nat, i \in Nat :
         PeakOver(b, f, i) /\ Shows(Values, nb, Root(j), f, i, na[NodePos(h, k)], h, k)
  BY <1>13
<1>15. PICK g \in Nat, l \in Nat :
         PeakOver(b, g, l) /\ Root(j) = nb[NodePos(g, l)] /\ Stamped(Values, Root(j), g, l)
  <2>1. PICK y \in 1 .. Len(to) : to[y] = Root(j)
    BY <1>12 DEF Has
  <2>2. y \in 1 .. Len(Peaks(B))
    BY <1>2
  <2> QED BY <1>2, <2>1, <2>2 DEF IsPeak
<1>16. f = g /\ i = l
  BY <1>2, <1>14, <1>15, StampedOnce DEF Shows, Leads
<1>17. na[NodePos(h, k)] = nb[NodePos(h, k)]
  BY <1>14, <1>15, <1>16 DEF Shows, Leads
<1> QED BY <1>13, <1>17 DEF SameAt, b

(* Subtrees of the same hash are over the same leaves. *)
LEMMA SubtreesAgree ==
  ASSUME NEW Values, NEW H, NEW na, NEW va, TreeOf(Values, H, na, va), NEW nb, NEW vb, TreeOf(Values, H, nb, vb)
  PROVE  \A h, k \in Nat :
           /\ (k + 1) * 2^h <= Len(va) /\ (k + 1) * 2^h <= Len(vb)
           /\ na[NodePos(h, k)] = nb[NodePos(h, k)]
           => \A x \in Nat : k * 2^h <= x /\ x < (k + 1) * 2^h => va[x + 1] = vb[x + 1]
<1> DEFINE Same(h, k) == /\ (k + 1) * 2^h <= Len(va) /\ (k + 1) * 2^h <= Len(vb)
                         /\ na[NodePos(h, k)] = nb[NodePos(h, k)]
           Agree(h, k) == \A x \in Nat : k * 2^h <= x /\ x < (k + 1) * 2^h => va[x + 1] = vb[x + 1]
           S == {h \in Nat : \A k \in Nat : Same(h, k) => Agree(h, k)}
<1>0. Len(va) \in Nat /\ Len(vb) \in Nat
  BY TreeNodes DEF TreeOf
<1>1. 0 \in S
  <2> SUFFICES ASSUME NEW k \in Nat, Same(0, k) PROVE Agree(0, k)
    OBVIOUS
  <2>1. (k + 1) * 2^0 = k + 1 /\ k * 2^0 = k
    <3>1. k + 1 \in Nat /\ \A y \in Nat : y * 2^0 = y
      BY PowZero
    <3> QED BY <3>1
  <2>2. k < Len(va) /\ k < Len(vb)
    BY <1>0, <2>1
  <2>3. va[k + 1] = vb[k + 1]
    BY <2>2, TreeNodes DEF TreeOf
  <2>4. \A x \in Nat : k * 2^0 <= x /\ x < (k + 1) * 2^0 => x = k
    BY <2>1
  <2> QED BY <2>3, <2>4
<1>2. ASSUME NEW h \in Nat, NEW g \in Nat, h = g + 1, g \in S PROVE h \in S
  <2> SUFFICES ASSUME NEW k \in Nat, Same(h, k), NEW x \in Nat,
                      k * 2^h <= x, x < (k + 1) * 2^h
               PROVE  va[x + 1] = vb[x + 1]
    OBVIOUS
  <2>1. /\ 2 * k \in Nat /\ 2 * k + 1 \in Nat /\ 2^g \in Nat /\ 2^h = 2 * 2^g
    BY <1>2, PowType, PowStep
  <2>2. na[NodePos(h, k)]
          = HashPosPair64(NodePos(h, k), na[NodePos(g, 2 * k)], na[NodePos(g, 2 * k + 1)])
    <3>1. (k + 1) * 2^(g + 1) <= Len(va)
      BY <1>2
    <3>2. na[NodePos(g + 1, k)]
            = HashPosPair64(NodePos(g + 1, k), na[NodePos(g, 2 * k)], na[NodePos(g, 2 * k + 1)])
      BY <3>1, TreeNodes DEF TreeOf
    <3> QED BY <1>2, <3>2
  <2>3. nb[NodePos(h, k)]
          = HashPosPair64(NodePos(h, k), nb[NodePos(g, 2 * k)], nb[NodePos(g, 2 * k + 1)])
    <3>1. (k + 1) * 2^(g + 1) <= Len(vb)
      BY <1>2
    <3>2. nb[NodePos(g + 1, k)]
            = HashPosPair64(NodePos(g + 1, k), nb[NodePos(g, 2 * k)], nb[NodePos(g, 2 * k + 1)])
      BY <3>1, TreeNodes DEF TreeOf
    <3> QED BY <1>2, <3>2
  <2>4. /\ na[NodePos(g, 2 * k)] = nb[NodePos(g, 2 * k)]
        /\ na[NodePos(g, 2 * k + 1)] = nb[NodePos(g, 2 * k + 1)]
    <3>1. HashPosPair64(NodePos(h, k), na[NodePos(g, 2 * k)], na[NodePos(g, 2 * k + 1)])
            = HashPosPair64(NodePos(h, k), nb[NodePos(g, 2 * k)], nb[NodePos(g, 2 * k + 1)])
      BY <2>2, <2>3
    <3>2. ASSUME NEW p, NEW a, NEW b, NEW c, NEW d, HashPosPair64(p, a, b) = HashPosPair64(p, c, d)
          PROVE  a = c /\ b = d
      BY <3>2 DEF HashPosPair64
    <3> QED BY <3>1, <3>2
  <2>5. /\ k * 2^h = 2 * k * 2^g
        /\ (k + 1) * 2^h = (2 * k + 1 + 1) * 2^g
        /\ (2 * k + 1) * 2^g <= (2 * k + 1 + 1) * 2^g
        /\ (2 * k + 1) * 2^g \in Nat /\ (2 * k + 1 + 1) * 2^g \in Nat /\ 2 * k * 2^g \in Nat
    <3>1. ASSUME NEW y \in Nat
          PROVE  /\ k * (2 * y) = 2 * k * y /\ (k + 1) * (2 * y) = (2 * k + 1 + 1) * y
                 /\ (2 * k + 1) * y <= (2 * k + 1 + 1) * y
                 /\ (2 * k + 1) * y \in Nat /\ (2 * k + 1 + 1) * y \in Nat /\ 2 * k * y \in Nat
      OBVIOUS
    <3> QED BY <2>1, <3>1
  <2>6. Same(g, 2 * k) /\ Same(g, 2 * k + 1)
    BY <1>0, <2>4, <2>5
  <2>7. Agree(g, 2 * k) /\ Agree(g, 2 * k + 1)
    <3> HIDE DEF Same, Agree
    <3> QED BY <1>2, <2>1, <2>6
  <2>8. CASE x < (2 * k + 1) * 2^g
    BY <2>5, <2>7, <2>8
  <2>9. CASE (2 * k + 1) * 2^g <= x
    BY <2>5, <2>7, <2>9
  <2> QED BY <2>5, <2>8, <2>9
<1> HIDE DEF S
<1>3. ASSUME NEW h \in Nat PROVE h \in S
  <2>1. ASSUME NEW x \in 1 .. h, x - 1 \in S PROVE x \in S
    <3>1. x \in Nat /\ x - 1 \in Nat /\ x = (x - 1) + 1
      OBVIOUS
    <3> QED BY <1>2, <2>1, <3>1
  <2>2. \A x \in 0 .. h : x \in S
    BY <1>1, <2>1, UpTo
  <2> QED BY <2>2
<1> QED BY <1>3 DEF S

(* A range that is accepted extends the one that is known. *)
LEMMA AcceptedExtends ==
  ASSUME NEW Values, NEW H, PairsOf(H) \subseteq H, NoLeafIsNode(Values),
         NEW na, NEW va, TreeOf(Values, H, na, va), Len(va) # 0,
         NEW nb, NEW vb, TreeOf(Values, H, nb, vb), Len(vb) # 0,
         Accepts(na, nb)
  PROVE  IsPrefix(va, vb)
<1>1. /\ va \in Seq(Values) /\ vb \in Seq(Values) /\ Len(va) \in Nat /\ Len(vb) \in Nat
  BY DEF TreeOf, RangeOver
<1>2. ASSUME NEW x \in Nat, x < Len(va) PROVE x < Len(vb) /\ va[x + 1] = vb[x + 1]
  <2>1. PICK j \in 1 .. Len(Peaks(Len(na) - 1)) : \E h, k \in Nat :
          Peaks(Len(na) - 1)[j] = NodePos(h, k) - 1 /\ k * 2^h <= x /\ x < (k + 1) * 2^h
    BY <1>2, PeakHashesOf DEF PeakList
  <2>2. PICK h \in Nat, k \in Nat :
          Peaks(Len(na) - 1)[j] = NodePos(h, k) - 1 /\ k * 2^h <= x /\ x < (k + 1) * 2^h
    BY <2>1
  <2>3. /\ (k + 1) * 2^h <= Len(va) /\ (k + 1) * 2^h <= Len(vb)
        /\ na[NodePos(h, k)] = nb[NodePos(h, k)]
    <3>1. Peaks(Len(na) - 1)[j] = NodePos(h, k) - 1
      BY <2>2
    <3>2. SameAt(na, va, nb, vb, h, k)
      BY <3>1, AcceptedPeaks
    <3> QED BY <3>2 DEF SameAt
  <2>4. va[x + 1] = vb[x + 1]
    BY <2>2, <2>3, SubtreesAgree
  <2>5. (k + 1) * 2^h \in Nat
    BY NodePosBounds
  <2> QED BY <1>1, <2>2, <2>3, <2>4, <2>5
<1>3. Len(va) <= Len(vb)
  <2>1. Len(va) - 1 \in Nat /\ Len(va) - 1 < Len(va)
    BY <1>1
  <2> QED BY <1>1, <1>2, <2>1
<1>4. SubSeq(va, 1, Len(va)) = SubSeq(vb, 1, Len(va))
  <2>1. \A y \in 1 .. Len(va) : va[y] = vb[y]
    <3> SUFFICES ASSUME NEW y \in 1 .. Len(va) PROVE va[y] = vb[y]
      OBVIOUS
    <3>1. y - 1 \in Nat /\ y - 1 < Len(va) /\ (y - 1) + 1 = y
      BY <1>1
    <3> QED BY <1>2, <3>1
  <2> QED BY <1>1, <1>3, <2>1
<1> QED BY <1>3, <1>4 DEF IsPrefix

-----------------------------------------------------------------------------
(* Roots that are the peaks they should be are listed and matched.         *)

(* s has the first of the peaks, of which no two neighbours are the same.  *)
Begins(s, peaks, m) ==
  /\ m \in 1 .. Len(peaks) /\ Len(s) = m
  /\ \A y \in 1 .. m : s[y] = peaks[y]
  /\ \A y \in 1 .. m : y + 1 <= m => peaks[y] # peaks[y + 1]

(* The root that is added is the last of the list or the next of the peaks. *)
LEMMA BeginsAdd ==
  ASSUME NEW H, NEW peaks \in Seq(H), NEW s \in Seq(H), NEW m, Begins(s, peaks, m),
         NEW y \in 1 .. Len(peaks), y = m \/ y = m + 1
  PROVE  \/ /\ Begins(AddRoot(s, peaks[y]), peaks, m)
            /\ peaks[y] = peaks[m]
         \/ /\ Begins(AddRoot(s, peaks[y]), peaks, y)
<1> DEFINE x == peaks[y]
<1>1. m \in 1 .. Len(peaks) /\ Len(s) = m /\ s[m] = peaks[m] /\ s # << >>
  BY DEF Begins
<1>2. CASE x = peaks[m]
  <2>1. AddRoot(s, x) = s
    BY <1>1, <1>2 DEF AddRoot
  <2> QED BY <1>2, <2>1
<1>3. CASE x # peaks[m]
  <2>1. y = m + 1
    BY <1>3
  <2>2. AddRoot(s, x) = Append(s, x)
    BY <1>1, <1>3 DEF AddRoot
  <2>3. x \in H /\ m \in Nat /\ y \in Nat
    <3>1. Len(peaks) \in Nat
      OBVIOUS
    <3> QED BY <1>1, <3>1
  <2> HIDE DEF x
  <2>4. /\ Len(Append(s, x)) = m + 1 /\ Append(s, x)[m + 1] = x
        /\ \A z \in 1 .. m : Append(s, x)[z] = s[z]
    BY <1>1, <2>3
  <2>5. ASSUME NEW z \in 1 .. y PROVE Append(s, x)[z] = peaks[z]
    <3>1. CASE z = y
      BY <2>1, <2>4, <3>1 DEF x
    <3>2. CASE z # y
      <4>1. z \in 1 .. m
        BY <2>1, <2>3, <3>2
      <4> QED BY <2>4, <4>1 DEF Begins
    <3> QED BY <3>1, <3>2
  <2>6. ASSUME NEW z \in 1 .. y, z + 1 <= y PROVE peaks[z] # peaks[z + 1]
    <3>1. CASE z = m
      BY <1>3, <2>1, <3>1 DEF x
    <3>2. CASE z # m
      <4>1. z \in 1 .. m /\ z + 1 <= m
        BY <2>1, <2>3, <2>6, <3>2
      <4> QED BY <4>1 DEF Begins
    <3> QED BY <3>1, <3>2
  <2>7. Begins(Append(s, x), peaks, y)
    BY <2>1, <2>4, <2>5, <2>6 DEF Begins
  <2> QED BY <2>2, <2>7 DEF x
<1> QED BY <1>2, <1>3

(* J has the peak of each root: the first peak and then each or the next.  *)
Follows(J, n, m) ==
  /\ J \in [1 .. n -> 1 .. m] /\ J[1] = 1
  /\ \A k \in 1 .. n : k + 1 <= n => J[k + 1] = J[k] \/ J[k + 1] = J[k] + 1

(* The list of the roots begins the list of the peaks.                     *)
LEMMA RootsBegin ==
  ASSUME NEW H, NEW ifrom, NEW acc \in Seq(H), Len(acc) # 0, NEW proofs,
         NEW peaks \in Seq(H), NEW J, Follows(J, Len(acc), Len(peaks)),
         \A k \in 1 .. Len(acc) : RootOf(ifrom, acc, proofs, k) = peaks[J[k]],
         \A y \in 1 .. Len(peaks) : y + 1 < Len(peaks) => peaks[y] # peaks[y + 1]
  PROVE  \E m : Begins(ConsistentRoots(ifrom, acc, proofs), peaks, m)
<1> DEFINE N == Len(acc)
           Root(k) == RootOf(ifrom, acc, proofs, k)
<1>1. /\ N \in Nat /\ N # 0 /\ J \in [1 .. N -> 1 .. Len(peaks)] /\ J[1] = 1
      /\ Len(peaks) \in Nat
      /\ \A k \in 1 .. N : k + 1 <= N => J[k + 1] = J[k] \/ J[k + 1] = J[k] + 1
  BY DEF Follows
<1> HIDE DEF N
<1>2. \A k \in 1 .. N : J[k] \in 1 .. Len(peaks) /\ Root(k) = peaks[J[k]] /\ Root(k) \in H
  <2> HIDE DEF Root
  <2>1. \A k \in 1 .. N : J[k] \in 1 .. Len(peaks)
    BY <1>1
  <2>2. \A k \in 1 .. N : Root(k) = peaks[J[k]]
    BY DEF N, Root
  <2> QED BY <2>1, <2>2
<1>3. PICK r : RootsRun(r, H, ifrom, acc, proofs)
  BY <1>2, ConsistentRootsRun DEF N
<1>4. /\ r[0] = << >> /\ ConsistentRoots(ifrom, acc, proofs) = r[N]
      /\ \A k \in 0 .. N : r[k] \in Seq(H)
      /\ \A k \in 1 .. N : r[k] = AddRoot(r[k - 1], Root(k))
  BY <1>3 DEF RootsRun, N
<1> HIDE DEF Root
<1> DEFINE Ok(k) == \E m : /\ Begins(r[k], peaks, m)
                           /\ m = J[k] \/ (m + 1 = J[k] /\ J[k] = Len(peaks)
                                           /\ peaks[m] = peaks[J[k]])
           S == {k \in Nat : k = 0 \/ Ok(k)}
<1>5. ASSUME NEW k \in 1 .. N, k - 1 \in S PROVE k \in S
  <2>1. k \in Nat /\ J[k] \in 1 .. Len(peaks) /\ r[k] = AddRoot(r[k - 1], peaks[J[k]])
        /\ k - 1 \in 0 .. N /\ r[k - 1] \in Seq(H)
    BY <1>1, <1>2, <1>4
  <2>2. CASE k = 1
    <3>1. J[k] = 1 /\ r[k - 1] = << >>
      BY <1>1, <1>4, <2>2
    <3>2. r[k] = <<peaks[1]>>
      BY <2>1, <3>1 DEF AddRoot
    <3>3. Begins(r[k], peaks, 1)
      <4>0. \A x : Len(<<x>>) = 1 /\ <<x>>[1] = x
        OBVIOUS
      <4>1. 1 \in 1 .. Len(peaks)
        BY <2>1, <3>1, Zenon
      <4>3. Len(r[k]) = 1 /\ r[k][1] = peaks[1]
        BY <3>2, <4>0, Zenon
      <4>2. \A y \in 1 .. 1 : y = 1 /\ ~ (y + 1 <= 1)
        OBVIOUS
      <4> QED BY <4>1, <4>2, <4>3 DEF Begins
    <3>4. Ok(k)
      BY <3>1, <3>3
    <3> QED BY <2>1, <3>4
  <2>3. CASE k # 1
    <3>1. k - 1 \in 1 .. N /\ (k - 1) + 1 = k /\ k - 1 # 0 /\ (k - 1) + 1 <= N
      BY <1>1, <2>1, <2>3
    <3>2. Ok(k - 1)
      BY <1>5, <3>1
    <3>3. PICK m : /\ Begins(r[k - 1], peaks, m)
                   /\ m = J[k - 1] \/ (m + 1 = J[k - 1] /\ J[k - 1] = Len(peaks)
                                       /\ peaks[m] = peaks[J[k - 1]])
      BY <3>2
    <3>4. J[k - 1] \in 1 .. Len(peaks) /\ m \in 1 .. Len(peaks)
      BY <1>2, <3>1, <3>3 DEF Begins
    <3>5. J[k] = J[k - 1] \/ J[k] = J[k - 1] + 1
      BY <1>1, <3>1
    <3>6. J[k] = m \/ J[k] = m + 1
      BY <1>1, <2>1, <3>3, <3>4, <3>5
    <3>7. \/ Begins(r[k], peaks, m) /\ peaks[J[k]] = peaks[m]
          \/ Begins(r[k], peaks, J[k])
      BY <2>1, <3>3, <3>6, BeginsAdd
    <3>8. CASE Begins(r[k], peaks, m) /\ peaks[J[k]] = peaks[m] /\ J[k] = m + 1
      <4>1. ~ (m + 1 < Len(peaks))
        BY <3>4, <3>8
      <4>2. J[k] = Len(peaks)
        BY <1>1, <2>1, <3>4, <3>8, <4>1
      <4>3. Ok(k)
        BY <3>8, <4>2
      <4> QED BY <2>1, <4>3
    <3>9. CASE Begins(r[k], peaks, m) /\ J[k] = m
      <4>1. Ok(k)
        BY <3>9
      <4> QED BY <2>1, <4>1
    <3>10. CASE Begins(r[k], peaks, J[k])
      <4>1. Ok(k)
        BY <3>10
      <4> QED BY <2>1, <4>1
    <3> QED BY <3>6, <3>7, <3>8, <3>9, <3>10
  <2> QED BY <2>2, <2>3
<1>6. 0 \in S
  OBVIOUS
<1> HIDE DEF S, Ok
<1>7. N \in S
  <2>1. \A k \in 0 .. N : k \in S
    BY <1>1, <1>5, <1>6, UpTo
  <2> QED BY <1>1, <2>1
<1>8. Ok(N)
  BY <1>1, <1>7 DEF S
<1> QED BY <1>4, <1>8 DEF Ok

(* What begins the list of the peaks is matched with it. *)
LEMMA BeginningMatches ==
  ASSUME NEW H, NEW peaks \in Seq(H), NEW s \in Seq(H), NEW m, Begins(s, peaks, m)
  PROVE  MatchPeaks(s, peaks)
<1>1. /\ m \in 1 .. Len(peaks) /\ Len(s) = m /\ Len(peaks) \in Nat
      /\ \A y \in 1 .. m : s[y] = peaks[y]
      /\ \A y \in 1 .. m : y + 1 <= m => peaks[y] # peaks[y + 1]
  BY DEF Begins
<1>2. PICK r : MatchRun(r, s, peaks)
  BY <1>1, MatchPeaksRun
<1>3. /\ r[0] = [ito |-> 1, ok |-> TRUE]
      /\ \A y \in 1 .. m : r[y] = MatchRound(peaks, r[y - 1], peaks[y])
      /\ MatchPeaks(s, peaks) = r[m].ok
  BY <1>1, <1>2 DEF MatchRun
<1> DEFINE S == {y \in Nat : y = 0 \/ r[y] = [ito |-> y, ok |-> TRUE]}
<1>4. ASSUME NEW y \in 1 .. m, y - 1 \in S PROVE y \in S
  <2>1. y \in Nat /\ r[y] = MatchRound(peaks, r[y - 1], peaks[y])
    BY <1>3
  <2>2. CASE y = 1
    <3>1. r[y - 1] = [ito |-> 1, ok |-> TRUE]
      BY <1>3, <2>2
    <3>2. r[y] = [ito |-> 1, ok |-> TRUE]
      BY <2>1, <2>2, <3>1 DEF MatchRound
    <3> QED BY <2>1, <2>2, <3>2
  <2>3. CASE y # 1
    <3>1. y - 1 \in 1 .. m /\ (y - 1) + 1 = y /\ y <= m /\ y <= Len(peaks) /\ y - 1 # 0
      BY <1>1, <2>1, <2>3
    <3>2. r[y - 1] = [ito |-> y - 1, ok |-> TRUE]
      BY <1>4, <3>1
    <3>3. peaks[y - 1] # peaks[y]
      BY <1>1, <3>1
    <3>4. r[y - 1].ok /\ r[y - 1].ito = y - 1
      BY <3>2
    <3>5. MatchRound(peaks, r[y - 1], peaks[y]) = [ito |-> y, ok |-> TRUE]
      BY <3>1, <3>3, <3>4 DEF MatchRound
    <3> QED BY <2>1, <3>5
  <2> QED BY <2>2, <2>3
<1>5. 0 \in S
  OBVIOUS
<1> HIDE DEF S
<1>6. m \in S
  <2>1. m \in Nat
    BY <1>1
  <2>2. \A y \in 0 .. m : y \in S
    BY <1>4, <1>5, <2>1, UpTo
  <2> QED BY <2>1, <2>2
<1>7. r[m].ok
  BY <1>1, <1>6 DEF S
<1> QED BY <1>3, <1>7

-----------------------------------------------------------------------------
(* What extends the range that is known is accepted.                       *)

(* The nodes of a range are those of the ranges that extend it. *)
LEMMA PrefixNodes ==
  ASSUME NEW Values, NEW H, NEW na, NEW va, TreeOf(Values, H, na, va), NEW nb, NEW vb, TreeOf(Values, H, nb, vb),
         IsPrefix(va, vb)
  PROVE  \A h, k \in Nat : (k + 1) * 2^h <= Len(va) =>
           /\ (k + 1) * 2^h <= Len(vb)
           /\ na[NodePos(h, k)] = nb[NodePos(h, k)]
<1> DEFINE Same(h, k) == (k + 1) * 2^h <= Len(va) => na[NodePos(h, k)] = nb[NodePos(h, k)]
           S == {h \in Nat : \A k \in Nat : Same(h, k)}
<1>0. /\ Len(va) \in Nat /\ Len(vb) \in Nat /\ va \in Seq(Values) /\ vb \in Seq(Values)
      /\ Len(va) <= Len(vb)
  BY TreeNodes DEF TreeOf, RangeOver, IsPrefix
<1>1. \A x \in Nat : x < Len(va) => va[x + 1] = vb[x + 1]
  <2> SUFFICES ASSUME NEW x \in Nat, x < Len(va) PROVE va[x + 1] = vb[x + 1]
    OBVIOUS
  <2>1. SubSeq(va, 1, Len(va)) = SubSeq(vb, 1, Len(va))
    BY DEF IsPrefix
  <2>2. x + 1 \in 1 .. Len(va)
    BY <1>0
  <2>3. SubSeq(va, 1, Len(va))[x + 1] = va[x + 1]
    BY <1>0, <2>2
  <2>4. SubSeq(vb, 1, Len(va))[x + 1] = vb[x + 1]
    BY <1>0, <2>2
  <2> QED BY <2>1, <2>3, <2>4
<1>2. \A h, k \in Nat : (k + 1) * 2^h <= Len(va) => (k + 1) * 2^h <= Len(vb)
  <2> SUFFICES ASSUME NEW h \in Nat, NEW k \in Nat, (k + 1) * 2^h <= Len(va)
               PROVE  (k + 1) * 2^h <= Len(vb)
    OBVIOUS
  <2>1. (k + 1) * 2^h \in Nat
    BY RunEnds
  <2> QED BY <1>0, <2>1
<1>3. 0 \in S
  <2> SUFFICES ASSUME NEW k \in Nat, (k + 1) * 2^0 <= Len(va)
               PROVE  na[NodePos(0, k)] = nb[NodePos(0, k)]
    OBVIOUS
  <2>1. (k + 1) * 2^0 = k + 1
    <3>1. k + 1 \in Nat /\ \A y \in Nat : y * 2^0 = y
      BY PowZero
    <3> QED BY <3>1
  <2>2. k < Len(va) /\ k < Len(vb)
    BY <1>0, <2>1
  <2>3. na[NodePos(0, k)] = va[k + 1] /\ nb[NodePos(0, k)] = vb[k + 1]
    BY <2>2, TreeNodes DEF TreeOf
  <2> QED BY <1>1, <2>2, <2>3
<1>4. ASSUME NEW h \in Nat, NEW g \in Nat, h = g + 1, g \in S PROVE h \in S
  <2> SUFFICES ASSUME NEW k \in Nat, (k + 1) * 2^h <= Len(va)
               PROVE  na[NodePos(h, k)] = nb[NodePos(h, k)]
    OBVIOUS
  <2>1. /\ 2 * k \in Nat /\ 2 * k + 1 \in Nat /\ 2^g \in Nat /\ 2^h = 2 * 2^g
    BY <1>4, PowType, PowStep
  <2>2. na[NodePos(h, k)]
          = HashPosPair64(NodePos(h, k), na[NodePos(g, 2 * k)], na[NodePos(g, 2 * k + 1)])
    BY <1>4, TreeNodes DEF TreeOf
  <2>3. (k + 1) * 2^h <= Len(vb)
    BY <1>2
  <2>4. nb[NodePos(h, k)]
          = HashPosPair64(NodePos(h, k), nb[NodePos(g, 2 * k)], nb[NodePos(g, 2 * k + 1)])
    BY <1>4, <2>3, TreeNodes DEF TreeOf
  <2>5. /\ (2 * k + 1) * 2^g <= Len(va)
        /\ (2 * k + 1 + 1) * 2^g <= Len(va)
    <3>1. ASSUME NEW y \in Nat
          PROVE  /\ (k + 1) * (2 * y) = (2 * k + 1 + 1) * y
                 /\ (2 * k + 1) * y <= (2 * k + 1 + 1) * y
                 /\ (2 * k + 1) * y \in Nat /\ (2 * k + 1 + 1) * y \in Nat
      <4>1. /\ (2 * k + 1) * y = (2 * k) * y + y /\ (2 * k + 1 + 1) * y = (2 * k) * y + y + y
            /\ (k + 1) * (2 * y) = (2 * k) * y + y + y /\ (2 * k) * y \in Nat
        OBVIOUS
      <4> QED BY <4>1
    <3>2. /\ (k + 1) * 2^h = (2 * k + 1 + 1) * 2^g
          /\ (2 * k + 1) * 2^g <= (2 * k + 1 + 1) * 2^g
          /\ (2 * k + 1) * 2^g \in Nat /\ (2 * k + 1 + 1) * 2^g \in Nat
      BY <2>1, <3>1
    <3> QED BY <1>0, <3>2
  <2>6. /\ na[NodePos(g, 2 * k)] = nb[NodePos(g, 2 * k)]
        /\ na[NodePos(g, 2 * k + 1)] = nb[NodePos(g, 2 * k + 1)]
    BY <1>4, <2>1, <2>5
  <2> QED BY <2>2, <2>4, <2>6
<1> HIDE DEF S
<1>5. ASSUME NEW h \in Nat PROVE h \in S
  <2>1. ASSUME NEW x \in 1 .. h, x - 1 \in S PROVE x \in S
    <3>1. x \in Nat /\ x - 1 \in Nat /\ x = (x - 1) + 1
      OBVIOUS
    <3> QED BY <1>4, <2>1, <3>1
  <2>2. \A x \in 0 .. h : x \in S
    BY <1>3, <2>1, UpTo
  <2> QED BY <2>2
<1> QED BY <1>2, <1>5 DEF S

(* The x-th peak over a leaves is under the y-th over b leaves. *)
LiesUnder(q, a, x, Q, b, y) ==
  \E h, k, g, l \in Nat : PeakAt(q, a, x, h, k) /\ PeakAt(Q, b, y, g, l) /\ Under(h, k, g, l)

(* What is under one peak after the other is in their order, none left out. *)
LEMMA UnderFollows ==
  ASSUME NEW a \in Nat, a # 0, NEW q, Tiles(q, a), NEW b \in Nat, b # 0, NEW Q, Tiles(Q, b),
         NEW J \in [1 .. Len(q) -> 1 .. Len(Q)],
         \A x \in 1 .. Len(q) : LiesUnder(q, a, x, Q, b, J[x])
  PROVE  Follows(J, Len(q), Len(Q)) /\ Len(q) # 0
<1>1. q \in Seq(Nat) /\ Q \in Seq(Nat) /\ Len(q) \in Nat /\ Len(Q) \in Nat
  BY DEF Tiles
<1>2. 1 \in 1 .. Len(q) /\ Len(q) # 0
  <2>1. 0 < a
    OBVIOUS
  <2>2. \E j \in 1 .. Len(q) : TRUE
    BY <2>1 DEF Tiles
  <2> QED BY <1>1, <2>2
<1>3. J[1] = 1
  <2>1. J[1] \in 1 .. Len(Q)
    BY <1>2
  <2>2. PICK h \in Nat, k \in Nat, g \in Nat, l \in Nat :
          PeakAt(q, a, 1, h, k) /\ PeakAt(Q, b, J[1], g, l) /\ Under(h, k, g, l)
    BY <1>2 DEF LiesUnder
  <2>3. k * 2^h = 0
    BY <1>2, <2>2, FirstTile
  <2>4. l * 2^g <= 0 /\ l * 2^g \in Nat
    BY <2>2, <2>3, RunEnds DEF Under
  <2>5. l * 2^g = 0
    BY <2>4
  <2> QED BY <2>1, <2>2, <2>5, FirstTile
<1>4. ASSUME NEW x \in 1 .. Len(q), x + 1 <= Len(q)
      PROVE  J[x + 1] = J[x] \/ J[x + 1] = J[x] + 1
  <2> DEFINE y == J[x]
             z == J[x + 1]
  <2>1. x + 1 \in 1 .. Len(q) /\ y \in 1 .. Len(Q) /\ z \in 1 .. Len(Q)
    <3>1. x + 1 \in 1 .. Len(q)
      BY <1>1, <1>4
    <3> QED BY <3>1
  <2>2. PICK h \in Nat, k \in Nat, g \in Nat, l \in Nat :
          PeakAt(q, a, x, h, k) /\ PeakAt(Q, b, y, g, l) /\ Under(h, k, g, l)
    BY DEF LiesUnder
  <2>3. PICK f \in Nat, m \in Nat, c \in Nat, d \in Nat :
          PeakAt(q, a, x + 1, f, m) /\ PeakAt(Q, b, z, c, d) /\ Under(f, m, c, d)
    BY <2>1 DEF LiesUnder
  <2> HIDE DEF y, z
  <2>4. m * 2^f = (k + 1) * 2^h
    BY <2>1, <2>2, <2>3, NextTile
  <2>5. /\ l * 2^g <= k * 2^h /\ (k + 1) * 2^h <= (l + 1) * 2^g
        /\ d * 2^c <= m * 2^f /\ (m + 1) * 2^f <= (d + 1) * 2^c
    BY <2>2, <2>3 DEF Under
  <2>6. /\ k * 2^h \in Nat /\ (k + 1) * 2^h \in Nat /\ k * 2^h < (k + 1) * 2^h
        /\ l * 2^g \in Nat /\ (l + 1) * 2^g \in Nat
        /\ m * 2^f \in Nat /\ (m + 1) * 2^f \in Nat /\ m * 2^f < (m + 1) * 2^f
        /\ d * 2^c \in Nat /\ (d + 1) * 2^c \in Nat
    BY RunEnds
  <2>7. ~ (z < y)
    <3>1. z < y => (d + 1) * 2^c <= l * 2^g
      BY <2>1, <2>2, <2>3 DEF Tiles
    <3> QED BY <2>4, <2>5, <2>6, <3>1
  <2>8. ~ (y + 1 < z)
    <3> SUFFICES ASSUME y + 1 < z PROVE FALSE
      OBVIOUS
    <3>1. y + 1 \in 1 .. Len(Q)
      BY <1>1, <2>1
    <3>2. PICK r \in Nat, s \in Nat : PeakAt(Q, b, y + 1, r, s)
      BY <3>1 DEF Tiles
    <3>3. s * 2^r = (l + 1) * 2^g
      BY <2>1, <2>2, <3>1, <3>2, NextTile
    <3>4. (s + 1) * 2^r <= d * 2^c
      BY <2>1, <2>3, <3>1, <3>2 DEF Tiles
    <3>5. s * 2^r \in Nat /\ (s + 1) * 2^r \in Nat /\ s * 2^r < (s + 1) * 2^r
      BY RunEnds
    <3> QED BY <2>4, <2>5, <2>6, <3>3, <3>4, <3>5
  <2>9. z = y \/ z = y + 1
    <3>1. y \in Nat /\ z \in Nat
      BY <2>1
    <3> QED BY <2>7, <2>8, <3>1
  <2> QED BY <2>9 DEF y, z
<1> QED BY <1>2, <1>3, <1>4 DEF Follows

(* A peak that is a leaf is the last. *)
LEMMA LeafPeakIsLast ==
  ASSUME NEW n \in Nat, NEW q, Tiles(q, n), NEW j \in 1 .. Len(q), j + 1 \in 1 .. Len(q),
         NEW h \in Nat, NEW k \in Nat, PeakAt(q, n, j, h, k)
  PROVE  h # 0
<1>1. PICK g \in Nat, l \in Nat : PeakAt(q, n, j + 1, g, l)
  BY DEF Tiles
<1>2. l * 2^g = (k + 1) * 2^h
  BY <1>1, NextTile
<1>3. n < (k + 2) * 2^h /\ (l + 1) * 2^g <= n
  BY <1>1 DEF PeakAt, PeakOver
<1>4. h = 0 => (k + 1) * 2^h = k + 1 /\ (k + 2) * 2^h = k + 2
  <2>1. \A y \in Nat : y * 2^0 = y
    BY PowZero
  <2>2. k + 1 \in Nat /\ k + 2 \in Nat
    OBVIOUS
  <2> QED BY <2>1, <2>2
<1>5. l * 2^g \in Nat /\ (l + 1) * 2^g \in Nat /\ l * 2^g < (l + 1) * 2^g
  BY RunEnds
<1> QED BY <1>2, <1>3, <1>4, <1>5

(* Two neighbours that are not the last have different hashes. *)
LEMMA NeighboursDiffer ==
  ASSUME NEW Values, NEW n \in Nat, NEW q, Tiles(q, n), NEW ph,
         \A j \in 1 .. Len(q) : \E h, k \in Nat : PeakAt(q, n, j, h, k) /\ Stamped(Values, ph[j], h, k)
  PROVE  \A j \in 1 .. Len(q) : j + 1 < Len(q) => ph[j] # ph[j + 1]
<1> SUFFICES ASSUME NEW j \in 1 .. Len(q), j + 1 < Len(q), ph[j] = ph[j + 1] PROVE FALSE
  OBVIOUS
<1>1. q \in Seq(Nat) /\ Len(q) \in Nat
  BY DEF Tiles
<1>2. j + 1 \in 1 .. Len(q) /\ (j + 1) + 1 \in 1 .. Len(q)
  BY <1>1
<1>3. PICK h \in Nat, k \in Nat : PeakAt(q, n, j, h, k) /\ Stamped(Values, ph[j], h, k)
  OBVIOUS
<1>4. PICK g \in Nat, l \in Nat : PeakAt(q, n, j + 1, g, l) /\ Stamped(Values, ph[j + 1], g, l)
  BY <1>2
<1>5. h # 0
  BY <1>2, <1>3, LeafPeakIsLast
<1>6. g # 0
  BY <1>2, <1>4, LeafPeakIsLast
<1>7. NodePos(h, k) = NodePos(g, l)
  BY <1>3, <1>4, <1>5, <1>6 DEF Stamped, HashPosPair64
<1>8. h = g /\ k = l
  BY <1>7, NodePosUnique
<1>9. l * 2^g = (k + 1) * 2^h
  BY <1>2, <1>3, <1>4, NextTile
<1>10. k * 2^h \in Nat /\ (k + 1) * 2^h \in Nat /\ k * 2^h < (k + 1) * 2^h
  BY RunEnds
<1> QED BY <1>8, <1>9, <1>10

(* The proof of the x-th peak of na leads, in nb, to the peak above it. *)
LeadsAbove(na, va, nb, vb, x) ==
  /\ Provable(StoreOf(nb), Len(nb) - 1, Peaks(Len(na) - 1)[x])
  /\ \E y \in 1 .. Len(Peaks(Len(nb) - 1)) :
       /\ LiesUnder(Peaks(Len(na) - 1), Len(va), x, Peaks(Len(nb) - 1), Len(vb), y)
       /\ PeakHashes(StoreOf(nb), Len(nb) - 1)[y]
            = RootOf(Len(na) - 1, PeakHashes(StoreOf(na), Len(na) - 1),
                     IndexConsistencyProof(StoreOf(nb), Len(na) - 1, Len(nb) - 1), x)

(* The proof that a store has for a peak of an earlier range leads to the  *)
(* peak that is above it.                                                  *)
LEMMA RootOfExtension ==
  ASSUME NEW Values, NEW H, PairsOf(H) \subseteq H,
         NEW na, NEW va, TreeOf(Values, H, na, va), Len(va) # 0,
         NEW nb, NEW vb, TreeOf(Values, H, nb, vb), Len(vb) # 0, IsPrefix(va, vb),
         NEW x \in 1 .. Len(Peaks(Len(na) - 1))
  PROVE  LeadsAbove(na, va, nb, vb, x)
<1> DEFINE A == Len(na) - 1
           B == Len(nb) - 1
           q == Peaks(A)
           Q == Peaks(B)
           acc == PeakHashes(StoreOf(na), A)
           to == PeakHashes(StoreOf(nb), B)
           proofs == IndexConsistencyProof(StoreOf(nb), A, B)
           root == RootOf(A, acc, proofs, x)
           b == Len(vb)
<1>1. PeakList(Values, H, na, va, q, acc) /\ PeakList(Values, H, nb, vb, Q, to)
  BY PeakHashesOf
<1>2. Tiles(Q, b) /\ b \in Nat /\ Len(va) \in Nat
  <2>1. Len(nb) = MMRIndex(b) /\ b \in Nat /\ Len(va) \in Nat
    BY DEF TreeOf, RangeOver
  <2> HIDE DEF b
  <2>2. b # 0
    BY DEF b
  <2> QED BY <2>1, <2>2, PeaksTile
<1>3. proofs[x] = InclusionProof(StoreOf(nb), B, q[x])
  <2>1. q \in Seq(Nat)
    BY <1>1 DEF PeakList
  <2>2. x \in DOMAIN q
    BY <2>1
  <2> QED BY <2>2 DEF IndexConsistencyProof
<1> HIDE DEF acc, to, proofs, q, Q, b
<1>4. PICK h \in Nat, k \in Nat :
         /\ IsPeak(q[x], Len(va), h, k) /\ (k + 1) * 2^h <= Len(va)
         /\ acc[x] = na[NodePos(h, k)] /\ na[NodePos(h, k)] \in H
         /\ Stamped(Values, na[NodePos(h, k)], h, k)
  <2>1. x \in 1 .. Len(q)
    BY DEF q
  <2> QED BY <1>1, <2>1 DEF PeakList
<1>5. (k + 1) * 2^h <= b /\ na[NodePos(h, k)] = nb[NodePos(h, k)]
  BY <1>4, PrefixNodes DEF b
<1>6. q[x] = NodePos(h, k) - 1 /\ PeakAt(q, Len(va), x, h, k)
  BY <1>4 DEF IsPeak, PeakAt
<1>7. /\ Provable(StoreOf(nb), B, q[x])
      /\ ProofClimbs(proofs[x], H, nb, b, h, k)
  BY <1>3, <1>5, <1>6, InclusionProofClimbs DEF b
<1>8. PICK p, K : /\ proofs[x] \in Seq(H)
                  /\ ClimbsFrom(p, K, b, h, k) /\ Len(proofs[x]) = Len(p)
                  /\ \A y \in 1 .. Len(p) : proofs[x][y] = nb[p[y] + 1]
  BY <1>7 DEF ProofClimbs
<1>9. root = IncludedRoot(NodePos(h, k) - 1, na[NodePos(h, k)], proofs[x])
  BY <1>4, <1>6 DEF RootOf, q
<1>10. PICK g \in Nat, l \in Nat : PeakOver(b, g, l) /\ Shows(Values, nb, root, g, l, na[NodePos(h, k)], h, k)
  <2>1. \E g, l \in Nat : /\ PeakOver(Len(vb), g, l)
                          /\ Shows(Values, nb, IncludedRoot(NodePos(h, k) - 1, na[NodePos(h, k)], proofs[x]),
                                   g, l, na[NodePos(h, k)], h, k)
    BY <1>4, <1>8, ClimbRoot DEF b
  <2> QED BY <1>9, <2>1 DEF b
<1> HIDE DEF root
<1>11. root = nb[NodePos(g, l)] /\ Under(h, k, g, l)
  BY <1>5, <1>10 DEF Shows, Leads
<1>12. PICK y \in 1 .. Len(Q), c \in Nat, d \in Nat : PeakAt(Q, b, y, c, d) /\ InRun(l * 2^g, c, d)
  <2>1. l * 2^g \in Nat /\ l * 2^g < b
    <3>1. l * 2^g \in Nat /\ (l + 1) * 2^g \in Nat /\ l * 2^g < (l + 1) * 2^g
      BY RunEnds
    <3>2. (l + 1) * 2^g <= b
      BY <1>10 DEF PeakOver
    <3> QED BY <1>2, <3>1, <3>2
  <2> QED BY <1>2, <2>1 DEF Tiles
<1>13. c = g /\ d = l
  <2>1. l * 2^g \in Nat /\ InRun(l * 2^g, g, l)
    BY RunEnds
  <2>2. PeakOver(b, c, d)
    BY <1>12 DEF PeakAt
  <2> QED BY <1>2, <1>10, <1>12, <2>1, <2>2, OnePeak
<1>14. LiesUnder(q, Len(va), x, Q, b, y)
  BY <1>6, <1>11, <1>12, <1>13 DEF LiesUnder
<1>15. to[y] = root
  <2>1. PICK f \in Nat, i \in Nat : IsPeak(Q[y], b, f, i) /\ to[y] = nb[NodePos(f, i)]
    <3>1. PeakList(Values, H, nb, vb, Q, to)
      BY <1>1
    <3>2. \A z \in 1 .. Len(Q) : \E f, i \in Nat : /\ IsPeak(Q[z], Len(vb), f, i)
                                                /\ to[z] = nb[NodePos(f, i)]
      BY <3>1, Zenon DEF PeakList
    <3> QED BY <3>2 DEF b
  <2>2. NodePos(f, i) = NodePos(g, l)
    <3>1. NodePos(f, i) \in Nat /\ NodePos(g, l) \in Nat
      BY NodePosBounds
    <3> QED BY <1>12, <1>13, <2>1, <3>1 DEF IsPeak, PeakAt
  <2> QED BY <1>11, <2>1, <2>2
<1> QED BY <1>7, <1>14, <1>15 DEF LeadsAbove, b, q, Q, to, root, acc, proofs

(* A range that extends the one that is known is accepted. *)
LEMMA ExtendsAccepted ==
  ASSUME NEW Values, NEW H, PairsOf(H) \subseteq H,
         NEW na, NEW va, TreeOf(Values, H, na, va), Len(va) # 0,
         NEW nb, NEW vb, TreeOf(Values, H, nb, vb), Len(vb) # 0, IsPrefix(va, vb)
  PROVE  Accepts(na, nb)
<1> DEFINE A == Len(na) - 1
           B == Len(nb) - 1
           q == Peaks(A)
           Q == Peaks(B)
           acc == PeakHashes(StoreOf(na), A)
           to == PeakHashes(StoreOf(nb), B)
           proofs == IndexConsistencyProof(StoreOf(nb), A, B)
           a == Len(va)
           b == Len(vb)
<1>1. PeakList(Values, H, na, va, q, acc) /\ PeakList(Values, H, nb, vb, Q, to)
  BY PeakHashesOf
<1>2. /\ Tiles(q, a) /\ a \in Nat /\ a # 0 /\ Tiles(Q, b) /\ b \in Nat /\ b # 0
      /\ Len(nb) = MMRIndex(b) /\ MMRIndex(b) \in Nat
  <2>1. /\ Len(na) = MMRIndex(a) /\ a \in Nat /\ a # 0
        /\ Len(nb) = MMRIndex(b) /\ b \in Nat /\ b # 0
    BY DEF TreeOf, RangeOver
  <2> HIDE DEF a, b
  <2> QED BY <2>1, PeaksTile, MMRIndexBounds
<1>3. \A x \in 1 .. Len(q) :
        /\ Provable(StoreOf(nb), B, q[x])
        /\ \E y \in 1 .. Len(Q) : LiesUnder(q, a, x, Q, b, y) /\ to[y] = RootOf(A, acc, proofs, x)
  <2>1. ASSUME NEW x \in 1 .. Len(q)
        PROVE  LeadsAbove(na, va, nb, vb, x)
    <3> HIDE DEF A, B, q, Q, acc, to, proofs, a, b
    <3>1. x \in 1 .. Len(Peaks(Len(na) - 1))
      BY <2>1 DEF q, A
    <3> QED BY <3>1, RootOfExtension
  <2> QED BY <2>1 DEF LeadsAbove
<1>4. /\ q \in Seq(Nat) /\ acc \in Seq(H) /\ Len(acc) = Len(q) /\ Len(q) \in Nat
      /\ Q \in Seq(Nat) /\ to \in Seq(H) /\ Len(to) = Len(Q) /\ Len(Q) \in Nat
  <2> HIDE DEF q, acc, Q, to
  <2>1. q \in Seq(Nat) /\ acc \in Seq(H) /\ Len(acc) = Len(q)
        /\ Q \in Seq(Nat) /\ to \in Seq(H) /\ Len(to) = Len(Q)
    BY <1>1 DEF PeakList
  <2> QED BY <2>1
<1>5. Len(proofs) = Len(q)
  <2>1. proofs = [k \in DOMAIN q |-> InclusionProof(StoreOf(nb), B, q[k])]
    BY DEF IndexConsistencyProof
  <2>2. DOMAIN q = 1 .. Len(q)
    BY <1>4
  <2> HIDE DEF proofs, q
  <2> QED BY <1>4, <2>1, <2>2
<1> DEFINE Root(x) == RootOf(A, acc, proofs, x)
           J == [x \in 1 .. Len(q) |->
                   CHOOSE y \in 1 .. Len(Q) : LiesUnder(q, a, x, Q, b, y) /\ to[y] = Root(x)]
<1> HIDE DEF q, Q, acc, to, proofs, a, b, B
<1>6. \A x \in 1 .. Len(q) : /\ J[x] \in 1 .. Len(Q)
                             /\ LiesUnder(q, a, x, Q, b, J[x])
                             /\ to[J[x]] = Root(x)
  <2> HIDE DEF Root
  <2> QED BY <1>3 DEF Root
<1>7. J \in [1 .. Len(q) -> 1 .. Len(Q)]
  <2>1. J = [x \in 1 .. Len(q) |-> J[x]]
    OBVIOUS
  <2> HIDE DEF J
  <2> QED BY <1>6, <2>1
<1> HIDE DEF J
<1>8. Follows(J, Len(q), Len(Q)) /\ Len(q) # 0
  BY <1>2, <1>6, <1>7, UnderFollows
<1>9. \A y \in 1 .. Len(Q) : y + 1 < Len(Q) => to[y] # to[y + 1]
  <2>1. ASSUME NEW y \in 1 .. Len(Q)
        PROVE  \E h, k \in Nat : PeakAt(Q, b, y, h, k) /\ Stamped(Values, to[y], h, k)
    <3>1. PICK h \in Nat, k \in Nat :
            IsPeak(Q[y], b, h, k) /\ to[y] = nb[NodePos(h, k)] /\ Stamped(Values, nb[NodePos(h, k)], h, k)
      BY <1>1 DEF PeakList, b
    <3> QED BY <3>1 DEF IsPeak, PeakAt
  <2> QED BY <1>2, <2>1, NeighboursDiffer
<1>10. Follows(J, Len(acc), Len(to)) /\ Len(acc) # 0
  BY <1>4, <1>8
<1>11. \A x \in 1 .. Len(acc) : RootOf(A, acc, proofs, x) = to[J[x]]
  BY <1>4, <1>6
<1>12. \A y \in 1 .. Len(to) : y + 1 < Len(to) => to[y] # to[y + 1]
  BY <1>4, <1>9
<1>13. ConsistentRoots(A, acc, proofs) \in Seq(H)
  <2>1. \A x \in 1 .. Len(acc) : RootOf(A, acc, proofs, x) \in H
    <3> SUFFICES ASSUME NEW x \in 1 .. Len(acc) PROVE RootOf(A, acc, proofs, x) \in H
      OBVIOUS
    <3>1. J[x] \in 1 .. Len(to)
      BY <1>4, <1>6
    <3>2. to[J[x]] \in H
      BY <1>4, <3>1
    <3> QED BY <1>11, <3>2
  <2> HIDE DEF A
  <2> QED BY <1>4, <2>1, EveryRootIsListed
<1>14. PICK m : Begins(ConsistentRoots(A, acc, proofs), to, m)
  <2> HIDE DEF A
  <2> QED BY <1>4, <1>10, <1>11, <1>12, RootsBegin
<1>15. MatchPeaks(ConsistentRoots(A, acc, proofs), to)
  BY <1>4, <1>13, <1>14, BeginningMatches
<1>16. \A x \in DOMAIN Q : Q[x] \in DOMAIN StoreOf(nb)
  <2> SUFFICES ASSUME NEW x \in DOMAIN Q PROVE Q[x] \in DOMAIN StoreOf(nb)
    OBVIOUS
  <2>1. x \in 1 .. Len(Q)
    BY <1>4
  <2>2. PICK h \in Nat, k \in Nat : IsPeak(Q[x], b, h, k) /\ (k + 1) * 2^h <= b
    BY <1>1, <2>1 DEF PeakList, b
  <2>3. NodePos(h, k) <= Len(nb) /\ NodePos(h, k) \in Nat /\ NodePos(h, k) > 0
    BY <1>2, <2>2, NodeInRange, NodePosBounds
  <2>4. Q[x] \in 0 .. Len(nb) - 1
    BY <1>2, <2>2, <2>3 DEF IsPeak
  <2> QED BY <2>4 DEF StoreOf
<1>17. \A x \in DOMAIN q : Provable(StoreOf(nb), B, q[x])
  BY <1>3, <1>4
<1>18. CheckConsistency(StoreOf(nb), Len(na), Len(nb), acc)
  BY <1>5, <1>15, <1>16, <1>17
     DEF CheckConsistency, ConsistencyProvable, VerifyConsistency, proofs, q, Q, to, A, B
<1> QED BY <1>18 DEF Accepts, acc, A

-----------------------------------------------------------------------------
(* A climb that is broken off is a climb. *)
LEMMA ClimbPrefix ==
  ASSUME NEW n \in Nat, NEW h \in Nat, NEW k \in Nat, NEW p, NEW K, Climbing(p, K, n, h, k),
         NEW m \in 0 .. Len(p)
  PROVE  /\ Len(SubSeq(p, 1, m)) = m
         /\ \A x \in 1 .. m : SubSeq(p, 1, m)[x] = p[x]
         /\ Climbing(SubSeq(p, 1, m), [x \in 0 .. m |-> K[x]], n, h, k)
<1> DEFINE q == SubSeq(p, 1, m)
           L == [x \in 0 .. m |-> K[x]]
<1>1. p \in Seq(Nat) /\ K \in [0 .. Len(p) -> Nat] /\ K[0] = k /\ Len(p) \in Nat
      /\ m \in Nat /\ m <= Len(p)
  <2>1. p \in Seq(Nat) /\ K \in [0 .. Len(p) -> Nat] /\ K[0] = k
    BY DEF Climbing
  <2> QED BY <2>1
<1>2. q \in Seq(Nat) /\ Len(q) = m /\ \A x \in 1 .. m : q[x] = p[x]
  BY <1>1
<1>3. L \in [0 .. m -> Nat] /\ \A x \in 0 .. m : L[x] = K[x]
  <2>1. \A x \in 0 .. m : x \in 0 .. Len(p) /\ K[x] \in Nat
    BY <1>1
  <2> QED BY <2>1
<1>4. L[0] = k
  <2>1. 0 \in 0 .. m
    BY <1>1
  <2> QED BY <1>1, <1>3, <2>1
<1> HIDE DEF q, L
<1>5. ASSUME NEW x \in 1 .. Len(q)
      PROVE  /\ (L[x] + 1) * 2^(h + x) <= n
             /\ \/ L[x - 1] = 2 * L[x] /\ q[x] = NodePos(h + x - 1, 2 * L[x] + 1) - 1
                \/ L[x - 1] = 2 * L[x] + 1 /\ q[x] = NodePos(h + x - 1, 2 * L[x]) - 1
  <2>1. x \in 1 .. Len(p) /\ x \in 1 .. m /\ x \in 0 .. m /\ x - 1 \in 0 .. m
    BY <1>1, <1>2
  <2>2. L[x] = K[x] /\ L[x - 1] = K[x - 1] /\ q[x] = p[x]
    BY <1>2, <1>3, <2>1
  <2>3. /\ (K[x] + 1) * 2^(h + x) <= n
        /\ \/ K[x - 1] = 2 * K[x] /\ p[x] = NodePos(h + x - 1, 2 * K[x] + 1) - 1
           \/ K[x - 1] = 2 * K[x] + 1 /\ p[x] = NodePos(h + x - 1, 2 * K[x]) - 1
    BY <2>1 DEF Climbing
  <2> QED BY <2>2, <2>3
<1>6. Climbing(q, L, n, h, k)
  BY <1>2, <1>3, <1>4, <1>5 DEF Climbing
<1> QED BY <1>2, <1>6 DEF q, L

(* Where the first m hashes of a proof lead *)
LEMMA PrefixRoot ==
  ASSUME NEW Values, NEW H, PairsOf(H) \subseteq H, NEW ns, NEW vs, TreeOf(Values, H, ns, vs),
         NEW h \in Nat, NEW k \in Nat, NEW v \in H,
         NEW p, NEW K, Climbing(p, K, Len(vs), h, k),
         NEW proof, Siblings(proof, H, ns, p), NEW m \in 0 .. Len(p)
  PROVE  ClimbsTo(Values, ns, IncludedRoot(NodePos(h, k) - 1, v, SubSeq(proof, 1, m)),
                  h + m, K[m], v, h, k, m)
<1> DEFINE q == SubSeq(p, 1, m)
           L == [x \in 0 .. m |-> K[x]]
           s == SubSeq(proof, 1, m)
<1>1. Len(vs) \in Nat
  BY TreeNodes DEF TreeOf
<1>2. Len(q) = m /\ (\A x \in 1 .. m : q[x] = p[x]) /\ Climbing(q, L, Len(vs), h, k)
  BY <1>1, ClimbPrefix
<1>3. m \in Nat /\ m <= Len(p) /\ Len(p) \in Nat
  <2>1. p \in Seq(Nat)
    BY DEF Climbing
  <2> QED BY <2>1
<1>4. s \in Seq(H) /\ Len(s) = m /\ \A x \in 1 .. m : s[x] = proof[x]
  <2>1. proof \in Seq(H) /\ Len(proof) = Len(p)
    BY DEF Siblings
  <2> QED BY <1>3, <2>1
<1>5. L[m] = K[m]
  <2>1. m \in 0 .. m
    BY <1>3
  <2> QED BY <2>1
<1> HIDE DEF q, L, s
<1>6. \A x \in 1 .. Len(q) : s[x] = ns[q[x] + 1]
  <2> SUFFICES ASSUME NEW x \in 1 .. Len(q) PROVE s[x] = ns[q[x] + 1]
    OBVIOUS
  <2>1. x \in 1 .. m /\ x \in 1 .. Len(p)
    BY <1>2, <1>3
  <2>2. proof[x] = ns[p[x] + 1]
    BY <2>1 DEF Siblings
  <2> QED BY <1>2, <1>4, <2>1, <2>2
<1>7. ClimbsTo(Values, ns, IncludedRoot(NodePos(h, k) - 1, v, s), h + Len(q), L[Len(q)], v, h, k, Len(q))
  <2>1. Len(s) = Len(q)
    BY <1>2, <1>4
  <2> QED BY <1>2, <1>4, <1>6, <2>1, ClimbEnds
<1> QED BY <1>2, <1>5, <1>7 DEF s

(* The value of the peak that a climb ends at *)
PeakValue(ns, p, K, h) == ns[NodePos(h + Len(p), K[Len(p)])]

(* The first m hashes of a proof lead to the peak if they are all, and the *)
(* value they begin with is that of the node.                              *)
OnlyWhole(ns, v, h, k, p, K, proof, m) ==
  LET root == IncludedRoot(NodePos(h, k) - 1, v, SubSeq(proof, 1, m))
  IN /\ m = Len(p) => (root = PeakValue(ns, p, K, h) <=> v = ns[NodePos(h, k)])
     /\ m # 0 /\ m # Len(p) => root # PeakValue(ns, p, K, h)

(* That is so for every proof that has the range's hashes. *)
LEMMA ReachesPeak ==
  ASSUME NEW Values, NEW H, PairsOf(H) \subseteq H, NEW ns, NEW vs, TreeOf(Values, H, ns, vs),
         NEW h \in Nat, NEW k \in Nat, NEW v \in H,
         NEW p, NEW K, ClimbsFrom(p, K, Len(vs), h, k),
         NEW proof, Siblings(proof, H, ns, p), NEW m \in 0 .. Len(p)
  PROVE  OnlyWhole(ns, v, h, k, p, K, proof, m)
<1> DEFINE R == IncludedRoot(NodePos(h, k) - 1, v, SubSeq(proof, 1, m))
           N == Len(p)
<1>1. Climbing(p, K, Len(vs), h, k) /\ PeakOver(Len(vs), h + N, K[N])
  BY DEF ClimbsFrom
<1>2. ClimbsTo(Values, ns, R, h + m, K[m], v, h, k, m)
  BY <1>1, PrefixRoot
<1>3. N \in Nat /\ m \in Nat /\ m <= N /\ K[m] \in Nat /\ K[N] \in Nat
      /\ h + m \in Nat /\ h + N \in Nat
  <2>1. p \in Seq(Nat) /\ K \in [0 .. Len(p) -> Nat]
    BY <1>1 DEF Climbing
  <2>2. N \in Nat
    BY <2>1
  <2>3. N \in 0 .. N /\ m \in Nat /\ m <= N
    BY <2>2
  <2> QED BY <2>1, <2>2, <2>3
<1>4. m = N => (R = PeakValue(ns, p, K, h) <=> v = ns[NodePos(h, k)])
  <2> HIDE DEF R
  <2> QED BY <1>2 DEF ClimbsTo, Leads, PeakValue
<1>5. ASSUME m # 0, m # N, R = PeakValue(ns, p, K, h) PROVE FALSE
  <2> HIDE DEF R
  <2>1. Stamped(Values, R, h + m, K[m])
    BY <1>2, <1>5 DEF ClimbsTo
  <2>2. Stamped(Values, R, h + N, K[N])
    <3>1. (K[N] + 1) * 2^(h + N) <= Len(vs)
      BY <1>1 DEF PeakOver
    <3>2. Stamped(Values, ns[NodePos(h + N, K[N])], h + N, K[N])
      BY <1>3, <3>1, NodeStamped
    <3> QED BY <1>5, <3>2 DEF PeakValue
  <2>3. h + m # 0 /\ h + N # 0 /\ h + m # h + N
    BY <1>3, <1>5
  <2>4. NodePos(h + m, K[m]) = NodePos(h + N, K[N])
    <3>1. \E a, b : R = HashPosPair64(NodePos(h + m, K[m]), a, b)
      BY <2>1, <2>3 DEF Stamped
    <3>2. \E a, b : R = HashPosPair64(NodePos(h + N, K[N]), a, b)
      BY <2>2, <2>3 DEF Stamped
    <3> HIDE DEF N
    <3> QED BY <3>1, <3>2 DEF HashPosPair64
  <2>5. h + m = h + N
    <3> HIDE DEF N
    <3> QED BY <1>3, <2>4, NodePosUnique
  <2> QED BY <2>3, <2>5
<1> QED BY <1>4, <1>5 DEF R, N, OnlyWhole

(* Whole, a proof leads to the peak if it begins with the node's value. *)
LeadsToPeak(ns, v, h, k, p, K, proof) ==
  IncludedRoot(NodePos(h, k) - 1, v, proof) = PeakValue(ns, p, K, h) <=> v = ns[NodePos(h, k)]

(* That is so for every proof that has the range's hashes. *)
LEMMA WholeProof ==
  ASSUME NEW Values, NEW H, PairsOf(H) \subseteq H, NEW ns, NEW vs, TreeOf(Values, H, ns, vs),
         NEW h \in Nat, NEW k \in Nat, NEW v \in H,
         NEW p, NEW K, ClimbsFrom(p, K, Len(vs), h, k), NEW proof, Siblings(proof, H, ns, p)
  PROVE  LeadsToPeak(ns, v, h, k, p, K, proof)
<1>1. p \in Seq(Nat)
  BY DEF ClimbsFrom, Climbing
<1>2. PICK m \in 0 .. Len(p) : m = Len(p)
  <2>1. Len(p) \in 0 .. Len(p)
    BY <1>1
  <2> QED BY <2>1
<1>3. m = Len(p) =>
        (IncludedRoot(NodePos(h, k) - 1, v, SubSeq(proof, 1, m)) = PeakValue(ns, p, K, h)
           <=> v = ns[NodePos(h, k)])
  <2>1. OnlyWhole(ns, v, h, k, p, K, proof, m)
    BY ReachesPeak
  <2> QED BY <2>1 DEF OnlyWhole
<1>4. SubSeq(proof, 1, Len(p)) = proof
  BY DEF Siblings
<1> QED BY <1>2, <1>3, <1>4 DEF LeadsToPeak

(* VerifyInclusionPath takes all of the proof to show the node's value,    *)
(* and shows no other.                                                     *)
LEMMA InclusionPathShows ==
  ASSUME NEW Values, NEW H, PairsOf(H) \subseteq H, NEW ns, NEW vs, TreeOf(Values, H, ns, vs),
         NEW h \in Nat, NEW k \in Nat, NEW v \in H,
         NEW p, NEW K, ClimbsFrom(p, K, Len(vs), h, k),
         NEW proof, Siblings(proof, H, ns, p)
  PROVE  IF v = ns[NodePos(h, k)]
         THEN VerifyInclusionPath(v, NodePos(h, k) - 1, proof, PeakValue(ns, p, K, h))
                = <<TRUE, Len(proof)>>
         ELSE ~ VerifyInclusionPath(v, NodePos(h, k) - 1, proof, PeakValue(ns, p, K, h))[1]
<1> DEFINE i == NodePos(h, k) - 1
           root == PeakValue(ns, p, K, h)
           R(m) == IncludedRoot(i, v, SubSeq(proof, 1, m))
           N == Len(proof)
           reached == {m \in DOMAIN proof : R(m) = root}
           shown == VerifyInclusionPath(v, i, proof, root)
           same == v = ns[NodePos(h, k)]
<1>1. proof \in Seq(H) /\ N = Len(p) /\ N \in Nat /\ DOMAIN proof = 1 .. N
  <2>1. proof \in Seq(H) /\ N = Len(p)
    BY DEF Siblings
  <2> QED BY <2>1
<1>2. \A m \in 0 .. N : /\ m = N => (R(m) = root <=> same)
                        /\ m # 0 /\ m # N => R(m) # root
  <2> SUFFICES ASSUME NEW m \in 0 .. N
               PROVE  /\ m = N => (R(m) = root <=> same)
                      /\ m # 0 /\ m # N => R(m) # root
    OBVIOUS
  <2>1. m \in 0 .. Len(p)
    BY <1>1
  <2>2. /\ m = Len(p) => (R(m) = root <=> same)
        /\ m # 0 /\ m # Len(p) => R(m) # root
    <3>1. OnlyWhole(ns, v, h, k, p, K, proof, m)
      BY <2>1, ReachesPeak
    <3> QED BY <3>1 DEF OnlyWhole
  <2> HIDE DEF R, root, same, N
  <2> QED BY <1>1, <2>2
<1>3. shown = IF N = 0 /\ v = root THEN <<TRUE, 0>>
              ELSE IF reached = {} THEN <<FALSE, N>>
              ELSE <<TRUE, CHOOSE m \in reached : \A j \in reached : m <= j>>
  BY DEF VerifyInclusionPath
<1>4. N = 0 => root = ns[NodePos(h, k)]
  <2>1. K[0] = k /\ h + 0 = h
    BY DEF ClimbsFrom, Climbing
  <2> SUFFICES ASSUME N = 0 PROVE root = ns[NodePos(h, k)]
    OBVIOUS
  <2>2. Len(p) = 0
    BY <1>1
  <2>3. K[Len(p)] = k /\ h + Len(p) = h
    BY <2>1, <2>2
  <2> QED BY <2>3 DEF PeakValue
<1>5. \A a, b : <<a, b>>[1] = a
  OBVIOUS
<1> HIDE DEF R, root, shown, reached, N
<1>6. CASE N = 0
  <2>1. reached = {}
    BY <1>1, <1>6 DEF reached
  <2>2. same => shown = <<TRUE, N>>
    BY <1>3, <1>4, <1>6
  <2>3. ~ same => shown = <<FALSE, N>>
    BY <1>3, <1>4, <1>6, <2>1
  <2> HIDE DEF same
  <2>4. ~ same => ~ shown[1]
    BY <1>5, <2>3
  <2> QED BY <2>2, <2>4 DEF N, i, root, shown, same
<1>7. CASE N # 0
  <2>1. N \in 1 .. N /\ N \in 0 .. N /\ \A m \in 1 .. N : m \in 0 .. N /\ m # 0
    BY <1>1, <1>7
  <2>2. reached = IF same THEN {N} ELSE {}
    <3>1. \A m \in 1 .. N : R(m) = root <=> m = N /\ same
      <4> HIDE DEF same
      <4> QED BY <1>2, <2>1
    <3>2. reached = {m \in 1 .. N : R(m) = root}
      BY <1>1 DEF reached
    <3> HIDE DEF same
    <3> QED BY <2>1, <3>1, <3>2
  <2>3. (CHOOSE m \in {N} : \A j \in {N} : m <= j) = N
    <3>1. N <= N
      BY <1>1
    <3> QED BY <3>1
  <2> HIDE DEF same
  <2>4. same => shown = <<TRUE, N>>
    <3>1. {N} # {}
      OBVIOUS
    <3> QED BY <1>3, <1>7, <2>2, <2>3, <3>1
  <2>5. ~ same => shown = <<FALSE, N>>
    BY <1>3, <1>7, <2>2
  <2>6. ~ same => ~ shown[1]
    BY <1>5, <2>5
  <2> QED BY <2>4, <2>6 DEF N, i, root, shown, same
<1> QED BY <1>6, <1>7

(* PeakIndex finds the peak that a climb ends at. *)
LEMMA PeakOfProof ==
  ASSUME NEW Values, NEW H, NEW ns, NEW vs, TreeOf(Values, H, ns, vs), Len(vs) # 0,
         NEW h \in Nat, NEW k \in Nat, NEW p, NEW K, ClimbsFrom(p, K, Len(vs), h, k)
  PROVE  LET x  == PeakIndex(PeaksBitmap(Len(ns)), h + Len(p))
             ph == PeakHashes(StoreOf(ns), Len(ns) - 1)
         IN x \in Nat /\ x < Len(ph) /\ ph[x + 1] = PeakValue(ns, p, K, h)
<1> DEFINE n == Len(vs)
           g == h + Len(p)
           l == K[Len(p)]
           q == Peaks(Len(ns) - 1)
           ph == PeakHashes(StoreOf(ns), Len(ns) - 1)
           x == PeakIndex(PeaksBitmap(Len(ns)), g)
<1>1. n \in Nat /\ n # 0 /\ Len(ns) = MMRIndex(n)
  BY DEF TreeOf, RangeOver
<1>2. g \in Nat /\ l \in Nat /\ PeakOver(n, g, l)
  <2>1. p \in Seq(Nat) /\ K \in [0 .. Len(p) -> Nat] /\ PeakOver(n, g, l)
    BY DEF ClimbsFrom, Climbing
  <2>2. Len(p) \in Nat /\ Len(p) \in 0 .. Len(p)
    BY <2>1
  <2> QED BY <2>1, <2>2
<1> HIDE DEF n, g, l
<1>3. PeaksBitmap(Len(ns)) = n
  <2>1. n + 1 \in Nat /\ n <= n + 1 /\ (n + 1) - n = 1 /\ MMRIndex(n) \in Nat
    BY <1>1, MMRIndexBounds
  <2>2. MMRIndex(n) + ((n + 1) - n) <= MMRIndex(n + 1) /\ MMRIndex(n + 1) \in Nat
    BY <1>1, <2>1, MMRIndexMono, MMRIndexBounds
  <2>3. MMRIndex(n) <= MMRIndex(n) /\ MMRIndex(n) < MMRIndex(n + 1)
    BY <2>1, <2>2
  <2>4. PeaksBitmap(MMRIndex(n)) = n
    BY <1>1, <2>1, <2>3, PeaksBitmapIs
  <2> QED BY <1>1, <2>4
<1>4. Tiles(q, n)
  BY <1>1, PeaksTile
<1>5. PeakList(Values, H, ns, vs, q, ph)
  BY PeakHashesOf
<1> HIDE DEF q, ph
<1>6. PICK y \in 1 .. Len(q) : PeakAt(q, n, y, g, l)
  <2>1. g \in Bits(n)
    BY <1>2 DEF Bits
  <2>2. PICK y \in 1 .. Len(q), m \in Nat : PeakAt(q, n, y, g, m)
    BY <1>1, <1>4, <2>1, PeakOfBit
  <2>3. m = l
    <3>1. PeakOver(n, g, m)
      BY <2>2 DEF PeakAt
    <3> QED BY <1>1, <1>2, <3>1, SamePeak
  <2> QED BY <2>2, <2>3
<1>7. x = y - 1
  BY <1>1, <1>2, <1>3, <1>4, <1>6, PeakIndexIs
<1> HIDE DEF x
<1>8. x \in Nat /\ x + 1 = y /\ x < Len(ph)
  <2>1. Len(ph) = Len(q) /\ q \in Seq(Nat)
    BY <1>5 DEF PeakList
  <2>2. y \in Nat /\ y >= 1 /\ y <= Len(q) /\ Len(q) \in Nat
    BY <2>1
  <2> QED BY <1>7, <2>1, <2>2
<1>9. ph[y] = ns[NodePos(g, l)]
  <2>1. PICK f \in Nat, m \in Nat : IsPeak(q[y], n, f, m) /\ ph[y] = ns[NodePos(f, m)]
    BY <1>5 DEF PeakList, n
  <2>2. NodePos(f, m) = NodePos(g, l)
    <3>1. NodePos(f, m) \in Nat /\ NodePos(g, l) \in Nat
      BY <1>2, NodePosBounds
    <3> QED BY <1>6, <2>1, <3>1 DEF IsPeak, PeakAt
  <2> QED BY <2>1, <2>2
<1> QED BY <1>8, <1>9 DEF x, ph, g, l, PeakValue

(* The two checks of a proof of inclusion, of the node i and the value v *)
Included(ns, i, v) ==
  LET size  == Len(ns)
      proof == InclusionProof(StoreOf(ns), size - 1, i)
      root  == GetProofPeakRoot(size, i, PeakHashes(StoreOf(ns), size - 1), Len(proof))
      shown == VerifyInclusionPath(v, i, proof, root)
  IN /\ IF v = StoreOf(ns)[i] THEN shown = <<TRUE, Len(proof)>> ELSE ~ shown[1]
     /\ IndexHeight(i) = 0 =>
          (VerifyInclusion(StoreOf(ns), size, v, i, proof) <=> v = StoreOf(ns)[i])

(* They show the value of the node and no other. *)
LEMMA InclusionShown ==
  ASSUME NEW Values, NEW H, PairsOf(H) \subseteq H, NEW ns, NEW vs, TreeOf(Values, H, ns, vs), Len(vs) # 0,
         NEW i \in 0 .. Len(ns) - 1, NEW v \in H
  PROVE  Included(ns, i, v)
<1> DEFINE n == Len(vs)
           size == Len(ns)
           proof == InclusionProof(StoreOf(ns), size - 1, i)
           ph == PeakHashes(StoreOf(ns), size - 1)
           root == GetProofPeakRoot(size, i, ph, Len(proof))
           shown == VerifyInclusionPath(v, i, proof, root)
<1>1. n \in Nat /\ size = MMRIndex(n) /\ size \in Nat /\ i \in Nat /\ i + 1 \in Nat /\ i + 1 # 0
      /\ i + 1 <= size
  <2>1. n \in Nat /\ size = MMRIndex(n) /\ ns \in Seq(H)
    BY DEF TreeOf, RangeOver
  <2>2. size \in Nat
    BY <2>1
  <2> HIDE DEF size, n
  <2>3. i \in 0 .. size - 1
    BY DEF size
  <2> QED BY <2>1, <2>2, <2>3
<1>2. PICK h \in Nat, k \in Nat : i + 1 = NodePos(h, k)
  BY <1>1, EveryPosition
<1>3. (k + 1) * 2^h <= n /\ i = NodePos(h, k) - 1 /\ IndexHeight(i) = h
  <2>1. (k + 1) * 2^h <= n
    <3> HIDE DEF n, size
    <3>1. NodePos(h, k) <= MMRIndex(n)
      BY <1>1, <1>2
    <3> QED BY <1>1, <3>1, NodeInRange
  <2>2. i = NodePos(h, k) - 1
    BY <1>1, <1>2
  <2>3. IndexHeight(i) = h
    BY <1>2, HeightOfNode DEF IndexHeight
  <2> QED BY <2>1, <2>2, <2>3
<1>4. StoreOf(ns)[i] = ns[NodePos(h, k)]
  BY <1>2 DEF StoreOf
<1>5. ProofClimbs(proof, H, ns, n, h, k)
  BY <1>3, InclusionProofClimbs
<1>6. PICK p, K : ClimbsFrom(p, K, n, h, k) /\ Siblings(proof, H, ns, p)
  <2> HIDE DEF proof
  <2> QED BY <1>5 DEF ProofClimbs, Siblings
<1>7. Len(proof) = Len(p) /\ proof \in Seq(H)
  BY <1>6 DEF Siblings
<1> DEFINE x == PeakIndex(PeaksBitmap(size), h + Len(p))
<1>8. x \in Nat /\ x < Len(ph) /\ ph[x + 1] = PeakValue(ns, p, K, h)
  BY <1>6, PeakOfProof
<1> HIDE DEF proof, ph
<1>9. root = PeakValue(ns, p, K, h)
  BY <1>3, <1>7, <1>8 DEF GetProofPeakRoot, GetProofPeakIndex
<1>10. IF v = StoreOf(ns)[i] THEN shown = <<TRUE, Len(proof)>> ELSE ~ shown[1]
  <2>1. IF v = ns[NodePos(h, k)]
        THEN VerifyInclusionPath(v, NodePos(h, k) - 1, proof, PeakValue(ns, p, K, h))
               = <<TRUE, Len(proof)>>
        ELSE ~ VerifyInclusionPath(v, NodePos(h, k) - 1, proof, PeakValue(ns, p, K, h))[1]
    BY <1>6, InclusionPathShows
  <2>2. shown = VerifyInclusionPath(v, NodePos(h, k) - 1, proof, PeakValue(ns, p, K, h))
    BY <1>3, <1>9
  <2> HIDE DEF shown
  <2> QED BY <1>4, <2>1, <2>2
<1>11. IndexHeight(i) = 0 =>
         (VerifyInclusion(StoreOf(ns), size, v, i, proof) <=> v = StoreOf(ns)[i])
  <2> SUFFICES ASSUME IndexHeight(i) = 0
               PROVE  VerifyInclusion(StoreOf(ns), size, v, i, proof) <=> v = StoreOf(ns)[i]
    OBVIOUS
  <2> DEFINE z == PeakIndex(LeafCount(size), Len(proof))
  <2>1. z = x
    <3>1. Len(p) \in Nat
      <4>1. p \in Seq(Nat)
        BY <1>6 DEF ClimbsFrom, Climbing
      <4> QED BY <4>1
    <3>2. h + Len(p) = Len(proof)
      BY <1>3, <1>7, <3>1
    <3> QED BY <3>2 DEF LeafCount
  <2>2. VerifyInclusion(StoreOf(ns), size, v, i, proof)
          <=> z < Len(ph) /\ IncludedRoot(i, v, proof) = ph[z + 1]
    BY DEF VerifyInclusion, ph
  <2>3. IncludedRoot(i, v, proof) = PeakValue(ns, p, K, h) <=> v = ns[NodePos(h, k)]
    <3>1. ClimbsFrom(p, K, Len(vs), h, k) /\ Siblings(proof, H, ns, p)
      BY <1>6
    <3>2. LeadsToPeak(ns, v, h, k, p, K, proof)
      BY <3>1, WholeProof
    <3> QED BY <1>3, <3>2 DEF LeadsToPeak
  <2> HIDE DEF z, x
  <2> QED BY <1>4, <1>8, <2>1, <2>2, <2>3
<1> QED BY <1>10, <1>11 DEF Included, proof, ph

-----------------------------------------------------------------------------
(* proofrefresh.go: a proof in a range, and in a range that extends it     *)

(* Two climbs from a node go the same way while both go on. *)
LEMMA ClimbsAgree ==
  ASSUME NEW h \in Nat, NEW k \in Nat, NEW a \in Nat, NEW p, NEW K, Climbing(p, K, a, h, k),
         NEW b \in Nat, NEW P, NEW L, Climbing(P, L, b, h, k),
         NEW m \in Nat, m <= Len(p), m <= Len(P)
  PROVE  L[m] = K[m] /\ \A x \in 1 .. m : P[x] = p[x]
<1> DEFINE S == {x \in Nat : L[x] = K[x]}
<1>1. /\ p \in Seq(Nat) /\ K \in [0 .. Len(p) -> Nat] /\ K[0] = k
      /\ P \in Seq(Nat) /\ L \in [0 .. Len(P) -> Nat] /\ L[0] = k
  BY DEF Climbing
<1>2. Len(p) \in Nat /\ Len(P) \in Nat
  BY <1>1
<1>3. ASSUME NEW x \in 1 .. m, x - 1 \in S
      PROVE  x \in S /\ P[x] = p[x]
  <2>1. x \in 1 .. Len(p) /\ x \in 1 .. Len(P) /\ x \in Nat
    BY <1>2
  <2>2. \/ K[x - 1] = 2 * K[x] /\ p[x] = NodePos(h + x - 1, 2 * K[x] + 1) - 1
        \/ K[x - 1] = 2 * K[x] + 1 /\ p[x] = NodePos(h + x - 1, 2 * K[x]) - 1
    BY <2>1 DEF Climbing
  <2>3. \/ L[x - 1] = 2 * L[x] /\ P[x] = NodePos(h + x - 1, 2 * L[x] + 1) - 1
        \/ L[x - 1] = 2 * L[x] + 1 /\ P[x] = NodePos(h + x - 1, 2 * L[x]) - 1
    BY <2>1 DEF Climbing
  <2>4. L[x - 1] = K[x - 1] /\ L[x] \in Nat /\ K[x] \in Nat
    <3>1. x \in 0 .. Len(p) /\ x \in 0 .. Len(P)
      BY <2>1
    <3> QED BY <1>1, <1>3, <3>1
  <2>5. ASSUME NEW c \in Nat, NEW d \in Nat
        PROVE  /\ 2 * c = 2 * d => c = d
               /\ 2 * c + 1 = 2 * d + 1 => c = d
               /\ 2 * c # 2 * d + 1 /\ 2 * c + 1 # 2 * d
    OBVIOUS
  <2>6. CASE K[x - 1] = 2 * K[x] /\ p[x] = NodePos(h + x - 1, 2 * K[x] + 1) - 1
    <3>1. L[x] = K[x] /\ P[x] = NodePos(h + x - 1, 2 * L[x] + 1) - 1
      BY <2>3, <2>4, <2>5, <2>6
    <3> QED BY <2>1, <2>6, <3>1
  <2>7. CASE K[x - 1] = 2 * K[x] + 1 /\ p[x] = NodePos(h + x - 1, 2 * K[x]) - 1
    <3>1. L[x] = K[x] /\ P[x] = NodePos(h + x - 1, 2 * L[x]) - 1
      BY <2>3, <2>4, <2>5, <2>7
    <3> QED BY <2>1, <2>7, <3>1
  <2> QED BY <2>2, <2>6, <2>7
<1>4. \A x \in 0 .. m : x \in S
  <2>1. 0 \in S
    BY <1>1
  <2> HIDE DEF S
  <2> QED BY <1>3, <2>1, UpTo
<1>5. m \in 0 .. m /\ \A x \in 1 .. m : x - 1 \in 0 .. m
  OBVIOUS
<1>6. \A x \in 1 .. m : P[x] = p[x]
  <2> HIDE DEF S
  <2> QED BY <1>3, <1>4, <1>5
<1>7. L[m] = K[m]
  BY <1>4, <1>5
<1> QED BY <1>6, <1>7

(* The climb from a node goes further as leaves are added, and begins as   *)
(* it did before.                                                          *)
LEMMA PathExtends ==
  ASSUME NEW h \in Nat, NEW k \in Nat, NEW a \in Nat, NEW p, NEW K, ClimbsFrom(p, K, a, h, k),
         NEW b \in Nat, NEW P, NEW L, ClimbsFrom(P, L, b, h, k), a <= b
  PROVE  Len(p) \in Nat /\ Len(p) <= Len(P) /\ \A x \in 1 .. Len(p) : P[x] = p[x]
<1>1. /\ Climbing(p, K, a, h, k) /\ Climbing(P, L, b, h, k)
      /\ PeakOver(b, h + Len(P), L[Len(P)])
  BY DEF ClimbsFrom
<1>2. /\ p \in Seq(Nat) /\ K \in [0 .. Len(p) -> Nat]
      /\ P \in Seq(Nat) /\ L \in [0 .. Len(P) -> Nat]
  BY <1>1 DEF Climbing
<1>3. Len(p) \in Nat /\ Len(P) \in Nat
  BY <1>2
<1>4. ASSUME Len(P) < Len(p) PROVE FALSE
  <2> DEFINE m == Len(P)
             g == h + m
             c == K[m + 1]
  <2>1. m \in Nat /\ g \in Nat /\ m + 1 \in 1 .. Len(p) /\ m + 1 \in 0 .. Len(p) /\ m + 1 - 1 = m
        /\ h + (m + 1) = g + 1
    BY <1>3, <1>4
  <2>2. L[m] = K[m]
    BY <1>1, <1>3, <1>4, ClimbsAgree
  <2>3. c \in Nat /\ (c + 1) * 2^(g + 1) <= a /\ (K[m] = 2 * c \/ K[m] = 2 * c + 1)
    <3>1. c \in Nat
      BY <1>2, <2>1
    <3>2. \A x \in 1 .. Len(p) : /\ (K[x] + 1) * 2^(h + x) <= a
                                 /\ K[x - 1] = 2 * K[x] \/ K[x - 1] = 2 * K[x] + 1
      BY <1>1 DEF Climbing
    <3>3. (c + 1) * 2^(h + (m + 1)) <= a /\ (K[m + 1 - 1] = 2 * c \/ K[m + 1 - 1] = 2 * c + 1)
      <4> HIDE DEF m
      <4> QED BY <2>1, <3>2
    <3> QED BY <2>1, <3>1, <3>3
  <2>4. b < (L[m] + 2) * 2^g /\ \E j \in Nat : L[m] = 2 * j
    BY <1>1 DEF PeakOver
  <2> HIDE DEF m, g, c
  <2>5. K[m] = 2 * c
    <3>1. PICK j \in Nat : L[m] = 2 * j
      BY <2>4
    <3>2. 2 * j # 2 * c + 1
      BY <2>3
    <3> QED BY <2>2, <2>3, <3>1, <3>2
  <2>6. 2^g \in Nat /\ 2^(g + 1) = 2 * 2^g
    BY <2>1, PowType, PowStep
  <2>7. ASSUME NEW y \in Nat
        PROVE  (c + 1) * (2 * y) = (2 * c + 2) * y /\ (2 * c + 2) * y \in Nat
    BY <2>3
  <2>8. (2 * c + 2) * 2^g \in Nat /\ (2 * c + 2) * 2^g <= a /\ b < (2 * c + 2) * 2^g
    BY <2>2, <2>3, <2>4, <2>5, <2>6, <2>7
  <2> QED BY <2>8
<1>5. Len(p) <= Len(P)
  BY <1>3, <1>4
<1>6. \A x \in 1 .. Len(p) : P[x] = p[x]
  <2>1. Len(p) <= Len(p)
    BY <1>3
  <2> QED BY <1>1, <1>3, <1>5, <2>1, ClimbsAgree
<1> QED BY <1>3, <1>5, <1>6

(* LocalPeak ends where the climb does. *)
LEMMA LocalPeakIs ==
  ASSUME NEW n \in Nat, NEW h \in Nat, NEW k \in Nat, NEW p, NEW K, ClimbsFrom(p, K, n, h, k)
  PROVE  LocalPeak(MMRIndex(n), NodePos(h, k) - 1) = NodePos(h + Len(p), K[Len(p)]) - 1
<1> DEFINE N == Len(p)
           size == MMRIndex(n)
           top == NodePos(h + N, K[N]) - 1
           At(x) == climb[<<NodePos(h + x, K[x]) - 1, h + x, size>>] = top
           S == {y \in Nat : At(N - y)}
<1>1. p \in Seq(Nat) /\ K \in [0 .. Len(p) -> Nat] /\ K[0] = k
  BY DEF ClimbsFrom, Climbing
<1>2. N \in Nat /\ size \in Nat /\ \A x \in 0 .. N : K[x] \in Nat /\ h + x \in Nat
  <2>1. N \in Nat
    BY <1>1
  <2>2. size \in Nat
    BY MMRIndexBounds
  <2>3. \A x \in 0 .. N : K[x] \in Nat /\ h + x \in Nat
    BY <1>1, <2>1
  <2> QED BY <2>1, <2>2, <2>3
<1>3. \A g, l \in Nat : NodePos(g, l) \in Nat /\ NodePos(g, l) > 0 /\ NodePos(g, l) - 1 \in Nat
  <2>1. \A g, l \in Nat : NodePos(g, l) \in Nat /\ NodePos(g, l) > 0
    BY NodePosBounds
  <2>2. \A x \in Nat : x > 0 => x - 1 \in Nat
    OBVIOUS
  <2> QED BY <2>1, <2>2
<1>4. At(N)
  <2> DEFINE g == h + N
             l == K[N]
  <2>1. g \in Nat /\ l \in Nat /\ PeakOver(n, g, l)
    <3>1. N \in 0 .. N
      BY <1>2
    <3> QED BY <1>2, <3>1 DEF ClimbsFrom
  <2> HIDE DEF g, l
  <2>2. PICK j \in Nat : l = 2 * j
    BY <2>1 DEF PeakOver
  <2>3. PathSibling(NodePos(g, l) - 1, g) = NodePos(g, 2 * j + 1) - 1
    BY <2>1, <2>2, PathRound
  <2>4. ~ (NodePos(g, 2 * j + 1) <= size)
    <3>1. 2 * j + 1 \in Nat /\ 2 * j + 1 + 1 = l + 2
      BY <2>2
    <3>2. (l + 2) * 2^g \in Nat /\ n < (l + 2) * 2^g
      <4>1. 2^g \in Nat /\ \A y \in Nat : (l + 2) * y \in Nat
        BY <2>1, PowType
      <4> QED BY <2>1, <4>1 DEF PeakOver
    <3>3. ~ ((2 * j + 1 + 1) * 2^g <= n)
      BY <3>1, <3>2
    <3> QED BY <2>1, <3>1, <3>3, NodeInRange
  <2>5. PathSibling(NodePos(g, l) - 1, g) >= size
    <3>1. NodePos(g, 2 * j + 1) \in Nat
      <4>1. 2 * j + 1 \in Nat
        OBVIOUS
      <4> QED BY <1>3, <2>1, <4>1
    <3> HIDE DEF size
    <3> QED BY <1>2, <2>3, <2>4, <3>1
  <2>6. NodePos(g, l) - 1 \in Nat
    BY <1>3, <2>1
  <2>7. climb[<<NodePos(g, l) - 1, g, size>>] = NodePos(g, l) - 1
    <3> HIDE DEF size
    <3> QED BY <1>2, <2>1, <2>5, <2>6, LocalClimbDef
  <2> QED BY <2>7 DEF g, l
<1>5. ASSUME NEW x \in 1 .. N, At(x) PROVE At(x - 1)
  <2> DEFINE g == h + x - 1
             j == K[x]
             l == K[x - 1]
             i == NodePos(g, l) - 1
  <2>1. /\ g \in Nat /\ g + 1 = h + x /\ h + (x - 1) = g /\ j \in Nat /\ l \in Nat
    <3>1. x \in 0 .. N /\ x - 1 \in 0 .. N /\ x \in Nat /\ x >= 1
      BY <1>2
    <3> QED BY <1>2, <3>1
  <2>2. /\ (j + 1) * 2^(g + 1) <= n
        /\ \/ l = 2 * j /\ p[x] = NodePos(g, 2 * j + 1) - 1
           \/ l = 2 * j + 1 /\ p[x] = NodePos(g, 2 * j) - 1
    BY <2>1 DEF ClimbsFrom, Climbing
  <2>3. p[x] \in Nat /\ p[x] < size
    BY ClimbInRange
  <2> HIDE DEF g, j, l, size, top
  <2>4. PathSibling(i, g) = p[x] /\ PathParent(i, g) = NodePos(g + 1, j) - 1
    <3>1. CASE l = 2 * j /\ p[x] = NodePos(g, 2 * j + 1) - 1
      BY <2>1, <3>1, PathRound
    <3>2. CASE l = 2 * j + 1 /\ p[x] = NodePos(g, 2 * j) - 1
      BY <2>1, <3>2, PathRound
    <3> QED BY <2>2, <3>1, <3>2
  <2>5. i \in Nat /\ i < size
    <3>1. NodePos(g + 1, j) <= size
      <4>1. g + 1 \in Nat
        BY <2>1
      <4> QED BY <2>1, <2>2, <4>1, NodeInRange DEF size
    <3>2. /\ NodePos(g + 1, j) = NodePos(g, 2 * j + 1) + 1
          /\ NodePos(g, 2 * j) \in Nat /\ NodePos(g, 2 * j + 1) \in Nat
          /\ NodePos(g, 2 * j) < NodePos(g, 2 * j + 1)
      BY <2>1, ChildPos
    <3>3. NodePos(g, l) < NodePos(g + 1, j)
      <4>1. NodePos(g, l) = NodePos(g, 2 * j) \/ NodePos(g, l) = NodePos(g, 2 * j + 1)
        BY <2>2
      <4> QED BY <3>2, <4>1
    <3>4. NodePos(g, l) \in Nat /\ i \in Nat
      BY <1>3, <2>1
    <3> QED BY <1>2, <3>1, <3>2, <3>3, <3>4
  <2>6. ~ (i >= size \/ PathSibling(i, g) >= size)
    <3> HIDE DEF i
    <3> QED BY <1>2, <2>3, <2>4, <2>5
  <2>7. climb[<<i, g, size>>] = climb[<<NodePos(g + 1, j) - 1, g + 1, size>>]
    <3> HIDE DEF i
    <3> QED BY <1>2, <2>1, <2>4, <2>5, <2>6, LocalClimbDef
  <2>8. climb[<<NodePos(g + 1, j) - 1, g + 1, size>>] = top
    BY <1>5, <2>1 DEF j
  <2> QED BY <2>1, <2>7, <2>8 DEF l
<1> HIDE DEF At
<1>6. At(0)
  <2>1. 0 \in S
    <3>1. N - 0 = N
      BY <1>2
    <3> QED BY <1>4, <3>1
  <2>2. ASSUME NEW y \in 1 .. N, y - 1 \in S PROVE y \in S
    <3>1. N - (y - 1) \in 1 .. N /\ N - (y - 1) - 1 = N - y /\ y \in Nat
      BY <1>2
    <3>2. At(N - (y - 1))
      BY <2>2
    <3>3. At(N - (y - 1) - 1)
      BY <1>5, <3>1, <3>2
    <3> QED BY <3>1, <3>3
  <2>3. N \in S
    <3> HIDE DEF S, N
    <3>1. \A y \in 0 .. N : y \in S
      BY <1>2, <2>1, <2>2, UpTo
    <3>2. N \in 0 .. N
      BY <1>2
    <3> QED BY <3>1, <3>2
  <2>4. N - N = 0
    BY <1>2
  <2> QED BY <2>3, <2>4
<1>7. LocalPeak(size, NodePos(h, k) - 1) = climb[<<NodePos(h, k) - 1, h, size>>]
  <2>1. NodePos(h, k) - 1 + 1 = NodePos(h, k)
    BY <1>3
  <2>2. IndexHeight(NodePos(h, k) - 1) = h
    BY <2>1, HeightOfNode DEF IndexHeight
  <2> QED BY <2>2 DEF LocalPeak
<1>8. h + 0 = h
  OBVIOUS
<1> QED BY <1>1, <1>6, <1>7, <1>8 DEF At

(* The peak that a climb ends at is the one LocalPeak says, it is listed,  *)
(* and the store has its value.                                            *)
LEMMA LocalPeakListed ==
  ASSUME NEW Values, NEW H, NEW ns, NEW vs, TreeOf(Values, H, ns, vs), Len(vs) # 0,
         NEW h \in Nat, NEW k \in Nat, NEW p, NEW K, ClimbsFrom(p, K, Len(vs), h, k)
  PROVE  /\ StoreOf(ns)[LocalPeak(Len(ns), NodePos(h, k) - 1)] = PeakValue(ns, p, K, h)
         /\ LocalPeak(Len(ns), NodePos(h, k) - 1) \in Range(Peaks(Len(ns) - 1))
<1> DEFINE n == Len(vs)
           g == h + Len(p)
           l == K[Len(p)]
           q == Peaks(Len(ns) - 1)
           top == LocalPeak(Len(ns), NodePos(h, k) - 1)
<1>1. n \in Nat /\ n # 0 /\ Len(ns) = MMRIndex(n) /\ ns \in Seq(H)
  BY DEF TreeOf, RangeOver
<1>2. g \in Nat /\ l \in Nat /\ PeakOver(n, g, l)
  <2>1. p \in Seq(Nat) /\ K \in [0 .. Len(p) -> Nat] /\ PeakOver(n, g, l)
    BY DEF ClimbsFrom, Climbing
  <2>2. Len(p) \in Nat /\ Len(p) \in 0 .. Len(p)
    BY <2>1
  <2> QED BY <2>1, <2>2
<1>3. top = NodePos(g, l) - 1
  BY <1>1, LocalPeakIs
<1>4. PeakValue(ns, p, K, h) = ns[NodePos(g, l)]
  BY DEF PeakValue
<1> HIDE DEF n, g, l, top
<1>5. StoreOf(ns)[top] = ns[NodePos(g, l)]
  <2>1. NodePos(g, l) \in Nat /\ NodePos(g, l) > 0 /\ NodePos(g, l) <= Len(ns)
    <3>1. (l + 1) * 2^g <= n
      BY <1>2 DEF PeakOver
    <3> QED BY <1>1, <1>2, <3>1, NodePosBounds, NodeInRange
  <2>2. Len(ns) \in Nat
    BY <1>1
  <2>3. top \in 0 .. Len(ns) - 1 /\ top + 1 = NodePos(g, l)
    BY <1>3, <2>1, <2>2
  <2> QED BY <2>3 DEF StoreOf
<1>6. top \in Range(q)
  <2>1. Tiles(q, n)
    BY <1>1, PeaksTile
  <2>2. g \in Bits(n)
    BY <1>2 DEF Bits
  <2> HIDE DEF q
  <2>3. PICK y \in 1 .. Len(q), m \in Nat : PeakAt(q, n, y, g, m)
    BY <1>1, <2>1, <2>2, PeakOfBit
  <2>4. m = l
    <3>1. PeakOver(n, g, m)
      BY <2>3 DEF PeakAt
    <3> QED BY <1>1, <1>2, <3>1, SamePeak
  <2>5. q[y] = top
    BY <1>3, <2>3, <2>4 DEF PeakAt
  <2>6. y \in DOMAIN q
    BY <2>1 DEF Tiles
  <2> QED BY <2>5, <2>6 DEF Range
<1> QED BY <1>4, <1>5, <1>6 DEF top

(* A range that extends another has its nodes. *)
LEMMA SameNodes ==
  ASSUME NEW Values, NEW H, NEW na, NEW va, TreeOf(Values, H, na, va), NEW nb, NEW vb, TreeOf(Values, H, nb, vb),
         IsPrefix(va, vb)
  PROVE  \A i \in Nat : i < Len(na) => i < Len(nb) /\ na[i + 1] = nb[i + 1]
<1> SUFFICES ASSUME NEW i \in Nat, i < Len(na) PROVE i < Len(nb) /\ na[i + 1] = nb[i + 1]
  OBVIOUS
<1>1. /\ Len(va) \in Nat /\ Len(vb) \in Nat
      /\ Len(na) = MMRIndex(Len(va)) /\ Len(nb) = MMRIndex(Len(vb))
      /\ MMRIndex(Len(va)) \in Nat /\ MMRIndex(Len(vb)) \in Nat
  <2>1. Len(va) \in Nat /\ Len(vb) \in Nat
    BY TreeNodes DEF TreeOf
  <2>2. MMRIndex(Len(va)) \in Nat /\ MMRIndex(Len(vb)) \in Nat
    BY <2>1, MMRIndexBounds
  <2> QED BY <2>1, <2>2 DEF TreeOf, RangeOver
<1>2. PICK h \in Nat, k \in Nat : i + 1 = NodePos(h, k)
  <2>1. i + 1 \in Nat /\ i + 1 # 0
    OBVIOUS
  <2> QED BY <2>1, EveryPosition
<1>3. (k + 1) * 2^h <= Len(va)
  <2>1. NodePos(h, k) <= MMRIndex(Len(va))
    BY <1>1, <1>2
  <2> QED BY <1>1, <2>1, NodeInRange
<1>4. (k + 1) * 2^h <= Len(vb) /\ na[NodePos(h, k)] = nb[NodePos(h, k)]
  BY <1>3, PrefixNodes
<1>5. i < Len(nb)
  <2>1. NodePos(h, k) <= MMRIndex(Len(vb))
    BY <1>1, <1>4, NodeInRange
  <2> QED BY <1>1, <1>2, <2>1
<1> QED BY <1>2, <1>4, <1>5

(* So it has the peaks the other had. *)
LEMMA SamePeakHashes ==
  ASSUME NEW Values, NEW H, NEW na, NEW va, TreeOf(Values, H, na, va), NEW nb, NEW vb, TreeOf(Values, H, nb, vb),
         Len(va) # 0, IsPrefix(va, vb)
  PROVE  PeakHashes(StoreOf(nb), Len(na) - 1) = PeakHashes(StoreOf(na), Len(na) - 1)
<1> DEFINE q == Peaks(Len(na) - 1)
<1>1. PeakList(Values, H, na, va, q, PeakHashes(StoreOf(na), Len(na) - 1))
  BY PeakHashesOf
<1>2. q \in Seq(Nat) /\ DOMAIN q = 1 .. Len(q)
  BY <1>1 DEF PeakList
<1>3. ASSUME NEW j \in DOMAIN q PROVE StoreOf(nb)[q[j]] = StoreOf(na)[q[j]]
  <2>1. PICK h \in Nat, k \in Nat : IsPeak(q[j], Len(va), h, k) /\ (k + 1) * 2^h <= Len(va)
    BY <1>1, <1>2, <1>3 DEF PeakList
  <2>2. NodePos(h, k) \in 1 .. Len(na)
    BY <2>1, NodeStamped
  <2>3. Len(na) \in Nat /\ Len(nb) \in Nat
    BY DEF TreeOf, RangeOver
  <2>4. q[j] \in Nat /\ q[j] < Len(na)
    BY <2>1, <2>2, <2>3 DEF IsPeak
  <2> HIDE DEF q
  <2>5. q[j] < Len(nb) /\ na[q[j] + 1] = nb[q[j] + 1]
    BY <2>4, SameNodes
  <2>6. q[j] \in 0 .. Len(na) - 1 /\ q[j] \in 0 .. Len(nb) - 1
    BY <2>3, <2>4, <2>5
  <2> QED BY <2>5, <2>6 DEF StoreOf
<1>4. /\ PeakHashes(StoreOf(na), Len(na) - 1) = [j \in DOMAIN q |-> StoreOf(na)[q[j]]]
      /\ PeakHashes(StoreOf(nb), Len(na) - 1) = [j \in DOMAIN q |-> StoreOf(nb)[q[j]]]
  BY DEF PeakHashes
<1> HIDE DEF q
<1> QED BY <1>3, <1>4

(* As much of a node's proof as was its proof before is that proof. *)
LEMMA ProofBefore ==
  ASSUME NEW Values, NEW H, NEW na, NEW va, TreeOf(Values, H, na, va), NEW nb, NEW vb, TreeOf(Values, H, nb, vb),
         IsPrefix(va, vb), NEW h \in Nat, NEW k \in Nat, (k + 1) * 2^h <= Len(va)
  PROVE  SubSeq(InclusionProof(StoreOf(nb), Len(nb) - 1, NodePos(h, k) - 1), 1,
                Len(InclusionProofPath(Len(na) - 1, NodePos(h, k) - 1)))
           = InclusionProof(StoreOf(na), Len(na) - 1, NodePos(h, k) - 1)
<1> DEFINE i == NodePos(h, k) - 1
           p == InclusionProofPath(Len(na) - 1, i)
           P == InclusionProofPath(Len(nb) - 1, i)
           a == InclusionProof(StoreOf(na), Len(na) - 1, i)
           b == InclusionProof(StoreOf(nb), Len(nb) - 1, i)
<1>1. /\ Len(va) \in Nat /\ Len(vb) \in Nat /\ Len(va) <= Len(vb)
      /\ Len(na) = MMRIndex(Len(va))
  BY TreeNodes DEF TreeOf, RangeOver, IsPrefix
<1>2. (k + 1) * 2^h <= Len(vb)
  BY PrefixNodes
<1>3. ProofOf(H, na, Len(va), h, k, p, a)
  BY InclusionProofOf
<1>4. ProofOf(H, nb, Len(vb), h, k, P, b)
  BY <1>2, InclusionProofOf
<1> HIDE DEF p, P, a, b, i
<1>5. PICK K : ClimbsFrom(p, K, Len(va), h, k)
  BY <1>3 DEF ProofOf
<1>6. PICK L : ClimbsFrom(P, L, Len(vb), h, k)
  BY <1>4 DEF ProofOf
<1>7. Siblings(a, H, na, p) /\ Siblings(b, H, nb, P)
  BY <1>3, <1>4 DEF ProofOf
<1>8. Len(p) \in Nat /\ Len(p) <= Len(P) /\ \A x \in 1 .. Len(p) : P[x] = p[x]
  BY <1>1, <1>5, <1>6, PathExtends
<1>9. /\ a \in Seq(H) /\ Len(a) = Len(p) /\ \A x \in 1 .. Len(p) : a[x] = na[p[x] + 1]
      /\ b \in Seq(H) /\ Len(b) = Len(P) /\ \A x \in 1 .. Len(P) : b[x] = nb[P[x] + 1]
  BY <1>7 DEF Siblings
<1>10. ASSUME NEW x \in 1 .. Len(p) PROVE b[x] = a[x]
  <2>1. p[x] \in Nat /\ p[x] < Len(na)
    BY <1>1, <1>5, ClimbInRange
  <2>2. na[p[x] + 1] = nb[p[x] + 1]
    BY <2>1, SameNodes
  <2>3. x \in 1 .. Len(P)
    <3>1. P \in Seq(Nat)
      BY <1>6 DEF ClimbsFrom, Climbing
    <3>2. Len(P) \in Nat
      BY <3>1
    <3> QED BY <1>8, <3>2
  <2> QED BY <1>8, <1>9, <2>2, <2>3
<1>11. SubSeq(b, 1, Len(p)) = a
  <2>1. SubSeq(b, 1, Len(p)) \in Seq(H) /\ Len(SubSeq(b, 1, Len(p))) = Len(p)
        /\ \A x \in 1 .. Len(p) : SubSeq(b, 1, Len(p))[x] = b[x]
    BY <1>8, <1>9
  <2> DEFINE s == SubSeq(b, 1, Len(p))
  <2> HIDE DEF s
  <2>2. s \in Seq(H) /\ Len(s) = Len(a) /\ \A x \in 1 .. Len(a) : s[x] = a[x]
    BY <1>9, <1>10, <2>1 DEF s
  <2>3. s = a
    BY <1>9, <2>2
  <2> QED BY <2>3 DEF s
<1> QED BY <1>11 DEF p, a, b, i

(* The loop of InclusionProofLocalExtend, a round unfolded *)
LEMMA AscentDef ==
  ASSUME NEW i \in Nat, NEW g \in Nat
  PROVE  /\ ascent[<<i, g>>] \in Nat /\ ascent[<<i, 0>>] = i
         /\ ascent[<<i, g + 1>>] =
              IF IndexHeight(ascent[<<i, g>>] + 1) > IndexHeight(ascent[<<i, g>>])
              THEN ascent[<<i, g>>] + 1 ELSE ascent[<<i, g>>] + 2 * 2^g
<1> DEFINE S == Nat \X Nat
           next(x) == <<x[1], x[2] - 1>>
           up(y, g1) == IF IndexHeight(y + 1) > IndexHeight(y) THEN y + 1 ELSE y + 2 * 2^(g1 - 1)
           B(f, x) == IF x[2] = 0 THEN x[1] ELSE up(f[next(x)], x[2])
           D == [p \in [S -> Nat] \X S |-> B(p[1], p[2])]
           m == [x \in S |-> x[2]]
<1>1. ASSUME NEW x \in S
      PROVE  /\ x[1] \in Nat /\ x[2] \in Nat /\ m[x] \in Nat
             /\ x[2] # 0 => next(x) \in S /\ x[2] - 1 \in Nat /\ m[next(x)] < m[x]
  <2>1. x[1] \in Nat /\ x[2] \in Nat /\ m[x] = x[2]
    OBVIOUS
  <2>2. ASSUME x[2] # 0 PROVE next(x) \in S /\ x[2] - 1 \in Nat /\ m[next(x)] < m[x]
    <3>1. x[2] - 1 \in Nat /\ x[2] - 1 < x[2]
      BY <2>1, <2>2
    <3>2. next(x) \in S /\ next(x)[2] = x[2] - 1
      BY <2>1, <3>1
    <3>3. m[next(x)] = x[2] - 1
      BY <3>2
    <3> HIDE DEF m, next
    <3> QED BY <2>1, <3>1, <3>2, <3>3
  <2> QED BY <2>1, <2>2
<1> HIDE DEF m, next
<1>2. \A f \in [S -> Nat], x \in S : B(f, x) \in Nat /\ D[<<f, x>>] = B(f, x)
  <2>1. ASSUME NEW f \in [S -> Nat], NEW x \in S PROVE B(f, x) \in Nat
    <3>1. CASE x[2] = 0
      BY <1>1, <3>1
    <3>2. CASE x[2] # 0
      <4>1. f[next(x)] \in Nat /\ 2^(x[2] - 1) \in Nat
        <5> HIDE DEF S
        <5> QED BY <1>1, <3>2, PowType
      <4>2. \A y, z \in Nat : y + 1 \in Nat /\ y + 2 * z \in Nat
        OBVIOUS
      <4> QED BY <3>2, <4>1, <4>2
    <3> QED BY <3>1, <3>2
  <2> HIDE DEF B, S
  <2> QED BY <2>1
<1>3. D \in [[S -> Nat] \X S -> Nat]
  <2> HIDE DEF B, S
  <2> QED BY <1>2
<1>4. ASSUME NEW f \in [S -> Nat], NEW f2 \in [S -> Nat], NEW x \in S,
             \A y \in S : m[y] < m[x] => f[y] = f2[y]
      PROVE  D[<<f, x>>] = D[<<f2, x>>]
  <2>1. x[2] # 0 => f[next(x)] = f2[next(x)]
    <3> HIDE DEF S
    <3> QED BY <1>1, <1>4
  <2>2. B(f, x) = B(f2, x)
    <3> HIDE DEF up
    <3> QED BY <2>1
  <2> HIDE DEF B, S
  <2> QED BY <1>2, <2>2
<1>5. \E f \in [S -> Nat] : \A x \in S : f[x] = D[<<f, x>>]
  <2>1. Nat # {}
    OBVIOUS
  <2>2. m \in [S -> Nat]
    <3>1. m = [x \in S |-> m[x]]
      BY DEF m
    <3> HIDE DEF S
    <3> QED BY <1>1, <3>1
  <2> HIDE DEF D, S
  <2>3. LooksBelow(S, Nat, m, D)
    BY <2>1, <2>2, <1>3, <1>4 DEF LooksBelow
  <2> QED BY <2>1, <2>3, Recursion
<1>6. PICK F \in [S -> Nat] : F = [x \in S |-> B(F, x)]
  <2>1. PICK f \in [S -> Nat] : \A x \in S : f[x] = D[<<f, x>>]
    BY <1>5
  <2>2. \A x \in S : f[x] = B(f, x)
    <3> HIDE DEF B, D, S
    <3> QED BY <1>2, <2>1
  <2> HIDE DEF B, S
  <2> QED BY <2>2
<1>7. ascent = [x \in S |-> B(ascent, x)]
  BY <1>6 DEF ascent, next
<1>8. \A x \in S : ascent[x] = B(ascent, x)
  <2> HIDE DEF B
  <2> QED BY <1>7
<1>9. /\ <<i, 0>> \in S /\ <<i, g>> \in S /\ <<i, g + 1>> \in S
      /\ next(<<i, g + 1>>) = <<i, g>> /\ g + 1 # 0 /\ g + 1 - 1 = g
  BY DEF next
<1>10. ascent[<<i, 0>>] = i /\ ascent[<<i, g + 1>>] = up(ascent[<<i, g>>], g + 1)
  BY <1>8, <1>9
<1>11. ascent[<<i, g>>] \in Nat
  <2> DEFINE T == {y \in Nat : ascent[<<i, y>>] \in Nat}
  <2>1. 0 \in T
    BY <1>10
  <2>2. ASSUME NEW y \in 1 .. g, y - 1 \in T PROVE y \in T
    <3>1. <<i, y>> \in S /\ next(<<i, y>>) = <<i, y - 1>> /\ y # 0 /\ y \in Nat /\ y - 1 \in Nat
      BY DEF next
    <3>2. ascent[<<i, y>>] = up(ascent[<<i, y - 1>>], y)
      BY <1>8, <3>1
    <3>3. \A a, z \in Nat : a + 1 \in Nat /\ a + 2 * z \in Nat
      OBVIOUS
    <3>4. 2^(y - 1) \in Nat
      BY <3>1, PowType
    <3> QED BY <2>2, <3>1, <3>2, <3>3, <3>4
  <2> HIDE DEF T
  <2>3. g \in T
    <3>1. \A y \in 0 .. g : y \in T
      BY <2>1, <2>2, UpTo
    <3> QED BY <3>1
  <2> QED BY <2>3 DEF T
<1> QED BY <1>9, <1>10, <1>11

LEMMA SiblingType ==
  ASSUME NEW i \in Nat, NEW g \in Nat
  PROVE  SiblingAt(i, g) \in Int
<1>1. ascent[<<i, g>>] \in Nat /\ 2^g \in Nat
  BY AscentDef, PowType
<1>2. \A y, z \in Nat : y - 2 * z + 1 \in Int /\ y + 2 * z - 1 \in Int
  OBVIOUS
<1> QED BY <1>1, <1>2 DEF SiblingAt

(* The loop from i has the nodes and the siblings of the climb p by way of *)
(* the runs K.                                                             *)
LoopOn(i, size, h, p, K) ==
  /\ \A x \in 0 .. Len(p) :
       ascent[<<i, x>>] = NodePos(h + x, K[x]) - 1 /\ ascent[<<i, x>>] < size
  /\ \A x \in 1 .. Len(p) : SiblingAt(i, x - 1) = p[x]
  /\ SiblingAt(i, Len(p)) >= size

(* It has from a leaf. *)
LEMMA LoopClimbs ==
  ASSUME NEW n \in Nat, NEW h \in Nat, h = 0, NEW k \in Nat, NEW p, NEW K, ClimbsFrom(p, K, n, h, k),
         (k + 1) * 2^h <= n
  PROVE  LoopOn(NodePos(h, k) - 1, MMRIndex(n), h, p, K)
<1> DEFINE N == Len(p)
           size == MMRIndex(n)
           i == NodePos(h, k) - 1
           At(x) == ascent[<<i, x>>] = NodePos(h + x, K[x]) - 1
           S == {y \in Nat : At(y)}
<1>1. p \in Seq(Nat) /\ K \in [0 .. Len(p) -> Nat] /\ K[0] = k
  BY DEF ClimbsFrom, Climbing
<1>2. N \in Nat /\ size \in Nat /\ \A x \in 0 .. N : x \in Nat /\ K[x] \in Nat /\ h + x = x
  <2>1. N \in Nat
    BY <1>1
  <2>2. size \in Nat
    BY MMRIndexBounds
  <2>3. \A x \in 0 .. N : x \in Nat /\ K[x] \in Nat /\ h + x = x
    BY <1>1, <2>1
  <2> QED BY <2>1, <2>2, <2>3
<1>3. \A g, l \in Nat : NodePos(g, l) \in Nat /\ NodePos(g, l) > 0 /\ NodePos(g, l) - 1 \in Nat
  <2>1. \A g, l \in Nat : NodePos(g, l) \in Nat /\ NodePos(g, l) > 0
    BY NodePosBounds
  <2>2. \A x \in Nat : x > 0 => x - 1 \in Nat
    OBVIOUS
  <2> QED BY <2>1, <2>2
<1>4. i \in Nat
  BY <1>3
<1>5. ASSUME NEW x \in 0 .. N, At(x)
      PROVE  /\ SiblingAt(i, x) = PathSibling(NodePos(x, K[x]) - 1, x)
             /\ ascent[<<i, x + 1>>] = PathParent(NodePos(x, K[x]) - 1, x)
  <2> DEFINE l == K[x]
             j == NodePos(x, l) - 1
  <2>1. x \in Nat /\ l \in Nat /\ h + x = x /\ ascent[<<i, x>>] = j
    BY <1>2, <1>5
  <2> HIDE DEF l, i
  <2>2. IndexHeight(j) = x
    <3>1. NodePos(x, l) \in Nat
      BY <1>3, <2>1
    <3>2. NodePos(x, l) - 1 + 1 = NodePos(x, l)
      BY <3>1
    <3> QED BY <2>1, <3>2, HeightOfNode DEF IndexHeight
  <2> HIDE DEF j
  <2>3. SiblingAt(i, x) = PathSibling(j, x)
    BY <2>1, <2>2 DEF SiblingAt, PathSibling
  <2>4. ascent[<<i, x + 1>>] = PathParent(j, x)
    <3>1. i \in Nat
      BY <1>4 DEF i
    <3>2. ascent[<<i, x + 1>>] = IF IndexHeight(ascent[<<i, x>>] + 1) > IndexHeight(ascent[<<i, x>>])
                                 THEN ascent[<<i, x>>] + 1 ELSE ascent[<<i, x>>] + 2 * 2^x
      BY <2>1, <3>1, AscentDef
    <3> QED BY <2>1, <2>2, <3>2 DEF PathParent
  <2> QED BY <2>3, <2>4 DEF j, l
<1> HIDE DEF i
<1>6. ASSUME NEW x \in 1 .. N
      PROVE  /\ PathSibling(NodePos(x - 1, K[x - 1]) - 1, x - 1) = p[x]
             /\ PathParent(NodePos(x - 1, K[x - 1]) - 1, x - 1) = NodePos(x, K[x]) - 1
  <2> DEFINE g == x - 1
             j == K[x]
             l == K[x - 1]
  <2>1. /\ g \in Nat /\ g + 1 = x /\ h + x = x /\ h + x - 1 = g /\ j \in Nat /\ l \in Nat
    <3>1. x \in 0 .. N /\ x - 1 \in 0 .. N /\ x \in Nat /\ x >= 1
      BY <1>2
    <3> QED BY <1>2, <3>1
  <2>2. \/ l = 2 * j /\ p[x] = NodePos(g, 2 * j + 1) - 1
        \/ l = 2 * j + 1 /\ p[x] = NodePos(g, 2 * j) - 1
    BY <2>1 DEF ClimbsFrom, Climbing
  <2> HIDE DEF g, j, l
  <2>3. PathSibling(NodePos(g, l) - 1, g) = p[x] /\ PathParent(NodePos(g, l) - 1, g) = NodePos(g + 1, j) - 1
    <3>1. CASE l = 2 * j /\ p[x] = NodePos(g, 2 * j + 1) - 1
      BY <2>1, <3>1, PathRound
    <3>2. CASE l = 2 * j + 1 /\ p[x] = NodePos(g, 2 * j) - 1
      BY <2>1, <3>2, PathRound
    <3> QED BY <2>2, <3>1, <3>2
  <2> QED BY <2>1, <2>3 DEF g, j, l
<1>7. ASSUME NEW x \in 0 .. N PROVE At(x)
  <2>1. 0 \in S
    <3>1. At(0)
      <4>1. ascent[<<i, 0>>] = i
        BY <1>4, AscentDef
      <4>2. h + 0 = h
        OBVIOUS
      <4> QED BY <1>1, <4>1, <4>2 DEF i
    <3> QED BY <3>1
  <2>2. ASSUME NEW y \in 1 .. N, y - 1 \in S PROVE y \in S
    <3>1. y - 1 \in 0 .. N /\ y \in 0 .. N /\ y \in Nat /\ y - 1 + 1 = y /\ At(y - 1)
      BY <1>2, <2>2
    <3>2. ascent[<<i, y - 1 + 1>>] = PathParent(NodePos(y - 1, K[y - 1]) - 1, y - 1)
      BY <1>5, <3>1
    <3>3. ascent[<<i, y>>] = NodePos(y, K[y]) - 1 /\ h + y = y
      BY <1>2, <1>6, <3>1, <3>2
    <3> QED BY <3>1, <3>3
  <2> HIDE DEF S, N
  <2>3. x \in S
    BY <1>2, <2>1, <2>2, UpTo
  <2> QED BY <2>3 DEF S
<1>8. ASSUME NEW x \in 1 .. N PROVE SiblingAt(i, x - 1) = p[x]
  <2>1. x - 1 \in 0 .. N
    BY <1>2
  <2>2. SiblingAt(i, x - 1) = PathSibling(NodePos(x - 1, K[x - 1]) - 1, x - 1)
    BY <1>5, <1>7, <2>1
  <2> QED BY <1>6, <2>2
<1>9. SiblingAt(i, N) >= size
  <2> DEFINE l == K[N]
  <2>1. N \in 0 .. N /\ l \in Nat /\ h + N = N /\ PeakOver(n, N, l)
    <3>1. N \in 0 .. N
      BY <1>2
    <3>2. l \in Nat /\ h + N = N
      BY <1>2, <3>1
    <3>3. PeakOver(n, h + N, l)
      BY DEF ClimbsFrom
    <3> QED BY <3>1, <3>2, <3>3
  <2>2. SiblingAt(i, N) = PathSibling(NodePos(N, l) - 1, N)
    BY <1>5, <1>7, <2>1
  <2> HIDE DEF l, N
  <2>3. PICK j \in Nat : l = 2 * j
    BY <2>1 DEF PeakOver
  <2>4. PathSibling(NodePos(N, l) - 1, N) = NodePos(N, 2 * j + 1) - 1
    BY <1>2, <2>1, <2>3, PathRound
  <2>5. ~ (NodePos(N, 2 * j + 1) <= size)
    <3>1. 2 * j + 1 \in Nat /\ 2 * j + 1 + 1 = l + 2
      BY <2>3
    <3>2. (l + 2) * 2^N \in Nat /\ n < (l + 2) * 2^N
      <4>1. 2^N \in Nat /\ \A y \in Nat : (l + 2) * y \in Nat
        BY <1>2, <2>1, PowType
      <4> QED BY <2>1, <4>1 DEF PeakOver
    <3>3. ~ ((2 * j + 1 + 1) * 2^N <= n)
      BY <3>1, <3>2
    <3> QED BY <1>2, <3>1, <3>3, NodeInRange
  <2>6. NodePos(N, 2 * j + 1) \in Nat
    <3>1. 2 * j + 1 \in Nat
      OBVIOUS
    <3> QED BY <1>2, <1>3, <3>1
  <2> HIDE DEF size
  <2> QED BY <1>2, <2>2, <2>4, <2>5, <2>6
<1>10. ASSUME NEW x \in 0 .. N PROVE ascent[<<i, x>>] < size
  <2>1. ascent[<<i, x>>] = NodePos(x, K[x]) - 1 /\ x \in Nat /\ K[x] \in Nat
    BY <1>2, <1>7
  <2>2. (K[x] + 1) * 2^x <= n
    <3>1. CASE x = 0
      BY <1>1, <3>1
    <3>2. CASE x # 0
      <4>1. x \in 1 .. N /\ h + x = x
        BY <1>2, <3>2
      <4>2. (K[x] + 1) * 2^(h + x) <= n
        BY <4>1 DEF ClimbsFrom, Climbing
      <4> QED BY <4>1, <4>2
    <3> QED BY <3>1, <3>2
  <2>3. NodePos(x, K[x]) <= size
    BY <2>1, <2>2, NodeInRange
  <2>4. NodePos(x, K[x]) \in Nat
    BY <1>3, <2>1
  <2> HIDE DEF size
  <2> QED BY <1>2, <2>1, <2>3, <2>4
<1> HIDE DEF size, N
<1> QED BY <1>7, <1>8, <1>9, <1>10 DEF LoopOn, size, N, i

(* The result has the hashes of the path P, of which p is the part in A,   *)
(* and the peaks they lead to.                                             *)
LocalExtends(sizeA, sizeB, store, i, p, P) ==
  InclusionProofLocalExtend(sizeA, sizeB, store, i)
    = [path |-> [x \in 1 .. Len(P) |-> store[P[x]]],
       heightA |-> Len(p),
       peakIndexA |-> LocalPeak(sizeA, i),
       peakIndexB |-> LocalPeak(sizeB, i)]

(* So it gives the proof in B, and the part of it that is the proof in A.  *)
LEMMA LoopIs ==
  ASSUME NEW h \in Nat, h = 0, NEW k \in Nat, NEW a \in Nat, NEW p, NEW K, ClimbsFrom(p, K, a, h, k),
         NEW b \in Nat, NEW P, NEW L, ClimbsFrom(P, L, b, h, k), a < b, (k + 1) * 2^h <= a,
         NEW store, NEW i, i = NodePos(h, k) - 1, NEW sizeA, sizeA = MMRIndex(a), NEW sizeB, sizeB = MMRIndex(b)
  PROVE  LocalExtends(sizeA, sizeB, store, i, p, P)
<1> DEFINE entered(g) == ascent[<<i, g>>] < sizeB
           heights == {g \in 0 .. sizeB :
                         \A f \in 0 .. g - 1 : entered(f) /\ SiblingAt(i, f) < sizeB}
           beyondA == HeightsBeyond(sizeA, i, {g \in heights : entered(g)})
           N == Len(p)
           M == Len(P)
<1>1. N \in Nat /\ M \in Nat /\ N <= M
  <2>1. P \in Seq(Nat)
    BY DEF ClimbsFrom, Climbing
  <2> QED BY <2>1, PathExtends
<1>2. sizeA \in Nat /\ sizeB \in Nat /\ sizeA < sizeB
  <2>1. MMRIndex(a) \in Nat /\ MMRIndex(b) \in Nat /\ NodePos(0, a) \in Nat
    BY MMRIndexBounds, NodePosBounds
  <2>2. NodePos(0, a) <= MMRIndex(b) /\ ~ (NodePos(0, a) <= MMRIndex(a))
    BY LeafInRange
  <2> QED BY <2>1, <2>2
<1>3. /\ \A x \in 0 .. N : ascent[<<i, x>>] = NodePos(h + x, K[x]) - 1
      /\ \A x \in 1 .. N : SiblingAt(i, x - 1) = p[x]
      /\ SiblingAt(i, N) >= sizeA
  <2>1. LoopOn(NodePos(h, k) - 1, MMRIndex(a), h, p, K)
    BY LoopClimbs
  <2> QED BY <2>1 DEF LoopOn
<1>4. /\ \A x \in 0 .. M : ascent[<<i, x>>] = NodePos(h + x, L[x]) - 1 /\ ascent[<<i, x>>] < sizeB
      /\ \A x \in 1 .. M : SiblingAt(i, x - 1) = P[x]
      /\ SiblingAt(i, M) >= sizeB
  <2>1. (k + 1) * 2^h <= b
    <3>1. 2^h \in Nat /\ \A y \in Nat : (k + 1) * y \in Nat
      BY PowType
    <3> QED BY <3>1
  <2>2. LoopOn(NodePos(h, k) - 1, MMRIndex(b), h, P, L)
    BY <2>1, LoopClimbs
  <2> QED BY <2>2 DEF LoopOn
<1>5. \A x \in 1 .. N : p[x] \in Nat /\ p[x] < sizeA
  BY ClimbInRange
<1>6. \A x \in 1 .. M : P[x] \in Nat /\ P[x] < sizeB
  BY ClimbInRange
<1>7. M <= sizeB
  <2>1. M \in 0 .. M /\ h + M = M /\ L[M] \in Nat
    <3>1. L \in [0 .. M -> Nat]
      BY DEF ClimbsFrom, Climbing
    <3>2. M \in 0 .. M /\ h + M = M
      BY <1>1
    <3> QED BY <3>1, <3>2
  <2>2. NodePos(M, L[M]) \in Nat /\ 2 * 2^M - 1 <= NodePos(M, L[M])
    BY <1>1, <2>1, NodePosBounds
  <2>3. NodePos(M, L[M]) - 1 < sizeB
    <3>1. ascent[<<i, M>>] = NodePos(h + M, L[M]) - 1 /\ ascent[<<i, M>>] < sizeB
      BY <1>4, <2>1
    <3> QED BY <2>1, <3>1
  <2>4. M < 2^M /\ 2^M \in Nat
    BY <1>1, BelowPow, PowType
  <2> QED BY <1>1, <1>2, <2>2, <2>3, <2>4
<1> HIDE DEF M, N
<1>8. heights = 0 .. M
  <2>1. ASSUME NEW g \in 0 .. M PROVE g \in heights
    <3>1. g \in 0 .. sizeB
      BY <1>1, <1>2, <1>7
    <3>2. ASSUME NEW f \in 0 .. g - 1 PROVE entered(f) /\ SiblingAt(i, f) < sizeB
      <4>1. f \in 0 .. M
        BY <1>1
      <4>2. PICK y \in 1 .. M : y - 1 = f
        <5>1. f + 1 \in 1 .. M /\ f + 1 - 1 = f
          BY <1>1
        <5> QED BY <5>1
      <4>3. SiblingAt(i, f) = P[y]
        BY <1>4, <4>2
      <4> QED BY <1>4, <1>6, <4>1, <4>3
    <3> QED BY <3>1, <3>2
  <2>2. ASSUME NEW g \in heights PROVE g \in 0 .. M
    <3>1. g \in 0 .. sizeB
      OBVIOUS
    <3>2. ASSUME ~ (g <= M) PROVE FALSE
      <4>1. M \in 0 .. g - 1
        BY <1>1, <1>2, <3>1, <3>2
      <4>2. SiblingAt(i, M) < sizeB
        BY <4>1
      <4>3. SiblingAt(i, M) \in Int
        <5>1. NodePos(h, k) \in Nat /\ NodePos(h, k) > 0
          BY NodePosBounds
        <5>2. i \in Nat
          BY <5>1
        <5> QED BY <1>1, <5>2, SiblingType
      <4> QED BY <1>2, <1>4, <4>2, <4>3
    <3> QED BY <1>1, <1>2, <3>1, <3>2
  <2> HIDE DEF heights
  <2> QED BY <2>1, <2>2
<1>9. \A g \in 0 .. M : entered(g)
  BY <1>4
<1> HIDE DEF heights, entered
<1>10. Max(heights) = M
  <2>1. M \in 0 .. M /\ \A y \in 0 .. M : M >= y
    BY <1>1
  <2>2. \A x \in 0 .. M : (\A y \in 0 .. M : x >= y) => x = M
    BY <1>1
  <2> QED BY <1>8, <2>1, <2>2 DEF Max
<1>11. beyondA = {g \in 0 .. M : SiblingAt(i, g) >= sizeA}
  BY <1>8, <1>9 DEF HeightsBeyond
<1> HIDE DEF beyondA
<1>12. N \in beyondA /\ \A g \in beyondA : N <= g
  <2>1. N \in beyondA
    BY <1>1, <1>3, <1>11
  <2>2. ASSUME NEW g \in beyondA PROVE N <= g
    <3>1. g \in 0 .. M /\ SiblingAt(i, g) >= sizeA
      BY <1>11
    <3>2. ASSUME ~ (N <= g) PROVE FALSE
      <4>1. PICK y \in 1 .. N : y - 1 = g
        <5>1. g \in Nat /\ g + 1 \in 1 .. N /\ g + 1 - 1 = g
          BY <1>1, <3>1, <3>2
        <5> QED BY <5>1
      <4>2. SiblingAt(i, g) = p[y] /\ p[y] \in Nat /\ p[y] < sizeA
        BY <1>3, <1>5, <4>1
      <4> QED BY <1>2, <3>1, <4>2
    <3> QED BY <3>2
  <2> QED BY <2>1, <2>2
<1>13. Min(beyondA) = N /\ beyondA # {}
  <2>1. \A x \in beyondA : x \in Nat
    BY <1>1, <1>11
  <2>2. \A x \in beyondA : (\A y \in beyondA : x <= y) => x = N
    BY <1>1, <1>12, <2>1
  <2> QED BY <1>12, <2>2 DEF Min
<1>14. ascent[<<i, N>>] = LocalPeak(sizeA, i) /\ ascent[<<i, M>>] = LocalPeak(sizeB, i)
  <2>1. N \in 0 .. N /\ M \in 0 .. M
    BY <1>1
  <2>2. LocalPeak(sizeA, i) = NodePos(h + N, K[N]) - 1
    BY LocalPeakIs DEF N
  <2>3. LocalPeak(sizeB, i) = NodePos(h + M, L[M]) - 1
    BY LocalPeakIs DEF M
  <2> QED BY <1>3, <1>4, <2>1, <2>2, <2>3
<1>15. [x \in 1 .. M |-> store[SiblingAt(i, x - 1)]] = [x \in 1 .. M |-> store[P[x]]]
  BY <1>4
<1>16. InclusionProofLocalExtend(sizeA, sizeB, store, i)
         = [path |-> [x \in 1 .. Max(heights) |-> store[SiblingAt(i, x - 1)]],
            heightA |-> Min(beyondA),
            peakIndexA |-> ascent[<<i, Min(beyondA)>>],
            peakIndexB |-> ascent[<<i, Max(heights)>>]]
  <2>1. ~ (sizeB <= sizeA)
    BY <1>2
  <2> QED BY <1>13, <2>1 DEF InclusionProofLocalExtend, heights, beyondA, entered
<1> QED BY <1>10, <1>13, <1>14, <1>15, <1>16 DEF LocalExtends, M, N

(* What InclusionProofLocalExtend gives for the node i with the value v *)
Extended(na, nb, i, v) ==
  LET ext == InclusionProofLocalExtend(Len(na), Len(nb), StoreOf(nb), i)
      proofA == SubSeq(ext.path, 1, ext.heightA)
  IN /\ VerifyInclusion(StoreOf(nb), Len(na), v, i, proofA)
     /\ IncludedRoot(i, v, proofA) = StoreOf(nb)[ext.peakIndexA]
     /\ IncludedRoot(i, v, ext.path) = StoreOf(nb)[ext.peakIndexB]
     /\ ext.peakIndexA \in Range(Peaks(Len(na) - 1))
     /\ ext.peakIndexB \in Range(Peaks(Len(nb) - 1))

(* Both proofs lead to a peak, the shorter to one that was and is there. *)
LEMMA LeafExtended ==
  ASSUME NEW Values, NEW H, PairsOf(H) \subseteq H, NEW na, NEW va, TreeOf(Values, H, na, va), Len(va) # 0,
         NEW nb, NEW vb, TreeOf(Values, H, nb, vb), Len(vb) # 0, IsPrefix(va, vb), Len(va) < Len(vb),
         NEW c \in Nat, c < Len(va)
  PROVE  Extended(na, nb, MMRIndex(c), va[c + 1])
<1>0. PICK h \in Nat : h = 0
  OBVIOUS
<1> DEFINE i == NodePos(h, c) - 1
           v == va[c + 1]
           a == InclusionProof(StoreOf(na), Len(na) - 1, i)
           b == InclusionProof(StoreOf(nb), Len(nb) - 1, i)
           p == InclusionProofPath(Len(na) - 1, i)
           P == InclusionProofPath(Len(nb) - 1, i)
           topA == LocalPeak(Len(na), i)
           topB == LocalPeak(Len(nb), i)
           ext == InclusionProofLocalExtend(Len(na), Len(nb), StoreOf(nb), i)
<1>1. i = MMRIndex(c) /\ i \in Nat /\ i + 1 = NodePos(h, c)
  <2>1. NodePos(h, c) = MMRIndex(c) + 1 /\ MMRIndex(c) \in Nat
    BY <1>0, LeafPos, MMRIndexBounds
  <2> QED BY <2>1
<1>2. (c + 1) * 2^h <= Len(va) /\ (c + 1) * 2^h <= Len(vb) /\ Len(va) \in Nat /\ Len(vb) \in Nat
  <2>1. Len(va) \in Nat /\ Len(vb) \in Nat
    BY TreeNodes DEF TreeOf
  <2>2. (c + 1) * 2^h <= Len(va)
    <3>1. \A y \in Nat : y * 1 = y
      OBVIOUS
    <3>2. (c + 1) * 2^h = c + 1
      BY <1>0, <3>1, PowZero
    <3> QED BY <2>1, <3>2
  <2>3. (c + 1) * 2^h <= Len(vb)
    BY <2>2, PrefixNodes
  <2> QED BY <2>1, <2>2, <2>3
<1>3. IndexHeight(i) = 0
  <2>1. IndexHeight(i) = h
    BY <1>1, HeightOfNode DEF IndexHeight
  <2> QED BY <1>0, <2>1
<1>4. v = na[NodePos(h, c)] /\ v = nb[NodePos(h, c)] /\ v \in H
  <2>1. v = na[NodePos(h, c)]
    <3>1. na[NodePos(0, c)] = v
      BY TreeNodes DEF TreeOf
    <3> QED BY <1>0, <3>1
  <2>2. na[NodePos(h, c)] = nb[NodePos(h, c)]
    BY <1>2, PrefixNodes
  <2>3. na[NodePos(h, c)] \in H
    BY <1>2, NodeStamped
  <2> QED BY <2>1, <2>2, <2>3
<1>5. i < Len(na) /\ i < Len(nb) /\ Len(na) \in Nat /\ Len(nb) \in Nat
  <2>1. NodePos(h, c) \in 1 .. Len(na) /\ na \in Seq(H) /\ nb \in Seq(H)
    BY <1>2, NodeStamped DEF TreeOf, RangeOver
  <2>2. NodePos(h, c) \in 1 .. Len(nb)
    BY <1>2, NodeStamped
  <2>3. Len(na) \in Nat /\ Len(nb) \in Nat
    BY <2>1
  <2> HIDE DEF i
  <2> QED BY <1>1, <2>1, <2>2, <2>3
<1>6. ProofOf(H, na, Len(va), h, c, p, a)
  BY <1>2, InclusionProofOf
<1>7. ProofOf(H, nb, Len(vb), h, c, P, b)
  BY <1>2, InclusionProofOf
<1>8. SubSeq(b, 1, Len(p)) = a
  BY <1>2, ProofBefore
<1> HIDE DEF p, P, a, b
<1>9. PICK K : ClimbsFrom(p, K, Len(va), h, c)
  BY <1>6 DEF ProofOf
<1>10. PICK L : ClimbsFrom(P, L, Len(vb), h, c)
  BY <1>7 DEF ProofOf
<1>11. Siblings(a, H, na, p) /\ Siblings(b, H, nb, P)
  BY <1>6, <1>7 DEF ProofOf
<1>12. StoreOf(na)[topA] = PeakValue(na, p, K, h) /\ topA \in Range(Peaks(Len(na) - 1))
  BY <1>9, LocalPeakListed
<1>13. StoreOf(nb)[topB] = PeakValue(nb, P, L, h) /\ topB \in Range(Peaks(Len(nb) - 1))
  BY <1>10, LocalPeakListed
<1>14. IncludedRoot(i, v, a) = PeakValue(na, p, K, h)
  <2> HIDE DEF v
  <2>1. v \in H /\ Siblings(a, H, na, p)
    BY <1>4, <1>11
  <2>2. LeadsToPeak(na, v, h, c, p, K, a)
    BY <2>1, <1>9, WholeProof
  <2> QED BY <1>4, <2>2 DEF LeadsToPeak
<1>15. IncludedRoot(i, v, b) = PeakValue(nb, P, L, h)
  <2> HIDE DEF v
  <2>1. v \in H /\ Siblings(b, H, nb, P)
    BY <1>4, <1>11
  <2>2. LeadsToPeak(nb, v, h, c, P, L, b)
    BY <2>1, <1>10, WholeProof
  <2> QED BY <1>4, <2>2 DEF LeadsToPeak
<1>16. StoreOf(nb)[topA] = StoreOf(na)[topA]
  <2>1. PICK j \in DOMAIN Peaks(Len(na) - 1) : Peaks(Len(na) - 1)[j] = topA
    BY <1>12 DEF Range
  <2>2. /\ PeakHashes(StoreOf(na), Len(na) - 1)[j] = StoreOf(na)[topA]
        /\ PeakHashes(StoreOf(nb), Len(na) - 1)[j] = StoreOf(nb)[topA]
    BY <2>1 DEF PeakHashes
  <2>3. PeakHashes(StoreOf(nb), Len(na) - 1) = PeakHashes(StoreOf(na), Len(na) - 1)
    BY SamePeakHashes
  <2> QED BY <2>2, <2>3
<1>17. VerifyInclusion(StoreOf(nb), Len(na), v, i, a)
  <2>1. VerifyInclusion(StoreOf(na), Len(na), v, i, a)
    <3>1. i \in 0 .. Len(na) - 1 /\ StoreOf(na)[i] = v
      <4>1. i \in 0 .. Len(na) - 1
        <5> HIDE DEF i
        <5> QED BY <1>1, <1>5
      <4> QED BY <1>1, <1>4, <4>1 DEF StoreOf
    <3> HIDE DEF i, v
    <3>2. Included(na, i, v)
      BY <1>4, <3>1, InclusionShown
    <3> QED BY <1>3, <3>1, <3>2 DEF Included, a
  <2>2. PeakHashes(StoreOf(nb), Len(na) - 1) = PeakHashes(StoreOf(na), Len(na) - 1)
    BY SamePeakHashes
  <2> HIDE DEF i, v
  <2> QED BY <2>1, <2>2 DEF VerifyInclusion
<1>18. ext.path = b /\ ext.heightA = Len(p) /\ ext.peakIndexA = topA /\ ext.peakIndexB = topB
  <2>1. Len(na) = MMRIndex(Len(va)) /\ Len(nb) = MMRIndex(Len(vb))
    BY DEF TreeOf, RangeOver
  <2>2. LocalExtends(Len(na), Len(nb), StoreOf(nb), i, p, P)
    BY <1>0, <1>2, <1>9, <1>10, <2>1, LoopIs
  <2>3. ext = [path |-> [x \in 1 .. Len(P) |-> StoreOf(nb)[P[x]]], heightA |-> Len(p),
               peakIndexA |-> topA, peakIndexB |-> topB]
    BY <2>2 DEF LocalExtends
  <2>4. b = [x \in DOMAIN P |-> StoreOf(nb)[P[x]]]
    BY DEF b, P, InclusionProof
  <2>5. DOMAIN P = 1 .. Len(P)
    <3>1. P \in Seq(Nat)
      BY <1>10 DEF ClimbsFrom, Climbing
    <3> QED BY <3>1
  <2> HIDE DEF ext, topA, topB
  <2> QED BY <2>3, <2>4, <2>5
<1> HIDE DEF ext, topA, topB, v
<1>19. /\ VerifyInclusion(StoreOf(nb), Len(na), v, i, SubSeq(ext.path, 1, ext.heightA))
       /\ IncludedRoot(i, v, SubSeq(ext.path, 1, ext.heightA)) = StoreOf(nb)[ext.peakIndexA]
       /\ IncludedRoot(i, v, ext.path) = StoreOf(nb)[ext.peakIndexB]
       /\ ext.peakIndexA \in Range(Peaks(Len(na) - 1))
       /\ ext.peakIndexB \in Range(Peaks(Len(nb) - 1))
  BY <1>8, <1>12, <1>13, <1>14, <1>15, <1>16, <1>17, <1>18
<1>20. Extended(na, nb, i, v)
  BY <1>19 DEF Extended, ext
<1> QED BY <1>1, <1>20 DEF v

=============================================================================
