------------------------------ MODULE SizeSums ------------------------------
(***************************************************************************)
(* The sizes of the sequences f[x] added up over a finite set, as          *)
(* MapThenSumSet does it: one element after the other, in an order nobody  *)
(* chooses.  checkSpace of the hello-world shell adds up the sizes of its  *)
(* files in the order in which Go happens to range over a map; the facts   *)
(* below say that the order does not matter, and what adding or taking     *)
(* away one element does to the sum.                                       *)
(*                                                                         *)
(* Each is proved from a smallest set for which it would fail, which the   *)
(* least-number principle gives.                                           *)
(***************************************************************************)
EXTENDS Sequences, FiniteSetsExt, FiniteSetTheorems, TLAPS

\* The element MapThenSumSet takes first.
Pick(s) == CHOOSE x \in s : TRUE

\* The sum over a set s, from the sums g over smaller ones.
Sum(g, f, s) == IF s = {} THEN 0 ELSE Len(f[Pick(s)]) + g[s \ {Pick(s)}]

\* g holds the sum of the sizes in f over every subset of S.
Sums(g, f, S) == g = [s \in SUBSET S |-> Sum(g, f, s)]

\* Whichever element is taken first.
Unordered(g, f, s) == \A x \in s : g[s] = Len(f[x]) + g[s \ {x}]

\* Everything in S has a size.
Sized(f, S) == \A x \in S : Len(f[x]) \in Nat

\* The sum as the specifications write it.
Total(f, S) == MapThenSumSet(LAMBDA x : Len(f[x]), S)

\* A set of natural numbers has a least member.
LEMMA Least ==
    ASSUME NEW T \in SUBSET Nat, T # {}
    PROVE  \E n \in T : \A m \in T : n <= m
<1>1. PICK n \in T : \A m \in T : ~(<<m, n>> \in OpToRel(<, Nat))
  BY NatLessThanWellFounded, WFMin
<1>2. \A m \in T : m \in Nat /\ n \in Nat /\ ~(m < n)
  BY <1>1 DEF OpToRel
<1>3. QED
  BY <1>2

\* A family of finite sets has a member of least size.
LEMMA SmallestSet ==
    ASSUME NEW F, F # {}, \A s \in F : IsFiniteSet(s)
    PROVE  \E s \in F : \A t \in F : Cardinality(s) <= Cardinality(t)
<1> DEFINE T == {Cardinality(s) : s \in F}
<1>1. T \in SUBSET Nat /\ T # {}
  BY FS_CardinalityType
<1>2. PICK n \in T : \A m \in T : n <= m
  BY <1>1, Least
<1>3. QED
  BY <1>2

\* Taking the first element leaves a smaller set.
LEMMA Picked ==
    ASSUME NEW s, s # {}, IsFiniteSet(s)
    PROVE  /\ Pick(s) \in s /\ IsFiniteSet(s \ {Pick(s)}) /\ s \ {Pick(s)} \subseteq s
           /\ Cardinality(s) \in Nat /\ Cardinality(s \ {Pick(s)}) = Cardinality(s) - 1
<1>1. Pick(s) \in s
  BY DEF Pick
<1>2. QED
  BY <1>1, FS_RemoveElement, FS_CardinalityType

\* The sums over all subsets exist, so that the recursive function in the
\* definition of MapThenSumSet is what its equation says.
LEMMA SumsExist ==
    ASSUME NEW f, NEW S, IsFiniteSet(S)
    PROVE  \E g : Sums(g, f, S)
<1> DEFINE Upto(n) == {s \in SUBSET S : Cardinality(s) <= n}
           Good(n) == \E g : g = [s \in Upto(n) |-> Sum(g, f, s)]
           Bad     == {n \in Nat : ~Good(n)}
<1> HIDE DEF Bad
<1>0. \A s \in SUBSET S : IsFiniteSet(s) /\ Cardinality(s) \in Nat /\ Cardinality(s) <= Cardinality(S)
  BY FS_Subset, FS_CardinalityType
<1>1. ASSUME NEW n \in Nat, n \in Bad, \A m \in Bad : n <= m PROVE FALSE
  <2>1. n # 0
    <3> DEFINE g == [s \in Upto(0) |-> 0]
    <3>1. \A s \in Upto(0) : s = {}
      BY <1>0, FS_EmptySet
    <3>2. g = [s \in Upto(0) |-> Sum(g, f, s)]
      BY <3>1 DEF Sum
    <3>3. QED
      BY <3>2, <1>1 DEF Bad
  <2>2. n - 1 \in Nat /\ n - 1 \notin Bad
    BY <2>1, <1>1
  <2>3. PICK g : g = [s \in Upto(n - 1) |-> Sum(g, f, s)]
    BY <2>2 DEF Bad
  <2> DEFINE h == [s \in Upto(n) |-> Sum(g, f, s)]
  <2>4. ASSUME NEW s \in Upto(n) PROVE Sum(g, f, s) = Sum(h, f, s)
    <3>1. CASE s = {}
      BY <3>1 DEF Sum
    <3>2. CASE s # {}
      <4> DEFINE t == s \ {Pick(s)}
      <4>1. t \in Upto(n - 1) /\ t \in Upto(n)
        BY <3>2, <2>4, <1>0, Picked
      <4>2. g[t] = h[t]
        BY <4>1, <2>3
      <4>3. QED
        BY <3>2, <4>2 DEF Sum
    <3>3. QED
      BY <3>1, <3>2
  <2>5. h = [s \in Upto(n) |-> Sum(h, f, s)]
    BY <2>4
  <2>6. QED
    BY <2>5, <1>1 DEF Bad
<1>2. Bad = {}
  <2>1. Bad \in SUBSET Nat
    BY DEF Bad
  <2>2. QED
    BY <2>1, <1>1, Least
<1>3. Cardinality(S) \in Nat /\ Upto(Cardinality(S)) = SUBSET S
  BY <1>0
<1>4. Good(Cardinality(S))
  BY <1>2, <1>3 DEF Bad
<1>5. QED
  BY <1>3, <1>4 DEF Sums

LEMMA TotalSums ==
    ASSUME NEW f, NEW S, IsFiniteSet(S)
    PROVE  \E g : Sums(g, f, S) /\ Total(f, S) = g[S]
<1>1. PICK g : Sums(g, f, S)
  BY SumsExist
<1>2. QED
  BY <1>1 DEF Total, MapThenSumSet, MapThenFoldSet, Pick, Sums, Sum

\* Sums of natural numbers are natural numbers.
LEMMA SumsType ==
    ASSUME NEW f, NEW S, IsFiniteSet(S), Sized(f, S), NEW g, Sums(g, f, S)
    PROVE  \A s \in SUBSET S : g[s] \in Nat
<1> DEFINE Bad == {s \in SUBSET S : g[s] \notin Nat}
<1>1. \A s \in Bad : IsFiniteSet(s)
  BY FS_Subset
<1>2. ASSUME NEW s \in Bad, \A t \in Bad : Cardinality(s) <= Cardinality(t) PROVE FALSE
  <2>1. g[s] = Sum(g, f, s)
    BY DEF Sums
  <2>2. s # {}
    BY <2>1 DEF Sum
  <2>3. s \ {Pick(s)} \in SUBSET S /\ s \ {Pick(s)} \notin Bad /\ Pick(s) \in S
    BY <1>1, <1>2, <2>2, Picked
  <2>4. QED
    BY <2>1, <2>2, <2>3 DEF Sum, Sized
<1>3. QED
  BY <1>1, <1>2, SmallestSet

\* Any element may be taken first.
LEMMA AnyOrder ==
    ASSUME NEW f, NEW S, IsFiniteSet(S), Sized(f, S), NEW g, Sums(g, f, S)
    PROVE  \A s \in SUBSET S : Unordered(g, f, s)
<1> USE DEF Unordered
<1> DEFINE Bad == {s \in SUBSET S : \E x \in s : g[s] # Len(f[x]) + g[s \ {x}]}
<1>0. \A s \in SUBSET S : IsFiniteSet(s) /\ g[s] \in Nat /\ g[s] = Sum(g, f, s)
  BY FS_Subset, SumsType DEF Sums
<1>1. ASSUME NEW s \in Bad, \A t \in Bad : Cardinality(s) <= Cardinality(t) PROVE FALSE
  <2>1. PICK x \in s : g[s] # Len(f[x]) + g[s \ {x}]
    OBVIOUS
  <2>0. s \in SUBSET S
    OBVIOUS
  <2> HIDE DEF Bad
  <2> DEFINE y == Pick(s)
  <2>2. /\ y \in s /\ IsFiniteSet(s) /\ g[s] = Len(f[y]) + g[s \ {y}] /\ Cardinality(s) \in Nat
        /\ Cardinality(s \ {y}) = Cardinality(s) - 1
    BY <1>0, <2>0, <2>1, Picked DEF Sum
  <2>3. x # y
    BY <2>1, <2>2
  <2>4. Cardinality(s \ {x}) = Cardinality(s) - 1
    BY <2>1, <2>2, FS_RemoveElement
  <2>5. s \ {x} \notin Bad /\ s \ {y} \notin Bad
    BY <1>1, <2>2, <2>4
  <2>6. g[s \ {y}] = Len(f[x]) + g[(s \ {y}) \ {x}]
    BY <2>0, <2>1, <2>3, <2>5 DEF Bad
  <2>7. g[s \ {x}] = Len(f[y]) + g[(s \ {x}) \ {y}]
    BY <2>0, <2>2, <2>3, <2>5 DEF Bad
  <2>8. (s \ {x}) \ {y} = (s \ {y}) \ {x}
    OBVIOUS
  <2>9. Len(f[x]) \in Nat /\ Len(f[y]) \in Nat /\ g[(s \ {y}) \ {x}] \in Nat
    BY <1>0, <2>0, <2>2 DEF Sized
  <2>10. PICK k \in Nat : g[s \ {y}] = Len(f[x]) + k /\ g[s \ {x}] = Len(f[y]) + k
    BY <2>6, <2>7, <2>8, <2>9
  <2>11. PICK a \in Nat, b \in Nat : a = Len(f[x]) /\ b = Len(f[y])
    BY <2>9
  <2>12. g[s] = b + (a + k) /\ Len(f[x]) + g[s \ {x}] = a + (b + k)
    BY <2>2, <2>10, <2>11
  <2>13. QED
    BY <2>1, <2>12
<1>2. QED
  BY <1>0, <1>1, SmallestSet

\* The sum over a set depends on what f has for its elements only.
LEMMA SumsAgree ==
    ASSUME NEW f, NEW S, NEW g, Sums(g, f, S), NEW e, NEW T, NEW h, Sums(h, e, T),
           NEW r, r \in SUBSET S, r \in SUBSET T, IsFiniteSet(r), \A x \in r : f[x] = e[x]
    PROVE  g[r] = h[r]
<1> DEFINE Bad == {s \in SUBSET r : g[s] # h[s]}
<1>1. \A s \in SUBSET r : IsFiniteSet(s) /\ g[s] = Sum(g, f, s) /\ h[s] = Sum(h, e, s)
  BY FS_Subset DEF Sums
<1>2. ASSUME NEW s \in Bad, \A t \in Bad : Cardinality(s) <= Cardinality(t) PROVE FALSE
  <2>1. s # {}
    BY <1>1 DEF Sum
  <2>2. Pick(s) \in r /\ s \ {Pick(s)} \in SUBSET r /\ s \ {Pick(s)} \notin Bad
    BY <1>1, <1>2, <2>1, Picked
  <2>3. QED
    BY <1>1, <2>1, <2>2 DEF Sum
<1>3. QED
  BY <1>1, <1>2, SmallestSet

-----------------------------------------------------------------------------
(* The total *)

LEMMA TotalType ==
    ASSUME NEW f, NEW S, IsFiniteSet(S), Sized(f, S)
    PROVE  Total(f, S) \in Nat
BY TotalSums, SumsType

LEMMA TotalEmpty == \A f : Total(f, {}) = 0
<1> TAKE f
<1>1. PICK g : Sums(g, f, {}) /\ Total(f, {}) = g[{}]
  BY TotalSums, FS_EmptySet
<1>2. QED
  BY <1>1 DEF Sums, Sum

LEMMA TotalAgrees ==
    ASSUME NEW f, NEW e, NEW S, IsFiniteSet(S), \A x \in S : f[x] = e[x]
    PROVE  Total(f, S) = Total(e, S)
<1>1. PICK g : Sums(g, f, S) /\ Total(f, S) = g[S]
  BY TotalSums
<1>2. PICK h : Sums(h, e, S) /\ Total(e, S) = h[S]
  BY TotalSums
<1>3. QED
  BY <1>1, <1>2, SumsAgree

\* The total over a set is that over the set without one element, and the
\* size at the element.
LEMMA TotalWithout ==
    ASSUME NEW f, NEW S, IsFiniteSet(S), Sized(f, S), NEW p \in S
    PROVE  Total(f, S) = Len(f[p]) + Total(f, S \ {p})
<1>1. PICK g : Sums(g, f, S) /\ Total(f, S) = g[S]
  BY TotalSums
<1>2. IsFiniteSet(S \ {p})
  BY FS_RemoveElement
<1>3. PICK h : Sums(h, f, S \ {p}) /\ Total(f, S \ {p}) = h[S \ {p}]
  BY <1>2, TotalSums
<1>4. g[S] = Len(f[p]) + g[S \ {p}]
  <2>1. Unordered(g, f, S)
    BY <1>1, AnyOrder
  <2>2. QED
    BY <2>1 DEF Unordered
<1>5. g[S \ {p}] = h[S \ {p}]
  BY <1>1, <1>2, <1>3, SumsAgree
<1>6. QED
  BY <1>1, <1>3, <1>4, <1>5
=============================================================================
