------------------------- MODULE FiniteSums_proofs --------------------------
(***************************************************************************)
(* Sums over a finite set, as the community modules define them: a         *)
(* recursive function on the subsets of the set, which takes away an       *)
(* element that CHOOSE picks.  The lemmas say what the invariants about    *)
(* money need: the sum exists, does not depend on the order, and moves by  *)
(* as much as the one term that is changed.                                *)
(*                                                                         *)
(* The library's induction theorems have an operator as a parameter, which *)
(* the provers cannot instantiate.  Induction is done with the least       *)
(* element of a set of counterexamples instead, which is a fact about sets.*)
(***************************************************************************)
EXTENDS Integers, FiniteSets, Functions, FiniteSetTheorems, WellFoundedInduction, TLAPS

\* The element that the fold takes from s first.
Pick(s) == CHOOSE x \in s : TRUE

\* What the recursive function g of the fold says of the set s, for terms f.
SumAt(f, g, s) == g[s] = IF s = {} THEN 0 ELSE f[Pick(s)] + g[s \ {Pick(s)}]

\* g is the recursive function of the fold over subsets of I.
IsSum(f, I, g) ==
  /\ g \in [SUBSET I -> Int]
  /\ \A s \in SUBSET I : SumAt(f, g, s)

\* A set of natural numbers that is not empty has a least element.
LEMMA LeastNat ==
  ASSUME NEW T \in SUBSET Nat, T # {}
  PROVE  \E n \in T : \A m \in T : n <= m
<1>1. \E x \in T : \A y \in T : ~ (<<y, x>> \in OpToRel(<, Nat))
  BY WFMin, NatLessThanWellFounded
<1>2. PICK n \in T : \A y \in T : ~ (<<y, n>> \in OpToRel(<, Nat))
  BY <1>1
<1>3. \A m \in T : ~ (m < n)
  BY <1>2 DEF OpToRel
<1>4. QED
  BY <1>3

\* The element picked is one of the set, and the rest is smaller by one.
LEMMA PickShrinks ==
  ASSUME NEW I, IsFiniteSet(I), NEW s \in SUBSET I, s # {}
  PROVE  /\ Pick(s) \in s
         /\ s \ {Pick(s)} \in SUBSET I
         /\ Cardinality(s) \in Nat
         /\ \A x \in s : /\ Cardinality(s \ {x}) \in Nat
                         /\ Cardinality(s \ {x}) = Cardinality(s) - 1
<1>1. Pick(s) \in s
  BY DEF Pick
<1>2. IsFiniteSet(s)
  BY FS_Subset
<1>3. Cardinality(s) \in Nat
  BY <1>2, FS_CardinalityType
<1>4. ASSUME NEW x \in s
      PROVE  Cardinality(s \ {x}) \in Nat /\ Cardinality(s \ {x}) = Cardinality(s) - 1
  <2>1. IsFiniteSet(s \ {x}) /\ Cardinality(s \ {x}) = Cardinality(s) - 1
    BY <1>2, FS_RemoveElement
  <2>2. QED
    BY <2>1, FS_CardinalityType
<1>5. QED
  BY <1>1, <1>3, <1>4

\* The recursion has a solution: a function that solves it for the sets of at most
\* n elements can be changed on those of n + 1.
LEMMA SumExists ==
  ASSUME NEW I, IsFiniteSet(I), NEW f, \A i \in I : f[i] \in Int
  PROVE  \E g : IsSum(f, I, g)
<1> DEFINE Solves(g, n) == \A s \in SUBSET I : Cardinality(s) <= n => SumAt(f, g, s)
           Bad == {n \in Nat : ~ \E g \in [SUBSET I -> Int] : Solves(g, n)}
<1>0. \A s \in SUBSET I : Cardinality(s) \in Nat /\ Cardinality(s) <= Cardinality(I)
  BY FS_Subset, FS_CardinalityType
<1>1. Bad = {}
  <2>1. SUFFICES ASSUME Bad # {} PROVE FALSE
    OBVIOUS
  <2>2. PICK n \in Bad : \A m \in Bad : n <= m
    <3>1. Bad \in SUBSET Nat
      OBVIOUS
    <3> HIDE DEF Bad
    <3>2. QED
      BY <2>1, <3>1, LeastNat
  <2>3. n \in Nat /\ ~ \E g \in [SUBSET I -> Int] : Solves(g, n)
    OBVIOUS
  <2>4. \E g \in [SUBSET I -> Int] : \A s \in SUBSET I : Cardinality(s) < n => SumAt(f, g, s)
    <3>1. CASE n = 0
      <4>1. [s \in SUBSET I |-> 0] \in [SUBSET I -> Int]
        OBVIOUS
      <4>2. \A s \in SUBSET I : ~ (Cardinality(s) < n)
        BY <3>1, <1>0
      <4>3. QED
        BY <4>1, <4>2
    <3>2. CASE n # 0
      <4>1. n - 1 \in Nat
        BY <2>3, <3>2
      <4>2. n - 1 \notin Bad
        <5> HIDE DEF Bad
        <5> QED BY <2>2, <2>3, <4>1
      <4>3. PICK g \in [SUBSET I -> Int] : Solves(g, n - 1)
        BY <4>1, <4>2
      <4>4. QED
        BY <4>3, <1>0, <2>3
    <3>3. QED
      BY <3>1, <3>2
  <2>5. PICK g \in [SUBSET I -> Int] :
          \A s \in SUBSET I : Cardinality(s) < n => SumAt(f, g, s)
    BY <2>4
  <2> DEFINE h == [s \in SUBSET I |->
                     IF s = {} THEN 0
                     ELSE IF Cardinality(s) = n THEN f[Pick(s)] + g[s \ {Pick(s)}]
                     ELSE g[s]]
  <2>6. h \in [SUBSET I -> Int]
    <3>1. ASSUME NEW s \in SUBSET I PROVE h[s] \in Int
      BY PickShrinks, <2>5
    <3>2. QED
      BY <3>1
  <2>7. ASSUME NEW s \in SUBSET I, Cardinality(s) <= n PROVE SumAt(f, h, s)
    <3>1. CASE s = {}
      BY <3>1 DEF SumAt
    <3>2. CASE s # {}
      <4> DEFINE r == s \ {Pick(s)}
      <4>1. /\ Pick(s) \in s /\ r \in SUBSET I
            /\ Cardinality(s) \in Nat /\ Cardinality(r) = Cardinality(s) - 1
        BY <3>2, PickShrinks
      <4>2. Cardinality(r) < n /\ Cardinality(r) # n
        BY <4>1, <2>7, <2>3
      <4>3. h[r] = g[r]
        <5>1. CASE r = {}
          <6>1. g[r] = 0
            BY <5>1, <4>1, <4>2, <2>5 DEF SumAt
          <6>2. QED
            BY <5>1, <6>1, <4>1
        <5>2. CASE r # {}
          BY <5>2, <4>1, <4>2
        <5>3. QED
          BY <5>1, <5>2
      <4>4. h[s] = f[Pick(s)] + g[r]
        <5>1. CASE Cardinality(s) = n
          BY <5>1, <3>2
        <5>2. CASE Cardinality(s) # n
          <6>1. Cardinality(s) < n
            BY <5>2, <4>1, <2>7, <2>3
          <6>2. g[s] = f[Pick(s)] + g[r]
            BY <6>1, <2>5, <3>2 DEF SumAt
          <6>3. QED
            BY <6>2, <5>2, <3>2
        <5>3. QED
          BY <5>1, <5>2
      <4>5. QED
        BY <4>3, <4>4, <3>2 DEF SumAt
    <3>3. QED
      BY <3>1, <3>2
  <2>8. Solves(h, n)
    BY <2>7
  <2>9. QED
    <3> HIDE DEF h
    <3> QED BY <2>3, <2>6, <2>8
<1>2. Cardinality(I) \in Nat
  BY FS_CardinalityType
<1>3. PICK g \in [SUBSET I -> Int] : Solves(g, Cardinality(I))
  BY <1>1, <1>2
<1>4. \A s \in SUBSET I : SumAt(f, g, s)
  BY <1>3, <1>0
<1>5. QED
  BY <1>4 DEF IsSum

\* The order does not matter: any element may be taken away first.
LEMMA SumAnyOrder ==
  ASSUME NEW I, IsFiniteSet(I), NEW f, \A i \in I : f[i] \in Int,
         NEW g, IsSum(f, I, g),
         NEW s \in SUBSET I, NEW x \in s
  PROVE  g[s] = f[x] + g[s \ {x}]
<1> DEFINE Holds(t) == \A y \in t : g[t] = f[y] + g[t \ {y}]
           Bad == {n \in Nat : \E t \in SUBSET I : Cardinality(t) = n /\ ~ Holds(t)}
<1>0. \A t \in SUBSET I : Cardinality(t) \in Nat
  BY FS_Subset, FS_CardinalityType
<1>1. ASSUME Bad # {} PROVE FALSE
  <2>1. PICK n \in Bad : \A m \in Bad : n <= m
    <3>1. Bad \in SUBSET Nat
      OBVIOUS
    <3> HIDE DEF Bad
    <3>2. QED
      BY <1>1, <3>1, LeastNat
  <2>2. PICK t \in SUBSET I : Cardinality(t) = n /\ ~ Holds(t)
    OBVIOUS
  <2>3. PICK y \in t : g[t] # f[y] + g[t \ {y}]
    BY <2>2
  <2> DEFINE p == Pick(t)
  <2>4. p \in t /\ g[t] = f[p] + g[t \ {p}]
    BY <2>3, PickShrinks DEF IsSum, SumAt
  <2>5. p # y
    BY <2>3, <2>4
  <2>6. ASSUME NEW z \in t PROVE Holds(t \ {z})
    <3>1. Cardinality(t \ {z}) \in Nat /\ Cardinality(t \ {z}) = n - 1 /\ n \in Nat
      BY PickShrinks, <2>2
    <3>2. Cardinality(t \ {z}) \notin Bad
      <4> HIDE DEF Bad
      <4> QED BY <2>1, <3>1
    <3>3. QED
      BY <3>1, <3>2
  <2>7. g[t \ {p}] = f[y] + g[(t \ {p}) \ {y}]
    BY <2>4, <2>5, <2>6
  <2>8. g[t \ {y}] = f[p] + g[(t \ {y}) \ {p}]
    BY <2>4, <2>5, <2>6
  <2>9. (t \ {p}) \ {y} = (t \ {y}) \ {p} /\ (t \ {p}) \ {y} \in SUBSET I
    OBVIOUS
  <2>10. f[p] \in Int /\ f[y] \in Int /\ g[(t \ {p}) \ {y}] \in Int
    BY <2>9, <2>4 DEF IsSum
  <2>11. g[t] = f[p] + (f[y] + g[(t \ {p}) \ {y}])
    BY <2>4, <2>7
  <2>12. f[y] + g[t \ {y}] = f[y] + (f[p] + g[(t \ {p}) \ {y}])
    BY <2>8, <2>9
  <2>13. \A a, b, c \in Int : a + (b + c) = b + (a + c)
    OBVIOUS
  <2>14. QED
    BY <2>3, <2>10, <2>11, <2>12, <2>13
<1>2. Holds(s)
  BY <1>0, <1>1
<1>3. QED
  BY <1>2

\* Terms that agree on a set have the same sum over it.
LEMMA SumAgrees ==
  ASSUME NEW I, IsFiniteSet(I), NEW f, NEW k,
         NEW g, \A t \in SUBSET I : SumAt(f, g, t),
         NEW h, \A t \in SUBSET I : SumAt(k, h, t),
         NEW s \in SUBSET I, \A x \in s : f[x] = k[x]
  PROVE  g[s] = h[s]
<1> DEFINE Agree(t) == (\A x \in t : f[x] = k[x]) => g[t] = h[t]
           Bad == {n \in Nat : \E t \in SUBSET I : Cardinality(t) = n /\ ~ Agree(t)}
<1>0. \A t \in SUBSET I : Cardinality(t) \in Nat
  BY FS_Subset, FS_CardinalityType
<1>1. ASSUME Bad # {} PROVE FALSE
  <2>1. PICK n \in Bad : \A m \in Bad : n <= m
    <3>1. Bad \in SUBSET Nat
      OBVIOUS
    <3> HIDE DEF Bad
    <3>2. QED
      BY <1>1, <3>1, LeastNat
  <2>2. PICK t \in SUBSET I : Cardinality(t) = n /\ ~ Agree(t)
    OBVIOUS
  <2>3. (\A x \in t : f[x] = k[x]) /\ g[t] # h[t]
    BY <2>2
  <2>4. t # {}
    BY <2>3 DEF SumAt
  <2> DEFINE r == t \ {Pick(t)}
  <2>5. /\ Pick(t) \in t /\ r \in SUBSET I
        /\ Cardinality(r) \in Nat /\ Cardinality(r) = n - 1 /\ n \in Nat
    BY <2>4, <2>2, PickShrinks
  <2>6. Cardinality(r) \notin Bad
    <3> HIDE DEF Bad, r
    <3> QED BY <2>1, <2>5
  <2>7. g[r] = h[r]
    BY <2>3, <2>5, <2>6
  <2>8. g[t] = f[Pick(t)] + g[r] /\ h[t] = k[Pick(t)] + h[r]
    BY <2>4 DEF SumAt
  <2>9. QED
    BY <2>3, <2>5, <2>7, <2>8
<1>2. Agree(s)
  BY <1>0, <1>1
<1>3. QED
  BY <1>2

\* The sum of the library is the solution of the recursion.
LEMMA SumIsSolution ==
  ASSUME NEW I, IsFiniteSet(I), NEW f, \A i \in I : f[i] \in Int
  PROVE  \E g : IsSum(f, I, g) /\ SumFunctionOnSet(f, I) = g[I]
<1> DEFINE Solution(g) ==
      g = [s \in SUBSET I |-> IF s = {} THEN 0 ELSE f[Pick(s)] + g[s \ {Pick(s)}]]
    iter == CHOOSE g : Solution(g)
<1>1. SumFunctionOnSet(f, I) = iter[I]
  BY DEF SumFunctionOnSet, FoldFunctionOnSet, MapThenFoldSet, Pick
<1>2. PICK g : IsSum(f, I, g)
  BY SumExists
<1>3. Solution(g)
  BY <1>2 DEF IsSum, SumAt
<1>4. Solution(iter)
  BY <1>3
<1>5. \A s \in SUBSET I : SumAt(f, iter, s)
  <2> HIDE DEF iter
  <2> QED BY <1>4 DEF SumAt
<1>6. \A s \in SUBSET I : SumAt(f, g, s)
  BY <1>2 DEF IsSum
<1>7. iter[I] = g[I]
  <2> HIDE DEF iter
  <2> QED BY <1>5, <1>6, SumAgrees
<1>8. QED
  <2> HIDE DEF iter
  <2> QED BY <1>1, <1>2, <1>7

\* A sum of integers is an integer.
LEMMA SumType ==
  ASSUME NEW I, IsFiniteSet(I), NEW f, \A i \in I : f[i] \in Int
  PROVE  SumFunctionOnSet(f, I) \in Int
<1>1. PICK g : IsSum(f, I, g) /\ SumFunctionOnSet(f, I) = g[I]
  BY SumIsSolution
<1>2. QED
  BY <1>1 DEF IsSum

\* Terms that agree on the set of indices have the same sum.
LEMMA SumCongruence ==
  ASSUME NEW I, IsFiniteSet(I), NEW f, NEW k,
         \A i \in I : f[i] \in Int /\ k[i] = f[i]
  PROVE  SumFunctionOnSet(k, I) = SumFunctionOnSet(f, I)
<1>1. PICK g : IsSum(f, I, g) /\ SumFunctionOnSet(f, I) = g[I]
  BY SumIsSolution
<1>2. \A i \in I : k[i] \in Int
  OBVIOUS
<1>3. PICK h : IsSum(k, I, h) /\ SumFunctionOnSet(k, I) = h[I]
  BY <1>2, SumIsSolution
<1>4. /\ \A s \in SUBSET I : SumAt(f, g, s)
      /\ \A s \in SUBSET I : SumAt(k, h, s)
  BY <1>1, <1>3 DEF IsSum
<1>5. I \in SUBSET I /\ \A i \in I : f[i] = k[i]
  OBVIOUS
<1>6. g[I] = h[I]
  BY <1>4, <1>5, SumAgrees
<1>7. QED
  BY <1>1, <1>3, <1>6

\* Where one term is changed, the sum moves by the difference.
LEMMA SumUpdate ==
  ASSUME NEW I, IsFiniteSet(I), NEW f, NEW k, NEW x \in I,
         \A i \in I : f[i] \in Int, \A i \in I : k[i] \in Int,
         \A i \in I \ {x} : f[i] = k[i]
  PROVE  SumFunctionOnSet(k, I) = SumFunctionOnSet(f, I) + (k[x] - f[x])
<1>1. PICK g : IsSum(f, I, g) /\ SumFunctionOnSet(f, I) = g[I]
  BY SumIsSolution
<1>2. PICK h : IsSum(k, I, h) /\ SumFunctionOnSet(k, I) = h[I]
  BY SumIsSolution
<1>3. I \in SUBSET I /\ I \ {x} \in SUBSET I
  OBVIOUS
<1>4. g[I] = f[x] + g[I \ {x}]
  BY <1>1, <1>3, SumAnyOrder
<1>5. h[I] = k[x] + h[I \ {x}]
  BY <1>2, <1>3, SumAnyOrder
<1>6. /\ \A s \in SUBSET I : SumAt(f, g, s)
      /\ \A s \in SUBSET I : SumAt(k, h, s)
  BY <1>1, <1>2 DEF IsSum
<1>7. g[I \ {x}] = h[I \ {x}]
  BY <1>3, <1>6, SumAgrees
<1>8. g[I \ {x}] \in Int /\ f[x] \in Int /\ k[x] \in Int
  BY <1>1, <1>3 DEF IsSum
<1>9. QED
  BY <1>1, <1>2, <1>4, <1>5, <1>7, <1>8

\* The sum of zeros is zero.
LEMMA SumZero ==
  ASSUME NEW I, IsFiniteSet(I), NEW f, \A i \in I : f[i] = 0
  PROVE  SumFunctionOnSet(f, I) = 0
<1>1. \A i \in I : f[i] \in Int
  OBVIOUS
<1>2. PICK g : IsSum(f, I, g) /\ SumFunctionOnSet(f, I) = g[I]
  BY <1>1, SumIsSolution
<1> DEFINE h == [s \in SUBSET I |-> 0]
<1>3. ASSUME NEW s \in SUBSET I PROVE SumAt(f, h, s)
  <2>1. CASE s = {}
    BY <2>1 DEF SumAt
  <2>2. CASE s # {}
    <3>1. Pick(s) \in s /\ s \ {Pick(s)} \in SUBSET I
      BY <2>2, PickShrinks
    <3>2. QED
      BY <2>2, <3>1 DEF SumAt
  <2>3. QED
    BY <2>1, <2>2
<1>4. /\ I \in SUBSET I
      /\ \A s \in SUBSET I : SumAt(f, g, s)
  BY <1>2 DEF IsSum
<1>5. h[I] = 0
  OBVIOUS
<1>6. g[I] = h[I]
  <2> HIDE DEF h
  <2> QED BY <1>3, <1>4, SumAgrees
<1>7. QED
  BY <1>2, <1>5, <1>6

\* The same of a function on a finite set of which one value is replaced.
LEMMA SumFunctionMoves ==
  ASSUME NEW I, IsFiniteSet(I), NEW f \in [I -> Int], NEW x \in I, NEW n \in Int
  PROVE  /\ SumFunction(f) \in Int
         /\ SumFunction([f EXCEPT ![x] = n]) = SumFunction(f) + (n - f[x])
<1> DEFINE k == [f EXCEPT ![x] = n]
<1>1. /\ \A i \in I : f[i] \in Int
      /\ \A i \in I : k[i] \in Int
      /\ \A i \in I \ {x} : f[i] = k[i]
      /\ k[x] = n
  OBVIOUS
<1>2. SumFunction(f) = SumFunctionOnSet(f, I) /\ SumFunction(k) = SumFunctionOnSet(k, I)
  BY DEF SumFunction
<1>3. SumFunctionOnSet(f, I) \in Int
  BY <1>1, SumType
<1>4. SumFunctionOnSet(k, I) = SumFunctionOnSet(f, I) + (k[x] - f[x])
  <2> HIDE DEF k
  <2> QED BY <1>1, SumUpdate
<1>5. QED
  <2> HIDE DEF k
  <2>1. SumFunction(k) = SumFunction(f) + (n - f[x])
    BY <1>1, <1>2, <1>4
  <2>2. QED
    BY <1>2, <1>3, <2>1 DEF k
=============================================================================
