------------------------------ MODULE SumProofs ------------------------------
(***************************************************************************)
(* Facts about sums over finite sets (SumFunctionOnSet of the community    *)
(* module Functions) that the proofs about counters rest on.               *)
(*                                                                         *)
(* A sum is defined by recursion over the subsets of a set. The recursion  *)
(* is shown to define a function (SumExists), and to be independent of the *)
(* order in which elements are taken (SumRemove). Induction is by a        *)
(* counterexample of least cardinality (LeastCardinality).                 *)
(***************************************************************************)
EXTENDS Integers, FiniteSets, Functions, FiniteSetTheorems, WellFoundedInduction, TLAPS

Pick(s) == CHOOSE x \in s : TRUE
IsSum(g, f, S) == g = [s \in SUBSET S |-> IF s = {} THEN 0 ELSE f[Pick(s)] + g[s \ {Pick(s)}]]
Partial(f, S) == CHOOSE g : IsSum(g, f, S)

-----------------------------------------------------------------------------
(* The recursion. *)

\* A set of natural numbers has a least element.
LEMMA LeastNumber ==
  ASSUME NEW N \in SUBSET Nat, N # {}
  PROVE  \E x \in N : \A y \in N : x <= y
<1> DEFINE R == OpToRel(<, Nat)
<1>1. IsWellFoundedOn(R, Nat)
  BY NatLessThanWellFounded
<1>2. \A x, y \in Nat : y < x => <<y, x>> \in R
  BY DEF OpToRel
<1> HIDE DEF R
<1>3. PICK x \in N : \A y \in N : ~(<<y, x>> \in R)
  BY <1>1, WFMin
<1>4. \A y \in N : x <= y
  <2> SUFFICES ASSUME NEW y \in N PROVE x <= y
    OBVIOUS
  <2>1. x \in Nat /\ y \in Nat
    OBVIOUS
  <2>2. ~(<<y, x>> \in R)
    BY <1>3
  <2>3. ~(y < x)
    BY <1>2, <2>1, <2>2
  <2> QED BY <2>1, <2>3
<1> QED BY <1>4

\* A set of finite sets has a smallest one.
LEMMA LeastCardinality ==
  ASSUME NEW W, W # {}, \A s \in W : IsFiniteSet(s)
  PROVE  \E s \in W : \A t \in W : Cardinality(s) <= Cardinality(t)
<1> DEFINE N == {Cardinality(s) : s \in W}
<1>1. N \in SUBSET Nat /\ N # {}
  BY FS_CardinalityType
<1>2. PICK x \in N : \A y \in N : x <= y
  BY <1>1, LeastNumber
<1> QED BY <1>2

LEMMA PickFacts ==
  ASSUME NEW s, s # {}
  PROVE  Pick(s) \in s
  BY Zenon DEF Pick

LEMMA Unfold ==
  ASSUME NEW f, NEW S
  PROVE  SumFunctionOnSet(f, S) = Partial(f, S)[S]
  BY Zenon DEF SumFunctionOnSet, FoldFunctionOnSet, MapThenFoldSet, IsSum, Pick, Partial

\* The smaller set left by removing the picked element.
LEMMA Remaining ==
  ASSUME NEW s, IsFiniteSet(s), s # {}
  PROVE  /\ IsFiniteSet(s \ {Pick(s)}) /\ Cardinality(s \ {Pick(s)}) = Cardinality(s) - 1
         /\ Cardinality(s) \in Nat /\ Cardinality(s) > 0
  BY PickFacts, FS_RemoveElement, FS_CardinalityType, FS_EmptySet

LEMMA SumExists ==
  ASSUME NEW f, NEW S, IsFiniteSet(S)
  PROVE  IsSum(Partial(f, S), f, S)
<1> DEFINE D(n) == {s \in SUBSET S : Cardinality(s) <= n}
           Eq(g, s) == g[s] = IF s = {} THEN 0 ELSE f[Pick(s)] + g[s \ {Pick(s)}]
           Up(n) == \E g : g = [s \in D(n) |-> g[s]] /\ \A s \in D(n) : Eq(g, s)
<1>1. \A s \in SUBSET S : IsFiniteSet(s) /\ Cardinality(s) \in Nat
  BY FS_Subset, FS_CardinalityType
<1>2. Up(0)
  <2>1. D(0) = {{}}
    BY <1>1, FS_EmptySet
  <2> DEFINE g == [s \in D(0) |-> 0]
  <2>2. g = [s \in D(0) |-> g[s]] /\ \A s \in D(0) : Eq(g, s)
    BY <2>1
  <2> QED BY <2>2
<1>3. ASSUME NEW n \in Nat, Up(n) PROVE Up(n + 1)
  <2>1. PICK g : g = [s \in D(n) |-> g[s]] /\ \A s \in D(n) : Eq(g, s)
    BY <1>3
  <2> DEFINE h == [s \in D(n + 1) |-> IF s = {} THEN 0 ELSE f[Pick(s)] + g[s \ {Pick(s)}]]
  <2>2. \A s \in D(n + 1) : s # {} => s \ {Pick(s)} \in D(n)
    BY <1>1, Remaining
  <2>3. \A s \in D(n) : s \in D(n + 1) /\ h[s] = g[s]
    <3> SUFFICES ASSUME NEW s \in D(n) PROVE s \in D(n + 1) /\ h[s] = g[s]
      OBVIOUS
    <3>1. s \in D(n + 1)
      BY <1>1
    <3>2. Eq(g, s)
      BY <2>1
    <3>3. h[s] = IF s = {} THEN 0 ELSE f[Pick(s)] + g[s \ {Pick(s)}]
      BY <3>1
    <3> QED BY <3>1, <3>2, <3>3
  <2>4. \A s \in D(n + 1) : Eq(h, s)
    BY <2>2, <2>3
  <2>5. h = [s \in D(n + 1) |-> h[s]]
    OBVIOUS
  <2> HIDE DEF h, D
  <2> QED BY <2>4, <2>5
<1> HIDE DEF Up
<1>4. ASSUME NEW n \in Nat PROVE Up(n)
  <2> DEFINE bad == {i \in Nat : ~Up(i)}
  <2>1. ASSUME bad # {} PROVE FALSE
    <3>1. PICK m \in bad : \A i \in bad : m <= i
      BY <2>1, LeastNumber
    <3>2. m # 0
      BY <3>1, <1>2
    <3>3. m - 1 \in Nat /\ (m - 1) + 1 = m /\ ~(m <= m - 1)
      BY <3>1, <3>2
    <3>4. Up(m - 1)
      BY <3>1, <3>3
    <3>5. Up((m - 1) + 1)
      BY <3>3, <3>4, <1>3
    <3> QED BY <3>1, <3>3, <3>5
  <2> QED BY <2>1
<1>5. D(Cardinality(S)) = SUBSET S
  BY <1>1, FS_Subset
<1>6. PICK g : g = [s \in SUBSET S |-> g[s]] /\ \A s \in SUBSET S : Eq(g, s)
  <2>1. Up(Cardinality(S))
    BY <1>1, <1>4
  <2>2. PICK g : g = [s \in D(Cardinality(S)) |-> g[s]] /\ \A s \in D(Cardinality(S)) : Eq(g, s)
    BY <2>1 DEF Up
  <2> HIDE DEF D, Eq
  <2> QED BY <1>5, <2>2
<1>7. IsSum(g, f, S)
  <2> DEFINE h == [s \in SUBSET S |-> IF s = {} THEN 0 ELSE f[Pick(s)] + g[s \ {Pick(s)}]]
  <2>1. \A s \in SUBSET S : g[s] = h[s]
    BY <1>6
  <2>2. g = h
    BY <1>6, <2>1
  <2> QED BY <2>2 DEF IsSum
<1> QED BY <1>7, Zenon DEF Partial

\* The value of the recursion on a set does not depend on the set it was
\* started for.
LEMMA PartialFacts ==
  ASSUME NEW f, NEW S, IsFiniteSet(S), NEW T \in SUBSET S
  PROVE  Partial(f, S)[T] = SumFunctionOnSet(f, T)
<1> DEFINE g == Partial(f, S)
           h == Partial(f, T)
<1>1. IsSum(g, f, S) /\ IsSum(h, f, T)
  BY SumExists, FS_Subset
<1> HIDE DEF g, h
<1>2. ASSUME NEW s \in SUBSET T PROVE g[s] = h[s]
  <2> DEFINE bad == {t \in SUBSET T : g[t] # h[t]}
  <2>1. ASSUME bad # {} PROVE FALSE
    <3>1. \A t \in SUBSET T : IsFiniteSet(t) /\ Cardinality(t) \in Nat
      BY FS_Subset, FS_CardinalityType
    <3>2. PICK t \in bad : \A u \in bad : Cardinality(t) <= Cardinality(u)
      BY <2>1, <3>1, LeastCardinality
    <3>3. /\ g[t] = IF t = {} THEN 0 ELSE f[Pick(t)] + g[t \ {Pick(t)}]
          /\ h[t] = IF t = {} THEN 0 ELSE f[Pick(t)] + h[t \ {Pick(t)}]
      BY <1>1 DEF IsSum
    <3>4. t # {} /\ g[t \ {Pick(t)}] # h[t \ {Pick(t)}]
      BY <3>2, <3>3
    <3>5. t \ {Pick(t)} \in bad
      BY <3>4
    <3>6. Cardinality(t \ {Pick(t)}) = Cardinality(t) - 1 /\ Cardinality(t) \in Nat
      BY <3>1, <3>4, Remaining
    <3>7. Cardinality(t) <= Cardinality(t \ {Pick(t)})
      BY <3>2, <3>5
    <3> QED BY <3>6, <3>7
  <2> QED BY <2>1
<1>3. g[T] = h[T]
  BY <1>2
<1> QED BY <1>3, Unfold DEF g, h
-----------------------------------------------------------------------------
(* Sums. *)

Sum(f, S) == SumFunctionOnSet(f, S)

\* The empty sum.
LEMMA SumEmpty == ASSUME NEW f PROVE Sum(f, {}) = 0
<1>1. IsFiniteSet({})
  BY FS_EmptySet
<1>2. IsSum(Partial(f, {}), f, {})
  BY <1>1, SumExists
<1>3. Partial(f, {})[{}] = 0
  BY <1>2 DEF IsSum
<1> QED BY <1>3, Unfold DEF Sum

\* A sum takes the picked element first.
LEMMA SumPick ==
  ASSUME NEW f, NEW S, IsFiniteSet(S), S # {}
  PROVE  Sum(f, S) = f[Pick(S)] + Sum(f, S \ {Pick(S)})
<1> DEFINE g == Partial(f, S)
<1>1. IsSum(g, f, S)
  BY SumExists
<1> HIDE DEF g
<1>2. g[S] = f[Pick(S)] + g[S \ {Pick(S)}]
  BY <1>1 DEF IsSum
<1>3. g[S] = Sum(f, S) /\ g[S \ {Pick(S)}] = Sum(f, S \ {Pick(S)})
  BY PartialFacts DEF g, Sum
<1> QED BY <1>2, <1>3

\* A sum of integers is an integer.
LEMMA SumType ==
  ASSUME NEW f, NEW S, IsFiniteSet(S), \A x \in S : f[x] \in Int
  PROVE  Sum(f, S) \in Int
<1> DEFINE bad == {t \in SUBSET S : Sum(f, t) \notin Int}
<1>1. \A t \in SUBSET S : IsFiniteSet(t) /\ Cardinality(t) \in Nat
  BY FS_Subset, FS_CardinalityType
<1>2. ASSUME bad # {} PROVE FALSE
  <2>1. PICK t \in bad : \A u \in bad : Cardinality(t) <= Cardinality(u)
    BY <1>1, <1>2, LeastCardinality
  <2>2. t # {}
    BY <2>1, SumEmpty
  <2>3. Pick(t) \in S /\ t \ {Pick(t)} \in SUBSET S
    BY <2>2, PickFacts
  <2>4. Cardinality(t \ {Pick(t)}) = Cardinality(t) - 1 /\ Cardinality(t) \in Nat
    BY <1>1, <2>2, Remaining
  <2>5. t \ {Pick(t)} \notin bad
    BY <2>1, <2>4
  <2>6. Sum(f, t \ {Pick(t)}) \in Int
    BY <2>3, <2>5
  <2>7. Sum(f, t) = f[Pick(t)] + Sum(f, t \ {Pick(t)})
    BY <1>1, <2>2, SumPick
  <2> QED BY <2>1, <2>3, <2>6, <2>7
<1> QED BY <1>2

\* Any element may be taken first.
LEMMA SumRemove ==
  ASSUME NEW f, NEW S, IsFiniteSet(S), \A x \in S : f[x] \in Int, NEW x \in S
  PROVE  Sum(f, S) = f[x] + Sum(f, S \ {x})
<1> DEFINE bad == {t \in SUBSET S : \E y \in t : Sum(f, t) # f[y] + Sum(f, t \ {y})}
<1>1. \A t \in SUBSET S : IsFiniteSet(t) /\ Cardinality(t) \in Nat /\ Sum(f, t) \in Int
  BY FS_Subset, FS_CardinalityType, SumType
<1>2. ASSUME bad # {} PROVE FALSE
  <2>1. PICK t \in bad : \A u \in bad : Cardinality(t) <= Cardinality(u)
    BY <1>1, <1>2, LeastCardinality
  <2>2. PICK y \in t : Sum(f, t) # f[y] + Sum(f, t \ {y})
    BY <2>1
  <2> DEFINE z == Pick(t)
             rest == (t \ {y}) \ {z}
  <2>3. z \in t /\ Sum(f, t) = f[z] + Sum(f, t \ {z})
    BY <1>1, PickFacts, SumPick
  <2>4. y # z
    BY <2>2, <2>3
  <2> HIDE DEF z
  <2>5. /\ t \ {z} \in SUBSET S /\ t \ {y} \in SUBSET S /\ rest \in SUBSET S
        /\ y \in t \ {z} /\ z \in t \ {y} /\ rest = (t \ {z}) \ {y}
    BY <2>3, <2>4
  <2>6. Cardinality(t \ {z}) = Cardinality(t) - 1 /\ Cardinality(t \ {y}) = Cardinality(t) - 1 /\ Cardinality(t) \in Nat
    BY <1>1, <2>3, FS_RemoveElement
  <2>7. t \ {z} \notin bad /\ t \ {y} \notin bad
    <3> HIDE DEF bad
    <3> QED BY <2>1, <2>6
  <2>8. Sum(f, t \ {z}) = f[y] + Sum(f, (t \ {z}) \ {y})
    BY <2>5, <2>7
  <2>9. Sum(f, t \ {y}) = f[z] + Sum(f, (t \ {y}) \ {z})
    BY <2>5, <2>7
  <2>10. f[y] \in Int /\ f[z] \in Int /\ Sum(f, rest) \in Int
    BY <1>1, <2>3, <2>5
  <2>11. Sum(f, t) = f[z] + (f[y] + Sum(f, rest)) /\ f[y] + Sum(f, t \ {y}) = f[y] + (f[z] + Sum(f, rest))
    BY <2>3, <2>5, <2>8, <2>9
  <2> HIDE DEF rest
  <2> QED BY <2>2, <2>10, <2>11
<1> QED BY <1>2

\* Adding an element.
LEMMA SumAdd ==
  ASSUME NEW f, NEW S, IsFiniteSet(S), NEW x, x \notin S, \A y \in S \cup {x} : f[y] \in Int
  PROVE  Sum(f, S \cup {x}) = f[x] + Sum(f, S)
<1>1. IsFiniteSet(S \cup {x}) /\ (S \cup {x}) \ {x} = S /\ x \in S \cup {x}
  BY FS_AddElement
<1> QED BY <1>1, SumRemove

\* A sum depends only on the terms of its elements.
LEMMA SumSame ==
  ASSUME NEW f, NEW g, NEW S, IsFiniteSet(S), \A x \in S : f[x] = g[x]
  PROVE  Sum(f, S) = Sum(g, S)
<1> DEFINE bad == {t \in SUBSET S : Sum(f, t) # Sum(g, t)}
<1>1. \A t \in SUBSET S : IsFiniteSet(t) /\ Cardinality(t) \in Nat
  BY FS_Subset, FS_CardinalityType
<1>2. ASSUME bad # {} PROVE FALSE
  <2>1. PICK t \in bad : \A u \in bad : Cardinality(t) <= Cardinality(u)
    BY <1>1, <1>2, LeastCardinality
  <2>2. t # {}
    BY <2>1, SumEmpty
  <2>3. Pick(t) \in S /\ t \ {Pick(t)} \in SUBSET S
    BY <2>2, PickFacts
  <2>4. Cardinality(t \ {Pick(t)}) = Cardinality(t) - 1 /\ Cardinality(t) \in Nat
    BY <1>1, <2>2, Remaining
  <2>5. Sum(f, t \ {Pick(t)}) = Sum(g, t \ {Pick(t)})
    BY <2>1, <2>3, <2>4
  <2>6. /\ Sum(f, t) = f[Pick(t)] + Sum(f, t \ {Pick(t)})
        /\ Sum(g, t) = g[Pick(t)] + Sum(g, t \ {Pick(t)})
    BY <1>1, <2>2, SumPick
  <2> QED BY <2>1, <2>3, <2>5, <2>6
<1> QED BY <1>2

\* The sum over two disjoint sets.
LEMMA SumDisjoint ==
  ASSUME NEW f, NEW S, IsFiniteSet(S), NEW T, IsFiniteSet(T), S \cap T = {}, \A x \in S \cup T : f[x] \in Int
  PROVE  Sum(f, S \cup T) = Sum(f, S) + Sum(f, T)
<1> DEFINE bad == {t \in SUBSET T : Sum(f, S \cup t) # Sum(f, S) + Sum(f, t)}
<1>1. \A t \in SUBSET T : /\ IsFiniteSet(t) /\ Cardinality(t) \in Nat /\ Sum(f, t) \in Int
                          /\ IsFiniteSet(S \cup t) /\ Sum(f, S \cup t) \in Int
  BY FS_Subset, FS_CardinalityType, FS_Union, SumType
<1>2. Sum(f, S) \in Int
  BY SumType
<1>3. ASSUME bad # {} PROVE FALSE
  <2>1. PICK t \in bad : \A u \in bad : Cardinality(t) <= Cardinality(u)
    BY <1>1, <1>3, LeastCardinality
  <2>2. t # {}
    <3>1. S \cup {} = S
      OBVIOUS
    <3> QED BY <2>1, <3>1, <1>2, SumEmpty
  <2>3. PICK y \in t : TRUE
    BY <2>2
  <2> DEFINE u == t \ {y}
  <2>4. u \in SUBSET T /\ y \notin S /\ (S \cup t) \ {y} = S \cup u
    BY <2>3
  <2>5. Cardinality(u) = Cardinality(t) - 1 /\ Cardinality(t) \in Nat
    BY <1>1, <2>3, FS_RemoveElement
  <2>6. u \notin bad
    BY <2>1, <2>5
  <2>7. Sum(f, S \cup u) = Sum(f, S) + Sum(f, u)
    BY <2>4, <2>6
  <2>8. Sum(f, t) = f[y] + Sum(f, u)
    BY <1>1, <2>3, SumRemove
  <2>9. Sum(f, S \cup t) = f[y] + Sum(f, S \cup u)
    BY <1>1, <2>3, <2>4, SumRemove
  <2>10. f[y] \in Int /\ Sum(f, u) \in Int /\ Sum(f, S \cup u) \in Int
    BY <1>1, <2>3, <2>4
  <2> HIDE DEF u
  <2> QED BY <1>2, <2>1, <2>7, <2>8, <2>9, <2>10
<1> QED BY <1>3

\* A sum of natural numbers.
LEMMA SumNat ==
  ASSUME NEW f, NEW S, IsFiniteSet(S), \A x \in S : f[x] \in Nat
  PROVE  Sum(f, S) \in Nat
<1> DEFINE bad == {t \in SUBSET S : Sum(f, t) \notin Nat}
<1>1. \A t \in SUBSET S : IsFiniteSet(t) /\ Cardinality(t) \in Nat
  BY FS_Subset, FS_CardinalityType
<1>2. ASSUME bad # {} PROVE FALSE
  <2>1. PICK t \in bad : \A u \in bad : Cardinality(t) <= Cardinality(u)
    BY <1>1, <1>2, LeastCardinality
  <2>2. t # {}
    BY <2>1, SumEmpty
  <2>3. Pick(t) \in S /\ t \ {Pick(t)} \in SUBSET S
    BY <2>2, PickFacts
  <2>4. Cardinality(t \ {Pick(t)}) = Cardinality(t) - 1 /\ Cardinality(t) \in Nat
    BY <1>1, <2>2, Remaining
  <2>5. t \ {Pick(t)} \notin bad
    BY <2>1, <2>4
  <2>6. Sum(f, t \ {Pick(t)}) \in Nat
    BY <2>3, <2>5
  <2>7. Sum(f, t) = f[Pick(t)] + Sum(f, t \ {Pick(t)})
    BY <1>1, <2>2, SumPick
  <2> QED BY <2>1, <2>3, <2>6, <2>7
<1> QED BY <1>2

\* The sum of two sums, element by element.
LEMMA SumPlus ==
  ASSUME NEW f, NEW g, NEW h, NEW S, IsFiniteSet(S),
         \A x \in S : f[x] \in Int /\ g[x] \in Int /\ h[x] = f[x] + g[x]
  PROVE  Sum(h, S) = Sum(f, S) + Sum(g, S)
<1> DEFINE bad == {t \in SUBSET S : Sum(h, t) # Sum(f, t) + Sum(g, t)}
<1>1. \A t \in SUBSET S : IsFiniteSet(t) /\ Cardinality(t) \in Nat /\ Sum(f, t) \in Int /\ Sum(g, t) \in Int
  BY FS_Subset, FS_CardinalityType, SumType
<1>2. ASSUME bad # {} PROVE FALSE
  <2>1. PICK t \in bad : \A u \in bad : Cardinality(t) <= Cardinality(u)
    BY <1>1, <1>2, LeastCardinality
  <2>2. t # {}
    <3>1. Sum(f, {}) = 0 /\ Sum(g, {}) = 0 /\ Sum(h, {}) = 0
      BY SumEmpty
    <3> QED BY <2>1, <3>1
  <2> DEFINE x == Pick(t)
             u == t \ {x}
  <2>3. x \in S /\ u \in SUBSET S
    BY <2>2, PickFacts
  <2>4. Cardinality(u) = Cardinality(t) - 1 /\ Cardinality(t) \in Nat
    BY <1>1, <2>2, Remaining
  <2>5. u \notin bad
    BY <2>1, <2>4
  <2>6. Sum(h, u) = Sum(f, u) + Sum(g, u)
    BY <2>3, <2>5
  <2>7. /\ Sum(f, t) = f[x] + Sum(f, u)
        /\ Sum(g, t) = g[x] + Sum(g, u)
        /\ Sum(h, t) = h[x] + Sum(h, u)
    BY <1>1, <2>2, SumPick
  <2>8. f[x] \in Int /\ g[x] \in Int /\ h[x] = f[x] + g[x] /\ Sum(f, u) \in Int /\ Sum(g, u) \in Int
    BY <1>1, <2>3
  <2> HIDE DEF x, u
  <2> QED BY <2>1, <2>6, <2>7, <2>8
<1> QED BY <1>2

\* A sum without terms.
LEMMA SumZero ==
  ASSUME NEW f, NEW S, IsFiniteSet(S), \A x \in S : f[x] = 0
  PROVE  Sum(f, S) = 0
<1>1. Sum(f, S) = Sum(f, S) + Sum(f, S)
  BY SumPlus
<1>2. Sum(f, S) \in Int
  BY SumType
<1>3. \A v \in Int : v = v + v => v = 0
  OBVIOUS
<1> QED BY <1>1, <1>2, <1>3

\* A sum over part of a set, as a sum over the set.
LEMMA SumPart ==
  ASSUME NEW f, NEW g, NEW S, IsFiniteSet(S), NEW T \in SUBSET S,
         \A x \in T : f[x] \in Int /\ g[x] = f[x], \A x \in S \ T : g[x] = 0
  PROVE  Sum(g, S) = Sum(f, T)
<1>1. IsFiniteSet(T) /\ IsFiniteSet(S \ T) /\ T \cap (S \ T) = {} /\ T \cup (S \ T) = S
  BY FS_Subset
<1>2. \A x \in T \cup (S \ T) : g[x] \in Int
  OBVIOUS
<1>3. Sum(g, T \cup (S \ T)) = Sum(g, T) + Sum(g, S \ T)
  BY <1>1, <1>2, SumDisjoint
<1>4. Sum(g, S \ T) = 0
  BY <1>1, SumZero
<1>5. Sum(g, T) = Sum(f, T)
  BY <1>1, SumSame
<1>6. Sum(f, T) \in Int
  BY <1>1, SumType
<1> QED BY <1>1, <1>3, <1>4, <1>5, <1>6

\* A sum in which one term changes.
LEMMA SumChange ==
  ASSUME NEW f, NEW g, NEW S, IsFiniteSet(S), NEW x \in S,
         \A y \in S : f[y] \in Int /\ g[y] \in Int, \A y \in S \ {x} : g[y] = f[y]
  PROVE  Sum(g, S) = Sum(f, S) + (g[x] - f[x])
<1>1. Sum(f, S) = f[x] + Sum(f, S \ {x}) /\ Sum(g, S) = g[x] + Sum(g, S \ {x})
  BY SumRemove
<1>2. IsFiniteSet(S \ {x})
  BY FS_RemoveElement
<1>3. Sum(g, S \ {x}) = Sum(f, S \ {x})
  BY <1>2, SumSame
<1>4. Sum(f, S \ {x}) \in Int /\ f[x] \in Int /\ g[x] \in Int
  BY <1>2, SumType
<1> QED BY <1>1, <1>3, <1>4
=============================================================================
