------------------------------ MODULE SumLemmas ------------------------------
(***************************************************************************)
(* What a sum over a finite set is: the facts about MapThenSumSet that the *)
(* books of the KV memory rest on.  The fold is a recursive function that  *)
(* takes out whichever element CHOOSE picks.  Where a proof by induction   *)
(* on the size of a set is wanted, a smallest counterexample is taken      *)
(* instead (LeastNat, SmallestSet).                                        *)
(***************************************************************************)
EXTENDS Integers, FiniteSetsExt, FiniteSetTheorems, WellFoundedInduction, TLAPS

\* The sum of f over S.
SumOf(f, S) == MapThenSumSet(LAMBDA r : f[r], S)

\* The element the fold takes out next.
Pick(s) == CHOOSE x \in s : TRUE

\* The sum over s by way of the sums g of smaller sets.
Unrolled(f, g, s) == IF s = {} THEN 0 ELSE f[Pick(s)] + g[s \ {Pick(s)}]

\* g satisfies the equation of the fold on the sets in D; the fold is a g that
\* does on all subsets of S.
Solves(g, f, D) == g = [s \in D |-> Unrolled(f, g, s)]
Sums(f, S) == CHOOSE g : Solves(g, f, SUBSET S)

\* The definitions of the library say no more than that.
LEMMA Unfold ==
  ASSUME NEW f, NEW S
  PROVE  SumOf(f, S) = Sums(f, S)[S]
  BY DEF MapThenSumSet, MapThenFoldSet, SumOf, Sums, Solves, Unrolled, Pick

\* A set of naturals has a least element.
LEMMA LeastNat ==
  ASSUME NEW T \in SUBSET Nat, T # {}
  PROVE  \E n \in T : \A m \in T : n <= m
<1> DEFINE R == OpToRel(<, Nat)
<1>1. IsWellFoundedOn(R, Nat)
  BY NatLessThanWellFounded
<1>3. \A m, n \in Nat : m < n => <<m, n>> \in R
  BY DEF OpToRel
<1> HIDE DEF R
<1>4. PICK n \in T : \A m \in T : ~ (<<m, n>> \in R)
  BY <1>1, WFMin
<1>2. \A m \in T : ~(m < n)
  BY <1>4, <1>3
<1> QED BY <1>2

\* The subsets of at most n elements.
UpTo(S, n) == {s \in SUBSET S : Cardinality(s) <= n}

\* The equation of the fold has a solution, built up by the size of the sets.
LEMMA SumsExist ==
  ASSUME NEW S, IsFiniteSet(S), NEW f, NEW n \in Nat
  PROVE  \E g : Solves(g, f, UpTo(S, n))
<1> USE DEF Solves, Unrolled
<1> DEFINE P(m) == \E g : Solves(g, f, UpTo(S, m))
           Bad == {m \in Nat : ~P(m)}
<1> SUFFICES ASSUME Bad # {} PROVE FALSE
  OBVIOUS
<1>1. PICK m \in Bad : \A k \in Bad : m <= k
  <2> HIDE DEF P
  <2> QED BY LeastNat
<1>a. \A s \in SUBSET S : IsFiniteSet(s) /\ Cardinality(s) \in Nat
  BY FS_Subset, FS_CardinalityType
<1>b. \A s \in SUBSET S : s # {} => /\ Pick(s) \in s
                                   /\ s \ {Pick(s)} \in SUBSET S
                                   /\ Cardinality(s \ {Pick(s)}) = Cardinality(s) - 1
  BY <1>a, FS_RemoveElement DEF Pick
<1>2. m # 0
  <2> SUFFICES ASSUME m = 0 PROVE FALSE
    OBVIOUS
  <2>1. \A s \in UpTo(S, 0) : s = {}
    BY <1>a, FS_EmptySet DEF UpTo
  <2>2. [s \in UpTo(S, 0) |-> 0] = [s \in UpTo(S, 0) |-> Unrolled(f, [t \in UpTo(S, 0) |-> 0], s)]
    BY <2>1
  <2>3. P(0)
    BY <2>2
  <2> HIDE DEF P
  <2> QED BY <2>3
<1>3. m \in Nat /\ m - 1 \in Nat /\ m - 1 < m
  BY <1>2
<1>4. P(m - 1)
  <2> HIDE DEF P
  <2> QED BY <1>1, <1>3
<1>5. PICK g : g = [s \in UpTo(S, m - 1) |-> Unrolled(f, g, s)]
  BY <1>4
<1> DEFINE h == [s \in UpTo(S, m) |-> Unrolled(f, g, s)]
<1>6. \A s \in UpTo(S, m - 1) : s \in UpTo(S, m) /\ h[s] = g[s]
  <2> SUFFICES ASSUME NEW s \in UpTo(S, m - 1) PROVE s \in UpTo(S, m) /\ h[s] = g[s]
    OBVIOUS
  <2>1. s \in UpTo(S, m)
    BY <1>a, <1>3 DEF UpTo
  <2>2. g[s] = Unrolled(f, g, s)
    BY <1>5
  <2> QED BY <2>1, <2>2
<1>7. \A s \in UpTo(S, m) : s # {} => s \ {Pick(s)} \in UpTo(S, m - 1)
  BY <1>a, <1>b, <1>3 DEF UpTo
<1>8. h = [s \in UpTo(S, m) |-> Unrolled(f, h, s)]
  <2>1. \A s \in UpTo(S, m) : s # {} => h[s \ {Pick(s)}] = g[s \ {Pick(s)}]
    BY <1>6, <1>7
  <2> QED BY <2>1
<1>9. P(m)
  <2> HIDE DEF h
  <2> QED BY <1>8
<1> HIDE DEF P
<1> QED BY <1>9

\* A smallest set of a family of subsets of a finite set.
LEMMA SmallestSet ==
  ASSUME NEW S, IsFiniteSet(S), NEW B \in SUBSET SUBSET S, B # {}
  PROVE  \E T \in B : IsFiniteSet(T) /\ \A U \in B : U \subseteq T => U = T
<1>1. \A s \in SUBSET S : IsFiniteSet(s) /\ Cardinality(s) \in Nat
  BY FS_Subset, FS_CardinalityType
<1> DEFINE N == {Cardinality(s) : s \in B}
<1>2. N \in SUBSET Nat /\ N # {}
  BY <1>1
<1>3. PICK n \in N : \A m \in N : n <= m
  <2> HIDE DEF N
  <2> QED BY <1>2, LeastNat
<1>4. PICK T \in B : n = Cardinality(T)
  OBVIOUS
<1>5. ASSUME NEW U \in B, U \subseteq T PROVE U = T
  <2>1. n <= Cardinality(U)
    BY <1>3
  <2>2. /\ IsFiniteSet(T) /\ U \in SUBSET T
        /\ Cardinality(T) \in Nat /\ Cardinality(U) \in Nat
    BY <1>1, <1>5
  <2>3. Cardinality(U) <= Cardinality(T)
    BY <2>2, FS_Subset
  <2>4. Cardinality(T) = Cardinality(U)
    BY <2>1, <2>2, <2>3, <1>4
  <2> QED BY <2>2, <2>4, FS_Subset
<1> QED BY <1>1, <1>5

\* So the fold satisfies it.
LEMMA SumsEquation ==
  ASSUME NEW S, IsFiniteSet(S), NEW f
  PROVE  \A s \in SUBSET S :
           Sums(f, S)[s] = Unrolled(f, Sums(f, S), s)
<1>1. Cardinality(S) \in Nat
  BY FS_CardinalityType
<1>2. UpTo(S, Cardinality(S)) = SUBSET S
  BY FS_Subset DEF UpTo
<1>3. \E g : Solves(g, f, SUBSET S)
  <2>1. \A n \in Nat : \E g : Solves(g, f, UpTo(S, n))
    BY SumsExist
  <2>2. \E g : Solves(g, f, UpTo(S, Cardinality(S)))
    BY <2>1, <1>1
  <2> QED BY <2>2, <1>2
<1>4. Solves(Sums(f, S), f, SUBSET S)
  BY <1>3 DEF Sums
<1> DEFINE g == Sums(f, S)
<1> SUFFICES \A s \in SUBSET S : g[s] = Unrolled(f, g, s)
  OBVIOUS
<1>5. g = [s \in SUBSET S |-> Unrolled(f, g, s)]
  BY <1>4 DEF Solves
<1> HIDE DEF g
<1> QED BY <1>5

\* What is summed up for a set does not depend on the set it is taken of.
LEMMA SumsAgree ==
  ASSUME NEW S, IsFiniteSet(S), NEW T \in SUBSET S, NEW f
  PROVE  \A s \in SUBSET T : Sums(f, T)[s] = Sums(f, S)[s]
<1> DEFINE g == Sums(f, T)
           h == Sums(f, S)
           B == {s \in SUBSET T : g[s] # h[s]}
<1>1. IsFiniteSet(T)
  BY FS_Subset
<1>2. \A s \in SUBSET T : g[s] = Unrolled(f, g, s)
  BY <1>1, SumsEquation
<1>3. \A s \in SUBSET S : h[s] = Unrolled(f, h, s)
  BY SumsEquation
<1> HIDE DEF g, h
<1> SUFFICES ASSUME B # {} PROVE FALSE
  BY DEF g, h
<1>4. PICK s \in B : \A U \in B : U \subseteq s => U = s
  <2>1. B \in SUBSET SUBSET T
    OBVIOUS
  <2> HIDE DEF B
  <2> QED BY <2>1, <1>1, SmallestSet
<1>5. s # {} /\ Pick(s) \in s
  BY <1>2, <1>3 DEF Unrolled, Pick
<1>6. s \ {Pick(s)} \notin B
  BY <1>4, <1>5
<1>7. g[s \ {Pick(s)}] = h[s \ {Pick(s)}]
  BY <1>6
<1> QED BY <1>2, <1>3, <1>5, <1>7 DEF Unrolled

\* The sum over no element.
LEMMA SumEmpty ==
  ASSUME NEW f
  PROVE  SumOf(f, {}) = 0
  BY Unfold, SumsEquation, FS_EmptySet DEF Unrolled

\* The equation of the fold: the element it picks, and the rest.
LEMMA SumPick ==
  ASSUME NEW S, IsFiniteSet(S), S # {}, NEW f
  PROVE  Pick(S) \in S /\ SumOf(f, S) = f[Pick(S)] + SumOf(f, S \ {Pick(S)})
<1>1. Pick(S) \in S
  BY DEF Pick
<1>2. Sums(f, S)[S] = f[Pick(S)] + Sums(f, S)[S \ {Pick(S)}]
  BY SumsEquation DEF Unrolled
<1>3. Sums(f, S)[S \ {Pick(S)}] = Sums(f, S \ {Pick(S)})[S \ {Pick(S)}]
  BY SumsAgree
<1> QED BY <1>1, <1>2, <1>3, Unfold

\* Integers sum up to an integer.
LEMMA SumType ==
  ASSUME NEW S, IsFiniteSet(S), NEW f, \A x \in S : f[x] \in Int
  PROVE  SumOf(f, S) \in Int
<1> DEFINE B == {s \in SUBSET S : SumOf(f, s) \notin Int}
<1> SUFFICES ASSUME B # {} PROVE FALSE
  OBVIOUS
<1>1. PICK s \in B : IsFiniteSet(s) /\ \A U \in B : U \subseteq s => U = s
  <2>1. B \in SUBSET SUBSET S
    OBVIOUS
  <2> HIDE DEF B
  <2> QED BY <2>1, SmallestSet
<1>2. s # {}
  BY SumEmpty
<1>3. Pick(s) \in s /\ SumOf(f, s) = f[Pick(s)] + SumOf(f, s \ {Pick(s)})
  BY <1>1, <1>2, SumPick
<1>4. SumOf(f, s \ {Pick(s)}) \in Int
  BY <1>1, <1>3
<1> QED BY <1>3, <1>4

\* Whichever element is taken out, the sum is that element and the rest.
LEMMA SumSplit ==
  ASSUME NEW S, IsFiniteSet(S), NEW x \in S, NEW f, \A y \in S : f[y] \in Int
  PROVE  SumOf(f, S) = f[x] + SumOf(f, S \ {x})
<1> DEFINE B == {s \in SUBSET S : \E y \in s : SumOf(f, s) # f[y] + SumOf(f, s \ {y})}
<1> SUFFICES ASSUME B # {} PROVE FALSE
  OBVIOUS
<1>0. \A s \in SUBSET S : IsFiniteSet(s) /\ SumOf(f, s) \in Int
  BY FS_Subset, SumType
<1>1. PICK s \in B : IsFiniteSet(s) /\ \A U \in B : U \subseteq s => U = s
  <2>1. B \in SUBSET SUBSET S
    OBVIOUS
  <2> HIDE DEF B
  <2> QED BY <2>1, SmallestSet
<1>2. PICK y \in s : SumOf(f, s) # f[y] + SumOf(f, s \ {y})
  OBVIOUS
<1> DEFINE z == Pick(s)
<1>3. z \in s /\ SumOf(f, s) = f[z] + SumOf(f, s \ {z})
  BY <1>1, <1>2, SumPick
<1> HIDE DEF z
<1>4. z # y
  BY <1>2, <1>3
<1>5. s \ {z} \notin B /\ s \ {y} \notin B
  BY <1>1, <1>2, <1>3
<1>6. SumOf(f, s \ {z}) = f[y] + SumOf(f, (s \ {z}) \ {y})
  BY <1>2, <1>3, <1>4, <1>5
<1>7. SumOf(f, s \ {y}) = f[z] + SumOf(f, (s \ {y}) \ {z})
  BY <1>2, <1>3, <1>4, <1>5
<1>8. (s \ {y}) \ {z} = (s \ {z}) \ {y}
  OBVIOUS
<1>9. SumOf(f, (s \ {y}) \ {z}) \in Int
  BY <1>0
<1> DEFINE a == SumOf(f, (s \ {y}) \ {z})
<1>10. SumOf(f, s) = f[z] + (f[y] + a) /\ SumOf(f, s \ {y}) = f[z] + a
  BY <1>3, <1>6, <1>7, <1>8
<1>11. f[z] \in Int /\ f[y] \in Int /\ a \in Int
  BY <1>2, <1>3, <1>9
<1> HIDE DEF a, B
<1> QED BY <1>2, <1>10, <1>11

\* Only the values of the elements matter.
LEMMA SumSame ==
  ASSUME NEW S, IsFiniteSet(S), NEW f, NEW g, \A x \in S : f[x] = g[x]
  PROVE  SumOf(f, S) = SumOf(g, S)
<1> DEFINE B == {s \in SUBSET S : SumOf(f, s) # SumOf(g, s)}
<1> SUFFICES ASSUME B # {} PROVE FALSE
  OBVIOUS
<1>1. PICK s \in B : IsFiniteSet(s) /\ \A U \in B : U \subseteq s => U = s
  <2>1. B \in SUBSET SUBSET S
    OBVIOUS
  <2> HIDE DEF B
  <2> QED BY <2>1, SmallestSet
<1>2. s # {}
  BY SumEmpty
<1>3. /\ Pick(s) \in s
      /\ SumOf(f, s) = f[Pick(s)] + SumOf(f, s \ {Pick(s)})
      /\ SumOf(g, s) = g[Pick(s)] + SumOf(g, s \ {Pick(s)})
  BY <1>1, <1>2, SumPick
<1>4. s \ {Pick(s)} \notin B
  BY <1>1, <1>3
<1>5. SumOf(f, s \ {Pick(s)}) = SumOf(g, s \ {Pick(s)})
  BY <1>4
<1>6. f[Pick(s)] = g[Pick(s)]
  BY <1>3
<1> QED BY <1>3, <1>5, <1>6

\* One value changes: the sum changes by as much.
LEMMA SumUpdate ==
  ASSUME NEW S, IsFiniteSet(S), NEW x \in S, NEW f, NEW g,
         \A y \in S : f[y] \in Int /\ g[y] \in Int,
         \A y \in S : y # x => f[y] = g[y]
  PROVE  SumOf(g, S) = SumOf(f, S) + (g[x] - f[x])
<1>1. IsFiniteSet(S \ {x})
  BY FS_RemoveElement
<1>2. SumOf(f, S) = f[x] + SumOf(f, S \ {x}) /\ SumOf(g, S) = g[x] + SumOf(g, S \ {x})
  BY SumSplit
<1>3. SumOf(f, S \ {x}) = SumOf(g, S \ {x})
  BY <1>1, SumSame
<1>4. SumOf(f, S \ {x}) \in Int /\ f[x] \in Int /\ g[x] \in Int
  BY <1>1, SumType
<1> QED BY <1>2, <1>3, <1>4

\* A sum of naturals is one, and not below any of its terms.
LEMMA SumNat ==
  ASSUME NEW S, IsFiniteSet(S), NEW f, \A x \in S : f[x] \in Nat
  PROVE  SumOf(f, S) \in Nat /\ \A x \in S : f[x] <= SumOf(f, S)
<1> DEFINE B == {s \in SUBSET S : SumOf(f, s) \notin Nat}
<1>0. B = {}
  <2> SUFFICES ASSUME B # {} PROVE FALSE
    OBVIOUS
  <2>1. PICK s \in B : IsFiniteSet(s) /\ \A U \in B : U \subseteq s => U = s
    <3>1. B \in SUBSET SUBSET S
      OBVIOUS
    <3> HIDE DEF B
    <3> QED BY <3>1, SmallestSet
  <2>2. s # {}
    BY SumEmpty
  <2>3. Pick(s) \in s /\ SumOf(f, s) = f[Pick(s)] + SumOf(f, s \ {Pick(s)})
    BY <2>1, <2>2, SumPick
  <2>4. SumOf(f, s \ {Pick(s)}) \in Nat
    BY <2>1, <2>3
  <2> QED BY <2>3, <2>4
<1>1. \A s \in SUBSET S : SumOf(f, s) \in Nat
  BY <1>0
<1>2. ASSUME NEW x \in S PROVE f[x] <= SumOf(f, S)
  <2>1. SumOf(f, S) = f[x] + SumOf(f, S \ {x})
    BY SumSplit
  <2>2. SumOf(f, S \ {x}) \in Nat /\ f[x] \in Nat
    BY <1>1
  <2> QED BY <2>1, <2>2
<1> QED BY <1>1, <1>2

\* Elements worth nothing can be left out.
LEMMA SumDropZeros ==
  ASSUME NEW S, IsFiniteSet(S), NEW T \in SUBSET S, NEW f,
         \A x \in S : f[x] \in Int, \A x \in S \ T : f[x] = 0
  PROVE  SumOf(f, T) = SumOf(f, S)
<1> DEFINE B == {s \in SUBSET S : T \subseteq s /\ SumOf(f, s) # SumOf(f, T)}
<1> SUFFICES ASSUME B # {} PROVE FALSE
  OBVIOUS
<1>1. PICK s \in B : IsFiniteSet(s) /\ \A U \in B : U \subseteq s => U = s
  <2>1. B \in SUBSET SUBSET S
    OBVIOUS
  <2> HIDE DEF B
  <2> QED BY <2>1, SmallestSet
<1>2. PICK x \in s : x \notin T
  OBVIOUS
<1>3. SumOf(f, s) = f[x] + SumOf(f, s \ {x})
  BY <1>1, SumSplit
<1>4. s \ {x} \notin B
  BY <1>1
<1>5. SumOf(f, s \ {x}) = SumOf(f, T)
  BY <1>2, <1>4
<1>6. SumOf(f, s \ {x}) \in Int
  BY <1>1, SumType, FS_RemoveElement
<1>7. f[x] = 0
  BY <1>2
<1> QED BY <1>3, <1>5, <1>6, <1>7

\* Smaller naturals over a part of the set have a smaller sum.
LEMMA SumBelow ==
  ASSUME NEW S, IsFiniteSet(S), NEW T \in SUBSET S, NEW f, NEW g,
         \A x \in S : f[x] \in Nat /\ g[x] \in Nat,
         \A x \in T : f[x] <= g[x]
  PROVE  SumOf(f, T) <= SumOf(g, S)
<1> DEFINE low == [x \in S |-> IF x \in T THEN f[x] ELSE 0]
           B == {s \in SUBSET S : ~(SumOf(low, s) <= SumOf(g, s))}
<1>1. \A x \in S : low[x] \in Nat /\ low[x] <= g[x] /\ g[x] \in Nat
  OBVIOUS
<1>2. /\ \A x \in S : low[x] \in Int
      /\ \A x \in S \ T : low[x] = 0
      /\ \A x \in T : f[x] = low[x]
  OBVIOUS
<1>3. IsFiniteSet(T)
  BY FS_Subset
<1> HIDE DEF low
<1>4. SumOf(f, T) = SumOf(low, S)
  BY <1>2, <1>3, SumSame, SumDropZeros
<1>5. B = {}
  <2> SUFFICES ASSUME B # {} PROVE FALSE
    OBVIOUS
  <2>1. PICK s \in B : IsFiniteSet(s) /\ \A U \in B : U \subseteq s => U = s
    <3>1. B \in SUBSET SUBSET S
      OBVIOUS
    <3> HIDE DEF B
    <3> QED BY <3>1, SmallestSet
  <2>2. s # {}
    BY SumEmpty
  <2>3. /\ Pick(s) \in s
        /\ SumOf(low, s) = low[Pick(s)] + SumOf(low, s \ {Pick(s)})
        /\ SumOf(g, s) = g[Pick(s)] + SumOf(g, s \ {Pick(s)})
    BY <2>1, <2>2, SumPick
  <2>4. SumOf(low, s \ {Pick(s)}) <= SumOf(g, s \ {Pick(s)})
    BY <2>1, <2>3
  <2>5. IsFiniteSet(s \ {Pick(s)})
    BY <2>1, FS_RemoveElement
  <2>6. SumOf(low, s \ {Pick(s)}) \in Nat /\ SumOf(g, s \ {Pick(s)}) \in Nat
    BY <1>1, <2>5, SumNat
  <2>7. low[Pick(s)] \in Nat /\ g[Pick(s)] \in Nat /\ low[Pick(s)] <= g[Pick(s)]
    BY <1>1, <2>3
  <2> QED BY <2>3, <2>4, <2>6, <2>7
<1> QED BY <1>4, <1>5
=============================================================================
