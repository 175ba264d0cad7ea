-------------------------------- MODULE Sums --------------------------------
(***************************************************************************)
(* What SumFunctionOnSet of the community modules returns, for the proofs  *)
(* about the statements that add up amounts (SUM(amount) over the units of *)
(* a period) and about the totals that calls report.  The fold is defined  *)
(* by recursion, so each lemma goes by induction: on the subsets of the    *)
(* finite set that is summed over.  The formula to be proved is a set Q of *)
(* the subsets that satisfy it.                                            *)
(***************************************************************************)
EXTENDS Integers, FiniteSets, Functions, FiniteSetTheorems, WellFoundedInduction, TLAPS

\* Induction on numbers, with a set for the formula.
LEMMA InductionInSet ==
    ASSUME NEW Q, 0 \in Q, \A n \in Nat : n \in Q => n + 1 \in Q
    PROVE  Nat \subseteq Q
<1> SUFFICES ASSUME Nat \ Q # {} PROVE FALSE
  OBVIOUS
<1> DEFINE R == OpToRel(<, Nat)
           B == Nat \ Q
<1>1. IsWellFoundedOn(R, Nat)
  BY NatLessThanWellFounded
<1>2. R = {ss \in Nat \X Nat : ss[1] < ss[2]}
  BY DEF OpToRel
<1>3. B \subseteq Nat /\ B # {}
  OBVIOUS
<1> HIDE DEF R, B
<1>4. PICK m \in B : \A n \in B : ~(<<n, m>> \in R)
  BY <1>1, <1>3, WFMin
<1>5. m \in Nat /\ m \notin Q /\ m # 0
  BY <1>4 DEF B
<1>6. m - 1 \in Nat /\ (m - 1) + 1 = m /\ m - 1 < m
  BY <1>5
<1>7. m - 1 \notin Q
  BY <1>5, <1>6
<1>8. <<m - 1, m>> \in R
  BY <1>2, <1>5, <1>6
<1> QED
  BY <1>4, <1>6, <1>7, <1>8 DEF B

\* Induction over the subsets of a finite set: Q holds S if it holds every
\* subset whose smaller subsets it holds.
LEMMA SubsetInduction ==
    ASSUME NEW S, IsFiniteSet(S), NEW Q,
           ASSUME NEW T \in SUBSET S, \A U \in SUBSET T : U # T => U \in Q
           PROVE  T \in Q
    PROVE  S \in Q
<1> SUFFICES ASSUME S \notin Q PROVE FALSE
  OBVIOUS
<1> DEFINE R == StrictSubsetOrdering(S)
           F == FiniteSubsetsOf(S)
           B == {T \in SUBSET S : T \notin Q}
<1>1. F = SUBSET S
  BY FS_FiniteSubsetsOfFinite
<1>2. IsWellFoundedOn(R, F)
  BY FS_StrictSubsetOrderingWellFounded
<1>3. R = {ss \in (SUBSET S) \X (SUBSET S) : ss[1] \subseteq ss[2] /\ ss[1] # ss[2]}
  BY DEF StrictSubsetOrdering
<1>4. B \subseteq F /\ B # {}
  BY <1>1
<1>5. \A T : T \in B <=> T \in SUBSET S /\ T \notin Q
  OBVIOUS
<1> HIDE DEF R, F, B
<1>6. PICK T \in B : \A U \in B : ~(<<U, T>> \in R)
  BY <1>2, <1>4, WFMin
<1>7. ASSUME NEW U \in SUBSET T, U # T PROVE U \in Q
  <2>1. <<U, T>> \in R
    BY <1>3, <1>5, <1>7
  <2> QED
    BY <1>5, <1>6, <2>1
<1>8. T \in Q
  BY <1>5, <1>7
<1> QED
  BY <1>5, <1>8

-----------------------------------------------------------------------------
\* The element a fold takes from a set first.
Pick(S) == CHOOSE x \in S : TRUE

\* A set that is not empty has such an element.
LEMMA PickIn == ASSUME NEW S, S # {} PROVE Pick(S) \in S
BY DEF Pick

\* g sums f over the sets of D, as the fold does.
Sums(f, D, g) ==
    g = [s \in D |-> IF s = {} THEN 0 ELSE f[Pick(s)] + g[s \ {Pick(s)}]]

\* The function that the fold defines by recursion.
SumsOf(f, S) == CHOOSE g : Sums(f, SUBSET S, g)

\* The fold is that function's value at the whole set.
LEMMA SumDef == \A f, S : SumFunctionOnSet(f, S) = SumsOf(f, S)[S]
BY DEF SumFunctionOnSet, FoldFunctionOnSet, MapThenFoldSet, SumsOf, Sums, Pick

\* A function that sums does so at each set.
LEMMA SumsAt ==
    ASSUME NEW f, NEW D, NEW g, Sums(f, D, g)
    PROVE  \A s \in D : g[s] = IF s = {} THEN 0 ELSE f[Pick(s)] + g[s \ {Pick(s)}]
<1> DEFINE v(s) == IF s = {} THEN 0 ELSE f[Pick(s)] + g[s \ {Pick(s)}]
<1>1. g = [s \in D |-> v(s)]
  BY DEF Sums
<1> HIDE DEF v
<1>2. \A s \in D : g[s] = v(s)
  BY <1>1
<1> QED
  BY <1>2 DEF v

\* The recursion of the fold has a solution on the subsets of a finite set:
\* by induction on the size of the subsets it is a solution for.
LEMMA SumsExist ==
    ASSUME NEW f, NEW S, IsFiniteSet(S)
    PROVE  \E g : Sums(f, SUBSET S, g)
<1> DEFINE Small(n) == {s \in SUBSET S : Cardinality(s) <= n}
           Q == {n \in Nat : \E g : Sums(f, Small(n), g)}
<1>1. \A s \in SUBSET S : IsFiniteSet(s) /\ Cardinality(s) \in Nat
  BY FS_Subset, FS_CardinalityType
<1>2. 0 \in Q
  <2> DEFINE g == [s \in Small(0) |-> 0]
  <2>1. \A s \in Small(0) : s = {}
    BY <1>1, FS_EmptySet
  <2>2. Sums(f, Small(0), g)
    BY <2>1 DEF Sums
  <2> QED
    BY <2>2
<1>3. ASSUME NEW n \in Nat, n \in Q PROVE n + 1 \in Q
  <2>1. PICK g : Sums(f, Small(n), g)
    BY <1>3
  <2> DEFINE D == Small(n + 1)
             v(s) == IF s = {} THEN 0 ELSE f[Pick(s)] + g[s \ {Pick(s)}]
             e == [s \in D |-> v(s)]
             w(s) == IF s = {} THEN 0 ELSE f[Pick(s)] + e[s \ {Pick(s)}]
  <2>2. \A s \in Small(n) : s \in D /\ g[s] = v(s)
    BY <1>1, <2>1, SumsAt
  <2>3. \A s \in D : s # {} => s \ {Pick(s)} \in Small(n)
    <3> SUFFICES ASSUME NEW s \in D, s # {} PROVE s \ {Pick(s)} \in Small(n)
      OBVIOUS
    <3>1. Cardinality(s \ {Pick(s)}) = Cardinality(s) - 1
      BY <1>1, PickIn, FS_RemoveElement
    <3> QED
      BY <1>1, <3>1
  <2> HIDE DEF Small
  <2>4. ASSUME NEW s \in D PROVE v(s) = w(s)
    <3>1. CASE s = {}
      BY <3>1
    <3>2. CASE s # {}
      <4> DEFINE t == s \ {Pick(s)}
      <4>1. t \in Small(n)
        BY <2>3, <3>2
      <4>2. e[t] = v(t)
        BY <2>2, <4>1
      <4>3. e[t] = g[t]
        BY <2>2, <4>1, <4>2
      <4> HIDE DEF e, t
      <4> QED
        BY <3>2, <4>3 DEF t
    <3> QED
      BY <3>1, <3>2
  <2>5. e = [s \in D |-> w(s)]
    <3> HIDE DEF v, w
    <3> QED
      BY <2>4
  <2>6. Sums(f, D, e)
    <3> HIDE DEF e
    <3> QED
      BY <2>5 DEF Sums
  <2> QED
    BY <2>6
<1>4. Cardinality(S) \in Q
  <2> HIDE DEF Q
  <2> QED
    BY <1>1, <1>2, <1>3, InductionInSet
<1>5. Small(Cardinality(S)) = SUBSET S
  BY <1>1, FS_Subset
<1> QED
  BY <1>4, <1>5

\* The sums of two functions that agree on a set are equal there, whatever
\* larger sets the recursions run over.
LEMMA SumsAgree ==
    ASSUME NEW S, IsFiniteSet(S), NEW f1, NEW f2, \A x \in S : f1[x] = f2[x],
           NEW D1, NEW D2, SUBSET S \subseteq D1, SUBSET S \subseteq D2,
           NEW g1, Sums(f1, D1, g1), NEW g2, Sums(f2, D2, g2)
    PROVE  g1[S] = g2[S]
<1>1. \A s \in D1 : g1[s] = IF s = {} THEN 0 ELSE f1[Pick(s)] + g1[s \ {Pick(s)}]
  BY SumsAt
<1>2. \A s \in D2 : g2[s] = IF s = {} THEN 0 ELSE f2[Pick(s)] + g2[s \ {Pick(s)}]
  BY SumsAt
<1> DEFINE Q == {U \in SUBSET S : g1[U] = g2[U]}
<1>3. ASSUME NEW T \in SUBSET S, \A U \in SUBSET T : U # T => U \in Q
      PROVE  T \in Q
  <2>1. T \in D1 /\ T \in D2
    OBVIOUS
  <2>2. /\ g1[T] = IF T = {} THEN 0 ELSE f1[Pick(T)] + g1[T \ {Pick(T)}]
        /\ g2[T] = IF T = {} THEN 0 ELSE f2[Pick(T)] + g2[T \ {Pick(T)}]
    BY <1>1, <1>2, <2>1
  <2>3. CASE T = {}
    BY <2>2, <2>3
  <2>4. CASE T # {}
    <3>1. Pick(T) \in T
      BY <2>4, PickIn
    <3>2. T \ {Pick(T)} \in Q /\ f1[Pick(T)] = f2[Pick(T)]
      BY <1>3, <3>1
    <3> QED
      BY <2>2, <2>4, <3>2
  <2> QED
    BY <2>3, <2>4
<1>4. S \in Q
  <2> HIDE DEF Q
  <2> QED
    BY <1>3, SubsetInduction
<1> QED
  BY <1>4

\* The function that the fold defines is a solution.
LEMMA SumsOfSums ==
    ASSUME NEW f, NEW S, IsFiniteSet(S)
    PROVE  Sums(f, SUBSET S, SumsOf(f, S))
BY SumsExist DEF SumsOf

-----------------------------------------------------------------------------
\* Functions that agree on a set have one sum there.
LEMMA SumEq ==
    ASSUME NEW f, NEW g, NEW S, IsFiniteSet(S), \A x \in S : f[x] = g[x]
    PROVE  SumFunctionOnSet(f, S) = SumFunctionOnSet(g, S)
<1>1. Sums(f, SUBSET S, SumsOf(f, S)) /\ Sums(g, SUBSET S, SumsOf(g, S))
  BY SumsOfSums
<1>2. SumsOf(f, S)[S] = SumsOf(g, S)[S]
  <2> DEFINE D == SUBSET S
             F == SumsOf(f, S)
             G == SumsOf(g, S)
  <2>1. SUBSET S \subseteq D /\ Sums(f, D, F) /\ Sums(g, D, G)
    BY <1>1
  <2> HIDE DEF D, F, G
  <2>2. F[S] = G[S]
    BY <2>1, SumsAgree
  <2> QED
    BY <2>2 DEF F, G
<1> QED
  BY <1>2, SumDef

\* Nothing adds up to zero.
LEMMA SumEmpty == \A f : SumFunctionOnSet(f, {}) = 0
<1> TAKE f
<1>1. Sums(f, SUBSET {}, SumsOf(f, {}))
  BY SumsOfSums, FS_EmptySet
<1>2. SumsOf(f, {})[{}] = 0
  BY <1>1, SumsAt
<1> QED
  BY <1>2, SumDef

\* The fold takes one element and goes on with the others.
LEMMA SumPick ==
    ASSUME NEW f, NEW S, IsFiniteSet(S), S # {}
    PROVE  SumFunctionOnSet(f, S)
               = f[Pick(S)] + SumFunctionOnSet(f, S \ {Pick(S)})
<1> DEFINE R == S \ {Pick(S)}
<1>1. IsFiniteSet(R) /\ R \subseteq S
  BY FS_Subset
<1>2. Sums(f, SUBSET S, SumsOf(f, S)) /\ Sums(f, SUBSET R, SumsOf(f, R))
  BY <1>1, SumsOfSums
<1>3. SumsOf(f, S)[S] = f[Pick(S)] + SumsOf(f, S)[R]
  BY <1>2, SumsAt
<1>4. SumsOf(f, S)[R] = SumsOf(f, R)[R]
  <2> DEFINE D == SUBSET S
             E == SUBSET R
             F == SumsOf(f, S)
             G == SumsOf(f, R)
  <2>1. SUBSET R \subseteq D /\ SUBSET R \subseteq E /\ Sums(f, D, F) /\ Sums(f, E, G)
    BY <1>1, <1>2
  <2> HIDE DEF D, E, F, G, R
  <2>2. F[R] = G[R]
    BY <1>1, <2>1, SumsAgree
  <2> QED
    BY <2>2 DEF F, G
<1> QED
  BY <1>3, <1>4, SumDef

-----------------------------------------------------------------------------
\* Integers add up to an integer, in any order.
LEMMA SumRemove ==
    ASSUME NEW f, NEW S, IsFiniteSet(S), \A x \in S : f[x] \in Int
    PROVE  /\ SumFunctionOnSet(f, S) \in Int
           /\ \A x \in S : SumFunctionOnSet(f, S)
                              = f[x] + SumFunctionOnSet(f, S \ {x})
<1> DEFINE Sum(U) == SumFunctionOnSet(f, U)
           Q == {U \in SUBSET S : /\ Sum(U) \in Int
                                  /\ \A x \in U : Sum(U) = f[x] + Sum(U \ {x})}
<1>1. Sum({}) = 0
  BY SumEmpty
<1>2. \A U \in SUBSET S : U # {} => Pick(U) \in U /\ Sum(U) = f[Pick(U)] + Sum(U \ {Pick(U)})
  BY SumPick, PickIn, FS_Subset
<1> HIDE DEF Sum
<1>3. ASSUME NEW T \in SUBSET S, \A U \in SUBSET T : U # T => U \in Q
      PROVE  T \in Q
  <2>1. CASE T = {}
    BY <1>1, <2>1
  <2>2. CASE T # {}
    <3> DEFINE p == Pick(T)
    <3>1. p \in T /\ Sum(T) = f[p] + Sum(T \ {p}) /\ f[p] \in Int
      BY <1>2, <2>2
    <3> HIDE DEF p
    <3>2. T \ {p} \in Q
      BY <1>3, <3>1
    <3>3. Sum(T) \in Int
      BY <3>1, <3>2
    <3>4. ASSUME NEW x \in T PROVE Sum(T) = f[x] + Sum(T \ {x})
      <4>1. CASE x = p
        BY <3>1, <4>1
      <4>2. CASE x # p
        <5>1. T \ {x} \in Q
          BY <1>3
        <5>2. (T \ {p}) \ {x} = (T \ {x}) \ {p}
          OBVIOUS
        <5>3. Sum(T \ {p}) = f[x] + Sum((T \ {p}) \ {x})
          BY <3>2, <4>2
        <5>4. Sum(T \ {x}) = f[p] + Sum((T \ {x}) \ {p})
          BY <3>1, <4>2, <5>1
        <5>5. (T \ {p}) \ {x} \in Q
          BY <1>3, <3>1
        <5> DEFINE s == Sum(T)
                   sp == Sum(T \ {p})
                   sx == Sum(T \ {x})
                   r == Sum((T \ {p}) \ {x})
        <5>6. r \in Int /\ f[x] \in Int /\ f[p] \in Int
          BY <3>1, <5>5
        <5>7. s = f[p] + sp /\ sp = f[x] + r /\ sx = f[p] + r
          BY <3>1, <5>2, <5>3, <5>4
        <5> HIDE DEF s, sp, sx, r
        <5>8. s = f[x] + sx
          BY <5>6, <5>7
        <5> QED
          BY <5>8 DEF s, sx
      <4> QED
        BY <4>1, <4>2
    <3> QED
      BY <3>3, <3>4
  <2> QED
    BY <2>1, <2>2
<1>4. S \in Q
  <2> HIDE DEF Q
  <2> QED
    BY <1>3, SubsetInduction
<1> QED
  BY <1>4 DEF Sum

\* One more element adds its value.
LEMMA SumAdd ==
    ASSUME NEW f, NEW S, IsFiniteSet(S), NEW x, x \notin S,
           \A y \in S \cup {x} : f[y] \in Int
    PROVE  SumFunctionOnSet(f, S \cup {x}) = f[x] + SumFunctionOnSet(f, S)
<1>1. IsFiniteSet(S \cup {x})
  BY FS_AddElement
<1>2. (S \cup {x}) \ {x} = S
  OBVIOUS
<1> QED
  BY <1>1, <1>2, SumRemove

\* A sum of numbers that are not negative is at least the sum of some.
LEMMA SumMonotonic ==
    ASSUME NEW f, NEW T, IsFiniteSet(T), \A x \in T : f[x] \in Nat,
           NEW S, S \subseteq T
    PROVE  /\ SumFunctionOnSet(f, S) \in Nat
           /\ SumFunctionOnSet(f, T) \in Nat
           /\ SumFunctionOnSet(f, S) <= SumFunctionOnSet(f, T)
<1> DEFINE Sum(U) == SumFunctionOnSet(f, U)
           Q == {U \in SUBSET T : /\ Sum(U) \in Nat
                                  /\ Sum(U \cap S) \in Nat
                                  /\ Sum(U \cap S) <= Sum(U)}
<1>1. Sum({}) = 0
  BY SumEmpty
<1>2. ASSUME NEW U \in SUBSET T, NEW x \in U
      PROVE  Sum(U) = f[x] + Sum(U \ {x})
  <2>1. IsFiniteSet(U) /\ \A y \in U : f[y] \in Int
    BY FS_Subset
  <2> QED
    BY <2>1, SumRemove
<1> HIDE DEF Sum
<1>3. ASSUME NEW U \in SUBSET T, \A V \in SUBSET U : V # U => V \in Q
      PROVE  U \in Q
  <2>1. CASE U = {}
    <3>1. U \cap S = {}
      BY <2>1
    <3> QED
      BY <1>1, <2>1, <3>1
  <2>2. CASE U # {}
    <3>1. PICK x \in U : TRUE
      BY <2>2
    <3>2. U \ {x} \in Q
      BY <1>3
    <3>3. Sum(U) = f[x] + Sum(U \ {x}) /\ f[x] \in Nat
      BY <1>2
    <3>4. CASE x \in S
      <4>1. U \cap S \in SUBSET T /\ x \in U \cap S
        BY <3>4
      <4>2. (U \cap S) \ {x} = (U \ {x}) \cap S
        OBVIOUS
      <4>3. Sum(U \cap S) = f[x] + Sum((U \ {x}) \cap S)
        BY <1>2, <4>1, <4>2
      <4> QED
        BY <3>2, <3>3, <4>3
    <3>5. CASE x \notin S
      <4>1. U \cap S = (U \ {x}) \cap S
        BY <3>5
      <4> QED
        BY <3>2, <3>3, <4>1
    <3> QED
      BY <3>4, <3>5
  <2> QED
    BY <2>1, <2>2
<1>4. T \in Q
  <2> HIDE DEF Q
  <2> QED
    BY <1>3, SubsetInduction
<1>5. T \cap S = S
  OBVIOUS
<1> QED
  BY <1>4, <1>5 DEF Sum
=============================================================================
