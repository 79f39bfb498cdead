------------------------------- MODULE Counting -------------------------------
(***************************************************************************)
(* Sums, ranks and least members, for the proofs of modules that use       *)
(* SumFunction or Cardinality.  What a sum over a finite set is: its       *)
(* equation, its type, an element taken out or put in, sums compared term  *)
(* by term.  A sum is a fold, that is a recursive function: that the       *)
(* function exists is the first thing to prove.                            *)
(***************************************************************************)
EXTENDS Functions, FiniteSetTheorems, WellFoundedInduction, TLAPS

\* Induction over the subsets of a finite set, with the induction hypothesis as a set.
LEMMA SubsetInduction ==
    ASSUME NEW S, IsFiniteSet(S), NEW G,
           \A T \in SUBSET S : (\A U \in SUBSET T : U # T => U \in G) => T \in G
    PROVE  SUBSET S \subseteq G
<1> SUFFICES ASSUME (SUBSET S) \ G # {} PROVE FALSE
  OBVIOUS
<1> DEFINE Bad == (SUBSET S) \ G
<1>1. Bad \subseteq FiniteSubsetsOf(S)
  BY FS_Subset DEF FiniteSubsetsOf
<1>2. PICK T \in Bad : \A U \in Bad : <<U, T>> \notin StrictSubsetOrdering(S)
  <2>1. IsWellFoundedOn(StrictSubsetOrdering(S), FiniteSubsetsOf(S)) /\ Bad # {}
    BY FS_StrictSubsetOrderingWellFounded
  <2> HIDE DEF Bad
  <2> QED BY <1>1, <2>1, WFMin
<1>3. ASSUME NEW U \in SUBSET T, U # T PROVE U \in G
  <2>1. <<U, T>> \in StrictSubsetOrdering(S)
    BY <1>3 DEF StrictSubsetOrdering
  <2> QED BY <1>2, <2>1
<1> QED BY <1>2, <1>3

\* A set of naturals has a least member.
LEMMA LeastNatural ==
    ASSUME NEW S \in SUBSET Nat, S # {}
    PROVE  \E m \in S : \A n \in S : m <= n
<1>1. PICK m \in S : \A n \in S : <<n, m>> \notin OpToRel(<, Nat)
  BY NatLessThanWellFounded, WFMin
<1>2. \A n \in S : ~(n < m)
  BY <1>1 DEF OpToRel
<1> QED BY <1>2

\* In a finite set in some order, no two members come after as many others.
LEMMA RanksDiffer ==
    ASSUME NEW S, IsFiniteSet(S), NEW Before,
           \A x \in S : <<x, x>> \notin Before,
           \A x, y, z \in S : <<x, y>> \in Before /\ <<y, z>> \in Before => <<x, z>> \in Before,
           NEW x \in S, NEW y \in S, <<x, y>> \in Before
    PROVE  Cardinality({z \in S : <<z, x>> \in Before}) < Cardinality({z \in S : <<z, y>> \in Before})
<1> DEFINE X == {z \in S : <<z, x>> \in Before}
           Y == {z \in S : <<z, y>> \in Before}
<1>1. X \subseteq Y /\ x \in Y /\ x \notin X
  OBVIOUS
<1>2. IsFiniteSet(Y) /\ IsFiniteSet(X)
  BY FS_Subset
<1> HIDE DEF X, Y
<1>3. Cardinality(X) \in Nat /\ Cardinality(Y) \in Nat /\ Cardinality(X) <= Cardinality(Y) /\ Cardinality(X) # Cardinality(Y)
  BY <1>1, <1>2, FS_Subset, FS_CardinalityType
<1> QED BY <1>3 DEF X, Y

------------------------------------------------------------------------------
\* The sum as the fold computes it: an element is chosen, and the rest is summed.
Element(T) == CHOOSE x \in T : TRUE
SumBody(f, g, T) == IF T = {} THEN 0 ELSE f[Element(T)] + g[T \ {Element(T)}]
SumsUp(f, g, S) == g = [T \in SUBSET S |-> SumBody(f, g, T)]

LEMMA SumByDefinition ==
    ASSUME NEW f, NEW S
    PROVE  SumFunctionOnSet(f, S) = (CHOOSE g : SumsUp(f, g, S))[S]
<1>1. SumFunctionOnSet(f, S) = (CHOOSE g : g = [T \in SUBSET S |-> SumBody(f, g, T)])[S]
  BY DEF SumFunctionOnSet, FoldFunctionOnSet, MapThenFoldSet, SumBody, Element
<1> QED BY <1>1 DEF SumsUp

LEMMA ElementOf == ASSUME NEW T, T # {} PROVE Element(T) \in T
BY DEF Element

LEMMA SumsAgree ==
    ASSUME NEW f, NEW g, NEW h, NEW S, NEW R, IsFiniteSet(S), S \subseteq R, SumsUp(f, g, S), SumsUp(f, h, R)
    PROVE  \A T \in SUBSET S : g[T] = h[T]
<1> DEFINE G == {T \in SUBSET S : g[T] = h[T]}
<1>1. ASSUME NEW T \in SUBSET S, \A U \in SUBSET T : U # T => U \in G PROVE T \in G
  <2>1. g[T] = SumBody(f, g, T) /\ h[T] = SumBody(f, h, T)
    BY DEF SumsUp
  <2>2. T # {} => g[T \ {Element(T)}] = h[T \ {Element(T)}]
    BY <1>1, ElementOf
  <2> QED BY <2>1, <2>2 DEF SumBody
<1>2. SUBSET S \subseteq G
  <2> HIDE DEF G
  <2> QED BY <1>1, SubsetInduction
<1> QED BY <1>2

LEMMA SumExists ==
    ASSUME NEW f, NEW S, IsFiniteSet(S) PROVE \E g : SumsUp(f, g, S)
<1> DEFINE G == {T \in SUBSET S : \E g : SumsUp(f, g, T)}
<1>1. ASSUME NEW T \in SUBSET S, \A U \in SUBSET T : U # T => U \in G PROVE T \in G
  <2> DEFINE s == [U \in SUBSET T |-> (CHOOSE g : SumsUp(f, g, U))[U]]
             all == [U \in SUBSET T |-> IF U = T THEN SumBody(f, s, T) ELSE s[U]]
  <2>1. ASSUME NEW U \in SUBSET T, U # T
        PROVE  \E g : SumsUp(f, g, U) /\ s[U] = g[U]
    BY <1>1, <2>1
  <2>2. ASSUME NEW U \in SUBSET T, U # T PROVE s[U] = SumBody(f, s, U)
    <3>1. PICK g : SumsUp(f, g, U) /\ s[U] = g[U]
      BY <2>1, <2>2
    <3>2. s[U] = SumBody(f, g, U)
      BY <3>1 DEF SumsUp
    <3>3. ASSUME U # {} PROVE g[U \ {Element(U)}] = s[U \ {Element(U)}]
      <4> DEFINE W == U \ {Element(U)}
      <4>1. W \in SUBSET U /\ W # T /\ IsFiniteSet(W)
        BY <3>3, FS_Subset, ElementOf
      <4>2. PICK h : SumsUp(f, h, W) /\ s[W] = h[W]
        BY <2>1, <4>1
      <4>3. h[W] = g[W]
        BY <3>1, <4>1, <4>2, SumsAgree
      <4> QED BY <4>2, <4>3
    <3> QED BY <3>2, <3>3 DEF SumBody
  <2> HIDE DEF s
  <2>3. ASSUME NEW U \in SUBSET T PROVE SumBody(f, all, U) = SumBody(f, s, U)
    BY ElementOf DEF SumBody
  <2>4. ASSUME NEW U \in SUBSET T PROVE all[U] = SumBody(f, all, U)
    BY <2>2, <2>3
  <2>5. SumsUp(f, all, T)
    BY <2>4 DEF SumsUp
  <2> QED BY <2>5
<1>2. SUBSET S \subseteq G
  <2> HIDE DEF G
  <2> QED BY <1>1, SubsetInduction
<1> QED BY <1>2

------------------------------------------------------------------------------
LEMMA SumEquation ==
    ASSUME NEW f, NEW S, IsFiniteSet(S)
    PROVE  SumFunctionOnSet(f, S) = IF S = {} THEN 0 ELSE f[Element(S)] + SumFunctionOnSet(f, S \ {Element(S)})
<1>1. PICK g : SumsUp(f, g, S) /\ SumFunctionOnSet(f, S) = g[S]
  BY SumExists, SumByDefinition
<1>2. g[S] = SumBody(f, g, S)
  BY <1>1 DEF SumsUp
<1>3. ASSUME S # {} PROVE g[S \ {Element(S)}] = SumFunctionOnSet(f, S \ {Element(S)})
  <2> DEFINE R == S \ {Element(S)}
  <2>1. IsFiniteSet(R) /\ R \subseteq S /\ R \in SUBSET R
    BY FS_Subset
  <2> HIDE DEF R
  <2>2. PICK h : SumsUp(f, h, R) /\ SumFunctionOnSet(f, R) = h[R]
    BY <2>1, SumExists, SumByDefinition
  <2>3. h[R] = g[R]
    BY <1>1, <2>1, <2>2, SumsAgree
  <2> QED BY <2>2, <2>3 DEF R
<1> QED BY <1>1, <1>2, <1>3 DEF SumBody

LEMMA SumOfNothing == ASSUME NEW f PROVE SumFunctionOnSet(f, {}) = 0
BY SumEquation, FS_EmptySet

\* A sum of integers is one, of naturals is one.
LEMMA SumIsInt ==
    ASSUME NEW S, IsFiniteSet(S), NEW f, \A x \in S : f[x] \in Int
    PROVE  SumFunctionOnSet(f, S) \in Int
<1> DEFINE G == {T \in SUBSET S : SumFunctionOnSet(f, T) \in Int}
<1>1. ASSUME NEW T \in SUBSET S, \A U \in SUBSET T : U # T => U \in G PROVE T \in G
  <2>1. IsFiniteSet(T)
    BY FS_Subset
  <2>2. CASE T = {}
    BY <2>2, SumOfNothing
  <2>3. CASE T # {}
    <3>1. SumFunctionOnSet(f, T \ {Element(T)}) \in Int /\ f[Element(T)] \in Int
      BY <1>1, <2>3, ElementOf
    <3>2. SumFunctionOnSet(f, T) = f[Element(T)] + SumFunctionOnSet(f, T \ {Element(T)})
      BY <2>1, <2>3, SumEquation
    <3> QED BY <3>1, <3>2
  <2> QED BY <2>2, <2>3
<1>2. SUBSET S \subseteq G
  <2> HIDE DEF G
  <2> QED BY <1>1, SubsetInduction
<1>3. S \in G
  BY <1>2
<1> QED BY <1>3

LEMMA SumIsNat ==
    ASSUME NEW S, IsFiniteSet(S), NEW f, \A x \in S : f[x] \in Nat
    PROVE  SumFunctionOnSet(f, S) \in Nat
<1> DEFINE G == {T \in SUBSET S : SumFunctionOnSet(f, T) \in Nat}
<1>1. ASSUME NEW T \in SUBSET S, \A U \in SUBSET T : U # T => U \in G PROVE T \in G
  <2>1. IsFiniteSet(T)
    BY FS_Subset
  <2>2. CASE T = {}
    BY <2>2, SumOfNothing
  <2>3. CASE T # {}
    <3>1. SumFunctionOnSet(f, T \ {Element(T)}) \in Nat /\ f[Element(T)] \in Nat
      BY <1>1, <2>3, ElementOf
    <3>2. SumFunctionOnSet(f, T) = f[Element(T)] + SumFunctionOnSet(f, T \ {Element(T)})
      BY <2>1, <2>3, SumEquation
    <3> QED BY <3>1, <3>2
  <2> QED BY <2>2, <2>3
<1>2. SUBSET S \subseteq G
  <2> HIDE DEF G
  <2> QED BY <1>1, SubsetInduction
<1>3. S \in G
  BY <1>2
<1> QED BY <1>3

\* Any element can be taken out first.
LEMMA SumTakesOut ==
    ASSUME NEW S, IsFiniteSet(S), NEW f, \A x \in S : f[x] \in Int, NEW a \in S
    PROVE  SumFunctionOnSet(f, S) = f[a] + SumFunctionOnSet(f, S \ {a})
<1> DEFINE Sum(T) == SumFunctionOnSet(f, T)
           G == {T \in SUBSET S : \A b \in T : Sum(T) = f[b] + Sum(T \ {b})}
<1>1. ASSUME NEW T \in SUBSET S, \A U \in SUBSET T : U # T => U \in G PROVE T \in G
  <2> SUFFICES ASSUME NEW b \in T PROVE Sum(T) = f[b] + Sum(T \ {b})
    OBVIOUS
  <2> DEFINE e == Element(T)
             both == (T \ {e}) \ {b}
  <2>1. IsFiniteSet(T) /\ e \in T
    BY FS_Subset, ElementOf
  <2>2. Sum(T) = f[e] + Sum(T \ {e})
    BY <2>1, SumEquation
  <2> HIDE DEF e
  <2>3. CASE e = b
    BY <2>2, <2>3
  <2>4. CASE e # b
    <3>1. Sum(T \ {e}) = f[b] + Sum(both)
      <4>1. T \ {e} \in G /\ b \in T \ {e}
        BY <1>1, <2>1, <2>4
      <4> QED BY <4>1
    <3>2. Sum(T \ {b}) = f[e] + Sum(both)
      <4>1. T \ {b} \in G /\ e \in T \ {b} /\ (T \ {b}) \ {e} = both
        BY <1>1, <2>1, <2>4
      <4> QED BY <4>1
    <3>3. Sum(both) \in Int
      <4>1. both \subseteq S /\ IsFiniteSet(both)
        BY FS_Subset
      <4> HIDE DEF both
      <4> QED BY <4>1, SumIsInt
    <3>4. f[b] \in Int /\ f[e] \in Int
      BY <2>1
    <3> HIDE DEF both, Sum
    <3> QED BY <2>2, <3>1, <3>2, <3>3, <3>4
  <2> QED BY <2>3, <2>4
<1>2. SUBSET S \subseteq G
  <2> HIDE DEF G
  <2> QED BY <1>1, SubsetInduction
<1>3. S \in G
  BY <1>2
<1> QED BY <1>3

\* Two sums with the same terms are the same.
LEMMA SumOfSame ==
    ASSUME NEW S, IsFiniteSet(S), NEW f, NEW g, \A x \in S : f[x] = g[x]
    PROVE  SumFunctionOnSet(f, S) = SumFunctionOnSet(g, S)
<1> DEFINE G == {T \in SUBSET S : SumFunctionOnSet(f, T) = SumFunctionOnSet(g, T)}
<1>1. ASSUME NEW T \in SUBSET S, \A U \in SUBSET T : U # T => U \in G PROVE T \in G
  <2>1. IsFiniteSet(T)
    BY FS_Subset
  <2>2. T # {} => /\ SumFunctionOnSet(f, T \ {Element(T)}) = SumFunctionOnSet(g, T \ {Element(T)})
                  /\ f[Element(T)] = g[Element(T)]
    BY <1>1, ElementOf
  <2> QED BY <2>1, <2>2, SumEquation
<1>2. SUBSET S \subseteq G
  <2> HIDE DEF G
  <2> QED BY <1>1, SubsetInduction
<1>3. S \in G
  BY <1>2
<1> QED BY <1>3

\* Terms no larger have a sum no larger.
LEMMA SumOfLess ==
    ASSUME NEW S, IsFiniteSet(S), NEW f, NEW g, \A x \in S : f[x] \in Int /\ g[x] \in Int /\ f[x] <= g[x]
    PROVE  SumFunctionOnSet(f, S) <= SumFunctionOnSet(g, S)
<1> DEFINE G == {T \in SUBSET S : SumFunctionOnSet(f, T) <= SumFunctionOnSet(g, T)}
<1>1. ASSUME NEW T \in SUBSET S, \A U \in SUBSET T : U # T => U \in G PROVE T \in G
  <2>1. IsFiniteSet(T)
    BY FS_Subset
  <2> DEFINE e == Element(T)
             R == T \ {e}
  <2>2. CASE T = {}
    BY <2>2, SumOfNothing
  <2>3. CASE T # {}
    <3>1. e \in S /\ R \subseteq S /\ IsFiniteSet(R) /\ R \in G
      BY <1>1, <2>1, <2>3, ElementOf, FS_Subset
    <3>2. SumFunctionOnSet(f, T) = f[e] + SumFunctionOnSet(f, R) /\ SumFunctionOnSet(g, T) = g[e] + SumFunctionOnSet(g, R)
      BY <2>1, <2>3, SumEquation
    <3>3. SumFunctionOnSet(f, R) <= SumFunctionOnSet(g, R)
      BY <3>1
    <3> HIDE DEF e, R
    <3>4. SumFunctionOnSet(f, R) \in Int /\ SumFunctionOnSet(g, R) \in Int
      BY <3>1, SumIsInt
    <3>5. f[e] \in Int /\ g[e] \in Int /\ f[e] <= g[e]
      BY <3>1
    <3> QED BY <3>2, <3>3, <3>4, <3>5
  <2> QED BY <2>2, <2>3
<1>2. SUBSET S \subseteq G
  <2> HIDE DEF G
  <2> QED BY <1>1, SubsetInduction
<1>3. S \in G
  BY <1>2
<1> QED BY <1>3

\* A part of a sum of naturals is no larger.
LEMMA SumOfPart ==
    ASSUME NEW S, IsFiniteSet(S), NEW R \in SUBSET S, NEW f, \A x \in S : f[x] \in Nat
    PROVE  SumFunctionOnSet(f, R) <= SumFunctionOnSet(f, S)
<1> DEFINE G == {T \in SUBSET S : SumFunctionOnSet(f, R) <= SumFunctionOnSet(f, R \cup T)}
<1>1. ASSUME NEW T \in SUBSET S, \A U \in SUBSET T : U # T => U \in G PROVE T \in G
  <2> DEFINE A == R \cup T
  <2>1. IsFiniteSet(R) /\ IsFiniteSet(A)
    BY FS_Subset
  <2>2. SumFunctionOnSet(f, R) \in Nat
    BY <2>1, SumIsNat
  <2>3. CASE T \subseteq R
    <3>1. A = R
      BY <2>3
    <3> QED BY <2>2, <3>1
  <2>4. CASE ~(T \subseteq R)
    <3>1. PICK a \in T : a \notin R
      BY <2>4
    <3> DEFINE U == T \ {a}
               B == R \cup U
    <3>2. U \in G /\ A \ {a} = B /\ a \in A
      BY <1>1, <3>1
    <3>3. SumFunctionOnSet(f, A) = f[a] + SumFunctionOnSet(f, A \ {a})
      <4>1. \A x \in A : f[x] \in Int
        OBVIOUS
      <4> HIDE DEF A
      <4> QED BY <2>1, <3>2, <4>1, SumTakesOut
    <3>4. SumFunctionOnSet(f, R) <= SumFunctionOnSet(f, B)
      BY <3>2
    <3>5. f[a] \in Nat
      OBVIOUS
    <3>6. SumFunctionOnSet(f, B) \in Nat
      <4>1. B \subseteq S /\ IsFiniteSet(B)
        BY FS_Subset
      <4> HIDE DEF B
      <4> QED BY <4>1, SumIsNat
    <3>7. SumFunctionOnSet(f, R) <= SumFunctionOnSet(f, A)
      <4> HIDE DEF A, B, U
      <4> QED BY <2>2, <3>2, <3>3, <3>4, <3>5, <3>6
    <3> QED BY <3>7
  <2> QED BY <2>3, <2>4
<1>2. SUBSET S \subseteq G
  <2> HIDE DEF G
  <2> QED BY <1>1, SubsetInduction
<1>3. S \in G /\ R \cup S = S
  BY <1>2
<1> QED BY <1>3

------------------------------------------------------------------------------
\* The same of SumFunction, the sum over a function's whole domain.
LEMMA TotalIsSum == ASSUME NEW f PROVE SumFunction(f) = SumFunctionOnSet(f, DOMAIN f)
BY DEF SumFunction, SumFunctionOnSet, FoldFunction

LEMMA TotalIsNat ==
    ASSUME NEW f, IsFiniteSet(DOMAIN f), \A x \in DOMAIN f : f[x] \in Nat
    PROVE  SumFunction(f) \in Nat
BY TotalIsSum, SumIsNat

LEMMA TotalIsInt ==
    ASSUME NEW f, IsFiniteSet(DOMAIN f), \A x \in DOMAIN f : f[x] \in Int
    PROVE  SumFunction(f) \in Int
BY TotalIsSum, SumIsInt

LEMMA TotalOfNothing == ASSUME NEW f, DOMAIN f = {} PROVE SumFunction(f) = 0
BY TotalIsSum, SumOfNothing

\* One more term adds itself.
LEMMA TotalPutsIn ==
    ASSUME NEW f, NEW g, NEW a, IsFiniteSet(DOMAIN f), a \notin DOMAIN f, DOMAIN g = DOMAIN f \cup {a},
           \A x \in DOMAIN g : g[x] \in Int, \A x \in DOMAIN f : g[x] = f[x]
    PROVE  SumFunction(g) = SumFunction(f) + g[a]
<1> DEFINE S == DOMAIN f
<1>1. IsFiniteSet(DOMAIN g)
  BY FS_AddElement
<1>2. SumFunctionOnSet(g, DOMAIN g) = g[a] + SumFunctionOnSet(g, (DOMAIN g) \ {a})
  BY <1>1, SumTakesOut
<1>3. (DOMAIN g) \ {a} = S
  OBVIOUS
<1>4. SumFunctionOnSet(g, S) = SumFunctionOnSet(f, S)
  BY SumOfSame
<1>5. SumFunctionOnSet(f, S) \in Int
  <2>1. \A x \in S : f[x] \in Int
    OBVIOUS
  <2> QED BY <2>1, SumIsInt
<1>6. SumFunctionOnSet(g, DOMAIN g) = g[a] + SumFunctionOnSet(f, S) /\ g[a] \in Int
  BY <1>2, <1>3, <1>4
<1>7. SumFunction(f) = SumFunctionOnSet(f, S) /\ SumFunction(g) = SumFunctionOnSet(g, DOMAIN g)
  BY TotalIsSum
<1> HIDE DEF S
<1> QED BY <1>5, <1>6, <1>7

LEMMA TotalOfLess ==
    ASSUME NEW f, NEW g, IsFiniteSet(DOMAIN f), DOMAIN g = DOMAIN f,
           \A x \in DOMAIN f : f[x] \in Int /\ g[x] \in Int /\ f[x] <= g[x]
    PROVE  SumFunction(f) <= SumFunction(g)
BY TotalIsSum, SumOfLess

LEMMA TotalIsAtLeastATerm ==
    ASSUME NEW f, IsFiniteSet(DOMAIN f), \A x \in DOMAIN f : f[x] \in Nat, NEW a \in DOMAIN f
    PROVE  f[a] <= SumFunction(f)
<1>1. SumFunctionOnSet(f, DOMAIN f) = f[a] + SumFunctionOnSet(f, (DOMAIN f) \ {a})
  BY SumTakesOut
<1>2. SumFunctionOnSet(f, (DOMAIN f) \ {a}) \in Nat
  BY FS_Subset, SumIsNat
<1> QED BY <1>1, <1>2, TotalIsSum

\* Ones add up to a cardinality.
LEMMA TotalOfOnes ==
    ASSUME NEW S, IsFiniteSet(S)
    PROVE  SumFunction([x \in S |-> 1]) = Cardinality(S)
<1> DEFINE f == [x \in S |-> 1]
           G == {T \in SUBSET S : SumFunctionOnSet(f, T) = Cardinality(T)}
<1>1. ASSUME NEW T \in SUBSET S, \A U \in SUBSET T : U # T => U \in G PROVE T \in G
  <2>1. IsFiniteSet(T)
    BY FS_Subset
  <2> DEFINE e == Element(T)
             R == T \ {e}
  <2>2. CASE T = {}
    BY <2>2, SumOfNothing, FS_EmptySet
  <2>3. CASE T # {}
    <3>1. e \in T /\ R \in G
      BY <1>1, <2>3, ElementOf
    <3>2. SumFunctionOnSet(f, T) = f[e] + SumFunctionOnSet(f, R) /\ f[e] = 1
      BY <2>1, <2>3, <3>1, SumEquation
    <3>3. SumFunctionOnSet(f, R) = Cardinality(R)
      BY <3>1
    <3>4. Cardinality(R) = Cardinality(T) - 1 /\ Cardinality(T) \in Nat
      BY <2>1, <3>1, FS_RemoveElement, FS_CardinalityType
    <3> HIDE DEF e, R, f
    <3> QED BY <3>2, <3>3, <3>4
  <2> QED BY <2>2, <2>3
<1>2. SUBSET S \subseteq G
  <2> HIDE DEF G
  <2> QED BY <1>1, SubsetInduction
<1>3. S \in G /\ DOMAIN f = S
  BY <1>2
<1> QED BY <1>3, TotalIsSum

LEMMA TotalOfPart ==
    ASSUME NEW f, NEW g, IsFiniteSet(DOMAIN f), DOMAIN g \subseteq DOMAIN f,
           \A x \in DOMAIN f : f[x] \in Nat, \A x \in DOMAIN g : g[x] = f[x]
    PROVE  SumFunction(g) <= SumFunction(f)
<1>1. IsFiniteSet(DOMAIN g)
  BY FS_Subset
<1>2. SumFunctionOnSet(g, DOMAIN g) = SumFunctionOnSet(f, DOMAIN g)
  BY <1>1, SumOfSame
<1>3. SumFunctionOnSet(f, DOMAIN g) <= SumFunctionOnSet(f, DOMAIN f)
  BY SumOfPart
<1> QED BY <1>2, <1>3, TotalIsSum

\* A total changes by the total of the changes.
LEMMA TotalOfChange ==
    ASSUME NEW f, NEW g, NEW e, IsFiniteSet(DOMAIN f), DOMAIN g = DOMAIN f, DOMAIN e \subseteq DOMAIN f,
           \A x \in DOMAIN f : f[x] \in Int, \A x \in DOMAIN e : e[x] \in Int,
           \A x \in DOMAIN f : g[x] = f[x] + IF x \in DOMAIN e THEN e[x] ELSE 0
    PROVE  SumFunction(g) = SumFunction(f) + SumFunction(e)
<1> DEFINE S == DOMAIN f
           E == DOMAIN e
           G == {T \in SUBSET S : SumFunctionOnSet(g, T) = SumFunctionOnSet(f, T) + SumFunctionOnSet(e, T \cap E)}
<1>1. ASSUME NEW T \in SUBSET S, \A U \in SUBSET T : U # T => U \in G PROVE T \in G
  <2>1. IsFiniteSet(T) /\ IsFiniteSet(T \cap E)
    BY FS_Subset
  <2>2. CASE T = {}
    <3>1. T \cap E = {}
      BY <2>2
    <3> QED BY <2>2, <3>1, SumOfNothing
  <2>3. CASE T # {}
    <3>1. PICK a \in T : TRUE
      BY <2>3
    <3> DEFINE R == T \ {a}
    <3>2. R \in G
      BY <1>1
    <3>3. SumFunctionOnSet(g, T) = g[a] + SumFunctionOnSet(g, R)
      <4>1. \A x \in T : g[x] \in Int
        OBVIOUS
      <4> QED BY <2>1, <4>1, SumTakesOut
    <3>4. SumFunctionOnSet(f, T) = f[a] + SumFunctionOnSet(f, R)
      BY <2>1, SumTakesOut
    <3>5. SumFunctionOnSet(e, T \cap E) = (IF a \in E THEN e[a] ELSE 0) + SumFunctionOnSet(e, R \cap E)
      <4>1. SumFunctionOnSet(e, R \cap E) \in Int
        <5>1. IsFiniteSet(R \cap E)
          BY <2>1, FS_Subset
        <5>2. \A x \in R \cap E : e[x] \in Int
          OBVIOUS
        <5> QED BY <5>1, <5>2, SumIsInt
      <4>2. CASE a \in E
        <5>1. a \in T \cap E /\ (T \cap E) \ {a} = R \cap E /\ \A x \in T \cap E : e[x] \in Int
          BY <4>2
        <5> QED BY <2>1, <4>2, <5>1, SumTakesOut
      <4>3. CASE a \notin E
        <5>1. T \cap E = R \cap E
          BY <4>3
        <5> QED BY <4>1, <4>3, <5>1
      <4> QED BY <4>2, <4>3
    <3>6. SumFunctionOnSet(f, R) \in Int /\ SumFunctionOnSet(e, R \cap E) \in Int
      <4>1. IsFiniteSet(R) /\ IsFiniteSet(R \cap E)
        BY <2>1, FS_Subset
      <4>2. (\A x \in R : f[x] \in Int) /\ (\A x \in R \cap E : e[x] \in Int)
        OBVIOUS
      <4> QED BY <4>1, <4>2, SumIsInt
    <3>7. SumFunctionOnSet(g, R) = SumFunctionOnSet(f, R) + SumFunctionOnSet(e, R \cap E)
      BY <3>2
    <3>8. f[a] \in Int /\ (a \in E => e[a] \in Int) /\ g[a] = f[a] + IF a \in E THEN e[a] ELSE 0
      OBVIOUS
    <3> HIDE DEF R, E
    <3>9. SumFunctionOnSet(g, T) = SumFunctionOnSet(f, T) + SumFunctionOnSet(e, T \cap E)
      BY <3>3, <3>4, <3>5, <3>6, <3>7, <3>8
    <3> QED BY <3>9
  <2> QED BY <2>2, <2>3
<1>2. SUBSET S \subseteq G
  <2> HIDE DEF G
  <2> QED BY <1>1, SubsetInduction
<1>3. S \cap E = E
  OBVIOUS
<1> QED BY <1>2, <1>3, TotalIsSum

LEMMA TotalOfTwo ==
    ASSUME NEW f, NEW a, NEW b, a # b, DOMAIN f \subseteq {a, b}, \A x \in DOMAIN f : f[x] \in Int
    PROVE  SumFunction(f) = (IF a \in DOMAIN f THEN f[a] ELSE 0) + (IF b \in DOMAIN f THEN f[b] ELSE 0)
<1> DEFINE S == DOMAIN f
<1>1. IsFiniteSet({a, b})
  <2>1. IsFiniteSet({a}) /\ {a, b} = {a} \cup {b}
    BY FS_Singleton
  <2> QED BY <2>1, FS_AddElement
<1>2. IsFiniteSet(S) /\ IsFiniteSet(S \ {a})
  BY <1>1, FS_Subset
<1>3. SumFunctionOnSet(f, S \ {a}) = IF b \in S THEN f[b] ELSE 0
  <2>1. CASE b \in S
    <3>1. b \in S \ {a} /\ (S \ {a}) \ {b} = {} /\ \A x \in S \ {a} : f[x] \in Int
      BY <2>1
    <3>2. SumFunctionOnSet(f, S \ {a}) = f[b] + SumFunctionOnSet(f, {})
      BY <1>2, <3>1, SumTakesOut
    <3> QED BY <2>1, <3>2, SumOfNothing
  <2>2. CASE b \notin S
    <3>1. S \ {a} = {}
      BY <2>2
    <3> QED BY <2>2, <3>1, SumOfNothing
  <2> QED BY <2>1, <2>2
<1>4. CASE a \in S
  <2>1. SumFunctionOnSet(f, S) = f[a] + SumFunctionOnSet(f, S \ {a})
    BY <1>2, <1>4, SumTakesOut
  <2> QED BY <1>3, <1>4, <2>1, TotalIsSum
<1>5. CASE a \notin S
  <2>1. S \ {a} = S
    BY <1>5
  <2> QED BY <1>3, <1>5, <2>1, TotalIsSum
<1> QED BY <1>4, <1>5

\* A total order on S, as a set of pairs; a finite set has a first member in it.
OrdersAll(Before, S) ==
    /\ \A x, y \in S : x # y => <<x, y>> \in Before \/ <<y, x>> \in Before
    /\ \A x, y, z \in S : <<x, y>> \in Before /\ <<y, z>> \in Before => <<x, z>> \in Before

LEMMA FirstInOrder ==
    ASSUME NEW S, IsFiniteSet(S), S # {}, NEW Before, OrdersAll(Before, S)
    PROVE  \E x \in S : \A y \in S \ {x} : <<x, y>> \in Before
<1> DEFINE G == {T \in SUBSET S : T = {} \/ \E x \in T : \A y \in T \ {x} : <<x, y>> \in Before}
<1>1. ASSUME NEW T \in SUBSET S, \A U \in SUBSET T : U # T => U \in G PROVE T \in G
  <2>1. CASE T = {}
    BY <2>1
  <2>2. CASE T # {}
    <3>1. PICK e \in T : TRUE
      BY <2>2
    <3>2. T \ {e} \in G
      BY <1>1, <3>1
    <3>3. CASE T \ {e} = {}
      BY <3>1, <3>3
    <3>4. CASE T \ {e} # {}
      <4>1. PICK x \in T \ {e} : \A y \in (T \ {e}) \ {x} : <<x, y>> \in Before
        BY <3>2, <3>4
      <4> USE DEF OrdersAll
      <4>2. CASE <<x, e>> \in Before
        BY <4>1, <4>2
      <4>3. CASE <<e, x>> \in Before
        <5>1. \A y \in T \ {e} : <<e, y>> \in Before
          BY <3>1, <4>1, <4>3
        <5> QED BY <3>1, <5>1
      <4> QED BY <3>1, <4>1, <4>2, <4>3
    <3> QED BY <3>3, <3>4
  <2> QED BY <2>1, <2>2
<1>2. SUBSET S \subseteq G
  <2> HIDE DEF G
  <2> QED BY <1>1, SubsetInduction
<1> QED BY <1>2

LEMMA GreatestNatural ==
    ASSUME NEW S, S \subseteq Nat, IsFiniteSet(S), S # {}
    PROVE  \E m \in S : \A n \in S : n <= m
<1> DEFINE Before == {pair \in S \X S : pair[1] > pair[2]}
<1>1. \E x \in S : \A y \in S \ {x} : <<x, y>> \in Before
  <2>1. \A x, y \in S : <<x, y>> \in Before <=> x > y
    OBVIOUS
  <2>2. \A x, y \in S : x # y => <<x, y>> \in Before \/ <<y, x>> \in Before
    BY <2>1
  <2>3. \A x, y, z \in S : <<x, y>> \in Before /\ <<y, z>> \in Before => <<x, z>> \in Before
    BY <2>1
  <2> HIDE DEF Before
  <2>4. OrdersAll(Before, S)
    BY <2>2, <2>3 DEF OrdersAll
  <2> QED BY <2>4, FirstInOrder
<1>2. PICK m \in S : \A n \in S \ {m} : m > n
  BY <1>1
<1>3. \A n \in S : n \in Nat /\ (n = m \/ n < m)
  BY <1>2
<1> QED BY <1>3

LEMMA ImageIsFinite == ASSUME NEW S, IsFiniteSet(S), NEW f PROVE IsFiniteSet({f[x] : x \in S})
<1> DEFINE T == {f[x] : x \in S}
           g == [x \in S |-> f[x]]
<1>1. g \in Surjection(S, T)
  BY DEF Surjection
<1> HIDE DEF T, g
<1>2. IsFiniteSet(T)
  BY <1>1, FS_Surjection
<1> QED BY <1>2 DEF T
===============================================================================
