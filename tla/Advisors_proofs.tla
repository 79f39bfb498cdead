---------------------------- MODULE Advisors_proofs ----------------------------
(***************************************************************************)
(* What the two advisors say is true of what they read, for any scan,      *)
(* packs, policy and fleet: the shortlists of a gap report and the answers *)
(* to "why not", and the advice of fleet support.                          *)
(***************************************************************************)
EXTENDS GapAdvice, FleetAdvice, Counting

------------------------------------------------------------------------------
\* The members of a finite pool in an order that is total on it, each at one place.
Ordered(S, before) ==
    /\ IsFiniteSet(S) /\ OrdersAll(before, S) /\ \A x \in S : <<x, x>> \notin before

Earlier(S, before, x) == {d \in S : <<d, x>> \in before}

LEMMA InOrderIsSorted ==
    ASSUME NEW S, NEW before, Ordered(S, before)
    PROVE  /\ Cardinality(S) \in Nat
           /\ InOrder(S, before) \in [1..Cardinality(S) -> S]
           /\ \A x \in S : \E i \in 1..Cardinality(S) : InOrder(S, before)[i] = x
           /\ \A i, j \in 1..Cardinality(S) : i < j => <<InOrder(S, before)[i], InOrder(S, before)[j]>> \in before
<1> USE DEF Ordered, OrdersAll
<1> DEFINE rank == [x \in S |-> Cardinality(Earlier(S, before, x)) + 1]
           n == Cardinality(S)
<1>1. n \in Nat
  BY FS_CardinalityType
<1>2. ASSUME NEW x \in S
      PROVE  Cardinality(Earlier(S, before, x)) \in 0..n - 1
  <2>1. Earlier(S, before, x) \in SUBSET (S \ {x})
    BY DEF Earlier
  <2>2. IsFiniteSet(S \ {x}) /\ Cardinality(S \ {x}) = n - 1
    BY FS_RemoveElement
  <2>3. IsFiniteSet(Earlier(S, before, x)) /\ Cardinality(Earlier(S, before, x)) <= n - 1
    BY <2>1, <2>2, FS_Subset
  <2>4. Cardinality(Earlier(S, before, x)) \in Nat
    BY <2>3, FS_CardinalityType
  <2> QED BY <1>1, <2>3, <2>4
<1>3. rank \in [S -> 1..n]
  BY <1>1, <1>2
<1>4. ASSUME NEW x \in S, NEW y \in S, <<x, y>> \in before PROVE rank[x] < rank[y]
  <2>1. Cardinality({z \in S : <<z, x>> \in before}) < Cardinality({z \in S : <<z, y>> \in before})
    BY <1>4, RanksDiffer
  <2>2. Cardinality(Earlier(S, before, x)) < Cardinality(Earlier(S, before, y))
    BY <2>1 DEF Earlier
  <2> QED BY <1>2, <2>2
<1> HIDE DEF rank
<1>5. ASSUME NEW x \in S, NEW y \in S, x # y PROVE rank[x] # rank[y]
  <2>1. rank[x] \in Nat /\ rank[y] \in Nat
    BY <1>1, <1>3
  <2>2. <<x, y>> \in before \/ <<y, x>> \in before
    BY <1>5
  <2>3. rank[x] < rank[y] \/ rank[y] < rank[x]
    BY <1>4, <2>2
  <2> QED BY <2>1, <2>3
<1>6. rank \in Surjection(S, 1..n)
  <2>1. rank \in Injection(S, 1..n)
    BY <1>3, <1>5 DEF Injection, IsInjective
  <2>2. IsFiniteSet(1..n) /\ Cardinality(1..n) = n
    BY <1>1, FS_Interval
  <2> QED BY <2>1, <2>2, FS_Injection
<1>7. ASSUME NEW i \in 1..n
      PROVE  InOrder(S, before)[i] \in S /\ rank[InOrder(S, before)[i]] = i
  <2>1. PICK x \in S : rank[x] = i
    BY <1>6 DEF Surjection
  <2>2. \A y \in S : rank[y] = i <=> Cardinality(Earlier(S, before, y)) = i - 1
    BY <1>2, <1>7 DEF rank
  <2>3. InOrder(S, before)[i] = CHOOSE y \in S : Cardinality(Earlier(S, before, y)) = i - 1
    BY <1>7 DEF InOrder, Earlier
  <2> QED BY <2>1, <2>2, <2>3
<1>8. DOMAIN InOrder(S, before) = 1..n
  BY DEF InOrder
<1>9. InOrder(S, before) \in [1..n -> S]
  <2> DEFINE at(i) == CHOOSE c \in S : Cardinality({d \in S : <<d, c>> \in before}) = i - 1
  <2>1. InOrder(S, before) = [i \in 1..n |-> at(i)]
    BY DEF InOrder
  <2>2. \A i \in 1..n : at(i) = InOrder(S, before)[i]
    BY <2>1
  <2> HIDE DEF at
  <2> QED BY <1>7, <2>1, <2>2
<1>10. ASSUME NEW x \in S
       PROVE  \E i \in 1..n : InOrder(S, before)[i] = x
  <2>1. rank[x] \in 1..n
    BY <1>3
  <2>2. InOrder(S, before)[rank[x]] = x
    BY <1>5, <1>7, <2>1
  <2> QED BY <2>1, <2>2
<1>11. ASSUME NEW i \in 1..n, NEW j \in 1..n, i < j
       PROVE  <<InOrder(S, before)[i], InOrder(S, before)[j]>> \in before
  <2>1. InOrder(S, before)[i] # InOrder(S, before)[j]
    BY <1>7, <1>11
  <2>2. ~(<<InOrder(S, before)[j], InOrder(S, before)[i]>> \in before)
    BY <1>1, <1>4, <1>7, <1>11
  <2> QED BY <1>7, <2>1, <2>2
<1> QED BY <1>1, <1>9, <1>10, <1>11

\* A finite set of integers has a greatest and a least member.
LEMMA ExtremesExist ==
    ASSUME NEW S, S \subseteq Int, IsFiniteSet(S), S # {}
    PROVE  /\ Max(S) \in S /\ \A x \in S : x <= Max(S)
           /\ Min(S) \in S /\ \A x \in S : Min(S) <= x
<1> DEFINE falls == {pair \in S \X S : pair[1] > pair[2]}
           rises == {pair \in S \X S : pair[1] < pair[2]}
<1>1. \A x, y \in S : (<<x, y>> \in falls <=> x > y) /\ (<<x, y>> \in rises <=> x < y)
  OBVIOUS
<1> HIDE DEF falls, rises
<1>2. OrdersAll(falls, S) /\ OrdersAll(rises, S)
  BY <1>1 DEF OrdersAll
<1>3. \A B : OrdersAll(B, S) => \E x \in S : \A y \in S \ {x} : <<x, y>> \in B
  BY FirstInOrder, Zenon
<1>4. \E x \in S : \A y \in S : x >= y
  <2>1. PICK g \in S : \A y \in S \ {g} : <<g, y>> \in falls
    BY <1>2, <1>3
  <2>2. ASSUME NEW y \in S PROVE g >= y
    <3>1. g \in Int /\ y \in Int /\ (y = g \/ g > y)
      BY <1>1, <2>1
    <3> QED BY <3>1
  <2> QED BY <2>2
<1>5. \E x \in S : \A y \in S : x =< y
  <2>1. PICK l \in S : \A y \in S \ {l} : <<l, y>> \in rises
    BY <1>2, <1>3
  <2>2. ASSUME NEW y \in S PROVE l =< y
    <3>1. l \in Int /\ y \in Int /\ (y = l \/ l < y)
      BY <1>1, <2>1
    <3> QED BY <3>1
  <2> QED BY <2>2
<1>6. Max(S) \in S /\ \A y \in S : Max(S) >= y
  <2>1. Max(S) = CHOOSE x \in S : \A y \in S : x >= y
    BY DEF Max
  <2> QED BY <1>4, <2>1
<1>7. Min(S) \in S /\ \A y \in S : Min(S) =< y
  <2>1. Min(S) = CHOOSE x \in S : \A y \in S : x =< y
    BY DEF Min
  <2> QED BY <1>5, <2>1
<1> QED BY <1>6, <1>7

\* One of some evidence is the best, the surest of the highest.
LEMMA OneIsBest ==
    ASSUME NEW S, IsFiniteSet(S), S # {}, \A e \in S : e.score \in Int /\ e.sure \in Int
    PROVE  \E e \in S : \A f \in S : f.score < e.score \/ (f.score = e.score /\ f.sure <= e.sure)
<1> DEFINE score == [e \in S |-> e.score]
           scores == {score[e] : e \in S}
           m == Max(scores)
           best == {e \in S : e.score = m}
           sure == [e \in best |-> e.sure]
           sures == {sure[e] : e \in best}
<1>1. \A e \in S : e.score \in Int /\ e.sure \in Int
  OBVIOUS
<1>3. IsFiniteSet(scores) /\ scores \subseteq Int /\ scores # {}
  <2>1. scores \subseteq Int /\ scores # {}
    BY <1>1
  <2> HIDE DEF score
  <2>2. IsFiniteSet(scores)
    BY ImageIsFinite
  <2> QED BY <2>1, <2>2
<1>4. m \in scores /\ \A x \in scores : x <= m
  <2> HIDE DEF scores
  <2> QED BY <1>3, ExtremesExist
<1> HIDE DEF m
<1>5. best # {} /\ best \subseteq S /\ \A e \in S : e.score <= m
  BY <1>4
<1>6. IsFiniteSet(best)
  <2> HIDE DEF best
  <2> QED BY <1>5, FS_Subset
<1>7. IsFiniteSet(sures) /\ sures \subseteq Int /\ sures # {}
  <2>1. sures \subseteq Int /\ sures # {}
    BY <1>1, <1>5
  <2> HIDE DEF sure, best
  <2>2. IsFiniteSet(sures)
    BY <1>6, ImageIsFinite
  <2> QED BY <2>1, <2>2
<1>8. PICK top : top \in sures /\ \A x \in sures : x <= top
  <2> HIDE DEF sures
  <2> QED BY <1>7, ExtremesExist
<1>9. PICK e \in best : e.sure = top
  BY <1>8
<1>10. \A f \in S : f.score < e.score \/ (f.score = e.score /\ f.sure <= e.sure)
  <2>1. ASSUME NEW f \in S PROVE f.score < e.score \/ (f.score = e.score /\ f.sure <= e.sure)
    <3>1. e \in S /\ e.score = m /\ f.score <= m /\ f.score \in Int /\ m \in Int
      BY <1>1, <1>5, <1>9
    <3>2. f.score = m => f.sure \in sures
      OBVIOUS
    <3> QED BY <1>8, <1>9, <3>1, <3>2
  <2> QED BY <2>1
<1>11. e \in S
  BY <1>9
<1> QED BY <1>10, <1>11

LEMMA ThreeAreFinite == ASSUME NEW a, NEW b, NEW c PROVE IsFiniteSet({a, b, c})
<1>1. IsFiniteSet({}) /\ {} \cup {a} = {a} /\ {a} \cup {b} = {a, b} /\ {a, b} \cup {c} = {a, b, c}
  BY FS_EmptySet
<1>2. IsFiniteSet({a})
  BY <1>1, FS_AddElement
<1>3. IsFiniteSet({a, b})
  BY <1>1, <1>2, FS_AddElement
<1> QED BY <1>1, <1>3, FS_AddElement

LEMMA MinOfTwo ==
    ASSUME NEW a \in Int, NEW b \in Int
    PROVE  Min({a, b}) = IF a <= b THEN a ELSE b
<1>1. CASE a <= b
  BY <1>1 DEF Min
<1>2. CASE ~(a <= b)
  BY <1>2 DEF Min
<1> QED BY <1>1, <1>2

------------------------------------------------------------------------------
\* Comparing tuples of reasons is a total order of the tuples of one length.
LEMMA ExceedsIsTotal ==
    ASSUME NEW k \in Nat, NEW s \in [1..k -> Int], NEW t \in [1..k -> Int], s # t
    PROVE  Exceeds(s, t) \/ Exceeds(t, s)
<1> DEFINE differ == {i \in 1..k : s[i] # t[i]}
<1>1. differ # {} /\ differ \in SUBSET Nat
  OBVIOUS
<1> HIDE DEF differ
<1>2. PICK m \in differ : \A i \in differ : m <= i
  BY <1>1, LeastNatural
<1>3. m \in 1..k /\ s[m] # t[m] /\ \A j \in 1..m - 1 : s[j] = t[j]
  BY <1>2 DEF differ
<1>4. s[m] \in Int /\ t[m] \in Int
  BY <1>3
<1>5. s[m] > t[m] \/ t[m] > s[m]
  BY <1>3, <1>4
<1> QED BY <1>3, <1>5 DEF Exceeds

LEMMA ExceedsIsTransitive ==
    ASSUME NEW k \in Nat, NEW s \in [1..k -> Int], NEW t \in [1..k -> Int], NEW u \in [1..k -> Int],
           Exceeds(s, t), Exceeds(t, u)
    PROVE  Exceeds(s, u)
<1>1. PICK i \in 1..k : s[i] > t[i] /\ \A j \in 1..i - 1 : s[j] = t[j]
  BY DEF Exceeds
<1>2. PICK m \in 1..k : t[m] > u[m] /\ \A j \in 1..m - 1 : t[j] = u[j]
  BY DEF Exceeds
<1> DEFINE n == IF i <= m THEN i ELSE m
<1>3. n \in 1..k /\ n <= i /\ n <= m
  OBVIOUS
<1>4. s[n] \in Int /\ t[n] \in Int /\ u[n] \in Int
  BY <1>3
<1>5. s[n] > u[n]
  <2>1. CASE i <= m
    <3>1. n = i /\ (n = m \/ n \in 1..m - 1)
      BY <2>1
    <3>2. s[n] > t[n] /\ (t[n] > u[n] \/ t[n] = u[n])
      BY <1>1, <1>2, <3>1
    <3> QED BY <1>4, <3>2
  <2>2. CASE ~(i <= m)
    <3>1. n = m /\ n \in 1..i - 1
      BY <2>2
    <3>2. s[n] = t[n] /\ t[n] > u[n]
      BY <1>1, <1>2, <3>1
    <3> QED BY <1>4, <3>2
  <2> QED BY <2>1, <2>2
<1>6. \A j \in 1..n - 1 : s[j] = t[j] /\ t[j] = u[j]
  BY <1>1, <1>2, <1>3
<1> HIDE DEF n
<1>7. DOMAIN s = 1..k
  OBVIOUS
<1> QED BY <1>3, <1>5, <1>6, <1>7 DEF Exceeds

LEMMA NothingExceedsItself ==
    ASSUME NEW k \in Nat, NEW s \in [1..k -> Int]
    PROVE  ~Exceeds(s, s)
BY DEF Exceeds

\* A pool whose members have reasons of their own is in order by them.
LEMMA ReasonsOrder ==
    ASSUME NEW S, IsFiniteSet(S), NEW k \in Nat, NEW key \in [S -> [1..k -> Int]],
           \A x, y \in S : key[x] = key[y] => x = y,
           NEW before, \A x, y \in S : <<x, y>> \in before <=> Exceeds(key[x], key[y])
    PROVE  Ordered(S, before)
<1>1. \A x \in S : <<x, x>> \notin before
  BY NothingExceedsItself
<1>2. ASSUME NEW x \in S, NEW y \in S, x # y PROVE <<x, y>> \in before \/ <<y, x>> \in before
  <2>1. key[x] # key[y]
    BY <1>2
  <2> QED BY <2>1, ExceedsIsTotal
<1>3. ASSUME NEW x \in S, NEW y \in S, NEW z \in S, <<x, y>> \in before, <<y, z>> \in before
      PROVE  <<x, z>> \in before
  <2>1. Exceeds(key[x], key[y]) /\ Exceeds(key[y], key[z])
    BY <1>3
  <2>2. key[x] \in [1..k -> Int] /\ key[y] \in [1..k -> Int] /\ key[z] \in [1..k -> Int]
    OBVIOUS
  <2>3. Exceeds(key[x], key[z])
    BY <2>1, <2>2, ExceedsIsTransitive
  <2> QED BY <2>3
<1> QED BY <1>1, <1>2, <1>3 DEF Ordered, OrdersAll

\* One of them has the best reasons.
LEMMA OneAppealsMost ==
    ASSUME NEW S, IsFiniteSet(S), S # {}, NEW k \in Nat, NEW key \in [S -> [1..k -> Int]],
           \A x, y \in S : key[x] = key[y] => x = y
    PROVE  \E c \in S : \A d \in S \ {c} : Exceeds(key[c], key[d])
<1> DEFINE before == {p \in S \X S : Exceeds(key[p[1]], key[p[2]])}
<1>1. \A x, y \in S : <<x, y>> \in before <=> Exceeds(key[x], key[y])
  OBVIOUS
<1> HIDE DEF before
<1>2. OrdersAll(before, S)
  BY <1>1, ReasonsOrder DEF Ordered
<1>3. \A B : OrdersAll(B, S) => \E x \in S : \A y \in S \ {x} : <<x, y>> \in B
  BY FirstInOrder, Zenon
<1>4. PICK x \in S : \A y \in S \ {x} : <<x, y>> \in before
  BY <1>2, <1>3
<1> QED BY <1>1, <1>4

------------------------------------------------------------------------------
\* A sequence made step by step is: the recursion has a solution.
Steps(f, first, step, N) == \A n \in 1..N : f[n] = IF n = 1 THEN first ELSE step[f[n - 1]]

LEMMA StepsExist ==
    ASSUME NEW D, NEW first \in D, NEW step \in [D -> D], NEW N \in Nat
    PROVE  \E f \in [1..N -> D] : Steps(f, first, step, N)
<1> DEFINE Bad == {n \in Nat : ~\E f \in [1..n -> D] : Steps(f, first, step, n)}
<1>1. SUFFICES ASSUME Bad # {} PROVE FALSE
  OBVIOUS
<1>2. PICK m \in Bad : \A n \in Bad : m <= n
  <2>1. Bad \in SUBSET Nat
    OBVIOUS
  <2> HIDE DEF Bad
  <2> QED BY <1>1, <2>1, LeastNatural
<1>3. m # 0
  <2>1. [i \in 1..0 |-> first] \in [1..0 -> D] /\ Steps([i \in 1..0 |-> first], first, step, 0)
    BY DEF Steps
  <2> QED BY <1>2, <2>1
<1>4. m - 1 \in Nat /\ m - 1 \notin Bad
  <2>1. m \in Nat /\ m - 1 \in Nat /\ ~(m <= m - 1)
    BY <1>3
  <2> HIDE DEF Bad
  <2> QED BY <1>2, <2>1
<1>5. PICK f \in [1..m - 1 -> D] : Steps(f, first, step, m - 1)
  BY <1>4
<1> DEFINE g == [n \in 1..m |-> IF n = m THEN IF m = 1 THEN first ELSE step[f[m - 1]] ELSE f[n]]
<1>6. g \in [1..m -> D]
  <2>1. m # 1 => m - 1 \in 1..m - 1
    BY <1>4
  <2>2. \A n \in 1..m : n # m => n \in 1..m - 1
    BY <1>4
  <2> QED BY <1>4, <2>1, <2>2
<1>7. Steps(g, first, step, m)
  <2> SUFFICES ASSUME NEW n \in 1..m PROVE g[n] = IF n = 1 THEN first ELSE step[g[n - 1]]
    BY DEF Steps
  <2>1. CASE n = m
    <3>1. n # 1 => n - 1 \in 1..m /\ n - 1 # m
      BY <1>4, <2>1
    <3> QED BY <2>1, <3>1
  <2>2. CASE n # m
    <3>1. n \in 1..m - 1 /\ (n # 1 => n - 1 \in 1..m /\ n - 1 # m)
      BY <1>4, <2>2
    <3>2. f[n] = IF n = 1 THEN first ELSE step[f[n - 1]]
      BY <1>5, <3>1 DEF Steps
    <3> QED BY <2>2, <3>1, <3>2
  <2> QED BY <2>1, <2>2
<1> HIDE DEF g
<1> QED BY <1>2, <1>6, <1>7

\* What a shortlist of up to m of the pool S is, if best is the score of its first.
Shortlisted(list, S, best, m) ==
    /\ list \in Seq(S)
    /\ Len(list) = (IF m <= Cardinality(S) THEN m ELSE Cardinality(S))
    /\ \A i, j \in 1..Len(list) : i # j => list[i] # list[j]
    /\ (\E i \in 1..Len(list) : ~Competitive(list[i], best)) =>
          \A c \in S : Competitive(c, best) => \E j \in 1..Len(list) : list[j] = c

\* The next choice: nothing when all are chosen.
Grown(S, best, s, t) ==
    IF S \ Range(s) = {} THEN t = s ELSE \E c \in ChoosePool(S \ Range(s), best) : t = Append(s, c)

LEMMA AllChosen ==
    ASSUME NEW S, IsFiniteSet(S), NEW s \in Seq(S), \A i, j \in 1..Len(s) : i # j => s[i] # s[j]
    PROVE  /\ Len(s) <= Cardinality(S)
           /\ Len(s) = Cardinality(S) <=> S \ Range(s) = {}
<1>1. s \in [1..Len(s) -> S] /\ Len(s) \in Nat
  OBVIOUS
<1>2. s \in Injection(1..Len(s), S)
  BY <1>1 DEF Injection, IsInjective
<1>3. IsFiniteSet(1..Len(s)) /\ Cardinality(1..Len(s)) = Len(s)
  <2>1. ASSUME NEW n \in Nat PROVE IsFiniteSet(1..n) /\ Cardinality(1..n) = n
    BY FS_Interval
  <2> QED BY <1>1, <2>1
<1>4. Len(s) <= Cardinality(S) /\ (Len(s) = Cardinality(S) <=> s \in Surjection(1..Len(s), S))
  BY <1>2, <1>3, FS_Injection
<1>5. s \in Surjection(1..Len(s), S) <=> S \ Range(s) = {}
  BY <1>1 DEF Surjection, Range
<1> QED BY <1>4, <1>5

LEMMA GrowsShortlisted ==
    ASSUME NEW S, IsFiniteSet(S), NEW best, NEW n \in Nat, NEW s, Shortlisted(s, S, best, n), NEW t, Grown(S, best, s, t)
    PROVE  Shortlisted(t, S, best, n + 1) /\ (s # <<>> => t # <<>> /\ t[1] = s[1])
<1>1. Cardinality(S) \in Nat /\ s \in Seq(S) /\ Len(s) \in Nat
  BY FS_CardinalityType DEF Shortlisted
<1>2. Len(s) <= Cardinality(S) /\ (Len(s) = Cardinality(S) <=> S \ Range(s) = {})
  BY AllChosen DEF Shortlisted
<1>3. CASE S \ Range(s) = {}
  <2>1. t = s /\ Cardinality(S) <= n
    BY <1>1, <1>2, <1>3 DEF Grown, Shortlisted
  <2> QED BY <1>1, <2>1 DEF Shortlisted
<1>4. CASE S \ Range(s) # {}
  <2>1. PICK c \in ChoosePool(S \ Range(s), best) : t = Append(s, c)
    BY <1>4 DEF Grown
  <2>2. c \in S /\ c \notin Range(s)
    BY <2>1 DEF ChoosePool
  <2>3. /\ t \in Seq(S) /\ Len(t) = Len(s) + 1 /\ t[Len(s) + 1] = c
        /\ \A i \in 1..Len(s) : t[i] = s[i]
    BY <1>1, <2>1, <2>2
  <2>4. \A i \in 1..Len(s) : s[i] \in Range(s)
    BY <1>1 DEF Range
  <2>5. \A i \in 1..Len(t) : i \in 1..Len(s) \/ i = Len(s) + 1
    BY <1>1, <2>3
  <2>6. Len(t) = IF n + 1 <= Cardinality(S) THEN n + 1 ELSE Cardinality(S)
    <3>1. Len(s) # Cardinality(S)
      BY <1>2, <1>4
    <3>2. Len(s) = n /\ n <= Cardinality(S) /\ n # Cardinality(S)
      BY <1>1, <3>1 DEF Shortlisted
    <3> QED BY <1>1, <2>3, <3>2
  <2>7. ASSUME NEW i \in 1..Len(t), NEW j \in 1..Len(t), i # j PROVE t[i] # t[j]
    <3>1. CASE i \in 1..Len(s) /\ j \in 1..Len(s)
      BY <2>3, <2>7, <3>1 DEF Shortlisted
    <3>2. CASE i \in 1..Len(s) /\ j = Len(s) + 1
      BY <2>2, <2>3, <2>4, <3>2
    <3>3. CASE i = Len(s) + 1 /\ j \in 1..Len(s)
      BY <2>2, <2>3, <2>4, <3>3
    <3> QED BY <2>5, <2>7, <3>1, <3>2, <3>3
  <2>8. ASSUME NEW i \in 1..Len(t), ~Competitive(t[i], best), NEW d \in S, Competitive(d, best)
        PROVE  \E j \in 1..Len(t) : t[j] = d
    <3>1. CASE \E k \in 1..Len(s) : ~Competitive(s[k], best)
      <4>1. PICK j \in 1..Len(s) : s[j] = d
        BY <2>8, <3>1 DEF Shortlisted
      <4> QED BY <1>1, <2>3, <4>1
    <3>2. CASE ~\E k \in 1..Len(s) : ~Competitive(s[k], best)
      <4>1. i = Len(s) + 1 /\ ~Competitive(c, best)
        BY <2>3, <2>5, <2>8, <3>2
      <4>2. {x \in S \ Range(s) : Competitive(x, best)} = {}
        BY <2>1, <4>1 DEF ChoosePool
      <4>3. d \in Range(s)
        BY <2>8, <4>2
      <4>4. PICK j \in 1..Len(s) : s[j] = d
        BY <1>1, <4>3 DEF Range
      <4> QED BY <1>1, <2>3, <4>4
    <3> QED BY <3>1, <3>2
  <2>9. s # <<>> => t # <<>> /\ t[1] = s[1]
    <3>1. s # <<>> => 1 \in 1..Len(s)
      BY <1>1
    <3>2. t # <<>>
      BY <1>1, <2>3
    <3> QED BY <2>3, <3>1, <3>2
  <2> QED BY <2>3, <2>6, <2>7, <2>8, <2>9 DEF Shortlisted
<1> QED BY <1>3, <1>4

\* Chosen one by one from the first, the members of a pool make a shortlist.
LEMMA PicksAreShortlisted ==
    ASSUME NEW S, IsFiniteSet(S), NEW best, NEW first \in S,
           ~Competitive(first, best) => \A c \in S : ~Competitive(c, best),
           NEW N \in Nat, N # 0, NEW pick, pick[1] = <<first>>, \A n \in 2..N : Grown(S, best, pick[n - 1], pick[n])
    PROVE  Shortlisted(pick[N], S, best, N) /\ pick[N] # <<>> /\ pick[N][1] = first
<1> DEFINE Good(n) == Shortlisted(pick[n], S, best, n) /\ pick[n] # <<>> /\ pick[n][1] = first
           Bad == {n \in 1..N : ~Good(n)}
<1>1. Good(1)
  <2>1. <<first>> \in Seq(S) /\ Len(<<first>>) = 1 /\ <<first>>[1] = first /\ <<first>> # <<>>
    OBVIOUS
  <2>2. Cardinality(S) \in Nat /\ Cardinality(S) # 0
    BY FS_CardinalityType, FS_EmptySet
  <2> QED BY <2>1, <2>2 DEF Shortlisted
<1> HIDE DEF Good
<1>2. SUFFICES ASSUME Bad # {} PROVE FALSE
  <2>1. N \in 1..N
    OBVIOUS
  <2>2. Good(N)
    BY <1>2, <2>1
  <2> QED BY <2>2 DEF Good
<1>3. PICK m \in Bad : \A n \in Bad : m <= n
  <2>1. Bad \in SUBSET Nat
    OBVIOUS
  <2> HIDE DEF Bad
  <2> QED BY <1>2, <2>1, LeastNatural
<1>4. m \in 1..N /\ m # 1 /\ ~Good(m)
  BY <1>1, <1>3
<1>5. m - 1 \in 1..N /\ m \in 2..N /\ m - 1 \in Nat /\ m - 1 + 1 = m /\ ~(m <= m - 1)
  BY <1>4
<1>6. Good(m - 1)
  BY <1>3, <1>5
<1>7. Grown(S, best, pick[m - 1], pick[m])
  BY <1>5
<1>8. Shortlisted(pick[m], S, best, m) /\ pick[m] # <<>> /\ pick[m][1] = pick[m - 1][1]
  BY <1>5, <1>6, <1>7, GrowsShortlisted DEF Good
<1> QED BY <1>4, <1>6, <1>8 DEF Good

\* The first of a ranking by scores make one as well.
LEMMA FirstAreShortlisted ==
    ASSUME NEW S, IsFiniteSet(S), \A c \in S : c.score \in Int, NEW best \in Int,
           NEW ranked \in [1..Cardinality(S) -> S], \A x \in S : \E i \in 1..Cardinality(S) : ranked[i] = x,
           \A i, j \in 1..Cardinality(S) : i < j => ranked[i] # ranked[j] /\ ranked[i].score >= ranked[j].score,
           NEW m \in Nat
    PROVE  Shortlisted(SubSeq(ranked, 1, Min({m, Len(ranked)})), S, best, m)
<1> DEFINE k == IF m <= Cardinality(S) THEN m ELSE Cardinality(S)
           list == SubSeq(ranked, 1, k)
<1>1. Cardinality(S) \in Nat /\ Len(ranked) = Cardinality(S) /\ ranked \in Seq(S)
  BY FS_CardinalityType
<1>2. Min({m, Len(ranked)}) = k
  BY <1>1, MinOfTwo
<1>3. k \in 0..Cardinality(S)
  BY <1>1
<1> HIDE DEF k
<1>4. list \in Seq(S) /\ Len(list) = k /\ \A i \in 1..k : list[i] = ranked[i]
  BY <1>1, <1>3
<1> HIDE DEF list
<1>5. \A i \in 1..k : i \in 1..Cardinality(S)
  BY <1>1, <1>3
<1>6. ASSUME NEW i \in 1..k, NEW j \in 1..k, i # j PROVE list[i] # list[j]
  <2>1. i < j \/ j < i
    BY <1>3, <1>6
  <2> QED BY <1>4, <1>5, <2>1
<1>7. ASSUME NEW i \in 1..k, ~Competitive(list[i], best), NEW d \in S, Competitive(d, best)
      PROVE  \E j \in 1..k : list[j] = d
  <2>1. PICK j \in 1..Cardinality(S) : ranked[j] = d
    OBVIOUS
  <2>2. ~(i < j)
    <3>1. CASE i < j
      <4>1. ranked[i].score >= ranked[j].score /\ ranked[i].score \in Int /\ ranked[j].score \in Int
        BY <1>5, <3>1
      <4>2. 100 * ranked[i].score >= 90 * best
        BY <1>7, <2>1, <4>1 DEF Competitive
      <4> QED BY <1>4, <1>7, <4>2 DEF Competitive
    <3> QED BY <3>1
  <2>3. j \in 1..k
    BY <1>1, <1>3, <2>2
  <2> QED BY <1>4, <2>1, <2>3
<1>8. Len(list) = IF m <= Cardinality(S) THEN m ELSE Cardinality(S)
  BY <1>4 DEF k
<1>9. Shortlisted(list, S, best, m)
  BY <1>4, <1>6, <1>7, <1>8 DEF Shortlisted
<1> QED BY <1>2, <1>9 DEF list

------------------------------------------------------------------------------
(* The gap recommendations.  In which world and by which heuristics they are    *)
(* made stays as it is.                                                          *)
Placed == world \in Worlds /\ heur \in HeuristicSets

LEMMA HullsAreTyped ==
    ASSUME Placed
    PROVE  /\ IsFiniteSet(DOMAIN hulls) /\ IsFiniteSet(Known) /\ IsFiniteSet(world.known)
           /\ \A h \in DOMAIN hulls : h \in Nat \ {0} /\ IsHull(hulls[h])
           /\ Known \subseteq DOMAIN hulls /\ Known \subseteq world.known /\ Own \subseteq Known
<1>1. IsFiniteSet(world.known) /\ IsFiniteSet(DOMAIN world.hulls) /\ \A h \in DOMAIN world.hulls : h \in Nat \ {0} /\ IsHull(world.hulls[h])
  BY WorldsAssumption DEF Placed
<1>2. Known \subseteq DOMAIN hulls /\ Known \subseteq world.known /\ Own \subseteq Known
  BY DEF Known, Own
<1>3. IsFiniteSet(Known)
  BY <1>1, <1>2, FS_Subset
<1> QED BY <1>1, <1>2, <1>3 DEF hulls

\* A candidate is a hull of the scan with one of its builds, or with none before there are builds.
Candidate(c) ==
    /\ c.score \in Int
    /\ c.hull \in DOMAIN hulls
    /\ IF heur.builds THEN c.build \in hulls[c.hull].builds ELSE c.build = NoBuild
Fair(pool) ==
    /\ IsFiniteSet(pool)
    /\ \A c \in pool : Candidate(c)
    /\ \A c, d \in pool : c.hull = d.hull /\ c.build = d.build => c = d

LEMMA CandidateBuild ==
    ASSUME Placed, NEW c, Candidate(c)
    PROVE  /\ c.hull \in Nat /\ c.build.id \in Nat /\ c.build.sure \in Nat /\ c.build.compat \in Nat
           /\ IsFiniteSet(DOMAIN c.build.style) /\ IsFiniteSet(c.build.wants) /\ IsFiniteSet(hulls[c.hull].traits)
<1>1. c.hull \in Nat \ {0} /\ IsHull(hulls[c.hull])
  BY HullsAreTyped DEF Candidate
<1>2. CASE heur.builds
  <2>1. c.build \in hulls[c.hull].builds
    BY <1>2 DEF Candidate
  <2>2. IsBuild(c.build)
    BY <1>1, <2>1 DEF IsHull
  <2> QED BY <1>1, <2>2 DEF IsHull, IsBuild
<1>3. CASE ~heur.builds
  <2>1. c.build = NoBuild
    BY <1>3 DEF Candidate
  <2>2. NoBuild.id = 0 /\ NoBuild.sure = 40 /\ NoBuild.compat = 10 /\ NoBuild.style = <<>> /\ NoBuild.wants = {}
    BY DEF NoBuild
  <2>3. DOMAIN <<>> = {}
    OBVIOUS
  <2> QED BY <1>1, <2>1, <2>2, <2>3, FS_EmptySet DEF IsHull
<1> QED BY <1>2, <1>3

\* A hull and the id of a build name one candidate of a pool.
LEMMA OneOfTheName ==
    ASSUME Placed, NEW pool, Fair(pool), NEW c \in pool, NEW d \in pool, c.hull = d.hull,
           heur.builds => c.build.id = d.build.id
    PROVE  c = d
<1>1. c.build = d.build
  <2>1. CASE heur.builds
    <3>1. c.hull \in DOMAIN hulls /\ c.build \in hulls[c.hull].builds /\ d.build \in hulls[c.hull].builds
      BY <2>1 DEF Fair, Candidate
    <3>2. IsHull(hulls[c.hull])
      BY <3>1, HullsAreTyped
    <3> QED BY <2>1, <3>1, <3>2 DEF IsHull
  <2>2. CASE ~heur.builds
    BY <2>2 DEF Fair, Candidate
  <2> QED BY <2>1, <2>2
<1> QED BY <1>1 DEF Fair

LEMMA ExceedsOfThree ==
    ASSUME NEW a \in Int, NEW b \in Int, NEW c \in Int, NEW d \in Int, NEW e \in Int, NEW f \in Int
    PROVE  /\ <<a, b, c>> \in [1..3 -> Int]
           /\ Exceeds(<<a, b, c>>, <<d, e, f>>) <=> a > d \/ (a = d /\ (b > e \/ (b = e /\ c > f)))
<1> DEFINE s == <<a, b, c>>
           t == <<d, e, f>>
<1>1. DOMAIN s = 1..3 /\ s[1] = a /\ s[2] = b /\ s[3] = c /\ t[1] = d /\ t[2] = e /\ t[3] = f
  OBVIOUS
<1>2. s \in [1..3 -> Int]
  OBVIOUS
<1> HIDE DEF s, t
<1>3. Exceeds(s, t) <=> \E i \in 1..3 : s[i] > t[i] /\ \A j \in 1..i - 1 : s[j] = t[j]
  BY <1>1 DEF Exceeds
<1>4. (\E i \in 1..3 : s[i] > t[i] /\ \A j \in 1..i - 1 : s[j] = t[j])
         <=> s[1] > t[1] \/ (s[1] = t[1] /\ s[2] > t[2]) \/ (s[1] = t[1] /\ s[2] = t[2] /\ s[3] > t[3])
  <2>1. 1..1 - 1 = {} /\ 1..2 - 1 = {1} /\ 1..3 - 1 = {1, 2} /\ 1..3 = {1, 2, 3}
    OBVIOUS
  <2>2. (s[1] > t[1] /\ \A j \in 1..1 - 1 : s[j] = t[j]) <=> s[1] > t[1]
    BY <2>1
  <2>3. (s[2] > t[2] /\ \A j \in 1..2 - 1 : s[j] = t[j]) <=> (s[1] = t[1] /\ s[2] > t[2])
    BY <2>1
  <2>4. (s[3] > t[3] /\ \A j \in 1..3 - 1 : s[j] = t[j]) <=> (s[1] = t[1] /\ s[2] = t[2] /\ s[3] > t[3])
    BY <2>1
  <2> QED BY <2>1, <2>2, <2>3, <2>4
<1>5. Exceeds(s, t) <=> a > d \/ (a = d /\ (b > e \/ (b = e /\ c > f)))
  BY <1>1, <1>3, <1>4
<1> QED BY <1>2, <1>5 DEF s, t

\* The ranking of a pool has each member once, the best first.
LEMMA RankingIsRanked ==
    ASSUME Placed, NEW pool, Fair(pool)
    PROVE  /\ Cardinality(pool) \in Nat
           /\ Ranking(pool) \in [1..Cardinality(pool) -> pool]
           /\ \A c \in pool : \E i \in 1..Cardinality(pool) : Ranking(pool)[i] = c
           /\ \A i, j \in 1..Cardinality(pool) :
                 i < j => Ranking(pool)[i] # Ranking(pool)[j] /\ Ranking(pool)[i].score >= Ranking(pool)[j].score
<1> DEFINE before == {p \in pool \X pool : RanksBefore(p[1], p[2])}
           key == [c \in pool |-> <<c.score, -c.hull, -c.build.id>>]
<1>1. \A c \in pool : c.score \in Int /\ c.hull \in Nat /\ c.build.id \in Nat
  BY CandidateBuild DEF Fair, Candidate
<1>2. ASSUME NEW c \in pool
      PROVE  /\ c.score \in Int /\ -c.hull \in Int /\ -c.build.id \in Int
             /\ <<c.score, -c.hull, -c.build.id>> \in [1..3 -> Int]
  <2>1. c.score \in Int /\ -c.hull \in Int /\ -c.build.id \in Int
    BY <1>1
  <2> QED BY <2>1, ExceedsOfThree
<1>3. key \in [pool -> [1..3 -> Int]]
  BY <1>2
<1>4. ASSUME NEW c \in pool, NEW d \in pool, key[c] = key[d] PROVE c = d
  <2>1. -c.hull = -d.hull /\ -c.build.id = -d.build.id
    BY <1>4
  <2>2. c.hull = d.hull /\ c.build.id = d.build.id
    BY <1>1, <2>1
  <2> QED BY <2>2, OneOfTheName
<1>5. ASSUME NEW c \in pool, NEW d \in pool PROVE <<c, d>> \in before <=> Exceeds(key[c], key[d])
  <2>1. <<c, d>> \in before <=> RanksBefore(c, d)
    OBVIOUS
  <2>2. Exceeds(key[c], key[d]) <=>
            c.score > d.score \/ (c.score = d.score /\ (-c.hull > -d.hull \/ (-c.hull = -d.hull /\ -c.build.id > -d.build.id)))
    <3>1. PICK x \in Int, y \in Int, z \in Int : x = c.score /\ y = -c.hull /\ z = -c.build.id
      BY <1>2
    <3>2. PICK u \in Int, v \in Int, w \in Int : u = d.score /\ v = -d.hull /\ w = -d.build.id
      BY <1>2
    <3>3. Exceeds(<<x, y, z>>, <<u, v, w>>) <=> x > u \/ (x = u /\ (y > v \/ (y = v /\ z > w)))
      BY ExceedsOfThree
    <3>4. key[c] = <<x, y, z>> /\ key[d] = <<u, v, w>>
      BY <3>1, <3>2
    <3> HIDE DEF key, before
    <3> QED BY <3>1, <3>2, <3>3, <3>4
  <2>3. RanksBefore(c, d) <=>
            c.score > d.score \/ (c.score = d.score /\ (-c.hull > -d.hull \/ (-c.hull = -d.hull /\ -c.build.id > -d.build.id)))
    BY <1>1 DEF RanksBefore
  <2> QED BY <2>1, <2>2, <2>3
<1>6. Ranking(pool) = InOrder(pool, before)
  BY DEF Ranking
<1>7. \A c, d \in pool : <<c, d>> \in before => c # d /\ c.score >= d.score
  <2>1. \A c, d \in pool : <<c, d>> \in before => RanksBefore(c, d)
    OBVIOUS
  <2> QED BY <1>1, <2>1 DEF RanksBefore
<1>8. IsFiniteSet(pool)
  BY DEF Fair
<1> HIDE DEF before, key
<1>9. Ordered(pool, before)
  BY <1>3, <1>4, <1>5, <1>8, ReasonsOrder
<1>10. /\ Cardinality(pool) \in Nat
       /\ Ranking(pool) \in [1..Cardinality(pool) -> pool]
       /\ \A c \in pool : \E i \in 1..Cardinality(pool) : Ranking(pool)[i] = c
       /\ \A i, j \in 1..Cardinality(pool) : i < j => <<Ranking(pool)[i], Ranking(pool)[j]>> \in before
  BY <1>6, <1>9, InOrderIsSorted
<1> QED BY <1>7, <1>10

\* What is compared of two candidates are numbers.
LEMMA JaccardIsInt ==
    ASSUME NEW a, NEW b, IsFiniteSet(a), IsFiniteSet(b)
    PROVE  Jaccard(a, b) \in Int
<1>1. IsFiniteSet(a \cup b) /\ IsFiniteSet(a \cap b)
  BY FS_Union, FS_Intersection
<1>2. Cardinality(a \cup b) \in Nat /\ Cardinality(a \cap b) \in Nat /\ (a \cup b # {} => Cardinality(a \cup b) # 0)
  BY <1>1, FS_CardinalityType, FS_EmptySet
<1>3. 100 * Cardinality(a \cap b) \in Int
  BY <1>2
<1>4. CASE a \cup b = {}
  BY <1>4 DEF Jaccard
<1>5. CASE a \cup b # {}
  <2>1. (100 * Cardinality(a \cap b)) \div Cardinality(a \cup b) \in Int
    BY <1>2, <1>3, <1>5
  <2> QED BY <1>5, <2>1 DEF Jaccard
<1> QED BY <1>4, <1>5

LEMMA LikenessIsInt ==
    ASSUME Placed, NEW c, Candidate(c), NEW d, Candidate(d)
    PROVE  Likeness(c, d) \in Int
<1>1. CASE heur.builds
  <2> DEFINE same == {i \in DOMAIN c.build.style : c.build.style[i] = d.build.style[i]}
  <2>1. Jaccard(c.build.wants, d.build.wants) \in Int /\ Jaccard(hulls[c.hull].traits, hulls[d.hull].traits) \in Int
    BY CandidateBuild, JaccardIsInt
  <2>2. Cardinality(same) \in Int
    <3>1. same \in SUBSET DOMAIN c.build.style /\ IsFiniteSet(DOMAIN c.build.style)
      BY CandidateBuild
    <3> HIDE DEF same
    <3>2. IsFiniteSet(same)
      BY <3>1, FS_Subset
    <3> QED BY <3>2, FS_CardinalityType
  <2> HIDE DEF same
  <2>3. 10 * Cardinality(same) + (30 * Jaccard(c.build.wants, d.build.wants) + 30 * Jaccard(hulls[c.hull].traits, hulls[d.hull].traits)) \div 100 \in Int
    BY <2>1, <2>2
  <2> QED BY <1>1, <2>3 DEF Likeness, same
<1>2. CASE ~heur.builds
  <2>1. \A h : RolesOf(h) \subseteq Roles
    BY DEF RolesOf
  <2>2. \A h : IsFiniteSet(RolesOf(h))
    BY <2>1, GapAssumption, FS_Subset
  <2>3. Jaccard(RolesOf(c.hull), RolesOf(d.hull)) \in Int /\ Jaccard(hulls[c.hull].traits, hulls[d.hull].traits) \in Int
    BY <2>2, CandidateBuild, JaccardIsInt
  <2>4. (55 * Jaccard(RolesOf(c.hull), RolesOf(d.hull)) + 45 * Jaccard(hulls[c.hull].traits, hulls[d.hull].traits)) \div 100 \in Int
    BY <2>3
  <2> QED BY <1>2, <2>4 DEF Likeness
<1> QED BY <1>1, <1>2

\* How much a candidate is like those chosen.
Closest(c, chosen) == Max({Likeness(c, d) : d \in chosen})

LEMMA ClosestIsInt ==
    ASSUME Placed, NEW c, Candidate(c), NEW chosen, IsFiniteSet(chosen), chosen # {}, \A d \in chosen : Candidate(d)
    PROVE  Closest(c, chosen) \in Int
<1> DEFINE like == [d \in chosen |-> Likeness(c, d)]
           all == {like[d] : d \in chosen}
<1>1. \A d \in chosen : like[d] \in Int
  BY LikenessIsInt
<1>2. IsFiniteSet(all)
  <2> HIDE DEF like
  <2> QED BY ImageIsFinite
<1>3. all \subseteq Int /\ all # {}
  <2> HIDE DEF like
  <2> QED BY <1>1
<1>4. all = {Likeness(c, d) : d \in chosen}
  OBVIOUS
<1> HIDE DEF all, like
<1>5. Max(all) \in Int
  BY <1>2, <1>3, ExtremesExist
<1> QED BY <1>4, <1>5 DEF Closest

LEMMA TupleOfFour == ASSUME NEW a \in Int, NEW b \in Int, NEW c \in Int, NEW d \in Int PROVE <<a, b, c, d>> \in [1..4 -> Int]
  OBVIOUS

\* Some candidate appeals most.
LEMMA AChoiceExists ==
    ASSUME Placed, NEW pool, Fair(pool), NEW rest, rest \subseteq pool, rest # {},
           NEW chosen, chosen \subseteq pool, chosen # {}, NEW best \in Int
    PROVE  \E c \in rest : \A d \in rest \ {c} : Exceeds(Appeal(c, chosen, best), Appeal(d, chosen, best))
<1> DEFINE key == [c \in rest |-> Appeal(c, chosen, best)]
<1>1. IsFiniteSet(rest) /\ IsFiniteSet(chosen)
  BY FS_Subset DEF Fair
<1>2. \A c \in pool : Candidate(c) /\ c.score \in Int /\ c.hull \in Nat /\ c.build.id \in Nat
  BY CandidateBuild DEF Fair, Candidate
<1>3. \A c \in rest : Closest(c, chosen) \in Int
  BY <1>1, <1>2, ClosestIsInt
<1>4. CASE heur.builds
  <2>1. \A c \in rest : key[c] = <<100 - Closest(c, chosen), c.score, c.hull, c.build.id>>
    BY <1>4 DEF Appeal, Closest
  <2> HIDE DEF key
  <2>2. ASSUME NEW c \in rest PROVE key[c] \in [1..4 -> Int]
    <3>1. 100 - Closest(c, chosen) \in Int /\ c.score \in Int /\ c.hull \in Int /\ c.build.id \in Int
      BY <1>2, <1>3
    <3>2. <<100 - Closest(c, chosen), c.score, c.hull, c.build.id>> \in [1..4 -> Int]
      BY <3>1, TupleOfFour
    <3> QED BY <2>1, <3>2
  <2>3. key \in [rest -> [1..4 -> Int]]
    BY <2>2 DEF key
  <2>4. \A c, d \in rest : key[c] = key[d] => c = d
    <3>1. \A c, d \in rest : key[c] = key[d] => c.hull = d.hull /\ c.build.id = d.build.id
      BY <2>1
    <3> QED BY <3>1, OneOfTheName
  <2>5. \E c \in rest : \A d \in rest \ {c} : Exceeds(key[c], key[d])
    <3>1. \A k \in Nat : key \in [rest -> [1..k -> Int]] => \E c \in rest : \A d \in rest \ {c} : Exceeds(key[c], key[d])
      BY <1>1, <2>4, OneAppealsMost
    <3> QED BY <2>3, <3>1
  <2> QED BY <2>5 DEF key
<1>5. CASE ~heur.builds
  <2>1. \A c \in rest : key[c] = <<10000 * c.score - 15 * Closest(c, chosen) * best, 100 - Closest(c, chosen), c.hull>>
    BY <1>5 DEF Appeal, Closest
  <2> HIDE DEF key
  <2>2. ASSUME NEW c \in rest PROVE key[c] \in [1..3 -> Int]
    <3>1. 10000 * c.score - 15 * Closest(c, chosen) * best \in Int /\ 100 - Closest(c, chosen) \in Int /\ c.hull \in Int
      <4>1. Closest(c, chosen) \in Int /\ c.score \in Int /\ c.hull \in Int
        BY <1>2, <1>3
      <4>2. 15 * Closest(c, chosen) * best \in Int
        BY <4>1
      <4> QED BY <4>1, <4>2
    <3>2. <<10000 * c.score - 15 * Closest(c, chosen) * best, 100 - Closest(c, chosen), c.hull>> \in [1..3 -> Int]
      BY <3>1, ExceedsOfThree
    <3> QED BY <2>1, <3>2
  <2>3. key \in [rest -> [1..3 -> Int]]
    BY <2>2 DEF key
  <2>4. \A c, d \in rest : key[c] = key[d] => c = d
    <3>1. \A c, d \in rest : key[c] = key[d] => c.hull = d.hull
      BY <2>1
    <3> QED BY <1>5, <3>1, OneOfTheName
  <2>5. \E c \in rest : \A d \in rest \ {c} : Exceeds(key[c], key[d])
    <3>1. \A k \in Nat : key \in [rest -> [1..k -> Int]] => \E c \in rest : \A d \in rest \ {c} : Exceeds(key[c], key[d])
      BY <1>1, <2>4, OneAppealsMost
    <3> QED BY <2>3, <3>1
  <2> QED BY <2>5 DEF key
<1> QED BY <1>4, <1>5

\* The shortlist as the recursion makes it: who comes after those of s.
NextPick(ranked, best, s) ==
    LET chosen == Range(s)
        rest   == Range(ranked) \ chosen
        pool   == ChoosePool(rest, best)
    IN  IF rest = {} THEN s
        ELSE Append(s, CHOOSE c \in pool : \A d \in pool \ {c} : Exceeds(Appeal(c, chosen, best), Appeal(d, chosen, best)))
Picks(f, ranked, best) == f = [n \in 1..Count |-> IF n = 1 THEN <<ranked[1]>> ELSE NextPick(ranked, best, f[n - 1])]

LEMMA DiverseByDefinition ==
    ASSUME NEW ranked
    PROVE  DiverseShortlist(ranked) = IF ranked = <<>> THEN <<>> ELSE (CHOOSE f : Picks(f, ranked, ranked[1].score))[Count]
<1>1. DiverseShortlist(ranked) = IF ranked = <<>> THEN <<>>
          ELSE (CHOOSE f : f = [n \in 1..Count |-> IF n = 1 THEN <<ranked[1]>> ELSE NextPick(ranked, ranked[1].score, f[n - 1])])[Count]
  BY DEF DiverseShortlist, NextPick
<1> QED BY <1>1 DEF Picks

LEMMA NextPickGrows ==
    ASSUME Placed, NEW pool, Fair(pool), NEW ranked, Range(ranked) = pool, NEW best \in Int, NEW s \in Seq(pool), s # <<>>
    PROVE  Grown(pool, best, s, NextPick(ranked, best, s)) /\ NextPick(ranked, best, s) \in Seq(pool) \ {<<>>}
<1> DEFINE near == ChoosePool(pool \ Range(s), best)
           chosen == Range(s)
           next == CHOOSE c \in near : \A d \in near \ {c} : Exceeds(Appeal(c, chosen, best), Appeal(d, chosen, best))
<1>1. chosen \subseteq pool /\ chosen # {}
  <2>1. 1 \in DOMAIN s /\ \A i \in DOMAIN s : s[i] \in pool
    OBVIOUS
  <2> QED BY <2>1 DEF Range
<1>2. NextPick(ranked, best, s) = IF pool \ Range(s) = {} THEN s ELSE Append(s, next)
  BY DEF NextPick
<1>3. CASE pool \ Range(s) = {}
  BY <1>2, <1>3 DEF Grown
<1>4. CASE pool \ Range(s) # {}
  <2>1. near \subseteq pool /\ near # {}
    BY <1>4 DEF ChoosePool
  <2> HIDE DEF near, chosen
  <2>2. \E c \in near : \A d \in near \ {c} : Exceeds(Appeal(c, chosen, best), Appeal(d, chosen, best))
    BY <1>1, <2>1, AChoiceExists
  <2>3. next \in near
    BY <2>2
  <2> HIDE DEF next
  <2>4. NextPick(ranked, best, s) = Append(s, next) /\ next \in pool
    BY <1>2, <1>4, <2>1, <2>3
  <2>5. Append(s, next) \in Seq(pool) /\ Append(s, next) # <<>>
    BY <2>4
  <2> QED BY <1>4, <2>3, <2>4, <2>5 DEF Grown, near
<1> QED BY <1>3, <1>4

LEMMA DiverseIsShortlisted ==
    ASSUME Placed, NEW pool, Fair(pool), NEW ranked, Range(ranked) = pool, ranked # <<>>, ranked[1] \in pool,
           \A c \in pool : c.score <= ranked[1].score
    PROVE  /\ Shortlisted(DiverseShortlist(ranked), pool, ranked[1].score, Count)
           /\ DiverseShortlist(ranked) # <<>> /\ DiverseShortlist(ranked)[1] = ranked[1]
<1> DEFINE D == Seq(pool) \ {<<>>}
           best == ranked[1].score
           step == [s \in D |-> NextPick(ranked, best, s)]
<1>1. best \in Int /\ Count \in Nat \ {0} /\ IsFiniteSet(pool)
  BY GapAssumption DEF Fair, Candidate
<1>2. \A s \in D : Grown(pool, best, s, NextPick(ranked, best, s)) /\ NextPick(ranked, best, s) \in D
  <2> HIDE DEF best
  <2> QED BY <1>1, NextPickGrows
<1>3. step \in [D -> D] /\ <<ranked[1]>> \in D
  <2>1. <<ranked[1]>> \in D
    OBVIOUS
  <2> HIDE DEF D, best
  <2> QED BY <1>2, <2>1
<1> HIDE DEF D, best
<1>4. PICK f \in [1..Count -> D] : Steps(f, <<ranked[1]>>, step, Count)
  <2> HIDE DEF step
  <2> QED BY <1>1, <1>3, StepsExist
<1>5. Picks(f, ranked, best)
  <2>1. ASSUME NEW n \in 1..Count PROVE f[n] = IF n = 1 THEN <<ranked[1]>> ELSE NextPick(ranked, best, f[n - 1])
    <3>1. n # 1 => n - 1 \in 1..Count
      BY <1>1
    <3> QED BY <1>4, <3>1 DEF Steps
  <2> DEFINE g == [n \in 1..Count |-> IF n = 1 THEN <<ranked[1]>> ELSE NextPick(ranked, best, f[n - 1])]
  <2>2. \A n \in 1..Count : g[n] = f[n]
    BY <2>1
  <2>3. f = [n \in 1..Count |-> f[n]] /\ g = [n \in 1..Count |-> g[n]]
    BY <1>4
  <2> HIDE DEF g
  <2>4. f = g
    BY <2>2, <2>3
  <2> QED BY <2>4 DEF g, Picks
<1>6. PICK pick : pick = CHOOSE h : Picks(h, ranked, best)
  OBVIOUS
<1>7. Picks(pick, ranked, best)
  BY <1>5, <1>6
<1>8. DiverseShortlist(ranked) = pick[Count]
  BY <1>6, DiverseByDefinition DEF best
<1>9. \A n \in 1..Count : pick[n] = IF n = 1 THEN <<ranked[1]>> ELSE NextPick(ranked, best, pick[n - 1])
  BY <1>7 DEF Picks
<1>10. \A n \in 1..Count : pick[n] \in D
  <2> DEFINE Bad == {n \in 1..Count : pick[n] \notin D}
  <2>1. SUFFICES ASSUME Bad # {} PROVE FALSE
    OBVIOUS
  <2>2. PICK m \in Bad : \A n \in Bad : m <= n
    <3>1. Bad \in SUBSET Nat
      OBVIOUS
    <3> HIDE DEF Bad
    <3> QED BY <2>1, <3>1, LeastNatural
  <2>3. m \in 1..Count /\ m # 1
    BY <1>3, <1>9, <2>2
  <2>4. m - 1 \in 1..Count /\ ~(m <= m - 1)
    BY <1>1, <2>3
  <2>5. pick[m - 1] \in D
    BY <2>2, <2>4
  <2>6. pick[m] \in D
    BY <1>2, <1>9, <2>3, <2>5
  <2> QED BY <2>2, <2>6
<1>11. ASSUME NEW n \in 2..Count PROVE Grown(pool, best, pick[n - 1], pick[n])
  <2>1. n \in 1..Count /\ n # 1 /\ n - 1 \in 1..Count
    BY <1>1
  <2> QED BY <1>2, <1>9, <1>10, <2>1
<1>12. pick[1] = <<ranked[1]>>
  BY <1>1, <1>9
<1>13. ~Competitive(ranked[1], best) => \A c \in pool : ~Competitive(c, best)
  <2>1. \A c \in pool : c.score \in Int /\ c.score <= ranked[1].score
    BY DEF Fair, Candidate
  <2>2. ASSUME NEW c \in pool, Competitive(c, best) PROVE Competitive(ranked[1], best)
    <3>1. c.score \in Int /\ ranked[1].score \in Int /\ c.score <= ranked[1].score
      BY <2>1
    <3>2. 100 * c.score >= 90 * best
      BY <2>2 DEF Competitive
    <3> QED BY <1>1, <3>1, <3>2 DEF Competitive
  <2> QED BY <2>2
<1>14. Shortlisted(pick[Count], pool, best, Count) /\ pick[Count] # <<>> /\ pick[Count][1] = ranked[1]
  <2>1. PICK first \in pool : first = ranked[1]
    OBVIOUS
  <2>2. PICK N \in Nat : N = Count /\ N # 0
    BY <1>1
  <2>3. pick[1] = <<first>> /\ (~Competitive(first, best) => \A c \in pool : ~Competitive(c, best))
    BY <1>12, <1>13, <2>1
  <2>4. \A n \in 2..N : Grown(pool, best, pick[n - 1], pick[n])
    BY <1>11, <2>2
  <2>5. IsFiniteSet(pool) /\ N \in Nat /\ N # 0
    BY <1>1, <2>2
  <2>6. Shortlisted(pick[N], pool, best, N) /\ pick[N] # <<>> /\ pick[N][1] = first
    BY <2>3, <2>4, <2>5, PicksAreShortlisted
  <2> QED BY <2>1, <2>2, <2>6
<1> QED BY <1>8, <1>14 DEF best

BestOf(pool) == Max({c.score : c \in pool})

LEMMA ShortlistIsShort ==
    ASSUME Placed, NEW pool, Fair(pool), NEW list, list = Shortlist(Ranking(pool))
    PROVE  /\ Shortlisted(list, pool, BestOf(pool), Count)
           /\ list # <<>> => list[1].score = BestOf(pool) /\ list[1] = Ranking(pool)[1]
<1> DEFINE ranked == Ranking(pool)
           n == Cardinality(pool)
<1>1. /\ n \in Nat /\ ranked \in [1..n -> pool]
      /\ \A c \in pool : \E i \in 1..n : ranked[i] = c
      /\ \A i, j \in 1..n : i < j => ranked[i] # ranked[j] /\ ranked[i].score >= ranked[j].score
  BY RankingIsRanked
<1>2. IsFiniteSet(pool) /\ \A c \in pool : c.score \in Int
  BY DEF Fair, Candidate
<1>3. Count \in Nat \ {0}
  BY GapAssumption
<1> HIDE DEF ranked
<1>4. Len(ranked) = n /\ ranked \in Seq(pool)
  BY <1>1
<1>5. CASE pool = {}
  <2>1. n = 0
    BY <1>5, FS_EmptySet
  <2>2. ranked = <<>>
    BY <1>4, <2>1
  <2>3. DiverseShortlist(ranked) = <<>>
    BY <2>2, DiverseByDefinition
  <2>4. SubSeq(ranked, 1, Min({Count, Len(ranked)})) = <<>>
    <3>1. Min({Count, Len(ranked)}) = 0
      BY <1>3, <1>4, <2>1, MinOfTwo
    <3> QED BY <2>2, <3>1
  <2>5. list = <<>>
    BY <2>3, <2>4 DEF Shortlist, ranked
  <2>6. <<>> \in Seq(pool) /\ Len(<<>>) = 0 /\ 1..0 = {}
    OBVIOUS
  <2>7. Len(list) = IF Count <= Cardinality(pool) THEN Count ELSE Cardinality(pool)
    BY <1>3, <2>1, <2>5, <2>6
  <2>8. 1..Len(list) = {}
    BY <2>5, <2>6
  <2> HIDE DEF n
  <2>9. Shortlisted(list, pool, BestOf(pool), Count)
    BY <2>5, <2>6, <2>7, <2>8 DEF Shortlisted
  <2> QED BY <2>5, <2>9
<1>6. CASE pool # {}
  <2>1. n # 0 /\ 1 \in 1..n
    BY <1>1, <1>2, <1>6, FS_EmptySet
  <2>2. \A c \in pool : c.score <= ranked[1].score
    <3>1. ASSUME NEW c \in pool PROVE c.score <= ranked[1].score
      <4>1. PICK i \in 1..n : ranked[i] = c
        BY <1>1
      <4>2. ranked[1].score \in Int /\ c.score \in Int
        BY <1>1, <1>2, <2>1
      <4>3. CASE i = 1
        BY <4>1, <4>2, <4>3
      <4>4. CASE i # 1
        <5>1. 1 < i
          BY <1>1, <4>4
        <5> QED BY <1>1, <2>1, <4>1, <4>2, <5>1
      <4> QED BY <4>3, <4>4
    <3> QED BY <3>1
  <2>3. ranked[1] \in pool /\ ranked # <<>> /\ Range(ranked) = pool /\ ranked[1].score \in Int
    <3>1. ranked[1] \in pool
      BY <1>1, <2>1
    <3>2. ranked # <<>>
      BY <1>4, <2>1
    <3>3. Range(ranked) = pool
      BY <1>1 DEF Range
    <3> QED BY <1>2, <3>1, <3>2, <3>3
  <2>4. BestOf(pool) = ranked[1].score
    <3> DEFINE scores == {c.score : c \in pool}
    <3>1. ranked[1].score \in scores /\ scores \subseteq Int /\ \A x \in scores : x <= ranked[1].score
      BY <1>2, <2>2, <2>3
    <3> HIDE DEF scores
    <3>2. \A x, y \in scores : x >= y /\ y >= x => x = y
      BY <3>1
    <3>3. Max(scores) = CHOOSE x \in scores : \A y \in scores : x >= y
      BY DEF Max
    <3>4. \A y \in scores : ranked[1].score >= y
      BY <3>1
    <3>5. Max(scores) \in scores /\ \A y \in scores : Max(scores) >= y
      BY <3>1, <3>3, <3>4
    <3>6. Max(scores) = ranked[1].score
      BY <3>1, <3>2, <3>4, <3>5
    <3> QED BY <3>6 DEF BestOf, scores
  <2>5. CASE heur.builds \/ heur.diverse
    <3>1. list = DiverseShortlist(ranked)
      BY <2>5 DEF Shortlist, ranked
    <3>2. Shortlisted(list, pool, ranked[1].score, Count) /\ list[1] = ranked[1]
      BY <2>2, <2>3, <3>1, DiverseIsShortlisted
    <3> QED BY <2>4, <3>2 DEF ranked
  <2>6. CASE ~(heur.builds \/ heur.diverse)
    <3>1. list = SubSeq(ranked, 1, Min({Count, Len(ranked)}))
      BY <2>6 DEF Shortlist, ranked
    <3>2. Shortlisted(list, pool, ranked[1].score, Count)
      BY <1>1, <1>2, <1>3, <2>3, <3>1, FirstAreShortlisted
    <3>3. list[1] = ranked[1]
      <4>1. Min({Count, Len(ranked)}) \in 1..n
        BY <1>3, <1>4, <2>1, MinOfTwo
      <4> QED BY <1>4, <3>1, <4>1
    <3> QED BY <2>4, <3>2, <3>3 DEF ranked
  <2> QED BY <2>5, <2>6
<1> QED BY <1>5, <1>6

\* What a pack leaves is weighed between nothing and its whole.
GuideIsTyped(g) ==
    /\ g.trust \in {0, 2, 3, 4}
    /\ \A h \in DOMAIN g.approved : g.approved[h] \in 0..10
    /\ \A b \in DOMAIN g.prefers : g.prefers[b].value \in Int /\ g.prefers[b].confidence \in Int

LEMMA NoGuidanceIsTyped == GuideIsTyped(NoGuidance)
<1>1. DOMAIN <<>> = {}
  OBVIOUS
<1> QED BY <1>1 DEF GuideIsTyped, NoGuidance

LEMMA GuideIs == ASSUME Placed PROVE GuideIsTyped(guide)
<1>1. PICK p : p = world.pack
  OBVIOUS
<1>2. PICK fresh : fresh = Freshness(p, world.factions, hulls)
  OBVIOUS
<1>3. fresh \in {"INCOMPATIBLE", "CURRENT", "STALE", "PARTIALLY_STALE"}
  BY <1>2 DEF Freshness
<1>4. CASE guide = NoGuidance
  BY <1>4, NoGuidanceIsTyped
<1>5. CASE guide # NoGuidance
  <2>1. guide = [trust    |-> Trust[fresh],
                 approved |-> [h \in DOMAIN p.approved \cap DOMAIN hulls |-> p.approved[h]],
                 prefers  |-> p.prefers,
                 tiers    |-> p.tiers] /\ p # Nil
    BY <1>1, <1>2, <1>5 DEF guide, Guidance
  <2>2. IsPack(p)
    BY <1>1, <2>1, WorldsAssumption DEF Placed
  <2>3. Trust[fresh] \in {0, 2, 3, 4}
    BY <1>3 DEF Trust
  <2> QED BY <2>1, <2>2, <2>3 DEF GuideIsTyped, IsPack
<1> QED BY <1>4, <1>5

LEMMA BiasIsInt ==
    ASSUME NEW g, GuideIsTyped(g), NEW p, NEW stage, NEW h, NEW b PROVE Bias(g, p, stage, h, b) \in Int
<1> DEFINE leaning == IF b \in DOMAIN g.prefers THEN (g.prefers[b].value - 5) * g.prefers[b].confidence * g.trust ELSE 0
           staged == IF p /\ h \in StageHulls(g, stage) THEN 50 * g.trust ELSE 0
<1>1. g.trust \in Int
  BY DEF GuideIsTyped
<1>2. leaning \in Int
  <2>1. CASE b \in DOMAIN g.prefers
    <3>1. g.prefers[b].value - 5 \in Int /\ g.prefers[b].confidence \in Int
      BY <2>1 DEF GuideIsTyped
    <3>2. (g.prefers[b].value - 5) * g.prefers[b].confidence \in Int
      BY <3>1
    <3> QED BY <1>1, <2>1, <3>2
  <2> QED BY <2>1
<1>3. staged \in Int
  BY <1>1
<1>4. Bias(g, p, stage, h, b) = 4000 + leaning + staged
  BY DEF Bias
<1> HIDE DEF leaning, staged
<1> QED BY <1>2, <1>3, <1>4

LEMMA ExtraIsAFraction ==
    ASSUME NEW g, GuideIsTyped(g), NEW leg, NEW h PROVE Extra(leg, h, g) \in 0..40
<1>1. CASE h \notin DOMAIN g.approved
  BY <1>1 DEF Extra, GuidanceConfidence
<1>2. CASE h \in DOMAIN g.approved
  <2>1. g.approved[h] \in 0..10 /\ g.trust \in {0, 2, 3, 4}
    BY <1>2 DEF GuideIsTyped
  <2>2. \A a \in 0..10, t \in {0, 2, 3, 4} : a * t \in 0..40
    OBVIOUS
  <2>3. GuidanceConfidence(g, h) \in 0..40
    BY <1>2, <2>1, <2>2 DEF GuidanceConfidence
  <2> QED BY <2>3 DEF Extra
<1> QED BY <1>1, <1>2

\* Of the evidence for a role the best is one of it.
LEMMA OneIsBestSighted ==
    ASSUME Placed, NEW role \in Roles, Sighted(role) # {}
    PROVE  BestSighted(role).score \in Int /\ BestSighted(role).sure \in Int
<1> DEFINE S == Sighted(role)
<1>1. \A e \in S : e.score \in Int /\ e.sure \in Int
  <2>1. \A h \in Known : IsHull(hulls[h])
    BY HullsAreTyped
  <2>2. \A e \in S : e # Nil /\ \E h \in Known : e = hulls[h].seen[role]
    BY DEF Sighted
  <2> QED BY <2>1, <2>2 DEF IsHull
<1>2. IsFiniteSet(S)
  <2> DEFINE seen == [h \in Known |-> hulls[h].seen[role]]
             all == {seen[h] : h \in Known}
  <2>1. IsFiniteSet(all)
    <3> HIDE DEF seen
    <3> QED BY HullsAreTyped, ImageIsFinite
  <2>2. S \subseteq all
    BY DEF Sighted
  <2> HIDE DEF all, S
  <2> QED BY <2>1, <2>2, FS_Subset
<1>3. BestSighted(role) = CHOOSE e \in S : \A f \in S : f.score < e.score \/ (f.score = e.score /\ f.sure <= e.sure)
  BY DEF BestSighted
<1> HIDE DEF S
<1>4. S # {}
  BY DEF S
<1>5. BestSighted(role) \in S
  BY <1>1, <1>2, <1>3, <1>4, OneIsBest
<1> QED BY <1>1, <1>5

\* What is recommended is as sure as the evidence at most.
LEMMA SureByEvidence ==
    ASSUME Placed, NEW role \in Roles, Known # {}, NEW build, build.sure \in Nat, NEW extra \in 0..40
    PROVE  Confidence(role, build, extra) <= Evidence /\ Confidence(role, build, extra) \in Int
<1>1. IsFiniteSet(Known) /\ IsFiniteSet(world.known) /\ world.known # {}
  BY HullsAreTyped
<1>2. Cardinality(Known) \in Nat /\ Cardinality(world.known) \in Nat /\ Cardinality(world.known) # 0
  BY <1>1, FS_CardinalityType, FS_EmptySet
<1>3. Evidence \in Nat
  <2>1. 40 * Cardinality(Known) \in Nat
    BY <1>2
  <2>2. \A a, b \in Nat : b # 0 => a \div b \in Nat
    OBVIOUS
  <2> QED BY <1>2, <2>1, <2>2 DEF Evidence
<1>4. CASE heur.builds
  <2> DEFINE more == IF ~heur.vector THEN {} ELSE {IF Sighted(role) = {} THEN 0 ELSE BestSighted(role).sure}
             all == {Evidence, build.sure, extra} \cup more
  <2>1. more \subseteq Int /\ IsFiniteSet(more)
    <3>1. Sighted(role) # {} => BestSighted(role).sure \in Int
      BY OneIsBestSighted
    <3> DEFINE x == IF Sighted(role) = {} THEN 0 ELSE BestSighted(role).sure
    <3>2. x \in Int
      BY <3>1
    <3> HIDE DEF x
    <3>3. IsFiniteSet({x}) /\ IsFiniteSet({})
      BY FS_EmptySet, FS_Singleton
    <3>4. more = {} \/ more = {x}
      BY DEF x
    <3> QED BY <3>2, <3>3, <3>4
  <2>2. IsFiniteSet({Evidence, build.sure, extra})
    BY ThreeAreFinite
  <2> HIDE DEF more
  <2>3. IsFiniteSet(all) /\ all \subseteq Int /\ Evidence \in all
    <3>1. IsFiniteSet({Evidence, build.sure, extra} \cup more)
      BY <2>1, <2>2, FS_Union
    <3>2. extra \in Int /\ build.sure \in Int /\ Evidence \in Int
      BY <1>3
    <3> QED BY <2>1, <3>1, <3>2
  <2>4. Confidence(role, build, extra) = Min(all)
    BY <1>4 DEF Confidence, more
  <2> HIDE DEF all
  <2> QED BY <2>3, <2>4, ExtremesExist
<1>5. CASE ~heur.builds
  <2>1. Confidence(role, build, extra) = (Evidence * extra) \div 40
    BY <1>5 DEF Confidence
  <2>2. \A e \in Nat, x \in 0..40 : e * x \in Nat /\ e * x <= 40 * e
    OBVIOUS
  <2>3. PICK y \in Nat : y = Evidence * extra /\ y <= 40 * Evidence
    BY <1>3, <2>2
  <2>4. y \div 40 \in Int /\ y \div 40 <= Evidence
    BY <1>3, <2>3
  <2> QED BY <2>1, <2>3, <2>4
<1> QED BY <1>4, <1>5
------------------------------------------------------------------------------
\* The pools of the three legs.  Pairs of a hull and one of its builds are as many as both are.
LEMMA PairsAreFinite ==
    ASSUME NEW S, IsFiniteSet(S), NEW of, \A h \in S : IsFiniteSet(of[h])
    PROVE  IsFiniteSet(UNION {{h} \X of[h] : h \in S})
<1> DEFINE row == [h \in S |-> {h} \X of[h]]
           rows == {row[h] : h \in S}
<1>1. IsFiniteSet(rows)
  <2> HIDE DEF row
  <2> QED BY ImageIsFinite
<1>2. \A r \in rows : IsFiniteSet(r)
  <2>1. ASSUME NEW h \in S PROVE IsFiniteSet(row[h])
    <3>1. IsFiniteSet({h}) /\ IsFiniteSet(of[h])
      BY FS_Singleton
    <3>2. IsFiniteSet({h} \X of[h])
      BY <3>1, FS_Product
    <3> QED BY <3>2
  <2> HIDE DEF row
  <2> QED BY <2>1
<1>3. UNION rows = UNION {{h} \X of[h] : h \in S}
  OBVIOUS
<1> HIDE DEF rows
<1> QED BY <1>1, <1>2, <1>3, FS_UNION

\* A pool with one candidate to a hull and a build is fair.
LEMMA OneEachIsFair ==
    ASSUME NEW P, IsFiniteSet(P), NEW c, \A x, y \in P : x[1] = y[1] /\ x[2] = y[2] => x = y,
           \A x \in P : Candidate(c[x]) /\ c[x].hull = x[1] /\ c[x].build = x[2]
    PROVE  Fair({c[x] : x \in P})
<1> DEFINE pool == {c[x] : x \in P}
<1>1. IsFiniteSet(pool)
  BY ImageIsFinite
<1>2. \A a \in pool : Candidate(a)
  OBVIOUS
<1>3. \A a, b \in pool : a.hull = b.hull /\ a.build = b.build => a = b
  OBVIOUS
<1> QED BY <1>1, <1>2, <1>3 DEF Fair

LEMMA CandidateOf ==
    ASSUME NEW score \in Int, NEW h \in DOMAIN hulls, NEW b, NEW via, IF heur.builds THEN b \in hulls[h].builds ELSE b = NoBuild
    PROVE  /\ Candidate(C(score, h, b, via))
           /\ C(score, h, b, via).hull = h /\ C(score, h, b, via).build = b
           /\ C(score, h, b, via).score = score /\ C(score, h, b, via).via = via
<1>1. /\ C(score, h, b, via).hull = h /\ C(score, h, b, via).build = b
      /\ C(score, h, b, via).score = score /\ C(score, h, b, via).via = via
  BY DEF C
<1> QED BY <1>1 DEF Candidate

\* The native leg: own hulls that have the capability, by build or as they are.
LEMMA NativeBuildsAreFair ==
    ASSUME Placed, heur.builds, NEW role \in Roles, NEW g, GuideIsTyped(g), NEW rules
    PROVE  Fair(NativeBuilds(role, g, rules)) /\ \A c \in NativeBuilds(role, g, rules) : c.hull \in Own
<1> DEFINE all == UNION {{h} \X hulls[h].builds : h \in Own}
           P == {x \in all : hulls[x[1]].cap[role] > 0 /\ Suits(x[2], role, rules.rough)}
           c == [hb \in P |-> C(hulls[hb[1]].cap[role] * hb[2].compat * Bias(g, heur.progression, rules.stage, hb[1], hb[2].id), hb[1], hb[2], Nil)]
<1>1. IsFiniteSet(Own) /\ \A h \in Own : h \in DOMAIN hulls /\ IsHull(hulls[h])
  BY HullsAreTyped, FS_Subset
<1>2. IsFiniteSet(all)
  <2> DEFINE of == [h \in Own |-> hulls[h].builds]
  <2>1. \A h \in Own : IsFiniteSet(of[h])
    BY <1>1 DEF IsHull
  <2>2. all = UNION {{h} \X of[h] : h \in Own}
    OBVIOUS
  <2> HIDE DEF of, all
  <2> QED BY <1>1, <2>1, <2>2, PairsAreFinite
<1>3. \A x \in all : x = <<x[1], x[2]>> /\ x[1] \in Own /\ x[2] \in hulls[x[1]].builds
  OBVIOUS
<1> HIDE DEF all
<1>4. IsFiniteSet(P) /\ P \subseteq all
  <2>1. P \subseteq all
    OBVIOUS
  <2> HIDE DEF P
  <2> QED BY <1>2, <2>1, FS_Subset
<1>5. \A x, y \in P : x[1] = y[1] /\ x[2] = y[2] => x = y
  BY <1>3, <1>4
<1>6. ASSUME NEW x \in P PROVE Candidate(c[x]) /\ c[x].hull = x[1] /\ c[x].build = x[2]
  <2>1. x[1] \in DOMAIN hulls /\ x[2] \in hulls[x[1]].builds /\ IsHull(hulls[x[1]])
    BY <1>1, <1>3, <1>4
  <2>2. hulls[x[1]].cap[role] \in Int /\ x[2].compat \in Int
    BY <2>1 DEF IsHull, IsBuild
  <2>3. Bias(g, heur.progression, rules.stage, x[1], x[2].id) \in Int
    BY BiasIsInt
  <2>4. hulls[x[1]].cap[role] * x[2].compat \in Int
    BY <2>2
  <2>5. hulls[x[1]].cap[role] * x[2].compat * Bias(g, heur.progression, rules.stage, x[1], x[2].id) \in Int
    BY <2>3, <2>4
  <2>6. c[x] = C(hulls[x[1]].cap[role] * x[2].compat * Bias(g, heur.progression, rules.stage, x[1], x[2].id), x[1], x[2], Nil)
    OBVIOUS
  <2> HIDE DEF c
  <2> QED BY <2>1, <2>5, <2>6, CandidateOf
<1>7. NativeBuilds(role, g, rules) = {c[x] : x \in P}
  BY DEF NativeBuilds, all
<1> HIDE DEF P, c
<1>8. Fair({c[x] : x \in P})
  BY <1>4, <1>5, <1>6, OneEachIsFair
<1> QED BY <1>3, <1>4, <1>6, <1>7, <1>8

LEMMA NativeHullsAreFair ==
    ASSUME Placed, ~heur.builds, NEW role \in Roles
    PROVE  Fair(NativeHulls(role)) /\ \A c \in NativeHulls(role) : c.hull \in Own
<1> DEFINE H == {x \in Own : hulls[x].cap[role] > 0}
           c == [h \in H |-> C(hulls[h].cap[role], h, NoBuild, Nil)]
           pool == {c[h] : h \in H}
<1>1. NativeHulls(role) = pool
  BY DEF NativeHulls
<1>2. IsFiniteSet(H) /\ \A h \in H : h \in Own /\ h \in DOMAIN hulls /\ hulls[h].cap[role] \in Int
  <2>1. H \subseteq Known /\ IsFiniteSet(Known)
    BY HullsAreTyped
  <2>2. \A h \in H : h \in Own /\ h \in DOMAIN hulls /\ IsHull(hulls[h])
    BY HullsAreTyped
  <2> HIDE DEF H
  <2>3. IsFiniteSet(H)
    BY <2>1, FS_Subset
  <2> QED BY <2>2, <2>3 DEF IsHull
<1> HIDE DEF H
<1>3. ASSUME NEW h \in H PROVE Candidate(c[h]) /\ c[h].hull = h /\ c[h].build = NoBuild
  <2>1. c[h] = C(hulls[h].cap[role], h, NoBuild, Nil)
    OBVIOUS
  <2> HIDE DEF c
  <2> QED BY <1>2, <2>1, CandidateOf
<1> HIDE DEF c
<1>4. IsFiniteSet(pool)
  BY <1>2, ImageIsFinite
<1>5. Fair(pool)
  BY <1>3, <1>4 DEF Fair
<1> QED BY <1>1, <1>2, <1>3, <1>5

\* The retrofit leg: the fix of a variant is a gain.
LEMMA Retrofitted ==
    ASSUME Placed, NEW h \in Own, NEW p \in FitProfiles, BestRetrofit(h, p) # Nil
    PROVE  /\ BestRetrofit(h, p).after \in Int /\ BestRetrofit(h, p).cost \in Nat
           /\ hulls[h].variants[BestRetrofit(h, p).variant].before + RefitMinGain <= BestRetrofit(h, p).after
<1> DEFINE vs == hulls[h].variants
           good == {v \in DOMAIN vs : vs[v].before # Nil /\ vs[v].after[p] # Nil /\ Gain(vs[v], p) >= RefitMinGain}
           Beats(v, w) == Gain(vs[v], p) > Gain(vs[w], p) \/ (Gain(vs[v], p) = Gain(vs[w], p) /\ v < w)
           before == {x \in good \X good : Beats(x[1], x[2])}
           best == CHOOSE v \in good : \A w \in good \ {v} : Beats(v, w)
<1>1. BestRetrofit(h, p) = IF good = {} THEN Nil ELSE [variant |-> best, after |-> vs[best].after[p], cost |-> vs[best].cost]
  BY DEF BestRetrofit
<1>2. IsHull(hulls[h])
  BY HullsAreTyped
<1>3. IsFiniteSet(DOMAIN vs) /\ good \subseteq DOMAIN vs
  BY <1>2 DEF IsHull
<1>4. \A v \in good : /\ v \in Nat /\ vs[v].cost \in Nat /\ vs[v].before \in Int /\ vs[v].after[p] \in Int
                      /\ Gain(vs[v], p) \in Int /\ Gain(vs[v], p) >= RefitMinGain
  BY <1>2 DEF IsHull, IsVariant, Gain
<1>5. good # {}
  BY <1>1
<1>6. \E v \in good : \A w \in good \ {v} : Beats(v, w)
  <2>1. IsFiniteSet(good)
    <3> HIDE DEF good, vs
    <3> QED BY <1>3, FS_Subset
  <2> HIDE DEF good
  <2>2. \A x, y \in good : <<x, y>> \in before <=> Beats(x, y)
    OBVIOUS
  <2>3. \A x, y \in good : x # y => Beats(x, y) \/ Beats(y, x)
    BY <1>4
  <2>4. \A x, y, z \in good : Beats(x, y) /\ Beats(y, z) => Beats(x, z)
    BY <1>4
  <2> HIDE DEF before, Beats
  <2>5. OrdersAll(before, good)
    BY <2>2, <2>3, <2>4 DEF OrdersAll
  <2>6. \A B : OrdersAll(B, good) => \E x \in good : \A y \in good \ {x} : <<x, y>> \in B
    BY <1>5, <2>1, FirstInOrder, Zenon
  <2>7. PICK v \in good : \A w \in good \ {v} : <<v, w>> \in before
    BY <2>5, <2>6
  <2> QED BY <2>2, <2>7
<1>7. best \in good
  <2> HIDE DEF good, Beats
  <2> QED BY <1>6
<1> HIDE DEF best, good
<1>8. /\ BestRetrofit(h, p).variant = best /\ BestRetrofit(h, p).after = vs[best].after[p]
      /\ BestRetrofit(h, p).cost = vs[best].cost
  BY <1>1, <1>5
<1>9. vs[best].before + RefitMinGain <= vs[best].after[p]
  <2>1. vs[best].after[p] - vs[best].before >= RefitMinGain /\ RefitMinGain \in Int
    BY <1>4, <1>7, GapAssumption DEF Gain
  <2> QED BY <1>4, <1>7, <2>1
<1> QED BY <1>4, <1>7, <1>8, <1>9

LEMMA ConsideredAreOwn ==
    ASSUME Placed, NEW role \in Roles, NEW rules
    PROVE  /\ IsFiniteSet(RetrofitConsidered(role, rules))
           /\ \A x \in RetrofitConsidered(role, rules) :
                 /\ x = <<x[1], x[2]>> /\ x[1] \in Own
                 /\ IF heur.builds THEN x[2] \in hulls[x[1]].builds ELSE x[2] = NoBuild
<1>1. CASE heur.builds
  <2> DEFINE pool == NativeBuilds(role, NoGuidance, [rules EXCEPT !.stage = Nil])
             pair == [c \in pool |-> <<c.hull, c.build>>]
             all == {pair[c] : c \in pool}
  <2>1. Fair(pool) /\ \A c \in pool : c.hull \in Own
    BY <1>1, NativeBuildsAreFair, NoGuidanceIsTyped
  <2>2. RetrofitConsidered(role, rules) = all
    BY <1>1 DEF RetrofitConsidered
  <2> HIDE DEF pool
  <2>3. \A c \in pool : c.hull \in Own /\ c.build \in hulls[c.hull].builds
    BY <1>1, <2>1 DEF Fair, Candidate
  <2>4. \A x \in all : x = <<x[1], x[2]>> /\ x[1] \in Own /\ x[2] \in hulls[x[1]].builds
    BY <2>3
  <2>5. IsFiniteSet(all)
    <3> HIDE DEF pair
    <3> QED BY <2>1, ImageIsFinite DEF Fair
  <2> QED BY <1>1, <2>2, <2>4, <2>5
<1>2. CASE ~heur.builds
  <2> DEFINE pool == NativeHulls(role)
             r == Ranking(pool)
             most == Min({Count, Len(r)})
             pair == [i \in 1..most |-> <<r[i].hull, NoBuild>>]
             all == {pair[i] : i \in 1..most}
  <2>1. Fair(pool) /\ \A c \in pool : c.hull \in Own
    BY <1>2, NativeHullsAreFair
  <2>2. RetrofitConsidered(role, rules) = all
    BY <1>2 DEF RetrofitConsidered
  <2> HIDE DEF pool
  <2>3. Cardinality(pool) \in Nat /\ r \in [1..Cardinality(pool) -> pool]
    BY <2>1, RankingIsRanked
  <2> HIDE DEF r
  <2>4. Len(r) = Cardinality(pool)
    BY <2>3
  <2>5. most \in 0..Cardinality(pool)
    BY <2>3, <2>4, GapAssumption, MinOfTwo
  <2> HIDE DEF most
  <2>6. \A i \in 1..most : r[i].hull \in Own
    BY <2>1, <2>3, <2>5
  <2>7. \A x \in all : x = <<x[1], x[2]>> /\ x[1] \in Own /\ x[2] = NoBuild
    BY <2>6
  <2>8. IsFiniteSet(all)
    <3>1. IsFiniteSet(1..most)
      <4>1. \A n \in Nat : IsFiniteSet(1..n)
        BY FS_Interval
      <4> QED BY <2>3, <2>5, <4>1
    <3> HIDE DEF pair
    <3> QED BY <3>1, ImageIsFinite
  <2> QED BY <1>2, <2>2, <2>7, <2>8
<1> QED BY <1>1, <1>2

LEMMA RetrofitsAreFair ==
    ASSUME Placed, NEW role \in Roles, NEW rules
    PROVE  /\ Fair(RetrofitPool(role, rules))
           /\ \A c \in RetrofitPool(role, rules) :
                 c.hull \in Own /\ hulls[c.hull].variants[c.via.variant].before + RefitMinGain <= c.via.after
<1> DEFINE profile(b) == IF heur.builds THEN BuildProfile[b.id] ELSE RoleProfile[role]
           fix(hb) == IF profile(hb[2]) = Nil THEN Nil ELSE BestRetrofit(hb[1], profile(hb[2]))
           all == RetrofitConsidered(role, rules)
           P == {x \in all : fix(x) # Nil}
           c == [x \in P |-> C(RetrofitScore(fix(x), x[2]), x[1], x[2], fix(x))]
<1>1. RetrofitPool(role, rules) = {c[x] : x \in P}
  BY DEF RetrofitPool
<1>2. IsFiniteSet(all) /\ \A x \in all :
          /\ x = <<x[1], x[2]>> /\ x[1] \in Own
          /\ IF heur.builds THEN x[2] \in hulls[x[1]].builds ELSE x[2] = NoBuild
  BY ConsideredAreOwn
<1> HIDE DEF all
<1>3. IsFiniteSet(P) /\ P \subseteq all
  <2>1. P \subseteq all
    OBVIOUS
  <2> HIDE DEF P
  <2> QED BY <1>2, <2>1, FS_Subset
<1>4. \A x, y \in P : x[1] = y[1] /\ x[2] = y[2] => x = y
  BY <1>2, <1>3
<1>5. ASSUME NEW x \in P
      PROVE  /\ Candidate(c[x]) /\ c[x].hull = x[1] /\ c[x].build = x[2]
             /\ c[x].hull \in Own /\ hulls[c[x].hull].variants[c[x].via.variant].before + RefitMinGain <= c[x].via.after
  <2>1. /\ x[1] \in Own /\ x[1] \in DOMAIN hulls /\ IsHull(hulls[x[1]])
        /\ IF heur.builds THEN x[2] \in hulls[x[1]].builds ELSE x[2] = NoBuild
    BY <1>2, <1>3, HullsAreTyped
  <2>2. profile(x[2]) # Nil /\ fix(x) = BestRetrofit(x[1], profile(x[2])) /\ fix(x) # Nil
    OBVIOUS
  <2>3. profile(x[2]) \in FitProfiles
    <3>1. CASE heur.builds
      <4>1. x[2].id \in DOMAIN BuildProfile
        BY <2>1, <3>1 DEF IsHull, IsBuild
      <4> QED BY <2>2, <3>1, <4>1 DEF FitProfiles, Range
    <3>2. CASE ~heur.builds
      <4>1. role \in DOMAIN RoleProfile
        BY GapAssumption
      <4> QED BY <2>2, <3>2, <4>1 DEF FitProfiles, Range
    <3> QED BY <3>1, <3>2
  <2>4. c[x] = C(RetrofitScore(fix(x), x[2]), x[1], x[2], fix(x))
    OBVIOUS
  <2> HIDE DEF profile, c
  <2>5. /\ fix(x).after \in Int /\ fix(x).cost \in Nat
        /\ hulls[x[1]].variants[fix(x).variant].before + RefitMinGain <= fix(x).after
    BY <2>1, <2>2, <2>3, Retrofitted
  <2> HIDE DEF fix
  <2>6. RetrofitScore(fix(x), x[2]) \in Int
    <3>1. CASE heur.builds
      <4>1. x[2].compat \in Int
        BY <2>1, <3>1 DEF IsHull, IsBuild
      <4>2. Min({8, fix(x).cost}) \in Int
        BY <2>5, MinOfTwo
      <4>3. fix(x).after * x[2].compat \in Int
        BY <2>5, <4>1
      <4> QED BY <3>1, <4>2, <4>3 DEF RetrofitScore
    <3>2. CASE ~heur.builds
      BY <2>5, <3>2 DEF RetrofitScore
    <3> QED BY <3>1, <3>2
  <2>7. /\ Candidate(c[x]) /\ c[x].hull = x[1] /\ c[x].build = x[2] /\ c[x].via = fix(x)
    BY <2>1, <2>4, <2>6, CandidateOf
  <2> QED BY <2>1, <2>5, <2>7
<1> HIDE DEF P, c
<1>6. Fair({c[x] : x \in P})
  BY <1>3, <1>4, <1>5, OneEachIsFair
<1> QED BY <1>1, <1>5, <1>6

\* The acquisition leg: hulls not known, welcome by the policy.
LEMMA AcquisitionsAreFair ==
    ASSUME Placed, NEW role \in Roles, NEW g, NEW rules
    PROVE  /\ Fair(AcquisitionPool(role, g, rules))
           /\ \A c \in AcquisitionPool(role, g, rules) : c.hull \notin Known /\ (rules.foreign \/ c.via # "FOREIGN")
<1> DEFINE worth(h) == hulls[h].cap[role] * Preference[Standing(h, g)]
           builds(h) == IF heur.builds THEN {b \in hulls[h].builds : Suits(b, role, rules.rough)} ELSE {NoBuild}
           H == Acquirable(role, g, rules)
           P == UNION {{h} \X builds(h) : h \in H}
           c == [hb \in P |-> C(IF heur.builds THEN worth(hb[1]) * hb[2].compat ELSE worth(hb[1]), hb[1], hb[2], Standing(hb[1], g))]
<1>1. AcquisitionPool(role, g, rules) = {c[x] : x \in P}
  BY DEF AcquisitionPool
<1>2. /\ IsFiniteSet(H)
      /\ \A h \in H : h \in DOMAIN hulls /\ h \notin Known /\ IsHull(hulls[h]) /\ (rules.foreign \/ Standing(h, g) # "FOREIGN")
  <2>1. H \subseteq DOMAIN hulls
    BY DEF Acquirable
  <2> HIDE DEF H
  <2>2. IsFiniteSet(H)
    BY <2>1, HullsAreTyped, FS_Subset
  <2> QED BY <2>1, <2>2, HullsAreTyped DEF H, Acquirable
<1> HIDE DEF H
<1>3. IsFiniteSet(P)
  <2> DEFINE of == [h \in H |-> builds(h)]
  <2>1. ASSUME NEW h \in H PROVE IsFiniteSet(of[h])
    <3>1. CASE heur.builds
      <4>1. IsFiniteSet(hulls[h].builds) /\ builds(h) \subseteq hulls[h].builds
        BY <1>2, <3>1 DEF IsHull
      <4> HIDE DEF builds
      <4> QED BY <4>1, FS_Subset
    <3>2. CASE ~heur.builds
      BY <3>2, FS_Singleton
    <3> QED BY <3>1, <3>2
  <2>2. P = UNION {{h} \X of[h] : h \in H}
    OBVIOUS
  <2> HIDE DEF of, P
  <2> QED BY <1>2, <2>1, <2>2, PairsAreFinite
<1>4. \A x \in P : x = <<x[1], x[2]>> /\ x[1] \in H /\ x[2] \in builds(x[1])
  <2> HIDE DEF builds
  <2> QED OBVIOUS
<1> HIDE DEF P
<1>5. ASSUME NEW x \in P
      PROVE  Candidate(c[x]) /\ c[x].hull = x[1] /\ c[x].build = x[2] /\ c[x].via = Standing(x[1], g)
  <2>1. x[1] \in DOMAIN hulls /\ IsHull(hulls[x[1]])
    BY <1>2, <1>4
  <2>2. IF heur.builds THEN x[2] \in hulls[x[1]].builds ELSE x[2] = NoBuild
    BY <1>4
  <2>3. hulls[x[1]].cap[role] \in Int /\ Preference[Standing(x[1], g)] \in Int
    <3>1. Standing(x[1], g) \in {"NATIVE", "APPROVED", "COMMON", "UNALIGNED", "FOREIGN"}
      BY DEF Standing, Affinity
    <3> QED BY <2>1, <3>1 DEF IsHull, Preference
  <2>4. worth(x[1]) \in Int
    BY <2>3
  <2> HIDE DEF worth
  <2>5. (IF heur.builds THEN worth(x[1]) * x[2].compat ELSE worth(x[1])) \in Int
    <3>1. heur.builds => x[2].compat \in Int
      BY <2>1, <2>2 DEF IsHull, IsBuild
    <3> QED BY <2>4, <3>1
  <2>6. c[x] = C(IF heur.builds THEN worth(x[1]) * x[2].compat ELSE worth(x[1]), x[1], x[2], Standing(x[1], g))
    OBVIOUS
  <2> HIDE DEF c
  <2> QED BY <2>1, <2>2, <2>5, <2>6, CandidateOf
<1>6. \A x, y \in P : x[1] = y[1] /\ x[2] = y[2] => x = y
  BY <1>4
<1> HIDE DEF c
<1>7. Fair({c[x] : x \in P})
  BY <1>3, <1>5, <1>6, OneEachIsFair
<1>8. \A x \in P : c[x].hull \notin Known /\ (rules.foreign \/ c[x].via # "FOREIGN")
  BY <1>2, <1>4, <1>5
<1> QED BY <1>1, <1>7, <1>8

LEMMA PoolsAreFair ==
    ASSUME Placed, NEW role \in Roles, NEW g, GuideIsTyped(g), NEW rules, NEW leg \in Legs
    PROVE  Fair(Pool(leg, role, g, rules))
<1>1. CASE leg = "NATIVE"
  BY <1>1, NativeBuildsAreFair, NativeHullsAreFair DEF Pool, NativePool
<1>2. CASE leg = "RETROFIT"
  BY <1>2, RetrofitsAreFair DEF Pool
<1>3. CASE leg = "ACQUISITION"
  BY <1>3, AcquisitionsAreFair DEF Pool
<1> QED BY <1>1, <1>2, <1>3 DEF Legs

Short(leg, role, g, rules) == Shortlist(Ranking(Pool(leg, role, g, rules)))

LEMMA ShortIs ==
    ASSUME Placed, NEW role \in Roles, NEW g, GuideIsTyped(g), NEW rules, NEW leg \in Legs
    PROVE  LET short == Short(leg, role, g, rules)
               pool == Pool(leg, role, g, rules)
           IN  /\ Fair(pool)
               /\ Shortlisted(short, pool, BestOf(pool), Count)
               /\ short # <<>> => short[1].score = BestOf(pool) /\ short[1] = Ranking(pool)[1]
               /\ Len(short) = Min({Count, Cardinality(pool)}) /\ Len(short) \in 0..Count
               /\ short = <<>> <=> pool = {}
<1> DEFINE pool == Pool(leg, role, g, rules)
           short == Short(leg, role, g, rules)
<1>1. Fair(pool)
  BY PoolsAreFair
<1>2. short = Shortlist(Ranking(pool))
  BY DEF Short
<1> HIDE DEF pool, short
<1>3. /\ Shortlisted(short, pool, BestOf(pool), Count)
      /\ short # <<>> => short[1].score = BestOf(pool) /\ short[1] = Ranking(pool)[1]
  BY <1>1, <1>2, ShortlistIsShort
<1>4. Cardinality(pool) \in Nat /\ (Cardinality(pool) = 0 <=> pool = {})
  BY <1>1, FS_CardinalityType, FS_EmptySet DEF Fair
<1>5. Count \in Nat \ {0}
  BY GapAssumption
<1>6. Len(short) = Min({Count, Cardinality(pool)}) /\ Len(short) \in 0..Count /\ (Len(short) = 0 <=> pool = {})
  BY <1>3, <1>4, <1>5, MinOfTwo DEF Shortlisted
<1>7. short = <<>> <=> pool = {}
  <2>1. short \in Seq(pool)
    BY <1>3 DEF Shortlisted
  <2> QED BY <1>6, <2>1
<1> QED BY <1>1, <1>3, <1>6, <1>7 DEF pool, short

LEMMA EntriesAreOfTheShort ==
    ASSUME NEW S, NEW short \in Seq(S), NEW leg, NEW role, NEW g, NEW list, list = Entries(short, leg, role, g)
    PROVE  /\ Len(list) = Len(short) /\ DOMAIN list = 1..Len(short) /\ Len(short) \in Nat
           /\ list = <<>> <=> short = <<>>
           /\ \A i \in 1..Len(short) :
                 /\ short[i] \in S
                 /\ list[i].hull = short[i].hull /\ list[i].build = short[i].build.id
                 /\ list[i].score = short[i].score /\ list[i].via = short[i].via
                 /\ list[i].sure = Confidence(role, short[i].build, Extra(leg, short[i].hull, g))
<1>1. Len(short) \in Nat /\ DOMAIN short = 1..Len(short) /\ \A i \in 1..Len(short) : short[i] \in S
  OBVIOUS
<1>2. list = [i \in 1..Len(short) |-> Entry(short[i], leg, role, g)]
  BY <1>1 DEF Entries
<1> DEFINE R == {list[i] : i \in 1..Len(short)}
<1>3. list \in [1..Len(short) -> R]
  BY <1>2
<1> HIDE DEF R
<1>4. list \in Seq(R) /\ Len(list) = Len(short)
  BY <1>1, <1>3
<1>5. list = <<>> <=> short = <<>>
  BY <1>1, <1>4
<1>6. \A i \in 1..Len(short) : list[i] = Entry(short[i], leg, role, g)
  BY <1>2
<1> QED BY <1>1, <1>3, <1>4, <1>5, <1>6 DEF Entry

\* What ShortlistIsHonest says of the list of a leg.
Honest(list, pool) ==
    LET best == Max({c.score : c \in pool})
        shown(c) == \E i \in DOMAIN list : list[i].hull = c.hull /\ list[i].build = c.build.id
    IN  /\ Len(list) = Min({Count, Cardinality(pool)})
        /\ list # <<>> => list[1].score = best
        /\ \A i, j \in DOMAIN list : i < j => list[i].hull # list[j].hull \/ list[i].build # list[j].build
        /\ (\E i \in DOMAIN list : ~Competitive(list[i], best)) => \A c \in pool : Competitive(c, best) => shown(c)
        /\ \A i \in DOMAIN list : list[i].sure <= Evidence

LEMMA ListsAreHonest ==
    ASSUME Placed, NEW role \in Gaps, NEW g, GuideIsTyped(g), NEW rules, NEW leg \in Legs,
           NEW list, list = Recommended(leg, role, g, rules)
    PROVE  Honest(list, Pool(leg, role, g, rules))
<1> DEFINE pool == Pool(leg, role, g, rules)
           short == Short(leg, role, g, rules)
           best == BestOf(pool)
           shown(c) == \E i \in DOMAIN list : list[i].hull = c.hull /\ list[i].build = c.build.id
<1>1. role \in Roles /\ Known # {}
  BY DEF Gaps
<1>2. /\ Fair(pool) /\ Shortlisted(short, pool, best, Count)
      /\ short # <<>> => short[1].score = best
      /\ Len(short) = Min({Count, Cardinality(pool)})
  BY <1>1, ShortIs
<1>3. list = Entries(short, leg, role, g)
  BY DEF Recommended, Short
<1> HIDE DEF pool, short
<1>4. /\ short \in Seq(pool)
      /\ \A i, j \in 1..Len(short) : i # j => short[i] # short[j]
      /\ (\E i \in 1..Len(short) : ~Competitive(short[i], best)) =>
             \A c \in pool : Competitive(c, best) => \E j \in 1..Len(short) : short[j] = c
  BY <1>2 DEF Shortlisted
<1>5. /\ Len(list) = Len(short) /\ DOMAIN list = 1..Len(short) /\ Len(short) \in Nat
      /\ list = <<>> <=> short = <<>>
      /\ \A i \in 1..Len(short) :
            /\ short[i] \in pool
            /\ list[i].hull = short[i].hull /\ list[i].build = short[i].build.id
            /\ list[i].score = short[i].score
            /\ list[i].sure = Confidence(role, short[i].build, Extra(leg, short[i].hull, g))
  BY <1>3, <1>4, EntriesAreOfTheShort
<1> HIDE DEF best
<1>6. list # <<>> => list[1].score = best
  <2>1. list # <<>> => 1 \in 1..Len(short)
    BY <1>4, <1>5
  <2> QED BY <1>2, <1>5, <2>1
<1>7. ASSUME NEW i \in DOMAIN list, NEW j \in DOMAIN list, i < j
      PROVE  list[i].hull # list[j].hull \/ list[i].build # list[j].build
  <2>1. short[i] \in pool /\ short[j] \in pool /\ short[i] # short[j]
    BY <1>4, <1>5, <1>7
  <2>2. short[i].hull # short[j].hull \/ short[i].build.id # short[j].build.id
    BY <1>2, <2>1, OneOfTheName
  <2> QED BY <1>5, <2>2
<1>8. ASSUME NEW i \in DOMAIN list, ~Competitive(list[i], best), NEW c \in pool, Competitive(c, best)
      PROVE  shown(c)
  <2>1. ~Competitive(short[i], best)
    BY <1>5, <1>8 DEF Competitive
  <2>2. PICK j \in 1..Len(short) : short[j] = c
    BY <1>4, <1>5, <1>8, <2>1
  <2> QED BY <1>5, <2>2
<1>9. ASSUME NEW i \in DOMAIN list
      PROVE  list[i].sure <= Evidence
  <2>1. short[i] \in pool /\ Candidate(short[i])
    BY <1>2, <1>5 DEF Fair
  <2>2. short[i].build.sure \in Nat /\ Extra(leg, short[i].hull, g) \in 0..40
    BY <2>1, CandidateBuild, ExtraIsAFraction
  <2>3. Confidence(role, short[i].build, Extra(leg, short[i].hull, g)) <= Evidence
    BY <1>1, <2>2, SureByEvidence
  <2> QED BY <1>5, <2>3
<1>10. Honest(list, pool)
  BY <1>2, <1>5, <1>6, <1>7, <1>8, <1>9 DEF Honest, best, BestOf
<1> QED BY <1>10 DEF pool

LEMMA WhatIsRecommended ==
    ASSUME Placed, NEW role \in Roles, NEW g, GuideIsTyped(g), NEW rules, NEW leg \in Legs,
           NEW list, list = Recommended(leg, role, g, rules)
    PROVE  /\ \A i \in DOMAIN list : \E c \in Pool(leg, role, g, rules) : list[i].hull = c.hull /\ list[i].via = c.via
           /\ list = <<>> <=> Pool(leg, role, g, rules) = {}
<1> DEFINE pool == Pool(leg, role, g, rules)
           short == Short(leg, role, g, rules)
<1>1. Shortlisted(short, pool, BestOf(pool), Count) /\ (short = <<>> <=> pool = {})
  BY ShortIs
<1>2. list = Entries(short, leg, role, g)
  BY DEF Recommended, Short
<1> HIDE DEF pool, short
<1>3. short \in Seq(pool)
  BY <1>1 DEF Shortlisted
<1>4. /\ DOMAIN list = 1..Len(short) /\ (list = <<>> <=> short = <<>>)
      /\ \A i \in 1..Len(short) : short[i] \in pool /\ list[i].hull = short[i].hull /\ list[i].via = short[i].via
  BY <1>2, <1>3, EntriesAreOfTheShort
<1>5. /\ \A i \in DOMAIN list : \E c \in pool : list[i].hull = c.hull /\ list[i].via = c.via
      /\ list = <<>> <=> pool = {}
  BY <1>1, <1>4
<1> QED BY <1>5 DEF pool

\* What was recommended is what the rules make of the scan.
Recommends == policy \in Policies /\ result = GapSolutions(guide, policy)

LEMMA HonestByRules == Placed /\ (result # Nil => Recommends) => ShortlistIsHonest
<1> SUFFICES ASSUME Placed, Recommends PROVE ShortlistIsHonest
  BY DEF ShortlistIsHonest
<1>1. Placed /\ result = GapSolutions(guide, policy)
  BY DEF Recommends
<1>2. GuideIsTyped(guide)
  BY <1>1, GuideIs
<1>3. /\ \A leg \in Legs, role \in Gaps : result.legs[leg][role] = Recommended(leg, role, guide, policy)
      /\ result.fullyUnaddressed = {role \in Gaps : \A leg \in Legs : result.legs[leg][role] = <<>>}
  BY <1>1 DEF GapSolutions, Solutions
<1>4. \A leg \in Legs, role \in Gaps : Honest(result.legs[leg][role], Pool(leg, role, guide, policy))
  BY <1>1, <1>2, <1>3, ListsAreHonest
<1>5. Gaps \subseteq Roles /\ "ACQUISITION" \in Legs /\ "RETROFIT" \in Legs
  BY DEF Gaps, Legs
<1>6. \A leg \in Legs, role \in Gaps :
        /\ \A i \in DOMAIN result.legs[leg][role] :
              \E c \in Pool(leg, role, guide, policy) :
                 result.legs[leg][role][i].hull = c.hull /\ result.legs[leg][role][i].via = c.via
        /\ result.legs[leg][role] = <<>> <=> Pool(leg, role, guide, policy) = {}
  BY <1>1, <1>2, <1>3, <1>5, WhatIsRecommended
<1>7. ASSUME NEW role \in Gaps, NEW i \in DOMAIN result.legs["ACQUISITION"][role]
      PROVE  LET c == result.legs["ACQUISITION"][role][i] IN c.hull \notin Known /\ (policy.foreign \/ c.via # "FOREIGN")
  <2>1. PICK c \in Pool("ACQUISITION", role, guide, policy) :
           result.legs["ACQUISITION"][role][i].hull = c.hull /\ result.legs["ACQUISITION"][role][i].via = c.via
    BY <1>5, <1>6
  <2>2. c \in AcquisitionPool(role, guide, policy)
    BY <2>1 DEF Pool
  <2>3. c.hull \notin Known /\ (policy.foreign \/ c.via # "FOREIGN")
    BY <1>1, <1>5, <2>2, AcquisitionsAreFair
  <2> QED BY <2>1, <2>3
<1>8. ASSUME NEW role \in Gaps, NEW i \in DOMAIN result.legs["RETROFIT"][role]
      PROVE  LET c == result.legs["RETROFIT"][role][i] IN
             c.hull \in Own /\ hulls[c.hull].variants[c.via.variant].before + RefitMinGain <= c.via.after
  <2>1. PICK c \in Pool("RETROFIT", role, guide, policy) :
           result.legs["RETROFIT"][role][i].hull = c.hull /\ result.legs["RETROFIT"][role][i].via = c.via
    BY <1>5, <1>6
  <2>2. c \in RetrofitPool(role, policy)
    BY <2>1 DEF Pool
  <2>3. c.hull \in Own /\ hulls[c.hull].variants[c.via.variant].before + RefitMinGain <= c.via.after
    BY <1>1, <1>5, <2>2, RetrofitsAreFair
  <2> QED BY <2>1, <2>3
<1>9. result.fullyUnaddressed = {role \in Gaps : \A leg \in Legs : Pool(leg, role, guide, policy) = {}}
  <2>1. \A role \in Gaps : (\A leg \in Legs : result.legs[leg][role] = <<>>)
                              <=> (\A leg \in Legs : Pool(leg, role, guide, policy) = {})
    BY <1>6, Zenon
  <2>2. {role \in Gaps : \A leg \in Legs : result.legs[leg][role] = <<>>}
           = {role \in Gaps : \A leg \in Legs : Pool(leg, role, guide, policy) = {}}
    BY <2>1, Zenon
  <2>3. result.fullyUnaddressed = {role \in Gaps : \A leg \in Legs : result.legs[leg][role] = <<>>}
    BY <1>3
  <2> QED BY <2>2, <2>3
<1>10. ASSUME NEW leg \in Legs, NEW role \in Gaps
       PROVE  LET list == result.legs[leg][role]
                  pool == Pool(leg, role, guide, policy)
                  best == Max({c.score : c \in pool})
                  shown(c) == \E i \in DOMAIN list : list[i].hull = c.hull /\ list[i].build = c.build.id
              IN  /\ Len(list) = Min({Count, Cardinality(pool)})
                  /\ list # <<>> => list[1].score = best
                  /\ \A i, j \in DOMAIN list : i < j => list[i].hull # list[j].hull \/ list[i].build # list[j].build
                  /\ (\E i \in DOMAIN list : ~Competitive(list[i], best)) => \A c \in pool : Competitive(c, best) => shown(c)
                  /\ \A i \in DOMAIN list : list[i].sure <= Evidence
  BY <1>4, Zenon DEF Honest
<1>11. ASSUME NEW role \in Gaps, NEW i \in 1..Count
       PROVE  /\ i \in DOMAIN result.legs["ACQUISITION"][role] =>
                    LET c == result.legs["ACQUISITION"][role][i] IN c.hull \notin Known /\ (policy.foreign \/ c.via # "FOREIGN")
              /\ i \in DOMAIN result.legs["RETROFIT"][role] =>
                    LET c == result.legs["RETROFIT"][role][i] IN
                    c.hull \in Own /\ hulls[c.hull].variants[c.via.variant].before + RefitMinGain <= c.via.after
  BY <1>7, <1>8, Zenon
<1> QED BY <1>9, <1>10, <1>11, Zenon DEF ShortlistIsHonest

\* The same scan and the same rules make the same of it.
LEMMA GuideStays == world' = world => guide' = guide
  BY DEF guide, hulls, Guidance, Freshness, Stale

------------------------------------------------------------------------------
\* Why not.  Where a leg is asked about as it was recommended.
AskedFairly(leg) ==
    \/ ~heur.builds /\ (leg # "ACQUISITION" \/ policy.foreign)
    \/ heur.builds /\ policy.rough /\
         CASE leg = "NATIVE" -> guide.prefers = <<>> /\ policy.stage = Nil
           [] leg = "RETROFIT" -> TRUE
           [] leg = "ACQUISITION" -> policy.foreign
Asking(leg) == IF leg = "ACQUISITION" THEN guide ELSE NoGuidance

LEMMA PolicyIs ==
    ASSUME policy \in Policies
    PROVE  /\ policy.foreign \in BOOLEAN /\ policy.rough \in BOOLEAN
           /\ policy = [foreign |-> policy.foreign, rough |-> policy.rough, stage |-> policy.stage]
  BY GapAssumption

LEMMA NoStageIsNobodys == ASSUME Placed PROVE StageHulls(guide, Nil) = {}
<1>1. CASE guide = NoGuidance
  <2>1. DOMAIN <<>> = {}
    OBVIOUS
  <2> QED BY <1>1, <2>1 DEF NoGuidance, StageHulls
<1>2. CASE guide # NoGuidance
  <2>1. world.pack # Nil /\ guide.tiers = world.pack.tiers
    BY <1>2 DEF guide, Guidance
  <2>2. IsPack(world.pack)
    BY <2>1, WorldsAssumption DEF Placed
  <2> QED BY <2>1, <2>2 DEF IsPack, StageHulls
<1> QED BY <1>1, <1>2

LEMMA NoBias == ASSUME NEW p, NEW stage, NEW h, NEW b PROVE Bias(NoGuidance, p, stage, h, b) = 4000
<1>1. DOMAIN <<>> = {}
  OBVIOUS
<1>2. b \notin DOMAIN NoGuidance.prefers /\ h \notin StageHulls(NoGuidance, stage)
  BY <1>1 DEF NoGuidance, StageHulls
<1> QED BY <1>2 DEF Bias

LEMMA AskedOfTheSamePool ==
    ASSUME Placed, policy \in Policies, NEW role, NEW leg \in Legs, AskedFairly(leg)
    PROVE  Pool(leg, role, Asking(leg), DefaultPolicy) = Pool(leg, role, guide, policy)
<1>1. DefaultPolicy.foreign = TRUE /\ DefaultPolicy.rough = TRUE /\ DefaultPolicy.stage = Nil
  BY DEF DefaultPolicy
<1>2. CASE leg = "NATIVE"
  <2>1. CASE heur.builds
    <3>1. policy.rough = TRUE /\ guide.prefers = <<>> /\ policy.stage = Nil
      BY <1>2, <2>1, PolicyIs DEF AskedFairly
    <3>2. \A p, h, b : Bias(guide, p, Nil, h, b) = 4000
      <4>1. DOMAIN <<>> = {}
        OBVIOUS
      <4> QED BY <3>1, <4>1, NoStageIsNobodys DEF Bias
    <3>3. \A p, h, b : Bias(NoGuidance, p, Nil, h, b) = Bias(guide, p, Nil, h, b)
      BY <3>2, NoBias
    <3>4. NativeBuilds(role, NoGuidance, DefaultPolicy) = NativeBuilds(role, guide, policy)
      <4> DEFINE all == UNION {{h} \X hulls[h].builds : h \in Own}
                 P == {x \in all : hulls[x[1]].cap[role] > 0 /\ Suits(x[2], role, TRUE)}
                 one == [x \in P |-> C(hulls[x[1]].cap[role] * x[2].compat * Bias(NoGuidance, heur.progression, Nil, x[1], x[2].id), x[1], x[2], Nil)]
                 two == [x \in P |-> C(hulls[x[1]].cap[role] * x[2].compat * Bias(guide, heur.progression, Nil, x[1], x[2].id), x[1], x[2], Nil)]
      <4>1. NativeBuilds(role, NoGuidance, DefaultPolicy) = {one[x] : x \in P}
        BY <1>1 DEF NativeBuilds
      <4>2. NativeBuilds(role, guide, policy) = {two[x] : x \in P}
        BY <3>1 DEF NativeBuilds
      <4>3. \A x \in P : one[x] = two[x]
        BY <3>3
      <4> HIDE DEF one, two
      <4> QED BY <4>1, <4>2, <4>3
    <3> QED BY <1>2, <2>1, <3>4 DEF Pool, NativePool, Asking
  <2>2. CASE ~heur.builds
    BY <1>2, <2>2 DEF Pool, NativePool
  <2> QED BY <2>1, <2>2
<1>3. CASE leg = "RETROFIT"
  <2>1. RetrofitConsidered(role, DefaultPolicy) = RetrofitConsidered(role, policy)
    <3>1. CASE heur.builds
      <4>1. policy.rough = TRUE
        BY <1>3, <3>1, PolicyIs DEF AskedFairly
      <4>2. [DefaultPolicy EXCEPT !.stage = Nil].rough = TRUE
        BY DEF DefaultPolicy
      <4>3. [policy EXCEPT !.stage = Nil].rough = TRUE
        <5>1. PICK p : p = policy
          OBVIOUS
        <5>2. p = [foreign |-> p.foreign, rough |-> TRUE, stage |-> p.stage]
          BY <4>1, <5>1, PolicyIs
        <5>3. [p EXCEPT !.stage = Nil].rough = TRUE
          BY <5>2
        <5> QED BY <5>1, <5>3
      <4>4. NativeBuilds(role, NoGuidance, [policy EXCEPT !.stage = Nil]) = NativeBuilds(role, NoGuidance, [DefaultPolicy EXCEPT !.stage = Nil])
        <5> DEFINE P == {x \in UNION {{h} \X hulls[h].builds : h \in Own} : hulls[x[1]].cap[role] > 0 /\ Suits(x[2], role, TRUE)}
                   c == [x \in P |-> C(hulls[x[1]].cap[role] * x[2].compat * 4000, x[1], x[2], Nil)]
        <5>1. ASSUME NEW r, r.rough = TRUE PROVE NativeBuilds(role, NoGuidance, r) = {c[x] : x \in P}
          <6> DEFINE d == [x \in P |-> C(hulls[x[1]].cap[role] * x[2].compat * Bias(NoGuidance, heur.progression, r.stage, x[1], x[2].id), x[1], x[2], Nil)]
          <6>1. NativeBuilds(role, NoGuidance, r) = {d[x] : x \in P}
            BY <5>1 DEF NativeBuilds
          <6>2. \A x \in P : d[x] = c[x]
            BY NoBias
          <6> HIDE DEF d, c
          <6> QED BY <6>1, <6>2
        <5> QED BY <4>2, <4>3, <5>1
      <4> QED BY <3>1, <4>4 DEF RetrofitConsidered
    <3>2. CASE ~heur.builds
      BY <3>2 DEF RetrofitConsidered
    <3> QED BY <3>1, <3>2
  <2>2. RetrofitPool(role, DefaultPolicy) = RetrofitPool(role, policy)
    BY <2>1 DEF RetrofitPool
  <2> QED BY <1>3, <2>2 DEF Pool
<1>4. CASE leg = "ACQUISITION"
  <2>1. policy.foreign = TRUE /\ (heur.builds => policy.rough = TRUE)
    BY <1>4, PolicyIs DEF AskedFairly
  <2>2. Acquirable(role, guide, DefaultPolicy) = Acquirable(role, guide, policy)
    BY <1>1, <2>1 DEF Acquirable
  <2>3. \A b : heur.builds => Suits(b, role, DefaultPolicy.rough) = Suits(b, role, policy.rough)
    BY <1>1, <2>1
  <2>4. AcquisitionPool(role, guide, DefaultPolicy) = AcquisitionPool(role, guide, policy)
    <3>1. CASE heur.builds
      <4> DEFINE among(H, rough) ==
                    {C(hulls[hb[1]].cap[role] * Preference[Standing(hb[1], guide)] * hb[2].compat, hb[1], hb[2], Standing(hb[1], guide)) :
                        hb \in UNION {{h} \X {b \in hulls[h].builds : Suits(b, role, rough)} : h \in H}}
      <4>1. \A r : AcquisitionPool(role, guide, r) = among(Acquirable(role, guide, r), r.rough)
        BY <3>1 DEF AcquisitionPool
      <4> HIDE DEF among
      <4> QED BY <1>1, <2>1, <2>2, <3>1, <4>1
    <3>2. CASE ~heur.builds
      BY <2>2, <3>2 DEF AcquisitionPool
    <3> QED BY <3>1, <3>2
  <2> QED BY <1>4, <2>4 DEF Pool, Asking
<1> QED BY <1>2, <1>3, <1>4 DEF Legs

\* What a leg ranks it can be asked about.
LEMMA RankedIsApplicable ==
    ASSUME Placed, NEW role \in Roles, NEW g, NEW leg \in Legs, NEW c \in Pool(leg, role, g, DefaultPolicy)
    PROVE  Applicable(leg, role, c.hull)
<1>1. CASE leg = "NATIVE"
  <2>1. c.hull \in Own /\ hulls[c.hull].cap[role] > 0
    <3>1. CASE heur.builds
      <4>1. c \in NativeBuilds(role, g, DefaultPolicy)
        BY <1>1, <3>1 DEF Pool, NativePool
      <4>2. PICK x \in UNION {{h} \X hulls[h].builds : h \in Own} :
               hulls[x[1]].cap[role] > 0 /\ c.hull = x[1]
        BY <4>1 DEF NativeBuilds, C
      <4> QED BY <4>2
    <3>2. CASE ~heur.builds
      <4>1. c \in NativeHulls(role)
        BY <1>1, <3>2 DEF Pool, NativePool
      <4> QED BY <4>1 DEF NativeHulls, C
    <3> QED BY <3>1, <3>2
  <2> QED BY <1>1, <2>1 DEF Applicable
<1>2. CASE leg = "RETROFIT"
  <2>1. c \in RetrofitPool(role, DefaultPolicy)
    BY <1>2 DEF Pool
  <2>2. PICK x \in RetrofitConsidered(role, DefaultPolicy) : c.hull = x[1] /\ (heur.builds \/ RoleProfile[role] # Nil)
    BY <2>1 DEF RetrofitPool, C
  <2> QED BY <1>2, <2>2 DEF Applicable
<1>3. CASE leg = "ACQUISITION"
  <2>1. c \in AcquisitionPool(role, g, DefaultPolicy)
    BY <1>3 DEF Pool
  <2>2. c.hull \in Acquirable(role, g, DefaultPolicy)
    BY <2>1 DEF AcquisitionPool, C
  <2> QED BY <1>3, <2>2 DEF Applicable, Acquirable
<1> QED BY <1>1, <1>2, <1>3 DEF Legs

\* The first place of a hull in a ranking, and what comes before.
LEMMA FirstPlace ==
    ASSUME NEW n \in Nat, NEW ranked, DOMAIN ranked = 1..n, NEW h, \E i \in 1..n : ranked[i].hull = h
    PROVE  /\ FirstOf(ranked, h) \in 1..n /\ ranked[FirstOf(ranked, h)].hull = h
           /\ \A i \in 1..n : ranked[i].hull = h => FirstOf(ranked, h) <= i
<1> DEFINE at == {i \in DOMAIN ranked : ranked[i].hull = h}
<1>1. at \subseteq 1..n /\ at # {} /\ at \subseteq Int /\ \A i \in 1..n : i \in at <=> ranked[i].hull = h
  OBVIOUS
<1>2. IsFiniteSet(1..n)
  <2>1. \A k \in Nat : IsFiniteSet(1..k)
    BY FS_Interval
  <2> QED BY <2>1
<1>3. FirstOf(ranked, h) = Min(at)
  BY DEF FirstOf
<1> HIDE DEF at
<1>4. IsFiniteSet(at)
  BY <1>1, <1>2, FS_Subset
<1>5. Min(at) \in at /\ \A i \in at : Min(at) <= i
  BY <1>1, <1>4, ExtremesExist
<1> QED BY <1>1, <1>3, <1>5

LEMMA RankedFirst ==
    ASSUME NEW n \in Nat, NEW ranked, DOMAIN ranked = 1..n, NEW h, \E i \in 1..n : ranked[i].hull = h,
           NEW leg, RankOf(leg, ranked, h) = 1
    PROVE  1 \in 1..n /\ ranked[1].hull = h /\ FirstOf(ranked, h) = 1
<1>1. /\ FirstOf(ranked, h) \in 1..n /\ ranked[FirstOf(ranked, h)].hull = h
      /\ \A i \in 1..n : ranked[i].hull = h => FirstOf(ranked, h) <= i
  BY FirstPlace
<1>2. 1 \in 1..n /\ 1 \in 1..FirstOf(ranked, h) /\ FirstOf(ranked, h) \in 1..FirstOf(ranked, h)
  BY <1>1
<1>3. ranked[1].hull = h
  <2>1. CASE leg = "NATIVE"
    <3> DEFINE H == {ranked[i].hull : i \in 1..FirstOf(ranked, h)}
    <3>1. Cardinality(H) = 1
      BY <2>1 DEF RankOf
    <3>2. ranked[1].hull \in H /\ h \in H
      BY <1>1, <1>2
    <3> HIDE DEF H
    <3>3. IsFiniteSet(H)
      <4> DEFINE at == [i \in 1..FirstOf(ranked, h) |-> ranked[i].hull]
      <4>1. IsFiniteSet(1..FirstOf(ranked, h))
        <5>1. \A k \in Nat : IsFiniteSet(1..k)
          BY FS_Interval
        <5> QED BY <1>1, <5>1
      <4>2. H = {at[i] : i \in 1..FirstOf(ranked, h)}
        BY DEF H
      <4> HIDE DEF at
      <4> QED BY <4>1, <4>2, ImageIsFinite
    <3>4. \E x : H = {x}
      BY <3>1, <3>3, FS_Singleton
    <3> QED BY <3>2, <3>4
  <2>2. CASE leg # "NATIVE"
    <3>1. FirstOf(ranked, h) = 1
      BY <2>2 DEF RankOf
    <3> QED BY <1>1, <3>1
  <2> QED BY <2>1, <2>2
<1> QED BY <1>1, <1>2, <1>3

HullAgrees(a, h, role) ==
    /\ a.recommended <=> h \in ListedHulls(result, a.leg, role)
    /\ a.ranked /\ a.rank = 1 => a.recommended
    /\ a.recommended /\ (~heur.builds \/ a.rank = 1) =>
          \E c \in Range(ListedFor(result, a.leg, role)) : c.hull = h /\ a.sure = c.sure

LEMMA ListedIs ==
    ASSUME Recommends, NEW role \in Gaps, NEW leg \in Legs
    PROVE  ListedFor(result, leg, role) = Entries(Short(leg, role, guide, policy), leg, role, guide)
  BY DEF Recommends, GapSolutions, Solutions, ListedFor, Recommended, Short

LEMMA LegAgrees ==
    ASSUME Placed, Recommends, NEW role \in Gaps, NEW h, NEW leg \in Legs, AskedFairly(leg),
           NEW a, a = LegAnswer(leg, role, h, Trail(leg, role))
    PROVE  a.leg = leg /\ HullAgrees(a, h, role)
<1> DEFINE pool == Pool(leg, role, guide, policy)
           ranked == Trail(leg, role)
           short == Short(leg, role, guide, policy)
           list == ListedFor(result, leg, role)
           n == Cardinality(pool)
<1>1. role \in Roles /\ policy \in Policies /\ GuideIsTyped(guide)
  BY GuideIs DEF Gaps, Recommends
<1>2. Pool(leg, role, Asking(leg), DefaultPolicy) = pool
  BY <1>1, AskedOfTheSamePool
<1>3. ranked = Ranking(pool) /\ short = Shortlist(ranked)
  BY <1>2 DEF Trail, Asking, Short
<1>4. /\ Fair(pool) /\ Shortlisted(short, pool, BestOf(pool), Count)
      /\ short # <<>> => short[1] = Ranking(pool)[1]
      /\ short = <<>> <=> pool = {}
  BY <1>1, ShortIs
<1>5. list = Entries(short, leg, role, guide)
  BY ListedIs
<1>6. \A c \in pool : Applicable(leg, role, c.hull)
  BY <1>1, <1>2, RankedIsApplicable
<1>7. a = IF ~Applicable(leg, role, h) \/ (\A c \in Range(ranked) : c.hull # h)
          THEN [leg |-> leg, ranked |-> FALSE, recommended |-> FALSE, rank |-> Nil, cutoff |-> Nil, sure |-> Nil]
          ELSE [leg |-> leg, ranked |-> TRUE, recommended |-> \E c \in Range(short) : c.hull = h,
                rank |-> RankOf(leg, ranked, h), cutoff |-> Cutoff(leg, ranked),
                sure |-> Confidence(role, ranked[FirstOf(ranked, h)].build, Extra(leg, h, Asking(leg)))]
  BY <1>3 DEF LegAnswer, Asking
<1>8. Extra(leg, h, Asking(leg)) = Extra(leg, h, guide)
  BY DEF Extra, Asking
<1> HIDE DEF pool, ranked, short, list
<1>9. n \in Nat /\ ranked \in [1..n -> pool] /\ \A c \in pool : \E i \in 1..n : ranked[i] = c
  BY <1>3, <1>4, RankingIsRanked
<1> HIDE DEF n
<1>10. short \in Seq(pool) /\ Len(short) \in Nat
  BY <1>4 DEF Shortlisted
<1>11. /\ DOMAIN list = 1..Len(short)
       /\ \A i \in 1..Len(short) :
             /\ short[i] \in pool /\ list[i].hull = short[i].hull
             /\ list[i].sure = Confidence(role, short[i].build, Extra(leg, short[i].hull, guide))
  BY <1>5, <1>10, EntriesAreOfTheShort
<1>12. Range(ranked) = pool /\ Range(short) = {short[i] : i \in 1..Len(short)} /\ Range(list) = {list[i] : i \in 1..Len(short)}
  BY <1>9, <1>10, <1>11 DEF Range
<1>13. h \in ListedHulls(result, leg, role) <=> \E i \in 1..Len(short) : short[i].hull = h
  BY <1>11, <1>12 DEF ListedHulls, list
<1>14. CASE \A c \in pool : c.hull # h
  <2>1. a = [leg |-> leg, ranked |-> FALSE, recommended |-> FALSE, rank |-> Nil, cutoff |-> Nil, sure |-> Nil]
    BY <1>7, <1>12, <1>14
  <2>2. ~\E i \in 1..Len(short) : short[i].hull = h
    BY <1>11, <1>14
  <2> QED BY <1>13, <2>1, <2>2 DEF HullAgrees
<1>15. CASE \E c \in pool : c.hull = h
  <2>1. Applicable(leg, role, h)
    BY <1>6, <1>15
  <2>2. a = [leg |-> leg, ranked |-> TRUE, recommended |-> \E c \in Range(short) : c.hull = h,
             rank |-> RankOf(leg, ranked, h), cutoff |-> Cutoff(leg, ranked),
             sure |-> Confidence(role, ranked[FirstOf(ranked, h)].build, Extra(leg, h, Asking(leg)))]
    BY <1>7, <1>12, <1>15, <2>1
  <2>3. /\ a.leg = leg /\ a.rank = RankOf(leg, ranked, h)
        /\ a.recommended <=> \E i \in 1..Len(short) : short[i].hull = h
        /\ a.sure = Confidence(role, ranked[FirstOf(ranked, h)].build, Extra(leg, h, guide))
    BY <1>8, <1>12, <2>2
  <2>4. \E i \in 1..n : ranked[i].hull = h
    BY <1>9, <1>15
  <2>5. /\ FirstOf(ranked, h) \in 1..n /\ ranked[FirstOf(ranked, h)].hull = h
    BY <1>9, <2>4, FirstPlace
  <2>6. ASSUME a.rank = 1
        PROVE  1 \in 1..Len(short) /\ short[1].hull = h /\ list[1].sure = a.sure
    <3>1. 1 \in 1..n /\ ranked[1].hull = h /\ FirstOf(ranked, h) = 1
      <4>1. RankOf(leg, ranked, h) = 1 /\ DOMAIN ranked = 1..n
        BY <1>9, <2>3, <2>6
      <4>2. PICK r, m : r = ranked /\ m = n
        OBVIOUS
      <4>3. m \in Nat /\ DOMAIN r = 1..m /\ (\E i \in 1..m : r[i].hull = h) /\ RankOf(leg, r, h) = 1
        BY <1>9, <2>4, <4>1, <4>2
      <4>4. 1 \in 1..m /\ r[1].hull = h /\ FirstOf(r, h) = 1
        BY <4>3, RankedFirst
      <4> QED BY <4>2, <4>4
    <3>2. short # <<>> /\ short[1] = ranked[1]
      BY <1>3, <1>4, <1>15
    <3>3. 1 \in 1..Len(short)
      BY <1>10, <3>2
    <3> QED BY <1>11, <2>3, <3>1, <3>2, <3>3
  <2>7. ASSUME ~heur.builds, NEW i \in 1..Len(short), short[i].hull = h
        PROVE  list[i].sure = a.sure
    <3>1. short[i].build = NoBuild /\ ranked[FirstOf(ranked, h)].build = NoBuild
      BY <1>4, <1>9, <1>11, <2>5, <2>7 DEF Fair, Candidate
    <3> QED BY <1>11, <2>3, <2>7, <3>1
  <2>8. a.recommended /\ (~heur.builds \/ a.rank = 1) => \E i \in 1..Len(short) : list[i].hull = h /\ list[i].sure = a.sure
    <3>1. ASSUME a.rank = 1 PROVE \E i \in 1..Len(short) : list[i].hull = h /\ list[i].sure = a.sure
      BY <1>11, <2>6, <3>1
    <3>2. ASSUME ~heur.builds, a.recommended PROVE \E i \in 1..Len(short) : list[i].hull = h /\ list[i].sure = a.sure
      BY <1>11, <2>3, <2>7, <3>2
    <3> QED BY <3>1, <3>2
  <2>9. a.recommended /\ (~heur.builds \/ a.rank = 1) => \E c \in Range(list) : c.hull = h /\ a.sure = c.sure
    BY <1>12, <2>8
  <2>10. a.rank = 1 => a.recommended
    BY <2>3, <2>6
  <2> QED BY <1>13, <2>3, <2>9, <2>10 DEF HullAgrees, list
<1> QED BY <1>14, <1>15

\* The policy a build is asked about with.
LEMMA AtStageIs == ASSUME NEW stage PROVE AtStage(stage) = [foreign |-> TRUE, rough |-> TRUE, stage |-> stage]
<1> DEFINE p == AtStage(stage)
<1>1. p = [f \in {"foreign", "rough", "stage"} |-> IF f = "stage" THEN stage ELSE DefaultPolicy[f]]
  <2>1. DOMAIN DefaultPolicy = {"foreign", "rough", "stage"}
    BY DEF DefaultPolicy
  <2> QED BY <2>1 DEF AtStage
<1>2. DefaultPolicy["foreign"] = TRUE /\ DefaultPolicy["rough"] = TRUE
  BY DEF DefaultPolicy
<1> DEFINE q == [foreign |-> TRUE, rough |-> TRUE, stage |-> stage]
<1>3. /\ q = [f \in {"foreign", "rough", "stage"} |-> q[f]]
      /\ q["foreign"] = TRUE /\ q["rough"] = TRUE /\ q["stage"] = stage
  OBVIOUS
<1> HIDE DEF p, q
<1>4. p["foreign"] = q["foreign"] /\ p["rough"] = q["rough"] /\ p["stage"] = q["stage"]
  BY <1>1, <1>2, <1>3
<1>5. p = q
  BY <1>1, <1>3, <1>4
<1> QED BY <1>5 DEF p, q

\* A build is asked about by the rules it was recommended by.
LEMMA BuildAgrees ==
    ASSUME Recommends, policy.foreign, policy.rough, NEW role, NEW h, NEW b, NEW is, is = BuildAnswer(role, h, b, guide, AtStage(policy.stage)),
           is.says \notin {"unknown hull", "no such build"}
    PROVE  is.legs = {leg \in Legs : Lists(result, leg, role, h, b)}
<1>1. AtStage(policy.stage) = policy
  <2>1. PICK p : p = policy
    OBVIOUS
  <2>2. p = [foreign |-> TRUE, rough |-> TRUE, stage |-> p.stage]
    BY <2>1, PolicyIs DEF Recommends
  <2> QED BY <2>1, <2>2, AtStageIs
<1>2. PICK res : res = GapSolutions(guide, policy)
  OBVIOUS
<1>3. is = BuildVerdict(res, Ranking(NativeBuilds(role, guide, policy)), role, h, b)
  BY <1>1, <1>2 DEF BuildAnswer
<1>4. is.legs = {leg \in Legs : Lists(res, leg, role, h, b)}
  <2>1. \A s, ls : [says |-> s, legs |-> ls].legs = ls
    OBVIOUS
  <2>2. \A ranked : BuildVerdict(res, ranked, role, h, b).legs = {leg \in Legs : Lists(res, leg, role, h, b)}
    BY <2>1, Zenon DEF BuildVerdict
  <2> QED BY <1>3, <2>2, Zenon
<1>5. res = result
  BY <1>2 DEF Recommends
<1> QED BY <1>4, <1>5

\* Scenario options: what is listed, what of it fits, and by what it is ranked.
Offered(role) == UNION {{[item |-> c, leg |-> leg] : c \in Range(ListedFor(result, leg, role))} : leg \in Legs}
FittingItems(scenario, role) == {o \in Offered(role) : o.item.build # 0 /\ Fit[scenario][o.item.build] >= 3}
Reasons(scenario, o) ==
    <<o.item.score * Unit[o.leg] * Fit[scenario][o.item.build], -o.item.hull,
      IF o.leg = "ACQUISITION" THEN 2 ELSE IF o.leg = "NATIVE" THEN 1 ELSE 0, -o.item.build>>

LEMMA ItemsAre ==
    ASSUME Placed, Recommends, NEW role \in Gaps, NEW leg \in Legs
    PROVE  LET items == Range(ListedFor(result, leg, role)) IN
           /\ IsFiniteSet(items)
           /\ \A c \in items : c.hull \in Nat /\ c.build \in Nat /\ c.score \in Int /\ (c.build # 0 => c.build \in DOMAIN BuildProfile)
           /\ \A c, d \in items : c.hull = d.hull /\ c.build = d.build => c = d
<1> DEFINE pool == Pool(leg, role, guide, policy)
           short == Short(leg, role, guide, policy)
           list == ListedFor(result, leg, role)
           items == {list[i] : i \in 1..Len(short)}
<1>1. role \in Roles /\ GuideIsTyped(guide)
  BY GuideIs DEF Gaps
<1>2. Fair(pool) /\ Shortlisted(short, pool, BestOf(pool), Count)
  BY <1>1, ShortIs
<1>3. list = Entries(short, leg, role, guide)
  BY ListedIs
<1> HIDE DEF pool, short, list
<1>4. short \in Seq(pool) /\ Len(short) \in Nat
  BY <1>2 DEF Shortlisted
<1>5. /\ DOMAIN list = 1..Len(short)
      /\ \A i \in 1..Len(short) :
            /\ short[i] \in pool /\ list[i].hull = short[i].hull
            /\ list[i].build = short[i].build.id /\ list[i].score = short[i].score
  BY <1>3, <1>4, EntriesAreOfTheShort
<1>6. list = [i \in 1..Len(short) |-> Entry(short[i], leg, role, guide)]
  BY <1>3, <1>4 DEF Entries
<1>7. Range(list) = items
  BY <1>5 DEF Range
<1>8. IsFiniteSet(items)
  <2>1. IsFiniteSet(1..Len(short))
    <3>1. \A k \in Nat : IsFiniteSet(1..k)
      BY FS_Interval
    <3> QED BY <1>4, <3>1
  <2> QED BY <2>1, ImageIsFinite
<1>9. ASSUME NEW i \in 1..Len(short)
      PROVE  /\ list[i].hull \in Nat /\ list[i].build \in Nat /\ list[i].score \in Int
             /\ list[i].build # 0 => list[i].build \in DOMAIN BuildProfile
  <2>1. Candidate(short[i]) /\ short[i].score \in Int
    BY <1>2, <1>5 DEF Fair, Candidate
  <2>2. short[i].hull \in Nat /\ short[i].build.id \in Nat
    BY <2>1, CandidateBuild
  <2>3. short[i].build.id # 0 => short[i].build.id \in DOMAIN BuildProfile
    <3>1. CASE heur.builds
      <4>1. IsHull(hulls[short[i].hull]) /\ short[i].build \in hulls[short[i].hull].builds
        BY <2>1, <3>1, HullsAreTyped DEF Candidate
      <4> QED BY <4>1 DEF IsHull, IsBuild
    <3>2. CASE ~heur.builds
      BY <2>1, <3>2 DEF Candidate, NoBuild
    <3> QED BY <3>1, <3>2
  <2> QED BY <1>5, <2>1, <2>2, <2>3
<1>10. ASSUME NEW i \in 1..Len(short), NEW j \in 1..Len(short), list[i].hull = list[j].hull, list[i].build = list[j].build
       PROVE  list[i] = list[j]
  <2>1. short[i] = short[j]
    BY <1>2, <1>5, <1>10, OneOfTheName
  <2> QED BY <1>6, <2>1
<1>11. /\ IsFiniteSet(items)
       /\ \A c \in items : c.hull \in Nat /\ c.build \in Nat /\ c.score \in Int /\ (c.build # 0 => c.build \in DOMAIN BuildProfile)
       /\ \A c, d \in items : c.hull = d.hull /\ c.build = d.build => c = d
  BY <1>8, <1>9, <1>10
<1> HIDE DEF items
<1> QED BY <1>7, <1>11 DEF list

LEMMA OptionsAre ==
    ASSUME Placed, Recommends, NEW role \in Gaps, NEW s \in Scenarios, NEW shown, shown = Options(result, s, role)
    PROVE  /\ Range(shown) \subseteq FittingItems(s, role)
           /\ Len(shown) = Count \/ Range(shown) = FittingItems(s, role)
<1> DEFINE fits == FittingItems(s, role)
           before == {p \in fits \X fits : Exceeds(Reasons(s, p[1]), Reasons(s, p[2]))}
           ranked == InOrder(fits, before)
           key == [o \in fits |-> Reasons(s, o)]
           n == Cardinality(fits)
<1>1. shown = SubSeq(ranked, 1, Min({Count, Len(ranked)}))
  BY DEF Options, FittingItems, Offered, Reasons
<1>2. IsFiniteSet(fits)
  <2> DEFINE rows == [leg \in Legs |-> {[item |-> c, leg |-> leg] : c \in Range(ListedFor(result, leg, role))}]
             all == {rows[leg] : leg \in Legs}
  <2>1. IsFiniteSet(Legs)
    BY ThreeAreFinite DEF Legs
  <2>2. ASSUME NEW leg \in Legs PROVE IsFiniteSet(rows[leg])
    <3> DEFINE items == Range(ListedFor(result, leg, role))
               pair == [c \in items |-> [item |-> c, leg |-> leg]]
    <3>1. IsFiniteSet(items)
      BY ItemsAre
    <3>2. rows[leg] = {pair[c] : c \in items}
      OBVIOUS
    <3> HIDE DEF items, pair, rows
    <3> QED BY <3>1, <3>2, ImageIsFinite
  <2>3. Offered(role) = UNION all
    BY DEF Offered
  <2> HIDE DEF rows
  <2>4. IsFiniteSet(all) /\ \A r \in all : IsFiniteSet(r)
    BY <2>1, <2>2, ImageIsFinite
  <2> HIDE DEF all
  <2>5. IsFiniteSet(Offered(role))
    BY <2>3, <2>4, FS_UNION
  <2>6. fits \subseteq Offered(role)
    BY DEF FittingItems
  <2> HIDE DEF fits
  <2> QED BY <2>5, <2>6, FS_Subset
<1>3. ASSUME NEW o \in fits
      PROVE  /\ o.leg \in Legs /\ o = [item |-> o.item, leg |-> o.leg] /\ o.item \in Range(ListedFor(result, o.leg, role))
             /\ o.item.hull \in Nat /\ o.item.build \in Nat
             /\ key[o] \in [1..4 -> Int]
  <2> PICK leg \in Legs : \E c \in Range(ListedFor(result, leg, role)) : o = [item |-> c, leg |-> leg] /\ c.build # 0
    BY DEF FittingItems, Offered
  <2>1. PICK c \in Range(ListedFor(result, leg, role)) : o = [item |-> c, leg |-> leg] /\ c.build # 0
    OBVIOUS
  <2>2. o.item = c /\ o.leg = leg
    BY <2>1
  <2>3. c.hull \in Nat /\ c.build \in Nat /\ c.score \in Int /\ c.build \in DOMAIN BuildProfile
    BY <2>1, ItemsAre
  <2>4. Unit[leg] \in Int /\ Fit[s][c.build] \in Int
    BY <2>3, GapAssumption DEF Unit, Legs
  <2>5. c.score * Unit[leg] * Fit[s][c.build] \in Int
    <3>1. c.score * Unit[leg] \in Int
      BY <2>3, <2>4
    <3> QED BY <2>4, <3>1
  <2>6. Reasons(s, o) \in [1..4 -> Int]
    <3>1. -c.hull \in Int /\ -c.build \in Int
      BY <2>3
    <3>2. (IF leg = "ACQUISITION" THEN 2 ELSE IF leg = "NATIVE" THEN 1 ELSE 0) \in Int
      OBVIOUS
    <3> QED BY <2>2, <2>5, <3>1, <3>2, TupleOfFour DEF Reasons
  <2> QED BY <2>1, <2>2, <2>3, <2>6
<1>4. ASSUME NEW o \in fits, NEW p \in fits, key[o] = key[p] PROVE o = p
  <2>1. /\ -o.item.hull = -p.item.hull /\ -o.item.build = -p.item.build
        /\ (IF o.leg = "ACQUISITION" THEN 2 ELSE IF o.leg = "NATIVE" THEN 1 ELSE 0)
              = (IF p.leg = "ACQUISITION" THEN 2 ELSE IF p.leg = "NATIVE" THEN 1 ELSE 0)
    BY <1>4 DEF Reasons
  <2>2. o.leg = p.leg /\ o.item.hull = p.item.hull /\ o.item.build = p.item.build
    BY <1>3, <2>1 DEF Legs
  <2>3. o.item = p.item
    BY <1>3, <2>2, ItemsAre
  <2> QED BY <1>3, <2>2, <2>3
<1>5. \A o, p \in fits : <<o, p>> \in before <=> Exceeds(key[o], key[p])
  OBVIOUS
<1>6. key \in [fits -> [1..4 -> Int]]
  BY <1>3
<1> HIDE DEF key, before
<1>7. Ordered(fits, before)
  <2> HIDE DEF fits
  <2>1. \A k \in Nat : key \in [fits -> [1..k -> Int]] => Ordered(fits, before)
    BY <1>2, <1>4, <1>5, ReasonsOrder
  <2> QED BY <1>6, <2>1
<1> HIDE DEF fits
<1>8. n \in Nat /\ ranked \in [1..n -> fits] /\ \A o \in fits : \E i \in 1..n : ranked[i] = o
  BY <1>7, InOrderIsSorted
<1> HIDE DEF ranked, n
<1>9. Len(ranked) = n /\ ranked \in Seq(fits)
  BY <1>8
<1> DEFINE k == Min({Count, Len(ranked)})
<1>10. k \in 0..n /\ (k = Count \/ k = n)
  BY <1>8, <1>9, GapAssumption, MinOfTwo
<1> HIDE DEF k
<1>11. Len(shown) = k /\ DOMAIN shown = 1..k /\ \A i \in 1..k : shown[i] = ranked[i]
  <2>1. shown = SubSeq(ranked, 1, k)
    BY <1>1 DEF k
  <2> QED BY <1>8, <1>9, <1>10, <2>1
<1>12. \A i \in 1..k : i \in 1..n
  BY <1>8, <1>10
<1>13. Range(shown) = {ranked[i] : i \in 1..k}
  BY <1>11 DEF Range
<1>14. k = n => Range(shown) = fits
  BY <1>8, <1>13
<1>15. Range(shown) \subseteq fits
  BY <1>8, <1>12, <1>13
<1> QED BY <1>10, <1>11, <1>14, <1>15 DEF fits

LEMMA OptionAgrees ==
    ASSUME Placed, Recommends, NEW role \in Gaps, NEW s \in Scenarios, NEW h, NEW b \in DOMAIN BuildProfile,
           NEW is, is = OptionAnswer(s, role, h, b)
    PROVE  /\ is.says = "below the others" => Len(Options(result, s, role)) = Count
           /\ is.says = "option" => \E leg \in Legs : Lists(result, leg, role, h, b)
<1>1. PICK under : under = BuildAnswer(role, h, b, NoGuidance, AtStage(Nil))
  OBVIOUS
<1>2. PICK shown : shown = Options(result, s, role)
  OBVIOUS
<1>3. is = OptionVerdict(under, Range(shown), s, role, h, b)
  BY <1>1, <1>2 DEF OptionAnswer
<1>4. PICK says : says = is.says
  OBVIOUS
<1>5. says = CASE under.says \in {"unknown hull", "no such build"} -> "unavailable"
               [] \E o \in Range(shown) : o.item.hull = h /\ o.item.build = b -> "option"
               [] ~\E leg \in Legs : Lists(result, leg, role, h, b) -> "not considered"
               [] Fit[s][b] < 3 -> "low fit"
               [] OTHER -> "below the others"
  <2>1. \A u, y : [under |-> u, says |-> y].says = y
    OBVIOUS
  <2>2. \A v : v = OptionVerdict(under, Range(shown), s, role, h, b) =>
           v.says = CASE under.says \in {"unknown hull", "no such build"} -> "unavailable"
                      [] \E o \in Range(shown) : o.item.hull = h /\ o.item.build = b -> "option"
                      [] ~\E leg \in Legs : Lists(result, leg, role, h, b) -> "not considered"
                      [] Fit[s][b] < 3 -> "low fit"
                      [] OTHER -> "below the others"
    BY <2>1, Zenon DEF OptionVerdict
  <2> QED BY <1>3, <1>4, <2>2, Zenon
<1>6. /\ says = "option" => \E o \in Range(shown) : o.item.hull = h /\ o.item.build = b
      /\ says = "below the others" =>
            /\ under.says \notin {"unknown hull", "no such build"}
            /\ ~\E o \in Range(shown) : o.item.hull = h /\ o.item.build = b
            /\ \E leg \in Legs : Lists(result, leg, role, h, b)
            /\ ~(Fit[s][b] < 3)
  BY <1>5
<1>7. Range(shown) \subseteq FittingItems(s, role) /\ (Len(shown) = Count \/ Range(shown) = FittingItems(s, role))
  BY <1>2, OptionsAre
<1>8. ASSUME says = "option" PROVE \E leg \in Legs : Lists(result, leg, role, h, b)
  <2>1. PICK o \in FittingItems(s, role) : o.item.hull = h /\ o.item.build = b
    BY <1>6, <1>7, <1>8
  <2> PICK leg \in Legs : \E c \in Range(ListedFor(result, leg, role)) : o = [item |-> c, leg |-> leg]
    BY <2>1 DEF FittingItems, Offered
  <2>2. PICK c \in Range(ListedFor(result, leg, role)) : o = [item |-> c, leg |-> leg]
    OBVIOUS
  <2>3. c.hull = h /\ c.build = b
    BY <2>1, <2>2
  <2> QED BY <2>2, <2>3 DEF Lists
<1>9. ASSUME says = "below the others" PROVE Len(shown) = Count
  <2>1. b # 0
    <3>1. h \in DOMAIN hulls /\ b \in {x.id : x \in hulls[h].builds}
      <4>1. under.says \notin {"unknown hull", "no such build"}
        BY <1>6, <1>9
      <4>2. CASE h \notin DOMAIN hulls
        <5>1. under = [says |-> "unknown hull", legs |-> {}]
          BY <1>1, <4>2 DEF BuildAnswer
        <5> QED BY <4>1, <5>1
      <4>3. CASE h \in DOMAIN hulls /\ (~heur.builds \/ b \notin {x.id : x \in hulls[h].builds})
        <5>1. under = [says |-> "no such build", legs |-> {}]
          BY <1>1, <4>3 DEF BuildAnswer
        <5> QED BY <4>1, <5>1
      <4> QED BY <4>2, <4>3
    <3>2. IsHull(hulls[h])
      BY <3>1, HullsAreTyped
    <3> QED BY <3>1, <3>2 DEF IsHull, IsBuild
  <2>2. PICK leg \in Legs : Lists(result, leg, role, h, b)
    BY <1>6, <1>9
  <2>3. PICK c \in Range(ListedFor(result, leg, role)) : c.hull = h /\ c.build = b
    BY <2>2 DEF Lists
  <2>4. Fit[s][b] >= 3
    <3>1. ~(Fit[s][b] < 3)
      BY <1>6, <1>9
    <3>2. Fit[s][b] \in Int
      BY GapAssumption
    <3> QED BY <3>1, <3>2
  <2>5. PICK o : o = [item |-> c, leg |-> leg]
    OBVIOUS
  <2>6. o \in Offered(role) /\ o.item.hull = h /\ o.item.build = b
    BY <2>3, <2>5 DEF Offered
  <2>7. o \in FittingItems(s, role)
    BY <2>1, <2>4, <2>6 DEF FittingItems
  <2>8. o \notin Range(shown)
    BY <1>6, <1>9, <2>6
  <2> QED BY <1>7, <2>7, <2>8
<1> QED BY <1>2, <1>4, <1>8, <1>9

\* The same scan and the same rules make the same of it.
LEMMA GroundStays ==
    ASSUME world' = world, heur' = heur
    PROVE  hulls' = hulls /\ Known' = Known /\ Own' = Own /\ Evidence' = Evidence
  BY DEF hulls, Known, Own, Evidence
LEMMA GapsStay ==
    ASSUME world' = world, heur' = heur
    PROVE  Gaps' = Gaps
  BY DEF Gaps, Coverage, BestSighted, Sighted, Max, Known, hulls
LEMMA ConfidenceStays ==
    ASSUME world' = world, heur' = heur, NEW role, NEW build, NEW extra
    PROVE  Confidence(role, build, extra)' = Confidence(role, build, extra)
  BY DEF Confidence, Evidence, BestSighted, Sighted, Max, Known, hulls
LEMMA ShortlistStays ==
    ASSUME world' = world, heur' = heur, NEW ranked
    PROVE  Shortlist(ranked)' = Shortlist(ranked)
  BY DEF Shortlist, DiverseShortlist, Appeal, Likeness, RolesOf, hulls
LEMMA NativeStays ==
    ASSUME world' = world, heur' = heur, NEW role, NEW g, NEW rules
    PROVE  NativePool(role, g, rules)' = NativePool(role, g, rules) /\ NativeBuilds(role, g, rules)' = NativeBuilds(role, g, rules)
           /\ NativeHulls(role)' = NativeHulls(role)
  BY DEF NativePool, NativeBuilds, NativeHulls, Own, Known, hulls
LEMMA AcquisitionStays ==
    ASSUME world' = world, heur' = heur, NEW role, NEW g, NEW rules
    PROVE  AcquisitionPool(role, g, rules)' = AcquisitionPool(role, g, rules)
  BY DEF AcquisitionPool, Acquirable, Standing, Known, hulls
LEMMA RetrofitStays ==
    ASSUME world' = world, heur' = heur, NEW role, NEW rules
    PROVE  RetrofitPool(role, rules)' = RetrofitPool(role, rules)
  BY DEF RetrofitPool, RetrofitScore, RetrofitConsidered, BestRetrofit, NativeHulls, NativeBuilds, Own, Known, hulls
LEMMA PoolStays ==
    ASSUME world' = world, heur' = heur, NEW leg, NEW role, NEW g, NEW rules
    PROVE  Pool(leg, role, g, rules)' = Pool(leg, role, g, rules)
  BY NativeStays, AcquisitionStays, RetrofitStays DEF Pool

LEMMA RecommendedStays ==
    ASSUME world' = world, heur' = heur, NEW leg, NEW role, NEW g, NEW rules
    PROVE  Recommended(leg, role, g, rules)' = Recommended(leg, role, g, rules)
<1>1. PICK pool : pool = Pool(leg, role, g, rules)
  OBVIOUS
<1>2. PICK short : short = Shortlist(Ranking(pool))
  OBVIOUS
<1>3. Shortlist(Ranking(pool))' = short
  BY <1>2, ShortlistStays
<1>4. Pool(leg, role, g, rules)' = pool
  BY <1>1, PoolStays
<1>5. Recommended(leg, role, g, rules) = Entries(short, leg, role, g)
  BY <1>1, <1>2 DEF Recommended
<1>6. Recommended(leg, role, g, rules)' = Entries(short, leg, role, g)'
  BY <1>3, <1>4 DEF Recommended
<1>7. Entries(short, leg, role, g)' = Entries(short, leg, role, g)
  BY ConfidenceStays DEF Entries, Entry, Extra, GuidanceConfidence
<1> QED BY <1>5, <1>6, <1>7

LEMMA SolutionsStay ==
    ASSUME world' = world, heur' = heur, NEW g, NEW rules
    PROVE  GapSolutions(g, rules)' = GapSolutions(g, rules)
<1>1. \A leg, role : Recommended(leg, role, g, rules)' = Recommended(leg, role, g, rules)
  BY RecommendedStays
<1>2. Gaps' = Gaps
  BY GapsStay
<1> QED BY <1>1, <1>2 DEF GapSolutions, Solutions


\* What WhyNotAgrees says of an answer.
Agrees(x) ==
    CASE x.kind = "hull" -> \A a \in x.is : AskedFairly(a.leg) => HullAgrees(a, x.hull, x.role)
      [] x.kind = "build" ->
            (x.is.says \notin {"unknown hull", "no such build"} /\ policy.foreign /\ policy.rough) =>
                x.is.legs = {leg \in Legs : Lists(result, leg, x.role, x.hull, x.build)}
      [] x.kind = "option" ->
            /\ x.is.says = "below the others" => Len(Options(result, x.scenario, x.role)) = Count
            /\ x.is.says = "option" => \E leg \in Legs : Lists(result, leg, x.role, x.hull, x.build)

LEMMA WhyNotIs == WhyNotAgrees <=> (answer # Nil /\ answer.role \in Gaps => Agrees(answer))
  BY DEF WhyNotAgrees, Agrees, AskedFairly, HullAgrees

LEMMA HullAnswerAgrees ==
    ASSUME Placed, Recommends, NEW role \in Gaps, NEW h, NEW x, x = [kind |-> "hull", role |-> role, hull |-> h, is |-> HullAnswer(role, h)]
    PROVE  Agrees(x)
<1>1. x.kind = "hull" /\ x.role = role /\ x.hull = h /\ x.is = HullAnswer(role, h)
  OBVIOUS
<1>2. ASSUME NEW a \in HullAnswer(role, h), AskedFairly(a.leg) PROVE HullAgrees(a, h, role)
  <2>1. PICK leg \in Legs : a = LegAnswer(leg, role, h, Trail(leg, role))
    BY DEF HullAnswer
  <2>2. a.leg = leg
    BY <2>1 DEF LegAnswer
  <2> QED BY <1>2, <2>1, <2>2, LegAgrees
<1> QED BY <1>1, <1>2 DEF Agrees

LEMMA BuildAnswerAgrees ==
    ASSUME Recommends, NEW role, NEW h, NEW b, NEW x,
           x = [kind |-> "build", role |-> role, hull |-> h, build |-> b, is |-> BuildAnswer(role, h, b, guide, AtStage(policy.stage))]
    PROVE  Agrees(x)
<1>1. x.kind = "build" /\ x.role = role /\ x.hull = h /\ x.build = b /\ x.is = BuildAnswer(role, h, b, guide, AtStage(policy.stage))
  OBVIOUS
<1>2. (x.is.says \notin {"unknown hull", "no such build"} /\ policy.foreign /\ policy.rough) =>
          x.is.legs = {leg \in Legs : Lists(result, leg, role, h, b)}
  <2> SUFFICES ASSUME x.is.says \notin {"unknown hull", "no such build"}, policy.foreign, policy.rough
               PROVE  x.is.legs = {leg \in Legs : Lists(result, leg, role, h, b)}
    BY Zenon
  <2>1. PICK y : y = x.is
    OBVIOUS
  <2>2. y = BuildAnswer(role, h, b, guide, AtStage(policy.stage)) /\ y.says \notin {"unknown hull", "no such build"}
    BY <1>1, <2>1
  <2>3. y.legs = {leg \in Legs : Lists(result, leg, role, h, b)}
    BY <2>2, BuildAgrees
  <2> QED BY <2>1, <2>3
<1> QED BY <1>1, <1>2 DEF Agrees

LEMMA OptionAnswerAgrees ==
    ASSUME Placed, Recommends, NEW role \in Gaps, NEW s \in Scenarios, NEW h, NEW b \in DOMAIN BuildProfile, NEW x,
           x = [kind |-> "option", role |-> role, hull |-> h, build |-> b, scenario |-> s, is |-> OptionAnswer(s, role, h, b)]
    PROVE  Agrees(x)
<1>1. x.kind = "option" /\ x.role = role /\ x.hull = h /\ x.build = b /\ x.scenario = s /\ x.is = OptionAnswer(s, role, h, b)
  OBVIOUS
<1>2. /\ x.is.says = "below the others" => Len(Options(result, s, role)) = Count
      /\ x.is.says = "option" => \E leg \in Legs : Lists(result, leg, role, h, b)
  BY <1>1, OptionAgrees
<1> QED BY <1>1, <1>2 DEF Agrees

LEMMA AgreementStays ==
    ASSUME UNCHANGED <<world, heur, policy, result>>, NEW x
    PROVE  Agrees(x)' <=> Agrees(x)
<1>1. guide' = guide
  BY GuideStays
<1> QED BY <1>1 DEF Agrees, AskedFairly, HullAgrees

\* What was recommended stays what the rules make of the scan while it is asked about.
GapInv ==
    /\ Placed
    /\ result # Nil => Recommends
    /\ answer # Nil => result # Nil
    /\ answer # Nil /\ answer.role \in Gaps => Agrees(answer)

LEMMA RecommendsStays == ASSUME UNCHANGED <<world, heur, policy, result>>, Recommends PROVE Recommends'
<1>1. PICK g, rules : g = guide /\ rules = policy
  OBVIOUS
<1>2. guide' = g /\ policy' = rules
  BY <1>1, GuideStays
<1>3. GapSolutions(guide, policy)' = GapSolutions(g, rules)'
  BY <1>2
<1>4. GapSolutions(g, rules)' = GapSolutions(g, rules)
  BY SolutionsStay
<1>5. GapSolutions(g, rules) = GapSolutions(guide, policy)
  BY <1>1
<1> QED BY <1>2, <1>3, <1>4, <1>5 DEF Recommends

LEMMA GapInductive == GapInv /\ [GapNext]_gapVars => GapInv'
<1> SUFFICES ASSUME GapInv, [GapNext]_gapVars PROVE GapInv'
  OBVIOUS
<1>1. world' = world /\ heur' = heur
  BY DEF GapNext, gapVars, Recommend, Ask, AskHull, AskBuild, AskOption, ReadAnswer
<1>2. Placed' /\ Gaps' = Gaps
  BY <1>1, GapsStay DEF GapInv, Placed
<1>3. CASE \E rules \in Policies : Recommend(rules)
  <2>1. PICK rules \in Policies : Recommend(rules)
    BY <1>3
  <2>2. PICK g : g = guide
    OBVIOUS
  <2>3. policy' = rules /\ result' = GapSolutions(g, rules) /\ answer' = Nil
    BY <2>1, <2>2 DEF Recommend, GapInv
  <2>4. guide' = g
    BY <1>1, <2>2, GuideStays
  <2>5. GapSolutions(guide, policy)' = GapSolutions(g, rules)'
    BY <2>3, <2>4
  <2>6. GapSolutions(g, rules)' = GapSolutions(g, rules)
    BY <1>1, SolutionsStay
  <2>7. Recommends'
    BY <2>3, <2>5, <2>6 DEF Recommends
  <2> QED BY <1>2, <2>3, <2>7 DEF GapInv
<1>4. ASSUME UNCHANGED <<policy, result>>, NEW x, answer' = x, x # Nil => result # Nil, x # Nil /\ x.role \in Gaps => Agrees(x)
      PROVE  GapInv'
  <2>1. (result # Nil => Recommends)'
    BY <1>1, <1>4, RecommendsStays DEF GapInv
  <2>2. Agrees(x)' <=> Agrees(x)
    BY <1>1, <1>4, AgreementStays
  <2> QED BY <1>2, <1>4, <2>1, <2>2 DEF GapInv
<1>5. CASE UNCHANGED gapVars
  <2>1. PICK x : x = answer
    OBVIOUS
  <2>2. UNCHANGED <<policy, result>> /\ answer' = x /\ (x # Nil => result # Nil) /\ (x # Nil /\ x.role \in Gaps => Agrees(x))
    BY <1>5, <2>1 DEF gapVars, GapInv
  <2> QED BY <1>4, <2>2
<1>6. CASE ReadAnswer
  <2>1. PICK x : x = Nil
    OBVIOUS
  <2>2. UNCHANGED <<policy, result>> /\ answer' = x
    BY <1>6, <2>1 DEF ReadAnswer
  <2> QED BY <1>4, <2>1, <2>2
<1>7. ASSUME Ask PROVE UNCHANGED <<policy, result>> /\ result # Nil /\ Placed /\ Recommends
  BY <1>7 DEF Ask, GapInv
<1>8. CASE \E role \in Roles, h \in AskedAbout : AskHull(role, h)
  <2>1. PICK role \in Roles, h \in AskedAbout : AskHull(role, h)
    BY <1>8
  <2>2. PICK x : x = [kind |-> "hull", role |-> role, hull |-> h, is |-> HullAnswer(role, h)]
    OBVIOUS
  <2>3. Ask /\ answer' = x /\ x.role = role
    BY <2>1, <2>2 DEF AskHull
  <2>4. role \in Gaps => Agrees(x)
    BY <1>7, <2>2, <2>3, HullAnswerAgrees
  <2> QED BY <1>4, <1>7, <2>3, <2>4
<1>9. CASE \E role \in Roles, h \in AskedAbout, b \in DOMAIN BuildProfile : AskBuild(role, h, b)
  <2>1. PICK role \in Roles, h \in AskedAbout, b \in DOMAIN BuildProfile : AskBuild(role, h, b)
    BY <1>9
  <2>2. PICK x : x = [kind |-> "build", role |-> role, hull |-> h, build |-> b, is |-> BuildAnswer(role, h, b, guide, AtStage(policy.stage))]
    OBVIOUS
  <2>3. Ask /\ answer' = x /\ x.role = role
    BY <2>1, <2>2 DEF AskBuild
  <2>4. Agrees(x)
    BY <1>7, <2>2, <2>3, BuildAnswerAgrees
  <2> QED BY <1>4, <1>7, <2>3, <2>4
<1>10. CASE \E s \in Scenarios, role \in Roles, h \in AskedAbout, b \in DOMAIN BuildProfile : AskOption(s, role, h, b)
  <2>1. PICK s \in Scenarios, role \in Roles, h \in AskedAbout, b \in DOMAIN BuildProfile : AskOption(s, role, h, b)
    BY <1>10
  <2>2. PICK x : x = [kind |-> "option", role |-> role, hull |-> h, build |-> b, scenario |-> s, is |-> OptionAnswer(s, role, h, b)]
    OBVIOUS
  <2>3. Ask /\ answer' = x /\ x.role = role
    BY <2>1, <2>2 DEF AskOption
  <2>4. role \in Gaps => Agrees(x)
    BY <1>7, <2>2, <2>3, OptionAnswerAgrees
  <2> QED BY <1>4, <1>7, <2>3, <2>4
<1> QED BY <1>3, <1>5, <1>6, <1>8, <1>9, <1>10 DEF GapNext

LEMMA GapIsKept == GapSpec => []GapInv
<1>1. GapInit => GapInv
  BY DEF GapInit, GapInv, Placed
<1> QED BY <1>1, GapInductive, PTL DEF GapSpec

(* For any scan, packs and policy the shortlists of a gap report are honest    *)
(* (ShortlistIsHonest): every leg of recommend_gap_solutions lists as many as  *)
(* it counts and finds, the best first and none twice, and none that is far    *)
(* from the best while a near one is left out; acquisitions respect what is    *)
(* known and the policy, retrofits gain, and a gap is called unaddressed       *)
(* exactly if no leg has a candidate.                                          *)
THEOREM ShortlistsAreHonest == GapSpec => []ShortlistIsHonest
<1>1. GapInv => ShortlistIsHonest
  BY HonestByRules DEF GapInv
<1> QED BY <1>1, GapIsKept, PTL

(* For any scan, packs and policy Why-Not agrees with the report it is asked   *)
(* about (WhyNotAgrees): what explain_candidate, explain_build_candidate and   *)
(* explain_scenario_candidate say of a hull, a build or an option is what the  *)
(* listing, which ranks by calls of its own, has done with it.                 *)
THEOREM AnswersAgree == GapSpec => []WhyNotAgrees
<1>1. GapInv => WhyNotAgrees
  BY WhyNotIs DEF GapInv
<1> QED BY <1>1, GapIsKept, PTL

------------------------------------------------------------------------------
(* The fleet advice.  What is measured of ships is a number or not known.      *)
Measure(x) == x = Nil \/ x \in Int

LEMMA WeighedIs ==
    ASSUME NEW f, IsFiniteSet(DOMAIN f), \A i \in DOMAIN f : Measure(f[i]), NEW w, \A i \in DOMAIN f : w[i] \in Nat \ {0}
    PROVE  /\ Measure(Weighed(f, w))
           /\ (\E i \in DOMAIN f : f[i] # Nil) => Weighed(f, w) \in Int
<1> DEFINE known == {i \in DOMAIN f : f[i] # Nil}
           terms == [i \in known |-> w[i] * f[i]]
           parts == [i \in known |-> w[i]]
<1>1. Weighed(f, w) = IF known = {} THEN Nil ELSE SumFunction(terms) \div SumFunction(parts)
  BY DEF Weighed
<1>2. IsFiniteSet(known)
  BY FS_Subset
<1>3. \A i \in known : w[i] \in Nat \ {0} /\ f[i] \in Int
  BY DEF Measure
<1>4. SumFunction(terms) \in Int
  <2>1. DOMAIN terms = known /\ \A i \in known : terms[i] \in Int
    BY <1>3
  <2> HIDE DEF terms, known
  <2> QED BY <1>2, <2>1, TotalIsInt
<1>5. SumFunction(parts) \in Nat /\ (known # {} => SumFunction(parts) # 0)
  <2>1. DOMAIN parts = known /\ \A i \in known : parts[i] \in Nat /\ parts[i] # 0
    BY <1>3
  <2> HIDE DEF parts, known
  <2>2. SumFunction(parts) \in Nat
    BY <1>2, <2>1, TotalIsNat
  <2>3. \A i \in known : parts[i] <= SumFunction(parts)
    BY <1>2, <2>1, TotalIsAtLeastATerm
  <2> QED BY <2>1, <2>2, <2>3
<1> HIDE DEF terms, parts
<1>6. known # {} => SumFunction(terms) \div SumFunction(parts) \in Int
  BY <1>4, <1>5
<1> QED BY <1>1, <1>6 DEF Measure

LEMMA MeanIs ==
    ASSUME NEW f, IsFiniteSet(DOMAIN f), \A i \in DOMAIN f : Measure(f[i])
    PROVE  /\ Measure(Mean(f))
           /\ (\E i \in DOMAIN f : f[i] # Nil) => Mean(f) \in Int
<1> DEFINE ones == [i \in DOMAIN f |-> 1]
<1>1. Mean(f) = Weighed(f, ones) /\ \A i \in DOMAIN f : ones[i] \in Nat \ {0}
  BY DEF Mean
<1> HIDE DEF ones
<1> QED BY <1>1, WeighedIs

LEMMA KnownIs == ASSUME NEW x, Measure(x) PROVE KnownOr0(x) \in Int
  BY DEF Measure, KnownOr0
LEMMA LackIs == ASSUME NEW x, Measure(x) PROVE Measure(Lack(x))
  BY DEF Measure, Lack

LEMMA MeanOfFour ==
    ASSUME NEW a, NEW b, NEW c, NEW d, Measure(a), Measure(b), Measure(c), Measure(d)
    PROVE  KnownOr0(Mean(<<a, b, c, d>>)) \in Int
<1>1. DOMAIN <<a, b, c, d>> = 1..4 /\ \A i \in 1..4 : Measure(<<a, b, c, d>>[i])
  OBVIOUS
<1>2. IsFiniteSet(1..4)
  <2>1. ASSUME NEW n \in Nat PROVE IsFiniteSet(1..n)
    BY FS_Interval
  <2> QED BY <2>1
<1>3. Measure(Mean(<<a, b, c, d>>))
  BY <1>1, <1>2, MeanIs
<1> QED BY <1>3, KnownIs

LEMMA PairIsFinite == ASSUME NEW a, NEW b PROVE IsFiniteSet({a, b})
<1>1. IsFiniteSet({a})
  BY FS_Singleton
<1>2. IsFiniteSet({a} \cup {b})
  BY <1>1, FS_AddElement
<1>3. {a} \cup {b} = {a, b}
  OBVIOUS
<1> QED BY <1>2, <1>3
LEMMA MaxOfTwo == ASSUME NEW a \in Int, NEW b \in Int PROVE Max({a, b}) \in Int /\ a <= Max({a, b}) /\ b <= Max({a, b})
<1>1. {a, b} \subseteq Int /\ {a, b} # {} /\ IsFiniteSet({a, b})
  BY PairIsFinite
<1>2. Max({a, b}) \in {a, b} /\ \A x \in {a, b} : x <= Max({a, b})
  BY <1>1, ExtremesExist
<1> QED BY <1>2

LEMMA MinIsInt == ASSUME NEW a \in Int, NEW b \in Int PROVE Min({a, b}) \in Int
  BY MinOfTwo

LEMMA CloseIs ==
    ASSUME NEW a, NEW b, Measure(a), Measure(b), NEW scale \in Nat \ {0}
    PROVE  Measure(Close(a, b, scale)) /\ (a # Nil /\ b # Nil => Close(a, b, scale) # Nil)
<1>1. CASE a = Nil \/ b = Nil
  BY <1>1 DEF Close, Measure
<1>2. CASE ~(a = Nil \/ b = Nil)
  <2> DEFINE off == 100 - (100 * (IF a > b THEN a - b ELSE b - a)) \div scale
  <2>1. a \in Int /\ b \in Int
    BY <1>2 DEF Measure
  <2>2. 100 * (IF a > b THEN a - b ELSE b - a) \in Int
    BY <2>1
  <2>3. off \in Int
    BY <2>2
  <2>4. Close(a, b, scale) = Max({0, off})
    BY <1>2 DEF Close
  <2> HIDE DEF off
  <2>5. Max({0, off}) \in Int
    BY <2>3, MaxOfTwo
  <2>6. Nil \notin Int
    BY FleetAssumption
  <2> QED BY <2>4, <2>5, <2>6 DEF Measure
<1> QED BY <1>1, <1>2

LEMMA CloseOfIs == ASSUME NEW a, NEW b, Measure(a), Measure(b) PROVE Measure(CloseOf(a, b))
<1>1. CASE a = Nil \/ b = Nil
  BY <1>1 DEF CloseOf, Measure
<1>2. CASE ~(a = Nil \/ b = Nil)
  <2> DEFINE S == {a, b, 1}
  <2>1. S \subseteq Int /\ S # {} /\ 1 \in S
    BY <1>2 DEF Measure
  <2>5. IsFiniteSet(S)
    BY ThreeAreFinite
  <2>2. CloseOf(a, b) = Close(a, b, Max(S))
    BY <1>2 DEF CloseOf
  <2> HIDE DEF S
  <2>3. Max(S) \in Int /\ 1 <= Max(S)
    BY <2>1, <2>5, ExtremesExist
  <2>4. Max(S) \in Nat \ {0}
    BY <2>3
  <2> QED BY <2>2, <2>4, CloseIs
<1> QED BY <1>1, <1>2

------------------------------------------------------------------------------
\* A request that is answered.
Asked(r, o) == r \in Scans /\ o \in Orders /\ ~SelectionRefused(o)

LEMMA SelectedAre ==
    ASSUME NEW r, NEW o, Asked(r, o)
    PROVE  /\ IsFiniteSet(Located(r, o)) /\ IsFiniteSet(Resolved(r, o)) /\ Resolved(r, o) \subseteq Located(r, o)
           /\ \A i \in Located(r, o) :
                 /\ i \in DOMAIN Selections(o) /\ Selections(o)[i].count \in Nat \ {0}
                 /\ HullOf(r, Selections(o)[i]) \in DOMAIN r.hulls
                 /\ Fitting(r, Selections(o)[i]) \in FleetShips(r)
<1>1. Located(r, o) \subseteq DOMAIN Selections(o) /\ Resolved(r, o) \subseteq Located(r, o)
  BY DEF Located, Resolved
<1>2. IsFiniteSet(DOMAIN Selections(o)) /\ \A i \in DOMAIN Selections(o) : Selections(o)[i].count \in Int
  BY OrdersAssumption DEF Asked, Selections
<1>3. IsFiniteSet(Located(r, o)) /\ IsFiniteSet(Resolved(r, o))
  BY <1>1, <1>2, FS_Subset
<1>4. ASSUME NEW i \in Located(r, o)
      PROVE  /\ Selections(o)[i].count \in Nat \ {0}
             /\ HullOf(r, Selections(o)[i]) \in DOMAIN r.hulls
             /\ Fitting(r, Selections(o)[i]) \in FleetShips(r)
  <2> DEFINE s == Selections(o)[i]
  <2>1. s.count \in Int /\ ~(s.count < 1)
    BY <1>1, <1>2, <1>4 DEF Asked, SelectionRefused
  <2>2. HullOf(r, s) # Nil
    BY <1>4 DEF Located
  <2>3. CASE s.variant = Nil
    <3>1. s.hull \in DOMAIN r.hulls /\ HullOf(r, s) = s.hull /\ Fitting(r, s) = r.hulls[s.hull]
      BY <2>2, <2>3 DEF HullOf, Fitting
    <3> QED BY <2>1, <3>1 DEF FleetShips, Range
  <2>4. CASE s.variant # Nil
    <3>1. /\ s.variant \in DOMAIN r.variants /\ r.variants[s.variant].hull \in DOMAIN r.hulls
          /\ HullOf(r, s) = r.variants[s.variant].hull /\ Fitting(r, s) = r.variants[s.variant]
      BY <2>2, <2>4 DEF HullOf, Fitting
    <3> QED BY <2>1, <3>1 DEF FleetShips, Range
  <2> QED BY <2>3, <2>4
<1> QED BY <1>1, <1>3, <1>4

LEMMA ShipsAre ==
    ASSUME NEW r \in Scans
    PROVE  /\ \A x \in FleetShips(r) : IsShip(x)
           /\ \A x, y \in FleetShips(r), a \in Axes : DOMAIN x.posture[a] = DOMAIN y.posture[a]
           /\ \A h \in DOMAIN r.hulls : h \in Nat /\ r.hulls[h] \in FleetShips(r) /\ IsShip(r.hulls[h])
           /\ \A h \in DOMAIN r.hulls :
                 IsFiniteSet(r.hulls[h].traits) /\ Measure(r.hulls[h].speed) /\ Measure(r.hulls[h].burn) /\ Measure(r.hulls[h].sensor)
<1>1. \A h \in DOMAIN r.hulls : r.hulls[h] \in FleetShips(r)
  BY DEF FleetShips, Range
<1>2. \A x : Counted(x) => Measure(x)
  BY DEF Counted, Measure
<1>3. \A h \in DOMAIN r.hulls : Counted(r.hulls[h].speed) /\ Counted(r.hulls[h].burn) /\ Counted(r.hulls[h].sensor)
  BY ScansAssumption
<1> QED BY <1>1, <1>2, <1>3, ScansAssumption

LEMMA CopiesAre ==
    ASSUME NEW r, NEW o, Asked(r, o), NEW S, S \subseteq Located(r, o)
    PROVE  IsFiniteSet(S) /\ DOMAIN CopiesOf(o, S) = S /\ \A i \in S : CopiesOf(o, S)[i] \in Nat \ {0}
<1>1. IsFiniteSet(S)
  BY SelectedAre, FS_Subset
<1>2. \A i \in S : Selections(o)[i].count \in Nat \ {0}
  BY SelectedAre
<1> QED BY <1>1, <1>2 DEF CopiesOf

\* A measure over selected ships, each counted as often as it is selected.
LEMMA OverSelectionIs ==
    ASSUME NEW r, NEW o, Asked(r, o), NEW f, DOMAIN f \subseteq Located(r, o), \A i \in DOMAIN f : Measure(f[i])
    PROVE  /\ Measure(Weighed(f, CopiesOf(o, DOMAIN f)))
           /\ (\E i \in DOMAIN f : f[i] # Nil) => Weighed(f, CopiesOf(o, DOMAIN f)) \in Int
<1>1. IsFiniteSet(DOMAIN f) /\ \A i \in DOMAIN f : CopiesOf(o, DOMAIN f)[i] \in Nat \ {0}
  BY CopiesAre
<1> QED BY <1>1, WeighedIs

LEMMA PostureIs ==
    ASSUME NEW r, NEW o, Asked(r, o), NEW a \in Axes, NEW h \in DOMAIN r.hulls, NEW l \in DOMAIN r.hulls[h].posture[a],
           Resolved(r, o) # {}
    PROVE  Posture(r, o, a, l) \in Int
<1> DEFINE f == [i \in Resolved(r, o) |-> Fitting(r, Selections(o)[i]).posture[a][l]]
<1>1. Posture(r, o, a, l) = Weighed(f, CopiesOf(o, DOMAIN f))
  BY DEF Posture
<1>2. ASSUME NEW i \in Resolved(r, o) PROVE f[i] \in Int
  <2>1. Fitting(r, Selections(o)[i]) \in FleetShips(r) /\ r.hulls[h] \in FleetShips(r)
    BY SelectedAre, ShipsAre DEF Asked
  <2>2. l \in DOMAIN Fitting(r, Selections(o)[i]).posture[a] /\ IsShip(Fitting(r, Selections(o)[i]))
    BY <2>1, ShipsAre DEF Asked
  <2> QED BY <2>2 DEF IsShip
<1>3. Nil \notin Int
  BY FleetAssumption
<1>4. DOMAIN f \subseteq Located(r, o) /\ (\A i \in DOMAIN f : Measure(f[i])) /\ \E i \in DOMAIN f : f[i] # Nil
  <2>1. DOMAIN f = Resolved(r, o) /\ Resolved(r, o) \subseteq Located(r, o)
    BY SelectedAre
  <2> HIDE DEF f
  <2> QED BY <1>2, <1>3, <2>1 DEF Measure
<1> HIDE DEF f
<1> QED BY <1>1, <1>4, OverSelectionIs

LEMMA AxisMatchIs ==
    ASSUME NEW r, NEW o, Asked(r, o), NEW a \in Axes, NEW h \in DOMAIN r.hulls
    PROVE  Measure(AxisMatch(r, o, a, h))
<1> DEFINE own == r.hulls[h].posture[a]
           whole == [l \in DOMAIN own |-> Posture(r, o, a, l)]
           shared == [l \in DOMAIN own |-> Min({Posture(r, o, a, l), own[l]})]
           all == SumFunction(whole)
           ratio == (100 * SumFunction(shared)) \div Max({1, all})
<1>1. CASE Resolved(r, o) = {}
  BY <1>1 DEF AxisMatch, Measure
<1>2. CASE Resolved(r, o) # {}
  <2>1. AxisMatch(r, o, a, h) = Min({100, ratio})
    BY <1>2 DEF AxisMatch
  <2>2. IsShip(r.hulls[h])
    BY ShipsAre DEF Asked
  <2>3. IsFiniteSet(DOMAIN own) /\ \A l \in DOMAIN own : own[l] \in Nat
    BY <2>2 DEF IsShip
  <2>4. \A l \in DOMAIN own : Posture(r, o, a, l) \in Int
    BY <1>2, PostureIs
  <2>5. \A l \in DOMAIN own : own[l] \in Int /\ whole[l] \in Int /\ shared[l] \in Int
    <3> HIDE DEF own
    <3>1. \A l \in DOMAIN own : Min({Posture(r, o, a, l), own[l]}) \in Int
      BY <2>3, <2>4, MinIsInt
    <3> QED BY <2>3, <2>4, <3>1
  <2>6. DOMAIN whole = DOMAIN own /\ DOMAIN shared = DOMAIN own
    OBVIOUS
  <2> HIDE DEF whole, shared, own
  <2>7. all \in Int /\ SumFunction(shared) \in Int
    BY <2>3, <2>5, <2>6, TotalIsInt
  <2> HIDE DEF all
  <2>8. Max({1, all}) \in Int /\ 1 <= Max({1, all})
    BY <2>7, MaxOfTwo
  <2>9. 100 * SumFunction(shared) \in Int /\ Max({1, all}) \in Nat \ {0}
    BY <2>7, <2>8
  <2>10. ratio \in Int
    BY <2>9
  <2> HIDE DEF ratio
  <2>11. Min({100, ratio}) \in Int
    BY <2>10, MinIsInt
  <2> QED BY <2>1, <2>11 DEF Measure
<1> QED BY <1>1, <1>2

LEMMA OfSelectionIs ==
    ASSUME NEW r, NEW o, Asked(r, o), NEW field \in {"speed", "burn", "sensor"}
    PROVE  /\ DOMAIN OfSelection(r, o, field) = Located(r, o) /\ \A i \in Located(r, o) : Measure(OfSelection(r, o, field)[i])
           /\ Measure(Weighed(OfSelection(r, o, field), CopiesOf(o, Located(r, o))))
<1>1. DOMAIN OfSelection(r, o, field) = Located(r, o)
  BY DEF OfSelection
<1>2. ASSUME NEW i \in Located(r, o) PROVE Measure(OfSelection(r, o, field)[i])
  <2>1. PICK h \in DOMAIN r.hulls : h = HullOf(r, Selections(o)[i])
    BY SelectedAre
  <2>2. OfSelection(r, o, field)[i] = r.hulls[h][field]
    BY <2>1 DEF OfSelection
  <2>3. Measure(r.hulls[h].speed) /\ Measure(r.hulls[h].burn) /\ Measure(r.hulls[h].sensor)
    BY ShipsAre DEF Asked
  <2> QED BY <2>2, <2>3
<1> QED BY <1>1, <1>2, OverSelectionIs

LEMMA SlowestBurnIs == ASSUME NEW r, NEW o, Asked(r, o) PROVE Measure(SlowestBurn(r, o))
<1> DEFINE f == OfSelection(r, o, "burn")
           known == Range(f) \ {Nil}
<1>1. SlowestBurn(r, o) = IF known = {} THEN Nil ELSE Min(known)
  BY DEF SlowestBurn
<1>2. IsFiniteSet(DOMAIN f) /\ \A i \in DOMAIN f : Measure(f[i])
  <2>1. DOMAIN f = Located(r, o) /\ \A i \in Located(r, o) : Measure(f[i])
    BY OfSelectionIs
  <2>2. IsFiniteSet(Located(r, o))
    BY SelectedAre
  <2> HIDE DEF f
  <2> QED BY <2>1, <2>2
<1> HIDE DEF f
<1>3. known \subseteq Int
  BY <1>2 DEF Range, Measure
<1>4. IsFiniteSet(known)
  <2>1. IsFiniteSet({f[i] : i \in DOMAIN f})
    BY <1>2, ImageIsFinite
  <2>2. known \subseteq {f[i] : i \in DOMAIN f}
    BY DEF Range
  <2> HIDE DEF known
  <2> QED BY <2>1, <2>2, FS_Subset
<1> HIDE DEF known
<1>5. known # {} => Min(known) \in Int
  BY <1>3, <1>4, ExtremesExist
<1> QED BY <1>1, <1>5 DEF Measure

LEMMA RangesAre == ASSUME NEW r, NEW o, Asked(r, o) PROVE Measure(Weighed(Ranges(r, o), CopiesOf(o, Located(r, o))))
<1> DEFINE f == Ranges(r, o)
<1>1. DOMAIN f = Located(r, o)
  BY DEF Ranges
<1>2. ASSUME NEW i \in Located(r, o) PROVE Measure(f[i])
  <2>1. PICK x \in FleetShips(r) : x = Fitting(r, Selections(o)[i])
    BY SelectedAre
  <2>2. Counted(x.range)
    BY ShipsAre DEF IsShip, Asked
  <2> QED BY <2>1, <2>2 DEF Ranges, Counted, Measure
<1> HIDE DEF f
<1>3. Measure(Weighed(f, CopiesOf(o, DOMAIN f)))
  BY <1>1, <1>2, OverSelectionIs
<1> QED BY <1>1, <1>3 DEF f

LEMMA MatchesAre ==
    ASSUME NEW r, NEW o, Asked(r, o), NEW h \in DOMAIN r.hulls
    PROVE  /\ Measure(SpeedMatch(r, o, h)) /\ Measure(BurnMatch(r, o, h)) /\ Measure(RangeMatch(r, o, h))
           /\ Measure(SensorMatch(r, o, h)) /\ Measure(PhaseMatch(r, o, h))
<1> DEFINE speeds == Weighed(OfSelection(r, o, "speed"), CopiesOf(o, Located(r, o)))
           sensors == Weighed(OfSelection(r, o, "sensor"), CopiesOf(o, Located(r, o)))
           ranges == Weighed(Ranges(r, o), CopiesOf(o, Located(r, o)))
           x == r.hulls[h]
<1>1. Measure(x.speed) /\ Measure(x.burn) /\ Measure(x.sensor) /\ Measure(x.range)
  <2>1. Measure(x.speed) /\ Measure(x.burn) /\ Measure(x.sensor) /\ IsShip(x)
    BY ShipsAre DEF Asked
  <2>2. Counted(x.range)
    BY <2>1 DEF IsShip
  <2> QED BY <2>1, <2>2 DEF Counted, Measure
<1>2. Measure(speeds) /\ Measure(sensors) /\ Measure(ranges) /\ Measure(SlowestBurn(r, o))
  BY OfSelectionIs, RangesAre, SlowestBurnIs
<1>3. /\ SpeedMatch(r, o, h) = Close(x.speed, speeds, 120)
      /\ BurnMatch(r, o, h) = CloseOf(x.burn, SlowestBurn(r, o))
      /\ RangeMatch(r, o, h) = CloseOf(x.range, ranges)
      /\ SensorMatch(r, o, h) = CloseOf(x.sensor, sensors)
  BY DEF SpeedMatch, BurnMatch, RangeMatch, SensorMatch
<1>4. Measure(PhaseMatch(r, o, h))
  BY DEF PhaseMatch, Measure
<1> HIDE DEF speeds, sensors, ranges, x
<1>5. Measure(Close(x.speed, speeds, 120))
  <2>1. 120 \in Nat \ {0}
    OBVIOUS
  <2> QED BY <1>1, <1>2, <2>1, CloseIs
<1>6. Measure(CloseOf(x.burn, SlowestBurn(r, o))) /\ Measure(CloseOf(x.range, ranges)) /\ Measure(CloseOf(x.sensor, sensors))
  BY <1>1, <1>2, CloseOfIs
<1> QED BY <1>3, <1>4, <1>5, <1>6

LEMMA WhatIsAsked ==
    /\ Mobility \in Capabilities
    /\ \A f \in DOMAIN FocusNeeds : FocusNeeds[f] \subseteq Capabilities
    /\ \A s \in ScenarioProfiles : \A t \in s.targets : t.need \in Capabilities
<1> DEFINE targeted == [s \in ScenarioProfiles |-> {t.need : t \in s.targets}]
           sets == Range(FocusNeeds) \cup {targeted[s] : s \in ScenarioProfiles} \cup {{Mobility}}
<1>1. Capabilities = UNION sets
  BY DEF Capabilities
<1>2. \A f \in DOMAIN FocusNeeds : FocusNeeds[f] \in sets
  BY DEF Range
<1>3. \A s \in ScenarioProfiles : targeted[s] \in sets
  OBVIOUS
<1>4. \A s \in ScenarioProfiles : \A t \in s.targets : t.need \in targeted[s]
  OBVIOUS
<1> HIDE DEF sets, targeted
<1>5. \A f \in DOMAIN FocusNeeds : FocusNeeds[f] \subseteq Capabilities
  BY <1>1, <1>2
<1>6. ASSUME NEW s \in ScenarioProfiles, NEW t \in s.targets PROVE t.need \in Capabilities
  <2>1. targeted[s] \in sets /\ t.need \in targeted[s]
    BY <1>3, <1>4
  <2> QED BY <1>1, <2>1
<1>7. Mobility \in Capabilities
  <2>1. {Mobility} \in sets
    BY DEF sets
  <2> QED BY <1>1, <2>1
<1>8. \A s \in ScenarioProfiles : \A t \in s.targets : t.need \in Capabilities
  BY <1>6
<1> QED BY <1>5, <1>7, <1>8

LEMMA EvidenceIs ==
    ASSUME NEW r \in Scans, NEW x \in FleetShips(r), NEW n \in Capabilities, x.cap[n] # Nil
    PROVE  x.cap[n].score \in Nat /\ x.cap[n].sure \in Nat
  BY ShipsAre DEF IsShip

LEMMA MobileIs ==
    ASSUME NEW r, NEW o, Asked(r, o), NEW field \in {"score", "sure"}
    PROVE  /\ Measure(Mobile(r, o, field))
           /\ (\E i \in Resolved(r, o) : Fitting(r, Selections(o)[i]).cap[Mobility] # Nil) => Mobile(r, o, field) \in Int
           /\ Mobile(r, o, field) # Nil => \E i \in Resolved(r, o) : Fitting(r, Selections(o)[i]).cap[Mobility] # Nil
<1> DEFINE known == {i \in Resolved(r, o) : Fitting(r, Selections(o)[i]).cap[Mobility] # Nil}
           f == [i \in known |-> Fitting(r, Selections(o)[i]).cap[Mobility][field]]
<1>1. Mobile(r, o, field) = Weighed(f, CopiesOf(o, DOMAIN f)) /\ DOMAIN f = known
  BY DEF Mobile
<1>2. known \subseteq Located(r, o)
  BY SelectedAre
<1>3. ASSUME NEW i \in known PROVE f[i] \in Int
  <2>1. PICK x \in FleetShips(r) : x = Fitting(r, Selections(o)[i])
    BY SelectedAre
  <2>2. x.cap[Mobility] # Nil
    BY <1>3, <2>1
  <2>4. Mobility \in Capabilities
    BY WhatIsAsked
  <2>3. x.cap[Mobility].score \in Nat /\ x.cap[Mobility].sure \in Nat
    BY <2>2, <2>4, EvidenceIs DEF Asked
  <2> QED BY <2>1, <2>3
<1>4. Nil \notin Int
  BY FleetAssumption
<1>5. known = {} => Weighed(f, CopiesOf(o, DOMAIN f)) = Nil
  BY DEF Weighed
<1>6. known # {} <=> \E i \in Resolved(r, o) : Fitting(r, Selections(o)[i]).cap[Mobility] # Nil
  OBVIOUS
<1> HIDE DEF f, known
<1>7. Measure(Weighed(f, CopiesOf(o, DOMAIN f))) /\ (known # {} => Weighed(f, CopiesOf(o, DOMAIN f)) \in Int)
  <2>1. \A i \in DOMAIN f : Measure(f[i]) /\ f[i] # Nil
    BY <1>1, <1>3, <1>4 DEF Measure
  <2> QED BY <1>1, <1>2, <2>1, OverSelectionIs
<1> QED BY <1>1, <1>5, <1>6, <1>7

LEMMA TotalOfCopies ==
    ASSUME NEW r, NEW o, Asked(r, o), NEW S, S \subseteq Located(r, o)
    PROVE  SumFunction([i \in S |-> Selections(o)[i].count]) \in Nat /\ (S # {} => SumFunction([i \in S |-> Selections(o)[i].count]) # 0)
<1> DEFINE f == [i \in S |-> Selections(o)[i].count]
<1>1. IsFiniteSet(DOMAIN f) /\ \A i \in DOMAIN f : f[i] \in Nat /\ f[i] # 0
  BY CopiesAre DEF CopiesOf
<1>2. DOMAIN f = S
  OBVIOUS
<1> HIDE DEF f
<1>3. SumFunction(f) \in Nat /\ \A i \in DOMAIN f : f[i] <= SumFunction(f)
  BY <1>1, TotalIsNat, TotalIsAtLeastATerm
<1>4. S # {} => SumFunction(f) # 0
  BY <1>1, <1>2, <1>3
<1> QED BY <1>3, <1>4 DEF f

LEMMA CompositionIs ==
    ASSUME NEW r, NEW o, Asked(r, o), NEW h \in DOMAIN r.hulls
    PROVE  Composition(r, o, h).score \in Int /\ Composition(r, o, h).sure \in Int
<1> DEFINE own == r.hulls[h].cap[Mobility]
           phase == PhaseMatch(r, o, h)
           sensor == SensorMatch(r, o, h)
           burn == BurnMatch(r, o, h)
           moves == MobileMatch(r, o, own)
           seen == SumFunction([i \in Sensors(r, o) |-> Selections(o)[i].count])
           whole == SumFunction([i \in Resolved(r, o) |-> Selections(o)[i].count])
           a == IF phase = Nil THEN Nil ELSE 100
           b == IF sensor = Nil \/ Sensors(r, o) = {} THEN Nil ELSE (100 * seen) \div whole
           c == IF burn = Nil THEN Nil ELSE 100
           d == IF moves = Nil THEN Nil ELSE (own.sure * Mobile(r, o, "sure")) \div 100
<1>1. Composition(r, o, h).score = KnownOr0(Mean(<<phase, sensor, burn, moves>>)) /\ Composition(r, o, h).sure = KnownOr0(Mean(<<a, b, c, d>>))
  BY DEF Composition, Alike
<1>2. Measure(phase) /\ Measure(sensor) /\ Measure(burn)
  BY MatchesAre
<1>3. own # Nil => own.score \in Nat /\ own.sure \in Nat
  <2>1. r.hulls[h] \in FleetShips(r) /\ Mobility \in Capabilities
    BY ShipsAre, WhatIsAsked DEF Asked
  <2> QED BY <2>1, EvidenceIs DEF Asked
<1>4. moves # Nil => own # Nil /\ Mobile(r, o, "score") # Nil
  BY DEF MobileMatch
<1> HIDE DEF own
<1>5. Measure(moves)
  <2>1. CASE own = Nil \/ Mobile(r, o, "score") = Nil
    BY <2>1 DEF MobileMatch, Measure
  <2>2. CASE ~(own = Nil \/ Mobile(r, o, "score") = Nil)
    <3>1. moves = Close(own.score, Mobile(r, o, "score"), 100)
      BY <2>2 DEF MobileMatch
    <3>2. Measure(own.score) /\ Measure(Mobile(r, o, "score"))
      BY <1>3, <2>2, MobileIs DEF Measure
    <3>3. 100 \in Nat \ {0}
      OBVIOUS
    <3> HIDE DEF moves
    <3> QED BY <3>1, <3>2, <3>3, CloseIs
  <2> QED BY <2>1, <2>2
<1> HIDE DEF phase, sensor, burn, moves
<1>6. Measure(a) /\ Measure(c)
  BY DEF Measure
<1>7. Measure(b)
  <2>1. Sensors(r, o) \subseteq Resolved(r, o) /\ Resolved(r, o) \subseteq Located(r, o)
    BY SelectedAre DEF Sensors
  <2>2. Sensors(r, o) \subseteq Located(r, o) /\ (Sensors(r, o) # {} => Resolved(r, o) # {})
    BY <2>1
  <2>3. seen \in Nat /\ whole \in Nat /\ (Resolved(r, o) # {} => whole # 0)
    BY <2>1, <2>2, TotalOfCopies
  <2> HIDE DEF seen, whole
  <2>4. Sensors(r, o) # {} => (100 * seen) \div whole \in Int
    BY <2>2, <2>3
  <2> QED BY <2>4 DEF Measure
<1>8. Measure(d)
  <2>1. CASE moves = Nil
    BY <2>1 DEF Measure
  <2>2. CASE moves # Nil
    <3>1. \E i \in Resolved(r, o) : Fitting(r, Selections(o)[i]).cap[Mobility] # Nil
      BY <1>4, <2>2, MobileIs
    <3>2. Mobile(r, o, "sure") \in Int
      BY <3>1, MobileIs
    <3>3. own.sure \in Int
      BY <1>3, <1>4, <2>2
    <3>4. own.sure * Mobile(r, o, "sure") \in Int
      BY <3>2, <3>3
    <3>5. (own.sure * Mobile(r, o, "sure")) \div 100 \in Int
      BY <3>4
    <3> QED BY <2>2, <3>5 DEF Measure
  <2> QED BY <2>1, <2>2
<1> HIDE DEF a, b, c, d
<1> QED BY <1>1, <1>2, <1>5, <1>6, <1>7, <1>8, MeanOfFour

LEMMA CohesionIsInt == ASSUME NEW r, NEW o, Asked(r, o), NEW h \in DOMAIN r.hulls PROVE Cohesion(r, o, h) \in Int
<1> DEFINE f == [a \in Axes |-> AxisMatch(r, o, a, h)]
<1>1. DOMAIN f = Axes /\ \A a \in Axes : Measure(f[a])
  BY AxisMatchIs
<1>2. IsFiniteSet(Axes)
  BY ThreeAreFinite DEF Axes
<1>3. Cohesion(r, o, h) = KnownOr0(Mean(f))
  BY DEF Cohesion
<1> HIDE DEF f
<1>4. Measure(Mean(f))
  BY <1>1, <1>2, MeanIs
<1> QED BY <1>3, <1>4, KnownIs

LEMMA FrictionIsInt == ASSUME NEW r, NEW o, Asked(r, o), NEW h \in DOMAIN r.hulls PROVE Friction(r, o, h) \in Int
<1> DEFINE a == Lack(SpeedMatch(r, o, h))
           b == Lack(AxisMatch(r, o, "position", h))
           c == Lack(AxisMatch(r, o, "tempo", h))
           d == Lack(RangeMatch(r, o, h))
<1>1. Measure(a) /\ Measure(d)
  BY MatchesAre, LackIs
<1>2. "position" \in Axes /\ "tempo" \in Axes
  BY DEF Axes
<1>3. Measure(b) /\ Measure(c)
  BY <1>2, AxisMatchIs, LackIs
<1>4. Friction(r, o, h) = KnownOr0(Mean(<<a, b, c, d>>))
  BY DEF Friction
<1> HIDE DEF a, b, c, d
<1> QED BY <1>1, <1>3, <1>4, MeanOfFour

------------------------------------------------------------------------------
\* The needs that are ranked for.
FairNeeds(needs) ==
    /\ IsFiniteSet(needs)
    /\ \A n \in needs : n.need \in Capabilities /\ n.score \in Nat \ {0} /\ n.sure \in Int

LEMMA MetAre ==
    ASSUME NEW r \in Scans, NEW needs, FairNeeds(needs), NEW h \in DOMAIN r.hulls
    PROVE  /\ Met(r, needs, h) \subseteq needs /\ IsFiniteSet(Met(r, needs, h))
           /\ \A n \in Met(r, needs, h) :
                 Answers(r, n, h) \in Nat /\ r.hulls[h].cap[n.need].sure \in Nat /\ n.score \in Nat \ {0} /\ n.sure \in Int
<1>1. Met(r, needs, h) \subseteq needs
  BY DEF Met
<1>2. IsFiniteSet(Met(r, needs, h))
  BY <1>1, FS_Subset DEF FairNeeds
<1>3. ASSUME NEW n \in Met(r, needs, h)
      PROVE  Answers(r, n, h) \in Nat /\ r.hulls[h].cap[n.need].sure \in Nat
  <2>1. r.hulls[h] \in FleetShips(r) /\ n.need \in Capabilities /\ r.hulls[h].cap[n.need] # Nil
    BY <1>1, ShipsAre DEF FairNeeds, Met
  <2>2. r.hulls[h].cap[n.need].score \in Nat /\ r.hulls[h].cap[n.need].sure \in Nat
    BY <2>1, EvidenceIs
  <2> QED BY <2>2 DEF Answers
<1> QED BY <1>1, <1>2, <1>3 DEF FairNeeds

LEMMA SignalIsInt ==
    ASSUME NEW r \in Scans, NEW needs, FairNeeds(needs), NEW h \in DOMAIN r.hulls
    PROVE  Signal(r, needs, h) \in Int
<1> DEFINE S == Met(r, needs, h)
           f == [n \in S |-> n.score * Answers(r, n, h)]
           g == [n \in S |-> n.score]
<1>1. Signal(r, needs, h) = IF S = {} THEN 0 ELSE SumFunction(f) \div SumFunction(g)
  BY DEF Signal
<1>2. /\ IsFiniteSet(DOMAIN f) /\ \A n \in DOMAIN f : f[n] \in Int
      /\ IsFiniteSet(DOMAIN g) /\ (\A n \in DOMAIN g : g[n] \in Nat /\ g[n] # 0) /\ DOMAIN g = S
  <2>1. DOMAIN f = S /\ DOMAIN g = S /\ IsFiniteSet(S)
    BY MetAre
  <2>2. \A n \in S : n.score * Answers(r, n, h) \in Int /\ n.score \in Nat /\ n.score # 0
    BY MetAre
  <2> QED BY <2>1, <2>2
<1> HIDE DEF f, g, S
<1>3. SumFunction(f) \in Int /\ SumFunction(g) \in Nat /\ \A n \in DOMAIN g : g[n] <= SumFunction(g)
  BY <1>2, TotalIsInt, TotalIsNat, TotalIsAtLeastATerm
<1>4. S # {} => SumFunction(g) # 0
  BY <1>2, <1>3
<1>5. S # {} => SumFunction(f) \div SumFunction(g) \in Int
  BY <1>3, <1>4
<1> QED BY <1>1, <1>5

LEMMA PreferenceIsInt == ASSUME NEW owners, NEW asking, NEW approved \in BOOLEAN PROVE Preference[Affinity(owners, asking, approved)] \in Int
<1>1. Affinity(owners, asking, approved) \in {"NATIVE", "APPROVED", "COMMON", "UNALIGNED", "FOREIGN"}
  BY DEF Affinity
<1> QED BY <1>1 DEF Preference

LEMMA SupportScoreIsInt ==
    ASSUME NEW r, NEW o, Asked(r, o), NEW h \in DOMAIN r.hulls, NEW signal \in Int, NEW cohesion \in Int,
           NEW composition, composition.score \in Int
    PROVE  SupportScore(r, o, h, signal, cohesion, composition) \in Int
<1> DEFINE adds == IF Composed THEN 20 * composition.score + 5 * Preference[Access(r, o, h)] ELSE 0
           sum == 65 * signal + 35 * cohesion - 15 * Friction(r, o, h) + adds
           rated == sum \div 100
           most == Min({100, rated})
<1>1. SupportScore(r, o, h, signal, cohesion, composition) = Max({0, most})
  BY DEF SupportScore
<1>2. adds \in Int
  <2>1. Preference[Access(r, o, h)] \in Int
    BY PreferenceIsInt DEF Access
  <2> QED BY <2>1
<1> HIDE DEF adds
<1>3. sum \in Int
  BY <1>2, FrictionIsInt
<1> HIDE DEF sum
<1>4. rated \in Int
  BY <1>3
<1> HIDE DEF rated
<1>5. most \in Int
  BY <1>4, MinIsInt
<1> HIDE DEF most
<1>6. 0 \in Int
  OBVIOUS
<1>7. Max({0, most}) \in Int
  BY <1>5, <1>6, MaxOfTwo, Zenon
<1> QED BY <1>1, <1>7

LEMMA SupportIs ==
    ASSUME NEW r, NEW o, Asked(r, o), NEW needs, FairNeeds(needs), NEW h \in DOMAIN r.hulls, NEW c, c = Support(r, o, needs, h)
    PROVE  /\ c.hull = h /\ c.score \in Int /\ c.sure \in Int
           /\ c.supports = {n.need : n \in Supports(r, needs, h)} /\ c.logistic = {n.logistic : n \in Supports(r, needs, h)}
<1> DEFINE signal == Signal(r, needs, h)
           cohesion == Cohesion(r, o, h)
           composition == Composition(r, o, h)
           f == [n \in Met(r, needs, h) |-> (n.sure * r.hulls[h].cap[n.need].sure) \div 100]
           sure == SumFunction(f) + composition.sure
           score == SupportScore(r, o, h, signal, cohesion, composition)
           part == Cardinality(Met(r, needs, h)) + 1
<1>1. signal \in Int /\ cohesion \in Int /\ composition.score \in Int /\ composition.sure \in Int
  BY SignalIsInt, CohesionIsInt, CompositionIs DEF Asked
<1>2. score \in Int
  <2> HIDE DEF signal, cohesion, composition
  <2> QED BY <1>1, SupportScoreIsInt
<1>3. IsFiniteSet(Met(r, needs, h)) /\ part \in Nat \ {0}
  <2>1. IsFiniteSet(Met(r, needs, h))
    BY MetAre DEF Asked
  <2>2. Cardinality(Met(r, needs, h)) \in Nat
    BY <2>1, FS_CardinalityType
  <2> QED BY <2>1, <2>2
<1>4. SumFunction(f) \in Int
  <2>1. \A n \in Met(r, needs, h) : n.sure * r.hulls[h].cap[n.need].sure \in Int
    BY MetAre DEF Asked
  <2>2. DOMAIN f = Met(r, needs, h) /\ \A n \in Met(r, needs, h) : f[n] \in Int
    BY <2>1
  <2> HIDE DEF f
  <2> QED BY <1>3, <2>2, TotalIsInt
<1>5. sure \in Int
  <2>1. SumFunction(f) \in Int /\ composition.sure \in Int
    BY <1>1, <1>4
  <2> HIDE DEF f, composition
  <2> QED BY <2>1
<1>6. /\ c.hull = h /\ c.score = score /\ c.sure = sure \div part
      /\ c.supports = {n.need : n \in Supports(r, needs, h)} /\ c.logistic = {n.logistic : n \in Supports(r, needs, h)}
  <2>1. \E kind : c = [hull |-> h, score |-> score, sure |-> sure \div part, supports |-> {n.need : n \in Supports(r, needs, h)},
                       logistic |-> {n.logistic : n \in Supports(r, needs, h)}, kind |-> kind]
    BY DEF Support, Contribution
  <2> HIDE DEF score, sure, part
  <2> QED BY <2>1
<1> HIDE DEF sure, part, score
<1>7. sure \div part \in Int
  BY <1>3, <1>5
<1> QED BY <1>2, <1>6, <1>7

LEMMA SupportsAre ==
    ASSUME NEW r, NEW needs, NEW h
    PROVE  Supports(r, needs, h) \subseteq needs
  BY DEF Supports, Met

------------------------------------------------------------------------------
\* A ranking has each of a pool once, the best first.
Ranks(ranked, S) ==
    /\ Cardinality(S) \in Nat /\ ranked \in [1..Cardinality(S) -> S]
    /\ \A c \in S : \E i \in 1..Cardinality(S) : ranked[i] = c
    /\ \A i, j \in 1..Cardinality(S) : i < j => ranked[i] # ranked[j] /\ ranked[i].score >= ranked[j].score

\* A pool in which a hull is once, with numbers to be ranked by.
FairPool(r, S) ==
    /\ IsFiniteSet(S)
    /\ \A c \in S : c.score \in Int /\ c.sure \in Int /\ c.hull \in DOMAIN r.hulls
    /\ \A c, d \in S : c.hull = d.hull => c = d

FleetPool(r, o, needs) ==
    {Support(r, o, needs, h) : h \in {g \in DOMAIN r.hulls : Excluded(r, o, g) = Nil /\ Material(r, needs, g)}}

LEMMA FleetPoolIs ==
    ASSUME NEW r, NEW o, Asked(r, o), NEW needs, FairNeeds(needs)
    PROVE  /\ FairPool(r, FleetPool(r, o, needs))
           /\ \A c \in FleetPool(r, o, needs) :
                 /\ Excluded(r, o, c.hull) = Nil
                 /\ c.supports = {n.need : n \in Supports(r, needs, c.hull)}
                 /\ c.logistic = {n.logistic : n \in Supports(r, needs, c.hull)}
<1> DEFINE H == {g \in DOMAIN r.hulls : Excluded(r, o, g) = Nil /\ Material(r, needs, g)}
           of == [h \in H |-> Support(r, o, needs, h)]
<1>1. FleetPool(r, o, needs) = {of[h] : h \in H}
  BY DEF FleetPool
<1>2. IsFiniteSet(H)
  <2>1. IsFiniteSet(DOMAIN r.hulls) /\ H \subseteq DOMAIN r.hulls
    BY ScansAssumption DEF Asked
  <2> HIDE DEF H
  <2> QED BY <2>1, FS_Subset
<1>3. ASSUME NEW h \in H
      PROVE  /\ of[h].hull = h /\ of[h].score \in Int /\ of[h].sure \in Int
             /\ of[h].supports = {n.need : n \in Supports(r, needs, h)} /\ of[h].logistic = {n.logistic : n \in Supports(r, needs, h)}
             /\ h \in DOMAIN r.hulls /\ Excluded(r, o, h) = Nil
  <2>1. h \in DOMAIN r.hulls /\ Excluded(r, o, h) = Nil /\ of[h] = Support(r, o, needs, h)
    OBVIOUS
  <2> HIDE DEF of, H
  <2> QED BY <2>1, SupportIs
<1> HIDE DEF of, H
<1>4. IsFiniteSet({of[h] : h \in H})
  BY <1>2, ImageIsFinite
<1>5. \A c \in {of[h] : h \in H} : c.hull \in H /\ c = of[c.hull]
  BY <1>3
<1>6. FairPool(r, {of[h] : h \in H})
  BY <1>3, <1>4, <1>5 DEF FairPool
<1>7. ASSUME NEW c \in {of[h] : h \in H}
      PROVE  /\ Excluded(r, o, c.hull) = Nil
             /\ c.supports = {n.need : n \in Supports(r, needs, c.hull)}
             /\ c.logistic = {n.logistic : n \in Supports(r, needs, c.hull)}
  <2>1. PICK h \in H : c = of[h] /\ h = c.hull
    BY <1>5
  <2> QED BY <1>3, <2>1
<1> QED BY <1>1, <1>6, <1>7

LEMMA FleetRankingIs ==
    ASSUME NEW r, NEW o, Asked(r, o), NEW needs, FairNeeds(needs)
    PROVE  Ranks(FleetRanking(r, o, needs), FleetPool(r, o, needs))
<1> DEFINE pool == FleetPool(r, o, needs)
           before == {p \in pool \X pool : Exceeds(FleetOrder(p[1]), FleetOrder(p[2]))}
           key == [c \in pool |-> FleetOrder(c)]
<1>1. FleetRanking(r, o, needs) = InOrder(pool, before)
  BY DEF FleetRanking, FleetPool
<1>2. FairPool(r, pool)
  BY FleetPoolIs
<1> HIDE DEF pool
<1>3. ASSUME NEW c \in pool
      PROVE  /\ c.score \in Int /\ c.sure \in Int /\ c.hull \in Nat /\ -c.hull \in Int
             /\ key[c] = <<c.score, c.sure, -c.hull>> /\ key[c] \in [1..3 -> Int]
  <2>1. c.score \in Int /\ c.sure \in Int /\ c.hull \in Nat
    BY <1>2, ScansAssumption DEF FairPool, Asked
  <2>2. -c.hull \in Int
    BY <2>1
  <2>3. <<c.score, c.sure, -c.hull>> \in [1..3 -> Int]
    BY <2>1, <2>2, ExceedsOfThree
  <2> QED BY <2>1, <2>2, <2>3 DEF FleetOrder
<1>4. \A c, d \in pool : <<c, d>> \in before <=> Exceeds(key[c], key[d])
  OBVIOUS
<1>5. key \in [pool -> [1..3 -> Int]]
  <2>1. \A c \in pool : key[c] \in [1..3 -> Int]
    BY <1>3
  <2> QED BY <2>1
<1> HIDE DEF before, key
<1>6. \A c, d \in pool : key[c] = key[d] => c = d
  <2>1. \A c, d \in pool : key[c] = key[d] => -c.hull = -d.hull
    BY <1>3
  <2>2. \A c, d \in pool : -c.hull = -d.hull => c.hull = d.hull
    BY <1>3
  <2> QED BY <1>2, <2>1, <2>2 DEF FairPool
<1>7. Ordered(pool, before)
  <2>1. \A k \in Nat : key \in [pool -> [1..k -> Int]] => Ordered(pool, before)
    BY <1>2, <1>4, <1>6, ReasonsOrder DEF FairPool
  <2> QED BY <1>5, <2>1
<1>8. \A c, d \in pool : <<c, d>> \in before => c # d /\ c.score >= d.score
  <2> SUFFICES ASSUME NEW c \in pool, NEW d \in pool, <<c, d>> \in before PROVE c # d /\ c.score >= d.score
    OBVIOUS
  <2>1. c # d
    BY <1>7 DEF Ordered
  <2>2. Exceeds(<<c.score, c.sure, -c.hull>>, <<d.score, d.sure, -d.hull>>)
    BY <1>3, <1>4
  <2>3. c.score > d.score \/ c.score = d.score
    <3>1. PICK x \in Int, y \in Int, z \in Int : x = c.score /\ y = c.sure /\ z = -c.hull
      BY <1>3
    <3>2. PICK u \in Int, v \in Int, w \in Int : u = d.score /\ v = d.sure /\ w = -d.hull
      BY <1>3
    <3>3. Exceeds(<<x, y, z>>, <<u, v, w>>)
      BY <2>2, <3>1, <3>2
    <3>4. x > u \/ x = u
      BY <3>3, ExceedsOfThree
    <3> QED BY <3>1, <3>2, <3>4
  <2> QED BY <1>3, <2>1, <2>3
<1>9. /\ Cardinality(pool) \in Nat
      /\ InOrder(pool, before) \in [1..Cardinality(pool) -> pool]
      /\ \A c \in pool : \E i \in 1..Cardinality(pool) : InOrder(pool, before)[i] = c
      /\ \A i, j \in 1..Cardinality(pool) : i < j => <<InOrder(pool, before)[i], InOrder(pool, before)[j]>> \in before
  BY <1>7, InOrderIsSorted
<1>10. Ranks(InOrder(pool, before), pool)
  BY <1>8, <1>9 DEF Ranks
<1> QED BY <1>1, <1>10 DEF pool

\* What is kept of a ranking is ranked.
LEMMA KeptIs ==
    ASSUME NEW S, IsFiniteSet(S), NEW ranked, Ranks(ranked, S), NEW some, some \subseteq S
    PROVE  Ranks(Kept(ranked, some), some)
<1> DEFINE D == DOMAIN ranked
           rising == {q \in D \X D : q[1] < q[2]}
           before == {<<ranked[p[1]], ranked[p[2]]>> : p \in rising}
<1>1. Kept(ranked, some) = InOrder(some, before)
  BY DEF Kept
<1>2. D = 1..Cardinality(S) /\ D \subseteq Int
  BY DEF Ranks
<1>3. \A x, y : <<x, y>> \in before <=> \E i, j \in D : i < j /\ ranked[i] = x /\ ranked[j] = y
  <2>1. \A i, j \in D : i < j => <<i, j>> \in rising /\ <<i, j>>[1] = i /\ <<i, j>>[2] = j
    OBVIOUS
  <2>2. \A p \in rising : p[1] \in D /\ p[2] \in D /\ p[1] < p[2]
    OBVIOUS
  <2> HIDE DEF rising, D
  <2>3. ASSUME NEW x, NEW y, <<x, y>> \in before PROVE \E i, j \in D : i < j /\ ranked[i] = x /\ ranked[j] = y
    <3>1. PICK p \in rising : <<x, y>> = <<ranked[p[1]], ranked[p[2]]>>
      BY <2>3
    <3>2. x = ranked[p[1]] /\ y = ranked[p[2]]
      BY <3>1
    <3> QED BY <2>2, <3>2
  <2>4. ASSUME NEW i \in D, NEW j \in D, i < j PROVE <<ranked[i], ranked[j]>> \in before
    <3>1. <<i, j>> \in rising /\ <<ranked[i], ranked[j]>> = <<ranked[<<i, j>>[1]], ranked[<<i, j>>[2]]>>
      BY <2>1, <2>4
    <3> QED BY <3>1
  <2> HIDE DEF before
  <2>5. ASSUME NEW x, NEW y, \E i, j \in D : i < j /\ ranked[i] = x /\ ranked[j] = y PROVE <<x, y>> \in before
    <3>1. PICK i \in D, j \in D : i < j /\ ranked[i] = x /\ ranked[j] = y
      BY <2>5
    <3> QED BY <2>4, <3>1
  <2>6. ASSUME NEW x, NEW y PROVE <<x, y>> \in before <=> \E i, j \in D : i < j /\ ranked[i] = x /\ ranked[j] = y
    <3>1. <<x, y>> \in before => \E i, j \in D : i < j /\ ranked[i] = x /\ ranked[j] = y
      BY <2>3
    <3>2. (\E i, j \in D : i < j /\ ranked[i] = x /\ ranked[j] = y) => <<x, y>> \in before
      BY <2>5
    <3> QED BY <3>1, <3>2
  <2> QED BY <2>6
<1> HIDE DEF before, D, rising
<1>4. PICK place \in [S -> D] : \A c \in S : ranked[place[c]] = c
  <2>1. \A c \in S : \E i \in D : ranked[i] = c
    BY <1>2 DEF Ranks
  <2> DEFINE place == [c \in S |-> CHOOSE i \in D : ranked[i] = c]
  <2>2. \A c \in S : place[c] \in D /\ ranked[place[c]] = c
    BY <2>1
  <2> QED BY <2>2
<1>5. \A i, j \in D : ranked[i] = ranked[j] => i = j
  BY <1>2 DEF Ranks
<1>6. \A i \in D : place[ranked[i]] = i
  <2>1. \A i \in D : ranked[i] \in S
    BY <1>2 DEF Ranks
  <2> QED BY <1>4, <1>5, <2>1
<1>7. \A x, y \in S : <<x, y>> \in before <=> place[x] < place[y]
  <2> SUFFICES ASSUME NEW x \in S, NEW y \in S PROVE <<x, y>> \in before <=> place[x] < place[y]
    OBVIOUS
  <2>1. ASSUME <<x, y>> \in before PROVE place[x] < place[y]
    <3>1. PICK i \in D, j \in D : i < j /\ ranked[i] = x /\ ranked[j] = y
      BY <1>3, <2>1
    <3> QED BY <1>6, <3>1
  <2>2. ASSUME place[x] < place[y] PROVE <<x, y>> \in before
    <3>1. place[x] \in D /\ place[y] \in D /\ ranked[place[x]] = x /\ ranked[place[y]] = y
      BY <1>4
    <3> QED BY <1>3, <2>2, <3>1
  <2> QED BY <2>1, <2>2
<1>8. \A x \in S : place[x] \in Int
  <2>1. \A x \in S : place[x] \in D
    BY <1>4
  <2> QED BY <1>2, <2>1
<1>9. Ordered(some, before)
  <2>1. IsFiniteSet(some)
    BY FS_Subset
  <2>2. \A x \in S : <<x, x>> \notin before
    BY <1>7, <1>8
  <2>3. \A x, y \in S : x # y => <<x, y>> \in before \/ <<y, x>> \in before
    <3>1. \A x, y \in S : x # y => place[x] # place[y]
      BY <1>4
    <3>2. \A x, y \in S : place[x] # place[y] => place[x] < place[y] \/ place[y] < place[x]
      BY <1>8
    <3> QED BY <1>7, <3>1, <3>2
  <2>4. \A x, y, z \in S : <<x, y>> \in before /\ <<y, z>> \in before => <<x, z>> \in before
    <3>1. \A x, y, z \in S : place[x] < place[y] /\ place[y] < place[z] => place[x] < place[z]
      BY <1>8
    <3> QED BY <1>7, <3>1
  <2> QED BY <2>1, <2>2, <2>3, <2>4 DEF Ordered, OrdersAll
<1>10. \A x, y \in S : <<x, y>> \in before => x # y /\ x.score >= y.score
  <2>1. \A x, y \in S : place[x] < place[y] => x # y /\ x.score >= y.score
    BY <1>2, <1>4, <1>8 DEF Ranks
  <2> QED BY <1>7, <2>1
<1>11. /\ Cardinality(some) \in Nat
       /\ InOrder(some, before) \in [1..Cardinality(some) -> some]
       /\ \A x \in some : \E i \in 1..Cardinality(some) : InOrder(some, before)[i] = x
       /\ \A i, j \in 1..Cardinality(some) : i < j => <<InOrder(some, before)[i], InOrder(some, before)[j]>> \in before
  BY <1>9, InOrderIsSorted
<1>12. Ranks(InOrder(some, before), some)
  BY <1>10, <1>11 DEF Ranks
<1> QED BY <1>1, <1>12

------------------------------------------------------------------------------
\* The shortlist of a fleet ranking, made like that of a gap.
FamilyLikeness(r, c, chosen) == Max({Jaccard(r.hulls[c.hull].traits, r.hulls[d.hull].traits) : d \in chosen})

LEMMA FamilyLikenessIsInt ==
    ASSUME NEW r \in Scans, NEW S, FairPool(r, S), NEW c \in S, NEW chosen, chosen \subseteq S, chosen # {}
    PROVE  FamilyLikeness(r, c, chosen) \in Int
<1> DEFINE like == [d \in chosen |-> Jaccard(r.hulls[c.hull].traits, r.hulls[d.hull].traits)]
           all == {like[d] : d \in chosen}
<1>1. ASSUME NEW d \in chosen PROVE like[d] \in Int
  <2>1. IsFiniteSet(r.hulls[c.hull].traits) /\ IsFiniteSet(r.hulls[d.hull].traits)
    BY ShipsAre DEF FairPool
  <2> QED BY <2>1, JaccardIsInt
<1>2. IsFiniteSet(all)
  <2>1. IsFiniteSet(chosen)
    BY FS_Subset DEF FairPool
  <2> HIDE DEF like
  <2> QED BY <2>1, ImageIsFinite
<1>3. all \subseteq Int /\ all # {}
  <2> HIDE DEF like
  <2> QED BY <1>1
<1>4. all = {Jaccard(r.hulls[c.hull].traits, r.hulls[d.hull].traits) : d \in chosen}
  OBVIOUS
<1> HIDE DEF all, like
<1>5. Max(all) \in Int
  BY <1>2, <1>3, ExtremesExist
<1> QED BY <1>4, <1>5 DEF FamilyLikeness

LEMMA AFamilyChoiceExists ==
    ASSUME NEW r \in Scans, NEW S, FairPool(r, S), NEW rest, rest \subseteq S, rest # {},
           NEW chosen, chosen \subseteq S, chosen # {}, NEW best \in Int
    PROVE  \E c \in rest : \A d \in rest \ {c} : Exceeds(FamilyAppeal(r, c, chosen, best), FamilyAppeal(r, d, chosen, best))
<1> DEFINE key == [c \in rest |-> FamilyAppeal(r, c, chosen, best)]
<1>1. IsFiniteSet(rest)
  BY FS_Subset DEF FairPool
<1>2. \A c \in rest : c.score \in Int /\ c.hull \in Nat
  BY ScansAssumption DEF FairPool
<1>3. \A c \in rest : FamilyLikeness(r, c, chosen) \in Int
  BY FamilyLikenessIsInt
<1>4. \A c \in rest : key[c] =
          <<10000 * c.score - 15 * FamilyLikeness(r, c, chosen) * best, 100 - FamilyLikeness(r, c, chosen), c.hull>>
  BY DEF FamilyAppeal, FamilyLikeness
<1>5. DOMAIN key = rest /\ key = [c \in rest |-> key[c]]
  OBVIOUS
<1>6. \A c \in rest : key[c] = FamilyAppeal(r, c, chosen, best)
  OBVIOUS
<1> HIDE DEF key
<1>7. ASSUME NEW c \in rest PROVE key[c] \in [1..3 -> Int]
  <2> DEFINE a == 10000 * c.score - 15 * FamilyLikeness(r, c, chosen) * best
             b == 100 - FamilyLikeness(r, c, chosen)
  <2>1. 15 * FamilyLikeness(r, c, chosen) * best \in Int
    BY <1>3
  <2>2. a \in Int /\ b \in Int /\ c.hull \in Int
    BY <1>2, <1>3, <2>1
  <2>3. key[c] = <<a, b, c.hull>>
    BY <1>4
  <2> HIDE DEF a, b
  <2> QED BY <2>2, <2>3, ExceedsOfThree
<1>8. key \in [rest -> [1..3 -> Int]]
  BY <1>5, <1>7
<1>9. \A c, d \in rest : key[c] = key[d] => c = d
  <2>1. \A c, d \in rest : key[c] = key[d] => c.hull = d.hull
    BY <1>4
  <2> QED BY <2>1 DEF FairPool
<1>10. \E c \in rest : \A d \in rest \ {c} : Exceeds(key[c], key[d])
  <2>1. \A k \in Nat : key \in [rest -> [1..k -> Int]] => \E c \in rest : \A d \in rest \ {c} : Exceeds(key[c], key[d])
    BY <1>1, <1>9, OneAppealsMost
  <2> QED BY <1>8, <2>1
<1> QED BY <1>6, <1>10

FamilyPick(r, ranked, best, s) ==
    LET chosen == Range(s)
        rest   == Range(ranked) \ chosen
        pool   == ChoosePool(rest, best)
    IN  IF rest = {} THEN s
        ELSE Append(s, CHOOSE c \in pool : \A d \in pool \ {c} : Exceeds(FamilyAppeal(r, c, chosen, best), FamilyAppeal(r, d, chosen, best)))
FamilyPicks(f, r, ranked, best, count) ==
    f = [n \in 1..count |-> IF n = 1 THEN <<ranked[1]>> ELSE FamilyPick(r, ranked, best, f[n - 1])]

LEMMA FamilyByDefinition ==
    ASSUME NEW r, NEW ranked, NEW count
    PROVE  FleetShortlist(r, ranked, count) =
               IF ranked = <<>> THEN <<>>
               ELSE IF ~Varied THEN SubSeq(ranked, 1, Min({count, Len(ranked)}))
               ELSE (CHOOSE f : FamilyPicks(f, r, ranked, ranked[1].score, count))[count]
<1> DEFINE picked == CHOOSE f : f = [n \in 1..count |-> IF n = 1 THEN <<ranked[1]>> ELSE FamilyPick(r, ranked, ranked[1].score, f[n - 1])]
<1>1. picked = CHOOSE f : FamilyPicks(f, r, ranked, ranked[1].score, count)
  BY DEF FamilyPicks
<1>2. FleetShortlist(r, ranked, count) =
          CASE ranked = <<>> -> <<>>
            [] ranked # <<>> /\ ~Varied -> SubSeq(ranked, 1, Min({count, Len(ranked)}))
            [] OTHER -> picked[count]
  BY DEF FleetShortlist, FamilyPick
<1> HIDE DEF picked
<1> QED BY <1>1, <1>2

LEMMA FamilyPickGrows ==
    ASSUME NEW r \in Scans, NEW S, FairPool(r, S), NEW ranked, Range(ranked) = S, NEW best \in Int, NEW s \in Seq(S), s # <<>>
    PROVE  Grown(S, best, s, FamilyPick(r, ranked, best, s)) /\ FamilyPick(r, ranked, best, s) \in Seq(S) \ {<<>>}
<1> DEFINE near == ChoosePool(S \ Range(s), best)
           chosen == Range(s)
           next == CHOOSE c \in near : \A d \in near \ {c} : Exceeds(FamilyAppeal(r, c, chosen, best), FamilyAppeal(r, d, chosen, best))
<1>1. chosen \subseteq S /\ chosen # {}
  <2>1. 1 \in DOMAIN s /\ \A i \in DOMAIN s : s[i] \in S
    OBVIOUS
  <2> QED BY <2>1 DEF Range
<1>2. FamilyPick(r, ranked, best, s) = IF S \ Range(s) = {} THEN s ELSE Append(s, next)
  BY DEF FamilyPick
<1>3. CASE S \ Range(s) = {}
  BY <1>2, <1>3 DEF Grown
<1>4. CASE S \ Range(s) # {}
  <2>1. near \subseteq S /\ near # {}
    BY <1>4 DEF ChoosePool
  <2> HIDE DEF near, chosen
  <2>2. \E c \in near : \A d \in near \ {c} : Exceeds(FamilyAppeal(r, c, chosen, best), FamilyAppeal(r, d, chosen, best))
    BY <1>1, <2>1, AFamilyChoiceExists
  <2>3. next \in near
    BY <2>2
  <2> HIDE DEF next
  <2>4. FamilyPick(r, ranked, best, s) = Append(s, next) /\ next \in S
    BY <1>2, <1>4, <2>1, <2>3
  <2>5. Append(s, next) \in Seq(S) /\ Append(s, next) # <<>>
    BY <2>4
  <2> QED BY <1>4, <2>3, <2>4, <2>5 DEF Grown, near
<1> QED BY <1>3, <1>4

LEMMA FamilyIsShortlisted ==
    ASSUME NEW r \in Scans, NEW S, FairPool(r, S), NEW ranked, Range(ranked) = S, ranked[1] \in S,
           \A c \in S : c.score <= ranked[1].score, NEW count \in Nat \ {0},
           NEW picked, picked = CHOOSE f : FamilyPicks(f, r, ranked, ranked[1].score, count)
    PROVE  Shortlisted(picked[count], S, ranked[1].score, count) /\ picked[count] # <<>> /\ picked[count][1] = ranked[1]
<1> DEFINE D == Seq(S) \ {<<>>}
           best == ranked[1].score
           step == [s \in D |-> FamilyPick(r, ranked, best, s)]
<1>1. best \in Int /\ IsFiniteSet(S)
  BY DEF FairPool
<1>2. \A s \in D : Grown(S, best, s, FamilyPick(r, ranked, best, s)) /\ FamilyPick(r, ranked, best, s) \in D
  <2> HIDE DEF best
  <2> QED BY <1>1, FamilyPickGrows
<1>3. step \in [D -> D] /\ <<ranked[1]>> \in D
  <2>1. <<ranked[1]>> \in D
    OBVIOUS
  <2> HIDE DEF D, best
  <2> QED BY <1>2, <2>1
<1> HIDE DEF D, best
<1>4. PICK f \in [1..count -> D] : Steps(f, <<ranked[1]>>, step, count)
  <2> HIDE DEF step
  <2> QED BY <1>3, StepsExist
<1>5. FamilyPicks(f, r, ranked, best, count)
  <2>1. ASSUME NEW n \in 1..count PROVE f[n] = IF n = 1 THEN <<ranked[1]>> ELSE FamilyPick(r, ranked, best, f[n - 1])
    <3>1. n # 1 => n - 1 \in 1..count
      OBVIOUS
    <3> QED BY <1>4, <3>1 DEF Steps
  <2> DEFINE g == [n \in 1..count |-> IF n = 1 THEN <<ranked[1]>> ELSE FamilyPick(r, ranked, best, f[n - 1])]
  <2>2. \A n \in 1..count : g[n] = f[n]
    BY <2>1
  <2>3. f = [n \in 1..count |-> f[n]] /\ g = [n \in 1..count |-> g[n]]
    BY <1>4
  <2> HIDE DEF g
  <2>4. f = g
    BY <2>2, <2>3
  <2> QED BY <2>4 DEF g, FamilyPicks
<1>6. PICK pick : pick = picked
  OBVIOUS
<1>7. FamilyPicks(pick, r, ranked, best, count)
  BY <1>5, <1>6 DEF best
<1>8. \A n \in 1..count : pick[n] = IF n = 1 THEN <<ranked[1]>> ELSE FamilyPick(r, ranked, best, pick[n - 1])
  BY <1>7 DEF FamilyPicks
<1>9. \A n \in 1..count : pick[n] \in D
  <2> DEFINE Bad == {n \in 1..count : pick[n] \notin D}
  <2>1. SUFFICES ASSUME Bad # {} PROVE FALSE
    OBVIOUS
  <2>2. PICK m \in Bad : \A n \in Bad : m <= n
    <3>1. Bad \in SUBSET Nat
      OBVIOUS
    <3> HIDE DEF Bad
    <3> QED BY <2>1, <3>1, LeastNatural
  <2>3. m \in 1..count /\ m # 1
    BY <1>3, <1>8, <2>2
  <2>4. m - 1 \in 1..count /\ ~(m <= m - 1)
    BY <2>3
  <2>5. pick[m - 1] \in D
    BY <2>2, <2>4
  <2>6. pick[m] \in D
    BY <1>2, <1>8, <2>3, <2>5
  <2> QED BY <2>2, <2>6
<1>10. ASSUME NEW n \in 2..count PROVE Grown(S, best, pick[n - 1], pick[n])
  <2>1. n \in 1..count /\ n # 1 /\ n - 1 \in 1..count
    OBVIOUS
  <2> QED BY <1>2, <1>8, <1>9, <2>1
<1>11. pick[1] = <<ranked[1]>>
  BY <1>8
<1>12. ~Competitive(ranked[1], best) => \A c \in S : ~Competitive(c, best)
  <2>1. \A c \in S : c.score \in Int /\ c.score <= ranked[1].score
    BY DEF FairPool
  <2>2. ASSUME NEW c \in S, Competitive(c, best) PROVE Competitive(ranked[1], best)
    <3>1. c.score \in Int /\ ranked[1].score \in Int /\ c.score <= ranked[1].score
      BY <2>1
    <3>2. 100 * c.score >= 90 * best
      BY <2>2 DEF Competitive
    <3> QED BY <1>1, <3>1, <3>2 DEF Competitive
  <2> QED BY <2>2
<1>13. Shortlisted(pick[count], S, best, count) /\ pick[count] # <<>> /\ pick[count][1] = ranked[1]
  BY <1>1, <1>10, <1>11, <1>12, PicksAreShortlisted
<1> QED BY <1>6, <1>13 DEF best

\* What is shown of a ranking: none twice, and the best of it heads it.
LEMMA FleetShortlistIs ==
    ASSUME NEW r \in Scans, NEW S, FairPool(r, S), NEW ranked, Ranks(ranked, S), NEW count \in Nat \ {0},
           NEW list, list = FleetShortlist(r, ranked, count)
    PROVE  /\ list \in Seq(S)
           /\ \A i, j \in DOMAIN list : i # j => list[i] # list[j]
           /\ \A i \in DOMAIN list : list[i].score <= list[1].score
<1> DEFINE n == Cardinality(S)
<1>1. /\ n \in Nat /\ ranked \in [1..n -> S]
      /\ \A c \in S : \E i \in 1..n : ranked[i] = c
      /\ \A i, j \in 1..n : i < j => ranked[i] # ranked[j] /\ ranked[i].score >= ranked[j].score
  BY DEF Ranks
<1>2. IsFiniteSet(S) /\ \A c \in S : c.score \in Int
  BY DEF FairPool
<1>3. Len(ranked) = n /\ ranked \in Seq(S)
  BY <1>1
<1>4. CASE ranked = <<>>
  <2>1. list = <<>>
    BY <1>4, FamilyByDefinition
  <2>2. <<>> \in Seq(S) /\ DOMAIN <<>> = {}
    OBVIOUS
  <2> QED BY <2>1, <2>2
<1>5. CASE ranked # <<>>
  <2>1. n # 0 /\ 1 \in 1..n
    BY <1>1, <1>3, <1>5
  <2>2. ASSUME NEW c \in S PROVE c.score <= ranked[1].score
    <3>1. PICK i \in 1..n : ranked[i] = c
      BY <1>1
    <3>2. ranked[1].score \in Int /\ c.score \in Int
      BY <1>1, <1>2, <2>1
    <3>3. CASE i = 1
      BY <3>1, <3>2, <3>3
    <3>4. CASE i # 1
      <4>1. 1 < i
        BY <1>1, <3>4
      <4> QED BY <1>1, <2>1, <3>1, <3>2, <4>1
    <3> QED BY <3>3, <3>4
  <2>3. ranked[1] \in S /\ Range(ranked) = S /\ ranked[1].score \in Int
    <3>1. ranked[1] \in S
      BY <1>1, <2>1
    <3>2. Range(ranked) = S
      BY <1>1 DEF Range
    <3> QED BY <1>2, <3>1, <3>2
  <2>4. Shortlisted(list, S, ranked[1].score, count) /\ list[1] = ranked[1]
    <3>1. CASE Varied
      <4> DEFINE picked == CHOOSE f : FamilyPicks(f, r, ranked, ranked[1].score, count)
      <4>1. list = picked[count]
        BY <1>5, <3>1, FamilyByDefinition
      <4>2. PICK p : p = picked
        OBVIOUS
      <4>3. Shortlisted(p[count], S, ranked[1].score, count) /\ p[count][1] = ranked[1]
        BY <2>2, <2>3, <4>2, FamilyIsShortlisted
      <4> HIDE DEF picked
      <4> QED BY <4>1, <4>2, <4>3
    <3>2. CASE ~Varied
      <4>1. list = SubSeq(ranked, 1, Min({count, Len(ranked)}))
        BY <1>5, <3>2, FamilyByDefinition
      <4>2. Shortlisted(list, S, ranked[1].score, count)
        BY <1>1, <1>2, <2>3, <4>1, FirstAreShortlisted
      <4>3. Min({count, Len(ranked)}) \in 1..n
        BY <1>3, <2>1, MinOfTwo
      <4> QED BY <1>3, <4>1, <4>2, <4>3
    <3> QED BY <3>1, <3>2
  <2>5. list \in Seq(S) /\ \A i, j \in 1..Len(list) : i # j => list[i] # list[j]
    BY <2>4 DEF Shortlisted
  <2>6. DOMAIN list = 1..Len(list) /\ \A i \in DOMAIN list : list[i] \in S
    BY <2>5
  <2> QED BY <2>2, <2>4, <2>5, <2>6
<1> QED BY <1>4, <1>5

LEMMA FleetBestIs ==
    ASSUME NEW r, NEW o, Asked(r, o), NEW n \in Capabilities, FleetBest(r, o, n) # Nil
    PROVE  FleetBest(r, o, n).score \in Nat /\ FleetBest(r, o, n).sure \in Nat
<1> DEFINE S == Evidences(r, o, n)
           cap == [i \in Resolved(r, o) |-> Fitting(r, Selections(o)[i]).cap[n]]
           all == {cap[i] : i \in Resolved(r, o)}
<1>1. \A e \in S : e.score \in Nat /\ e.sure \in Nat
  <2> SUFFICES ASSUME NEW e \in S PROVE e.score \in Nat /\ e.sure \in Nat
    OBVIOUS
  <2>1. PICK i \in Resolved(r, o) : e = Fitting(r, Selections(o)[i]).cap[n] /\ e # Nil
    BY DEF Evidences
  <2>2. PICK x \in FleetShips(r) : x = Fitting(r, Selections(o)[i])
    BY SelectedAre
  <2>3. x.cap[n] # Nil /\ e = x.cap[n]
    BY <2>1, <2>2
  <2> QED BY <2>3, EvidenceIs DEF Asked
<1>2. IsFiniteSet(S)
  <2>1. S \subseteq all
    BY DEF Evidences
  <2> HIDE DEF cap, S
  <2>2. IsFiniteSet(all)
    BY SelectedAre, ImageIsFinite
  <2> HIDE DEF all
  <2> QED BY <2>1, <2>2, FS_Subset
<1>3. FleetBest(r, o, n) =
          IF S = {} THEN Nil ELSE CHOOSE e \in S : \A f \in S : f.score < e.score \/ (f.score = e.score /\ f.sure <= e.sure)
  BY DEF FleetBest
<1> HIDE DEF S
<1>4. \A e \in S : e.score \in Int /\ e.sure \in Int
  BY <1>1
<1>5. S # {} => \E e \in S : \A f \in S : f.score < e.score \/ (f.score = e.score /\ f.sure <= e.sure)
  BY <1>2, <1>4, OneIsBest
<1>6. FleetBest(r, o, n) \in S
  BY <1>3, <1>5
<1> QED BY <1>1, <1>6

LEMMA SupportNeedsAre == ASSUME NEW r, NEW o, Asked(r, o) PROVE FairNeeds(SupportNeeds(r, o))
<1> DEFINE N == {m \in FocusNeeds[o.focus] : FleetBest(r, o, m) # Nil /\ 100 - FleetBest(r, o, m).score >= 35}
           need == [n \in N |-> FleetNeed(n, 100 - FleetBest(r, o, n).score, FleetBest(r, o, n).sure)]
           needs == {need[n] : n \in N}
<1>1. SupportNeeds(r, o) = needs
  BY DEF SupportNeeds
<1>2. N \subseteq Capabilities /\ IsFiniteSet(N)
  <2>1. o.focus \in DOMAIN FocusNeeds
    BY OrdersAssumption DEF Asked
  <2>2. N \subseteq FocusNeeds[o.focus]
    OBVIOUS
  <2> HIDE DEF N
  <2>3. IsFiniteSet(FocusNeeds[o.focus]) /\ FocusNeeds[o.focus] \subseteq Capabilities
    BY <2>1, FleetAssumption, WhatIsAsked
  <2> QED BY <2>2, <2>3, FS_Subset
<1>3. ASSUME NEW n \in N
      PROVE  need[n].need = n /\ need[n].score \in Nat \ {0} /\ need[n].sure \in Int
  <2>1. FleetBest(r, o, n) # Nil /\ 100 - FleetBest(r, o, n).score >= 35 /\ n \in Capabilities
    BY <1>2
  <2>2. FleetBest(r, o, n).score \in Nat /\ FleetBest(r, o, n).sure \in Nat
    BY <2>1, FleetBestIs
  <2>3. 100 - FleetBest(r, o, n).score \in Nat \ {0}
    BY <2>1, <2>2
  <2>4. /\ need[n].need = n /\ need[n].score = 100 - FleetBest(r, o, n).score
        /\ need[n].sure = FleetBest(r, o, n).sure
    BY DEF FleetNeed
  <2> QED BY <2>2, <2>3, <2>4
<1> HIDE DEF need, N
<1>4. IsFiniteSet(needs)
  BY <1>2, ImageIsFinite
<1>5. \A m \in needs : m.need \in Capabilities /\ m.score \in Nat \ {0} /\ m.sure \in Int
  BY <1>2, <1>3
<1> QED BY <1>1, <1>4, <1>5 DEF FairNeeds

LEMMA DeficienciesAre ==
    ASSUME NEW r, NEW o, Asked(r, o), NEW s \in ScenarioProfiles PROVE FairNeeds(Deficiencies(r, o, s))
<1> DEFINE T == {u \in s.targets : Alignment(FleetBest(r, o, u.need), u) = "WEAK"}
           need == [t \in T |-> Deficiency(t, FleetBest(r, o, t.need), s)]
           needs == {need[t] : t \in T}
<1>1. Deficiencies(r, o, s) = needs
  BY DEF Deficiencies
<1>2. T \subseteq s.targets /\ IsFiniteSet(T) /\ s.sure \in Nat /\ \A t \in T : t.target \in Nat /\ t.need \in Capabilities
  <2>1. T \subseteq s.targets
    OBVIOUS
  <2> HIDE DEF T
  <2>2. IsFiniteSet(s.targets) /\ s.sure \in Nat /\ \A t \in s.targets : t.target \in Nat /\ t.need \in Capabilities
    BY FleetAssumption, WhatIsAsked
  <2> QED BY <2>1, <2>2, FS_Subset
<1>3. ASSUME NEW t \in T
      PROVE  need[t].need = t.need /\ need[t].score \in Nat \ {0} /\ need[t].sure \in Int
  <2>1. PICK e : e = FleetBest(r, o, t.need)
    OBVIOUS
  <2>2. Alignment(e, t) = "WEAK"
    BY <2>1
  <2>3. e # Nil /\ ~(e.score >= t.target)
    BY <2>2 DEF Alignment
  <2>4. e.score \in Nat /\ e.sure \in Nat /\ t.target \in Nat
    BY <1>2, <2>1, <2>3, FleetBestIs
  <2>5. t.target - e.score \in Nat \ {0}
    BY <2>3, <2>4
  <2>6. (e.sure * s.sure) \div 100 \in Int
    <3>1. e.sure * s.sure \in Int
      BY <1>2, <2>4
    <3> QED BY <3>1
  <2>7. need[t].need = t.need /\ need[t].score = t.target - e.score /\ need[t].sure = (e.sure * s.sure) \div 100
    BY <2>1 DEF Deficiency
  <2> QED BY <2>5, <2>6, <2>7
<1> HIDE DEF need, T
<1>4. IsFiniteSet(needs)
  BY <1>2, ImageIsFinite
<1>5. \A m \in needs : m.need \in Capabilities /\ m.score \in Nat \ {0} /\ m.sure \in Int
  BY <1>2, <1>3
<1> QED BY <1>1, <1>4, <1>5 DEF FairNeeds

------------------------------------------------------------------------------
\* Nobody is ranked who may not join.
LEMMA NotExcludedMayJoin ==
    ASSUME NEW r, NEW o, Asked(r, o), NEW h \in DOMAIN r.hulls, Excluded(r, o, h) = Nil
    PROVE  MayJoin(r, o, h)
<1>1. h \notin Locked(r, o) /\ r.hulls[h].eligible /\ Permitted(r, o, h)
  BY FleetAssumption DEF Excluded
<1>2. o.hidden \/ ~r.hulls[h].hidden
  BY <1>1 DEF Permitted
<1>3. o.access = "STRICT_FACTION" => o.faction \in r.hulls[h].owners
  BY <1>1 DEF Permitted
<1>4. h # Nil
  <2>1. h \in Int
    BY ScansAssumption DEF Asked
  <2> QED BY <2>1, FleetAssumption
<1>5. \A i \in DOMAIN o.selections : HullOf(r, o.selections[i]) # h
  <2> SUFFICES ASSUME NEW i \in DOMAIN o.selections, HullOf(r, o.selections[i]) = h PROVE FALSE
    OBVIOUS
  <2>1. i \in Resolved(r, o)
    BY <1>1, <1>4 DEF Resolved, Located, Selections
  <2>2. h \in Locked(r, o)
    BY <2>1 DEF Locked, Selections
  <2> QED BY <1>1, <2>2
<1>6. ASSUME NEW i \in DOMAIN o.selections, NEW s, s = o.selections[i]
      PROVE  IF s.variant = Nil THEN s.hull # h ELSE s.variant \in DOMAIN r.variants => r.variants[s.variant].hull # h
  <2>1. HullOf(r, s) # h
    BY <1>5, <1>6
  <2> QED BY <2>1 DEF HullOf
<1> QED BY <1>1, <1>2, <1>3, <1>6 DEF MayJoin

LEMMA RankedMayJoin ==
    ASSUME NEW r, NEW o, Asked(r, o), NEW needs, FairNeeds(needs), NEW c \in FleetPool(r, o, needs)
    PROVE  MayJoin(r, o, c.hull) /\ c.hull \in DOMAIN r.hulls /\ Excluded(r, o, c.hull) = Nil
<1>1. c.hull \in DOMAIN r.hulls /\ Excluded(r, o, c.hull) = Nil
  BY FleetPoolIs DEF FairPool
<1> QED BY <1>1, NotExcludedMayJoin

------------------------------------------------------------------------------
\* What advice is made of.
Heads(list) == \A i, j \in DOMAIN list : list[i].score <= list[1].score /\ (i # j => list[i].hull # list[j].hull)
AskedOf(needs, l) == {n.need : n \in {m \in needs : m.logistic = l}}

LEMMA AdviceIs ==
    ASSUME NEW r, NEW o, Asked(r, o), NEW needs, FairNeeds(needs), NEW a, a = FleetSupport(r, o, needs)
    PROVE  LET pool == FleetPool(r, o, needs) IN
           /\ a.listed \in Seq(pool) /\ Heads(a.listed)
           /\ DOMAIN a.categories = {n.logistic : n \in needs}
           /\ \A l \in DOMAIN a.categories : a.categories[l] \in Seq({c \in pool : c.supports \cap AskedOf(needs, l) # {}})
           /\ a.unmet = {n.need : n \in needs} \ UNION {c.supports : c \in pool}
<1> DEFINE pool == FleetPool(r, o, needs)
           ranked == FleetRanking(r, o, needs)
           some(l) == {c \in pool : c.supports \cap AskedOf(needs, l) # {}}
<1>1. FairPool(r, pool) /\ Ranks(ranked, pool) /\ r \in Scans
  BY FleetPoolIs, FleetRankingIs DEF Asked
<1>2. Range(ranked) = pool
  <2> HIDE DEF pool, ranked
  <2> QED BY <1>1 DEF Ranks, Range
<1>3. CountOf(o) \in Nat \ {0}
  BY FleetAssumption, OrdersAssumption DEF CountOf, Asked
<1>4. /\ a.listed = FleetShortlist(r, ranked, CountOf(o))
      /\ a.categories = [l \in {n.logistic : n \in needs} |-> ByCategory(r, o, needs, ranked, l)]
      /\ a.unmet = {n.need : n \in needs} \ UNION {c.supports : c \in Range(ranked)}
  BY DEF FleetSupport, AdviceFrom
<1> HIDE DEF pool, ranked
<1>5. a.listed \in Seq(pool) /\ Heads(a.listed)
  <2>1. /\ a.listed \in Seq(pool)
        /\ \A i, j \in DOMAIN a.listed : i # j => a.listed[i] # a.listed[j]
        /\ \A i \in DOMAIN a.listed : a.listed[i].score <= a.listed[1].score
    BY <1>1, <1>3, <1>4, FleetShortlistIs
  <2>2. \A i \in DOMAIN a.listed : a.listed[i] \in pool
    BY <2>1
  <2>3. \A c, d \in pool : c # d => c.hull # d.hull
    BY <1>1 DEF FairPool
  <2> QED BY <2>1, <2>2, <2>3 DEF Heads
<1>6. ASSUME NEW l \in {n.logistic : n \in needs} PROVE a.categories[l] \in Seq(some(l))
  <2>1. a.categories[l] = ByCategory(r, o, needs, ranked, l)
    BY <1>4
  <2>2. ByCategory(r, o, needs, ranked, l) = FleetShortlist(r, Kept(ranked, some(l)), CountOf(o))
    BY <1>2 DEF ByCategory, AskedOf
  <2>3. PICK kept : kept = Kept(ranked, some(l))
    OBVIOUS
  <2>4. PICK S : S = some(l)
    OBVIOUS
  <2>5. S \subseteq pool
    BY <2>4
  <2> HIDE DEF some
  <2>6. FairPool(r, S)
    <3>1. IsFiniteSet(S)
      BY <1>1, <2>5, FS_Subset DEF FairPool
    <3> QED BY <1>1, <2>5, <3>1 DEF FairPool
  <2>7. Ranks(kept, S)
    <3>1. IsFiniteSet(pool)
      BY <1>1 DEF FairPool
    <3> QED BY <1>1, <2>3, <2>4, <2>5, <3>1, KeptIs
  <2>8. FleetShortlist(r, kept, CountOf(o)) \in Seq(S)
    BY <1>1, <1>3, <2>6, <2>7, FleetShortlistIs
  <2> QED BY <2>1, <2>2, <2>3, <2>4, <2>8
<1>7. DOMAIN a.categories = {n.logistic : n \in needs}
  BY <1>4
<1>8. a.unmet = {n.need : n \in needs} \ UNION {c.supports : c \in pool}
  BY <1>2, <1>4
<1> HIDE DEF some
<1>9. \A l \in DOMAIN a.categories : a.categories[l] \in Seq(some(l))
  BY <1>6, <1>7
<1> QED BY <1>5, <1>7, <1>8, <1>9 DEF some, pool

LEMMA ListedMayJoin ==
    ASSUME NEW r, NEW o, Asked(r, o), NEW needs, FairNeeds(needs), NEW list, list = FleetSupport(r, o, needs).listed
    PROVE  Heads(list) /\ \A c \in Range(list) : c \in FleetPool(r, o, needs) /\ MayJoin(r, o, c.hull)
<1>1. PICK a : a = FleetSupport(r, o, needs)
  OBVIOUS
<1>2. list \in Seq(FleetPool(r, o, needs)) /\ Heads(list)
  BY <1>1, AdviceIs
<1>3. \A c \in Range(list) : c \in FleetPool(r, o, needs)
  <2>1. \A i \in DOMAIN list : list[i] \in FleetPool(r, o, needs)
    BY <1>2
  <2> QED BY <2>1 DEF Range
<1> QED BY <1>2, <1>3, RankedMayJoin

LEMMA AddedMayJoin ==
    ASSUME NEW r, NEW o, Asked(r, o), NEW s \in ScenarioProfiles, NEW list, list = Additions(r, o, Deficiencies(r, o, s))
    PROVE  Heads(list) /\ \A c \in Range(list) : MayJoin(r, o, c.hull)
<1>1. PICK needs : needs = Deficiencies(r, o, s)
  OBVIOUS
<1>2. FairNeeds(needs)
  BY <1>1, DeficienciesAre
<1>3. CASE needs = {}
  <2>1. list = <<>> /\ DOMAIN <<>> = {}
    BY <1>1, <1>3 DEF Additions
  <2> QED BY <2>1 DEF Heads, Range
<1>4. CASE needs # {}
  <2>1. list = FleetSupport(r, o, needs).listed
    BY <1>1, <1>4 DEF Additions
  <2> QED BY <1>2, <2>1, ListedMayJoin
<1> QED BY <1>3, <1>4

\* Why-Not and the list are of one ranking.
LEMMA AnswerIsOfTheList ==
    ASSUME NEW r, NEW o, Asked(r, o), NEW h, NEW list, list = FleetSupport(r, o, SupportNeeds(r, o)).listed,
           NEW is, is = FleetAnswer(r, o, h, FleetRanking(r, o, SupportNeeds(r, o)))
    PROVE  is = "RECOMMENDED" <=> \E c \in Range(list) : c.hull = h
<1>1. PICK needs : needs = SupportNeeds(r, o)
  OBVIOUS
<1>2. FairNeeds(needs)
  BY <1>1, SupportNeedsAre
<1> DEFINE ranked == FleetRanking(r, o, needs)
           at == {i \in DOMAIN ranked : ranked[i].hull = h}
           shown == \E c \in Range(list) : c.hull = h
<1>3. list = FleetShortlist(r, ranked, CountOf(o))
  BY <1>1 DEF FleetSupport, AdviceFrom
<1>4. is = CASE h \notin DOMAIN r.hulls -> "UNKNOWN"
             [] h \in DOMAIN r.hulls /\ Excluded(r, o, h) # Nil -> Excluded(r, o, h)
             [] h \in DOMAIN r.hulls /\ Excluded(r, o, h) = Nil /\ at = {} -> "NO_MATCH"
             [] OTHER -> IF shown THEN "RECOMMENDED" ELSE "BELOW_CUTOFF"
  BY <1>1, <1>3 DEF FleetAnswer
<1>5. Excluded(r, o, h) # Nil => Excluded(r, o, h) \in {"LOCKED_PLAYER_SELECTION", "NOT_A_NORMAL_SHIP", "ACCESS_POLICY"}
  BY DEF Excluded
<1>6. ASSUME shown PROVE h \in DOMAIN r.hulls /\ Excluded(r, o, h) = Nil /\ at # {}
  <2>1. PICK c \in Range(list) : c.hull = h
    BY <1>6
  <2>2. c \in FleetPool(r, o, needs)
    BY <1>1, <1>2, ListedMayJoin
  <2>3. h \in DOMAIN r.hulls /\ Excluded(r, o, h) = Nil
    BY <1>2, <2>1, <2>2, RankedMayJoin
  <2>4. Ranks(ranked, FleetPool(r, o, needs))
    BY <1>2, FleetRankingIs
  <2> HIDE DEF ranked
  <2>5. \E i \in DOMAIN ranked : ranked[i] = c
    BY <2>2, <2>4 DEF Ranks
  <2> QED BY <2>1, <2>3, <2>5
<1> HIDE DEF ranked, at, shown
<1>7. is = "RECOMMENDED" <=> shown
  BY <1>4, <1>5, <1>6
<1> QED BY <1>7 DEF shown

LEMMA FitsAreOfTheList ==
    ASSUME NEW list, NEW h, FitOutcome(list, h).is = "generated"
    PROVE  \E c \in Range(list) : c.hull = h
<1> DEFINE now == {c \in Range(list) : c.hull = h}
           fit == FitProfile[FitPurpose(CHOOSE c \in now : TRUE)]
<1>1. FitOutcome(list, h) = CASE now = {} -> [is |-> "refused", profile |-> Nil]
                              [] \E c \in now : FitPurpose(c) = Nil -> [is |-> "no purpose", profile |-> Nil]
                              [] OTHER -> [is |-> "generated", profile |-> fit]
  BY DEF FitOutcome
<1>2. now # {}
  <2> SUFFICES ASSUME now = {} PROVE FALSE
    OBVIOUS
  <2>1. ~\E c \in now : FitPurpose(c) = Nil
    OBVIOUS
  <2> HIDE DEF now, fit
  <2>2. FitOutcome(list, h) = [is |-> "refused", profile |-> Nil]
    BY <1>1, <2>1
  <2> QED BY <2>2
<1> QED BY <1>2

------------------------------------------------------------------------------
(* The cards are of a scan and an order there were; what was said is of those  *)
(* there are, for neither changes while it is read.                            *)
CardsFrom(x, r, o) ==
    /\ Asked(r, o) /\ x.of = <<r, o>>
    /\ \/ x.origin = "FLEET_SUPPORT" /\ x.listed = FleetSupport(r, o, SupportNeeds(r, o)).listed
       \/ x.origin = "SCENARIO" /\ \E s \in ScenarioProfiles : x.listed = Additions(r, o, Deficiencies(r, o, s))

\* A fit that is generated is of a list that is made now.
FitFrom(is, h, r, o) ==
    is.is = "generated" =>
        \/ is = FitOutcome(FleetSupport(r, o, SupportNeeds(r, o)).listed, h)
        \/ \E s \in ScenarioProfiles : is = FitOutcome(Additions(r, o, Deficiencies(r, o, s)), h)

Says(x, y, r, o) ==
    /\ Asked(r, o)
    /\ \/ /\ x.kind = "advice" /\ y.origin = "FLEET_SUPPORT" /\ CardsFrom(y, r, o)
          /\ x.categories = FleetSupport(r, o, SupportNeeds(r, o)).categories /\ x.unmet = FleetSupport(r, o, SupportNeeds(r, o)).unmet
       \/ x.kind = "scenario"
       \/ x.kind = "why" /\ x.is = FleetAnswer(r, o, x.hull, FleetRanking(r, o, SupportNeeds(r, o)))
       \/ x.kind = "fit" /\ FitFrom(x.is, x.hull, r, o)

FleetInv ==
    /\ scanned \in Scans /\ order \in Orders
    /\ cards # Nowhere => \E r \in Scans, o \in Orders : CardsFrom(cards, r, o)
    /\ said # Nil => Says(said, cards, scanned, order)

LEMMA CardsAreHonest ==
    ASSUME NEW x, NEW r, NEW o, CardsFrom(x, r, o)
    PROVE  Heads(x.listed) /\ \A c \in Range(x.listed) : MayJoin(r, o, c.hull)
<1>1. PICK list : list = x.listed
  OBVIOUS
<1>2. CASE list = FleetSupport(r, o, SupportNeeds(r, o)).listed
  BY <1>1, <1>2, SupportNeedsAre, ListedMayJoin DEF CardsFrom
<1>3. CASE \E s \in ScenarioProfiles : list = Additions(r, o, Deficiencies(r, o, s))
  BY <1>1, <1>3, AddedMayJoin DEF CardsFrom
<1> QED BY <1>1, <1>2, <1>3 DEF CardsFrom

\* What the advice of a fleet claims of its categories, its needs and its cards.
AdviceHeld(a, r, o) ==
    LET needs == {n.need : n \in SupportNeeds(r, o)} IN
    /\ \A l \in DOMAIN a.categories, c \in UNION {Range(a.categories[k]) : k \in DOMAIN a.categories} :
          c \in Range(a.categories[l]) => MayJoin(r, o, c.hull) /\ l \in c.logistic
    /\ a.unmet \subseteq needs
    /\ \A c \in Range(a.listed) : c.supports \cap a.unmet = {} /\ c.supports \subseteq needs

LEMMA AdviceIsHeld ==
    ASSUME NEW r, NEW o, Asked(r, o), NEW a, a = FleetSupport(r, o, SupportNeeds(r, o))
    PROVE  AdviceHeld(a, r, o)
<1>1. PICK needs : needs = SupportNeeds(r, o)
  OBVIOUS
<1>2. FairNeeds(needs)
  BY <1>1, SupportNeedsAre
<1> DEFINE pool == FleetPool(r, o, needs)
           names == {n.need : n \in needs}
<1>3. /\ a.listed \in Seq(pool)
      /\ \A l \in DOMAIN a.categories : a.categories[l] \in Seq({c \in pool : c.supports \cap AskedOf(needs, l) # {}})
      /\ a.unmet = names \ UNION {c.supports : c \in pool}
  BY <1>1, <1>2, AdviceIs
<1>4. ASSUME NEW c \in pool
      PROVE  /\ MayJoin(r, o, c.hull)
             /\ c.supports = {n.need : n \in Supports(r, needs, c.hull)} /\ c.logistic = {n.logistic : n \in Supports(r, needs, c.hull)}
             /\ c.supports \subseteq names
  <2>1. MayJoin(r, o, c.hull)
    BY <1>2, RankedMayJoin
  <2>2. c.supports = {n.need : n \in Supports(r, needs, c.hull)} /\ c.logistic = {n.logistic : n \in Supports(r, needs, c.hull)}
    BY <1>2, FleetPoolIs
  <2>3. Supports(r, needs, c.hull) \subseteq needs
    BY SupportsAre
  <2> QED BY <2>1, <2>2, <2>3
<1>5. \A n, m \in needs : n.need = m.need => n.logistic = m.logistic
  <2>1. \A n \in needs : n.logistic = (n.need \in LogisticsNeeds)
    BY <1>1 DEF SupportNeeds, FleetNeed
  <2> QED BY <2>1
<1> HIDE DEF pool, names
<1>6. \A c \in Range(a.listed) : c.supports \cap a.unmet = {} /\ c.supports \subseteq names
  <2> SUFFICES ASSUME NEW c \in Range(a.listed) PROVE c.supports \cap a.unmet = {} /\ c.supports \subseteq names
    OBVIOUS
  <2>1. PICK i \in DOMAIN a.listed : a.listed[i] = c
    BY DEF Range
  <2>2. c \in pool
    BY <1>3, <2>1
  <2> QED BY <1>3, <1>4, <2>2
<1>7. a.unmet \subseteq names
  BY <1>3
<1>8. ASSUME NEW l \in DOMAIN a.categories, NEW c, c \in Range(a.categories[l])
      PROVE  MayJoin(r, o, c.hull) /\ l \in c.logistic
  <2> DEFINE S == {d \in pool : d.supports \cap AskedOf(needs, l) # {}}
  <2>1. PICK list \in Seq(S) : list = a.categories[l]
    BY <1>3
  <2>2. PICK i \in DOMAIN list : list[i] = c
    BY <1>8, <2>1 DEF Range
  <2>3. c \in S
    <3> HIDE DEF S
    <3> QED BY <2>2
  <2>4. c \in pool /\ c.supports \cap AskedOf(needs, l) # {}
    BY <2>3
  <2>5. PICK m \in needs : m.logistic = l /\ m.need \in c.supports
    BY <2>4 DEF AskedOf
  <2>6. PICK n \in Supports(r, needs, c.hull) : n.need = m.need
    BY <1>4, <2>4, <2>5
  <2>7. n \in needs
    BY <2>6, SupportsAre
  <2>8. n.logistic = l
    BY <1>5, <2>5, <2>6, <2>7
  <2>9. l \in c.logistic
    BY <1>4, <2>4, <2>6, <2>8
  <2> QED BY <1>4, <2>4, <2>9
<1>9. \A l \in DOMAIN a.categories, c \in UNION {Range(a.categories[k]) : k \in DOMAIN a.categories} :
          c \in Range(a.categories[l]) => MayJoin(r, o, c.hull) /\ l \in c.logistic
  BY <1>8
<1> QED BY <1>1, <1>6, <1>7, <1>9 DEF AdviceHeld, names

LEMMA AdviceByInvariant == FleetInv => FleetAdviceHolds
<1> SUFFICES ASSUME FleetInv PROVE FleetAdviceHolds
  OBVIOUS
<1> DEFINE current == cards.origin # Nil /\ cards.of = Made
           needs == {n.need : n \in SupportNeeds(scanned, order)}
           advised == /\ \A l \in DOMAIN said.categories, c \in UNION {Range(said.categories[k]) : k \in DOMAIN said.categories} :
                            c \in Range(said.categories[l]) => MayJoin(scanned, order, c.hull) /\ l \in c.logistic
                      /\ said.unmet \subseteq needs
                      /\ \A c \in Range(cards.listed) : c.supports \cap said.unmet = {} /\ c.supports \subseteq needs
           whyNot == current /\ cards.origin = "FLEET_SUPPORT" =>
                        (said.is = "RECOMMENDED" <=> \E c \in Range(cards.listed) : c.hull = said.hull)
           fitted == said.is.is = "generated" => MayJoin(scanned, order, said.hull)
<1>1. current => CardsFrom(cards, scanned, order)
  <2> SUFFICES ASSUME current PROVE CardsFrom(cards, scanned, order)
    OBVIOUS
  <2>1. cards # Nowhere
    BY DEF Nowhere
  <2>2. PICK r \in Scans, o \in Orders : CardsFrom(cards, r, o)
    BY <2>1 DEF FleetInv
  <2>3. <<r, o>> = <<scanned, order>>
    BY <2>2 DEF CardsFrom, Made
  <2>4. r = scanned /\ o = order
    BY <2>3
  <2> QED BY <2>2, <2>4
<1>2. current => Heads(cards.listed) /\ \A c \in Range(cards.listed) : MayJoin(scanned, order, c.hull)
  BY <1>1, CardsAreHonest
<1>3. ASSUME said # Nil, said.kind = "advice" PROVE advised
  <2>1. PICK r, o : r = scanned /\ o = order
    OBVIOUS
  <2>2. PICK a : a = FleetSupport(r, o, SupportNeeds(r, o))
    OBVIOUS
  <2>3. Says(said, cards, r, o)
    BY <1>3, <2>1 DEF FleetInv
  <2>4. /\ Asked(r, o) /\ cards.origin = "FLEET_SUPPORT" /\ CardsFrom(cards, r, o)
        /\ said.categories = a.categories /\ said.unmet = a.unmet
    BY <1>3, <2>2, <2>3 DEF Says
  <2>5. cards.listed = a.listed
    BY <2>2, <2>4 DEF CardsFrom
  <2>6. AdviceHeld(a, r, o)
    BY <2>2, <2>4, AdviceIsHeld
  <2> QED BY <2>1, <2>4, <2>5, <2>6 DEF AdviceHeld
<1>4. ASSUME said # Nil, said.kind = "why" PROVE whyNot
  <2> SUFFICES ASSUME current, cards.origin = "FLEET_SUPPORT"
               PROVE  said.is = "RECOMMENDED" <=> \E c \in Range(cards.listed) : c.hull = said.hull
    OBVIOUS
  <2>1. PICK r, o : r = scanned /\ o = order
    OBVIOUS
  <2>2. PICK list, is, h : list = cards.listed /\ is = said.is /\ h = said.hull
    OBVIOUS
  <2>3. CardsFrom(cards, r, o) /\ Says(said, cards, r, o)
    BY <1>1, <1>4, <2>1 DEF FleetInv
  <2>4. Asked(r, o) /\ list = FleetSupport(r, o, SupportNeeds(r, o)).listed
    BY <2>2, <2>3 DEF CardsFrom
  <2>5. is = FleetAnswer(r, o, h, FleetRanking(r, o, SupportNeeds(r, o)))
    BY <1>4, <2>2, <2>3 DEF Says
  <2>6. is = "RECOMMENDED" <=> \E c \in Range(list) : c.hull = h
    BY <2>4, <2>5, AnswerIsOfTheList
  <2> QED BY <2>2, <2>6
<1>5. ASSUME said # Nil, said.kind = "fit" PROVE fitted
  <2> SUFFICES ASSUME said.is.is = "generated" PROVE MayJoin(scanned, order, said.hull)
    OBVIOUS
  <2>1. PICK r, o : r = scanned /\ o = order
    OBVIOUS
  <2>2. PICK is, h : is = said.is /\ h = said.hull
    OBVIOUS
  <2>3. Says(said, cards, r, o)
    BY <1>5, <2>1 DEF FleetInv
  <2>4. Asked(r, o) /\ FitFrom(is, h, r, o) /\ is.is = "generated"
    BY <1>5, <2>2, <2>3 DEF Says
  <2>5. CASE is = FitOutcome(FleetSupport(r, o, SupportNeeds(r, o)).listed, h)
    <3>1. PICK list : list = FleetSupport(r, o, SupportNeeds(r, o)).listed
      OBVIOUS
    <3>2. \E c \in Range(list) : c.hull = h
      BY <2>4, <2>5, <3>1, FitsAreOfTheList
    <3>3. \A c \in Range(list) : MayJoin(r, o, c.hull)
      BY <2>4, <3>1, SupportNeedsAre, ListedMayJoin
    <3> QED BY <2>1, <2>2, <3>2, <3>3
  <2>6. CASE \E s \in ScenarioProfiles : is = FitOutcome(Additions(r, o, Deficiencies(r, o, s)), h)
    <3>1. PICK s \in ScenarioProfiles : is = FitOutcome(Additions(r, o, Deficiencies(r, o, s)), h)
      BY <2>6
    <3>2. PICK list : list = Additions(r, o, Deficiencies(r, o, s))
      OBVIOUS
    <3>3. \E c \in Range(list) : c.hull = h
      BY <2>4, <3>1, <3>2, FitsAreOfTheList
    <3>4. \A c \in Range(list) : MayJoin(r, o, c.hull)
      BY <2>4, <3>2, AddedMayJoin
    <3> QED BY <2>1, <2>2, <3>3, <3>4
  <2> QED BY <2>4, <2>5, <2>6 DEF FitFrom
<1>6. said # Nil => said.kind \in {"advice", "scenario", "why", "fit"}
  BY DEF FleetInv, Says
<1>7. FleetAdviceHolds <=>
        /\ current => Heads(cards.listed) /\ \A c \in Range(cards.listed) : MayJoin(scanned, order, c.hull)
        /\ said # Nil =>
             CASE said.kind = "advice" -> advised
               [] said.kind = "why" -> whyNot
               [] said.kind = "fit" -> fitted
               [] OTHER -> TRUE
  BY DEF FleetAdviceHolds, Heads
<1> HIDE DEF current, advised, whyNot, fitted
<1>8. said # Nil =>
             CASE said.kind = "advice" -> advised
               [] said.kind = "why" -> whyNot
               [] said.kind = "fit" -> fitted
               [] OTHER -> TRUE
  BY <1>3, <1>4, <1>5, <1>6
<1> QED BY <1>2, <1>7, <1>8

LEMMA FleetInductive == FleetInv /\ [FleetNext]_fleetVars => FleetInv'
<1> SUFFICES ASSUME FleetInv, [FleetNext]_fleetVars PROVE FleetInv'
  OBVIOUS
<1>1. scanned \in Scans /\ order \in Orders /\ (cards # Nowhere => \E r \in Scans, o \in Orders : CardsFrom(cards, r, o))
  BY DEF FleetInv
<1>2. ASSUME NEW r \in Scans, Rescan(r) PROVE FleetInv'
  BY <1>1, <1>2 DEF Rescan, FleetInv
<1>3. ASSUME NEW o \in Orders, ChangeOrder(o) PROVE FleetInv'
  BY <1>1, <1>3 DEF ChangeOrder, FleetInv
<1>4. MayAsk => Asked(scanned, order) /\ scanned' = scanned /\ order' = order
  BY <1>1 DEF MayAsk, Asked
<1>5. CASE AdviseFleet
  <2> DEFINE a == FleetSupport(scanned, order, SupportNeeds(scanned, order))
  <2>1. /\ Asked(scanned, order) /\ scanned' = scanned /\ order' = order
        /\ cards' = [origin |-> "FLEET_SUPPORT", listed |-> a.listed, of |-> <<scanned, order>>]
        /\ said' = [kind |-> "advice", categories |-> a.categories, unmet |-> a.unmet]
    BY <1>4, <1>5 DEF AdviseFleet, Advise, Made
  <2>2. CardsFrom(cards', scanned, order)
    BY <2>1 DEF CardsFrom
  <2>3. Says(said', cards', scanned, order)
    BY <2>1, <2>2 DEF Says
  <2> QED BY <1>1, <2>1, <2>2, <2>3 DEF FleetInv
<1>6. ASSUME NEW s \in ScenarioProfiles, EvaluateScenario(s) PROVE FleetInv'
  <2>1. Asked(scanned, order) /\ scanned' = scanned /\ order' = order
    BY <1>4, <1>6 DEF EvaluateScenario
  <2>2. said'.kind = "scenario"
    BY <1>6 DEF EvaluateScenario
  <2>3. Says(said', cards', scanned, order)
    BY <2>1, <2>2 DEF Says
  <2>4. CASE Divides(scanned, order, s)
    <3> DEFINE list == Additions(scanned, order, Deficiencies(scanned, order, s))
    <3>1. cards' = [origin |-> "SCENARIO", of |-> <<scanned, order>>, listed |-> list]
      BY <1>6, <2>4 DEF EvaluateScenario, Made
    <3>2. CardsFrom(cards', scanned, order)
      BY <2>1, <3>1 DEF CardsFrom
    <3> QED BY <1>1, <2>1, <2>3, <3>2 DEF FleetInv
  <2>5. CASE ~Divides(scanned, order, s)
    <3>1. cards' = cards
      BY <1>6, <2>5 DEF EvaluateScenario
    <3> QED BY <1>1, <2>1, <2>3, <3>1 DEF FleetInv
  <2> QED BY <2>4, <2>5
<1>7. ASSUME NEW h, AskWhyNot(h) PROVE FleetInv'
  <2>1. Asked(scanned, order) /\ scanned' = scanned /\ order' = order /\ cards' = cards
    BY <1>4, <1>7 DEF AskWhyNot
  <2>2. /\ said'.kind = "why" /\ said'.hull = h
        /\ said'.is = FleetAnswer(scanned, order, h, FleetRanking(scanned, order, SupportNeeds(scanned, order)))
    BY <1>7 DEF AskWhyNot
  <2>3. Says(said', cards', scanned, order)
    BY <2>1, <2>2 DEF Says
  <2> QED BY <1>1, <2>1, <2>3 DEF FleetInv
<1>8. ASSUME NEW h, GenerateFit(h) PROVE FleetInv'
  <2>1. Asked(scanned, order) /\ scanned' = scanned /\ order' = order /\ cards' = cards
    BY <1>4, <1>8 DEF GenerateFit
  <2>2. /\ said'.kind = "fit" /\ said'.hull = h
        /\ said'.is = FitOutcome(FleetSupport(scanned, order, SupportNeeds(scanned, order)).listed, h)
    BY <1>8 DEF GenerateFit
  <2>3. Says(said', cards', scanned, order)
    BY <2>1, <2>2 DEF Says, FitFrom
  <2> QED BY <1>1, <2>1, <2>3 DEF FleetInv
<1>9. ASSUME NEW s \in ScenarioProfiles, NEW h, GenerateScenarioFit(s, h) PROVE FleetInv'
  <2> DEFINE fit == FitOutcome(Additions(scanned, order, Deficiencies(scanned, order, s)), h)
  <2>1. Asked(scanned, order) /\ scanned' = scanned /\ order' = order /\ cards' = cards
    BY <1>4, <1>9 DEF GenerateScenarioFit
  <2>2. said' = [kind |-> "fit", hull |-> h, is |-> IF Divides(scanned, order, s) THEN fit ELSE [is |-> "ERROR", profile |-> Nil]]
    BY <1>9 DEF GenerateScenarioFit
  <2>3. /\ said'.kind = "fit" /\ said'.hull = h
        /\ said'.is = fit \/ said'.is = [is |-> "ERROR", profile |-> Nil]
    <3> HIDE DEF fit
    <3> QED BY <2>2
  <2>4. FitFrom(said'.is, h, scanned, order)
    BY <2>3 DEF FitFrom
  <2>5. Says(said', cards', scanned, order)
    BY <2>1, <2>3, <2>4 DEF Says
  <2> QED BY <1>1, <2>1, <2>5 DEF FleetInv
<1>10. CASE AnswerRead
  BY <1>1, <1>10 DEF AnswerRead, FleetInv
<1>11. CASE UNCHANGED fleetVars
  BY <1>11 DEF fleetVars, FleetInv
<1> QED BY <1>2, <1>3, <1>5, <1>6, <1>7, <1>8, <1>9, <1>10, <1>11 DEF FleetNext

LEMMA FleetIsKept == FleetSpec => []FleetInv
<1>1. FleetInit => FleetInv
  BY DEF FleetInit, FleetInv
<1> QED BY <1>1, FleetInductive, PTL DEF FleetSpec

(* For any scans, fleets and orders the advice of recommend_fleet_support and  *)
(* assess_scenario_fleet holds (FleetAdviceHolds): what is listed may join and *)
(* is headed by its best, a category and an unmet need are what they are said  *)
(* to be, explain_fleet_support_candidate agrees with the cards that are of    *)
(* this scan and order, and a fit is generated only for a hull that may join   *)
(* now, however old the cards it was asked from are.                           *)
THEOREM AdviceHolds == FleetSpec => []FleetAdviceHolds
  BY FleetIsKept, AdviceByInvariant, PTL
==============================================================================
