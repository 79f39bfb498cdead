------------------------------ MODULE AdvisorRules ------------------------------
(***************************************************************************)
(* What the advisors share.  Whose a hull is decides how welcome it is     *)
(* (analysis/equipment_affinity.py).  A shortlist keeps varied: after the  *)
(* best, the choice is among those within a tenth of it, while there is    *)
(* one, and falls on what is least like those already chosen.              *)
(***************************************************************************)
EXTENDS Integers, FiniteSets

CONSTANTS
    Nil,        \* no pack, no evidence, no score, no faction
    CommonAt    \* classify_equipment_affinity(common_threshold)

Affinity(owners, asking, approved) ==
    CASE asking \in owners                             -> "NATIVE"
      [] asking \notin owners /\ approved              -> "APPROVED"
      [] ~approved /\ owners = {}                      -> "UNALIGNED"
      [] ~approved /\ asking \notin owners /\ Cardinality(owners) >= CommonAt -> "COMMON"
      [] OTHER                                         -> "FOREIGN"
Preference == [NATIVE |-> 100, APPROVED |-> 90, COMMON |-> 75, UNALIGNED |-> 70, FOREIGN |-> 40]

\* In hundredths; two sets of nothing are alike.
Jaccard(a, b) == IF a \cup b = {} THEN 100 ELSE (100 * Cardinality(a \cap b)) \div Cardinality(a \cup b)

Competitive(c, best) == 100 * c.score >= 90 * best

\* A choice is made by a tuple of reasons, the first that differs deciding.
Exceeds(s, t) == \E i \in DOMAIN s : s[i] > t[i] /\ \A j \in 1..i-1 : s[j] = t[j]

\* A pool in an order, given as its pairs: at each place the one before whom come as many as places before.
InOrder(pool, before) == [n \in 1..Cardinality(pool) |-> CHOOSE c \in pool : Cardinality({d \in pool : <<d, c>> \in before}) = n - 1]
\* Those of a ranking that are kept, as they are ranked.
Kept(ranked, some) ==
    InOrder(some, {<<ranked[p[1]], ranked[p[2]]>> : p \in {q \in (DOMAIN ranked) \X (DOMAIN ranked) : q[1] < q[2]}})

FarAsWell(rest, best) == rest       \* a mutant

\* A far candidate is never taken while a near one is left.
ChoosePool(rest, best) ==
    LET near == {c \in rest : Competitive(c, best)} IN IF near = {} THEN rest ELSE near
================================================================================
