----------------------------- MODULE Workers_proofs -----------------------------
(***************************************************************************)
(* Two of the parts of MCWorkers.  What CandidateSearch guarantees for any *)
(* hull, parts and request: types, the budget, that every candidate        *)
(* honours the request and is legal for the validator, and that the        *)
(* alternatives offered are choices.  And that what AnalysisReports and    *)
(* ResultCache reuse is what would be computed, for any files, entities,   *)
(* edits and commands, up to the files that no fingerprint declares.       *)
(***************************************************************************)
EXTENDS CandidateSearch, AnalysisReports, ResultCache, Counting

------------------------------------------------------------------------------
(* The candidate search.                                                     *)

\* The hulls' and the parts' numbers, as the steps use them.
LEMMA Costs ==
    ASSUME TypeOK
    PROVE  /\ OpLimit \in Nat
           /\ \A m \in MountIds : \A w \in Affordable(m) :
                /\ w \in DOMAIN Weapon /\ w \in req.allowed \ req.denied
                /\ m \in DOMAIN req.locked => w = req.locked[m]
                /\ Weapon[w].op \in Nat /\ spent + Weapon[w].op <= OpLimit
  <1>1. hull \in Hulls /\ req \in Requests /\ spent \in Nat
    BY DEF TypeOK
  <1>2. OpLimit \in Nat
    BY <1>1, SearchAssumption DEF OpLimit
  <1>3. ASSUME NEW m \in MountIds, NEW w \in Affordable(m)
        PROVE  /\ w \in DOMAIN Weapon /\ w \in req.allowed \ req.denied
               /\ m \in DOMAIN req.locked => w = req.locked[m]
               /\ Weapon[w].op \in Nat /\ spent + Weapon[w].op <= OpLimit
    <2>1. w \in Eligible(m) /\ spent + Weapon[w].op <= OpLimit
      BY <1>3 DEF Affordable
    <2>2. /\ w \in req.allowed \ req.denied /\ Weapon[w].op # Unknown
          /\ m \in DOMAIN req.locked => w = req.locked[m]
      BY <2>1 DEF Eligible
    <2>3. w \in DOMAIN Weapon
      BY <1>1, <2>2, SearchAssumption
    <2>4. QED
      BY <2>1, <2>2, <2>3, SearchAssumption
  <1>4. QED
    BY <1>2, <1>3

LEMMA Quotient ==
    ASSUME NEW r \in Nat, NEW u \in Nat \ {0}
    PROVE  r \div u \in Nat /\ r % u \in Nat
  OBVIOUS

LEMMA MountsCounted ==
    ASSUME hull \in Hulls
    PROVE  IsFiniteSet(MountIds) /\ Cardinality(MountIds) \in Nat
  <1>1. Len(hull.mounts) \in Nat /\ MountIds = 1..Len(hull.mounts)
    BY SearchAssumption DEF MountIds
  <1>2. \A n \in Nat : IsFiniteSet(1..n)
    BY FS_Interval
  <1>3. IsFiniteSet(MountIds)
    BY <1>1, <1>2
  <1>4. QED
    BY <1>3, FS_CardinalityType

\* A weapon more on a fit is a fit.
LEMMA MountOne ==
    ASSUME NEW D, NEW S, NEW f \in Partial(D, S), NEW m \in D, NEW w \in S
    PROVE  [k \in DOMAIN f \cup {m} |-> IF k = m THEN w ELSE f[k]] \in Partial(D, S)
  <1>1. PICK E \in SUBSET D : f \in [E -> S]
    BY DEF Partial
  <1>2. DOMAIN f \cup {m} \in SUBSET D
    BY <1>1
  <1>3. [k \in DOMAIN f \cup {m} |-> IF k = m THEN w ELSE f[k]] \in [DOMAIN f \cup {m} -> S]
    BY <1>1
  <1>4. QED
    BY <1>2, <1>3 DEF Partial

\* What the vent allocation buys is counted, and what is validated is a fit.
LEMMA CandidateTyped ==
    ASSUME TypeOK, NEW a \in Allocations
    PROVE  /\ [fit |-> Candidate(a[1], a[2]), verdict |-> Verdict(hull, Candidate(a[1], a[2])),
               rank |-> IF seed = 0 THEN 0 ELSE SeedRank,
               mount |-> IF seed = 0 THEN 0 ELSE SeedMount] \in CandidateType
  <1> USE DEF TypeOK
  <1>1. hull \in Hulls /\ spent \in Nat /\ OpLimit \in Nat
    BY Costs
  <1>2. a[1] \in Nat /\ a[2] \in Nat
    <2>1. CASE ~FluxKnown
      BY <2>1 DEF Allocations
    <2>2. CASE FluxKnown
      <3>1. hull.unit # Unknown /\ hull.maxVents # Unknown /\ hull.maxCaps # Unknown /\ Remaining > 0
        BY <2>2 DEF FluxKnown
      <3>2. hull.unit \in Nat \ {0} /\ hull.maxVents \in Nat /\ hull.maxCaps \in Nat /\ Remaining \in Nat
        BY <1>1, <3>1, SearchAssumption DEF Remaining
      <3>3. Remaining \div hull.unit \in Nat
        BY <3>2, Quotient
      <3> DEFINE units == Remaining \div hull.unit
      <3>4. PICK v \in 0..AtMost(hull.maxVents, units) : a = <<v, AtMost(hull.maxCaps, units - v)>>
        BY <2>2 DEF Allocations
      <3>5. v \in Nat /\ v <= units
        BY <3>2, <3>3, <3>4 DEF AtMost
      <3>6. AtMost(hull.maxCaps, units - v) \in Nat
        BY <3>2, <3>3, <3>5 DEF AtMost
      <3>7. QED
        BY <3>4, <3>5, <3>6
    <2>3. QED
      BY <2>1, <2>2
  <1>3. [w \in wings |-> 1] \in Partial(DOMAIN Wing, {1})
    BY DEF Partial
  <1>4. Verdict(hull, Candidate(a[1], a[2])) \in {"LEGAL", "ILLEGAL", "NOT_DETERMINABLE"}
    BY DEF Verdict
  <1>5. seed # 0 => SeedRank \in Nat /\ SeedMount \in Nat
    <2>1. SUFFICES ASSUME seed # 0 PROVE SeedRank \in Nat /\ SeedMount \in Nat
      OBVIOUS
    <2>3. Cardinality(MountIds) \in Nat
      BY MountsCounted
    <2>4. req.depth \in Nat /\ seed \in 0..(req.depth * Cardinality(MountIds))
      BY SearchAssumption DEF LastSeed
    <2>5. Cardinality(MountIds) # 0
      BY <2>1, <2>3, <2>4
    <2> DEFINE c == Cardinality(MountIds)
              k == seed - 1
    <2>6. c \in Nat \ {0} /\ k \in Nat
      BY <2>1, <2>3, <2>4, <2>5
    <2>7. k \div c \in Nat /\ k % c \in Nat
      BY <2>6, Quotient
    <2>8. QED
      BY <2>7 DEF SeedRank, SeedMount
  <1>6. QED
    BY <1>2, <1>3, <1>4, <1>5 DEF CandidateType, Candidate

------------------------------------------------------------------------------
(* Types, for any hull, parts and request.                                  *)

\* What the other phases consider costs a number and was asked for.
LEMMA EligibleParts ==
    ASSUME TypeOK
    PROVE  /\ \A x \in EligibleMods :
                x \in DOMAIN Hullmod /\ x \in req.allowedMods \ req.deniedMods /\ ModCost(hull, x) \in Nat
           /\ \A w \in EligibleWings :
                w \in DOMAIN Wing /\ w \in req.allowedWings \ req.deniedWings /\ Wing[w].op \in Nat
  <1>1. hull \in Hulls /\ req \in Requests
    BY DEF TypeOK
  <1>2. \A x \in EligibleMods :
          x \in DOMAIN Hullmod /\ x \in req.allowedMods \ req.deniedMods /\ ModCost(hull, x) # Unknown
    BY <1>1, SearchAssumption DEF EligibleMods
  <1>3. \A w \in EligibleWings :
          w \in DOMAIN Wing /\ w \in req.allowedWings \ req.deniedWings /\ Wing[w].op # Unknown
    BY <1>1, SearchAssumption DEF EligibleWings
  <1>4. QED
    BY <1>1, <1>2, <1>3, SearchAssumption

\* The steps of a build, by what they add to it.
LEMMA Steps ==
    ASSUME TypeOK
    PROVE  /\ FillMount => \/ UNCHANGED <<weapons, spent>>
                          \/ \E m \in MountIds : \E w \in Affordable(m) :
                               /\ Fillable(m)
                               /\ weapons' = [k \in DOMAIN weapons \cup {m} |-> IF k = m THEN w ELSE weapons[k]]
                               /\ spent' = spent + Weapon[w].op
           /\ AddHullmod => \/ UNCHANGED <<mods, spent>>
                           \/ \E x \in EligibleMods :
                                /\ ModCost(hull, x) <= Remaining
                                /\ mods' = mods \cup {x} /\ spent' = spent + ModCost(hull, x)
           /\ AddWing => \/ UNCHANGED <<wings, spent>>
                        \/ \E w \in EligibleWings :
                             /\ Wing[w].op <= Remaining
                             /\ wings' = wings \cup {w} /\ spent' = spent + Wing[w].op
  <1>1. ASSUME FillMount
        PROVE  \/ UNCHANGED <<weapons, spent>>
               \/ \E m \in MountIds : \E w \in Affordable(m) :
                    /\ Fillable(m)
                    /\ weapons' = [k \in DOMAIN weapons \cup {m} |-> IF k = m THEN w ELSE weapons[k]]
                    /\ spent' = spent + Weapon[w].op
    <2>1. rest \subseteq MountIds
      BY <1>1 DEF FillMount, TypeOK
    <2>2. QED
      BY <1>1, <2>1 DEF FillMount
  <1>2. ASSUME AddHullmod
        PROVE  \/ UNCHANGED <<mods, spent>>
               \/ \E x \in EligibleMods :
                    /\ ModCost(hull, x) <= Remaining
                    /\ mods' = mods \cup {x} /\ spent' = spent + ModCost(hull, x)
    <2>1. rest \subseteq EligibleMods
      BY <1>2 DEF AddHullmod, TypeOK
    <2>2. QED
      BY <1>2, <2>1 DEF AddHullmod
  <1>3. ASSUME AddWing
        PROVE  \/ UNCHANGED <<wings, spent>>
               \/ \E w \in EligibleWings :
                    /\ Wing[w].op <= Remaining
                    /\ wings' = wings \cup {w} /\ spent' = spent + Wing[w].op
    <2>1. rest \subseteq EligibleWings
      BY <1>3 DEF AddWing, TypeOK
    <2>2. QED
      BY <1>3, <2>1 DEF AddWing
  <1>4. QED
    BY <1>1, <1>2, <1>3

LEMMA AskedStays == [Next]_vars => hull' = hull /\ req' = req
  BY DEF Next, vars, asked, FillMount, AddHullmod, AddWing, NextPhase, Validate, NextSeed, NextPath,
         EndSearch, Offer, Return, Returned

------------------------------------------------------------------------------
(* Types, for any hull, parts and request.                                  *)
THEOREM TypeCorrect == Spec => []TypeOK
  <1>1. Init => TypeOK
    <2> SUFFICES ASSUME Init PROVE TypeOK
      OBVIOUS
    <2>1. /\ hull \in Hulls /\ req \in Requests /\ spent = 0 /\ path = 1 /\ seed = 0
          /\ phase = "mounts" /\ rest = MountIds /\ mods = {} /\ wings = {}
      BY DEF Init
    <2>2. PathCount \in Nat \ {0}
      BY <2>1, SearchAssumption DEF PathCount, AtMost
    <2>3. req.depth \in Nat /\ Cardinality(MountIds) \in Nat
      BY <2>1, MountsCounted, SearchAssumption
    <2>4. LastSeed \in Nat
      BY <2>3 DEF LastSeed
    <2>5. weapons \in Partial(MountIds, DOMAIN Weapon)
      BY DEF Init, NoWeapons, Partial
    <2>6. results \in [1..PathCount -> Seq(CandidateType)]
      BY <2>2 DEF Init
    <2>7. QED
      BY <2>1, <2>2, <2>4, <2>5, <2>6 DEF TypeOK, Phases
  <1>2. TypeOK /\ [Next]_vars => TypeOK'
    <2> SUFFICES ASSUME TypeOK, [Next]_vars PROVE TypeOK'
      OBVIOUS
    <2>0. /\ hull \in Hulls /\ req \in Requests /\ spent \in Nat /\ OpLimit \in Nat
          /\ path \in 1..PathCount /\ seed \in 0..LastSeed /\ phase \in Phases
          /\ weapons \in Partial(MountIds, DOMAIN Weapon)
          /\ mods \in SUBSET DOMAIN Hullmod /\ wings \in SUBSET DOMAIN Wing
          /\ results \in [1..PathCount -> Seq(CandidateType)]
      BY Costs DEF TypeOK
    <2>1. /\ PathCount \in Nat /\ req.depth \in Nat /\ Cardinality(MountIds) \in Nat
      BY <2>0, MountsCounted, SearchAssumption DEF PathCount, AtMost
    <2>2. LastSeed \in Nat
      BY <2>1 DEF LastSeed
    <2>3. hull' = hull /\ req' = req
      BY AskedStays
    <2>4. /\ MountIds' = MountIds /\ PathCount' = PathCount /\ LastSeed' = LastSeed
          /\ CandidateType' = CandidateType /\ EligibleMods' = EligibleMods /\ EligibleWings' = EligibleWings
      BY <2>3 DEF MountIds, PathCount, LastSeed, CandidateType, EligibleMods, EligibleWings
    <2>5. ASSUME FillMount PROVE TypeOK'
      <3>1. weapons' \in Partial(MountIds, DOMAIN Weapon) /\ spent' \in Nat
        <4>1. CASE UNCHANGED <<weapons, spent>>
          BY <2>0, <4>1
        <4>2. CASE ~UNCHANGED <<weapons, spent>>
          <5>0. PICK m \in MountIds : \E w \in Affordable(m) :
                  /\ weapons' = [k \in DOMAIN weapons \cup {m} |-> IF k = m THEN w ELSE weapons[k]]
                  /\ spent' = spent + Weapon[w].op
            BY <2>5, <4>2, Steps
          <5>1. PICK w \in Affordable(m) :
                  /\ weapons' = [k \in DOMAIN weapons \cup {m} |-> IF k = m THEN w ELSE weapons[k]]
                  /\ spent' = spent + Weapon[w].op
            BY <5>0
          <5>2. w \in DOMAIN Weapon /\ Weapon[w].op \in Nat
            BY Costs
          <5>3. [k \in DOMAIN weapons \cup {m} |-> IF k = m THEN w ELSE weapons[k]] \in Partial(MountIds, DOMAIN Weapon)
            BY <2>0, <5>2, MountOne
          <5>4. QED
            BY <2>0, <5>1, <5>2, <5>3
        <4>3. QED
          BY <4>1, <4>2
      <3>2. /\ phase = "mounts" /\ rest' \subseteq rest
            /\ UNCHANGED <<path, seed, phase, mods, wings, results>>
        BY <2>5 DEF FillMount
      <3>3. QED
        BY <2>0, <2>3, <2>4, <3>1, <3>2 DEF TypeOK
    <2>6. ASSUME AddHullmod PROVE TypeOK'
      <3>1. mods' \in SUBSET DOMAIN Hullmod /\ spent' \in Nat
        BY <2>0, <2>6, Steps, EligibleParts
      <3>2. /\ phase = "hullmods" /\ rest' \subseteq rest
            /\ UNCHANGED <<path, seed, phase, weapons, wings, results>>
        BY <2>6 DEF AddHullmod
      <3>3. QED
        BY <2>0, <2>3, <2>4, <3>1, <3>2 DEF TypeOK
    <2>7. ASSUME AddWing PROVE TypeOK'
      <3>1. wings' \in SUBSET DOMAIN Wing /\ spent' \in Nat
        BY <2>0, <2>7, Steps, EligibleParts
      <3>2. /\ phase = "wings" /\ rest' \subseteq rest
            /\ UNCHANGED <<path, seed, phase, weapons, mods, results>>
        BY <2>7 DEF AddWing
      <3>3. QED
        BY <2>0, <2>3, <2>4, <3>1, <3>2 DEF TypeOK
    <2>8. ASSUME NextPhase PROVE TypeOK'
      <3>1. /\ phase' \in Phases
            /\ phase' = "hullmods" => rest' = EligibleMods
            /\ phase' = "wings" => rest' = EligibleWings
            /\ phase' # "mounts"
            /\ UNCHANGED <<path, seed, weapons, mods, wings, spent, results>>
        BY <2>8 DEF NextPhase, Phases, chosen
      <3>2. QED
        BY <2>0, <2>3, <2>4, <3>1 DEF TypeOK
    <2>9. ASSUME Validate PROVE TypeOK'
      <3>1. /\ phase' = "built" /\ UNCHANGED <<path, seed, weapons, mods, wings, spent>>
        BY <2>9 DEF Validate, chosen
      <3>2. \/ results' = results
            \/ \E c \in CandidateType : results' = [results EXCEPT ![path] = Append(@, c)]
        BY <2>9, CandidateTyped DEF Validate
      <3>3. results' \in [1..PathCount -> Seq(CandidateType)]
        BY <2>0, <3>2
      <3>4. QED
        BY <2>0, <2>3, <2>4, <3>1, <3>3 DEF TypeOK, Phases
    <2>10. ASSUME NEW p, NEW n, p \in 1..PathCount, n \in 0..LastSeed, StartBuild(p, n), UNCHANGED results
           PROVE  TypeOK'
      <3>1. weapons' \in Partial(MountIds, DOMAIN Weapon)
        BY <2>10 DEF StartBuild, NoWeapons, Partial
      <3>2. /\ path' = p /\ seed' = n /\ phase' = "mounts" /\ rest' = MountIds
            /\ mods' = {} /\ wings' = {} /\ spent' = 0
        BY <2>10 DEF StartBuild
      <3>3. QED
        BY <2>0, <2>3, <2>4, <2>10, <3>1, <3>2 DEF TypeOK, Phases
    <2>11. ASSUME NextSeed PROVE TypeOK'
      <3>1. seed + 1 \in 0..LastSeed
        BY <2>0, <2>2, <2>11 DEF NextSeed, PathDone
      <3>2. QED
        BY <2>0, <2>10, <2>11, <3>1 DEF NextSeed
    <2>12. ASSUME NextPath PROVE TypeOK'
      <3>1. path + 1 \in 1..PathCount
        BY <2>0, <2>1, <2>12 DEF NextPath
      <3>2. QED
        BY <2>2, <2>10, <2>12, <3>1 DEF NextPath
    <2>13. ASSUME EndSearch \/ Offer \/ Return \/ Returned \/ UNCHANGED vars PROVE TypeOK'
      <3>1. /\ phase' \in {"merged", "done"} \/ (phase' = phase /\ rest' = rest)
            /\ UNCHANGED <<path, seed, weapons, mods, wings, spent, results>>
        BY <2>13 DEF EndSearch, Offer, Return, Returned, vars, chosen
      <3>2. QED
        BY <2>0, <2>3, <2>4, <3>1 DEF TypeOK, Phases
    <2>14. QED
      BY <2>5, <2>6, <2>7, <2>8, <2>9, <2>11, <2>12, <2>13 DEF Next
  <1>3. QED
    BY <1>1, <1>2, PTL DEF Spec

(* At no point has a build spent more than the hull has: each selection is *)
(* made against what the ones before it left.                              *)
THEOREM BudgetIsKept == Spec => []BudgetKept
  <1>1. Init => BudgetKept
    <2> SUFFICES ASSUME Init PROVE BudgetKept
      OBVIOUS
    <2>1. hull \in Hulls /\ spent = 0
      BY DEF Init
    <2>2. OpLimit \in Nat
      BY <2>1, SearchAssumption DEF OpLimit
    <2>3. QED
      BY <2>1, <2>2 DEF BudgetKept
  <1>2. TypeOK /\ BudgetKept /\ [Next]_vars => BudgetKept'
    <2> SUFFICES ASSUME TypeOK, BudgetKept, [Next]_vars PROVE BudgetKept'
      OBVIOUS
    <2>1. OpLimit' = OpLimit /\ OpLimit \in Nat /\ spent \in Nat /\ spent <= OpLimit
      BY AskedStays, Costs DEF OpLimit, BudgetKept, TypeOK
    <2>2. ASSUME FillMount PROVE spent' <= OpLimit
      <3>1. CASE UNCHANGED <<weapons, spent>>
        BY <2>1, <3>1
      <3>2. CASE ~UNCHANGED <<weapons, spent>>
        <4>1. \E m \in MountIds : \E w \in Affordable(m) : spent' = spent + Weapon[w].op
          BY <2>2, <3>2, Steps
        <4>2. QED
          BY <4>1, Costs
      <3>3. QED
        BY <3>1, <3>2
    <2>3. ASSUME AddHullmod PROVE spent' <= OpLimit
      BY <2>1, <2>3, Steps, EligibleParts DEF Remaining
    <2>4. ASSUME AddWing PROVE spent' <= OpLimit
      BY <2>1, <2>4, Steps, EligibleParts DEF Remaining
    <2>5. ASSUME NextSeed \/ NextPath PROVE spent' <= OpLimit
      BY <2>1, <2>5 DEF NextSeed, NextPath, StartBuild
    <2>6. ASSUME NextPhase \/ Validate \/ EndSearch \/ Offer \/ Return \/ Returned \/ UNCHANGED vars
          PROVE  spent' <= OpLimit
      BY <2>1, <2>6 DEF NextPhase, Validate, EndSearch, Offer, Return, Returned, vars, chosen
    <2>7. QED
      BY <2>1, <2>2, <2>3, <2>4, <2>5, <2>6 DEF Next, BudgetKept
  <1>3. QED
    BY <1>1, <1>2, TypeCorrect, PTL DEF Spec

(* Every fit under way and every candidate honours the request: locks,     *)
(* emptied mounts, and what is allowed or denied, whatever the seeds ask.  *)
THEOREM RequestIsHonoured == Spec => []RequestHonoured
  <1>1. Init => RequestHonoured
    <2> SUFFICES ASSUME Init PROVE RequestHonoured
      OBVIOUS
    <2>1. DOMAIN weapons = {} /\ mods = {} /\ wings = {}
      BY DEF Init, NoWeapons
    <2>2. \A p \in DOMAIN results : DOMAIN results[p] = {}
      BY DEF Init
    <2>3. QED
      BY <2>1, <2>2 DEF RequestHonoured, Honours
  <1>2. TypeOK /\ RequestHonoured /\ [Next]_vars => RequestHonoured'
    <2> SUFFICES ASSUME TypeOK, RequestHonoured, [Next]_vars PROVE RequestHonoured'
      OBVIOUS
    <2>1. hull' = hull /\ req' = req /\ results \in [1..PathCount -> Seq(CandidateType)] /\ path \in 1..PathCount
      BY AskedStays DEF TypeOK
    <2>2. Honours(weapons, mods, wings)
      BY DEF RequestHonoured
    <2> DEFINE Held == \A p \in DOMAIN results : \A k \in DOMAIN results[p] :
                          Honours(results[p][k].fit.weapons, results[p][k].fit.mods, DOMAIN results[p][k].fit.wings)
    <2>4. Held
      BY DEF RequestHonoured
    <2>5. ASSUME Honours(weapons', mods', wings'), UNCHANGED results PROVE RequestHonoured'
      <3>1. Held'
        BY <2>1, <2>4, <2>5 DEF Honours
      <3>2. Honours(weapons, mods, wings)'
        BY <2>1, <2>5 DEF Honours
      <3>3. QED
        BY <3>1, <3>2 DEF RequestHonoured
    <2>6. ASSUME FillMount PROVE RequestHonoured'
      <3>1. UNCHANGED <<mods, wings, results>>
        BY <2>6 DEF FillMount
      <3>2. CASE UNCHANGED <<weapons, spent>>
        BY <2>2, <2>5, <3>1, <3>2
      <3>3. CASE ~UNCHANGED <<weapons, spent>>
        <4>0. PICK m \in MountIds : \E w \in Affordable(m) :
                /\ Fillable(m)
                /\ weapons' = [k \in DOMAIN weapons \cup {m} |-> IF k = m THEN w ELSE weapons[k]]
          BY <2>6, <3>3, Steps
        <4>1. PICK w \in Affordable(m) :
                weapons' = [k \in DOMAIN weapons \cup {m} |-> IF k = m THEN w ELSE weapons[k]]
          BY <4>0
        <4>2. /\ m \notin req.empty /\ w \in req.allowed \ req.denied
              /\ m \in DOMAIN req.locked => w = req.locked[m]
          BY <4>0, Costs DEF Fillable
        <4>3. Honours(weapons', mods, wings)
          BY <2>2, <4>1, <4>2 DEF Honours
        <4>4. QED
          BY <2>5, <3>1, <4>3
      <3>4. QED
        BY <3>2, <3>3
    <2>7. ASSUME AddHullmod PROVE RequestHonoured'
      <3>1. UNCHANGED <<weapons, wings, results>>
        BY <2>7 DEF AddHullmod
      <3>2. mods' = mods \/ \E x \in EligibleMods : mods' = mods \cup {x}
        BY <2>7, Steps
      <3>3. Honours(weapons, mods', wings)
        BY <2>2, <3>2, EligibleParts DEF Honours
      <3>4. QED
        BY <2>5, <3>1, <3>3
    <2>8. ASSUME AddWing PROVE RequestHonoured'
      <3>1. UNCHANGED <<weapons, mods, results>>
        BY <2>8 DEF AddWing
      <3>2. wings' = wings \/ \E w \in EligibleWings : wings' = wings \cup {w}
        BY <2>8, Steps
      <3>3. Honours(weapons, mods, wings')
        BY <2>2, <3>2, EligibleParts DEF Honours
      <3>4. QED
        BY <2>5, <3>1, <3>3
    <2>9. ASSUME Validate PROVE RequestHonoured'
      <3>1. UNCHANGED <<weapons, mods, wings>>
        BY <2>9 DEF Validate, chosen
      <3>2. \/ results' = results
            \/ \E c \in CandidateType :
                  /\ results' = [results EXCEPT ![path] = Append(@, c)]
                  /\ c.fit.weapons = weapons /\ c.fit.mods = mods /\ DOMAIN c.fit.wings = wings
        BY <2>9, CandidateTyped DEF Validate, Candidate
      <3>3. CASE results' = results
        BY <2>2, <2>5, <3>1, <3>3
      <3>4. ASSUME NEW c \in CandidateType,
                   results' = [results EXCEPT ![path] = Append(@, c)],
                   c.fit.weapons = weapons, c.fit.mods = mods, DOMAIN c.fit.wings = wings
            PROVE  RequestHonoured'
        <4>1. ASSUME NEW p \in DOMAIN results', NEW k \in DOMAIN results'[p]
              PROVE  Honours(results'[p][k].fit.weapons, results'[p][k].fit.mods, DOMAIN results'[p][k].fit.wings)
          <5>1. p \in DOMAIN results
            BY <2>1, <3>4
          <5>2. CASE p # path
            BY <2>1, <2>4, <3>4, <5>1, <5>2
          <5>3. CASE p = path
            <6>1. results'[p] = Append(results[p], c) /\ results[p] \in Seq(CandidateType)
              BY <2>1, <3>4, <5>3
            <6>2. \/ k \in DOMAIN results[p] /\ results'[p][k] = results[p][k]
                  \/ results'[p][k] = c
              BY <6>1
            <6>3. QED
              BY <2>2, <2>4, <3>4, <5>1, <6>2
          <5>4. QED
            BY <5>2, <5>3
        <4>2. QED
          BY <2>1, <2>2, <3>1, <4>1 DEF RequestHonoured, Honours
      <3>5. QED
        BY <3>2, <3>3, <3>4
    <2>10. ASSUME NextSeed \/ NextPath PROVE RequestHonoured'
      <3>1. DOMAIN weapons' = {} /\ mods' = {} /\ wings' = {} /\ UNCHANGED results
        BY <2>10 DEF NextSeed, NextPath, StartBuild, NoWeapons
      <3>2. QED
        BY <2>5, <3>1 DEF Honours
    <2>11. ASSUME NextPhase \/ EndSearch \/ Offer \/ Return \/ Returned \/ UNCHANGED vars PROVE RequestHonoured'
      <3>1. UNCHANGED <<weapons, mods, wings, results>>
        BY <2>11 DEF NextPhase, EndSearch, Offer, Return, Returned, vars, chosen
      <3>2. QED
        BY <2>2, <2>5, <3>1
    <2>12. QED
      BY <2>6, <2>7, <2>8, <2>9, <2>10, <2>11 DEF Next
  <1>3. QED
    BY <1>1, <1>2, TypeCorrect, PTL DEF Spec

------------------------------------------------------------------------------
\* What a build under way is made of: parts of known cost that go where they
\* are, each considered once.
BuildSound ==
    /\ \A m \in DOMAIN weapons : Fillable(m) /\ weapons[m] \in Eligible(m)
    /\ IsFiniteSet(mods) /\ mods \subseteq EligibleMods
    /\ Cardinality({x \in mods : "Logistics" \in Hullmod[x].tags}) <= MaxLogistics
    /\ IsFiniteSet(wings) /\ wings \subseteq EligibleWings /\ Cardinality(wings) <= OrZero(hull.bays)
    /\ phase = "mounts" => rest \cap DOMAIN weapons = {} /\ mods = {} /\ wings = {}
    /\ phase = "hullmods" => rest \cap mods = {} /\ wings = {}
    /\ phase = "wings" => rest \cap wings = {}

WeaponPoints == [m \in DOMAIN weapons |-> Weapon[weapons[m]].op]
ModPoints    == [x \in mods |-> ModCost(hull, x)]
WingPoints   == [w \in wings |-> Wing[w].op]
PartsCost    == SumFunction(WeaponPoints) + SumFunction(ModPoints) + SumFunction(WingPoints)

\* The parts of a sound build each cost a number of points.
LEMMA PointsCounted ==
    ASSUME TypeOK, BuildSound
    PROVE  /\ IsFiniteSet(DOMAIN weapons) /\ DOMAIN weapons \subseteq MountIds
           /\ \A m \in DOMAIN weapons : weapons[m] \in DOMAIN Weapon /\ Weapon[weapons[m]].op \in Nat
           /\ SumFunction(WeaponPoints) \in Nat
           /\ SumFunction(ModPoints) \in Nat
           /\ SumFunction(WingPoints) \in Nat
<1>1. DOMAIN weapons \subseteq MountIds
  BY DEF TypeOK, Partial
<1>2. IsFiniteSet(DOMAIN weapons)
  BY <1>1, MountsCounted, FS_Subset DEF TypeOK
<1>3. ASSUME NEW m \in DOMAIN weapons PROVE weapons[m] \in DOMAIN Weapon /\ Weapon[weapons[m]].op \in Nat
  <2>1. weapons[m] \in req.allowed /\ Weapon[weapons[m]].op # Unknown /\ req \in Requests
    BY DEF BuildSound, Eligible, TypeOK
  <2> QED BY <2>1, SearchAssumption
<1>4. SumFunction(WeaponPoints) \in Nat
  BY <1>2, <1>3, TotalIsNat DEF WeaponPoints
<1>5. SumFunction(ModPoints) \in Nat
  BY EligibleParts, TotalIsNat DEF ModPoints, BuildSound
<1>6. SumFunction(WingPoints) \in Nat
  BY EligibleParts, TotalIsNat DEF WingPoints, BuildSound
<1> QED BY <1>1, <1>2, <1>3, <1>4, <1>5, <1>6

\* What the validator adds up is the parts and the vents and capacitors.
LEMMA CandidateTotal ==
    ASSUME TypeOK, BuildSound, NEW v \in Nat, NEW c \in Nat
    PROVE  TotalOp(hull, Candidate(v, c)) = PartsCost + (IF v + c > 0 THEN (v + c) * hull.unit ELSE 0)
<1> DEFINE f == Candidate(v, c)
<1>1. /\ f.weapons = weapons /\ f.mods = mods /\ DOMAIN f.wings = wings /\ Flux(f) = v + c
      /\ \A w \in wings : f.wings[w] = 1
  BY DEF Candidate, Flux
<1> HIDE DEF f
<1>2. Found(hull, f) = DOMAIN weapons
  BY <1>1, PointsCounted DEF Found, MountIds
<1>3. Charged(hull, f) \cap DOMAIN Hullmod = mods
  BY <1>1, EligibleParts DEF Charged, BuildSound, EligibleMods
<1>4. DOMAIN f.wings \cap DOMAIN Wing = wings
  BY <1>1, EligibleParts DEF BuildSound
<1>5. \A w \in wings : f.wings[w] * Wing[w].op = Wing[w].op
  BY <1>1, EligibleParts DEF BuildSound
<1>6. [m \in Found(hull, f) |-> Weapon[f.weapons[m]].op] = WeaponPoints
  BY <1>1, <1>2 DEF WeaponPoints
<1>7. [x \in Charged(hull, f) \cap DOMAIN Hullmod |-> ModCost(hull, x)] = ModPoints
  BY <1>3 DEF ModPoints
<1>8. [w \in DOMAIN f.wings \cap DOMAIN Wing |-> f.wings[w] * Wing[w].op] = WingPoints
  BY <1>4, <1>5 DEF WingPoints
<1>9. TotalOp(hull, f) = SumFunction(WeaponPoints) + SumFunction(ModPoints) + SumFunction(WingPoints)
                          + IF v + c > 0 THEN (v + c) * hull.unit ELSE 0
  BY <1>1, <1>6, <1>7, <1>8 DEF TotalOp
<1> QED BY <1>9 DEF PartsCost, f

\* What the allocation buys fits the hull and the points that are left.
LEMMA AllocationFits ==
    ASSUME TypeOK, BudgetKept, NEW a \in Allocations
    PROVE  /\ a[1] \in Nat /\ a[2] \in Nat
           /\ hull.maxVents # Unknown => a[1] <= hull.maxVents
           /\ hull.maxCaps # Unknown => a[2] <= hull.maxCaps
           /\ a[1] + a[2] > 0 => /\ Unknown \notin {hull.unit, hull.maxVents, hull.maxCaps}
                                 /\ hull.unit \in Nat /\ (a[1] + a[2]) * hull.unit <= Remaining
<1>1. hull \in Hulls /\ spent \in Nat /\ OpLimit \in Nat
  BY Costs DEF TypeOK
<1>2. (hull.maxVents # Unknown => hull.maxVents \in Nat) /\ (hull.maxCaps # Unknown => hull.maxCaps \in Nat)
  BY <1>1, SearchAssumption
<1>3. CASE ~FluxKnown
  <2>1. a = <<0, 0>>
    BY <1>3 DEF Allocations
  <2> QED BY <1>2, <2>1
<1>4. CASE FluxKnown
  <2>1. hull.unit # Unknown /\ hull.maxVents # Unknown /\ hull.maxCaps # Unknown /\ Remaining > 0
    BY <1>4 DEF FluxKnown
  <2>2. hull.unit \in Nat \ {0} /\ hull.maxVents \in Nat /\ hull.maxCaps \in Nat /\ Remaining \in Nat
    BY <1>1, <2>1, SearchAssumption DEF Remaining
  <2> DEFINE units == Remaining \div hull.unit
  <2>3. units \in Nat /\ units * hull.unit <= Remaining
    BY <2>2
  <2>4. PICK v \in 0..AtMost(hull.maxVents, units) : a = <<v, AtMost(hull.maxCaps, units - v)>>
    BY <1>4 DEF Allocations
  <2> HIDE DEF units
  <2>5. v \in Nat /\ v <= units /\ v <= hull.maxVents
    BY <2>2, <2>3, <2>4 DEF AtMost
  <2>6. a[1] = v /\ a[2] \in Nat /\ a[2] <= hull.maxCaps /\ a[2] <= units - v
    BY <2>2, <2>3, <2>4, <2>5 DEF AtMost
  <2>7. a[1] + a[2] <= units /\ a[1] + a[2] \in Nat
    BY <2>3, <2>5, <2>6
  <2>8. \A i, j, k \in Nat : i <= j => i * k <= j * k
    OBVIOUS
  <2>9. (a[1] + a[2]) * hull.unit <= units * hull.unit
    BY <2>2, <2>3, <2>7, <2>8
  <2>10. (a[1] + a[2]) * hull.unit \in Nat /\ units * hull.unit \in Nat
    BY <2>2, <2>3, <2>7
  <2>11. (a[1] + a[2]) * hull.unit <= Remaining
    BY <2>2, <2>3, <2>9, <2>10
  <2> QED BY <2>1, <2>2, <2>5, <2>6, <2>11
<1> QED BY <1>3, <1>4

\* A sound build within its budget is legal, whatever the allocation buys.
LEMMA BuildIsLegal ==
    ASSUME TypeOK, BuildSound, BudgetKept, spent = PartsCost, Incompatible = {}, NEW a \in Allocations
    PROVE  Verdict(hull, Candidate(a[1], a[2])) = "LEGAL"
<1> DEFINE f == Candidate(a[1], a[2])
<1>0. hull \in Hulls /\ hull # Unknown /\ a[1] \in Nat /\ a[2] \in Nat /\ OpLimit \in Nat /\ spent \in Nat
  BY AllocationFits, SearchAssumption, Costs DEF TypeOK
<1>1. /\ f.weapons = weapons /\ f.mods = mods /\ DOMAIN f.wings = wings /\ Flux(f) = a[1] + a[2]
      /\ f.wings = [w \in wings |-> 1] /\ f.vents = a[1] /\ f.caps = a[2]
  BY DEF Candidate, Flux
<1>t. TotalOp(hull, f) = spent + (IF a[1] + a[2] > 0 THEN (a[1] + a[2]) * hull.unit ELSE 0)
  BY <1>0, CandidateTotal
<1> HIDE DEF f
<1>2. Found(hull, f) = DOMAIN weapons /\ DOMAIN weapons \subseteq MountIds
  BY <1>1, PointsCounted DEF Found, MountIds
<1>3. Charged(hull, f) = mods /\ mods \subseteq DOMAIN Hullmod
  BY <1>1, EligibleParts DEF Charged, BuildSound, EligibleMods
<1>4. wings \subseteq DOMAIN Wing /\ IsFiniteSet(wings)
  BY EligibleParts DEF BuildSound
<1>5. ASSUME NEW m \in DOMAIN weapons
      PROVE  /\ m \in DOMAIN hull.mounts /\ hull.mounts[m].fixed = Unknown /\ weapons[m] \in DOMAIN Weapon
             /\ Takes(hull.mounts[m], weapons[m]) /\ Weapon[weapons[m]].op # Unknown
  BY <1>2, PointsCounted DEF BuildSound, Fillable, Structural, Eligible, MountIds
<1>6. Checked(hull, f) = DOMAIN weapons
  BY <1>2, <1>5 DEF Checked
<1>7. ~\E m \in DOMAIN f.weapons : m \notin DOMAIN hull.mounts
  BY <1>1, <1>5
<1>8. ~\E m \in DOMAIN f.weapons \cap DOMAIN hull.mounts : f.weapons[m] \notin DOMAIN Weapon
  BY <1>1, <1>5
<1>9. ~\E m \in Checked(hull, f) : TooLarge(hull.mounts[m], f.weapons[m])
  BY <1>1, <1>5, <1>6 DEF Takes
<1>10. ~\E m \in Checked(hull, f) : Mismatch(hull.mounts[m], f.weapons[m])
  BY <1>1, <1>5, <1>6 DEF Takes
<1>11. Overridden(hull, f) = {}
  BY <1>1, <1>5 DEF Overridden
<1>12. ~(Cardinality(LogisticsOf(hull, f)) > MaxLogistics)
  <2>1. LogisticsOf(hull, f) = {x \in mods : "Logistics" \in Hullmod[x].tags}
    BY <1>3 DEF LogisticsOf
  <2>2. IsFiniteSet({x \in mods : "Logistics" \in Hullmod[x].tags})
    BY FS_Subset DEF BuildSound
  <2>3. Cardinality(LogisticsOf(hull, f)) \in Nat /\ Cardinality(LogisticsOf(hull, f)) <= MaxLogistics
    BY <2>1, <2>2, FS_CardinalityType DEF BuildSound
  <2> QED BY <2>3, SearchAssumption
<1>13. Cardinality(wings) \in Nat /\ Cardinality(wings) <= OrZero(hull.bays)
  BY <1>4, FS_CardinalityType DEF BuildSound
<1>14. ~(hull.bays # Unknown /\ Flying(f) > hull.bays)
  <2>1. Flying(f) = Cardinality(wings)
    BY <1>1, <1>4, TotalOfOnes DEF Flying
  <2>2. hull.bays # Unknown => hull.bays \in Nat
    BY <1>0, SearchAssumption
  <2> QED BY <1>13, <2>1, <2>2 DEF OrZero
<1>15. ~(DOMAIN f.wings # {} /\ hull.bays = Unknown)
  <2>1. ASSUME hull.bays = Unknown PROVE wings = {}
    <3>1. Cardinality(wings) = 0
      BY <1>13, <2>1 DEF OrZero
    <3> QED BY <1>4, <3>1, FS_EmptySet
  <2> QED BY <1>1, <2>1
<1>16. ~(hull.unit # Unknown /\ hull.maxVents # Unknown /\ f.vents > hull.maxVents)
  <2>1. hull.maxVents # Unknown => hull.maxVents \in Nat
    BY <1>0, SearchAssumption
  <2> QED BY <1>0, <1>1, <2>1, AllocationFits
<1>17. ~(hull.unit # Unknown /\ hull.maxCaps # Unknown /\ f.caps > hull.maxCaps)
  <2>1. hull.maxCaps # Unknown => hull.maxCaps \in Nat
    BY <1>0, SearchAssumption
  <2> QED BY <1>0, <1>1, <2>1, AllocationFits
<1>18. ~(hull.op # Unknown /\ OpComplete(hull, f) /\ TotalOp(hull, f) > hull.op)
  <2>1. SUFFICES ASSUME hull.op # Unknown PROVE ~(TotalOp(hull, f) > hull.op)
    OBVIOUS
  <2>2. OpLimit = hull.op /\ spent <= hull.op /\ Remaining = hull.op - spent
    BY <2>1 DEF OpLimit, BudgetKept, Remaining
  <2>3. CASE a[1] + a[2] > 0
    <3>1. (a[1] + a[2]) * hull.unit \in Nat /\ (a[1] + a[2]) * hull.unit <= Remaining
      BY <1>0, <2>3, AllocationFits
    <3>2. TotalOp(hull, f) = spent + (a[1] + a[2]) * hull.unit
      BY <1>t, <2>3
    <3> DEFINE flux == (a[1] + a[2]) * hull.unit
    <3> HIDE DEF flux
    <3>3. flux \in Nat /\ flux <= Remaining /\ TotalOp(hull, f) = spent + flux
      BY <3>1, <3>2 DEF flux
    <3> QED BY <1>0, <2>2, <3>3
  <2>4. CASE ~(a[1] + a[2] > 0)
    BY <1>0, <1>t, <2>2, <2>4
  <2> QED BY <2>3, <2>4
<1>19. OpComplete(hull, f)
  <2>1. \A m \in Found(hull, f) : Weapon[f.weapons[m]].op # Unknown
    BY <1>1, <1>2, <1>5
  <2>2. \A x \in Charged(hull, f) \cap DOMAIN Hullmod : ModCost(hull, x) # Unknown
    BY <1>3 DEF BuildSound, EligibleMods
  <2>3. \A w \in DOMAIN f.wings \cap DOMAIN Wing : Wing[w].op # Unknown
    BY <1>1 DEF BuildSound, EligibleWings
  <2>4. Flux(f) > 0 => Unknown \notin {hull.unit, hull.maxVents, hull.maxCaps}
    BY <1>1, AllocationFits
  <2> QED BY <2>1, <2>2, <2>3, <2>4 DEF OpComplete
<1>20. Failures(hull, f) = {}
  BY <1>0, <1>1, <1>3, <1>4, <1>7, <1>8, <1>9, <1>10, <1>11, <1>12, <1>14, <1>16, <1>17, <1>18 DEF Failures
<1>21. ~Uncertain(hull, f)
  BY <1>1, <1>5, <1>6, <1>15, <1>19 DEF Uncertain, Takes
<1> QED BY <1>20, <1>21 DEF Verdict, f

\* What a build is made of reads the same after a step of the same search.
LEMMA SoundReads ==
    ASSUME hull' = hull, req' = req
    PROVE  /\ \A m : Fillable(m)' = Fillable(m) /\ Eligible(m)' = Eligible(m)
           /\ EligibleMods' = EligibleMods /\ EligibleWings' = EligibleWings /\ OrZero(hull.bays)' = OrZero(hull.bays)
           /\ MountIds' = MountIds
BY DEF Fillable, Structural, Eligible, EligibleMods, EligibleWings, MountIds, OrZero

LEMMA MountingIsSound ==
    ASSUME TypeOK, BuildSound, spent = PartsCost, [Next]_vars, FillMount
    PROVE  BuildSound' /\ spent' = PartsCost'
<1>0. hull' = hull /\ req' = req
  BY AskedStays
<1>1. UNCHANGED <<phase, mods, wings>> /\ phase = "mounts" /\ mods = {} /\ wings = {} /\ rest \cap DOMAIN weapons = {}
  BY DEF FillMount, BuildSound
<1>2. PICK m \in rest :
        /\ rest' = rest \ {m}
        /\ \/ UNCHANGED <<weapons, spent>>
           \/ /\ Fillable(m)
              /\ \E w \in Affordable(m) :
                   /\ weapons' = [k \in DOMAIN weapons \cup {m} |-> IF k = m THEN w ELSE weapons[k]]
                   /\ spent' = spent + Weapon[w].op
  BY DEF FillMount
<1>3. CASE UNCHANGED <<weapons, spent>>
  <2>1. BuildSound'
    BY <1>0, <1>1, <1>2, <1>3, SoundReads DEF BuildSound
  <2>2. PartsCost' = PartsCost
    BY <1>0, <1>1, <1>3 DEF PartsCost, WeaponPoints, ModPoints, WingPoints, ModCost
  <2> QED BY <1>3, <2>1, <2>2
<1>4. ASSUME Fillable(m), NEW w \in Affordable(m), spent' = spent + Weapon[w].op,
             weapons' = [k \in DOMAIN weapons \cup {m} |-> IF k = m THEN w ELSE weapons[k]]
      PROVE  BuildSound' /\ spent' = PartsCost'
  <2>1. m \in MountIds /\ m \notin DOMAIN weapons
    BY <1>1, <1>2 DEF TypeOK
  <2>2. w \in Eligible(m) /\ Weapon[w].op \in Nat
    BY <2>1, Costs DEF Affordable
  <2>3. DOMAIN weapons' = DOMAIN weapons \cup {m} /\ weapons'[m] = w /\ \A k \in DOMAIN weapons : weapons'[k] = weapons[k]
    BY <1>4, <2>1
  <2>4. BuildSound'
    <3>1. \A k \in DOMAIN weapons' : Fillable(k)' /\ weapons'[k] \in Eligible(k)'
      BY <1>0, <1>4, <2>2, <2>3, SoundReads DEF BuildSound
    <3>2. phase' = "mounts" /\ rest' \cap DOMAIN weapons' = {}
      BY <1>1, <1>2, <2>3
    <3> QED BY <1>0, <1>1, <3>1, <3>2, SoundReads DEF BuildSound
  <2>5. SumFunction(WeaponPoints') = SumFunction(WeaponPoints) + Weapon[w].op
    <3>1. DOMAIN WeaponPoints' = DOMAIN WeaponPoints \cup {m} /\ m \notin DOMAIN WeaponPoints
      BY <2>1, <2>3 DEF WeaponPoints
    <3>2. WeaponPoints'[m] = Weapon[w].op /\ \A k \in DOMAIN WeaponPoints : WeaponPoints'[k] = WeaponPoints[k]
      BY <2>3 DEF WeaponPoints
    <3>3. IsFiniteSet(DOMAIN WeaponPoints) /\ \A k \in DOMAIN WeaponPoints : WeaponPoints[k] \in Nat
      BY PointsCounted DEF WeaponPoints
    <3>4. \A k \in DOMAIN WeaponPoints' : WeaponPoints'[k] \in Int
      BY <2>2, <3>1, <3>2, <3>3
    <3> QED BY <3>1, <3>2, <3>3, <3>4, TotalPutsIn
  <2>6. ModPoints' = ModPoints /\ WingPoints' = WingPoints
    BY <1>0, <1>1 DEF ModPoints, WingPoints, ModCost
  <2>7. spent' = PartsCost'
    BY <1>4, <2>2, <2>5, <2>6, PointsCounted DEF PartsCost
  <2> QED BY <2>4, <2>7
<1> QED BY <1>2, <1>3, <1>4

LEMMA InstallingIsSound ==
    ASSUME TypeOK, BuildSound, spent = PartsCost, [Next]_vars, AddHullmod
    PROVE  BuildSound' /\ spent' = PartsCost'
<1>0. hull' = hull /\ req' = req
  BY AskedStays
<1>1. UNCHANGED <<phase, weapons, wings>> /\ phase = "hullmods" /\ wings = {} /\ rest \cap mods = {} /\ rest \subseteq EligibleMods
  BY DEF AddHullmod, BuildSound, TypeOK
<1>2. PICK x \in rest :
        /\ rest' = rest \ {x}
        /\ \/ UNCHANGED <<mods, spent>>
           \/ /\ "Logistics" \in Hullmod[x].tags => ~LogisticsFull
              /\ mods' = mods \cup {x} /\ spent' = spent + ModCost(hull, x)
  BY DEF AddHullmod
<1>3. CASE UNCHANGED <<mods, spent>>
  <2>1. BuildSound'
    BY <1>0, <1>1, <1>2, <1>3, SoundReads DEF BuildSound
  <2>2. PartsCost' = PartsCost
    BY <1>0, <1>1, <1>3 DEF PartsCost, WeaponPoints, ModPoints, WingPoints, ModCost
  <2> QED BY <1>3, <2>1, <2>2
<1>4. ASSUME "Logistics" \in Hullmod[x].tags => ~LogisticsFull,
             mods' = mods \cup {x}, spent' = spent + ModCost(hull, x)
      PROVE  BuildSound' /\ spent' = PartsCost'
  <2>1. x \notin mods /\ ModCost(hull, x) \in Nat /\ x \in EligibleMods
    BY <1>1, <1>2, EligibleParts
  <2> DEFINE L(S) == {y \in S : "Logistics" \in Hullmod[y].tags}
  <2>2. IsFiniteSet(mods) /\ IsFiniteSet(mods') /\ IsFiniteSet(L(mods)) /\ Cardinality(L(mods)) \in Nat
    BY <1>4, FS_AddElement, FS_Subset, FS_CardinalityType DEF BuildSound
  <2>3. Cardinality(L(mods')) <= MaxLogistics
    <3>1. CASE "Logistics" \notin Hullmod[x].tags
      <4>1. L(mods') = L(mods)
        BY <1>4, <3>1
      <4> QED BY <4>1 DEF BuildSound
    <3>2. CASE "Logistics" \in Hullmod[x].tags
      <4>1. L(mods') = L(mods) \cup {x} /\ x \notin L(mods)
        BY <1>4, <2>1, <3>2
      <4>2. Cardinality(L(mods')) = Cardinality(L(mods)) + 1
        <5> HIDE DEF L
        <5> QED BY <2>2, <4>1, FS_AddElement
      <4>3. ~(Cardinality(L(mods)) >= MaxLogistics)
        BY <1>4, <3>2 DEF LogisticsFull
      <4> HIDE DEF L
      <4> QED BY <2>2, <4>2, <4>3, SearchAssumption
    <3> QED BY <3>1, <3>2
  <2>4. BuildSound'
    <3>1. phase' = "hullmods" /\ rest' \cap mods' = {} /\ wings' = {}
      BY <1>1, <1>2, <1>4
    <3>2. mods' \subseteq EligibleMods
      BY <1>4, <2>1 DEF BuildSound
    <3>3. Cardinality({y \in mods : "Logistics" \in Hullmod[y].tags})' <= MaxLogistics
      BY <2>3
    <3> QED BY <1>0, <1>1, <2>2, <3>1, <3>2, <3>3, SoundReads DEF BuildSound
  <2>5. SumFunction(ModPoints') = SumFunction(ModPoints) + ModCost(hull, x)
    <3>1. DOMAIN ModPoints' = DOMAIN ModPoints \cup {x} /\ x \notin DOMAIN ModPoints
      BY <1>4, <2>1 DEF ModPoints
    <3>2. ModPoints'[x] = ModCost(hull, x) /\ \A k \in DOMAIN ModPoints : ModPoints'[k] = ModPoints[k]
      BY <1>0, <1>4 DEF ModPoints, ModCost
    <3>3. IsFiniteSet(DOMAIN ModPoints) /\ \A k \in DOMAIN ModPoints : ModPoints[k] \in Nat
      BY <2>2, EligibleParts DEF ModPoints, BuildSound
    <3>4. \A k \in DOMAIN ModPoints' : ModPoints'[k] \in Int
      BY <2>1, <3>1, <3>2, <3>3
    <3> QED BY <3>1, <3>2, <3>3, <3>4, TotalPutsIn
  <2>6. WeaponPoints' = WeaponPoints /\ WingPoints' = WingPoints
    BY <1>0, <1>1 DEF WeaponPoints, WingPoints
  <2>7. spent' = PartsCost'
    BY <1>4, <2>1, <2>5, <2>6, PointsCounted DEF PartsCost
  <2> QED BY <2>4, <2>7
<1> QED BY <1>2, <1>3, <1>4

LEMMA FlyingIsSound ==
    ASSUME TypeOK, BuildSound, spent = PartsCost, [Next]_vars, AddWing
    PROVE  BuildSound' /\ spent' = PartsCost'
<1>0. hull' = hull /\ req' = req
  BY AskedStays
<1>1. /\ UNCHANGED <<phase, weapons, mods>> /\ phase = "wings" /\ ~BaysFull
      /\ rest \cap wings = {} /\ rest \subseteq EligibleWings
  BY DEF AddWing, BuildSound, TypeOK
<1>2. PICK w \in rest :
        /\ rest' = rest \ {w}
        /\ \/ UNCHANGED <<wings, spent>>
           \/ wings' = wings \cup {w} /\ spent' = spent + Wing[w].op
  BY DEF AddWing
<1>3. CASE UNCHANGED <<wings, spent>>
  <2>1. BuildSound'
    BY <1>0, <1>1, <1>2, <1>3, SoundReads DEF BuildSound
  <2>2. PartsCost' = PartsCost
    BY <1>0, <1>1, <1>3 DEF PartsCost, WeaponPoints, ModPoints, WingPoints, ModCost
  <2> QED BY <1>3, <2>1, <2>2
<1>4. CASE wings' = wings \cup {w} /\ spent' = spent + Wing[w].op
  <2>1. w \notin wings /\ Wing[w].op \in Nat /\ w \in EligibleWings
    BY <1>1, <1>2, EligibleParts
  <2>2. /\ IsFiniteSet(wings) /\ IsFiniteSet(wings') /\ Cardinality(wings) \in Nat
        /\ Cardinality(wings') = Cardinality(wings) + 1
    BY <1>4, <2>1, FS_AddElement, FS_CardinalityType DEF BuildSound
  <2>3. OrZero(hull.bays) \in Nat
    BY SearchAssumption DEF OrZero, TypeOK
  <2>4. Cardinality(wings') <= OrZero(hull.bays)
    BY <1>1, <2>2, <2>3 DEF BaysFull
  <2>5. BuildSound'
    <3>1. phase' = "wings" /\ rest' \cap wings' = {}
      BY <1>1, <1>2, <1>4
    <3>2. wings' \subseteq EligibleWings
      BY <1>4, <2>1 DEF BuildSound
    <3> QED BY <1>0, <1>1, <2>2, <2>4, <3>1, <3>2, SoundReads DEF BuildSound
  <2>6. SumFunction(WingPoints') = SumFunction(WingPoints) + Wing[w].op
    <3>1. DOMAIN WingPoints' = DOMAIN WingPoints \cup {w} /\ w \notin DOMAIN WingPoints
      BY <1>4, <2>1 DEF WingPoints
    <3>2. WingPoints'[w] = Wing[w].op /\ \A k \in DOMAIN WingPoints : WingPoints'[k] = WingPoints[k]
      BY <1>4 DEF WingPoints
    <3>3. IsFiniteSet(DOMAIN WingPoints) /\ \A k \in DOMAIN WingPoints : WingPoints[k] \in Nat
      BY <2>2, EligibleParts DEF WingPoints, BuildSound
    <3>4. \A k \in DOMAIN WingPoints' : WingPoints'[k] \in Int
      BY <2>1, <3>1, <3>2, <3>3
    <3> QED BY <3>1, <3>2, <3>3, <3>4, TotalPutsIn
  <2>7. WeaponPoints' = WeaponPoints /\ ModPoints' = ModPoints
    BY <1>0, <1>1 DEF WeaponPoints, ModPoints, ModCost
  <2>8. spent' = PartsCost'
    BY <1>4, <2>1, <2>6, <2>7, PointsCounted DEF PartsCost
  <2> QED BY <2>5, <2>8
<1> QED BY <1>2, <1>3, <1>4

\* Nothing built costs nothing.
NothingBuilt ==
    hull \in Hulls /\ weapons = NoWeapons /\ mods = {} /\ wings = {} /\ spent = 0 /\ phase = "mounts"

LEMMA EmptyIsSound == NothingBuilt => BuildSound /\ spent = PartsCost
<1> SUFFICES ASSUME NothingBuilt PROVE BuildSound /\ spent = PartsCost
  OBVIOUS
<1> USE DEF NothingBuilt
<1>1. DOMAIN weapons = {}
  BY DEF NoWeapons
<1>2. OrZero(hull.bays) \in Nat /\ MaxLogistics \in Nat
  BY SearchAssumption DEF OrZero
<1>3. IsFiniteSet({}) /\ Cardinality({}) = 0
  BY FS_EmptySet
<1>4. {x \in mods : "Logistics" \in Hullmod[x].tags} = {}
  OBVIOUS
<1>5. Cardinality(wings) <= OrZero(hull.bays) /\ Cardinality({x \in mods : "Logistics" \in Hullmod[x].tags}) <= MaxLogistics
  BY <1>2, <1>3, <1>4
<1>6. BuildSound
  BY <1>1, <1>3, <1>5 DEF BuildSound
<1>7. SumFunction(WeaponPoints) = 0 /\ SumFunction(ModPoints) = 0 /\ SumFunction(WingPoints) = 0
  BY <1>1, TotalOfNothing DEF WeaponPoints, ModPoints, WingPoints
<1> QED BY <1>6, <1>7 DEF PartsCost

\* Every build is sound and has spent what its parts cost.
LEMMA BuildsAreSound == Spec => [](BuildSound /\ spent = PartsCost)
<1>0. NothingBuilt' => (BuildSound /\ spent = PartsCost)'
  BY EmptyIsSound, PTL
<1>1. Init => BuildSound /\ spent = PartsCost
  BY EmptyIsSound DEF Init, NothingBuilt
<1>2. TypeOK /\ BuildSound /\ spent = PartsCost /\ [Next]_vars => (BuildSound /\ spent = PartsCost)'
  <2> SUFFICES ASSUME TypeOK, BuildSound, spent = PartsCost, [Next]_vars PROVE BuildSound' /\ spent' = PartsCost'
    OBVIOUS
  <2>1. hull' = hull /\ req' = req /\ hull \in Hulls
    BY AskedStays DEF TypeOK
  <2>2. ASSUME UNCHANGED chosen PROVE PartsCost' = PartsCost
    BY <2>1, <2>2 DEF PartsCost, WeaponPoints, ModPoints, WingPoints, ModCost, chosen
  <2>3. CASE FillMount
    BY <2>3, MountingIsSound
  <2>4. CASE AddHullmod
    BY <2>4, InstallingIsSound
  <2>5. CASE AddWing
    BY <2>5, FlyingIsSound
  <2>6. CASE NextPhase
    <3>1. UNCHANGED chosen /\ UNCHANGED <<weapons, mods, wings, spent>>
      BY <2>6 DEF NextPhase, chosen
    <3>2. /\ phase' # "mounts"
          /\ phase' = "hullmods" => mods = {} /\ wings = {}
          /\ phase' = "wings" => wings = {}
      BY <2>6 DEF NextPhase, BuildSound
    <3>3. BuildSound'
      BY <2>1, <3>1, <3>2, SoundReads DEF BuildSound
    <3> QED BY <2>2, <3>1, <3>3
  <2>7. CASE NextSeed \/ NextPath
    <3>1. hull' \in Hulls /\ weapons' = NoWeapons /\ mods' = {} /\ wings' = {} /\ spent' = 0 /\ phase' = "mounts"
      BY <2>1, <2>7 DEF NextSeed, NextPath, StartBuild
    <3>2. NothingBuilt'
      BY <3>1 DEF NothingBuilt, NoWeapons
    <3> QED BY <1>0, <3>2
  <2>8. CASE Validate \/ EndSearch \/ Offer \/ Return \/ Returned \/ UNCHANGED vars
    <3>1. UNCHANGED chosen /\ UNCHANGED <<weapons, mods, wings, spent>>
      BY <2>8 DEF Validate, EndSearch, Offer, Return, Returned, vars, chosen
    <3>2. phase' \in {"built", "merged", "done"} \/ (phase' = phase /\ rest' = rest)
      BY <2>8 DEF Validate, EndSearch, Offer, Return, Returned, vars
    <3>3. BuildSound'
      BY <2>1, <3>1, <3>2, SoundReads DEF BuildSound
    <3> QED BY <2>2, <3>1, <3>3
  <2> QED BY <2>3, <2>4, <2>5, <2>6, <2>7, <2>8 DEF Next
<1> QED BY <1>1, <1>2, TypeCorrect, PTL DEF Spec

(* Every candidate the search generates is LEGAL for the separate          *)
(* validator, and what the search counts as spent is at every step what    *)
(* the validator would charge: for any hull, parts and request, as long as *)
(* no exclusive pairs are documented (the search does not look at them).   *)
THEOREM GeneratedAreLegal == Incompatible = {} => (Spec => []GeneratedIsLegal)
<1> SUFFICES ASSUME Incompatible = {} PROVE Spec => []GeneratedIsLegal
  OBVIOUS
<1> DEFINE AllLegal == \A p \in DOMAIN results : \A k \in DOMAIN results[p] : results[p][k].verdict = "LEGAL"
<1>1. Init => AllLegal
  BY DEF Init
<1>2. TypeOK /\ BudgetKept /\ BuildSound /\ spent = PartsCost /\ AllLegal /\ [Next]_vars => AllLegal'
  <2> SUFFICES ASSUME TypeOK, BudgetKept, BuildSound, spent = PartsCost, AllLegal, [Next]_vars PROVE AllLegal'
    OBVIOUS
  <2>1. results \in [1..PathCount -> Seq(CandidateType)] /\ path \in 1..PathCount
    BY DEF TypeOK
  <2>2. CASE Validate
    <3>1. \/ results' = results
          \/ \E c \in CandidateType : c.verdict = "LEGAL" /\ results' = [results EXCEPT ![path] = Append(@, c)]
      BY <2>2, CandidateTyped, BuildIsLegal DEF Validate
    <3>2. ASSUME NEW c \in CandidateType, c.verdict = "LEGAL", results' = [results EXCEPT ![path] = Append(@, c)] PROVE AllLegal'
      <4>1. ASSUME NEW p \in DOMAIN results', NEW k \in DOMAIN results'[p] PROVE results'[p][k].verdict = "LEGAL"
        <5>1. p \in DOMAIN results
          BY <2>1, <3>2
        <5>2. CASE p # path
          BY <2>1, <3>2, <5>1, <5>2
        <5>3. CASE p = path
          <6>1. results'[p] = Append(results[p], c) /\ results[p] \in Seq(CandidateType)
            BY <2>1, <3>2, <5>3
          <6>2. (k \in DOMAIN results[p] /\ results'[p][k] = results[p][k]) \/ results'[p][k] = c
            BY <6>1
          <6> QED BY <3>2, <5>1, <6>2
        <5> QED BY <5>2, <5>3
      <4> QED BY <4>1
    <3> QED BY <3>1, <3>2
  <2>3. CASE ~Validate
    <3>1. UNCHANGED results
      BY <2>3 DEF Next, vars, FillMount, AddHullmod, AddWing, NextPhase, NextSeed, NextPath, EndSearch, Offer, Return, Returned
    <3> QED BY <3>1
  <2> QED BY <2>2, <2>3
<1>3. TypeOK /\ BuildSound /\ spent = PartsCost /\ AllLegal => GeneratedIsLegal
  <2> SUFFICES ASSUME TypeOK, BuildSound, spent = PartsCost, AllLegal PROVE GeneratedIsLegal
    OBVIOUS
  <2>1. TotalOp(hull, Candidate(0, 0)) = PartsCost + 0
    BY CandidateTotal
  <2>2. PartsCost \in Nat
    BY PointsCounted DEF PartsCost
  <2> QED BY <2>1, <2>2 DEF GeneratedIsLegal
<1>4. Spec => []AllLegal
  <2> HIDE DEF AllLegal
  <2> QED BY <1>1, <1>2, TypeCorrect, BudgetIsKept, BuildsAreSound, PTL DEF Spec
<1> HIDE DEF AllLegal
<1> QED BY <1>3, <1>4, TypeCorrect, BuildsAreSound, PTL

------------------------------------------------------------------------------
\* The orders that are sorted by are lexicographic.
LEMMA LessOfTwo ==
    ASSUME NEW a1 \in Int, NEW a2 \in Int, NEW b1 \in Int, NEW b2 \in Int
    PROVE  Less(<<a1, a2>>, <<b1, b2>>) <=> a1 < b1 \/ (a1 = b1 /\ a2 < b2)
<1>1. DOMAIN <<a1, a2>> = {1, 2} /\ (1..(1 - 1)) = {} /\ (1..(2 - 1)) = {1}
  OBVIOUS
<1> QED BY <1>1 DEF Less

LEMMA LessOfFour ==
    ASSUME NEW a1 \in Int, NEW a2 \in Int, NEW a3 \in Int, NEW a4 \in Int,
           NEW b1 \in Int, NEW b2 \in Int, NEW b3 \in Int, NEW b4 \in Int
    PROVE  Less(<<a1, a2, a3, a4>>, <<b1, b2, b3, b4>>) <=>
             \/ a1 < b1
             \/ a1 = b1 /\ a2 < b2
             \/ a1 = b1 /\ a2 = b2 /\ a3 < b3
             \/ a1 = b1 /\ a2 = b2 /\ a3 = b3 /\ a4 < b4
<1> DEFINE a == <<a1, a2, a3, a4>>
           b == <<b1, b2, b3, b4>>
<1>1. DOMAIN a = {1, 2, 3, 4}
  OBVIOUS
<1>2. (1..(1 - 1)) = {} /\ (1..(2 - 1)) = {1} /\ (1..(3 - 1)) = {1, 2} /\ (1..(4 - 1)) = {1, 2, 3}
  OBVIOUS
<1>3. a[1] = a1 /\ a[2] = a2 /\ a[3] = a3 /\ a[4] = a4 /\ b[1] = b1 /\ b[2] = b2 /\ b[3] = b3 /\ b[4] = b4
  OBVIOUS
<1> HIDE DEF a, b
<1>4. Less(a, b) <=> \E i \in {1, 2, 3, 4} : a[i] < b[i] /\ \A j \in 1..(i - 1) : a[j] = b[j]
  BY <1>1 DEF Less
<1>5. Less(a, b) <=> \/ a[1] < b[1]
                     \/ a[2] < b[2] /\ a[1] = b[1]
                     \/ a[3] < b[3] /\ a[1] = b[1] /\ a[2] = b[2]
                     \/ a[4] < b[4] /\ a[1] = b[1] /\ a[2] = b[2] /\ a[3] = b[3]
  BY <1>2, <1>4
<1> QED BY <1>3, <1>5 DEF a, b

\* What sorts the weapons of a mount tells any two of them apart.
LEMMA WeaponsAreOrdered ==
    ASSUME TypeOK, NEW m
    PROVE  /\ \A x \in Eligible(m) : ~Less(WeaponKey(x), WeaponKey(x))
           /\ \A x, y, z \in Eligible(m) :
                Less(WeaponKey(x), WeaponKey(y)) /\ Less(WeaponKey(y), WeaponKey(z)) => Less(WeaponKey(x), WeaponKey(z))
           /\ \A x, y \in Eligible(m) : x # y => Less(WeaponKey(x), WeaponKey(y)) \/ Less(WeaponKey(y), WeaponKey(x))
<1> DEFINE A(w) == Unless(w \in req.preferred)
           B(w) == CASE profile.priority = "LONG_RANGE" -> 0 - OrZero(Weapon[w].range)
                     [] profile.priority = "PD_FIRST"   -> Unless(Weapon[w].pd)
                     [] OTHER                           -> 0
           C(w) == Weapon[w].op
<1>1. \A w \in Eligible(m) : w \in DOMAIN Weapon /\ w \in Int /\ Weapon[w].op \in Nat /\ OrZero(Weapon[w].range) \in Int
  <2>1. \A w \in Eligible(m) : w \in req.allowed /\ Weapon[w].op # Unknown
    BY DEF Eligible
  <2>2. req \in Requests
    BY DEF TypeOK
  <2> QED BY <2>1, <2>2, SearchAssumption DEF OrZero
<1>2. ASSUME NEW w \in Eligible(m) PROVE A(w) \in Int /\ B(w) \in Int /\ C(w) \in Int /\ w \in Int
  <2>1. Unless(w \in req.preferred) \in Int /\ Unless(Weapon[w].pd) \in Int
    BY DEF Unless
  <2>2. B(w) \in Int
    <3>1. CASE profile.priority = "LONG_RANGE"
      BY <1>1, <3>1
    <3>2. CASE profile.priority = "PD_FIRST"
      BY <2>1, <3>2
    <3>3. CASE profile.priority # "LONG_RANGE" /\ profile.priority # "PD_FIRST"
      BY <3>3
    <3> QED BY <3>1, <3>2, <3>3
  <2> QED BY <1>1, <2>1, <2>2
<1>3. \A w : WeaponKey(w) = <<A(w), B(w), C(w), w>>
  BY DEF WeaponKey
<1> HIDE DEF A, B, C
<1>4. ASSUME NEW x \in Eligible(m), NEW y \in Eligible(m)
      PROVE  Less(WeaponKey(x), WeaponKey(y)) <=>
             \/ A(x) < A(y)
             \/ A(x) = A(y) /\ B(x) < B(y)
             \/ A(x) = A(y) /\ B(x) = B(y) /\ C(x) < C(y)
             \/ A(x) = A(y) /\ B(x) = B(y) /\ C(x) = C(y) /\ x < y
  <2>1. WeaponKey(x) = <<A(x), B(x), C(x), x>> /\ WeaponKey(y) = <<A(y), B(y), C(y), y>>
    BY <1>3
  <2>2. /\ A(x) \in Int /\ B(x) \in Int /\ C(x) \in Int /\ x \in Int
        /\ A(y) \in Int /\ B(y) \in Int /\ C(y) \in Int /\ y \in Int
    BY <1>2
  <2>3. Less(<<A(x), B(x), C(x), x>>, <<A(y), B(y), C(y), y>>) <=>
             \/ A(x) < A(y)
             \/ A(x) = A(y) /\ B(x) < B(y)
             \/ A(x) = A(y) /\ B(x) = B(y) /\ C(x) < C(y)
             \/ A(x) = A(y) /\ B(x) = B(y) /\ C(x) = C(y) /\ x < y
    BY <2>2, LessOfFour, SMTT(60)
  <2> QED BY <2>1, <2>3
<1>5. ASSUME NEW x \in Eligible(m) PROVE ~Less(WeaponKey(x), WeaponKey(x))
  BY <1>2, <1>4
<1>6. ASSUME NEW x \in Eligible(m), NEW y \in Eligible(m), x # y
      PROVE  Less(WeaponKey(x), WeaponKey(y)) \/ Less(WeaponKey(y), WeaponKey(x))
  BY <1>2, <1>4, <1>6
<1>7. ASSUME NEW x \in Eligible(m), NEW y \in Eligible(m), NEW z \in Eligible(m),
             Less(WeaponKey(x), WeaponKey(y)), Less(WeaponKey(y), WeaponKey(z))
      PROVE  Less(WeaponKey(x), WeaponKey(z))
  BY <1>2, <1>4, <1>7
<1> QED BY <1>5, <1>6, <1>7

\* Of some of a mount's weapons, at most one has a rank, and it is below their number.
LEMMA OneOfARank ==
    ASSUME TypeOK, NEW m, NEW S, S \subseteq Eligible(m), NEW x \in S, NEW n, Ranked(x, S, WeaponKey, n)
    PROVE  /\ IsFiniteSet(S) /\ n \in Nat /\ n < Cardinality(S)
           /\ \A y \in S : Ranked(y, S, WeaponKey, n) => y = x
<1>1. IsFiniteSet(S)
  <2>1. Eligible(m) \subseteq DOMAIN Weapon
    BY SearchAssumption DEF Eligible, TypeOK
  <2> QED BY <2>1, SearchAssumption, FS_Subset
<1> DEFINE Before == {pair \in S \X S : Less(WeaponKey(pair[1]), WeaponKey(pair[2]))}
           Better(w) == {z \in S : Less(WeaponKey(z), WeaponKey(w))}
<1>2. \A z, w \in S : <<z, w>> \in Before <=> Less(WeaponKey(z), WeaponKey(w))
  OBVIOUS
<1>3. \A w \in S : Better(w) = {z \in S : <<z, w>> \in Before}
  BY <1>2
<1>4. /\ \A w \in S : <<w, w>> \notin Before
      /\ \A u, v, w \in S : <<u, v>> \in Before /\ <<v, w>> \in Before => <<u, w>> \in Before
  BY <1>2, WeaponsAreOrdered
<1>5. \A w \in S : Ranked(w, S, WeaponKey, n) <=> Cardinality(Better(w)) = n
  BY DEF Ranked
<1>6. \A z, w \in S : z # w => Less(WeaponKey(z), WeaponKey(w)) \/ Less(WeaponKey(w), WeaponKey(z))
  BY WeaponsAreOrdered
<1> HIDE DEF Before, Better
<1>7. ASSUME NEW z \in S, NEW w \in S, <<z, w>> \in Before PROVE Cardinality(Better(z)) < Cardinality(Better(w))
  BY <1>1, <1>3, <1>4, <1>7, RanksDiffer
<1>8. ASSUME NEW w \in S PROVE Cardinality(Better(w)) \in Nat /\ Cardinality(Better(w)) < Cardinality(S)
  <2>1. Better(w) \subseteq S /\ w \notin Better(w)
    BY <1>3, <1>4
  <2>2. Cardinality(S) \in Nat /\ Cardinality(Better(w)) \in Nat /\ Cardinality(Better(w)) <= Cardinality(S)
    BY <1>1, <2>1, FS_Subset, FS_CardinalityType
  <2>3. Cardinality(Better(w)) # Cardinality(S)
    BY <1>1, <1>8, <2>1, FS_Subset
  <2> QED BY <2>2, <2>3
<1>9. ASSUME NEW y \in S, Ranked(y, S, WeaponKey, n), y # x PROVE FALSE
  <2>1. Cardinality(Better(x)) = Cardinality(Better(y))
    BY <1>5, <1>9
  <2>2. <<x, y>> \in Before \/ <<y, x>> \in Before
    BY <1>2, <1>6, <1>9
  <2> QED BY <1>7, <1>8, <2>1, <2>2
<1> QED BY <1>1, <1>5, <1>8, <1>9

------------------------------------------------------------------------------
\* The greedy choice at a mount, from the weapons of the mounts before it.
PaidBefore(f, m) == SumFunction([k \in {j \in DOMAIN f : j < m} |-> Weapon[f[k]].op])
OptionsAt(f, m)  == {w \in Eligible(m) : PaidBefore(f, m) + Weapon[w].op <= OpLimit}
ChosenAt(f, m, n) ==
    IF m \in DOMAIN f
    THEN Fillable(m) /\ f[m] \in OptionsAt(f, m) /\ Ranked(f[m], OptionsAt(f, m), WeaponKey, n)
    ELSE ~Fillable(m) \/ n >= Cardinality(OptionsAt(f, m))

LEMMA OptionsAreEligible == ASSUME NEW f, NEW m PROVE OptionsAt(f, m) \subseteq Eligible(m)
BY DEF OptionsAt

\* Two fits that agree before a mount have the same options there, and of the
\* same options the same rank is the same weapon.
LEMMA SameOptions ==
    ASSUME NEW f, NEW g, NEW m, \A k : k < m => SameAt(f, g, k)
    PROVE  PaidBefore(f, m) = PaidBefore(g, m) /\ OptionsAt(f, m) = OptionsAt(g, m)
<1>1. {j \in DOMAIN f : j < m} = {j \in DOMAIN g : j < m}
  BY DEF SameAt
<1>2. [k \in {j \in DOMAIN f : j < m} |-> Weapon[f[k]].op] = [k \in {j \in DOMAIN g : j < m} |-> Weapon[g[k]].op]
  BY <1>1 DEF SameAt
<1>3. PaidBefore(f, m) = PaidBefore(g, m)
  BY <1>2 DEF PaidBefore
<1> QED BY <1>3 DEF OptionsAt

LEMMA SameChoice ==
    ASSUME TypeOK, NEW f, NEW g, NEW m, NEW n \in Nat, OptionsAt(f, m) = OptionsAt(g, m),
           ChosenAt(f, m, n), ChosenAt(g, m, n)
    PROVE  SameAt(f, g, m)
<1> DEFINE S == OptionsAt(f, m)
<1>1. S \subseteq Eligible(m) /\ S = OptionsAt(g, m)
  BY OptionsAreEligible
<1>2. \A x \in S : Ranked(x, S, WeaponKey, n) => n < Cardinality(S) /\ Cardinality(S) \in Nat
  BY <1>1, OneOfARank, FS_CardinalityType
<1>3. m \in DOMAIN f => Fillable(m) /\ f[m] \in S /\ Ranked(f[m], S, WeaponKey, n)
  BY DEF ChosenAt
<1>4. m \in DOMAIN g => Fillable(m) /\ g[m] \in S /\ Ranked(g[m], S, WeaponKey, n)
  BY <1>1 DEF ChosenAt
<1>5. m \notin DOMAIN f \/ m \notin DOMAIN g => ~Fillable(m) \/ n >= Cardinality(S)
  BY <1>1 DEF ChosenAt
<1> HIDE DEF S
<1>6. m \in DOMAIN f <=> m \in DOMAIN g
  BY <1>2, <1>3, <1>4, <1>5
<1>7. m \in DOMAIN f => f[m] = g[m]
  BY <1>1, <1>3, <1>4, <1>6, OneOfARank
<1> QED BY <1>6, <1>7 DEF SameAt

LEMMA SameUpTo ==
    ASSUME TypeOK, NEW f \in Partial(MountIds, DOMAIN Weapon), NEW g \in Partial(MountIds, DOMAIN Weapon), NEW b \in Int,
           \A m \in MountIds : m < b => SameAt(f, g, m) \/ \E n \in Nat : ChosenAt(f, m, n) /\ ChosenAt(g, m, n)
    PROVE  \A m \in MountIds : m < b => SameAt(f, g, m)
<1> DEFINE Differ == {m \in MountIds : m < b /\ ~SameAt(f, g, m)}
<1>1. SUFFICES ASSUME Differ # {} PROVE FALSE
  OBVIOUS
<1>2. MountIds \subseteq Nat /\ DOMAIN f \subseteq MountIds /\ DOMAIN g \subseteq MountIds
  BY SearchAssumption DEF MountIds, TypeOK, Partial
<1>3. PICK m \in Differ : \A n \in Differ : m <= n
  <2>1. Differ \in SUBSET Nat
    BY <1>2
  <2> HIDE DEF Differ
  <2> QED BY <1>1, <2>1, LeastNatural
<1>4. ASSUME NEW k, k < m PROVE SameAt(f, g, k)
  <2>1. CASE k \in MountIds
    BY <1>2, <1>3, <1>4, <2>1
  <2>2. CASE k \notin MountIds
    BY <1>2, <2>2 DEF SameAt
  <2> QED BY <2>1, <2>2
<1>5. OptionsAt(f, m) = OptionsAt(g, m)
  BY <1>4, SameOptions
<1>6. PICK n \in Nat : ChosenAt(f, m, n) /\ ChosenAt(g, m, n)
  BY <1>3
<1> QED BY <1>3, <1>5, <1>6, SameChoice

LEMMA SeedsAreInRange ==
    ASSUME TypeOK, seed > 0
    PROVE  /\ SeedMount \in MountIds /\ SeedRank \in Nat /\ SeedRank >= 1
           /\ ((seed + 1 - 1) \div Cardinality(MountIds)) + 1 >= SeedRank
<1>1. /\ Cardinality(MountIds) \in Nat /\ hull \in Hulls /\ req \in Requests /\ seed \in 0..LastSeed
      /\ Len(hull.mounts) \in Nat /\ MountIds = 1..Len(hull.mounts)
  BY MountsCounted, SearchAssumption DEF TypeOK, MountIds
<1>2. Cardinality(MountIds) = Len(hull.mounts)
  <2> DEFINE n == Len(hull.mounts)
  <2>2. n \in Nat /\ MountIds = 1..n
    BY <1>1
  <2> HIDE DEF n
  <2>1. n \in Int /\ Cardinality(1..n) = IF 1 > n THEN 0 ELSE n - 1 + 1
    BY <2>2, FS_Interval
  <2>3. Cardinality(MountIds) = n
    BY <2>1, <2>2
  <2> QED BY <2>3 DEF n
<1> DEFINE c == Cardinality(MountIds)
           k == seed - 1
<1>3. req.depth \in Nat /\ seed \in 0..(req.depth * c)
  BY <1>1, SearchAssumption DEF LastSeed
<1>4. c # 0
  BY <1>3
<1>5. c \in Nat \ {0} /\ k \in Nat /\ MountIds = 1..c
  BY <1>1, <1>2, <1>3, <1>4
<1>6. SeedMount = (k % c) + 1 /\ SeedRank = (k \div c) + 1 /\ seed + 1 - 1 = k + 1
  BY <1>1, <1>5 DEF SeedMount, SeedRank
<1> HIDE DEF c, k
<1>7. k % c \in 0..(c - 1) /\ k \div c \in Nat /\ (k + 1) \div c \in Nat /\ (k + 1) \div c >= k \div c
  <2>1. k = c * (k \div c) + (k % c) /\ k % c \in 0..(c - 1) /\ k \div c \in Int
    BY <1>5
  <2>2. k + 1 = c * ((k + 1) \div c) + ((k + 1) % c) /\ (k + 1) % c \in 0..(c - 1) /\ (k + 1) \div c \in Int
    BY <1>5
  <2>3. k \div c \in Nat /\ (k + 1) \div c \in Nat
    BY <1>5, Quotient
  <2>4. ASSUME (k + 1) \div c < k \div c PROVE FALSE
    <3> DEFINE p == (k + 1) \div c
               q == k \div c
    <3>1. p \in Nat /\ q \in Nat /\ p + 1 <= q
      BY <2>3, <2>4
    <3>2. c * (p + 1) <= c * q
      <4> HIDE DEF p, q
      <4>1. \A i, j, u \in Nat : i <= j => u * i <= u * j
        OBVIOUS
      <4> QED BY <1>5, <3>1, <4>1
    <3>3. c * (p + 1) = c * p + c /\ c * p \in Nat /\ c * q \in Nat
      BY <1>5, <3>1
    <3>4. k + 1 <= c * p + (c - 1) /\ k >= c * q
      BY <1>5, <2>1, <2>2, <3>3
    <3> HIDE DEF p, q
    <3> QED BY <1>5, <3>2, <3>3, <3>4
  <2> QED BY <2>1, <2>3, <2>4
<1> QED BY <1>5, <1>6, <1>7 DEF c

\* An alternative is the baseline up to the mount it was asked to change, and
\* all over when it is the baseline there too.
LEMMA AlternativeDiverges ==
    ASSUME TypeOK, seed > 0, NEW base \in Partial(MountIds, DOMAIN Weapon),
           \A m \in MountIds : ChosenAt(weapons, m, Offset(m)) /\ ChosenAt(base, m, 0)
    PROVE  /\ \A m \in MountIds : m < SeedMount => SameAt(weapons, base, m)
           /\ SameAt(weapons, base, SeedMount) => weapons = base
<1>1. /\ SeedMount \in MountIds /\ SeedRank \in Nat /\ SeedRank >= 1 /\ MountIds \subseteq Nat
      /\ weapons \in Partial(MountIds, DOMAIN Weapon)
      /\ Len(hull.mounts) \in Nat /\ MountIds = 1..Len(hull.mounts)
  BY SeedsAreInRange, SearchAssumption DEF TypeOK, MountIds
<1>2. \A m \in MountIds \ {SeedMount} : ChosenAt(weapons, m, 0)
  BY DEF Offset
<1>3. \A m \in MountIds : m < SeedMount => SameAt(weapons, base, m)
  BY <1>1, <1>2, SameUpTo
<1>4. ASSUME SameAt(weapons, base, SeedMount) PROVE weapons = base
  <2> DEFINE b == Len(hull.mounts) + 1
  <2>1. \A m \in MountIds : m < b => SameAt(weapons, base, m)
    <3>1. b \in Int
      BY <1>1
    <3> HIDE DEF b
    <3>2. \A m \in MountIds : SameAt(weapons, base, m) \/ (ChosenAt(weapons, m, 0) /\ ChosenAt(base, m, 0))
      BY <1>2, <1>4
    <3> QED BY <1>1, <3>1, <3>2, SameUpTo
  <2>2. \A m \in MountIds : SameAt(weapons, base, m)
    BY <1>1, <2>1
  <2>3. DOMAIN weapons = DOMAIN base /\ \A m \in DOMAIN base : weapons[m] = base[m]
    BY <1>1, <2>2 DEF SameAt, Partial
  <2> QED BY <1>1, <2>3 DEF Partial
<1> QED BY <1>3, <1>4

\* What a build has decided so far, the greedy choice would decide.
BuildGreedy ==
    /\ phase = "mounts" => \A m \in rest : \A n \in MountIds \ rest : n < m
    /\ \A m \in MountIds : (phase = "mounts" => m \notin rest) => ChosenAt(weapons, m, Offset(m))

LEMMA SameThere ==
    ASSUME NEW f, NEW g, NEW m, NEW n, \A k : k < m \/ k = m => SameAt(f, g, k)
    PROVE  ChosenAt(f, m, n) <=> ChosenAt(g, m, n)
<1>1. OptionsAt(f, m) = OptionsAt(g, m)
  BY SameOptions
<1>2. SameAt(f, g, m)
  OBVIOUS
<1> QED BY <1>1, <1>2 DEF ChosenAt, SameAt

\* The choices read the same after a step on the same path.
LEMMA OptionsRead ==
    ASSUME hull' = hull, req' = req
    PROVE  \A f, m : OptionsAt(f, m)' = OptionsAt(f, m)
BY SoundReads DEF OptionsAt, PaidBefore, OpLimit

LEMMA ChoicesRead ==
    ASSUME hull' = hull, req' = req, path' = path
    PROVE  \A f, m, n : ChosenAt(f, m, n)' <=> ChosenAt(f, m, n)
<1> SUFFICES ASSUME NEW f, NEW m, NEW n PROVE ChosenAt(f, m, n)' <=> ChosenAt(f, m, n)
  OBVIOUS
<1>1. OptionsAt(f, m)' = OptionsAt(f, m) /\ Fillable(m)' = Fillable(m)
  BY OptionsRead, SoundReads
<1>2. \A w : WeaponKey(w)' = WeaponKey(w)
  BY DEF WeaponKey, profile
<1>3. \A S, w : Ranked(w, S, WeaponKey, n)' <=> Ranked(w, S, WeaponKey, n)
  BY <1>2 DEF Ranked
<1> QED BY <1>1, <1>3 DEF ChosenAt

\* The weapon the search asks for next is the greedy choice.
LEMMA AffordableIsOption ==
    ASSUME TypeOK, BuildSound, spent = PartsCost, BuildGreedy, phase = "mounts", NEW m \in rest
    PROVE  OptionsAt(weapons, m) = Affordable(m)
<1>1. DOMAIN weapons \subseteq MountIds \ rest /\ mods = {} /\ wings = {} /\ rest \subseteq MountIds
  BY PointsCounted DEF BuildSound, TypeOK
<1>2. {j \in DOMAIN weapons : j < m} = DOMAIN weapons
  BY <1>1 DEF BuildGreedy
<1>3. PaidBefore(weapons, m) = SumFunction(WeaponPoints)
  BY <1>2 DEF PaidBefore, WeaponPoints
<1>4. SumFunction(ModPoints) = 0 /\ SumFunction(WingPoints) = 0
  BY <1>1, TotalOfNothing DEF ModPoints, WingPoints
<1>5. PaidBefore(weapons, m) = spent
  BY <1>3, <1>4, PointsCounted DEF PartsCost
<1> QED BY <1>5 DEF OptionsAt, Affordable

LEMMA MountingIsGreedy ==
    ASSUME TypeOK, BuildSound, spent = PartsCost, BuildGreedy, [Next]_vars, FillMount
    PROVE  BuildGreedy'
<1>0. hull' = hull /\ req' = req /\ path' = path /\ seed' = seed /\ phase' = phase /\ phase = "mounts"
  BY AskedStays DEF FillMount
<1>1. rest \subseteq MountIds /\ MountIds \subseteq Int /\ DOMAIN weapons \subseteq MountIds /\ rest \cap DOMAIN weapons = {}
  BY <1>0, PointsCounted, SearchAssumption DEF TypeOK, MountIds, BuildSound
<1>2. PICK m \in rest :
        /\ \A n \in rest : m <= n
        /\ rest' = rest \ {m}
        /\ \/ /\ ~Fillable(m) \/ Offset(m) >= Cardinality(Affordable(m))
              /\ UNCHANGED <<weapons, spent>>
           \/ /\ Fillable(m)
              /\ \E w \in Affordable(m) :
                   /\ Ranked(w, Affordable(m), WeaponKey, Offset(m))
                   /\ weapons' = [k \in DOMAIN weapons \cup {m} |-> IF k = m THEN w ELSE weapons[k]]
  BY DEF FillMount
<1>3. OptionsAt(weapons, m) = Affordable(m) /\ m \notin DOMAIN weapons
  BY <1>0, <1>1, AffordableIsOption
<1>4. \A k \in MountIds \ rest : k < m
  BY <1>0 DEF BuildGreedy
<1>5. \A k \in DOMAIN weapons : k < m
  BY <1>1, <1>4
<1>6. /\ ChosenAt(weapons', m, Offset(m))
      /\ \A k \in MountIds \ rest : ChosenAt(weapons', k, Offset(k))
  <2>0. \A k \in MountIds \ rest : ChosenAt(weapons, k, Offset(k))
    BY DEF BuildGreedy
  <2>1. CASE ~Fillable(m) \/ Offset(m) >= Cardinality(Affordable(m))
    <3>1. CASE UNCHANGED <<weapons, spent>>
      BY <1>3, <2>0, <2>1, <3>1 DEF ChosenAt
    <3>2. ASSUME Fillable(m), NEW w \in Affordable(m), Ranked(w, Affordable(m), WeaponKey, Offset(m)) PROVE FALSE
      <4>1. Affordable(m) \subseteq Eligible(m)
        BY DEF Affordable
      <4>2. Offset(m) \in Nat /\ Offset(m) < Cardinality(Affordable(m)) /\ Cardinality(Affordable(m)) \in Nat
        BY <3>2, <4>1, OneOfARank, FS_CardinalityType
      <4> QED BY <2>1, <3>2, <4>2
    <3> QED BY <1>2, <3>1, <3>2
  <2>2. CASE ~(~Fillable(m) \/ Offset(m) >= Cardinality(Affordable(m)))
    <3>1. PICK w \in Affordable(m) :
            /\ Ranked(w, Affordable(m), WeaponKey, Offset(m))
            /\ weapons' = [k \in DOMAIN weapons \cup {m} |-> IF k = m THEN w ELSE weapons[k]]
      BY <1>2, <2>2
    <3>2. DOMAIN weapons' = DOMAIN weapons \cup {m} /\ weapons'[m] = w /\ \A k \in DOMAIN weapons : weapons'[k] = weapons[k]
      BY <1>3, <3>1
    <3> HIDE <3>1
    <3>3. ASSUME NEW k, k # m PROVE SameAt(weapons', weapons, k)
      BY <3>2, <3>3 DEF SameAt
    <3>4. ~(m < m)
      BY <1>1
    <3>5. OptionsAt(weapons', m) = OptionsAt(weapons, m)
      BY <3>3, <3>4, SameOptions
    <3>6. ChosenAt(weapons', m, Offset(m))
      BY <1>3, <2>2, <3>1, <3>2, <3>5 DEF ChosenAt
    <3>7. ASSUME NEW k \in MountIds \ rest PROVE ChosenAt(weapons', k, Offset(k))
      <4>1. k < m /\ k \in Int /\ m \in Int
        BY <1>1, <1>4
      <4>2. \A j : j < k \/ j = k => j # m
        BY <4>1
      <4>3. ChosenAt(weapons', k, Offset(k)) <=> ChosenAt(weapons, k, Offset(k))
        BY <3>3, <4>2, SameThere
      <4> QED BY <2>0, <4>3
    <3> QED BY <3>6, <3>7
  <2> QED BY <2>1, <2>2
<1>7. \A k : Offset(k)' = Offset(k)
  BY <1>0 DEF Offset, SeedMount, SeedRank, MountIds
<1>8. MountIds' = MountIds
  BY <1>0 DEF MountIds
<1>9. \A k \in MountIds \ rest' : ChosenAt(weapons, k, Offset(k))'
  <2> SUFFICES ASSUME NEW k \in MountIds \ rest' PROVE ChosenAt(weapons, k, Offset(k))'
    OBVIOUS
  <2>1. ChosenAt(weapons', k, Offset(k))
    BY <1>2, <1>6
  <2>2. PICK f : f = weapons'
    OBVIOUS
  <2>3. ChosenAt(f, k, Offset(k))'
    <3>1. PICK n : n = Offset(k)
      OBVIOUS
    <3>2. ChosenAt(f, k, n)'
      BY <1>0, <2>1, <2>2, <3>1, ChoicesRead
    <3> QED BY <1>7, <3>1, <3>2
  <2> QED BY <2>2, <2>3
<1>10. \A r \in rest' : \A k \in MountIds \ rest' : k < r
  BY <1>1, <1>2, <1>4
<1> QED BY <1>0, <1>8, <1>9, <1>10 DEF BuildGreedy

LEMMA BuildsAreGreedy == Spec => []BuildGreedy
<1>1. Init => BuildGreedy
  BY DEF Init, BuildGreedy
<1>2. TypeOK /\ BuildSound /\ spent = PartsCost /\ BuildGreedy /\ [Next]_vars => BuildGreedy'
  <2> SUFFICES ASSUME TypeOK, BuildSound, spent = PartsCost, BuildGreedy, [Next]_vars PROVE BuildGreedy'
    OBVIOUS
  <2>1. hull' = hull /\ req' = req /\ MountIds' = MountIds
    BY AskedStays, SoundReads
  <2>2. CASE FillMount
    BY <2>2, MountingIsGreedy
  <2>3. CASE NextSeed \/ NextPath
    <3>1. phase' = "mounts" /\ rest' = MountIds
      BY <2>3 DEF NextSeed, NextPath, StartBuild
    <3> QED BY <2>1, <3>1 DEF BuildGreedy
  <2>4. CASE ~FillMount /\ ~NextSeed /\ ~NextPath
    <3>1. UNCHANGED <<weapons, seed, path>>
      BY <2>4 DEF Next, vars, chosen, AddHullmod, AddWing, NextPhase, Validate, EndSearch, Offer, Return, Returned
    <3>2. \/ phase' # "mounts" /\ (phase = "mounts" => rest = {})
          \/ phase' = phase /\ rest' = rest
      BY <2>4 DEF Next, vars, AddHullmod, AddWing, NextPhase, Validate, EndSearch, Offer, Return, Returned
    <3>3. \A k : Offset(k)' = Offset(k)
      BY <2>1, <3>1 DEF Offset, SeedMount, SeedRank
    <3>4. ASSUME NEW m \in MountIds, ChosenAt(weapons, m, Offset(m)) PROVE ChosenAt(weapons, m, Offset(m))'
      <4>1. PICK f, n : f = weapons /\ n = Offset(m)
        OBVIOUS
      <4>2. ChosenAt(f, m, n)'
        BY <2>1, <3>1, <3>4, <4>1, ChoicesRead
      <4> QED BY <3>1, <3>3, <4>1, <4>2
    <3>5. \A m \in MountIds : (phase' = "mounts" => m \notin rest') => (phase = "mounts" => m \notin rest)
      BY <3>2
    <3> QED BY <2>1, <3>2, <3>4, <3>5 DEF BuildGreedy
  <2> QED BY <2>2, <2>3, <2>4
<1> QED BY <1>1, <1>2, TypeCorrect, BuildsAreSound, PTL DEF Spec

------------------------------------------------------------------------------
\* The candidates of a path, in their order.
Diverges(r) ==
    \A k \in DOMAIN r \ {1} :
      /\ \A m \in MountIds : m < r[k].mount => SameAt(r[k].fit.weapons, r[1].fit.weapons, m)
      /\ ~SameAt(r[k].fit.weapons, r[1].fit.weapons, r[k].mount)
      /\ r[k - 1].rank <= r[k].rank
      /\ \A j \in 1..(k - 1) : r[j].fit.weapons # r[k].fit.weapons

RankSoFar == IF seed = 0 THEN 0 ELSE SeedRank

SearchOrdered ==
    /\ \A p \in DOMAIN results : p > path => results[p] = <<>>
    /\ seed = 0 /\ phase \notin {"built", "merged", "done"} => results[path] = <<>>
    /\ seed > 0 \/ phase = "built" =>
         /\ results[path] # <<>>
         /\ \A m \in MountIds : ChosenAt(results[path][1].fit.weapons, m, 0)
    /\ \A k \in DOMAIN results[path] : results[path][k].rank <= RankSoFar
    /\ \A p \in DOMAIN results : Diverges(results[p])

\* What a step adds to the path's candidates, if anything.
Adds(c) ==
    /\ c.fit.weapons = weapons /\ c.rank = RankSoFar /\ c.mount = (IF seed = 0 THEN 0 ELSE SeedMount)
    /\ weapons \notin Seen
    /\ results' = [results EXCEPT ![path] = Append(@, c)]

LEMMA AddedIsOrdered ==
    ASSUME TypeOK, BuildGreedy, SearchOrdered, phase = "flux", NEW c \in CandidateType, Adds(c)
    PROVE  /\ Diverges(Append(results[path], c))
           /\ \A k \in DOMAIN Append(results[path], c) : Append(results[path], c)[k].rank <= RankSoFar
           /\ \A m \in MountIds : ChosenAt(Append(results[path], c)[1].fit.weapons, m, 0)
<1> DEFINE r == results[path]
           s == Append(r, c)
<1>1. r \in Seq(CandidateType) /\ path \in DOMAIN results /\ seed \in Nat
  <2>1. LastSeed \in Nat
    BY MountsCounted, SearchAssumption DEF LastSeed, TypeOK
  <2> QED BY <2>1 DEF TypeOK
<1>2. RankSoFar \in Nat
  BY <1>1, SeedsAreInRange DEF RankSoFar
<1>3. /\ Len(r) \in Nat /\ DOMAIN r = 1..Len(r) /\ DOMAIN s = 1..(Len(r) + 1)
      /\ \A k \in 1..Len(r) : s[k] = r[k] /\ r[k] \in CandidateType
      /\ s[Len(r) + 1] = c
  BY <1>1
<1>4. /\ \A k \in 1..Len(r) : r[k].rank <= RankSoFar
      /\ Diverges(r)
      /\ \A k \in 1..Len(r) : r[k].fit.weapons # weapons
  BY <1>1, <1>3 DEF SearchOrdered, Adds, Seen
<1>5. \A m \in MountIds : ChosenAt(weapons, m, Offset(m))
  BY DEF BuildGreedy
<1>6. c.fit.weapons = weapons /\ c.rank = RankSoFar /\ (seed > 0 => c.mount = SeedMount)
  BY <1>1 DEF Adds
<1>7. CASE seed = 0
  <2>1. r = <<>>
    BY <1>7 DEF SearchOrdered
  <2>2. Len(r) = 0 /\ s[1] = c /\ DOMAIN s = {1}
    BY <1>3, <2>1
  <2>3. \A m \in MountIds : ChosenAt(weapons, m, 0)
    BY <1>5, <1>7 DEF Offset
  <2> HIDE DEF s, r
  <2>4. Diverges(s)
    BY <2>2 DEF Diverges
  <2>5. \A k \in DOMAIN s : s[k].rank <= RankSoFar
    BY <1>2, <1>6, <2>2
  <2>6. \A m \in MountIds : ChosenAt(s[1].fit.weapons, m, 0)
    BY <1>6, <2>2, <2>3
  <2> QED BY <2>4, <2>5, <2>6 DEF s, r
<1>8. CASE seed > 0
  <2> DEFINE base == r[1].fit.weapons
  <2>1. r # <<>> /\ \A m \in MountIds : ChosenAt(base, m, 0)
    BY <1>8 DEF SearchOrdered
  <2>2. Len(r) >= 1 /\ s[1] = r[1] /\ base # weapons
    BY <1>1, <1>3, <1>4, <2>1
  <2>3. base \in Partial(MountIds, DOMAIN Weapon)
    <3>1. r[1] \in CandidateType
      BY <1>3, <2>2
    <3> QED BY <3>1 DEF CandidateType
  <2>4. /\ \A m \in MountIds : m < SeedMount => SameAt(weapons, base, m)
        /\ ~SameAt(weapons, base, SeedMount)
    BY <1>5, <1>8, <2>1, <2>2, <2>3, AlternativeDiverges
  <2>5. \A k \in 1..Len(r) : r[k].rank \in Nat
    BY <1>3 DEF CandidateType
  <2> HIDE DEF s, r
  <2>6. ASSUME NEW k \in DOMAIN s \ {1}
        PROVE  /\ \A m \in MountIds : m < s[k].mount => SameAt(s[k].fit.weapons, s[1].fit.weapons, m)
               /\ ~SameAt(s[k].fit.weapons, s[1].fit.weapons, s[k].mount)
               /\ s[k - 1].rank <= s[k].rank
               /\ \A j \in 1..(k - 1) : s[j].fit.weapons # s[k].fit.weapons
    <3>1. CASE k \in 1..Len(r)
      <4>1. k \in DOMAIN r \ {1} /\ k - 1 \in 1..Len(r) /\ \A j \in 1..(k - 1) : j \in 1..Len(r)
        BY <1>3, <2>6, <3>1
      <4>2. s[k] = r[k] /\ s[k - 1] = r[k - 1] /\ s[1] = r[1] /\ \A j \in 1..(k - 1) : s[j] = r[j]
        BY <1>3, <2>2, <3>1, <4>1
      <4> QED BY <1>4, <4>1, <4>2 DEF Diverges
    <3>2. CASE k = Len(r) + 1
      <4>1. s[k] = c /\ k - 1 = Len(r) /\ Len(r) \in 1..Len(r)
        BY <1>3, <2>2, <3>2
      <4>2. s[k].mount = SeedMount /\ s[k].fit.weapons = weapons /\ s[k].rank = RankSoFar
        BY <1>6, <1>8, <4>1
      <4>3. s[k - 1].rank <= s[k].rank
        BY <1>3, <1>4, <4>1, <4>2
      <4>4. \A j \in 1..(k - 1) : s[j].fit.weapons # s[k].fit.weapons
        BY <1>3, <1>4, <4>1, <4>2
      <4> QED BY <2>2, <2>4, <4>2, <4>3, <4>4
    <3> QED BY <1>3, <2>6, <3>1, <3>2
  <2>7. Diverges(s)
    BY <2>6 DEF Diverges
  <2>8. ASSUME NEW k \in DOMAIN s PROVE s[k].rank <= RankSoFar
    <3>1. k \in 1..Len(r) \/ k = Len(r) + 1
      BY <1>3
    <3> QED BY <1>2, <1>3, <1>4, <1>6, <3>1
  <2>9. \A m \in MountIds : ChosenAt(s[1].fit.weapons, m, 0)
    BY <2>1, <2>2
  <2> QED BY <2>7, <2>8, <2>9 DEF s, r
<1> QED BY <1>1, <1>7, <1>8

LEMMA SearchesAreOrdered == Spec => []SearchOrdered
<1>1. Init => SearchOrdered
  <2> SUFFICES ASSUME Init PROVE SearchOrdered
    OBVIOUS
  <2>1. seed = 0 /\ phase = "mounts" /\ path = 1 /\ results = [p \in 1..PathCount |-> <<>>] /\ req \in Requests
    BY DEF Init
  <2>2. 1 \in 1..PathCount
    BY <2>1, SearchAssumption DEF PathCount, AtMost
  <2>3. \A p \in DOMAIN results : results[p] = <<>> /\ Diverges(results[p])
    BY <2>1 DEF Diverges
  <2> QED BY <2>1, <2>2, <2>3 DEF SearchOrdered
<1>2. TypeOK /\ BuildGreedy /\ SearchOrdered /\ [Next]_vars => SearchOrdered'
  <2> SUFFICES ASSUME TypeOK, BuildGreedy, SearchOrdered, [Next]_vars PROVE SearchOrdered'
    OBVIOUS
  <2>1. hull' = hull /\ req' = req /\ MountIds' = MountIds
    BY AskedStays, SoundReads
  <2>2. \A r : Diverges(r)' <=> Diverges(r)
    BY <2>1 DEF Diverges, SameAt
  <2>3. results \in [1..PathCount -> Seq(CandidateType)] /\ path \in 1..PathCount /\ seed \in Nat
    <3>1. LastSeed \in Nat
      BY MountsCounted, SearchAssumption DEF LastSeed, TypeOK
    <3> QED BY <3>1 DEF TypeOK
  <2>4. ASSUME UNCHANGED <<seed, path, results>>, phase' # "built" \/ phase' = phase,
               phase \in {"built", "merged", "done"} => phase' \in {"built", "merged", "done"}
        PROVE  SearchOrdered'
    <3>1. RankSoFar' = RankSoFar
      BY <2>1, <2>4 DEF RankSoFar, SeedRank
    <3>2. PICK base : base = results[path][1].fit.weapons
      OBVIOUS
    <3>3. \A m \in MountIds : ChosenAt(base, m, 0) => ChosenAt(base, m, 0)'
      BY <2>1, <2>4, ChoicesRead
    <3>4. PICK rs : rs = results
      OBVIOUS
    <3>5. \A p \in DOMAIN rs : Diverges(rs[p])'
      BY <2>2, <3>4 DEF SearchOrdered
    <3>6. rs = results' /\ base = results'[path'][1].fit.weapons
      BY <2>4, <3>2, <3>4
    <3>7. seed' > 0 \/ phase' = "built" => results[path] # <<>> /\ \A m \in MountIds : ChosenAt(base, m, 0)'
      BY <2>4, <3>2, <3>3 DEF SearchOrdered
    <3>8. \A p \in DOMAIN results' : Diverges(results[p])'
      BY <3>5, <3>6
    <3>9. seed' > 0 \/ phase' = "built" => \A m \in MountIds' : ChosenAt(results[path][1].fit.weapons, m, 0)'
      BY <2>1, <3>6, <3>7
    <3> QED BY <2>1, <2>4, <3>1, <3>7, <3>8, <3>9 DEF SearchOrdered
  <2>5. CASE Validate
    <3>1. phase = "flux" /\ phase' = "built" /\ UNCHANGED <<seed, path, weapons>>
      BY <2>5 DEF Validate, chosen
    <3>2. (weapons \in Seen /\ results' = results) \/ \E c \in CandidateType : Adds(c)
      <4>1. PICK a \in Allocations :
              results' = IF weapons \in Seen THEN results
                         ELSE [results EXCEPT ![path] = Append(@,
                                 [fit |-> Candidate(a[1], a[2]), verdict |-> Verdict(hull, Candidate(a[1], a[2])),
                                  rank |-> IF seed = 0 THEN 0 ELSE SeedRank,
                                  mount |-> IF seed = 0 THEN 0 ELSE SeedMount])]
        BY <2>5 DEF Validate
      <4> DEFINE c == [fit |-> Candidate(a[1], a[2]), verdict |-> Verdict(hull, Candidate(a[1], a[2])),
                       rank |-> IF seed = 0 THEN 0 ELSE SeedRank,
                       mount |-> IF seed = 0 THEN 0 ELSE SeedMount]
      <4>2. c \in CandidateType
        BY CandidateTyped
      <4>3. c.fit.weapons = weapons /\ c.rank = RankSoFar /\ c.mount = (IF seed = 0 THEN 0 ELSE SeedMount)
        BY DEF RankSoFar, Candidate
      <4> HIDE DEF c
      <4> QED BY <4>1, <4>2, <4>3 DEF Adds, c
    <3>3. CASE weapons \in Seen /\ results' = results
      <4>1. seed > 0
        <5>1. results[path] # <<>>
          BY <2>3, <3>3 DEF Seen
        <5> QED BY <2>3, <3>1, <5>1 DEF SearchOrdered
      <4>2. PICK base : base = results[path][1].fit.weapons
        OBVIOUS
      <4>3. results[path] # <<>> /\ \A m \in MountIds : ChosenAt(base, m, 0)
        BY <4>1, <4>2 DEF SearchOrdered
      <4>4. \A m \in MountIds : ChosenAt(base, m, 0)'
        BY <2>1, <3>1, <4>3, ChoicesRead
      <4>5. base = results'[path'][1].fit.weapons /\ RankSoFar' = RankSoFar
        BY <2>1, <3>1, <3>3, <4>2 DEF RankSoFar, SeedRank
      <4>6. PICK rs : rs = results
        OBVIOUS
      <4>7. \A p \in DOMAIN rs : Diverges(rs[p])'
        BY <2>2, <4>6 DEF SearchOrdered
      <4>8. \A p \in DOMAIN results' : Diverges(results[p])'
        BY <3>3, <4>6, <4>7
      <4>9. \A m \in MountIds' : ChosenAt(results[path][1].fit.weapons, m, 0)'
        BY <2>1, <4>4, <4>5
      <4> QED BY <2>1, <3>1, <3>3, <4>1, <4>3, <4>5, <4>8, <4>9 DEF SearchOrdered
    <3>4. ASSUME NEW c \in CandidateType, Adds(c) PROVE SearchOrdered'
      <4> DEFINE s == Append(results[path], c)
      <4>1. /\ Diverges(s)
            /\ \A k \in DOMAIN s : s[k].rank <= RankSoFar
            /\ \A m \in MountIds : ChosenAt(s[1].fit.weapons, m, 0)
        BY <3>1, <3>4, AddedIsOrdered
      <4>2. PICK new : new = s
        OBVIOUS
      <4>3. new # <<>> /\ results' = [results EXCEPT ![path] = new] /\ path \in DOMAIN results
        BY <2>3, <3>4, <4>2 DEF Adds
      <4> HIDE DEF s
      <4>4. DOMAIN results' = DOMAIN results /\ results'[path] = new /\ \A p \in DOMAIN results : p # path => results'[p] = results[p]
        BY <2>3, <4>3
      <4>5. PICK base : base = new[1].fit.weapons
        OBVIOUS
      <4>6. \A m \in MountIds : ChosenAt(base, m, 0)'
        BY <2>1, <3>1, <4>1, <4>2, <4>5, ChoicesRead
      <4>7. \A m \in MountIds' : ChosenAt(results[path][1].fit.weapons, m, 0)'
        BY <2>1, <3>1, <4>4, <4>5, <4>6
      <4>8. RankSoFar' = RankSoFar
        BY <2>1, <3>1 DEF RankSoFar, SeedRank
      <4>9. PICK rs : rs = results'
        OBVIOUS
      <4>10. \A p \in DOMAIN rs : Diverges(rs[p])
        BY <4>1, <4>2, <4>4, <4>9 DEF SearchOrdered
      <4>11. \A p \in DOMAIN rs : Diverges(rs[p])'
        BY <2>2, <4>10
      <4>12. \A p \in DOMAIN results' : Diverges(results[p])'
        BY <4>9, <4>11
      <4>13. \A p \in DOMAIN results' : p > path => results'[p] = <<>>
        BY <2>3, <4>4 DEF SearchOrdered
      <4> QED BY <3>1, <4>1, <4>2, <4>3, <4>4, <4>7, <4>8, <4>12, <4>13 DEF SearchOrdered
    <3> QED BY <3>2, <3>3, <3>4
  <2>6. CASE NextSeed
    <3>1. phase = "built" /\ seed # LastSeed /\ path' = path /\ seed' = seed + 1 /\ phase' = "mounts" /\ results' = results
      BY <2>6 DEF NextSeed, PathDone, StartBuild
    <3>2. PICK base : base = results[path][1].fit.weapons
      OBVIOUS
    <3>3. results[path] # <<>> /\ \A m \in MountIds : ChosenAt(base, m, 0)
      BY <3>1, <3>2 DEF SearchOrdered
    <3>4. \A m \in MountIds : ChosenAt(base, m, 0)'
      BY <2>1, <3>1, <3>3, ChoicesRead
    <3>5. base = results'[path'][1].fit.weapons
      BY <3>1, <3>2
    <3>6. \A m \in MountIds' : ChosenAt(results[path][1].fit.weapons, m, 0)'
      BY <2>1, <3>4, <3>5
    <3>7. PICK rs : rs = results
      OBVIOUS
    <3>8. \A p \in DOMAIN rs : Diverges(rs[p])'
      BY <2>2, <3>7 DEF SearchOrdered
    <3>9. \A p \in DOMAIN results' : Diverges(results[p])'
      BY <3>1, <3>7, <3>8
    <3>10. RankSoFar \in Nat /\ RankSoFar' \in Nat /\ RankSoFar <= RankSoFar'
      <4> DEFINE c == Cardinality(MountIds)
      <4>1. c \in Nat \ {0}
        <5>1. c \in Nat /\ req.depth \in Nat /\ seed \in 0..(req.depth * c)
          BY MountsCounted, SearchAssumption DEF TypeOK, LastSeed
        <5> QED BY <3>1, <5>1 DEF LastSeed
      <4>2. RankSoFar' = ((seed + 1 - 1) \div c) + 1
        BY <2>1, <2>3, <3>1 DEF RankSoFar, SeedRank
      <4>3. seed + 1 - 1 = seed /\ seed \div c \in Nat
        BY <2>3, <4>1, Quotient
      <4>4. CASE seed = 0
        BY <4>2, <4>3, <4>4 DEF RankSoFar
      <4>5. CASE seed > 0
        <5>1. RankSoFar = SeedRank /\ SeedRank \in Nat
          BY <4>5, SeedsAreInRange DEF RankSoFar
        <5>2. ((seed + 1 - 1) \div c) + 1 >= SeedRank
          BY <4>5, SeedsAreInRange
        <5>3. ((seed + 1 - 1) \div c) + 1 \in Nat
          BY <4>3
        <5> HIDE DEF c
        <5> QED BY <4>2, <5>1, <5>2, <5>3
      <4> QED BY <2>3, <4>4, <4>5
    <3>11. \A k \in DOMAIN results[path] : results[path][k].rank <= RankSoFar'
      <4>1. \A k \in DOMAIN results[path] : results[path][k].rank <= RankSoFar /\ results[path][k].rank \in Nat
        <5>1. \A k \in DOMAIN results[path] : results[path][k] \in CandidateType
          BY <2>3
        <5>2. \A c \in CandidateType : c.rank \in Nat
          BY DEF CandidateType
        <5> QED BY <5>1, <5>2 DEF SearchOrdered
      <4> QED BY <3>10, <4>1
    <3> QED BY <2>3, <3>1, <3>3, <3>6, <3>9, <3>11 DEF SearchOrdered
  <2>7. CASE NextPath
    <3>1. phase = "built" /\ path < PathCount /\ path' = path + 1 /\ seed' = 0 /\ phase' = "mounts" /\ results' = results
      BY <2>7 DEF NextPath, StartBuild
    <3>2. PathCount \in Nat
      BY SearchAssumption DEF PathCount, AtMost, TypeOK
    <3>3. path' \in DOMAIN results /\ path' > path
      BY <2>3, <3>1, <3>2
    <3>4. results'[path'] = <<>>
      BY <3>1, <3>3 DEF SearchOrdered
    <3>5. \A p \in DOMAIN results' : p > path' => results'[p] = <<>>
      BY <2>3, <3>1, <3>2 DEF SearchOrdered
    <3>7. PICK rs : rs = results
      OBVIOUS
    <3>8. \A p \in DOMAIN rs : Diverges(rs[p])'
      BY <2>2, <3>7 DEF SearchOrdered
    <3>9. \A p \in DOMAIN results' : Diverges(results[p])'
      BY <3>1, <3>7, <3>8
    <3> QED BY <3>1, <3>4, <3>5, <3>9 DEF SearchOrdered
  <2>8. CASE ~Validate /\ ~NextSeed /\ ~NextPath
    <3>1. UNCHANGED <<seed, path, results>>
      BY <2>8 DEF Next, vars, FillMount, AddHullmod, AddWing, NextPhase, EndSearch, Offer, Return, Returned
    <3>2. /\ phase' # "built" \/ phase' = phase
          /\ phase \in {"built", "merged", "done"} => phase' \in {"built", "merged", "done"}
      BY <2>8 DEF Next, vars, FillMount, AddHullmod, AddWing, NextPhase, EndSearch, Offer, Return, Returned
    <3> QED BY <2>4, <3>1, <3>2
  <2> QED BY <2>5, <2>6, <2>7, <2>8
<1> QED BY <1>1, <1>2, TypeCorrect, BuildsAreGreedy, PTL DEF Spec

------------------------------------------------------------------------------
\* What a phase passed over does not fit in what is left.
PassedOver ==
    /\ phase = "hullmods" =>
         \A x \in EligibleMods \ (mods \cup rest) : ModCost(hull, x) > Remaining \/ "Logistics" \in Hullmod[x].tags
    /\ phase \in {"wings", "flux", "built"} /\ Cardinality(mods) < MaxHullmods =>
         \A x \in EligibleMods \ mods : ModCost(hull, x) > Remaining \/ "Logistics" \in Hullmod[x].tags
    /\ phase = "wings" => \A w \in EligibleWings \ (wings \cup rest) : Wing[w].op > Remaining
    /\ phase \in {"flux", "built"} /\ Cardinality(wings) < OrZero(hull.bays) =>
         \A w \in EligibleWings \ wings : Wing[w].op > Remaining

LEMMA PassedOverStays == Spec => []PassedOver
<1>1. Init => PassedOver
  BY DEF Init, PassedOver
<1>2. TypeOK /\ BuildSound /\ PassedOver /\ [Next]_vars => PassedOver'
  <2> SUFFICES ASSUME TypeOK, BuildSound, PassedOver, [Next]_vars PROVE PassedOver'
    OBVIOUS
  <2>1. /\ hull' = hull /\ EligibleMods' = EligibleMods /\ EligibleWings' = EligibleWings
        /\ OrZero(hull.bays)' = OrZero(hull.bays) /\ OpLimit' = OpLimit
    BY AskedStays, SoundReads DEF OpLimit
  <2>2. OpLimit \in Nat /\ spent \in Nat
    BY Costs DEF TypeOK
  <2>3. /\ \A x \in EligibleMods : ModCost(hull, x)' = ModCost(hull, x) /\ ModCost(hull, x) \in Nat
        /\ \A w \in EligibleWings : Wing[w].op \in Nat
    BY <2>1, EligibleParts DEF ModCost
  <2>4. CASE AddHullmod
    <3>1. phase = "hullmods" /\ phase' = phase /\ ~ModsFull
      BY <2>4 DEF AddHullmod
    <3>2. PICK x \in rest :
            /\ rest' = rest \ {x}
            /\ \/ mods' = mods \cup {x} /\ spent' = spent + ModCost(hull, x)
               \/ /\ ~(ModCost(hull, x) <= Remaining) \/ "Logistics" \in Hullmod[x].tags
                  /\ UNCHANGED <<mods, spent>>
      BY <2>4 DEF AddHullmod
    <3>3. x \in EligibleMods
      BY <3>1 DEF TypeOK
    <3>4. spent' \in Nat /\ spent' >= spent /\ Remaining = OpLimit - spent /\ Remaining' = OpLimit - spent'
      BY <2>1, <2>2, <2>3, <3>2, <3>3 DEF Remaining
    <3>5. ASSUME NEW y \in EligibleMods \ (mods' \cup rest')
          PROVE  ModCost(hull, y)' > Remaining' \/ "Logistics" \in Hullmod[y].tags
      <4>1. CASE y = x
        <5>1. ~(ModCost(hull, x) <= Remaining) \/ "Logistics" \in Hullmod[x].tags
          BY <3>2, <3>5, <4>1
        <5>2. UNCHANGED spent
          BY <3>2, <3>5, <4>1
        <5> QED BY <2>2, <2>3, <3>3, <3>4, <4>1, <5>1, <5>2
      <4>2. CASE y # x
        <5>1. ModCost(hull, y) > Remaining \/ "Logistics" \in Hullmod[y].tags
          BY <3>1, <3>2, <3>5, <4>2 DEF PassedOver
        <5> QED BY <2>2, <2>3, <3>4, <5>1
      <4> QED BY <4>1, <4>2
    <3> QED BY <2>1, <3>1, <3>5 DEF PassedOver
  <2>5. CASE AddWing
    <3>1. phase = "wings" /\ phase' = phase /\ mods' = mods
      BY <2>5 DEF AddWing
    <3>2. PICK w \in rest :
            /\ rest' = rest \ {w}
            /\ \/ wings' = wings \cup {w} /\ spent' = spent + Wing[w].op
               \/ ~(Wing[w].op <= Remaining) /\ UNCHANGED <<wings, spent>>
      BY <2>5 DEF AddWing
    <3>3. w \in EligibleWings
      BY <3>1 DEF TypeOK
    <3>4. spent' \in Nat /\ spent' >= spent /\ Remaining = OpLimit - spent /\ Remaining' = OpLimit - spent'
      BY <2>1, <2>2, <2>3, <3>2, <3>3 DEF Remaining
    <3>5. ASSUME NEW y \in EligibleWings \ (wings' \cup rest') PROVE Wing[y].op > Remaining'
      <4>1. CASE y = w
        <5>1. ~(Wing[w].op <= Remaining) /\ UNCHANGED spent
          BY <3>2, <3>5, <4>1
        <5> QED BY <2>2, <2>3, <3>3, <3>4, <4>1, <5>1
      <4>2. CASE y # w
        <5>1. Wing[y].op > Remaining
          BY <3>1, <3>2, <3>5, <4>2 DEF PassedOver
        <5> QED BY <2>2, <2>3, <3>4, <5>1
      <4> QED BY <4>1, <4>2
    <3>6. ASSUME Cardinality(mods) < MaxHullmods, NEW x \in EligibleMods \ mods
          PROVE  ModCost(hull, x)' > Remaining' \/ "Logistics" \in Hullmod[x].tags
      <4>1. ModCost(hull, x) > Remaining \/ "Logistics" \in Hullmod[x].tags
        BY <3>1, <3>6 DEF PassedOver
      <4> QED BY <2>2, <2>3, <3>4, <4>1
    <3> QED BY <2>1, <3>1, <3>5, <3>6 DEF PassedOver
  <2>6. CASE NextPhase
    <3>1. UNCHANGED <<mods, wings, spent>> /\ Remaining' = Remaining
      BY <2>1, <2>6 DEF NextPhase, chosen, Remaining
    <3>2. Cardinality(mods) \in Nat /\ Cardinality(wings) \in Nat /\ OrZero(hull.bays) \in Nat
      BY FS_CardinalityType, SearchAssumption DEF BuildSound, OrZero, TypeOK
    <3>3. CASE phase = "mounts"
      <4>1. phase' = "hullmods" /\ rest' = EligibleMods
        BY <2>6, <3>3 DEF NextPhase
      <4> QED BY <2>1, <4>1 DEF PassedOver
    <3>4. CASE phase = "hullmods"
      <4>1. phase' = "wings" /\ rest' = EligibleWings /\ (rest = {} \/ ModsFull)
        BY <2>6, <3>4 DEF NextPhase
      <4>2. Cardinality(mods) < MaxHullmods => rest = {}
        BY <3>2, <4>1, SearchAssumption DEF ModsFull
      <4>3. Cardinality(mods) < MaxHullmods =>
              \A x \in EligibleMods \ mods : ModCost(hull, x) > Remaining \/ "Logistics" \in Hullmod[x].tags
        BY <3>4, <4>2 DEF PassedOver
      <4> QED BY <2>1, <2>3, <3>1, <4>1, <4>3 DEF PassedOver
    <3>5. CASE phase = "wings"
      <4>1. phase' = "flux" /\ (rest = {} \/ BaysFull)
        BY <2>6, <3>5 DEF NextPhase
      <4>2. Cardinality(wings) < OrZero(hull.bays) => rest = {}
        BY <3>2, <4>1 DEF BaysFull
      <4>3. Cardinality(wings) < OrZero(hull.bays) => \A w \in EligibleWings \ wings : Wing[w].op > Remaining
        BY <3>5, <4>2 DEF PassedOver
      <4>4. Cardinality(mods) < MaxHullmods =>
              \A x \in EligibleMods \ mods : ModCost(hull, x) > Remaining \/ "Logistics" \in Hullmod[x].tags
        BY <3>5 DEF PassedOver
      <4> QED BY <2>1, <2>3, <3>1, <4>1, <4>3, <4>4 DEF PassedOver
    <3> QED BY <2>6, <3>3, <3>4, <3>5 DEF NextPhase
  <2>7. CASE FillMount \/ NextSeed \/ NextPath \/ EndSearch
    <3>1. phase' \in {"mounts", "merged"}
      BY <2>7 DEF FillMount, NextSeed, NextPath, EndSearch, StartBuild
    <3> QED BY <3>1 DEF PassedOver
  <2>8. CASE Validate \/ Offer \/ Return \/ Returned \/ UNCHANGED vars
    <3>1. UNCHANGED <<mods, wings, spent, rest>> \/ phase' = "merged"
      BY <2>8 DEF Validate, Offer, Return, Returned, vars, chosen
    <3>2. phase' = phase \/ (phase = "flux" /\ phase' = "built") \/ phase' \in {"merged", "done"}
      BY <2>8 DEF Validate, Offer, Return, Returned, vars
    <3>3. CASE phase' \in {"merged", "done"}
      BY <3>3 DEF PassedOver
    <3>4. CASE phase' \notin {"merged", "done"}
      <4>1. UNCHANGED <<mods, wings, spent, rest>> /\ Remaining' = Remaining
        BY <2>1, <3>1, <3>4 DEF Remaining
      <4> QED BY <2>1, <2>3, <3>2, <3>4, <4>1 DEF PassedOver
    <3> QED BY <3>3, <3>4
  <2> QED BY <2>4, <2>5, <2>6, <2>7, <2>8 DEF Next
<1> QED BY <1>1, <1>2, TypeCorrect, BuildsAreSound, PTL DEF Spec

\* At a baseline's end nothing that was passed over would still fit.
LEMMA BaselineIsFull ==
    ASSUME TypeOK, BuildSound, spent = PartsCost, BuildGreedy, PassedOver PROVE NothingLeft
<1> SUFFICES ASSUME phase = "built", seed = 0 PROVE NothingLeft
  BY DEF NothingLeft
<1>1. ASSUME NEW m \in MountIds \ DOMAIN weapons, Fillable(m), NEW w \in Eligible(m) PROVE Weapon[w].op > Remaining
  <2>1. ChosenAt(weapons, m, 0)
    <3>1. ChosenAt(weapons, m, Offset(m)) /\ Offset(m) = 0
      BY DEF BuildGreedy, Offset
    <3> QED BY <3>1
  <2>2. 0 >= Cardinality(OptionsAt(weapons, m))
    BY <1>1, <2>1 DEF ChosenAt
  <2>3. IsFiniteSet(OptionsAt(weapons, m))
    <3>1. OptionsAt(weapons, m) \subseteq DOMAIN Weapon
      BY SearchAssumption DEF OptionsAt, Eligible, TypeOK
    <3> QED BY <3>1, SearchAssumption, FS_Subset
  <2>4. OptionsAt(weapons, m) = {}
    BY <2>2, <2>3, FS_EmptySet, FS_CardinalityType
  <2>5. ~(PaidBefore(weapons, m) + Weapon[w].op <= OpLimit)
    BY <2>4 DEF OptionsAt
  <2> DEFINE before == [k \in {j \in DOMAIN weapons : j < m} |-> Weapon[weapons[k]].op]
  <2>6. PaidBefore(weapons, m) \in Nat /\ PaidBefore(weapons, m) <= SumFunction(WeaponPoints)
    <3>1. DOMAIN before \subseteq DOMAIN WeaponPoints /\ \A k \in DOMAIN before : before[k] = WeaponPoints[k]
      BY DEF WeaponPoints
    <3>2. IsFiniteSet(DOMAIN WeaponPoints) /\ \A k \in DOMAIN WeaponPoints : WeaponPoints[k] \in Nat
      BY PointsCounted DEF WeaponPoints
    <3>3. IsFiniteSet(DOMAIN before) /\ \A k \in DOMAIN before : before[k] \in Nat
      BY <3>1, <3>2, FS_Subset
    <3>4. PaidBefore(weapons, m) = SumFunction(before)
      BY DEF PaidBefore
    <3> HIDE DEF before
    <3> QED BY <3>1, <3>2, <3>3, <3>4, TotalIsNat, TotalOfPart
  <2>7. SumFunction(WeaponPoints) \in Nat /\ SumFunction(WeaponPoints) <= spent /\ spent \in Nat
    BY PointsCounted DEF PartsCost
  <2>8. Weapon[w].op \in Nat
    BY SearchAssumption DEF Eligible, TypeOK
  <2> QED BY <2>5, <2>6, <2>7, <2>8, Costs DEF Remaining
<1> QED BY <1>1 DEF NothingLeft, PassedOver

------------------------------------------------------------------------------
\* What is offered: in rounds, and no more than asked for.
Building == {"mounts", "hullmods", "wings", "flux"}
OfferedInRounds ==
    /\ \A p \in DOMAIN results : Len(results[p]) <= req.most
    /\ phase \in Building => Len(results[path]) < req.most
    /\ phase \notin {"merged", "done"} => offered = <<>>
    /\ phase \in {"merged", "done"} =>
         /\ rest \subseteq Nat \X Nat /\ IsFiniteSet(rest) /\ offered \in Seq(Nat \X Nat)
         /\ Len(offered) + Cardinality(rest) <= req.cap
         /\ \A i \in DOMAIN offered : \A y \in rest : offered[i][1] <= y[1]
         /\ \A i, j \in DOMAIN offered : i < j => offered[i][1] <= offered[j][1]

LEMMA MergedIsCapped ==
    ASSUME TypeOK, OfferedInRounds
    PROVE  Merged \subseteq Nat \X Nat /\ IsFiniteSet(Merged) /\ Cardinality(Merged) <= req.cap
<1>1. req.most \in Nat /\ req.cap \in Nat \ {0} /\ PathCount \in Nat /\ results \in [1..PathCount -> Seq(CandidateType)]
  BY SearchAssumption DEF TypeOK, PathCount, AtMost
<1> DEFINE grid == (1..req.most) \X (1..PathCount)
<1>2. Alternatives \subseteq grid
  <2>1. ASSUME NEW p \in DOMAIN results, NEW k \in DOMAIN results[p] PROVE <<k, p>> \in grid
    <3>1. p \in 1..PathCount /\ Len(results[p]) \in Nat /\ Len(results[p]) <= req.most /\ k \in 1..Len(results[p])
      BY <1>1 DEF OfferedInRounds
    <3> QED BY <1>1, <3>1
  <2> QED BY <2>1 DEF Alternatives
<1>3. IsFiniteSet(grid)
  <2>1. \A n \in Nat : IsFiniteSet(1..n)
    BY FS_Interval
  <2>2. IsFiniteSet(1..req.most) /\ IsFiniteSet(1..PathCount)
    BY <1>1, <2>1
  <2> QED BY <2>2, FS_Product
<1>4. IsFiniteSet(Alternatives) /\ Alternatives \subseteq Nat \X Nat
  BY <1>1, <1>2, <1>3, FS_Subset
<1>5. Merged \subseteq Alternatives /\ IsFiniteSet(Merged)
  BY <1>4, FS_Subset DEF Merged
<1> DEFINE Before == {pair \in Alternatives \X Alternatives : Less(pair[1], pair[2])}
           Sooner(x) == {y \in Alternatives : Less(y, x)}
<1>6. \A x, y \in Alternatives : <<x, y>> \in Before <=> Less(x, y)
  OBVIOUS
<1>7. \A x, y \in Alternatives : Less(x, y) <=> x[1] < y[1] \/ (x[1] = y[1] /\ x[2] < y[2])
  <2> SUFFICES ASSUME NEW x \in Alternatives, NEW y \in Alternatives
               PROVE  Less(x, y) <=> x[1] < y[1] \/ (x[1] = y[1] /\ x[2] < y[2])
    OBVIOUS
  <2>1. x = <<x[1], x[2]>> /\ y = <<y[1], y[2]>> /\ x[1] \in Int /\ x[2] \in Int /\ y[1] \in Int /\ y[2] \in Int
    BY <1>4
  <2>2. Less(<<x[1], x[2]>>, <<y[1], y[2]>>) <=> x[1] < y[1] \/ (x[1] = y[1] /\ x[2] < y[2])
    BY <2>1, LessOfTwo
  <2> QED BY <2>1, <2>2
<1>8. \A x \in Alternatives : x[1] \in Nat /\ x[2] \in Nat /\ x = <<x[1], x[2]>>
  BY <1>4
<1>9. /\ \A x \in Alternatives : <<x, x>> \notin Before
      /\ \A x, y, z \in Alternatives : <<x, y>> \in Before /\ <<y, z>> \in Before => <<x, z>> \in Before
      /\ \A x, y \in Alternatives : x # y => <<x, y>> \in Before \/ <<y, x>> \in Before
  <2> HIDE DEF Before
  <2>1. \A x \in Alternatives : <<x, x>> \notin Before
    BY <1>6, <1>7, <1>8
  <2>2. \A x, y, z \in Alternatives : <<x, y>> \in Before /\ <<y, z>> \in Before => <<x, z>> \in Before
    BY <1>6, <1>7, <1>8
  <2>3. ASSUME NEW x \in Alternatives, NEW y \in Alternatives, x # y PROVE <<x, y>> \in Before \/ <<y, x>> \in Before
    <3>1. x[1] # y[1] \/ x[2] # y[2]
      BY <1>8, <2>3
    <3> QED BY <1>6, <1>7, <1>8, <3>1
  <2> QED BY <2>1, <2>2, <2>3
<1>10. \A x \in Alternatives : Sooner(x) = {z \in Alternatives : <<z, x>> \in Before}
  BY <1>6
<1>11. Merged = {x \in Alternatives : Cardinality(Sooner(x)) < req.cap}
  BY DEF Merged
<1>12. \A x \in Alternatives : Cardinality(Sooner(x)) \in Nat
  BY <1>4, FS_Subset, FS_CardinalityType
<1> HIDE DEF Before, Sooner
<1>13. ASSUME NEW x \in Alternatives, NEW y \in Alternatives, x # y
       PROVE  Cardinality(Sooner(x)) # Cardinality(Sooner(y))
  <2>1. <<x, y>> \in Before => Cardinality(Sooner(x)) < Cardinality(Sooner(y))
    BY <1>4, <1>9, <1>10, RanksDiffer
  <2>2. <<y, x>> \in Before => Cardinality(Sooner(y)) < Cardinality(Sooner(x))
    BY <1>4, <1>9, <1>10, RanksDiffer
  <2> QED BY <1>9, <1>12, <1>13, <2>1, <2>2
<1> DEFINE place == [x \in Merged |-> Cardinality(Sooner(x))]
           places == 0..(req.cap - 1)
<1>14. place \in Injection(Merged, places)
  <2>1. \A x \in Merged : Cardinality(Sooner(x)) \in places
    BY <1>1, <1>11, <1>12
  <2>2. \A x, y \in Merged : place[x] = place[y] => x = y
    BY <1>5, <1>13
  <2> HIDE DEF places
  <2> QED BY <2>1, <2>2 DEF Injection, IsInjective
<1>15. IsFiniteSet(places) /\ Cardinality(places) = req.cap
  <2>1. PICK c \in Nat \ {0} : c = req.cap
    BY <1>1
  <2>2. IsFiniteSet(0..(c - 1)) /\ Cardinality(0..(c - 1)) = IF 0 > c - 1 THEN 0 ELSE c - 1 - 0 + 1
    BY FS_Interval
  <2> QED BY <2>1, <2>2
<1>16. Cardinality(Merged) <= req.cap
  <2> HIDE DEF place, places
  <2> QED BY <1>14, <1>15, FS_Injection
<1> QED BY <1>4, <1>5, <1>16

LEMMA OffersAreInRounds == Spec => []OfferedInRounds
<1>1. Init => OfferedInRounds
  <2> SUFFICES ASSUME Init PROVE OfferedInRounds
    OBVIOUS
  <2>1. /\ phase = "mounts" /\ path = 1 /\ results = [p \in 1..PathCount |-> <<>>] /\ req \in Requests /\ offered = <<>>
    BY DEF Init
  <2>2. req.most \in Nat \ {0} /\ 1 \in 1..PathCount
    BY <2>1, SearchAssumption DEF PathCount, AtMost
  <2>3. \A p \in DOMAIN results : Len(results[p]) = 0
    BY <2>1
  <2> QED BY <2>1, <2>2, <2>3 DEF OfferedInRounds
<1>2. TypeOK /\ SearchOrdered /\ OfferedInRounds /\ [Next]_vars => OfferedInRounds'
  <2> SUFFICES ASSUME TypeOK, SearchOrdered, OfferedInRounds, [Next]_vars PROVE OfferedInRounds'
    OBVIOUS
  <2>1. /\ req' = req /\ req.most \in Nat \ {0} /\ req.cap \in Nat \ {0} /\ path \in 1..PathCount /\ PathCount \in Nat
        /\ results \in [1..PathCount -> Seq(CandidateType)]
    BY AskedStays, SearchAssumption DEF TypeOK, PathCount, AtMost
  <2>2. CASE Validate
    <3>1. phase = "flux" /\ phase' = "built" /\ offered' = offered /\ offered = <<>> /\ Len(results[path]) < req.most
      BY <2>2 DEF Validate, OfferedInRounds, Building
    <3>2. results' = results \/ \E c \in CandidateType : results' = [results EXCEPT ![path] = Append(@, c)]
      BY <2>2, CandidateTyped DEF Validate
    <3>3. \A p \in DOMAIN results' : Len(results'[p]) <= req.most
      <4>1. CASE results' = results
        BY <4>1 DEF OfferedInRounds
      <4>2. ASSUME NEW c \in CandidateType, results' = [results EXCEPT ![path] = Append(@, c)]
            PROVE  \A p \in DOMAIN results' : Len(results'[p]) <= req.most
        <5>1. results'[path] = Append(results[path], c) /\ Len(results'[path]) = Len(results[path]) + 1 /\ Len(results[path]) \in Nat
          BY <2>1, <4>2
        <5>2. \A p \in DOMAIN results' : p # path => results'[p] = results[p] /\ p \in DOMAIN results
          BY <2>1, <4>2
        <5> QED BY <2>1, <3>1, <5>1, <5>2 DEF OfferedInRounds
      <4> QED BY <3>2, <4>1, <4>2
    <3> QED BY <2>1, <3>1, <3>3 DEF OfferedInRounds, Building
  <2>3. CASE NextSeed
    <3>1. /\ phase = "built" /\ phase' = "mounts" /\ path' = path /\ ~(Len(results[path]) >= req.most)
          /\ UNCHANGED <<results, offered>> /\ offered = <<>>
      BY <2>3 DEF NextSeed, PathDone, StartBuild, OfferedInRounds
    <3>2. Len(results[path]) \in Nat
      BY <2>1
    <3> QED BY <2>1, <3>1, <3>2 DEF OfferedInRounds
  <2>4. CASE NextPath
    <3>1. /\ phase = "built" /\ phase' = "mounts" /\ path' = path + 1 /\ path < PathCount
          /\ UNCHANGED <<results, offered>> /\ offered = <<>>
      BY <2>4 DEF NextPath, StartBuild, OfferedInRounds
    <3>2. path + 1 \in DOMAIN results /\ path + 1 > path
      BY <2>1, <3>1
    <3>3. results[path + 1] = <<>>
      BY <3>2 DEF SearchOrdered
    <3>4. Len(results'[path']) < req.most
      BY <2>1, <3>1, <3>3
    <3> QED BY <2>1, <3>1, <3>4 DEF OfferedInRounds
  <2>5. CASE EndSearch
    <3>1. phase = "built" /\ phase' = "merged" /\ rest' = Merged /\ UNCHANGED <<results, offered>> /\ offered = <<>>
      BY <2>5 DEF EndSearch, OfferedInRounds
    <3>2. Merged \subseteq Nat \X Nat /\ IsFiniteSet(Merged) /\ Cardinality(Merged) <= req.cap
      BY MergedIsCapped
    <3>3. Cardinality(Merged) \in Nat
      BY <3>2, FS_CardinalityType
    <3>4. /\ \A p \in DOMAIN results : Len(results[p]) <= req.most
          /\ offered' = <<>> /\ Len(offered') = 0 /\ DOMAIN offered' = {}
      BY <3>1 DEF OfferedInRounds
    <3>5. rest' \subseteq Nat \X Nat /\ IsFiniteSet(rest') /\ offered' \in Seq(Nat \X Nat)
      BY <3>1, <3>2, <3>4
    <3>6. Len(offered') + Cardinality(rest') <= req.cap
      BY <2>1, <3>1, <3>2, <3>3, <3>4
    <3> QED BY <2>1, <3>1, <3>4, <3>5, <3>6 DEF OfferedInRounds, Building
  <2>6. CASE Offer
    <3>1. /\ phase = "merged" /\ phase' = phase /\ UNCHANGED results
          /\ rest \subseteq Nat \X Nat /\ IsFiniteSet(rest) /\ offered \in Seq(Nat \X Nat)
          /\ Len(offered) + Cardinality(rest) <= req.cap
          /\ \A i \in DOMAIN offered : \A y \in rest : offered[i][1] <= y[1]
          /\ \A i, j \in DOMAIN offered : i < j => offered[i][1] <= offered[j][1]
      BY <2>6 DEF Offer, OfferedInRounds
    <3>2. PICK x \in rest : Ranked(x, rest, Round, 0) /\ rest' = rest \ {x} /\ (offered' = Append(offered, x) \/ offered' = offered)
      BY <2>6 DEF Offer
    <3>3. \A y \in rest : x[1] <= y[1]
      <4> DEFINE sooner == {y \in rest : Less(y, x)}
      <4>1. Cardinality(sooner) = 0
        BY <3>2 DEF Ranked, Round
      <4>2. sooner = {}
        BY <3>1, <4>1, FS_Subset, FS_EmptySet
      <4>3. ASSUME NEW y \in rest PROVE x[1] <= y[1]
        <5>1. y = <<y[1], y[2]>> /\ x = <<x[1], x[2]>> /\ y[1] \in Nat /\ y[2] \in Nat /\ x[1] \in Nat /\ x[2] \in Nat
          BY <3>1, <3>2
        <5>2. Less(<<y[1], y[2]>>, <<x[1], x[2]>>) <=> y[1] < x[1] \/ (y[1] = x[1] /\ y[2] < x[2])
          BY <5>1, LessOfTwo
        <5>3. ~Less(y, x)
          BY <4>2
        <5> QED BY <5>1, <5>2, <5>3
      <4> QED BY <4>3
    <3>4. Cardinality(rest) \in Nat /\ IsFiniteSet(rest') /\ Cardinality(rest') = Cardinality(rest) - 1
      BY <3>1, <3>2, FS_CardinalityType, FS_RemoveElement
    <3>5. rest' \subseteq Nat \X Nat /\ rest' \subseteq rest
      BY <3>1, <3>2
    <3>6. CASE offered' = offered
      <4>1. Len(offered') + Cardinality(rest') <= req.cap
        BY <2>1, <3>1, <3>4, <3>6
      <4> QED BY <2>1, <3>1, <3>4, <3>5, <3>6, <4>1 DEF OfferedInRounds, Building
    <3>7. CASE offered' = Append(offered, x)
      <4>1. /\ offered' \in Seq(Nat \X Nat) /\ Len(offered') = Len(offered) + 1 /\ Len(offered) \in Nat
            /\ DOMAIN offered' = 1..(Len(offered) + 1) /\ DOMAIN offered = 1..Len(offered)
            /\ offered'[Len(offered) + 1] = x /\ \A i \in DOMAIN offered : offered'[i] = offered[i]
        BY <3>1, <3>2, <3>7
      <4>2. Len(offered') + Cardinality(rest') <= req.cap
        BY <2>1, <3>1, <3>4, <4>1
      <4>3. \A i \in DOMAIN offered' : i \in DOMAIN offered \/ i = Len(offered) + 1
        BY <4>1
      <4>4. \A i \in DOMAIN offered' : \A y \in rest' : offered'[i][1] <= y[1]
        BY <3>1, <3>3, <3>5, <4>1, <4>3
      <4>5. ASSUME NEW i \in DOMAIN offered', NEW j \in DOMAIN offered', i < j PROVE offered'[i][1] <= offered'[j][1]
        <5>1. i \in DOMAIN offered
          BY <4>1, <4>5
        <5>2. CASE j \in DOMAIN offered
          BY <3>1, <4>1, <4>5, <5>1, <5>2
        <5>3. CASE j = Len(offered) + 1
          BY <3>1, <3>2, <4>1, <5>1, <5>3
        <5> QED BY <4>3, <5>2, <5>3
      <4> QED BY <2>1, <3>1, <3>4, <3>5, <4>1, <4>2, <4>4, <4>5 DEF OfferedInRounds, Building
    <3> QED BY <3>2, <3>6, <3>7
  <2>7. CASE FillMount \/ AddHullmod \/ AddWing \/ NextPhase
    <3>1. phase \in Building /\ phase' \in Building /\ UNCHANGED <<path, results, offered>>
      BY <2>7 DEF FillMount, AddHullmod, AddWing, NextPhase, Building
    <3> QED BY <2>1, <3>1 DEF OfferedInRounds, Building
  <2>8. CASE Return \/ Returned \/ UNCHANGED vars
    <3>1. /\ UNCHANGED <<path, rest, results, offered>>
          /\ phase' = phase \/ (phase = "merged" /\ phase' = "done")
      BY <2>8 DEF Return, Returned, vars
    <3>2. IsFiniteSet(rest)' <=> IsFiniteSet(rest)
      BY <3>1
    <3> QED BY <2>1, <3>1, <3>2 DEF OfferedInRounds, Building
  <2> QED BY <2>2, <2>3, <2>4, <2>5, <2>6, <2>7, <2>8 DEF Next
<1> QED BY <1>1, <1>2, TypeCorrect, SearchesAreOrdered, PTL DEF Spec

(* What is offered is a choice: every alternative is the baseline up to    *)
(* the mount it was asked to change and something else there, no two of a  *)
(* path carry the same weapons, smaller changes come first, a baseline     *)
(* leaves nothing it could have taken, and every path's baseline is        *)
(* offered before any alternative, never more than were asked for.         *)
THEOREM AlternativesAreChoices == Spec => []AlternativesDiverge
<1>1. SearchOrdered /\ NothingLeft /\ OfferedInRounds /\ TypeOK => AlternativesDiverge
  <2> SUFFICES ASSUME SearchOrdered, NothingLeft, OfferedInRounds, TypeOK PROVE AlternativesDiverge
    OBVIOUS
  <2>1. ASSUME NEW p \in DOMAIN results PROVE Diverges(results[p])
    BY DEF SearchOrdered
  <2>2. BaselinesFirst
    <3>1. req.cap \in Nat
      BY SearchAssumption DEF TypeOK
    <3>2. CASE phase \notin {"merged", "done"}
      <4>1. offered = <<>> /\ Len(offered) = 0 /\ DOMAIN offered = {}
        BY <3>2 DEF OfferedInRounds
      <4> QED BY <3>1, <4>1 DEF BaselinesFirst
    <3>3. CASE phase \in {"merged", "done"}
      <4>1. /\ rest \subseteq Nat \X Nat /\ IsFiniteSet(rest) /\ offered \in Seq(Nat \X Nat)
            /\ Len(offered) + Cardinality(rest) <= req.cap
            /\ \A i \in DOMAIN offered : \A y \in rest : offered[i][1] <= y[1]
            /\ \A i, j \in DOMAIN offered : i < j => offered[i][1] <= offered[j][1]
        BY <3>3 DEF OfferedInRounds
      <4>2. Len(offered) <= req.cap
        BY <3>1, <4>1, FS_CardinalityType
      <4>3. ASSUME NEW i \in DOMAIN offered, offered[i][1] > 1, NEW p \in 1..PathCount, <<1, p>> \in rest PROVE FALSE
        <5>1. offered[i][1] \in Nat /\ offered[i][1] <= <<1, p>>[1]
          BY <4>1, <4>3
        <5> QED BY <4>3, <5>1
      <4> QED BY <4>1, <4>2, <4>3 DEF BaselinesFirst
    <3> QED BY <3>2, <3>3
  <2> QED BY <2>1, <2>2 DEF AlternativesDiverge, Diverges
<1>2. TypeOK /\ BuildSound /\ spent = PartsCost /\ BuildGreedy /\ PassedOver => NothingLeft
  BY BaselineIsFull
<1> QED BY <1>1, <1>2, TypeCorrect, BuildsAreSound, BuildsAreGreedy, SearchesAreOrdered, PassedOverStays, OffersAreInRounds, PTL

------------------------------------------------------------------------------
(* The two caches.                                                           *)

(* The entities that were hashed.  A pair of a table and its hash fixes    *)
(* which rows the table has.                                               *)
LEMMA SameHashes ==
    ASSUME NEW d, NEW g, NEW es \in SUBSET Entities, SourceHashes(d, es) = SourceHashes(g, es)
    PROVE  \A e \in es : e \in Indexed(d, es) => e \in Indexed(g, es) /\ Hash(g, e) = Hash(d, e)
  <1>1. TAKE e \in es
  <1>2. HAVE e \in Indexed(d, es)
  <1>3. <<Home[e], Hash(d, e)>> \in SourceHashes(g, es)
    BY <1>2 DEF SourceHashes
  <1>4. PICK x \in Indexed(g, es) : Home[x] = Home[e] /\ Hash(g, x) = Hash(d, e)
    BY <1>3 DEF SourceHashes
  <1>5. Table(x) = Table(e)
    BY <1>4 DEF Table
  <1>6. QED
    BY <1>2, <1>4, <1>5 DEF Indexed, Hash

Unspecified(d, g) == \A file \in SpecFiles : d[file] = g[file]

LEMMA SameEntities ==
    ASSUME NEW d, NEW g, NEW es \in SUBSET Entities, SourceHashes(d, es) = SourceHashes(g, es), Unspecified(d, g)
    PROVE  \A s \in SUBSET es : Indexed(d, s) = Indexed(g, s) /\ EntitiesOf(d, s) = EntitiesOf(g, s)
  <1>1. TAKE s \in SUBSET es
  <1>2. \A e \in es : e \in Indexed(d, es) <=> e \in Indexed(g, es)
    BY SameHashes
  <1>3. Indexed(d, s) = Indexed(g, s)
    BY <1>2 DEF Indexed
  <1>4. ASSUME NEW e \in Indexed(d, s) PROVE Entity(d, e) = Entity(g, e)
    <2>1. e \in es /\ e \in Indexed(d, es)
      BY <1>4 DEF Indexed
    <2>2. Hash(g, e) = Hash(d, e)
      BY <2>1, SameHashes
    <2>3. e \in HullIds \cup Weapons => d[SpecFile(e)] = g[SpecFile(e)]
      BY DEF Unspecified, SpecFiles
    <2>4. QED
      BY <2>2, <2>3 DEF Entity
  <1>5. QED
    BY <1>3, <1>4 DEF EntitiesOf

(* The fits of a hull are the same when the variants' files are.           *)
LEMMA SameFits ==
    ASSUME NEW d, NEW g, NEW h \in HullIds, SourceHashes(d, {h} \cup Parts) = SourceHashes(g, {h} \cup Parts),
           Unspecified(d, g), \A v \in Variants : d[Table(v)] = g[Table(v)], Entity(d, h) = Entity(g, h)
    PROVE  HullEvidence(d, h) = HullEvidence(g, h)
  <1>1. VariantsForHull(d, h) = VariantsForHull(g, h)
    BY DEF VariantsForHull, Indexed, LoadoutNow
  <1>2. ASSUME NEW v \in VariantsForHull(d, h) PROVE OwnFit(d, v) = OwnFit(g, v)
    <2>1. v \in Variants /\ d[Table(v)] \in Rows[v] /\ v \in Entities
      BY <1>2 DEF VariantsForHull, Indexed, Entities
    <2>2. d[Table(v)] \in Contents
      BY <2>1, FileAssumption
    <2>3. LoadoutNow(d, v) = LoadoutNow(g, v) /\ LoadoutNow(d, v).parts \in SUBSET Parts
      BY <2>1, <2>2, FileAssumption DEF LoadoutNow, Parts
    <2>4. {h} \cup Parts \in SUBSET Entities
      BY DEF Parts, Entities
    <2>5. EntitiesOf(d, LoadoutNow(d, v).parts) = EntitiesOf(g, LoadoutNow(d, v).parts)
      BY <2>3, <2>4, SameEntities
    <2>6. v \in HullIds \cup Weapons => d[SpecFile(v)] = g[SpecFile(v)]
      BY DEF Unspecified, SpecFiles
    <2>7. Entity(d, v) = Entity(g, v)
      BY <2>1, <2>6 DEF Entity, Hash
    <2>8. QED
      BY <2>3, <2>5, <2>7 DEF OwnFit
  <1>3. QED
    BY <1>1, <1>2 DEF HullEvidence

(* One key, one answer: the fingerprint fixes the result up to the files   *)
(* that it leaves out.                                                     *)
LEMMA KeyFixesResult ==
    ASSUME NEW d, NEW g, NEW op \in Operations, NEW op2 \in Operations,
           NEW t, NEW t2, NEW s, NEW s2, NEW f, NEW f2,
           Fingerprint(d, op, t, s, f) = Fingerprint(g, op2, t2, s2, f2),
           t2 \in Indexed(g, Targets(op2)),
           op = "gap_recommendation" => f = NoFaction, op2 = "gap_recommendation" => f2 = NoFaction,
           \A file \in Undeclared(op2) : d[file] = g[file]
    PROVE  Recomputed(d, op, t, s, f) = Recomputed(g, op2, t2, s2, f2)
  <1>1. Unspecified(d, g)
    BY DEF Undeclared, Unspecified
  <1>2. /\ Fingerprint(d, op, t, s, f).operation = op /\ Fingerprint(g, op2, t2, s2, f2).operation = op2
    BY DEF Operations, Fingerprint, AlternativesContext, PathsContext, GapContext
  <1>3. op = op2
    BY <1>2
  <1>4. CASE op \in {"candidate_alternatives", "build_archetype_candidates"}
    <2>1. /\ SearchHashes(d, t) = SearchHashes(g, t2) /\ s = s2 /\ <<t, Allowed(d, f)>> = <<t2, Allowed(g, f2)>>
      BY <1>3, <1>4 DEF Fingerprint, AlternativesContext, PathsContext
    <2>2. t = t2 /\ Allowed(d, f) = Allowed(g, f2)
      BY <2>1
    <2>3. t \in HullIds /\ t \in Indexed(g, {t} \cup Parts)
      BY <1>3, <1>4, <2>2 DEF Targets, Indexed
    <2>4. SourceHashes(d, {t} \cup Parts) = SourceHashes(g, {t} \cup Parts) /\ {t} \cup Parts \in SUBSET Entities
      BY <2>1, <2>2, <2>3 DEF SearchHashes, Parts, Entities
    <2>5. EntitiesOf(d, Parts) = EntitiesOf(g, Parts)
      BY <1>1, <2>4, SameEntities
    <2>6. Hash(d, t) = Hash(g, t)
      BY <2>3, <2>4, SameHashes
    <2>7. Entity(d, t) = Entity(g, t)
      BY <1>1, <2>3, <2>6 DEF Entity, Unspecified, SpecFiles
    <2>8. op = "build_archetype_candidates" => HullEvidence(d, t) = HullEvidence(g, t)
      <3>1. op = "build_archetype_candidates" => \A v \in Variants : d[Table(v)] = g[Table(v)]
        BY <1>3 DEF Undeclared
      <3>2. QED
        BY <1>1, <2>3, <2>4, <2>7, <3>1, SameFits
    <2>9. Consumed(d, op, t) = Consumed(g, op2, t2)
      BY <1>3, <1>4, <2>2, <2>5, <2>7, <2>8 DEF Consumed
    <2>10. QED
      BY <1>3, <2>1, <2>2, <2>9 DEF Recomputed
  <1>5. CASE op = "gap_recommendation"
    <2>1. RegistryHashes(d) = RegistryHashes(g) /\ s = s2 /\ <<t, Hash(d, t)>> = <<t2, Hash(g, t2)>>
      BY <1>3, <1>5 DEF Fingerprint, GapContext
    <2>2. t = t2
      BY <2>1
    <2>3. EntitiesOf(d, Entities) = EntitiesOf(g, Entities)
      BY <1>1, <2>1, SameEntities DEF RegistryHashes
    <2>4. Consumed(d, op, t) = Consumed(g, op2, t2)
      BY <1>3, <1>5, <2>3 DEF Consumed
    <2>5. Allowed(d, f) = Allowed(g, f2)
      BY <1>3, <1>5 DEF Allowed
    <2>6. QED
      BY <1>3, <2>1, <2>2, <2>4, <2>5 DEF Recomputed
  <1>6. QED
    BY <1>4, <1>5 DEF Operations

(* Every row of the table was computed from some files for what its key    *)
(* was made of.                                                            *)
ComputedRow(r) ==
    \E op \in Operations : \E t, s, f :
      /\ r.key = Fingerprint(r.stored, op, t, s, f)
      /\ r.payload = Recomputed(r.stored, op, t, s, f)
      /\ op = "gap_recommendation" => f = NoFaction
RowsInv == \A r \in entries : ComputedRow(r)

LEMMA CommandKeeps ==
    ASSUME RowsInv, NEW op \in Operations, NEW t, NEW s, NEW f, Command(op, t, s, f)
    PROVE  RowsInv' /\ HitsAreFresh'
  <1> DEFINE key == Fingerprint(files, op, t, s, f)
             row == [key |-> key, target |-> t, stored |-> files, payload |-> Recomputed(files, op, t, s, f)]
             reply(r, hit) == [op |-> op, target |-> t, settings |-> s, faction |-> f,
                               payload |-> r.payload, stored |-> r.stored, hit |-> hit]
  <1>1. /\ t \in Indexed(files, Targets(op)) /\ (op = "gap_recommendation" => f = NoFaction) /\ files' = files
        /\ \/ \E found \in Matching(key, t) : returned' = reply(found, TRUE) /\ entries' = entries
           \/ returned' = reply(row, FALSE) /\ entries' = Put(row)
    BY DEF Command
  <1>2. ASSUME NEW found \in Matching(key, t), returned' = reply(found, TRUE), entries' = entries
        PROVE  RowsInv' /\ HitsAreFresh'
    <2>1. found \in entries /\ found.key = key
      BY DEF Matching
    <2>2. PICK op0 \in Operations : \E t0, s0, f0 :
            /\ found.key = Fingerprint(found.stored, op0, t0, s0, f0)
            /\ found.payload = Recomputed(found.stored, op0, t0, s0, f0)
            /\ op0 = "gap_recommendation" => f0 = NoFaction
      BY <2>1 DEF RowsInv, ComputedRow
    <2>3. PICK t0, s0, f0 :
            /\ found.key = Fingerprint(found.stored, op0, t0, s0, f0)
            /\ found.payload = Recomputed(found.stored, op0, t0, s0, f0)
            /\ op0 = "gap_recommendation" => f0 = NoFaction
      BY <2>2
    <2>4. (\A file \in Undeclared(op) : found.stored[file] = files[file])
            => found.payload = Recomputed(files, op, t, s, f)
      <3>1. HAVE \A file \in Undeclared(op) : found.stored[file] = files[file]
      <3>2. Fingerprint(found.stored, op0, t0, s0, f0) = Fingerprint(files, op, t, s, f)
        BY <2>1, <2>3
      <3>3. /\ t \in Indexed(files, Targets(op))
            /\ op = "gap_recommendation" => f = NoFaction
            /\ op0 = "gap_recommendation" => f0 = NoFaction
        BY <1>1, <2>3
      <3>4. Recomputed(found.stored, op0, t0, s0, f0) = Recomputed(files, op, t, s, f)
        BY ONLY <3>1, <3>2, <3>3, KeyFixesResult
      <3>5. QED
        BY <2>3, <3>4
    <2>5. /\ returned'.op = op /\ returned'.target = t /\ returned'.settings = s /\ returned'.faction = f
          /\ returned'.payload = found.payload /\ returned'.stored = found.stored
      BY <1>2
    <2>6. HitsAreFresh'
      BY <1>1, <2>4, <2>5 DEF HitsAreFresh, Exact
    <2>7. QED
      BY <1>2, <2>6 DEF RowsInv, ComputedRow
  <1>3. ASSUME returned' = reply(row, FALSE), entries' = Put(row)
        PROVE  RowsInv' /\ HitsAreFresh'
    <2>1. row.key = key /\ row.stored = files /\ row.payload = Recomputed(files, op, t, s, f)
      OBVIOUS
    <2>2. ComputedRow(row)
      BY <1>1, <2>1 DEF ComputedRow
    <2>3. \A r \in entries' : r \in entries \/ r = row
      BY <1>3 DEF Put
    <2>4. /\ returned'.op = op /\ returned'.target = t /\ returned'.settings = s /\ returned'.faction = f
          /\ returned'.payload = row.payload
      BY <1>3
    <2>5. HitsAreFresh'
      BY <1>1, <2>1, <2>4 DEF HitsAreFresh, Exact
    <2> HIDE DEF row
    <2>6. RowsInv'
      BY <2>2, <2>3 DEF RowsInv, ComputedRow
    <2>7. QED
      BY <2>5, <2>6
  <1>4. QED
    BY <1>1, <1>2, <1>3

(* Whatever was edited, undone and asked before, a result that comes from  *)
(* the table is the one a computation would give now, unless a file that   *)
(* no fingerprint declares differs: for any files, entities and commands.  *)
THEOREM HitsStayFresh == CacheSpec => []HitsAreFresh
  <1>1. CacheInit => RowsInv /\ HitsAreFresh
    BY DEF CacheInit, RowsInv, HitsAreFresh
  <1>2. RowsInv /\ HitsAreFresh /\ [CacheNext]_cacheVars => (RowsInv /\ HitsAreFresh)'
    <2> SUFFICES ASSUME RowsInv, HitsAreFresh, [CacheNext]_cacheVars PROVE (RowsInv /\ HitsAreFresh)'
      OBVIOUS
    <2>1. ASSUME NEW file \in Files, NEW content \in Contents \cup {Gone}, EditFile(file, content)
          PROVE  (RowsInv /\ HitsAreFresh)'
      BY <2>1 DEF EditFile, RowsInv, ComputedRow, HitsAreFresh
    <2>2. ASSUME NEW op \in Operations, NEW t, NEW s, NEW f, Command(op, t, s, f)
          PROVE  (RowsInv /\ HitsAreFresh)'
      BY <2>2, CommandKeeps
    <2>3. CASE UNCHANGED cacheVars
      BY <2>3 DEF cacheVars, RowsInv, ComputedRow, HitsAreFresh, Exact
    <2>4. QED
      BY <2>1, <2>2, <2>3 DEF CacheNext
  <1>3. QED
    BY <1>1, <1>2, PTL DEF CacheSpec

-----------------------------------------------------------------------------
(* The reports.  Two disks agree on a hull, as seen from the first, when   *)
(* the hull, its variants and what they carry are the same entities.       *)
Carried(d, v) == Indexed(d, LoadoutNow(d, v).parts)
HullAgrees(d, g, h) ==
    /\ Entity(d, h) = Entity(g, h)
    /\ \A v \in VariantsForHull(d, h) :
           Entity(d, v) = Entity(g, v) /\ \A p \in Carried(d, v) : Entity(d, p) = Entity(g, p)
FactionAgrees(d, g, f) ==
    Entity(d, f) = Entity(g, f) /\ \A h \in Indexed(d, KnownNow(d, f)) : HullAgrees(d, g, h)
DoctrineAgrees(d, g, f) ==
    \A v \in DoctrineVariants(d, f) :
        Entity(d, v) = Entity(g, v) /\ \A w \in Indexed(d, LoadoutNow(d, v).parts \cap Weapons) : Entity(d, w) = Entity(g, w)

LEMMA SameTable ==
    ASSUME NEW d, NEW g, NEW e, NEW x, Entity(d, e) = Entity(g, x)
    PROVE  /\ e = x /\ d[Table(e)] = g[Table(e)] /\ Entity(d, e) = Entity(g, e)
           /\ \A s : e \in Indexed(d, s) <=> e \in Indexed(g, s)
  <1>1. e = x /\ Hash(d, e) = Hash(g, x)
    BY DEF Entity
  <1>2. QED
    BY <1>1 DEF Hash, Indexed

LEMMA SameCarried ==
    ASSUME NEW d, NEW g, NEW s, \A p \in Indexed(d, s) : Entity(d, p) = Entity(g, p),
           \A p \in Indexed(g, s) : Entity(g, p) = Entity(d, p)
    PROVE  EntitiesOf(d, s) = EntitiesOf(g, s)
  <1>1. \A p : p \in Indexed(d, s) <=> p \in Indexed(g, s)
    BY SameTable
  <1>2. QED
    BY <1>1 DEF EntitiesOf

LEMMA HullFollows ==
    ASSUME NEW d, NEW g, NEW h, HullAgrees(d, g, h), HullAgrees(g, d, h)
    PROVE  HullEvidence(d, h) = HullEvidence(g, h)
  <1>1. ASSUME NEW a, NEW b, HullAgrees(a, b, h), NEW v \in VariantsForHull(a, h)
        PROVE  v \in VariantsForHull(b, h) /\ LoadoutNow(a, v) = LoadoutNow(b, v)
    <2>1. Entity(a, v) = Entity(b, v)
      BY <1>1 DEF HullAgrees
    <2>2. a[Table(v)] = b[Table(v)] /\ (v \in Indexed(a, Variants) <=> v \in Indexed(b, Variants))
      BY <2>1, SameTable
    <2>3. QED
      BY <1>1, <2>2 DEF VariantsForHull, LoadoutNow
  <1>2. VariantsForHull(d, h) = VariantsForHull(g, h)
    BY <1>1
  <1>3. ASSUME NEW v \in VariantsForHull(d, h) PROVE OwnFit(d, v) = OwnFit(g, v)
    <2>1. LoadoutNow(d, v) = LoadoutNow(g, v)
      BY <1>1
    <2>2. EntitiesOf(d, LoadoutNow(d, v).parts) = EntitiesOf(g, LoadoutNow(d, v).parts)
      BY <1>2, <2>1, SameCarried DEF HullAgrees, Carried
    <2>3. QED
      BY <2>1, <2>2 DEF OwnFit, HullAgrees
  <1>4. QED
    BY <1>2, <1>3 DEF HullEvidence, HullAgrees

LEMMA FactionFollows ==
    ASSUME NEW d, NEW g, NEW f, FactionAgrees(d, g, f), FactionAgrees(g, d, f)
    PROVE  CapabilityEvidence(d, f) = CapabilityEvidence(g, f)
  <1>1. KnownNow(d, f) = KnownNow(g, f)
    BY SameTable DEF FactionAgrees, KnownNow
  <1>2. Indexed(d, KnownNow(d, f)) = Indexed(g, KnownNow(d, f))
    <2>1. ASSUME NEW a, NEW b, FactionAgrees(a, b, f), NEW h \in Indexed(a, KnownNow(a, f))
          PROVE  h \in Indexed(b, KnownNow(a, f))
      BY <2>1, SameTable DEF FactionAgrees, HullAgrees
    <2>2. QED
      BY <1>1, <2>1
  <1>3. \A h \in Indexed(d, KnownNow(d, f)) : HullEvidence(d, h) = HullEvidence(g, h)
    BY <1>1, <1>2, HullFollows DEF FactionAgrees
  <1>4. QED
    BY <1>1, <1>2, <1>3 DEF CapabilityEvidence

LEMMA DoctrineFollows ==
    ASSUME NEW d, NEW g, NEW f, DoctrineAgrees(d, g, f), DoctrineAgrees(g, d, f)
    PROVE  DoctrineEvidence(d, f) = DoctrineEvidence(g, f)
  <1>1. ASSUME NEW a, NEW b, DoctrineAgrees(a, b, f), NEW v \in DoctrineVariants(a, f)
        PROVE  v \in DoctrineVariants(b, f) /\ LoadoutNow(a, v) = LoadoutNow(b, v)
    <2>1. Entity(a, v) = Entity(b, v)
      BY <1>1 DEF DoctrineAgrees
    <2>2. a[Table(v)] = b[Table(v)] /\ (v \in Indexed(a, Variants) <=> v \in Indexed(b, Variants))
      BY <2>1, SameTable
    <2>3. QED
      BY <1>1, <2>2 DEF DoctrineVariants, OfMod, LoadoutNow
  <1>2. DoctrineVariants(d, f) = DoctrineVariants(g, f)
    BY <1>1
  <1>3. ASSUME NEW v \in DoctrineVariants(d, f) PROVE Armed(d, v) = Armed(g, v)
    <2>1. LoadoutNow(d, v) = LoadoutNow(g, v)
      BY <1>1
    <2>2. EntitiesOf(d, LoadoutNow(d, v).parts \cap Weapons) = EntitiesOf(g, LoadoutNow(d, v).parts \cap Weapons)
      BY <1>2, <2>1, SameCarried DEF DoctrineAgrees
    <2>3. QED
      BY <2>1, <2>2 DEF Armed
  <1>4. QED
    BY <1>2, <1>3 DEF DoctrineEvidence, DoctrineVariants

(* Equal sets of entities are of the same entities.                        *)
LEMMA DependenciesAgree ==
    ASSUME NEW d, NEW g
    PROVE  /\ \A h : HullDependencies(d, h) \subseteq HullDependencies(g, h) => HullAgrees(d, g, h)
           /\ \A f : CapabilityDependencies(d, f) \subseteq CapabilityDependencies(g, f) => FactionAgrees(d, g, f)
           /\ \A f : DoctrineDependencies(d, f) \subseteq DoctrineDependencies(g, f) => DoctrineAgrees(d, g, f)
  <1> DEFINE From(t) == \E x : t = Entity(g, x)
  <1>1. \A e : From(Entity(d, e)) => Entity(d, e) = Entity(g, e)
    BY SameTable
  <1>2. /\ \A h : \A t \in HullDependencies(g, h) : From(t)
        /\ \A f : \A t \in CapabilityDependencies(g, f) : From(t)
        /\ \A f : \A t \in DoctrineDependencies(g, f) : From(t)
    <2>1. \A s : \A t \in EntitiesOf(g, s) : From(t)
      BY DEF EntitiesOf
    <2>2. \A h : \A t \in HullDependencies(g, h) : From(t)
      BY <2>1 DEF HullDependencies, FitDependencies
    <2>3. \A f : \A t \in CapabilityDependencies(g, f) : From(t)
      BY <2>2 DEF CapabilityDependencies
    <2>4. \A f : \A t \in DoctrineDependencies(g, f) : From(t)
      BY <2>1 DEF DoctrineDependencies
    <2>5. QED
      BY <2>2, <2>3, <2>4
  <1> HIDE DEF From
  <1>3. ASSUME NEW h, \A t \in HullDependencies(d, h) : From(t) PROVE HullAgrees(d, g, h)
    <2>1. Entity(d, h) = Entity(g, h)
      BY <1>1, <1>3 DEF HullDependencies
    <2>2. ASSUME NEW v \in VariantsForHull(d, h) PROVE Entity(d, v) = Entity(g, v)
      <3>1. v \in Indexed(d, VariantsForHull(d, h) \cup UNION {LoadoutNow(d, u).parts : u \in VariantsForHull(d, h)})
        BY DEF VariantsForHull, Indexed
      <3>2. QED
        BY <1>1, <1>3, <3>1 DEF HullDependencies, FitDependencies, EntitiesOf
    <2>3. ASSUME NEW v \in VariantsForHull(d, h), NEW p \in Carried(d, v) PROVE Entity(d, p) = Entity(g, p)
      <3>1. p \in Indexed(d, VariantsForHull(d, h) \cup UNION {LoadoutNow(d, u).parts : u \in VariantsForHull(d, h)})
        BY DEF Carried, Indexed
      <3>2. QED
        BY <1>1, <1>3, <3>1 DEF HullDependencies, FitDependencies, EntitiesOf
    <2>4. QED
      BY <2>1, <2>2, <2>3 DEF HullAgrees
  <1>4. ASSUME NEW f, \A t \in CapabilityDependencies(d, f) : From(t) PROVE FactionAgrees(d, g, f)
    <2>1. Entity(d, f) = Entity(g, f)
      BY <1>1, <1>4 DEF CapabilityDependencies
    <2>2. \A h \in Indexed(d, KnownNow(d, f)) : HullAgrees(d, g, h)
      BY <1>3, <1>4 DEF CapabilityDependencies
    <2>3. QED
      BY <2>1, <2>2 DEF FactionAgrees
  <1>5. ASSUME NEW f, \A t \in DoctrineDependencies(d, f) : From(t) PROVE DoctrineAgrees(d, g, f)
    <2> DEFINE all == DoctrineVariants(d, f) \cup UNION {LoadoutNow(d, v).parts \cap Weapons : v \in DoctrineVariants(d, f)}
    <2>1. \A e \in Indexed(d, all) : Entity(d, e) = Entity(g, e)
      BY <1>1, <1>5 DEF DoctrineDependencies, EntitiesOf
    <2>2. \A v \in DoctrineVariants(d, f) : v \in Indexed(d, all)
      BY DEF DoctrineVariants, OfMod, Indexed
    <2>3. \A v \in DoctrineVariants(d, f) : \A w \in Indexed(d, LoadoutNow(d, v).parts \cap Weapons) : w \in Indexed(d, all)
      BY DEF Indexed
    <2>4. QED
      BY <2>1, <2>2, <2>3 DEF DoctrineAgrees
  <1>6. QED
    BY <1>2, <1>3, <1>4, <1>5

(* One fingerprint, one report.                                            *)
LEMMA FingerprintFixesReport ==
    ASSUME NEW d, NEW g, NEW r \in Reports \ Documents, Dependencies(d, r) = Dependencies(g, r)
    PROVE  Body(d, r) = Body(g, r)
  <1>1. CASE r \in Profiles
    <2>1. PICK h \in HullIds : r = <<"profile", h>>
      BY <1>1 DEF Profiles, Profile
    <2>2. HullDependencies(d, h) = HullDependencies(g, h)
      BY <2>1 DEF Dependencies
    <2>3. HullEvidence(d, h) = HullEvidence(g, h)
      BY <2>2, DependenciesAgree, HullFollows
    <2>4. QED
      BY <2>1, <2>3 DEF Body
  <1>2. ASSUME NEW f \in Factions, r = <<"capability", f>> PROVE Body(d, r) = Body(g, r)
    <2>1. CapabilityDependencies(d, f) = CapabilityDependencies(g, f)
      BY <1>2 DEF Dependencies
    <2>2. CapabilityEvidence(d, f) = CapabilityEvidence(g, f)
      BY <2>1, DependenciesAgree, FactionFollows
    <2>3. QED
      BY <1>2, <2>2 DEF Body
  <1>3. ASSUME NEW f \in Factions, r = <<"doctrine", f>> PROVE Body(d, r) = Body(g, r)
    <2>1. DoctrineDependencies(d, f) = DoctrineDependencies(g, f)
      BY <1>3 DEF Dependencies
    <2>2. DoctrineEvidence(d, f) = DoctrineEvidence(g, f)
      BY <2>1, DependenciesAgree, DoctrineFollows
    <2>3. QED
      BY <1>3, <2>2 DEF Body
  <1>4. ASSUME NEW m \in Mods, r = <<"sources", m>> PROVE Body(d, r) = Body(g, r)
    <2>1. SourceDependencies(d, m) = SourceDependencies(g, m)
      BY <1>4 DEF Dependencies
    <2>2. SourceEvidence(d, m) = SourceEvidence(g, m)
      BY <2>1 DEF SourceDependencies, SourceEvidence
    <2>3. QED
      BY <1>4, <2>2 DEF Body, FragmentBody
  <1>5. ASSUME NEW kind \in {"weapons", "hullmods"}, NEW m \in Mods, r = <<kind, m>> PROVE Body(d, r) = Body(g, r)
    <2>1. EntitiesOf(d, OfMod(KindOf[kind], m)) = EntitiesOf(g, OfMod(KindOf[kind], m))
      BY <1>5 DEF Dependencies
    <2>2. QED
      BY <1>5, <2>1 DEF Body, FragmentBody, ClassificationEvidence
  <1>6. QED
    BY <1>1, <1>2, <1>3, <1>4, <1>5
    DEF Reports, FactionReports, Capability, Doctrine, Fragments, Fragment, Kinds

(* The fingerprint of the whole set fixes what is listed and what it says. *)
LEMMA SameRows ==
    ASSUME NEW d \in Disks, NEW g \in Disks, WholeDependencies(d) = WholeDependencies(g)
    PROVE  /\ \A e \in Entities : \A s : e \in Indexed(d, s) => e \in Indexed(g, s) /\ Entity(d, e) = Entity(g, e)
           /\ \A m \in Mods : d[Java(m)] = g[Java(m)]
  <1>1. RowsOf(d) = RowsOf(g)
    BY DEF WholeDependencies
  <1>2. \A file \in SpecFiles \cup Sources : d[file] = g[file]
    BY DEF WholeDependencies
  <1>3. ASSUME NEW e \in Entities, NEW s, e \in Indexed(d, s) PROVE e \in Indexed(g, s) /\ Entity(d, e) = Entity(g, e)
    <2>1. e \in Indexed(d, Entities) /\ Hash(d, e) \in Contents
      BY <1>3, FileAssumption DEF Indexed, Hash
    <2>2. RowsOf(d)[e] = Hash(d, e)
      BY <2>1 DEF RowsOf
    <2>3. RowsOf(g)[e] = IF e \in Indexed(g, Entities) THEN Hash(g, e) ELSE Gone
      BY DEF RowsOf
    <2>4. Hash(g, e) = Hash(d, e)
      BY <1>1, <2>1, <2>2, <2>3, FileAssumption
    <2>5. e \in HullIds \cup Weapons => d[SpecFile(e)] = g[SpecFile(e)]
      BY <1>2 DEF SpecFiles
    <2>6. QED
      BY <1>3, <2>4, <2>5 DEF Entity, Indexed, Hash
  <1>4. QED
    BY <1>2, <1>3 DEF Sources

LEMMA WholeAgrees ==
    ASSUME NEW d \in Disks, NEW g \in Disks, WholeDependencies(d) = WholeDependencies(g)
    PROVE  /\ \A h \in Indexed(d, HullIds) : HullAgrees(d, g, h)
           /\ \A f \in Indexed(d, Factions) : FactionAgrees(d, g, f) /\ DoctrineAgrees(d, g, f)
  <1>1. \A e \in Entities : \A s : e \in Indexed(d, s) => Entity(d, e) = Entity(g, e)
    BY SameRows
  <1>2. ASSUME NEW v \in Indexed(d, Variants)
        PROVE  /\ Entity(d, v) = Entity(g, v) /\ LoadoutNow(d, v).parts \subseteq Entities
               /\ \A s \in SUBSET Entities : \A p \in Indexed(d, s) : Entity(d, p) = Entity(g, p)
    <2>1. v \in Variants /\ d[Table(v)] \in Contents
      BY FileAssumption DEF Indexed, Entities
    <2>2. LoadoutNow(d, v).parts \in SUBSET (Weapons \cup Hullmods)
      BY <2>1, FileAssumption DEF LoadoutNow
    <2>3. QED
      BY <1>1, <2>1, <2>2 DEF Entities, Indexed
  <1>3. ASSUME NEW h \in Indexed(d, HullIds) PROVE HullAgrees(d, g, h)
    <2>1. Entity(d, h) = Entity(g, h)
      BY <1>1 DEF Entities, Indexed
    <2>2. ASSUME NEW v \in VariantsForHull(d, h)
          PROVE  Entity(d, v) = Entity(g, v) /\ \A p \in Carried(d, v) : Entity(d, p) = Entity(g, p)
      BY <1>2 DEF VariantsForHull, Carried
    <2>3. QED
      BY <2>1, <2>2 DEF HullAgrees
  <1>4. ASSUME NEW f \in Indexed(d, Factions) PROVE FactionAgrees(d, g, f) /\ DoctrineAgrees(d, g, f)
    <2>1. Entity(d, f) = Entity(g, f)
      BY <1>1 DEF Entities, Indexed
    <2>2. KnownNow(d, f) \subseteq HullIds
      <3>1. f \in Factions /\ d[Table(f)] \in Contents
        BY FileAssumption DEF Indexed, Entities
      <3>2. QED
        BY <3>1, KnownAssumption DEF KnownNow
    <2>3. \A h \in Indexed(d, KnownNow(d, f)) : HullAgrees(d, g, h)
      BY <1>3, <2>2 DEF Indexed
    <2>4. ASSUME NEW v \in DoctrineVariants(d, f)
          PROVE  Entity(d, v) = Entity(g, v)
                 /\ \A w \in Indexed(d, LoadoutNow(d, v).parts \cap Weapons) : Entity(d, w) = Entity(g, w)
      BY <1>2 DEF DoctrineVariants, OfMod, Entities
    <2>5. QED
      BY <2>1, <2>3, <2>4 DEF FactionAgrees, DoctrineAgrees
  <1>5. QED
    BY <1>3, <1>4

LEMMA WholeFixesReports ==
    ASSUME NEW d \in Disks, NEW g \in Disks, WholeDependencies(d) = WholeDependencies(g)
    PROVE  Listed(d) = Listed(g) /\ \A r \in Listed(d) : Body(d, r) = Body(g, r)
  <1>1. \A s \in SUBSET Entities : Indexed(d, s) = Indexed(g, s) /\ EntitiesOf(d, s) = EntitiesOf(g, s)
    <2> SUFFICES ASSUME NEW s \in SUBSET Entities
                 PROVE  Indexed(d, s) = Indexed(g, s) /\ EntitiesOf(d, s) = EntitiesOf(g, s)
      OBVIOUS
    <2>1. \A e : e \in Indexed(d, s) => e \in Indexed(g, s) /\ Entity(d, e) = Entity(g, e)
      BY SameRows DEF Indexed
    <2>2. \A e : e \in Indexed(g, s) => e \in Indexed(d, s)
      BY SameRows DEF Indexed
    <2>3. QED
      BY <2>1, <2>2 DEF EntitiesOf
  <1>2. ASSUME NEW kind \in Kinds PROVE KindOf[kind] \in SUBSET Entities
    BY DEF Kinds, KindOf, Entities
  <1>3. ASSUME NEW kind \in Kinds PROVE ModsWith(d, kind) = ModsWith(g, kind)
    BY <1>1, <1>2 DEF ModsWith
  <1>4. Factions \cup HullIds \in SUBSET Entities
    BY DEF Entities
  <1>5. Due(d) = Due(g)
    BY <1>1, <1>3, <1>4 DEF Due
  <1>6. ASSUME NEW kind \in Kinds, NEW m \in Mods PROVE FragmentBody(d, kind, m) = FragmentBody(g, kind, m)
    <2>1. OfMod(Hullmods, m) \in SUBSET Entities /\ OfMod(KindOf[kind], m) \in SUBSET Entities
      BY <1>2 DEF OfMod, Entities
    <2>2. SourceEvidence(d, m) = SourceEvidence(g, m)
      BY <1>1, <2>1, SameRows DEF SourceEvidence
    <2>3. ClassificationEvidence(d, KindOf[kind], m) = ClassificationEvidence(g, KindOf[kind], m)
      BY <1>1, <2>1 DEF ClassificationEvidence
    <2>4. QED
      BY <2>2, <2>3 DEF FragmentBody
  <1>7. ASSUME NEW r \in Listed(d) PROVE Body(d, r) = Body(g, r)
    <2>1. r \in Due(d) /\ r \in Due(g) /\ r \in Reports /\ r[1] \notin Kinds
      BY <1>5 DEF Listed, Due
    <2>2. CASE r \in Documents
      <3>1. PICK kind \in Kinds : r = <<"document", kind>>
        BY <2>2 DEF Documents, Document
      <3>2. \A m \in ModsWith(d, kind) : FragmentBody(d, kind, m) = FragmentBody(g, kind, m)
        BY <1>6 DEF ModsWith
      <3>3. QED
        BY <1>3, <3>1, <3>2 DEF Body
    <2>3. ASSUME NEW h \in HullIds, r = <<"profile", h>> PROVE Body(d, r) = Body(g, r)
      <3>1. h \in Indexed(d, HullIds) /\ h \in Indexed(g, HullIds)
        BY <2>1, <2>3 DEF Due, Indexed, Kinds
      <3>2. HullEvidence(d, h) = HullEvidence(g, h)
        BY <3>1, WholeAgrees, HullFollows
      <3>3. QED
        BY <2>3, <3>2 DEF Body
    <2>4. ASSUME NEW f \in Factions, r = <<"capability", f>> \/ r = <<"doctrine", f>> PROVE Body(d, r) = Body(g, r)
      <3>1. f \in Indexed(d, Factions) /\ f \in Indexed(g, Factions)
        BY <2>1, <2>4 DEF Due, Indexed, Kinds
      <3>2. CapabilityEvidence(d, f) = CapabilityEvidence(g, f) /\ DoctrineEvidence(d, f) = DoctrineEvidence(g, f)
        BY <3>1, WholeAgrees, FactionFollows, DoctrineFollows
      <3>3. QED
        BY <2>4, <3>2 DEF Body
    <2>5. r \notin Fragments
      BY <2>1 DEF Fragments, Fragment
    <2>6. QED
      BY <2>1, <2>2, <2>3, <2>4, <2>5
      DEF Reports, FactionReports, Capability, Doctrine, Profiles, Profile
  <1>8. QED
    BY <1>5, <1>7 DEF Listed

-----------------------------------------------------------------------------
(* A report or a manifest on disk is not the absence of one.               *)
NoneIsNoReport == \A h, p, b : None # [heuristic |-> h, fingerprint |-> p, body |-> b]

(* Every report was computed from some disk, and says by its fingerprint   *)
(* from which.                                                             *)
ComputedReport(r) ==
    reports[r] # None => \E d : \E h : reports[r] = [heuristic |-> h, fingerprint |-> Dependencies(d, r), body |-> Body(d, r)]
ReportsInv == \A r \in Reports \ Documents : ComputedReport(r)

(* A run has made current what it is through with, and a finished run all. *)
Current(r) == reports[r] # None /\ reports[r].heuristic = heuristic /\ reports[r].body = Body(disk, r)
RunInv ==
    /\ state = "writing" => \A r \in Due(disk) \ todo : Current(r)
    /\ (state = "done" /\ ~(outcome = "REUSED_UNCHANGED" /\ torn)) => \A r \in Listed(disk) : Current(r)

(* Unless a run is writing, or died doing so, the listed reports that are  *)
(* left are of the disk of the report manifest.                            *)
SetOf(d) == \A r \in published.listed : reports[r] # None =>
    reports[r].heuristic = published.heuristic /\ reports[r].body = Body(d, r)
PublishedInv ==
    (published # None /\ ~torn /\ state # "writing") =>
        \E d \in Disks : /\ published.fingerprint = WholeDependencies(d) /\ published.listed = Listed(d)
                         /\ SetOf(d)

StateInv ==
    /\ disk \in Disks /\ seen \in Disks
    /\ state \in {"idle", "writing", "done"}
    /\ reports = [r \in Reports |-> reports[r]]
    /\ manifest # None => manifest = RowsOf(seen)
ReuseInv == StateInv /\ ReportsInv /\ RunInv /\ PublishedInv

LEMMA ReuseInit == ReportsInit => ReuseInv
  <1> SUFFICES ASSUME ReportsInit PROVE ReuseInv
    OBVIOUS
  <1>1. StateInv
    BY DEF ReportsInit, StateInv, Disks
  <1>2. \A r \in Reports : reports[r] = None
    BY DEF ReportsInit
  <1>3. ReportsInv
    BY <1>2 DEF ReportsInv, ComputedReport
  <1>4. RunInv /\ PublishedInv
    BY DEF ReportsInit, RunInv, PublishedInv
  <1>5. QED
    BY <1>1, <1>3, <1>4 DEF ReuseInv

LEMMA EditKeeps ==
    ASSUME ReuseInv, NEW file \in Files, NEW content \in Contents \cup {Gone}, Edit(file, content)
    PROVE  ReuseInv'
  <1>1. /\ state = "idle" /\ disk' = [disk EXCEPT ![file] = content]
        /\ UNCHANGED <<manifest, reports, published, state, heuristic, outcome, todo, seen, torn>>
    BY DEF Edit
  <1>2. StateInv'
    BY <1>1 DEF ReuseInv, StateInv, Disks
  <1>3. ReportsInv'
    BY <1>1 DEF ReuseInv, ReportsInv, ComputedReport
  <1>4. RunInv'
    BY <1>1 DEF RunInv
  <1>5. PublishedInv'
    BY <1>1 DEF ReuseInv, PublishedInv, SetOf
  <1>6. QED
    BY <1>2, <1>3, <1>4, <1>5 DEF ReuseInv

LEMMA DeleteKeeps ==
    ASSUME ReuseInv, NEW x \in Reports, Delete(x)
    PROVE  ReuseInv'
  <1>1. /\ state = "idle" /\ reports' = [reports EXCEPT ![x] = None]
        /\ UNCHANGED <<disk, manifest, published, state, heuristic, outcome, todo, seen, torn>>
    BY DEF Delete
  <1>2. /\ StateInv'
        /\ \A r \in Reports : reports'[r] = reports[r] \/ reports'[r] = None
    BY <1>1 DEF ReuseInv, StateInv
  <1>3. ReportsInv'
    BY <1>2 DEF ReuseInv, ReportsInv, ComputedReport
  <1>4. RunInv'
    BY <1>1 DEF RunInv
  <1>5. PublishedInv'
    <2> SUFFICES ASSUME (published # None /\ ~torn /\ state # "writing")' PROVE PublishedInv'
      BY DEF PublishedInv
    <2>1. PICK d \in Disks : published.fingerprint = WholeDependencies(d) /\ published.listed = Listed(d) /\ SetOf(d)
      BY <1>1 DEF ReuseInv, PublishedInv
    <2>2. Listed(d) \subseteq Reports
      BY DEF Listed, Due
    <2>3. SetOf(d)'
      BY <1>1, <1>2, <2>1, <2>2 DEF SetOf
    <2>4. QED
      BY <1>1, <2>1, <2>3 DEF PublishedInv
  <1>6. QED
    BY <1>2, <1>3, <1>4, <1>5 DEF ReuseInv

LEMMA ScanKeeps ==
    ASSUME ReuseInv, NEW h \in Heuristics, NEW summaryOnly \in BOOLEAN, Scan(h, summaryOnly)
    PROVE  ReuseInv'
  <1>1. /\ state = "idle" /\ manifest' = RowsOf(disk) /\ seen' = disk
        /\ UNCHANGED <<disk, reports, published, torn>>
        /\ \/ UNCHANGED <<state, heuristic, outcome, todo>>
           \/ /\ heuristic' = h /\ WholeReusable(h) /\ state' = "done" /\ outcome' = "REUSED_UNCHANGED"
           \/ heuristic' = h /\ state' = "writing" /\ todo' = Due(disk)
    BY DEF Scan
  <1>2. StateInv'
    BY <1>1 DEF ReuseInv, StateInv, Disks
  <1>3. ReportsInv'
    BY <1>1 DEF ReuseInv, ReportsInv, ComputedReport
  <1>4. PublishedInv'
    BY <1>1 DEF ReuseInv, PublishedInv, SetOf
  <1>5. CASE UNCHANGED <<state, heuristic, outcome, todo>>
    BY <1>1, <1>2, <1>3, <1>4, <1>5 DEF ReuseInv, RunInv
  <1>6. CASE state' = "writing" /\ todo' = Due(disk)
    BY <1>1, <1>2, <1>3, <1>4, <1>6 DEF ReuseInv, RunInv
  <1>7. CASE heuristic' = h /\ WholeReusable(h) /\ state' = "done" /\ outcome' = "REUSED_UNCHANGED"
    <2>1. ASSUME ~torn', NEW r \in Listed(disk) PROVE Current(r)'
      <3>1. /\ published # None /\ published.heuristic = h /\ published.fingerprint = WholeDependencies(disk)
            /\ \A x \in published.listed : reports[x] # None
        BY <1>7 DEF WholeReusable
      <3>2. PICK d \in Disks : published.fingerprint = WholeDependencies(d) /\ published.listed = Listed(d) /\ SetOf(d)
        BY <1>1, <2>1, <3>1 DEF ReuseInv, PublishedInv
      <3>3. Listed(d) = Listed(disk) /\ Body(d, r) = Body(disk, r)
        BY <2>1, <3>1, <3>2, WholeFixesReports DEF ReuseInv, StateInv
      <3>4. reports[r] # None /\ reports[r].heuristic = h /\ reports[r].body = Body(disk, r)
        BY <3>1, <3>2, <3>3 DEF SetOf
      <3>5. QED
        BY <1>1, <1>7, <3>4 DEF Current
    <2>2. RunInv'
      BY <1>1, <1>7, <2>1 DEF RunInv
    <2>3. QED
      BY <1>2, <1>3, <1>4, <2>2 DEF ReuseInv
  <1>8. QED
    BY <1>1, <1>5, <1>6, <1>7

(* A report comes out current: computed, reused by its                *)
(* fingerprint, or put together from fragments that are current already.   *)
LEMMA WrittenIsCurrent ==
    ASSUME ReuseInv, NoneIsNoReport, NEW x \in Reports, WriteReport(x)
    PROVE  Current(x)' /\ (x \notin Documents => ComputedReport(x)')
  <1>1. /\ state = "writing" /\ \A other \in todo : Rank(x) <= Rank(other)
        /\ reports' = IF Reusable(x) THEN reports ELSE [reports EXCEPT ![x] = Computed(x)]
        /\ UNCHANGED <<disk, heuristic>>
    BY DEF WriteReport
  <1>2. CASE Reusable(x)
    <2>1. x \notin Documents /\ reports[x] # None /\ reports[x].heuristic = heuristic
          /\ reports[x].fingerprint = Dependencies(disk, x) /\ reports' = reports
      BY <1>1, <1>2 DEF Reusable, Documents, Document
    <2>2. PICK d, h : reports[x] = [heuristic |-> h, fingerprint |-> Dependencies(d, x), body |-> Body(d, x)]
      BY <2>1 DEF ReuseInv, ReportsInv, ComputedReport
    <2>3. Dependencies(d, x) = Dependencies(disk, x) /\ reports[x].body = Body(d, x)
      BY <2>1, <2>2
    <2>4. Body(d, x) = Body(disk, x)
      BY <2>1, <2>3, FingerprintFixesReport
    <2>5. QED
      BY <1>1, <2>1, <2>2, <2>3, <2>4 DEF Current, ComputedReport
  <1>3. CASE ~Reusable(x) /\ x \notin Documents
    <2>1. Computed(x) = [heuristic |-> heuristic, fingerprint |-> Dependencies(disk, x), body |-> Body(disk, x)]
      BY <1>3 DEF Computed, Documents, Document, Reports, FactionReports, Capability, Doctrine,
                  Profiles, Profile, Fragments, Fragment, Kinds
    <2>2. reports'[x] = Computed(x)
      BY <1>1, <1>3 DEF ReuseInv, StateInv
    <2>3. reports'[x] # None
      BY <2>1, <2>2 DEF NoneIsNoReport
    <2>4. reports'[x] = [heuristic |-> heuristic, fingerprint |-> Dependencies(disk, x), body |-> Body(disk, x)]
      BY <2>1, <2>2
    <2>5. Current(x)'
      BY <1>1, <2>3, <2>4 DEF Current
    <2>6. ComputedReport(x)'
      BY <2>4 DEF ComputedReport
    <2>7. QED
      BY <2>5, <2>6
  <1>4. CASE x \in Documents
    <2>1. PICK kind \in Kinds : x = <<"document", kind>>
      BY <1>4 DEF Documents, Document
    <2>2. ~Reusable(x)
      BY <2>1 DEF Reusable
    <2>3. Computed(x) = [heuristic |-> heuristic, fingerprint |-> None,
                         body |-> [m \in ModsWith(disk, kind) |-> reports[Fragment(kind, m)].body]]
      BY <2>1 DEF Computed
    <2>4. ASSUME NEW m \in ModsWith(disk, kind)
          PROVE  reports[Fragment(kind, m)].body = FragmentBody(disk, kind, m)
      <3>1. m \in Mods
        BY DEF ModsWith
      <3>2. Fragment(kind, m) \in Due(disk)
        BY <2>4, <3>1 DEF Due, Reports, Fragments, Fragment, Kinds
      <3>3. Fragment(kind, m) \notin todo
        BY <1>1, <2>1 DEF Rank, Order, OrderOfDocument, Fragment, Kinds
      <3>4. reports[Fragment(kind, m)].body = Body(disk, Fragment(kind, m))
        BY <1>1, <3>2, <3>3 DEF ReuseInv, RunInv, Current
      <3>5. QED
        BY <3>4 DEF Body, Fragment, Kinds
    <2>5. Computed(x).body = Body(disk, x)
      BY <2>1, <2>3, <2>4 DEF Body
    <2>6. reports'[x] = Computed(x)
      BY <1>1, <2>2 DEF ReuseInv, StateInv
    <2>7. reports'[x] # None /\ reports'[x].heuristic = heuristic /\ reports'[x].body = Body(disk, x)
      BY <2>3, <2>5, <2>6 DEF NoneIsNoReport
    <2>8. QED
      BY <1>1, <1>4, <2>7 DEF Current
  <1>5. QED
    BY <1>2, <1>3, <1>4

LEMMA WriteKeeps ==
    ASSUME ReuseInv, NoneIsNoReport, NEW x \in Reports, WriteReport(x)
    PROVE  ReuseInv'
  <1>1. /\ state = "writing" /\ todo' = todo \ {x}
        /\ UNCHANGED <<disk, manifest, published, state, heuristic, outcome, seen, torn>>
        /\ \/ reports' = reports
           \/ reports' = [reports EXCEPT ![x] = Computed(x)]
    BY DEF WriteReport
  <1>2. StateInv' /\ \A r \in Reports : r # x => reports'[r] = reports[r]
    BY <1>1 DEF ReuseInv, StateInv
  <1>3. Current(x)' /\ (x \notin Documents => ComputedReport(x)')
    BY WrittenIsCurrent
  <1>4. ReportsInv'
    BY <1>2, <1>3 DEF ReuseInv, ReportsInv, ComputedReport
  <1>5. RunInv'
    <2>1. Due(disk) \subseteq Reports
      BY DEF Due
    <2>2. \A r \in Due(disk) \ todo : r # x => Current(r)'
      BY <1>1, <1>2, <2>1 DEF ReuseInv, RunInv, Current
    <2>3. QED
      BY <1>1, <1>3, <2>2 DEF RunInv
  <1>6. PublishedInv'
    BY <1>1 DEF PublishedInv
  <1>7. QED
    BY <1>2, <1>4, <1>5, <1>6 DEF ReuseInv

LEMMA PublishKeeps ==
    ASSUME ReuseInv, Publish
    PROVE  ReuseInv'
  <1>1. /\ state = "writing" /\ todo = {} /\ state' = "done" /\ outcome' = "RECOMPUTED"
        /\ published' = [heuristic |-> heuristic, fingerprint |-> WholeDependencies(disk), listed |-> Listed(disk)]
        /\ UNCHANGED <<disk, manifest, reports, heuristic, todo, seen>>
    BY DEF Publish
  <1>2. StateInv' /\ ReportsInv'
    BY <1>1 DEF ReuseInv, StateInv, ReportsInv, ComputedReport
  <1>3. \A r \in Listed(disk) : Current(r)
    BY <1>1 DEF ReuseInv, RunInv, Listed
  <1>4. RunInv'
    BY <1>1, <1>3 DEF RunInv, Current
  <1>5. PublishedInv'
    <2>1. SetOf(disk)' /\ published'.fingerprint = WholeDependencies(disk) /\ published'.listed = Listed(disk)
      BY <1>1, <1>3 DEF SetOf, Current
    <2>2. disk \in Disks /\ \A r \in Listed(disk) : reports'[r].heuristic = published'.heuristic
                                                    /\ reports'[r].body = Body(disk, r)
      BY <1>1, <1>3 DEF ReuseInv, StateInv, Current
    <2>3. QED
      BY <2>1, <2>2 DEF PublishedInv, SetOf
  <1>6. QED
    BY <1>2, <1>4, <1>5 DEF ReuseInv

LEMMA EndKeeps ==
    ASSUME ReuseInv, Finish \/ Crash
    PROVE  ReuseInv'
  <1>1. /\ state \in {"writing", "done"} /\ state' = "idle" /\ UNCHANGED <<disk, manifest, reports, published, heuristic, seen>>
        /\ (state = "writing" => torn') /\ (state = "done" => torn' = torn)
    BY DEF Finish, Crash
  <1>2. StateInv' /\ ReportsInv' /\ RunInv'
    BY <1>1 DEF ReuseInv, StateInv, ReportsInv, ComputedReport, RunInv
  <1>3. PublishedInv'
    BY <1>1 DEF ReuseInv, PublishedInv, SetOf
  <1>4. QED
    BY <1>2, <1>3 DEF ReuseInv

LEMMA ReuseStep == ReuseInv /\ NoneIsNoReport /\ [ReportsNext]_reportVars => ReuseInv'
  <1> SUFFICES ASSUME ReuseInv, NoneIsNoReport, [ReportsNext]_reportVars PROVE ReuseInv'
    OBVIOUS
  <1>1. CASE UNCHANGED reportVars
    <2>1. UNCHANGED <<disk, manifest, reports, published, state, heuristic, outcome, todo, seen, torn>>
      BY <1>1 DEF reportVars
    <2>2. QED
      BY <2>1 DEF ReuseInv, StateInv, ReportsInv, ComputedReport, RunInv, Current, PublishedInv, SetOf
  <1>2. QED
    BY <1>1, EditKeeps, DeleteKeeps, WriteKeeps, ScanKeeps, PublishKeeps, EndKeeps DEF ReportsNext

(* However much of a run was reused, and whatever was edited, deleted or   *)
(* cut short before it, the reports it lists say what a computation from   *)
(* nothing says, except for a set reused whole after a run that died among *)
(* its writes: for any files, entities, heuristic sets and faults.         *)
THEOREM ReportsStayCurrent ==
    ASSUME NoneIsNoReport PROVE ReportsSpec => []ReportsAreCurrent
  <1>1. ReuseInv => ReportsAreCurrent
    BY DEF ReuseInv, RunInv, Current, ReportsAreCurrent
  <1>2. ReuseInv /\ [ReportsNext]_reportVars => ReuseInv'
    BY ReuseStep
  <1>3. QED
    BY <1>1, <1>2, ReuseInit, PTL DEF ReportsSpec

-----------------------------------------------------------------------------
(* A variant's file holds no row of another entity.                        *)
VariantsHaveFiles == \A v \in Variants : \A e \in Entities : Home[e] = Home[v] => e \in Variants

(* What the rows of a scan leave unchanged it reads as the scan before did. *)
LEMMA UnchangedRow ==
    ASSUME NEW d \in Disks, NEW g \in Disks, NEW e \in Entities, RowsOf(g)[e] = RowsOf(d)[e],
           \A file \in SpecFiles : d[file] = g[file]
    PROVE  \A s : e \in Indexed(d, s) \/ e \in Indexed(g, s) =>
               e \in Indexed(d, s) /\ e \in Indexed(g, s) /\ Entity(d, e) = Entity(g, e)
  <1>1. /\ RowsOf(d)[e] = IF e \in Indexed(d, Entities) THEN Hash(d, e) ELSE Gone
        /\ RowsOf(g)[e] = IF e \in Indexed(g, Entities) THEN Hash(g, e) ELSE Gone
    BY DEF RowsOf
  <1>2. d[Table(e)] \in Rows[e] \/ g[Table(e)] \in Rows[e] => d[Table(e)] = g[Table(e)]
    BY <1>1, FileAssumption DEF Indexed, Hash
  <1>3. e \in HullIds \cup Weapons => d[SpecFile(e)] = g[SpecFile(e)]
    BY DEF SpecFiles
  <1>4. QED
    BY <1>2, <1>3 DEF Indexed, Entity, Hash

LEMMA UnreachedHull ==
    ASSUME VariantsHaveFiles, StateInv, manifest = RowsOf(seen), Rowwise, NEW h \in HullIds,
           h \in Indexed(disk, HullIds), h \notin DirectImpacts(manifest, disk).profiles
    PROVE  HullEvidence(seen, h) = HullEvidence(disk, h)
  <1>1. /\ \A file \in SpecFiles : disk[file] = seen[file]
        /\ \A v \in Variants : disk[Table(v)] = seen[Table(v)]
    <2>1. SpecFiles \subseteq Files \ {Table(e) : e \in Entities \ Variants}
      BY DEF SpecFiles, SpecFile, Table, Files
    <2>2. \A v \in Variants : Table(v) \in Files \ {Table(e) : e \in Entities \ Variants}
      BY DEF VariantsHaveFiles, Table, Files, Tables, Entities
    <2>3. QED
      BY <2>1, <2>2 DEF Rowwise
  <1>2. /\ RowsOf(seen)[h] = RowsOf(disk)[h]
        /\ \A v \in VariantsForHull(disk, h) : v \notin Touched(RowsOf(seen), disk)
    BY DEF DirectImpacts, Changed, TouchedHulls, VariantsForHull
  <1>3. Entity(seen, h) = Entity(disk, h)
    BY <1>1, <1>2, UnchangedRow DEF StateInv, Entities
  <1>4. ASSUME NEW v \in Variants
        PROVE  Entity(seen, v) = Entity(disk, v) /\ LoadoutNow(seen, v) = LoadoutNow(disk, v)
               /\ (v \in VariantsForHull(seen, h) <=> v \in VariantsForHull(disk, h))
    <2>1. v \in HullIds \cup Weapons => disk[SpecFile(v)] = seen[SpecFile(v)]
      BY <1>1 DEF SpecFiles
    <2>2. QED
      BY <1>1, <2>1 DEF Entity, Hash, LoadoutNow, VariantsForHull, Indexed
  <1>5. ASSUME NEW v \in VariantsForHull(disk, h), NEW p \in LoadoutNow(disk, v).parts
        PROVE  p \in Entities /\ RowsOf(seen)[p] = RowsOf(disk)[p]
    <2>1. v \in Variants /\ v \in Indexed(disk, Variants) /\ disk[Table(v)] \in Contents
      BY FileAssumption DEF VariantsForHull, Indexed, Entities
    <2>2. p \in Weapons \cup Hullmods
      BY <2>1, FileAssumption DEF LoadoutNow
    <2>3. p \notin Changed(RowsOf(seen), disk, Weapons \cup Hullmods)
      BY <1>2, <2>1 DEF Touched
    <2>4. QED
      BY <2>2, <2>3 DEF Changed, Entities
  <1>6. ASSUME NEW v \in VariantsForHull(disk, h), NEW p \in Carried(disk, v) \cup Carried(seen, v)
        PROVE  Entity(seen, p) = Entity(disk, p)
    <2>1. p \in LoadoutNow(disk, v).parts /\ (p \in Indexed(disk, LoadoutNow(disk, v).parts) \/ p \in Indexed(seen, LoadoutNow(disk, v).parts))
      BY <1>4 DEF Carried, Indexed, VariantsForHull
    <2>2. QED
      BY <1>1, <1>5, <2>1, UnchangedRow DEF StateInv
  <1>7. HullAgrees(disk, seen, h) /\ HullAgrees(seen, disk, h)
    BY <1>3, <1>4, <1>6 DEF HullAgrees, VariantsForHull, Indexed
  <1>8. QED
    BY <1>7, HullFollows

LEMMA UnreachedFaction ==
    ASSUME VariantsHaveFiles, StateInv, manifest = RowsOf(seen), Rowwise, NEW f \in Factions,
           f \in Indexed(disk, Factions),
           f \notin DirectImpacts(manifest, disk).capability \cup DirectImpacts(manifest, disk).knownList
    PROVE  f \in Indexed(seen, Factions) /\ CapabilityEvidence(seen, f) = CapabilityEvidence(disk, f)
  <1>1. \A file \in SpecFiles : disk[file] = seen[file]
    <2>1. SpecFiles \subseteq Files \ {Table(e) : e \in Entities \ Variants}
      BY DEF SpecFiles, SpecFile, Table, Files
    <2>2. QED
      BY <2>1 DEF Rowwise
  <1>2. /\ RowsOf(seen)[f] = RowsOf(disk)[f]
        /\ KnownNow(disk, f) \cap TouchedHulls(RowsOf(seen), disk) = {}
        /\ KnownNow(disk, f) \cap Changed(RowsOf(seen), disk, HullIds) = {}
    BY DEF DirectImpacts, Changed, KnowingOneOf
  <1>3. f \in Indexed(seen, Factions) /\ Entity(seen, f) = Entity(disk, f)
    BY <1>1, <1>2, UnchangedRow DEF StateInv, Entities
  <1>4. KnownNow(seen, f) = KnownNow(disk, f)
    BY <1>3 DEF Entity, Hash, KnownNow
  <1>5. KnownNow(disk, f) \subseteq HullIds
    <2>1. disk[Table(f)] \in Contents
      BY FileAssumption DEF Indexed, Entities
    <2>2. QED
      BY <2>1, KnownAssumption DEF KnownNow
  <1>6. ASSUME NEW h \in KnownNow(disk, f)
        PROVE  /\ h \in Indexed(disk, KnownNow(disk, f)) <=> h \in Indexed(seen, KnownNow(disk, f))
               /\ h \in Indexed(disk, KnownNow(disk, f)) => HullEvidence(seen, h) = HullEvidence(disk, h)
    <2>1. h \in HullIds /\ RowsOf(seen)[h] = RowsOf(disk)[h] /\ h \notin TouchedHulls(RowsOf(seen), disk)
      BY <1>2, <1>5 DEF Changed
    <2>2. h \in Indexed(disk, KnownNow(disk, f)) <=> h \in Indexed(seen, KnownNow(disk, f))
      BY <1>1, <2>1, UnchangedRow DEF StateInv, Entities
    <2>3. h \notin DirectImpacts(manifest, disk).profiles
      BY <2>1 DEF DirectImpacts, Changed
    <2>4. h \in Indexed(disk, KnownNow(disk, f)) => h \in Indexed(disk, HullIds)
      BY <2>1 DEF Indexed
    <2>5. QED
      BY <2>1, <2>2, <2>3, <2>4, UnreachedHull
  <1>7. Indexed(seen, KnownNow(disk, f)) = Indexed(disk, KnownNow(disk, f))
    BY <1>6 DEF Indexed
  <1>8. QED
    BY <1>3, <1>4, <1>6, <1>7 DEF CapabilityEvidence, Indexed

(* A scan's change impact names every hull and every faction whose         *)
(* evidence the changed rows have changed, if a variant has a file of its  *)
(* own: for any loadouts, factions and files.                              *)
THEOREM ChangesAreAnnounced ==
    ASSUME NoneIsNoReport, VariantsHaveFiles PROVE ReportsSpec => StaleIsAnnounced
  <1> DEFINE Announced ==
        (scans' # scans /\ manifest # None /\ Rowwise) =>
          /\ \A h \in Indexed(disk, HullIds) :
                 HullEvidence(seen, h) # HullEvidence(disk, h) => h \in impacts'.profiles
          /\ \A f \in Indexed(disk, Factions) :
                 f \notin Indexed(seen, Factions) \/ CapabilityEvidence(seen, f) # CapabilityEvidence(disk, f)
                     => f \in impacts'.capability \cup impacts'.knownList
  <1>1. ReuseInv /\ [ReportsNext]_reportVars => Announced
    <2> SUFFICES ASSUME ReuseInv, [ReportsNext]_reportVars, scans' # scans, manifest # None, Rowwise
                 PROVE  Announced
      OBVIOUS
    <2>1. StateInv /\ manifest = RowsOf(seen)
      BY DEF ReuseInv, StateInv
    <2>2. impacts' = DirectImpacts(manifest, disk)
      BY DEF ReportsNext, reportVars, Edit, Delete, WriteReport, Publish, Finish, Crash, Scan
    <2>3. \A h \in Indexed(disk, HullIds) : h \in HullIds
      BY DEF Indexed
    <2>4. \A f \in Indexed(disk, Factions) : f \in Factions
      BY DEF Indexed
    <2>5. QED
      BY <2>1, <2>2, <2>3, <2>4, UnreachedHull, UnreachedFaction
  <1>2. ReuseInv /\ [ReportsNext]_reportVars => ReuseInv'
    BY ReuseStep
  <1>3. QED
    BY <1>1, <1>2, ReuseInit, PTL DEF ReportsSpec, StaleIsAnnounced
================================================================================
