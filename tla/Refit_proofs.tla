------------------------------ MODULE Refit_proofs ------------------------------
(***************************************************************************)
(* What the refit assistant guarantees for any hull, fit, parts, metrics   *)
(* and locks: types and the number of changes, that locked parts stay,     *)
(* that the changes explain the fit, that improvements add up, and that a  *)
(* repair settles.                                                         *)
(***************************************************************************)
EXTENDS Refit, Counting

\* A fixer takes or changes one part that is not locked, or lowers a number; a
\* move of the quality search may also add a hullmod.
Taken(c)    == \E m \in DOMAIN fit.weapons \ locks.mounts : c = RemoveWeapon(m)
Swapped(c)  == \E m \in DOMAIN fit.weapons \ locks.mounts : \E w \in DOMAIN Weapon : c = ReplaceWeapon(m, w)
Dropped(c)  == \E x \in fit.mods \ locks.mods : c = RemoveHullmod(x)
Added(c)    == \E x \in DOMAIN Hullmod \ (fit.mods \cup locks.mods) : c = InstallHullmod(x)
Grounded(c) == \E w \in DOMAIN fit.wings \ locks.wings : c = RemoveWing(w)
Lowered(c)  ==
    \/ \E n \in Nat : n < fit.vents /\ c = Change("VENTS_REDUCED", "flux_vents", fit.vents, n)
    \/ \E n \in Nat : n < fit.caps /\ c = Change("CAPACITORS_REDUCED", "flux_capacitors", fit.caps, n)
Repairs(c)   == Taken(c) \/ Swapped(c) \/ Dropped(c) \/ Grounded(c) \/ Lowered(c)
Permitted(c) == Repairs(c) \/ Added(c)

LEMMA WantedRepairs ==
    ASSUME RefitTypeOK, ship # Unknown, NEW k \in 1..Ordnance, NEW c \in Wanted(k)
    PROVE  Repairs(c)
  <1>1. CASE k = 1
    <2>1. c \in UnresolvedWeapons
      BY <1>1 DEF Wanted, Ordnance
    <2>2. QED
      BY <2>1 DEF UnresolvedWeapons, Repairs, Taken
  <1>2. CASE k = 2
    <2>1. c \in BuiltInOverrides
      BY <1>2 DEF Wanted, Ordnance
    <2>2. QED
      BY <2>1 DEF BuiltInOverrides, Overridden, Repairs, Taken
  <1>3. CASE k = 3
    <2>1. c \in MountIncompatibilities
      BY <1>3 DEF Wanted, Ordnance
    <2>2. PICK m \in Checked(ship, fit) \ locks.mounts :
            c \in IF Replacements(m) = {} THEN {RemoveWeapon(m)} ELSE {ReplaceWeapon(m, w) : w \in Replacements(m)}
      BY <2>1 DEF MountIncompatibilities
    <2>3. m \in DOMAIN fit.weapons \ locks.mounts
      BY <2>2 DEF Checked, Found
    <2>4. Replacements(m) \subseteq DOMAIN Weapon
      BY DEF Replacements, Compatible
    <2>5. QED
      BY <2>2, <2>3, <2>4 DEF Repairs, Taken, Swapped
  <1>4. CASE k = 4
    <2>1. c \in UnresolvedHullmods
      BY <1>4 DEF Wanted, Ordnance
    <2>2. QED
      BY <2>1 DEF UnresolvedHullmods, Charged, Repairs, Dropped
  <1>5. CASE k = 5
    <2>1. c \in ExcessLogistics
      BY <1>5 DEF Wanted, Ordnance
    <2>2. PICK x \in LogisticsOf(ship, fit) \ locks.mods : c = RemoveHullmod(x)
      BY <2>1 DEF ExcessLogistics, First
    <2>3. x \in fit.mods \ locks.mods
      BY <2>2 DEF LogisticsOf, Charged
    <2>4. QED
      BY <2>2, <2>3 DEF Repairs, Dropped
  <1>6. CASE k = 6
    <2>1. c \in UnresolvedWings
      BY <1>6 DEF Wanted, Ordnance
    <2>2. QED
      BY <2>1 DEF UnresolvedWings, Repairs, Grounded
  <1>7. CASE k = 7
    <2>1. c \in ExcessWings
      BY <1>7 DEF Wanted, Ordnance
    <2>2. PICK w \in DOMAIN fit.wings \ locks.wings : c = RemoveWing(w)
      BY <2>1 DEF ExcessWings, First
    <2>3. QED
      BY <2>2 DEF Repairs, Grounded
  <1>8. CASE k = 8
    <2>1. c \in FluxReductions
      BY <1>8 DEF Wanted, Ordnance
    <2>2. {ship.maxVents, ship.maxCaps} \subseteq Nat \cup {Unknown}
      BY RefitAssumption DEF RefitTypeOK
    <2>3. CASE Above(ship.maxVents, fit.vents)
      <3>1. c = Change("VENTS_REDUCED", "flux_vents", fit.vents, ship.maxVents)
        BY <2>1, <2>3 DEF FluxReductions
      <3>2. ship.maxVents \in Nat /\ ship.maxVents < fit.vents
        BY <2>2, <2>3 DEF Above, RefitTypeOK, IsFit
      <3>3. QED
        BY <3>1, <3>2 DEF Repairs, Lowered
    <2>4. CASE ~Above(ship.maxVents, fit.vents)
      <3>1. Above(ship.maxCaps, fit.caps) /\ c = Change("CAPACITORS_REDUCED", "flux_capacitors", fit.caps, ship.maxCaps)
        BY <2>1, <2>4 DEF FluxReductions
      <3>2. ship.maxCaps \in Nat /\ ship.maxCaps < fit.caps
        BY <2>2, <3>1 DEF Above, RefitTypeOK, IsFit
      <3>3. QED
        BY <3>1, <3>2 DEF Repairs, Lowered
    <2>5. QED
      BY <2>3, <2>4
  <1>9. CASE k = Ordnance
    <2>1. c \in Costliest
      BY <1>9 DEF Wanted, Ordnance
    <2>2. PICK p \in Removable : c = p.change
      BY <2>1 DEF Costliest
    <2>3. \/ \E m \in DOMAIN fit.weapons \ locks.mounts : c = RemoveWeapon(m)
          \/ \E x \in Charged(ship, fit) \ locks.mods : c = RemoveHullmod(x)
          \/ \E w \in DOMAIN fit.wings \ locks.wings : c = RemoveWing(w)
      BY <2>2 DEF Removable, Priced
    <2>4. QED
      BY <2>3 DEF Charged, Repairs, Taken, Dropped, Grounded
  <1>10. QED
    BY <1>1, <1>2, <1>3, <1>4, <1>5, <1>6, <1>7, <1>8, <1>9 DEF Ordnance

LEMMA MoveSwapsOrAdds ==
    ASSUME NEW c \in Moves
    PROVE  Swapped(c) \/ Added(c)
  <1>1. CASE c \in Swaps
    <2>1. PICK m \in DOMAIN fit.weapons \ locks.mounts :
            c \in {ReplaceWeapon(m, w) : w \in Compatible(m) \ {fit.weapons[m]}}
      BY <1>1 DEF Swaps
    <2>2. QED
      BY <2>1 DEF Compatible, Swapped
  <1>2. CASE \E S : c \in {InstallHullmod(x) : x \in NewHullmods(S)}
    BY <1>2 DEF NewHullmods, Added
  <1>3. QED
    BY <1>1, <1>2 DEF Moves

------------------------------------------------------------------------------
\* What one permitted change leaves of the fit.
FitKept ==
    /\ IsFit(fit)
    /\ DOMAIN fit.weapons \subseteq DOMAIN given.weapons
    /\ DOMAIN fit.wings \subseteq DOMAIN given.wings
    /\ \A w \in DOMAIN fit.wings : fit.wings[w] <= given.wings[w]
    /\ fit.vents <= given.vents /\ fit.caps <= given.caps
    /\ LocksKept

LEMMA WeaponChange ==
    ASSUME FitKept, UNCHANGED requested, NEW c, fit' = After(c), Taken(c) \/ Swapped(c)
    PROVE  FitKept'
  <1>1. PICK m \in DOMAIN fit.weapons \ locks.mounts :
          \/ c = RemoveWeapon(m)
          \/ \E w \in DOMAIN Weapon : c = ReplaceWeapon(m, w)
    BY DEF Taken, Swapped
  <1>2. CASE c = RemoveWeapon(m)
    <2>1. fit' = [fit EXCEPT !.weapons = Without(fit.weapons, m)]
      BY <1>2 DEF After, RemoveWeapon, Change
    <2>2. fit' = [weapons |-> Without(fit.weapons, m), mods |-> fit.mods, wings |-> fit.wings,
                  vents |-> fit.vents, caps |-> fit.caps]
      BY <2>1 DEF FitKept, IsFit
    <2>3. /\ Without(fit.weapons, m) \in [DOMAIN fit.weapons \ {m} -> Id]
          /\ DOMAIN Without(fit.weapons, m) = DOMAIN fit.weapons \ {m}
          /\ \A n \in DOMAIN fit.weapons \ {m} : Without(fit.weapons, m)[n] = fit.weapons[n]
      BY DEF Without, FitKept, IsFit
    <2>4. QED
      BY <1>1, <2>2, <2>3 DEF FitKept, IsFit, LocksKept, Mounted, Copies, requested
  <1>3. CASE \E w \in DOMAIN Weapon : c = ReplaceWeapon(m, w)
    <2>1. PICK w \in DOMAIN Weapon : c = ReplaceWeapon(m, w)
      BY <1>3
    <2>2. fit' = [fit EXCEPT !.weapons[m] = w]
      BY <2>1 DEF After, ReplaceWeapon, Change
    <2>3. fit' = [weapons |-> [fit.weapons EXCEPT ![m] = w], mods |-> fit.mods, wings |-> fit.wings,
                  vents |-> fit.vents, caps |-> fit.caps]
      BY <2>2 DEF FitKept, IsFit
    <2>4. w \in Id
      BY RefitAssumption
    <2>5. /\ [fit.weapons EXCEPT ![m] = w] \in [DOMAIN fit.weapons -> Id]
          /\ DOMAIN [fit.weapons EXCEPT ![m] = w] = DOMAIN fit.weapons
          /\ \A n \in DOMAIN fit.weapons \ {m} : [fit.weapons EXCEPT ![m] = w][n] = fit.weapons[n]
      BY <2>4 DEF FitKept, IsFit
    <2>6. QED
      BY <1>1, <2>3, <2>5 DEF FitKept, IsFit, LocksKept, Mounted, Copies, requested
  <1>4. QED
    BY <1>1, <1>2, <1>3

LEMMA HullmodChange ==
    ASSUME FitKept, UNCHANGED requested, NEW c, fit' = After(c), Dropped(c) \/ Added(c)
    PROVE  FitKept'
  <1>1. PICK x \in Id \ locks.mods : (c = RemoveHullmod(x)) \/ (c = InstallHullmod(x))
    BY RefitAssumption DEF Dropped, Added, FitKept, IsFit
  <1>2. PICK S \in SUBSET Id : /\ fit' = [fit EXCEPT !.mods = S]
                               /\ \A y \in Id \ {x} : y \in S <=> y \in fit.mods
    <2>1. CASE c = RemoveHullmod(x)
      BY <2>1 DEF After, RemoveHullmod, Change, FitKept, IsFit
    <2>2. CASE c = InstallHullmod(x)
      <3>1. fit' = [fit EXCEPT !.mods = fit.mods \cup {x}]
        BY <2>2 DEF After, InstallHullmod, Change
      <3>2. fit.mods \cup {x} \in SUBSET Id
        BY <1>1 DEF FitKept, IsFit
      <3>3. QED
        BY <3>1, <3>2
    <2>3. QED
      BY <1>1, <2>1, <2>2
  <1>3. fit' = [weapons |-> fit.weapons, mods |-> S, wings |-> fit.wings, vents |-> fit.vents, caps |-> fit.caps]
    BY <1>2 DEF FitKept, IsFit
  <1>4. locks.mods \cap S = locks.mods \cap fit.mods
    BY <1>1, <1>2 DEF FitKept, IsFit
  <1>5. QED
    BY <1>3, <1>4 DEF FitKept, IsFit, LocksKept, Mounted, Copies, requested

LEMMA WingChange ==
    ASSUME FitKept, UNCHANGED requested, NEW c, fit' = After(c), Grounded(c),
           IsFit(given)
    PROVE  FitKept'
  <1>1. PICK w \in DOMAIN fit.wings \ locks.wings : c = RemoveWing(w)
    BY DEF Grounded
  <1>2. PICK g : /\ fit' = [fit EXCEPT !.wings = g]
                 /\ g \in [DOMAIN g -> Nat \ {0}]
                 /\ DOMAIN g \subseteq DOMAIN fit.wings /\ DOMAIN fit.wings \ {w} \subseteq DOMAIN g
                 /\ \A v \in DOMAIN g : g[v] <= fit.wings[v] /\ (v # w => g[v] = fit.wings[v])
    <2>1. fit.wings \in [DOMAIN fit.wings -> Nat \ {0}]
      BY DEF FitKept, IsFit
    <2>2. CASE fit' = [fit EXCEPT !.wings = Without(fit.wings, w)]
      <3> DEFINE g == Without(fit.wings, w)
      <3>1. DOMAIN g = DOMAIN fit.wings \ {w} /\ \A v \in DOMAIN fit.wings \ {w} : g[v] = fit.wings[v]
        BY DEF Without
      <3>2. g \in [DOMAIN g -> Nat \ {0}]
        BY <2>1, <3>1 DEF Without
      <3>3. \A v \in DOMAIN g : g[v] \in Nat /\ g[v] <= fit.wings[v] /\ (v # w => g[v] = fit.wings[v])
        BY <3>1, <2>1
      <3>4. fit' = [fit EXCEPT !.wings = g]
        BY <2>2
      <3> HIDE DEF g
      <3>5. QED
        BY <3>1, <3>2, <3>3, <3>4
    <2>3. CASE fit.wings[w] # 1 /\ fit' = [fit EXCEPT !.wings = [fit.wings EXCEPT ![w] = @ - 1]]
      <3>1. fit.wings[w] - 1 \in Nat \ {0}
        BY <1>1, <2>1, <2>3
      <3>2. [fit.wings EXCEPT ![w] = @ - 1] \in [DOMAIN fit.wings -> Nat \ {0}]
        BY <2>1, <3>1
      <3>3. \A v \in DOMAIN fit.wings :
              [fit.wings EXCEPT ![w] = @ - 1][v] = IF v = w THEN fit.wings[w] - 1 ELSE fit.wings[v]
        BY <2>1
      <3>4. QED
        BY <1>1, <2>1, <2>3, <3>2, <3>3
    <2>4. fit' = [fit EXCEPT !.wings = IF step = Ordnance THEN Without(fit.wings, w) ELSE Fewer(fit.wings, w)]
      BY <1>1 DEF After, RemoveWing, Change
    <2>5. QED
      BY <2>2, <2>3, <2>4 DEF Fewer
  <1>3. fit' = [weapons |-> fit.weapons, mods |-> fit.mods, wings |-> g, vents |-> fit.vents, caps |-> fit.caps]
    BY <1>2 DEF FitKept, IsFit
  <1>4. \A v \in locks.wings : Copies(fit', v) = Copies(fit, v)
    BY <1>1, <1>2, <1>3 DEF Copies
  <1>5. \A v \in DOMAIN g : g[v] <= given.wings[v]
    <2>1. TAKE v \in DOMAIN g
    <2>2. v \in DOMAIN fit.wings /\ v \in DOMAIN given.wings
      BY <1>2 DEF FitKept
    <2>3. g[v] <= fit.wings[v] /\ fit.wings[v] <= given.wings[v]
      BY <1>2, <2>2 DEF FitKept
    <2>4. g[v] \in Nat /\ fit.wings[v] \in Nat /\ given.wings[v] \in Nat
      BY <1>2, <2>2 DEF FitKept, IsFit
    <2>5. QED
      BY <2>3, <2>4
  <1>6. QED
    BY <1>2, <1>3, <1>4, <1>5 DEF FitKept, IsFit, LocksKept, Mounted, requested

LEMMA FluxChange ==
    ASSUME FitKept, UNCHANGED requested, NEW c, fit' = After(c), Lowered(c),
           IsFit(given)
    PROVE  FitKept'
  <1>1. PICK v \in Nat, n \in Nat : /\ v <= fit.vents /\ n <= fit.caps
                 /\ fit' = [weapons |-> fit.weapons, mods |-> fit.mods, wings |-> fit.wings, vents |-> v, caps |-> n]
    <2>1. CASE \E n \in Nat : n < fit.vents /\ c = Change("VENTS_REDUCED", "flux_vents", fit.vents, n)
      <3>1. PICK n \in Nat : n < fit.vents /\ fit' = [fit EXCEPT !.vents = n]
        BY <2>1 DEF After, Change
      <3>2. QED
        BY <3>1 DEF FitKept, IsFit
    <2>2. CASE \E n \in Nat : n < fit.caps /\ c = Change("CAPACITORS_REDUCED", "flux_capacitors", fit.caps, n)
      <3>1. PICK n \in Nat : n < fit.caps /\ fit' = [fit EXCEPT !.caps = n]
        BY <2>2 DEF After, Change
      <3>2. fit' = [weapons |-> fit.weapons, mods |-> fit.mods, wings |-> fit.wings, vents |-> fit.vents, caps |-> n]
        BY <3>1 DEF FitKept, IsFit
      <3>3. fit.vents \in Nat /\ fit.caps \in Nat
        BY DEF FitKept, IsFit
      <3>4. fit.vents <= fit.vents /\ n <= fit.caps
        BY <3>1, <3>3
      <3>5. QED
        BY <3>2, <3>3, <3>4
    <2>3. QED
      BY <2>1, <2>2 DEF Lowered
  <1>2. v <= given.vents /\ n <= given.caps
    BY <1>1 DEF FitKept, IsFit
  <1>3. QED
    BY <1>1, <1>2 DEF FitKept, IsFit, LocksKept, Mounted, Copies, requested

LEMMA PermittedKeepsFit ==
    ASSUME FitKept, UNCHANGED requested, NEW c, fit' = After(c), Permitted(c),
           IsFit(given)
    PROVE  FitKept'
  BY WeaponChange, HullmodChange, WingChange, FluxChange DEF Permitted, Repairs

------------------------------------------------------------------------------
\* The invariant: besides the two properties, the log is a sequence, and a
\* hull that is not indexed has no failure that a fixer is for.
RefitInv ==
    /\ RefitTypeOK /\ LocksKept
    /\ \E S : log \in Seq(S)
    /\ ship = Unknown => codes \subseteq {"HULL_NOT_FOUND"}

LEMMA CodesOfFailures ==
    ASSUME NEW h, NEW f
    PROVE  /\ Failures(h, f) \subseteq AllCodes
           /\ h = Unknown => Failures(h, f) = {"HULL_NOT_FOUND"}
  <1>1. \A k \in 1..9 : FixerCodes[k] \subseteq AllCodes
    BY DEF AllCodes, Ordnance
  <1>2. {"MOUNT_NOT_FOUND", "WEAPON_NOT_FOUND"} \subseteq AllCodes
    BY <1>1, FixerCodes[1] \subseteq AllCodes DEF FixerCodes
  <1>3. {"BUILT_IN_WEAPON_OVERRIDDEN"} \subseteq AllCodes
    BY <1>1, FixerCodes[2] \subseteq AllCodes DEF FixerCodes
  <1>4. {"WEAPON_TOO_LARGE", "MOUNT_TYPE_MISMATCH"} \subseteq AllCodes
    BY <1>1, FixerCodes[3] \subseteq AllCodes DEF FixerCodes
  <1>5. {"HULLMOD_NOT_FOUND"} \subseteq AllCodes
    BY <1>1, FixerCodes[4] \subseteq AllCodes DEF FixerCodes
  <1>6. {"LOGISTICS_HULLMOD_LIMIT_EXCEEDED"} \subseteq AllCodes
    BY <1>1, FixerCodes[5] \subseteq AllCodes DEF FixerCodes
  <1>7. {"FIGHTER_WING_NOT_FOUND"} \subseteq AllCodes
    BY <1>1, FixerCodes[6] \subseteq AllCodes DEF FixerCodes
  <1>8. {"FIGHTER_BAY_CAPACITY_EXCEEDED"} \subseteq AllCodes
    BY <1>1, FixerCodes[7] \subseteq AllCodes DEF FixerCodes
  <1>9. {"FLUX_VENTS_EXCEED_HULL_MAXIMUM", "FLUX_CAPACITORS_EXCEED_HULL_MAXIMUM"} \subseteq AllCodes
    BY <1>1, FixerCodes[8] \subseteq AllCodes DEF FixerCodes
  <1>10. {"OP_EXCEEDED"} \subseteq AllCodes
    BY <1>1, FixerCodes[9] \subseteq AllCodes DEF FixerCodes
  <1>11. {"HULL_NOT_FOUND", "HULLMOD_INCOMPATIBLE"} \subseteq AllCodes
    BY DEF AllCodes
  <1>12. QED
    BY <1>2, <1>3, <1>4, <1>5, <1>6, <1>7, <1>8, <1>9, <1>10, <1>11 DEF Failures

LEMMA Appended ==
    ASSUME NEW s, NEW e, \E S : s \in Seq(S)
    PROVE  /\ \E S : Append(s, e) \in Seq(S)
           /\ Len(Append(s, e)) = Len(s) + 1 /\ Len(s) \in Nat
  <1>1. PICK S : s \in Seq(S)
    OBVIOUS
  <1>2. s \in Seq(S \cup {e})
    BY <1>1
  <1>3. QED
    BY <1>2

LEMMA FixerKeeps ==
    ASSUME RefitInv, ApplyFix
    PROVE  RefitInv'
  <1>1. PICK c \in Wanted(step) : fit' = After(c) /\ log' = Append(log, c)
    BY DEF ApplyFix
  <1>2. ship # Unknown
    <2>1. PICK code \in FixerCodes[step] : code \in codes
      BY DEF ApplyFix, Running
    <2>2. code # "HULL_NOT_FOUND"
      BY <2>1 DEF ApplyFix, FixerCodes, Ordnance
    <2>3. QED
      BY <2>1, <2>2 DEF RefitInv
  <1>3. Permitted(c)
    BY <1>1, <1>2, WantedRepairs DEF ApplyFix, RefitInv, Permitted
  <1>4. IsFit(given)
    BY RefitAssumption DEF RefitInv, RefitTypeOK
  <1>5. UNCHANGED requested
    BY DEF ApplyFix
  <1>6. FitKept
    BY DEF RefitInv, RefitTypeOK, FitKept
  <1>7. FitKept'
    BY <1>1, <1>3, <1>4, <1>5, <1>6, PermittedKeepsFit
  <1>8. (\E S : log' \in Seq(S)) /\ Len(log') <= MaxChanges
    <2>1. \E S : log \in Seq(S)
      BY DEF RefitInv
    <2>2. (\E S : log' \in Seq(S)) /\ Len(log') = Len(log) + 1 /\ Len(log) \in Nat
      BY <1>1, <2>1, Appended
    <2>3. Len(log) < MaxChanges
      BY DEF ApplyFix, Running, BudgetLeft
    <2>4. QED
      BY <2>2, <2>3, RefitAssumption
  <1>9. QED
    BY <1>7, <1>8 DEF ApplyFix, RefitInv, RefitTypeOK, FitKept, requested

LEMMA ImprovementKeeps ==
    ASSUME RefitInv, Improve
    PROVE  RefitInv'
  <1>1. PICK c \in Worthwhile : fit' = After(c) /\ log' = Append(log, c)
    BY DEF Improve
  <1>2. Permitted(c)
    BY <1>1, MoveSwapsOrAdds DEF Worthwhile, Permitted, Repairs
  <1>3. IsFit(given)
    BY RefitAssumption DEF RefitInv, RefitTypeOK
  <1>4. UNCHANGED requested
    BY DEF Improve
  <1>5. FitKept
    BY DEF RefitInv, RefitTypeOK, FitKept
  <1>6. FitKept'
    BY <1>1, <1>2, <1>3, <1>4, <1>5, PermittedKeepsFit
  <1>7. (\E S : log' \in Seq(S)) /\ Len(log') <= MaxChanges
    <2>1. \E S : log \in Seq(S)
      BY DEF RefitInv
    <2>2. (\E S : log' \in Seq(S)) /\ Len(log') = Len(log) + 1 /\ Len(log) \in Nat
      BY <1>1, <2>1, Appended
    <2>3. Len(log) < MaxChanges
      BY DEF Improve, BudgetLeft
    <2>4. QED
      BY <2>2, <2>3, RefitAssumption
  <1>8. QED
    BY <1>6, <1>7 DEF Improve, RefitInv, RefitTypeOK, FitKept, requested

LEMMA InitRefit ==
    ASSUME RefitInit
    PROVE  RefitInv
  <1>1. IsFit(given)
    BY RefitAssumption DEF RefitInit
  <1>2. /\ LocksKept /\ fit = given
        /\ \A w \in DOMAIN fit.wings : fit.wings[w] <= given.wings[w]
        /\ fit.vents <= given.vents /\ fit.caps <= given.caps
    BY <1>1 DEF RefitInit, LocksKept, IsFit
  <1>3. log \in Seq({}) /\ Len(log) <= MaxChanges
    BY RefitAssumption DEF RefitInit
  <1>4. step \in 1..Finished
    BY DEF RefitInit, Assessing, Searching, Finished
  <1>5. RefitTypeOK
    <2>1. pass \in 0..3 /\ codes \subseteq AllCodes
      BY DEF RefitInit
    <2>2. progress \in BOOLEAN /\ rebuild \in BOOLEAN
      BY DEF RefitInit
    <2>3. IsFit(fit) /\ DOMAIN fit.weapons \subseteq DOMAIN given.weapons /\ DOMAIN fit.wings \subseteq DOMAIN given.wings
      BY <1>1, <1>2
    <2>4. ship \in Ships /\ given \in Fits /\ locks \in LockSets /\ mode \in RepairModes \cup QualityModes
      BY DEF RefitInit
    <2>5. QED
      BY <1>2, <1>3, <1>4, <2>1, <2>2, <2>3, <2>4 DEF RefitTypeOK
  <1>6. QED
    BY <1>2, <1>3, <1>5 DEF RefitInit, RefitInv

LEMMA RefitStep ==
    ASSUME RefitInv, [RefitNext]_refitVars
    PROVE  RefitInv'
  <1>1. CASE ApplyFix
    BY <1>1, FixerKeeps
  <1>2. CASE Improve
    BY <1>2, ImprovementKeeps
  <1>3. CASE NextFixer
    <2>1. step' \in 1..Finished
      BY <1>3 DEF NextFixer, Ordnance, Finished
    <2>2. QED
      BY <1>3, <2>1 DEF NextFixer, RefitInv, RefitTypeOK, IsFit, LocksKept, Mounted, Copies, requested
  <1>4. CASE Assess
    <2>1. step' \in 1..Finished
      BY <1>4 DEF Assess, Finished
    <2>2. progress' \in BOOLEAN
      BY <1>4, Zenon DEF Assess, RefitInv, RefitTypeOK
    <2>3. pass' \in 0..3
      <3>1. pass \in 0..3 /\ (PassesDone \/ pass # 3)
        BY DEF PassesDone, RefitInv, RefitTypeOK
      <3>2. pass' = pass \/ (pass' = pass + 1 /\ ~PassesDone)
        BY <1>4 DEF Assess
      <3>3. QED
        BY <3>1, <3>2
    <2>4. codes' \subseteq AllCodes /\ (ship = Unknown => codes' \subseteq {"HULL_NOT_FOUND"})
      BY <1>4, CodesOfFailures DEF Assess, RefitInv, RefitTypeOK
    <2>5. QED
      BY <1>4, <2>1, <2>2, <2>3, <2>4 DEF Assess, RefitInv, RefitTypeOK, IsFit, LocksKept, Mounted, Copies, requested
  <1>5. CASE EndImprovement
    <2>1. step' \in 1..Finished /\ rebuild' \in BOOLEAN
      BY <1>5 DEF EndImprovement, Finished
    <2>2. QED
      BY <1>5, <2>1 DEF EndImprovement, RefitInv, RefitTypeOK, IsFit, LocksKept, Mounted, Copies, requested
  <1>6. CASE Done \/ UNCHANGED refitVars
    BY <1>6 DEF Done, refitVars, RefitInv, RefitTypeOK, IsFit, LocksKept, Mounted, Copies
  <1>7. QED
    BY <1>1, <1>2, <1>3, <1>4, <1>5, <1>6 DEF RefitNext

LEMMA RefitInvariant == RefitSpec => []RefitInv
  <1>1. RefitInit => RefitInv
    BY InitRefit
  <1>2. RefitInv /\ [RefitNext]_refitVars => RefitInv'
    BY RefitStep
  <1>3. QED
    BY <1>1, <1>2, PTL DEF RefitSpec

(* A refit fits nothing where the given fit had nothing, flies no more     *)
(* copies, never raises vents or capacitors, and stays within its number   *)
(* of changes, for any hull, fit, locks and mode.                          *)
THEOREM TypeCorrect == RefitSpec => []RefitTypeOK
  <1>1. RefitInv => RefitTypeOK
    BY DEF RefitInv
  <1>2. QED
    BY <1>1, RefitInvariant, PTL

(* "a locked item is never touched": by no fixer and no improvement,       *)
(* whatever is locked and whatever else is wrong with the fit.             *)
THEOREM LocksAreKept == RefitSpec => []LocksKept
  <1>1. RefitInv => LocksKept
    BY DEF RefitInv
  <1>2. QED
    BY <1>1, RefitInvariant, PTL

------------------------------------------------------------------------------
\* What the log tells of the fit.
Touches(i, m) == log[i].kind \in Weaponry /\ log[i].target = m
WeaponsExplained ==
    \A m \in DOMAIN given.weapons :
      \/ Mounted(fit, m) = given.weapons[m] /\ \A i \in DOMAIN log : ~Touches(i, m)
      \/ \E i \in DOMAIN log : /\ Touches(i, m) /\ log[i].new = Mounted(fit, m)
                               /\ \A j \in DOMAIN log : Touches(j, m) => j <= i

\* A fixer adds no hullmod and a quality search removes none.
OneWay ==
    /\ mode \in QualityModes => step \in {Searching, Finished} /\ \A i \in DOMAIN log : log[i].kind # "HULLMOD_REMOVED"
    /\ mode \in RepairModes => step # Searching /\ \A i \in DOMAIN log : log[i].kind # "HULLMOD_ADDED"

\* What a change to one part does to that part, and to no other.
Rearms(c) ==
    \E m \in DOMAIN fit.weapons :
      /\ c.kind \in Weaponry /\ c.target = m /\ c.old = fit.weapons[m] /\ c.new = Mounted(fit', m)
      /\ \A n : n # m => Mounted(fit', n) = Mounted(fit, n)
      /\ UNCHANGED <<fit.mods, fit.wings>>
Removes(c) ==
    \E x \in fit.mods :
      /\ c.kind = "HULLMOD_REMOVED" /\ c.target = x /\ fit'.mods = fit.mods \ {x}
      /\ UNCHANGED <<fit.weapons, fit.wings>>
Installs(c) ==
    \E x \in DOMAIN Hullmod :
      /\ c.kind = "HULLMOD_ADDED" /\ c.target = x /\ fit'.mods = fit.mods \cup {x}
      /\ UNCHANGED <<fit.weapons, fit.wings>>
Grounds(c) ==
    \E w \in DOMAIN fit.wings :
      /\ c.kind = "FIGHTER_REMOVED" /\ c.target = w /\ Copies(fit', w) \in Nat /\ Copies(fit', w) < fit.wings[w]
      /\ \A v : v # w => Copies(fit', v) = Copies(fit, v)
      /\ UNCHANGED <<fit.weapons, fit.mods>>
Lowers(c) == c.kind \in {"VENTS_REDUCED", "CAPACITORS_REDUCED"} /\ UNCHANGED <<fit.weapons, fit.mods, fit.wings>>

LEMMA RearmEffect ==
    ASSUME IsFit(fit), NEW c, fit' = After(c), Taken(c) \/ Swapped(c)
    PROVE  Rearms(c)
  <1>1. PICK m \in DOMAIN fit.weapons : c = RemoveWeapon(m) \/ \E w \in DOMAIN Weapon : c = ReplaceWeapon(m, w)
    BY DEF Taken, Swapped
  <1>2. CASE c = RemoveWeapon(m)
    <2>1. fit' = [weapons |-> Without(fit.weapons, m), mods |-> fit.mods, wings |-> fit.wings,
                  vents |-> fit.vents, caps |-> fit.caps]
      BY <1>2 DEF After, RemoveWeapon, Change, IsFit
    <2>2. c.kind \in Weaponry /\ c.target = m /\ c.old = fit.weapons[m] /\ c.new = Unknown
      BY <1>2 DEF RemoveWeapon, Change, Weaponry
    <2>3. DOMAIN Without(fit.weapons, m) = DOMAIN fit.weapons \ {m}
          /\ \A n \in DOMAIN fit.weapons \ {m} : Without(fit.weapons, m)[n] = fit.weapons[n]
      BY DEF Without
    <2>4. fit'.weapons = Without(fit.weapons, m) /\ UNCHANGED <<fit.mods, fit.wings>>
      BY <2>1
    <2>5. Mounted(fit', m) = Unknown /\ \A n : n # m => Mounted(fit', n) = Mounted(fit, n)
      BY <2>3, <2>4 DEF Mounted
    <2>6. QED
      BY <2>2, <2>4, <2>5 DEF Rearms
  <1>3. CASE \E w \in DOMAIN Weapon : c = ReplaceWeapon(m, w)
    <2>1. PICK w \in DOMAIN Weapon : c = ReplaceWeapon(m, w)
      BY <1>3
    <2>2. fit' = [weapons |-> [fit.weapons EXCEPT ![m] = w], mods |-> fit.mods, wings |-> fit.wings,
                  vents |-> fit.vents, caps |-> fit.caps]
      BY <2>1 DEF After, ReplaceWeapon, Change, IsFit
    <2>3. c.kind \in Weaponry /\ c.target = m /\ c.old = fit.weapons[m] /\ c.new = w
      BY <2>1 DEF ReplaceWeapon, Change, Weaponry
    <2>4. fit'.weapons = [fit.weapons EXCEPT ![m] = w] /\ UNCHANGED <<fit.mods, fit.wings>>
      BY <2>2
    <2>5. Mounted(fit', m) = w /\ \A n : n # m => Mounted(fit', n) = Mounted(fit, n)
      BY <1>1, <2>4 DEF Mounted, IsFit
    <2>6. QED
      BY <2>3, <2>4, <2>5 DEF Rearms
  <1>4. QED
    BY <1>1, <1>2, <1>3

LEMMA HullmodEffect ==
    ASSUME IsFit(fit), NEW c, fit' = After(c)
    PROVE  (Dropped(c) => Removes(c)) /\ (Added(c) => Installs(c))
  <1>1. ASSUME NEW x \in fit.mods, c = RemoveHullmod(x) PROVE Removes(c)
    <2>1. fit' = [weapons |-> fit.weapons, mods |-> fit.mods \ {x}, wings |-> fit.wings, vents |-> fit.vents, caps |-> fit.caps]
      BY <1>1 DEF After, RemoveHullmod, Change, IsFit
    <2>2. c.kind = "HULLMOD_REMOVED" /\ c.target = x
      BY <1>1 DEF RemoveHullmod, Change
    <2>3. QED
      BY <2>1, <2>2 DEF Removes
  <1>2. ASSUME NEW x \in DOMAIN Hullmod, c = InstallHullmod(x) PROVE Installs(c)
    <2>1. fit' = [weapons |-> fit.weapons, mods |-> fit.mods \cup {x}, wings |-> fit.wings, vents |-> fit.vents, caps |-> fit.caps]
      BY <1>2 DEF After, InstallHullmod, Change, IsFit
    <2>2. c.kind = "HULLMOD_ADDED" /\ c.target = x
      BY <1>2 DEF InstallHullmod, Change
    <2>3. QED
      BY <2>1, <2>2 DEF Installs
  <1>3. QED
    BY <1>1, <1>2 DEF Dropped, Added

LEMMA WingEffect ==
    ASSUME IsFit(fit), NEW c, fit' = After(c), Grounded(c)
    PROVE  Grounds(c)
  <1>1. PICK w \in DOMAIN fit.wings : c = RemoveWing(w)
    BY DEF Grounded
  <1>2. fit.wings \in [DOMAIN fit.wings -> Nat \ {0}]
    BY DEF IsFit
  <1> DEFINE g == IF step = Ordnance THEN Without(fit.wings, w) ELSE Fewer(fit.wings, w)
  <1>3. fit' = [weapons |-> fit.weapons, mods |-> fit.mods, wings |-> g, vents |-> fit.vents, caps |-> fit.caps]
    BY <1>1 DEF After, RemoveWing, Change, IsFit
  <1>4. g = Without(fit.wings, w) \/ (fit.wings[w] # 1 /\ g = [fit.wings EXCEPT ![w] = @ - 1])
    BY DEF Fewer
  <1> HIDE DEF g
  <1>5. c.kind = "FIGHTER_REMOVED" /\ c.target = w
    BY <1>1 DEF RemoveWing, Change
  <1>6. fit'.wings = g /\ UNCHANGED <<fit.weapons, fit.mods>>
    BY <1>3
  <1>7. Copies(fit', w) \in Nat /\ Copies(fit', w) < fit.wings[w] /\ \A v : v # w => Copies(fit', v) = Copies(fit, v)
    <2>1. CASE g = Without(fit.wings, w)
      <3>1. DOMAIN g = DOMAIN fit.wings \ {w} /\ \A v \in DOMAIN fit.wings \ {w} : g[v] = fit.wings[v]
        BY <2>1 DEF Without
      <3>2. QED
        BY <1>2, <1>6, <3>1 DEF Copies
    <2>2. CASE g = [fit.wings EXCEPT ![w] = @ - 1]
      BY <1>1, <1>2, <1>6, <2>2 DEF Copies
    <2>3. QED
      BY <1>4, <2>1, <2>2
  <1>8. QED
    BY <1>5, <1>6, <1>7 DEF Grounds

LEMMA FluxEffect ==
    ASSUME IsFit(fit), NEW c, fit' = After(c), Lowered(c)
    PROVE  Lowers(c)
  <1>1. CASE \E n \in Nat : c = Change("VENTS_REDUCED", "flux_vents", fit.vents, n)
    BY <1>1 DEF After, Change, IsFit, Lowers
  <1>2. CASE \E n \in Nat : c = Change("CAPACITORS_REDUCED", "flux_capacitors", fit.caps, n)
    BY <1>2 DEF After, Change, IsFit, Lowers
  <1>3. QED
    BY <1>1, <1>2 DEF Lowered

LEMMA LogGrows ==
    ASSUME NEW c, \E S : log \in Seq(S), log' = Append(log, c)
    PROVE  /\ Len(log) \in Nat /\ DOMAIN log = 1..Len(log) /\ DOMAIN log' = 1..(Len(log) + 1)
           /\ \A i \in DOMAIN log : log'[i] = log[i]
           /\ log'[Len(log) + 1] = c
           /\ \A kind, x : Logged(kind, x)' <=> Logged(kind, x) \/ (c.kind = kind /\ c.target = x)
  <1>1. PICK S : log \in Seq(S)
    OBVIOUS
  <1>2. /\ Len(log) \in Nat /\ DOMAIN log = 1..Len(log) /\ DOMAIN log' = 1..(Len(log) + 1)
        /\ \A i \in 1..Len(log) : log'[i] = log[i]
        /\ log'[Len(log) + 1] = c
    BY <1>1
  <1>3. QED
    BY <1>2 DEF Logged

\* Which weapon changes of a mount there are, once c is logged.
LEMMA WeaponsStep ==
    ASSUME WeaponsExplained, NEW c, \E S : log \in Seq(S), log' = Append(log, c), UNCHANGED given,
           DOMAIN fit.weapons \subseteq DOMAIN given.weapons,
           Rearms(c) \/ (c.kind \notin Weaponry /\ UNCHANGED fit.weapons)
    PROVE  WeaponsExplained'
  <1>1. PICK N \in Nat : /\ DOMAIN log = 1..(N - 1) /\ DOMAIN log' = 1..N
                         /\ log'[N] = c /\ \A i \in DOMAIN log : log'[i] = log[i]
    <2>1. Len(log) + 1 \in Nat /\ (Len(log) + 1) - 1 = Len(log)
      BY LogGrows
    <2>2. QED
      BY <2>1, LogGrows
  <1>2. /\ \A m : \A i \in DOMAIN log : Touches(i, m)' <=> Touches(i, m)
        /\ \A m : Touches(N, m)' <=> c.kind \in Weaponry /\ c.target = m
    BY <1>1 DEF Touches
  <1>3. SUFFICES ASSUME NEW m \in DOMAIN given.weapons
                 PROVE  \/ Mounted(fit', m) = given.weapons[m] /\ \A i \in DOMAIN log' : ~Touches(i, m)'
                        \/ \E i \in DOMAIN log' : /\ Touches(i, m)' /\ log'[i].new = Mounted(fit', m)
                                                  /\ \A j \in DOMAIN log' : Touches(j, m)' => j <= i
    BY DEF WeaponsExplained
  <1>4. CASE c.kind \in Weaponry /\ c.target = m
    <2>1. c.new = Mounted(fit', m)
      BY <1>4 DEF Rearms
    <2>2. N \in DOMAIN log' /\ \A j \in DOMAIN log' : j <= N
      BY <1>1
    <2>3. QED
      BY <1>1, <1>2, <1>4, <2>1, <2>2
  <1>5. CASE ~(c.kind \in Weaponry /\ c.target = m)
    <2>1. Mounted(fit', m) = Mounted(fit, m) /\ ~Touches(N, m)'
      BY <1>2, <1>5 DEF Rearms, Mounted
    <2>2. \A i \in DOMAIN log' : i = N \/ i \in DOMAIN log
      BY <1>1
    <2>3. DOMAIN log \subseteq DOMAIN log'
      BY <1>1
    <2>4. QED
      BY <1>1, <1>2, <2>1, <2>2, <2>3 DEF WeaponsExplained
  <1>6. QED
    BY <1>4, <1>5

\* Every weapon change starts from what the one before it left.
ChangesChain ==
    \A i \in DOMAIN log : log[i].kind \in Weaponry =>
      \/ Earlier(i) = {} /\ log[i].old = given.weapons[log[i].target]
      \/ Earlier(i) # {} /\ Max(Earlier(i)) \in DOMAIN log /\ log[i].old = log[Max(Earlier(i))].new
\* The hullmods and the wings that are gone or new are in the log.
ModsExplained ==
    \A x \in given.mods \cup fit.mods :
      x \in fit.mods <=> (x \in given.mods /\ ~Logged("HULLMOD_REMOVED", x)) \/ Logged("HULLMOD_ADDED", x)
WingsExplained ==
    \A w \in DOMAIN given.wings : Copies(fit, w) < given.wings[w] <=> Logged("FIGHTER_REMOVED", w)

LogInv == OneWay /\ WeaponsExplained /\ ChangesChain /\ ModsExplained /\ WingsExplained

LEMMA ChainStep ==
    ASSUME LogInv, NEW c, \E S : log \in Seq(S), log' = Append(log, c), UNCHANGED given,
           DOMAIN fit.weapons \subseteq DOMAIN given.weapons,
           Rearms(c) \/ c.kind \notin Weaponry
    PROVE  ChangesChain'
  <1>1. PICK N \in Nat : /\ DOMAIN log = 1..(N - 1) /\ DOMAIN log' = 1..N
                         /\ log'[N] = c /\ \A i \in DOMAIN log : log'[i] = log[i]
    <2>1. Len(log) + 1 \in Nat /\ (Len(log) + 1) - 1 = Len(log)
      BY LogGrows
    <2>2. QED
      BY <2>1, LogGrows
  <1>2. ASSUME NEW i \in DOMAIN log, log[i].kind \in Weaponry
        PROVE  \/ Earlier(i)' = {} /\ log'[i].old = given.weapons[log'[i].target]
               \/ Earlier(i)' # {} /\ Max(Earlier(i)') \in DOMAIN log' /\ log'[i].old = log'[Max(Earlier(i)')].new
    <2>1. \A j \in 1..(i - 1) : j \in DOMAIN log
      BY <1>1
    <2>2. Earlier(i)' = Earlier(i) /\ DOMAIN log \subseteq DOMAIN log'
      BY <1>1, <2>1 DEF Earlier
    <2>3. QED
      BY <1>1, <1>2, <2>2 DEF LogInv, ChangesChain
  <1>3. ASSUME c.kind \in Weaponry
        PROVE  \/ Earlier(N)' = {} /\ c.old = given.weapons[c.target]
               \/ Earlier(N)' # {} /\ Max(Earlier(N)') \in DOMAIN log' /\ c.old = log'[Max(Earlier(N)')].new
    <2>1. PICK m \in DOMAIN given.weapons : c.target = m /\ c.old = Mounted(fit, m)
      BY <1>3 DEF Rearms, Mounted
    <2>2. Earlier(N)' = {j \in DOMAIN log : Touches(j, m)}
      BY <1>1, <2>1 DEF Earlier, Touches
    <2>3. CASE Mounted(fit, m) = given.weapons[m] /\ \A i \in DOMAIN log : ~Touches(i, m)
      BY <2>1, <2>2, <2>3
    <2>4. ASSUME NEW i \in DOMAIN log, Touches(i, m), log[i].new = Mounted(fit, m), \A j \in DOMAIN log : Touches(j, m) => j <= i
          PROVE  Earlier(N)' # {} /\ Max(Earlier(N)') \in DOMAIN log' /\ log'[Max(Earlier(N)')].new = c.old
      <3>1. i \in Earlier(N)' /\ i \in DOMAIN log' /\ \A j \in Earlier(N)' : j <= i /\ j \in Int
        BY <1>1, <2>2, <2>4
      <3>2. Max(Earlier(N)') = i
        BY <3>1 DEF Max
      <3>3. QED
        BY <1>1, <2>1, <2>4, <3>1, <3>2
    <2>5. QED
      BY <2>1, <2>3, <2>4 DEF LogInv, WeaponsExplained
  <1>4. \A i \in DOMAIN log' : i = N \/ i \in DOMAIN log
    BY <1>1
  <1>5. QED
    BY <1>1, <1>2, <1>3, <1>4 DEF ChangesChain

LEMMA ModsStep ==
    ASSUME LogInv, NEW c, \E S : log \in Seq(S), log' = Append(log, c), UNCHANGED <<given, mode>>,
           \/ mode \in QualityModes /\ Installs(c)
           \/ mode \in RepairModes /\ Removes(c)
           \/ c.kind \notin {"HULLMOD_ADDED", "HULLMOD_REMOVED"} /\ UNCHANGED fit.mods
    PROVE  ModsExplained'
  <1>1. \A kind, x : Logged(kind, x)' <=> Logged(kind, x) \/ (c.kind = kind /\ c.target = x)
    BY LogGrows
  <1>2. CASE c.kind \notin {"HULLMOD_ADDED", "HULLMOD_REMOVED"} /\ UNCHANGED fit.mods
    BY <1>1, <1>2 DEF LogInv, ModsExplained
  <1>3. CASE mode \in QualityModes /\ Installs(c)
    <2>1. \A x : ~Logged("HULLMOD_REMOVED", x)
      BY <1>3 DEF LogInv, OneWay, Logged
    <2>2. PICK x : c.kind = "HULLMOD_ADDED" /\ c.target = x /\ fit'.mods = fit.mods \cup {x}
      BY <1>3 DEF Installs
    <2>3. QED
      BY <1>1, <2>1, <2>2 DEF LogInv, ModsExplained
  <1>4. CASE mode \in RepairModes /\ Removes(c)
    <2>1. \A x : ~Logged("HULLMOD_ADDED", x)
      BY <1>4 DEF LogInv, OneWay, Logged
    <2>2. PICK x : c.kind = "HULLMOD_REMOVED" /\ c.target = x /\ fit'.mods = fit.mods \ {x}
      BY <1>4 DEF Removes
    <2>3. QED
      BY <1>1, <2>1, <2>2 DEF LogInv, ModsExplained
  <1>5. QED
    BY <1>2, <1>3, <1>4

LEMMA WingsStep ==
    ASSUME LogInv, RefitTypeOK, IsFit(given), NEW c, \E S : log \in Seq(S), log' = Append(log, c), UNCHANGED given,
           Grounds(c) \/ (c.kind # "FIGHTER_REMOVED" /\ UNCHANGED fit.wings)
    PROVE  WingsExplained'
  <1>1. \A kind, x : Logged(kind, x)' <=> Logged(kind, x) \/ (c.kind = kind /\ c.target = x)
    BY LogGrows
  <1>2. CASE c.kind # "FIGHTER_REMOVED" /\ UNCHANGED fit.wings
    BY <1>1, <1>2 DEF LogInv, WingsExplained, Copies
  <1>3. CASE Grounds(c)
    <2>1. PICK w \in DOMAIN fit.wings : /\ c.kind = "FIGHTER_REMOVED" /\ c.target = w
                                        /\ Copies(fit', w) \in Nat /\ Copies(fit', w) < fit.wings[w]
                                        /\ \A v : v # w => Copies(fit', v) = Copies(fit, v)
      BY <1>3 DEF Grounds
    <2>2. fit.wings[w] \in Nat /\ fit.wings[w] <= given.wings[w] /\ given.wings[w] \in Nat
      BY DEF RefitTypeOK, IsFit
    <2>3. Copies(fit', w) < given.wings[w]
      BY <2>1, <2>2
    <2>4. QED
      BY <1>1, <2>1, <2>3 DEF LogInv, WingsExplained
  <1>4. QED
    BY <1>2, <1>3

LEMMA LogStep ==
    ASSUME RefitInv, LogInv, NEW c, log' = Append(log, c), fit' = After(c), UNCHANGED requested,
           \/ mode \in RepairModes /\ Repairs(c) /\ UNCHANGED step
           \/ mode \in QualityModes /\ (Swapped(c) \/ Added(c)) /\ UNCHANGED step
    PROVE  LogInv'
  <1>1. /\ IsFit(fit) /\ (\E S : log \in Seq(S)) /\ DOMAIN fit.weapons \subseteq DOMAIN given.weapons
        /\ UNCHANGED <<given, mode, step>>
    BY DEF RefitInv, RefitTypeOK, requested
  <1>2. IsFit(given)
    BY RefitAssumption DEF RefitInv, RefitTypeOK
  <1>3. \/ Rearms(c)
        \/ mode \in RepairModes /\ Removes(c)
        \/ mode \in QualityModes /\ Installs(c)
        \/ Grounds(c)
        \/ Lowers(c)
    BY <1>1, RearmEffect, HullmodEffect, WingEffect, FluxEffect DEF Repairs
  <1>4. /\ mode \in QualityModes => c.kind # "HULLMOD_REMOVED"
        /\ mode \in RepairModes => c.kind # "HULLMOD_ADDED"
    <2>1. mode \in QualityModes => mode \notin RepairModes
      BY DEF QualityModes, RepairModes
    <2>2. Swapped(c) => c.kind = "WEAPON_REPLACED"
      BY DEF Swapped, ReplaceWeapon, Change
    <2>3. Added(c) => c.kind = "HULLMOD_ADDED"
      BY DEF Added, InstallHullmod, Change
    <2>4. Repairs(c) => c.kind # "HULLMOD_ADDED"
      BY DEF Repairs, Taken, Swapped, Dropped, Grounded, Lowered, RemoveWeapon, ReplaceWeapon, RemoveHullmod, RemoveWing, Change
    <2>5. QED
      BY <2>1, <2>2, <2>3, <2>4
  <1>5. OneWay'
    <2>1. /\ \A i \in DOMAIN log' : log'[i] = c \/ \E j \in DOMAIN log : log'[i] = log[j]
      <3>1. Len(log) \in Nat /\ DOMAIN log = 1..Len(log) /\ DOMAIN log' = 1..(Len(log) + 1)
            /\ (\A i \in DOMAIN log : log'[i] = log[i]) /\ log'[Len(log) + 1] = c
        BY <1>1, LogGrows
      <3>2. \A i \in DOMAIN log' : i \in DOMAIN log \/ i = Len(log) + 1
        BY <3>1
      <3>3. QED
        BY <3>1, <3>2
    <2>2. QED
      BY <1>1, <1>4, <2>1 DEF LogInv, OneWay
  <1>6. WeaponsExplained'
    <2>1. Rearms(c) \/ (c.kind \notin Weaponry /\ UNCHANGED fit.weapons)
      BY <1>3 DEF Removes, Installs, Grounds, Lowers, Weaponry
    <2>2. QED
      BY <1>1, <2>1, WeaponsStep DEF LogInv
  <1>7. ChangesChain'
    <2>1. Rearms(c) \/ c.kind \notin Weaponry
      BY <1>3 DEF Removes, Installs, Grounds, Lowers, Weaponry
    <2>2. QED
      BY <1>1, <2>1, ChainStep
  <1>8. ModsExplained'
    <2>1. \/ mode \in QualityModes /\ Installs(c)
          \/ mode \in RepairModes /\ Removes(c)
          \/ c.kind \notin {"HULLMOD_ADDED", "HULLMOD_REMOVED"} /\ UNCHANGED fit.mods
      BY <1>3 DEF Rearms, Grounds, Lowers, Weaponry
    <2>2. QED
      BY <1>1, <2>1, ModsStep
  <1>9. WingsExplained'
    <2>1. Grounds(c) \/ (c.kind # "FIGHTER_REMOVED" /\ UNCHANGED fit.wings)
      BY <1>3 DEF Rearms, Removes, Installs, Lowers, Weaponry
    <2>2. QED
      BY <1>1, <1>2, <2>1, WingsStep DEF RefitInv
  <1>10. QED
    BY <1>5, <1>6, <1>7, <1>8, <1>9 DEF LogInv

LEMMA LogStarts == ASSUME RefitInit PROVE LogInv
  <1>1. IsFit(given) /\ fit = given /\ log = <<>>
    BY RefitAssumption DEF RefitInit
  <1>2. DOMAIN log = {}
    BY <1>1
  <1>3. OneWay
    BY <1>2 DEF RefitInit, OneWay, RepairModes, QualityModes, Assessing, Searching, Finished
  <1>4. WeaponsExplained /\ ChangesChain
    BY <1>1, <1>2 DEF WeaponsExplained, ChangesChain, Mounted
  <1>5. ModsExplained
    BY <1>1, <1>2 DEF ModsExplained, Logged
  <1>6. WingsExplained
    <2>1. \A w \in DOMAIN given.wings : Copies(fit, w) = given.wings[w] /\ given.wings[w] \in Nat
      BY <1>1 DEF Copies, IsFit
    <2>2. QED
      BY <1>2, <2>1 DEF WingsExplained, Logged
  <1>7. QED
    BY <1>3, <1>4, <1>5, <1>6 DEF LogInv

LEMMA LogInvStep == ASSUME RefitInv, LogInv, [RefitNext]_refitVars PROVE LogInv'
  <1>1. mode \in RepairModes \cup QualityModes
    BY DEF RefitInv, RefitTypeOK
  <1>2. CASE ApplyFix
    <2>1. PICK c \in Wanted(step) : fit' = After(c) /\ log' = Append(log, c)
      BY <1>2 DEF ApplyFix
    <2>2. Repairs(c)
      <3>1. PICK code \in FixerCodes[step] : code \in codes
        BY <1>2 DEF ApplyFix, Running
      <3>2. code # "HULL_NOT_FOUND"
        BY <1>2, <3>1 DEF ApplyFix, FixerCodes, Ordnance
      <3>3. ship # Unknown
        BY <3>1, <3>2 DEF RefitInv
      <3>4. QED
        BY <1>2, <2>1, <3>3, WantedRepairs DEF ApplyFix, RefitInv
    <2>3. mode \in RepairModes /\ UNCHANGED <<requested, step>>
      BY <1>1, <1>2 DEF ApplyFix, LogInv, OneWay, Ordnance, Searching, Finished
    <2>4. QED
      BY <2>1, <2>2, <2>3, LogStep
  <1>3. CASE Improve
    <2>1. PICK c \in Worthwhile : fit' = After(c) /\ log' = Append(log, c)
      BY <1>3 DEF Improve
    <2>2. Swapped(c) \/ Added(c)
      BY <2>1, MoveSwapsOrAdds DEF Worthwhile
    <2>3. mode \in QualityModes /\ UNCHANGED <<requested, step>>
      BY <1>1, <1>3 DEF Improve, LogInv, OneWay
    <2>4. QED
      BY <2>1, <2>2, <2>3, LogStep
  <1>4. CASE NextFixer \/ Assess \/ EndImprovement \/ Done \/ UNCHANGED refitVars
    <2>1. UNCHANGED <<ship, given, locks, mode, fit, log>>
      BY <1>4 DEF NextFixer, Assess, EndImprovement, Done, refitVars, requested
    <2>2. OneWay'
      BY <1>4, <2>1 DEF NextFixer, Assess, EndImprovement, Done, refitVars, LogInv, OneWay, Ordnance, Assessing, Searching, Finished
    <2>3. QED
      BY <2>1, <2>2 DEF LogInv, WeaponsExplained, ChangesChain, ModsExplained, WingsExplained, Touches, Earlier, Logged, Mounted, Copies
  <1>5. QED
    BY <1>2, <1>3, <1>4 DEF RefitNext

(* The changes that are shown explain the fit they come with, for any hull,*)
(* fit, locks and mode, and any order of the changes.                      *)
THEOREM ChangesExplain == RefitSpec => []ChangesExplainFit
  <1>1. RefitInit => LogInv
    BY LogStarts
  <1>2. RefitInv /\ LogInv /\ [RefitNext]_refitVars => LogInv'
    BY LogInvStep
  <1>3. LogInv => ChangesExplainFit
    BY DEF LogInv, ChangesExplainFit, WeaponsExplained, ChangesChain, ModsExplained, WingsExplained, Touches
  <1>4. QED
    BY <1>1, <1>2, <1>3, RefitInvariant, PTL DEF RefitSpec

------------------------------------------------------------------------------
\* The quality search adds up what it gains.  A component of a score is a
\* number, but for the metric of a fit that has none.
ScoresAreNumbers ==
    \A h, f : /\ \A name : Metric(name, h, f) \in Int \cup {Unknown}
              /\ \A name \in {"role_match", "range_coherence"} : Metric(name, h, f) \in Int

\* What has been gained so far; nothing has, where nothing could be scored.
Gained ==
    /\ Verdict(ship, fit) = "LEGAL" /\ Quality(fit) \in Int /\ Quality(given) \in Int
    /\ DOMAIN fit.weapons = DOMAIN given.weapons
    /\ IF ByRole THEN RoleProgress(fit) >= RoleProgress(given) + Len(log)
       ELSE Quality(fit) >= Quality(given) + Len(log) * MinGain
    /\ mode = "REDUCE_FLUX" => \A name \in {"role_match", "range_coherence"} :
         Metric(name, ship, fit) >= Metric(name, ship, given)
GainInv ==
    /\ mode \in QualityModes => step \in {Searching, Finished} /\ (Gained \/ (log = <<>> /\ step = Finished))
    /\ mode \in RepairModes => step # Searching

LEMMA RoleProgressIsNumber ==
    ASSUME NEW f, IsFiniteSet(DOMAIN f.weapons)
    PROVE  RoleProgress(f) \in Nat
  <1>1. {m \in DOMAIN f.weapons : InRange(f.weapons[m])} \subseteq DOMAIN f.weapons
    OBVIOUS
  <1>2. QED
    BY <1>1, FS_Subset, FS_CardinalityType DEF RoleProgress

LEMMA QualityIsNumber ==
    ASSUME ScoresAreNumbers, NEW f, Quality(f) # Unknown
    PROVE  Quality(f) \in Int
  <1>1. Metric(MetricName, ship, f) \in Int \cup {Unknown}
    BY DEF ScoresAreNumbers
  <1>2. QED
    BY <1>1 DEF Quality

LEMMA GainStarts ==
    ASSUME ScoresAreNumbers, RefitInit
    PROVE  GainInv
  <1>1. mode \in RepairModes => step # Searching
    BY DEF RefitInit, RepairModes, QualityModes, Assessing, Searching, Finished
  <1>2. SUFFICES ASSUME mode \in QualityModes, Scoreable PROVE Gained
    BY <1>1 DEF RefitInit, GainInv, RepairModes, QualityModes
  <1>3. /\ fit = given /\ log = <<>> /\ Len(log) = 0
        /\ Verdict(ship, given) = "LEGAL" /\ Quality(given) \in Int
    BY <1>2, QualityIsNumber DEF RefitInit, Scoreable
  <1>4. RoleProgress(given) \in Nat
    BY PartsAssumption, RoleProgressIsNumber DEF RefitInit
  <1>5. 0 * MinGain = 0
    BY RefitAssumption
  <1>6. \A name \in {"role_match", "range_coherence"} : Metric(name, ship, given) \in Int
    BY DEF ScoresAreNumbers
  <1>7. RoleProgress(fit) >= RoleProgress(given) + Len(log) /\ Quality(fit) >= Quality(given) + Len(log) * MinGain
    BY <1>3, <1>4, <1>5
  <1>8. \A name \in {"role_match", "range_coherence"} : Metric(name, ship, fit) >= Metric(name, ship, given)
    BY <1>3, <1>6
  <1>9. QED
    BY <1>3, <1>7, <1>8 DEF Gained

LEMMA GainImproves ==
    ASSUME ScoresAreNumbers, RefitInv, GainInv, Improve
    PROVE  Gained'
  <1>1. PICK c \in Worthwhile : fit' = After(c) /\ log' = Append(log, c)
    BY DEF Improve
  <1>2. UNCHANGED <<ship, given, locks, mode>> /\ mode \in QualityModes /\ Gained
    BY DEF Improve, requested, GainInv, RefitInv, RefitTypeOK, Searching, Finished
  <1>3. /\ c \in Moves /\ Verdict(ship, fit') = "LEGAL" /\ Metric(MetricName, ship, fit') # Unknown /\ Preserving(fit')
        /\ IF ByRole THEN RoleProgress(fit') > RoleProgress(fit) ELSE Quality(fit') - Quality(fit) >= MinGain
    BY <1>1 DEF Worthwhile
  <1>4. DOMAIN fit'.weapons = DOMAIN fit.weapons
    <2>1. CASE Swapped(c)
      <3>1. PICK m \in DOMAIN fit.weapons, w \in DOMAIN Weapon : c = ReplaceWeapon(m, w)
        BY <2>1 DEF Swapped
      <3>2. fit' = [fit EXCEPT !.weapons = [fit.weapons EXCEPT ![m] = w]]
        BY <1>1, <3>1 DEF After, ReplaceWeapon, Change
      <3>3. fit'.weapons = [fit.weapons EXCEPT ![m] = w]
        BY <3>2 DEF RefitInv, RefitTypeOK, IsFit
      <3>4. QED
        BY <3>3
    <2>2. CASE Added(c)
      BY <1>1, <2>2, HullmodEffect DEF RefitInv, RefitTypeOK, Installs
    <2>3. QED
      BY <1>3, <2>1, <2>2, MoveSwapsOrAdds
  <1>5. ByRole' <=> ByRole
    BY <1>2, <1>4 DEF ByRole
  <1>6. Len(log') = Len(log) + 1 /\ Len(log) \in Nat
    BY <1>1, Appended DEF RefitInv
  <1>7. RoleProgress(fit) \in Nat /\ RoleProgress(fit') \in Nat /\ RoleProgress(given) \in Nat
    <2>1. IsFiniteSet(DOMAIN given.weapons)
      BY PartsAssumption DEF RefitInv, RefitTypeOK
    <2>2. QED
      BY <1>2, <1>4, <2>1, RoleProgressIsNumber DEF Gained
  <1>8. Quality(fit) \in Int /\ Quality(given) \in Int /\ MinGain \in Nat
    BY <1>2, RefitAssumption DEF Gained
  <1>9. Quality(fit') \in Int
    <2>1. Metric(MetricName, ship, fit') \in Int
      BY <1>3 DEF ScoresAreNumbers
    <2>2. QED
      BY <1>3, <2>1 DEF Quality
  <1>10. Quality(fit)' = Quality(fit') /\ Quality(given)' = Quality(given)
    BY <1>2 DEF Quality, MetricName
  <1>11. IF ByRole THEN RoleProgress(fit') >= RoleProgress(given) + Len(log')
         ELSE Quality(fit') >= Quality(given) + Len(log') * MinGain
    <2>1. CASE ByRole
      BY <1>2, <1>3, <1>6, <1>7, <2>1 DEF Gained
    <2>2. CASE ~ByRole
      <3>1. Quality(fit) >= Quality(given) + Len(log) * MinGain /\ Quality(fit') - Quality(fit) >= MinGain
        BY <1>2, <1>3, <2>2 DEF Gained
      <3>2. Len(log') * MinGain = Len(log) * MinGain + MinGain /\ Len(log) * MinGain \in Int
        BY <1>6, <1>8
      <3>3. QED
        BY <1>8, <1>9, <2>2, <3>1, <3>2
    <2>3. QED
      BY <2>1, <2>2
  <1>12. mode = "REDUCE_FLUX" => \A name \in {"role_match", "range_coherence"} :
           Metric(name, ship, fit') >= Metric(name, ship, given)
    <2>1. SUFFICES ASSUME mode = "REDUCE_FLUX", NEW name \in {"role_match", "range_coherence"}
                   PROVE  Metric(name, ship, fit') >= Metric(name, ship, given)
      OBVIOUS
    <2>2. Metric(name, ship, fit') >= Metric(name, ship, fit) /\ Metric(name, ship, fit) >= Metric(name, ship, given)
      BY <1>2, <1>3, <2>1 DEF Preserving, Gained
    <2>3. Metric(name, ship, fit') \in Int /\ Metric(name, ship, fit) \in Int /\ Metric(name, ship, given) \in Int
      BY DEF ScoresAreNumbers
    <2>4. QED
      BY <2>2, <2>3
  <1>13. QED
    BY <1>2, <1>3, <1>4, <1>5, <1>8, <1>9, <1>10, <1>11, <1>12 DEF Gained

LEMMA GainStep ==
    ASSUME ScoresAreNumbers, RefitInv, GainInv, [RefitNext]_refitVars
    PROVE  GainInv'
  <1>1. CASE ApplyFix
    <2>1. mode \notin QualityModes /\ UNCHANGED <<mode, step>>
      BY <1>1 DEF ApplyFix, GainInv, requested, Ordnance, Searching, Finished
    <2>2. QED
      BY <2>1 DEF GainInv
  <1>2. CASE Improve
    <2>1. UNCHANGED <<mode, step>>
      BY <1>2 DEF Improve, requested
    <2>2. QED
      BY <1>2, <2>1, GainImproves DEF GainInv
  <1>3. CASE NextFixer \/ Assess
    <2>1. mode \notin QualityModes /\ UNCHANGED mode /\ step' # Searching
      BY <1>3 DEF NextFixer, Assess, GainInv, requested, Ordnance, Assessing, Searching, Finished
    <2>2. QED
      BY <2>1 DEF GainInv
  <1>4. CASE EndImprovement \/ Done \/ UNCHANGED refitVars
    <2>1. UNCHANGED <<ship, given, locks, mode, fit, log>> /\ (UNCHANGED step \/ step' = Finished)
      BY <1>4 DEF EndImprovement, Done, refitVars, requested
    <2>2. Gained' <=> Gained
      BY <2>1 DEF Gained, Quality, MetricName, ByRole
    <2>3. QED
      BY <2>1, <2>2 DEF GainInv, Searching, Finished
  <1>5. QED
    BY <1>1, <1>2, <1>3, <1>4 DEF RefitNext

(* "quality search can never trade away legality for a better score", and  *)
(* its gains add up, for any hull, fit, parts, locks and scores.           *)
THEOREM ImprovementsAddUp ==
    ASSUME ScoresAreNumbers
    PROVE  RefitSpec => []ImprovementHolds
  <1>1. RefitInit => GainInv
    BY GainStarts
  <1>2. RefitInv /\ GainInv /\ [RefitNext]_refitVars => GainInv'
    BY GainStep
  <1>3. GainInv => ImprovementHolds
    BY DEF GainInv, Gained, ImprovementHolds
  <1>4. QED
    BY <1>1, <1>2, <1>3, RefitInvariant, PTL DEF RefitSpec

------------------------------------------------------------------------------
\* A repair settles.
Absent(k, h, f) == FixerCodes[k] \cap Failures(h, f) = {}
Idle(k)   == Wanted(k) = {}
Called(k) == FixerCodes[k] \cap codes # {}

\* What the fixer of a kind is for, of a fit.
TooHigh(h, most, n) == h.unit # Unknown /\ most # Unknown /\ n > most
Left(k, h, f, kept) ==
    CASE k = 1 -> {m \in DOMAIN f.weapons \ kept.mounts : m \in DOMAIN h.mounts => f.weapons[m] \notin DOMAIN Weapon}
      [] k = 2 -> Overridden(h, f) \ kept.mounts
      [] k = 3 -> {m \in Checked(h, f) \ kept.mounts : ~Takes(h.mounts[m], f.weapons[m])}
      [] k = 4 -> Charged(h, f) \ (kept.mods \cup DOMAIN Hullmod)
      [] k = 5 -> {y \in LogisticsOf(h, f) \ kept.mods : Cardinality({z \in LogisticsOf(h, f) : z < y}) >= MaxLogistics}
      [] k = 6 -> DOMAIN f.wings \ (kept.wings \cup DOMAIN Wing)
      [] k = 7 -> {v \in DOMAIN f.wings \ kept.wings :
                     h.bays # Unknown /\ SumFunctionOnSet(f.wings, {u \in DOMAIN f.wings : u <= v}) > h.bays}
      [] k = 8 -> {n \in {1} : TooHigh(h, h.maxVents, f.vents)} \cup {n \in {2} : TooHigh(h, h.maxCaps, f.caps)}

\* A fit of finitely many, numbered parts.
IsCounted(f) ==
    /\ IsFit(f)
    /\ \A parts \in {DOMAIN f.weapons, f.mods, DOMAIN f.wings} : IsFiniteSet(parts) /\ parts \subseteq Nat

LEMMA FirstOfNumbers ==
    ASSUME NEW S \in SUBSET Nat PROVE First(S) = {} <=> S = {}
<1>1. ASSUME S # {} PROVE First(S) # {}
  BY <1>1, LeastNatural DEF First
<1> QED BY <1>1 DEF First

LEMMA IdleMeans ==
    ship # Unknown /\ IsCounted(fit) => \A k \in 1..8 : Idle(k) <=> Left(k, ship, fit, locks) = {}
<1> SUFFICES ASSUME ship # Unknown, IsCounted(fit) PROVE \A k \in 1..8 : Idle(k) <=> Left(k, ship, fit, locks) = {}
  OBVIOUS
<1>1. Idle(1) <=> Left(1, ship, fit, locks) = {}
  <2>1. Wanted(1) = UnresolvedWeapons /\ Left(1, ship, fit, locks) =
          {n \in DOMAIN fit.weapons \ locks.mounts : n \in DOMAIN ship.mounts => fit.weapons[n] \notin DOMAIN Weapon}
    BY DEF Wanted, Ordnance, Left
  <2> QED BY <2>1 DEF Idle, UnresolvedWeapons
<1>2. Idle(2) <=> Left(2, ship, fit, locks) = {}
  <2>1. Wanted(2) = BuiltInOverrides /\ Left(2, ship, fit, locks) = Overridden(ship, fit) \ locks.mounts
    BY DEF Wanted, Ordnance, Left
  <2> QED BY <2>1 DEF Idle, BuiltInOverrides
<1>3. Idle(3) <=> Left(3, ship, fit, locks) = {}
  <2> DEFINE wrong == {n \in Checked(ship, fit) \ locks.mounts : ~Takes(ship.mounts[n], fit.weapons[n])}
             fixes(m) == IF Replacements(m) = {} THEN {RemoveWeapon(m)} ELSE {ReplaceWeapon(m, w) : w \in Replacements(m)}
  <2>1. Wanted(3) = UNION {fixes(m) : m \in wrong} /\ Left(3, ship, fit, locks) = wrong
    BY DEF Wanted, Ordnance, Left, MountIncompatibilities
  <2>2. \A m : fixes(m) # {}
    OBVIOUS
  <2> HIDE DEF wrong, fixes
  <2> QED BY <2>1, <2>2 DEF Idle
<1>4. Idle(4) <=> Left(4, ship, fit, locks) = {}
  <2>1. Wanted(4) = UnresolvedHullmods /\ Left(4, ship, fit, locks) = Charged(ship, fit) \ (locks.mods \cup DOMAIN Hullmod)
    BY DEF Wanted, Ordnance, Left
  <2> QED BY <2>1 DEF Idle, UnresolvedHullmods
<1>5. Idle(5) <=> Left(5, ship, fit, locks) = {}
  <2> DEFINE excess == Left(5, ship, fit, locks)
  <2>1. Wanted(5) = ExcessLogistics /\ excess =
          {y \in LogisticsOf(ship, fit) \ locks.mods : Cardinality({z \in LogisticsOf(ship, fit) : z < y}) >= MaxLogistics}
    BY DEF Wanted, Ordnance, Left
  <2>2. ExcessLogistics = {RemoveHullmod(x) : x \in First(excess)}
    BY <2>1 DEF ExcessLogistics
  <2>3. excess \in SUBSET Nat
    BY <2>1 DEF LogisticsOf, Charged, IsCounted
  <2> HIDE DEF excess
  <2>4. First(excess) = {} <=> excess = {}
    BY <2>3, FirstOfNumbers
  <2> DEFINE first == First(excess)
  <2>5. ExcessLogistics = {} <=> first = {}
    <3>1. ExcessLogistics = {RemoveHullmod(x) : x \in first}
      BY <2>2
    <3> HIDE DEF first
    <3> QED BY <3>1
  <2> QED BY <2>1, <2>4, <2>5 DEF Idle, excess
<1>6. Idle(6) <=> Left(6, ship, fit, locks) = {}
  <2>1. Wanted(6) = UnresolvedWings /\ Left(6, ship, fit, locks) = DOMAIN fit.wings \ (locks.wings \cup DOMAIN Wing)
    BY DEF Wanted, Ordnance, Left
  <2> QED BY <2>1 DEF Idle, UnresolvedWings
<1>7. Idle(7) <=> Left(7, ship, fit, locks) = {}
  <2> DEFINE excess == Left(7, ship, fit, locks)
  <2>1. Wanted(7) = ExcessWings /\ excess =
          {v \in DOMAIN fit.wings \ locks.wings :
             ship.bays # Unknown /\ SumFunctionOnSet(fit.wings, {u \in DOMAIN fit.wings : u <= v}) > ship.bays}
    BY DEF Wanted, Ordnance, Left
  <2>2. ExcessWings = {RemoveWing(w) : w \in First(excess)}
    BY <2>1 DEF ExcessWings, FlyingUpTo
  <2>3. excess \in SUBSET Nat
    BY <2>1 DEF IsCounted
  <2> HIDE DEF excess
  <2>4. First(excess) = {} <=> excess = {}
    BY <2>3, FirstOfNumbers
  <2> DEFINE first == First(excess)
  <2>5. ExcessWings = {} <=> first = {}
    <3>1. ExcessWings = {RemoveWing(x) : x \in first}
      BY <2>2
    <3> HIDE DEF first
    <3> QED BY <3>1
  <2> QED BY <2>1, <2>4, <2>5 DEF Idle, excess
<1>8. Idle(8) <=> Left(8, ship, fit, locks) = {}
  <2>1. Wanted(8) = FluxReductions
        /\ Left(8, ship, fit, locks) = {n \in {1} : TooHigh(ship, ship.maxVents, fit.vents)}
                                       \cup {n \in {2} : TooHigh(ship, ship.maxCaps, fit.caps)}
    BY DEF Wanted, Ordnance, Left
  <2>2. /\ Above(ship.maxVents, fit.vents) <=> TooHigh(ship, ship.maxVents, fit.vents)
        /\ Above(ship.maxCaps, fit.caps) <=> TooHigh(ship, ship.maxCaps, fit.caps)
    BY DEF Above, TooHigh
  <2>3. FluxReductions = {} <=> ~Above(ship.maxVents, fit.vents) /\ ~Above(ship.maxCaps, fit.caps)
    BY DEF FluxReductions
  <2>4. Left(8, ship, fit, locks) = {} <=> ~TooHigh(ship, ship.maxVents, fit.vents) /\ ~TooHigh(ship, ship.maxCaps, fit.caps)
    BY <2>1
  <2> QED BY <2>1, <2>2, <2>3, <2>4 DEF Idle
<1> QED BY <1>1, <1>2, <1>3, <1>4, <1>5, <1>6, <1>7, <1>8

\* When there is a failure of a kind.
LEMMA FailureMeans ==
    ASSUME NEW h, NEW f, h # Unknown
    PROVE  /\ Absent(1, h, f) <=> \A m \in DOMAIN f.weapons : m \in DOMAIN h.mounts /\ f.weapons[m] \in DOMAIN Weapon
           /\ Absent(2, h, f) <=> Overridden(h, f) = {}
           /\ Absent(3, h, f) <=> \A m \in Checked(h, f) : ~TooLarge(h.mounts[m], f.weapons[m]) /\ ~Mismatch(h.mounts[m], f.weapons[m])
           /\ Absent(4, h, f) <=> Charged(h, f) \subseteq DOMAIN Hullmod
           /\ Absent(5, h, f) <=> ~(Cardinality(LogisticsOf(h, f)) > MaxLogistics)
           /\ Absent(6, h, f) <=> DOMAIN f.wings \subseteq DOMAIN Wing
           /\ Absent(7, h, f) <=> ~(h.bays # Unknown /\ Flying(f) > h.bays)
           /\ Absent(8, h, f) <=> ~TooHigh(h, h.maxVents, f.vents) /\ ~TooHigh(h, h.maxCaps, f.caps)
           /\ Absent(9, h, f) <=> ~(h.op # Unknown /\ OpComplete(h, f) /\ TotalOp(h, f) > h.op)
<1>1. /\ "MOUNT_NOT_FOUND" \in Failures(h, f) <=> \E m \in DOMAIN f.weapons : m \notin DOMAIN h.mounts
      /\ "WEAPON_NOT_FOUND" \in Failures(h, f) <=> \E m \in DOMAIN f.weapons \cap DOMAIN h.mounts : f.weapons[m] \notin DOMAIN Weapon
      /\ "BUILT_IN_WEAPON_OVERRIDDEN" \in Failures(h, f) <=> Overridden(h, f) # {}
      /\ "WEAPON_TOO_LARGE" \in Failures(h, f) <=> \E m \in Checked(h, f) : TooLarge(h.mounts[m], f.weapons[m])
      /\ "MOUNT_TYPE_MISMATCH" \in Failures(h, f) <=> \E m \in Checked(h, f) : Mismatch(h.mounts[m], f.weapons[m])
  BY DEF Failures
<1>2. /\ "HULLMOD_NOT_FOUND" \in Failures(h, f) <=> ~(Charged(h, f) \subseteq DOMAIN Hullmod)
      /\ "LOGISTICS_HULLMOD_LIMIT_EXCEEDED" \in Failures(h, f) <=> Cardinality(LogisticsOf(h, f)) > MaxLogistics
      /\ "FIGHTER_WING_NOT_FOUND" \in Failures(h, f) <=> ~(DOMAIN f.wings \subseteq DOMAIN Wing)
      /\ "FIGHTER_BAY_CAPACITY_EXCEEDED" \in Failures(h, f) <=> h.bays # Unknown /\ Flying(f) > h.bays
  BY DEF Failures
<1>3. /\ "FLUX_VENTS_EXCEED_HULL_MAXIMUM" \in Failures(h, f) <=> TooHigh(h, h.maxVents, f.vents)
      /\ "FLUX_CAPACITORS_EXCEED_HULL_MAXIMUM" \in Failures(h, f) <=> TooHigh(h, h.maxCaps, f.caps)
      /\ "OP_EXCEEDED" \in Failures(h, f) <=> h.op # Unknown /\ OpComplete(h, f) /\ TotalOp(h, f) > h.op
  BY DEF Failures, TooHigh
<1>4. /\ Absent(1, h, f) <=> "MOUNT_NOT_FOUND" \notin Failures(h, f) /\ "WEAPON_NOT_FOUND" \notin Failures(h, f)
      /\ Absent(2, h, f) <=> "BUILT_IN_WEAPON_OVERRIDDEN" \notin Failures(h, f)
      /\ Absent(3, h, f) <=> "WEAPON_TOO_LARGE" \notin Failures(h, f) /\ "MOUNT_TYPE_MISMATCH" \notin Failures(h, f)
      /\ Absent(4, h, f) <=> "HULLMOD_NOT_FOUND" \notin Failures(h, f)
      /\ Absent(5, h, f) <=> "LOGISTICS_HULLMOD_LIMIT_EXCEEDED" \notin Failures(h, f)
      /\ Absent(6, h, f) <=> "FIGHTER_WING_NOT_FOUND" \notin Failures(h, f)
      /\ Absent(7, h, f) <=> "FIGHTER_BAY_CAPACITY_EXCEEDED" \notin Failures(h, f)
      /\ Absent(8, h, f) <=> "FLUX_VENTS_EXCEED_HULL_MAXIMUM" \notin Failures(h, f) /\ "FLUX_CAPACITORS_EXCEED_HULL_MAXIMUM" \notin Failures(h, f)
      /\ Absent(9, h, f) <=> "OP_EXCEEDED" \notin Failures(h, f)
  BY DEF Absent, FixerCodes
<1> QED BY <1>1, <1>2, <1>3, <1>4

------------------------------------------------------------------------------
\* What the fixers do to a fit: parts go, a weapon that comes in for another is taken by its mount.
Lessened(h, f, g) ==
    /\ DOMAIN g.weapons \subseteq DOMAIN f.weapons
    /\ \A m \in DOMAIN g.weapons :
          \/ g.weapons[m] = f.weapons[m]
          \/ /\ m \in DOMAIN h.mounts /\ h.mounts[m].fixed = Unknown
             /\ g.weapons[m] \in DOMAIN Weapon /\ Takes(h.mounts[m], g.weapons[m])
    /\ g.mods \subseteq f.mods
    /\ DOMAIN g.wings \subseteq DOMAIN f.wings /\ \A w \in DOMAIN g.wings : g.wings[w] <= f.wings[w]
    /\ g.vents <= f.vents /\ g.caps <= f.caps

LEMMA LessIsCounted ==
    ASSUME NEW h, NEW f, NEW g, IsCounted(f), IsFit(g), Lessened(h, f, g)
    PROVE  IsCounted(g)
BY FS_Subset DEF IsCounted, Lessened

LEMMA FewerLogistics ==
    ASSUME NEW h, NEW f, NEW g, IsCounted(f), Lessened(h, f, g)
    PROVE  /\ IsFiniteSet(LogisticsOf(h, f)) /\ IsFiniteSet(LogisticsOf(h, g))
           /\ LogisticsOf(h, g) \subseteq LogisticsOf(h, f)
<1>1. LogisticsOf(h, f) \subseteq f.mods /\ LogisticsOf(h, g) \subseteq LogisticsOf(h, f)
  BY DEF LogisticsOf, Charged, Lessened
<1>2. IsFiniteSet(f.mods)
  BY DEF IsCounted
<1> QED BY <1>1, <1>2, FS_Subset

LEMMA FewerFlying ==
    ASSUME NEW h, NEW f, NEW g, IsCounted(f), IsFit(g), Lessened(h, f, g), NEW S \in SUBSET DOMAIN f.wings
    PROVE  /\ SumFunctionOnSet(g.wings, S \cap DOMAIN g.wings) <= SumFunctionOnSet(f.wings, S)
           /\ SumFunctionOnSet(g.wings, S \cap DOMAIN g.wings) \in Nat /\ SumFunctionOnSet(f.wings, S) \in Nat
<1> DEFINE T == S \cap DOMAIN g.wings
<1>1. IsFiniteSet(S) /\ IsFiniteSet(T) /\ T \in SUBSET S
  BY FS_Subset DEF IsCounted
<1>2. /\ \A w \in S : f.wings[w] \in Nat
      /\ \A w \in T : g.wings[w] \in Nat /\ g.wings[w] \in Int /\ f.wings[w] \in Int /\ g.wings[w] <= f.wings[w]
  BY DEF IsCounted, IsFit, Lessened
<1> HIDE DEF T
<1>3. SumFunctionOnSet(g.wings, T) <= SumFunctionOnSet(f.wings, T)
  BY <1>1, <1>2, SumOfLess
<1>4. SumFunctionOnSet(f.wings, T) <= SumFunctionOnSet(f.wings, S)
  BY <1>1, <1>2, SumOfPart
<1>5. SumFunctionOnSet(g.wings, T) \in Nat /\ SumFunctionOnSet(f.wings, T) \in Nat /\ SumFunctionOnSet(f.wings, S) \in Nat
  <2>1. \A w \in T : f.wings[w] \in Nat
    BY <1>1, <1>2
  <2> QED BY <1>1, <1>2, <2>1, SumIsNat
<1>6. SumFunctionOnSet(g.wings, T) <= SumFunctionOnSet(f.wings, S)
  BY <1>3, <1>4, <1>5
<1> QED BY <1>5, <1>6 DEF T

LEMMA LessIsLeft ==
    ASSUME NEW h \in Ships, h # Unknown, NEW f, NEW g, NEW kept, IsCounted(f), IsFit(g), Lessened(h, f, g), NEW k \in 1..8
    PROVE  Left(k, h, g, kept) \subseteq Left(k, h, f, kept)
<1>1. CASE k = 1
  BY <1>1 DEF Left, Lessened
<1>2. CASE k = 2
  BY <1>2 DEF Left, Lessened, Overridden
<1>3. CASE k = 3
  <2>1. ASSUME NEW m \in Checked(h, g), ~Takes(h.mounts[m], g.weapons[m])
        PROVE  m \in Checked(h, f) /\ ~Takes(h.mounts[m], f.weapons[m])
    <3>1. m \in DOMAIN g.weapons /\ m \in DOMAIN h.mounts /\ g.weapons[m] \in DOMAIN Weapon /\ h.mounts[m].fixed = Unknown
      BY <2>1 DEF Checked, Found
    <3>2. m \in DOMAIN f.weapons /\ g.weapons[m] = f.weapons[m]
      BY <2>1, <3>1 DEF Lessened
    <3> QED BY <2>1, <3>1, <3>2 DEF Checked, Found
  <2>2. /\ Left(k, h, g, kept) = {m \in Checked(h, g) \ kept.mounts : ~Takes(h.mounts[m], g.weapons[m])}
        /\ Left(k, h, f, kept) = {m \in Checked(h, f) \ kept.mounts : ~Takes(h.mounts[m], f.weapons[m])}
    BY <1>3 DEF Left
  <2> QED BY <2>1, <2>2
<1>4. CASE k = 4
  BY <1>4 DEF Left, Lessened, Charged
<1>5. CASE k = 5
  <2> DEFINE before(f1, y) == {z \in LogisticsOf(h, f1) : z < y}
  <2>1. /\ Left(k, h, g, kept) = {y \in LogisticsOf(h, g) \ kept.mods : Cardinality(before(g, y)) >= MaxLogistics}
        /\ Left(k, h, f, kept) = {y \in LogisticsOf(h, f) \ kept.mods : Cardinality(before(f, y)) >= MaxLogistics}
    BY <1>5 DEF Left
  <2>2. ASSUME NEW y
        PROVE  /\ Cardinality(before(g, y)) \in Nat /\ Cardinality(before(f, y)) \in Nat
               /\ Cardinality(before(g, y)) <= Cardinality(before(f, y))
    <3> DEFINE A == before(g, y)
               B == before(f, y)
    <3>1. A \subseteq B /\ B \subseteq LogisticsOf(h, f)
      BY FewerLogistics
    <3>2. IsFiniteSet(B)
      BY <3>1, FewerLogistics, FS_Subset
    <3> HIDE DEF A, B
    <3>3. IsFiniteSet(A) /\ Cardinality(A) <= Cardinality(B)
      BY <3>1, <3>2, FS_Subset
    <3>4. Cardinality(A) \in Nat /\ Cardinality(B) \in Nat
      BY <3>2, <3>3, FS_CardinalityType
    <3> QED BY <3>3, <3>4 DEF A, B
  <2>3. MaxLogistics \in Nat
    BY PartsAssumption
  <2> HIDE DEF before
  <2>4. \A y : Cardinality(before(g, y)) >= MaxLogistics => Cardinality(before(f, y)) >= MaxLogistics
    BY <2>2, <2>3
  <2> QED BY <2>1, <2>4, FewerLogistics
<1>6. CASE k = 6
  BY <1>6 DEF Left, Lessened
<1>7. CASE k = 7
  <2> DEFINE upto(f1, v) == SumFunctionOnSet(f1.wings, {u \in DOMAIN f1.wings : u <= v})
  <2>1. /\ Left(k, h, g, kept) = {v \in DOMAIN g.wings \ kept.wings : h.bays # Unknown /\ upto(g, v) > h.bays}
        /\ Left(k, h, f, kept) = {v \in DOMAIN f.wings \ kept.wings : h.bays # Unknown /\ upto(f, v) > h.bays}
    BY <1>7 DEF Left
  <2>2. ASSUME NEW v PROVE upto(g, v) <= upto(f, v) /\ upto(g, v) \in Nat /\ upto(f, v) \in Nat
    <3> DEFINE S == {u \in DOMAIN f.wings : u <= v}
    <3>1. S \in SUBSET DOMAIN f.wings /\ S \cap DOMAIN g.wings = {u \in DOMAIN g.wings : u <= v}
      BY DEF Lessened
    <3>2. upto(f, v) = SumFunctionOnSet(f.wings, S) /\ upto(g, v) = SumFunctionOnSet(g.wings, S \cap DOMAIN g.wings)
      BY <3>1
    <3> HIDE DEF S, upto
    <3> QED BY <3>1, <3>2, FewerFlying
  <2>3. h.bays # Unknown => h.bays \in Nat
    BY PartsAssumption
  <2> HIDE DEF upto
  <2>4. \A v : h.bays # Unknown /\ upto(g, v) > h.bays => upto(f, v) > h.bays
    BY <2>2, <2>3
  <2>5. DOMAIN g.wings \subseteq DOMAIN f.wings
    BY DEF Lessened
  <2> QED BY <2>1, <2>4, <2>5
<1>8. CASE k = 8
  <2>1. {h.maxVents, h.maxCaps} \subseteq Nat \cup {Unknown}
    BY RefitAssumption
  <2>2. g.vents <= f.vents /\ g.caps <= f.caps /\ {g.vents, f.vents, g.caps, f.caps} \subseteq Nat
    BY DEF Lessened, IsCounted, IsFit
  <2>3. TooHigh(h, h.maxVents, g.vents) => TooHigh(h, h.maxVents, f.vents)
    BY <2>1, <2>2 DEF TooHigh
  <2>4. TooHigh(h, h.maxCaps, g.caps) => TooHigh(h, h.maxCaps, f.caps)
    BY <2>1, <2>2 DEF TooHigh
  <2>5. \A x : Left(k, h, x, kept) = {n \in {1} : TooHigh(h, h.maxVents, x.vents)} \cup {n \in {2} : TooHigh(h, h.maxCaps, x.caps)}
    BY <1>8 DEF Left
  <2> QED BY <2>3, <2>4, <2>5
<1> QED BY <1>1, <1>2, <1>3, <1>4, <1>5, <1>6, <1>7, <1>8

LEMMA AbsentStays ==
    ASSUME NEW h \in Ships, h # Unknown, NEW f, NEW g, IsCounted(f), IsFit(g), Lessened(h, f, g), NEW k \in 1..8, Absent(k, h, f)
    PROVE  Absent(k, h, g)
<1>1. CASE k = 1
  BY <1>1, FailureMeans DEF Lessened
<1>2. CASE k = 2
  <2>1. Overridden(h, g) \subseteq Overridden(h, f)
    BY DEF Lessened, Overridden
  <2> QED BY <1>2, <2>1, FailureMeans
<1>3. CASE k = 3
  <2>1. ASSUME NEW m \in Checked(h, g)
        PROVE  ~TooLarge(h.mounts[m], g.weapons[m]) /\ ~Mismatch(h.mounts[m], g.weapons[m])
    <3>1. m \in DOMAIN g.weapons /\ m \in DOMAIN h.mounts /\ g.weapons[m] \in DOMAIN Weapon /\ h.mounts[m].fixed = Unknown
      BY DEF Checked, Found
    <3>2. CASE g.weapons[m] = f.weapons[m]
      <4>1. m \in Checked(h, f)
        BY <3>1, <3>2 DEF Checked, Found, Lessened
      <4> QED BY <1>3, <3>2, <4>1, FailureMeans
    <3>3. CASE Takes(h.mounts[m], g.weapons[m])
      BY <3>3 DEF Takes
    <3> QED BY <3>1, <3>2, <3>3 DEF Lessened
  <2> QED BY <1>3, <2>1, FailureMeans
<1>4. CASE k = 4
  <2>1. Charged(h, g) \subseteq Charged(h, f)
    BY DEF Lessened, Charged
  <2> QED BY <1>4, <2>1, FailureMeans
<1>5. CASE k = 5
  <2>1. Cardinality(LogisticsOf(h, g)) <= Cardinality(LogisticsOf(h, f))
    BY FewerLogistics, FS_Subset
  <2>2. Cardinality(LogisticsOf(h, g)) \in Nat /\ Cardinality(LogisticsOf(h, f)) \in Nat /\ MaxLogistics \in Nat
    BY FewerLogistics, FS_CardinalityType, PartsAssumption
  <2>3. ~(Cardinality(LogisticsOf(h, f)) > MaxLogistics)
    BY <1>5, FailureMeans
  <2>4. ~(Cardinality(LogisticsOf(h, g)) > MaxLogistics)
    BY <2>1, <2>2, <2>3
  <2> QED BY <1>5, <2>4, FailureMeans
<1>6. CASE k = 6
  BY <1>6, FailureMeans DEF Lessened
<1>7. CASE k = 7
  <2>1. Flying(f) = SumFunctionOnSet(f.wings, DOMAIN f.wings)
        /\ Flying(g) = SumFunctionOnSet(g.wings, DOMAIN f.wings \cap DOMAIN g.wings)
    <3>1. DOMAIN f.wings \cap DOMAIN g.wings = DOMAIN g.wings
      BY DEF Lessened
    <3> QED BY <3>1, TotalIsSum DEF Flying
  <2>2. Flying(g) <= Flying(f) /\ Flying(g) \in Nat /\ Flying(f) \in Nat
    BY <2>1, FewerFlying
  <2>3. h.bays # Unknown => h.bays \in Nat
    BY PartsAssumption
  <2>4. h.bays # Unknown => ~(Flying(f) > h.bays)
    BY <1>7, FailureMeans
  <2>5. h.bays # Unknown => ~(Flying(g) > h.bays)
    BY <2>2, <2>3, <2>4
  <2> QED BY <1>7, <2>5, FailureMeans
<1>8. CASE k = 8
  <2>1. {h.maxVents, h.maxCaps} \subseteq Nat \cup {Unknown}
    BY RefitAssumption
  <2>2. g.vents <= f.vents /\ g.caps <= f.caps /\ {g.vents, f.vents, g.caps, f.caps} \subseteq Nat
    BY DEF Lessened, IsCounted, IsFit
  <2>3. TooHigh(h, h.maxVents, g.vents) => TooHigh(h, h.maxVents, f.vents)
    BY <2>1, <2>2 DEF TooHigh
  <2>4. TooHigh(h, h.maxCaps, g.caps) => TooHigh(h, h.maxCaps, f.caps)
    BY <2>1, <2>2 DEF TooHigh
  <2> QED BY <1>8, <2>3, <2>4, FailureMeans
<1> QED BY <1>1, <1>2, <1>3, <1>4, <1>5, <1>6, <1>7, <1>8

\* Only the third fixer replaces weapons, by one that the mount takes.
LEMMA OnlyMountsSwap ==
    ASSUME NEW k \in 1..Ordnance, NEW c \in Wanted(k), c.kind = "WEAPON_REPLACED"
    PROVE  \E m \in Checked(ship, fit) : \E w \in Compatible(m) : c = ReplaceWeapon(m, w)
<1>1. ASSUME NEW m PROVE RemoveWeapon(m).kind # "WEAPON_REPLACED"
  BY DEF RemoveWeapon, Change
<1>2. ASSUME NEW x PROVE RemoveHullmod(x).kind # "WEAPON_REPLACED" /\ RemoveWing(x).kind # "WEAPON_REPLACED"
  BY DEF RemoveHullmod, RemoveWing, Change
<1>3. CASE k = 1
  BY <1>1, <1>3 DEF Wanted, Ordnance, UnresolvedWeapons
<1>4. CASE k = 2
  BY <1>1, <1>4 DEF Wanted, Ordnance, BuiltInOverrides
<1>5. CASE k = 3
  <2>1. c \in MountIncompatibilities
    BY <1>5 DEF Wanted, Ordnance
  <2>2. PICK m \in Checked(ship, fit) \ locks.mounts :
          c \in IF Replacements(m) = {} THEN {RemoveWeapon(m)} ELSE {ReplaceWeapon(m, w) : w \in Replacements(m)}
    BY <2>1 DEF MountIncompatibilities
  <2>3. c \in {ReplaceWeapon(m, w) : w \in Replacements(m)}
    BY <1>1, <2>2
  <2>4. Replacements(m) \subseteq Compatible(m)
    BY DEF Replacements
  <2> QED BY <2>2, <2>3, <2>4
<1>6. CASE k = 4
  BY <1>2, <1>6 DEF Wanted, Ordnance, UnresolvedHullmods
<1>7. CASE k = 5
  <2>1. c \in ExcessLogistics
    BY <1>7 DEF Wanted, Ordnance
  <2>2. \E x : c = RemoveHullmod(x)
    BY <2>1 DEF ExcessLogistics
  <2> QED BY <1>2, <2>2
<1>8. CASE k = 6
  <2>1. c \in UnresolvedWings
    BY <1>8 DEF Wanted, Ordnance
  <2>2. \E w : c = RemoveWing(w)
    BY <2>1 DEF UnresolvedWings
  <2> QED BY <1>2, <2>2
<1>9. CASE k = 7
  <2>1. c \in ExcessWings
    BY <1>9 DEF Wanted, Ordnance
  <2>2. \E w : c = RemoveWing(w)
    BY <2>1 DEF ExcessWings
  <2> QED BY <1>2, <2>2
<1>10. CASE k = 8
  <2>1. c \in FluxReductions
    BY <1>10 DEF Wanted, Ordnance
  <2>2. (\E n : c = Change("VENTS_REDUCED", "flux_vents", fit.vents, n))
        \/ \E n : c = Change("CAPACITORS_REDUCED", "flux_capacitors", fit.caps, n)
    BY <2>1 DEF FluxReductions
  <2> QED BY <2>2 DEF Change
<1>11. CASE k = Ordnance
  <2>1. c \in Costliest
    BY <1>11 DEF Wanted, Ordnance
  <2>2. PICK p \in Removable : c = p.change
    BY <2>1 DEF Costliest
  <2>3. (\E m : c = RemoveWeapon(m)) \/ (\E x : c = RemoveHullmod(x)) \/ (\E w : c = RemoveWing(w))
    BY <2>2 DEF Removable, Priced
  <2> QED BY <1>1, <1>2, <2>3
<1> QED BY <1>3, <1>4, <1>5, <1>6, <1>7, <1>8, <1>9, <1>10, <1>11 DEF Ordnance

LEMMA FixersLessen ==
    ASSUME RefitTypeOK, ship # Unknown, NEW k \in 1..Ordnance, NEW c \in Wanted(k), fit' = After(c)
    PROVE  Lessened(ship, fit, fit')
<1>1. Repairs(c)
  BY WantedRepairs
<1>2. IsFit(fit)
  BY DEF RefitTypeOK
<1>3. /\ \A w \in DOMAIN fit.wings : fit.wings[w] \in Nat \ {0}
      /\ fit.vents \in Nat /\ fit.caps \in Nat
  BY <1>2 DEF IsFit
<1>4. fit.vents <= fit.vents /\ fit.caps <= fit.caps /\ \A w \in DOMAIN fit.wings : fit.wings[w] <= fit.wings[w]
  BY <1>3
<1>5. CASE Taken(c)
  <2>1. PICK m \in DOMAIN fit.weapons : c = RemoveWeapon(m)
    BY <1>5 DEF Taken
  <2>2. fit' = [weapons |-> Without(fit.weapons, m), mods |-> fit.mods, wings |-> fit.wings,
                vents |-> fit.vents, caps |-> fit.caps]
    BY <1>2, <2>1 DEF After, RemoveWeapon, Change, IsFit
  <2>3. DOMAIN Without(fit.weapons, m) = DOMAIN fit.weapons \ {m}
        /\ \A n \in DOMAIN fit.weapons \ {m} : Without(fit.weapons, m)[n] = fit.weapons[n]
    BY DEF Without
  <2> QED BY <1>4, <2>2, <2>3 DEF Lessened
<1>6. CASE Swapped(c)
  <2>1. c.kind = "WEAPON_REPLACED"
    BY <1>6 DEF Swapped, ReplaceWeapon, Change
  <2>2. PICK m \in Checked(ship, fit) : \E w \in Compatible(m) : c = ReplaceWeapon(m, w)
    BY <2>1, OnlyMountsSwap
  <2>3. PICK w \in Compatible(m) : c = ReplaceWeapon(m, w)
    BY <2>2
  <2>4. fit' = [weapons |-> [fit.weapons EXCEPT ![m] = w], mods |-> fit.mods, wings |-> fit.wings,
                vents |-> fit.vents, caps |-> fit.caps]
    BY <1>2, <2>3 DEF After, ReplaceWeapon, Change, IsFit
  <2>5. m \in DOMAIN fit.weapons /\ m \in DOMAIN ship.mounts /\ ship.mounts[m].fixed = Unknown
        /\ w \in DOMAIN Weapon /\ Takes(ship.mounts[m], w)
    BY <2>2, <2>3 DEF Checked, Found, Compatible
  <2>6. /\ DOMAIN [fit.weapons EXCEPT ![m] = w] = DOMAIN fit.weapons
        /\ \A n \in DOMAIN fit.weapons : [fit.weapons EXCEPT ![m] = w][n] = IF n = m THEN w ELSE fit.weapons[n]
    OBVIOUS
  <2> QED BY <1>4, <2>4, <2>5, <2>6 DEF Lessened
<1>7. CASE Dropped(c)
  <2>1. PICK x \in fit.mods : c = RemoveHullmod(x)
    BY <1>7 DEF Dropped
  <2>2. fit' = [weapons |-> fit.weapons, mods |-> fit.mods \ {x}, wings |-> fit.wings, vents |-> fit.vents, caps |-> fit.caps]
    BY <1>2, <2>1 DEF After, RemoveHullmod, Change, IsFit
  <2> QED BY <1>4, <2>2 DEF Lessened
<1>8. CASE Grounded(c)
  <2>1. PICK w \in DOMAIN fit.wings : c = RemoveWing(w)
    BY <1>8 DEF Grounded
  <2> DEFINE g == IF step = Ordnance THEN Without(fit.wings, w) ELSE Fewer(fit.wings, w)
  <2>2. fit' = [weapons |-> fit.weapons, mods |-> fit.mods, wings |-> g, vents |-> fit.vents, caps |-> fit.caps]
    BY <1>2, <2>1 DEF After, RemoveWing, Change, IsFit
  <2>3. DOMAIN g \subseteq DOMAIN fit.wings /\ \A v \in DOMAIN g : g[v] <= fit.wings[v]
    <3>1. CASE g = Without(fit.wings, w)
      BY <1>4, <3>1 DEF Without
    <3>2. CASE g = [fit.wings EXCEPT ![w] = @ - 1]
      <4>1. fit.wings[w] - 1 <= fit.wings[w]
        BY <1>3, <2>1
      <4>2. DOMAIN g = DOMAIN fit.wings
            /\ \A v \in DOMAIN fit.wings : g[v] = IF v = w THEN fit.wings[w] - 1 ELSE fit.wings[v]
        BY <3>2
      <4> HIDE DEF g
      <4> QED BY <1>4, <4>1, <4>2
    <3>3. g = Without(fit.wings, w) \/ g = [fit.wings EXCEPT ![w] = @ - 1]
      BY DEF Fewer
    <3> QED BY <3>1, <3>2, <3>3
  <2> HIDE DEF g
  <2> QED BY <1>4, <2>2, <2>3 DEF Lessened
<1>9. CASE Lowered(c)
  <2>1. CASE \E n \in Nat : n < fit.vents /\ c = Change("VENTS_REDUCED", "flux_vents", fit.vents, n)
    <3>1. PICK n \in Nat : n < fit.vents /\ c = Change("VENTS_REDUCED", "flux_vents", fit.vents, n)
      BY <2>1
    <3>2. fit' = [weapons |-> fit.weapons, mods |-> fit.mods, wings |-> fit.wings, vents |-> n, caps |-> fit.caps]
      BY <1>2, <3>1 DEF After, Change, IsFit
    <3>3. n <= fit.vents
      BY <1>3, <3>1
    <3> QED BY <1>4, <3>2, <3>3 DEF Lessened
  <2>2. CASE \E n \in Nat : n < fit.caps /\ c = Change("CAPACITORS_REDUCED", "flux_capacitors", fit.caps, n)
    <3>1. PICK n \in Nat : n < fit.caps /\ c = Change("CAPACITORS_REDUCED", "flux_capacitors", fit.caps, n)
      BY <2>2
    <3>2. fit' = [weapons |-> fit.weapons, mods |-> fit.mods, wings |-> fit.wings, vents |-> fit.vents, caps |-> n]
      BY <1>2, <3>1 DEF After, Change, IsFit
    <3>3. n <= fit.caps
      BY <1>3, <3>1
    <3> QED BY <1>4, <3>2, <3>3 DEF Lessened
  <2> QED BY <1>9, <2>1, <2>2 DEF Lowered
<1> QED BY <1>1, <1>5, <1>6, <1>7, <1>8, <1>9 DEF Repairs

------------------------------------------------------------------------------
(* The invariant of a repair with changes to spare: what the pass did not  *)
(* begin with is still not there, the fixers that ran have nothing left to *)
(* do, in the second pass those of all but the points never had, and in    *)
(* the third none has.                                                     *)
Settling ==
    /\ \A k \in 1..8 : Called(k) \/ Absent(k, ship, fit)
    /\ \A k \in 1..8 : Called(k) /\ (k < step \/ pass >= 2) => Idle(k)
    /\ (pass >= 2 \/ ~progress) => Called(Ordnance) \/ Absent(Ordnance, ship, fit)
    /\ Called(Ordnance) /\ (step > Ordnance \/ pass = 3) => Idle(Ordnance)
Settled == \A k \in 1..Ordnance : Absent(k, ship, fit) \/ Idle(k)
SettleInv ==
    mode \in RepairModes =>
      /\ step # Searching /\ fit.mods \subseteq given.mods
      /\ BudgetLeft /\ ship # Unknown =>
           /\ step \in 1..Assessing /\ pass = 0 => step = Assessing /\ progress
           /\ step \in 1..Assessing /\ pass # 0 => Settling
           /\ step = Finished => Settled

LEMMA RepairedIsCounted ==
    RefitTypeOK /\ fit.mods \subseteq given.mods => IsCounted(fit)
<1> SUFFICES ASSUME RefitTypeOK, fit.mods \subseteq given.mods PROVE IsCounted(fit)
  OBVIOUS
<1>1. IsFit(fit) /\ given \in Fits /\ DOMAIN fit.weapons \subseteq DOMAIN given.weapons /\ DOMAIN fit.wings \subseteq DOMAIN given.wings
  BY DEF RefitTypeOK
<1>2. \A parts \in {DOMAIN given.weapons, given.mods, DOMAIN given.wings} : IsFiniteSet(parts) /\ parts \subseteq Nat
  BY <1>1, PartsAssumption
<1>3. /\ IsFiniteSet(DOMAIN given.weapons) /\ IsFiniteSet(given.mods) /\ IsFiniteSet(DOMAIN given.wings)
      /\ DOMAIN given.weapons \subseteq Nat /\ given.mods \subseteq Nat /\ DOMAIN given.wings \subseteq Nat
  BY <1>2
<1>4. IsFiniteSet(DOMAIN fit.weapons) /\ IsFiniteSet(fit.mods) /\ IsFiniteSet(DOMAIN fit.wings)
  BY <1>1, <1>3, FS_Subset
<1> QED BY <1>1, <1>3, <1>4 DEF IsCounted

\* The same of the next state.
LEMMA IdleMeansNext == (ship # Unknown /\ IsCounted(fit) => \A k \in 1..8 : Idle(k) <=> Left(k, ship, fit, locks) = {})'
BY IdleMeans, PTL

LEMMA FixKeepsSettling ==
    ASSUME RefitInv, RefitInv', SettleInv, mode \in RepairModes, ship # Unknown, BudgetLeft, pass # 0, ApplyFix
    PROVE  Settling'
<1>1. step \in 1..Ordnance /\ Called(step) /\ ~Idle(step)
  BY DEF ApplyFix, Running, Called, Idle
<1>2. step \in 1..Assessing /\ Settling
  <2>1. step \in 1..Assessing
    BY <1>1 DEF Ordnance, Assessing
  <2> QED BY <2>1 DEF SettleInv
<1>3. PICK c \in Wanted(step) : fit' = After(c)
  BY DEF ApplyFix
<1>4. Lessened(ship, fit, fit')
  BY <1>1, <1>3, FixersLessen DEF RefitInv
<1>5. IsCounted(fit) /\ IsFit(fit') /\ ship \in Ships
  BY RepairedIsCounted DEF RefitInv, RefitTypeOK, SettleInv
<1>6. UNCHANGED <<ship, locks, codes, pass, step>> /\ progress'
  BY DEF ApplyFix, requested
<1>7. \A k \in 1..9 : Called(k)' <=> Called(k)
  BY <1>6 DEF Called
<1>8. ASSUME NEW k \in 1..8, Absent(k, ship, fit) PROVE Absent(k, ship, fit)'
  <2>1. Absent(k, ship, fit')
    BY <1>4, <1>5, <1>8, AbsentStays
  <2> QED BY <1>6, <2>1 DEF Absent
<1>9. ASSUME NEW k \in 1..8, Idle(k) PROVE Idle(k)'
  <2>1. Left(k, ship, fit, locks) = {}
    BY <1>5, <1>9, IdleMeans
  <2>2. Left(k, ship, fit', locks) = {}
    BY <1>4, <1>5, <2>1, LessIsLeft
  <2>3. IsCounted(fit')
    BY <1>4, <1>5, LessIsCounted
  <2>4. Left(k, ship', fit', locks') = {} /\ ship' # Unknown
    BY <1>6, <2>2
  <2>5. IsCounted(fit)' /\ (Left(k, ship, fit, locks) = {})'
    BY <2>3, <2>4
  <2> QED BY <2>4, <2>5, IdleMeansNext
<1>10. step \in 1..8 => pass = 1
  BY <1>1, <1>2 DEF Settling, RefitInv, RefitTypeOK
<1>11. step = Ordnance => pass # 3
  BY <1>1, <1>2 DEF Settling
<1>12. \A k \in 1..8 : (Called(k) \/ Absent(k, ship, fit))'
  BY <1>2, <1>7, <1>8 DEF Settling
<1>13. \A k \in 1..8 : (Called(k) /\ (k < step \/ pass >= 2) => Idle(k))'
  BY <1>2, <1>6, <1>7, <1>9 DEF Settling
<1>14. step \in 1..8 \/ step = Ordnance
  BY <1>1 DEF Ordnance
<1>15. ((pass >= 2 \/ ~progress) => Called(Ordnance))'
  BY <1>1, <1>6, <1>7, <1>10, <1>14 DEF Ordnance
<1>16. ~(step > Ordnance \/ pass = 3)'
  BY <1>6, <1>10, <1>11, <1>14 DEF Ordnance
<1> QED BY <1>12, <1>13, <1>15, <1>16 DEF Settling

LEMMA SameFit ==
    ASSUME UNCHANGED <<ship, locks, mode, fit>>, NEW k \in 1..Ordnance
    PROVE  (Idle(k)' <=> Idle(k)) /\ (Absent(k, ship, fit)' <=> Absent(k, ship, fit))
<1>1. UNCHANGED <<UnresolvedWeapons, BuiltInOverrides, MountIncompatibilities, UnresolvedHullmods, ExcessLogistics>>
  BY DEF UnresolvedWeapons, BuiltInOverrides, MountIncompatibilities, Replacements, Compatible, UnresolvedHullmods,
         ExcessLogistics, RemoveWeapon, ReplaceWeapon, RemoveHullmod
<1>2. UNCHANGED <<UnresolvedWings, ExcessWings, FluxReductions>>
  BY DEF UnresolvedWings, ExcessWings, FlyingUpTo, FluxReductions, Above, RemoveWing
<1>3. UNCHANGED Costliest
  BY DEF Costliest, OverBudget, TotalKnown, RefitTotal, Removable, RemoveWeapon, RemoveHullmod, RemoveWing
<1>4. Wanted(k)' = Wanted(k)
  BY <1>1, <1>2, <1>3 DEF Wanted, Ordnance
<1> QED BY <1>4 DEF Idle, Absent

LEMMA SettleStep ==
    ASSUME RefitInv, RefitInv', SettleInv, [RefitNext]_refitVars
    PROVE  SettleInv'
<1> SUFFICES ASSUME mode' \in RepairModes PROVE SettleInv'
  BY DEF SettleInv
<1>1. UNCHANGED requested
  BY DEF RefitNext, ApplyFix, NextFixer, Assess, Improve, EndImprovement, Done, refitVars, requested
<1>2. mode \in RepairModes /\ step # Searching /\ fit.mods \subseteq given.mods /\ pass \in 0..3
  BY <1>1 DEF requested, SettleInv, RefitInv, RefitTypeOK
<1>3. CASE ApplyFix
  <2>1. step \in 1..Ordnance /\ UNCHANGED <<step, pass>>
    BY <1>3 DEF ApplyFix
  <2>2. step \in 1..Assessing /\ step # Assessing /\ step # Searching /\ step # Finished
    BY <2>1 DEF Ordnance, Assessing, Searching, Finished
  <2>3. PICK c \in Wanted(step) : fit' = After(c) /\ log' = Append(log, c)
    BY <1>3 DEF ApplyFix
  <2>4. BudgetLeft
    BY <1>3 DEF ApplyFix, Running
  <2>5. ship # Unknown
    <3>1. PICK code \in FixerCodes[step] : code \in codes
      BY <1>3 DEF ApplyFix, Running
    <3>2. code # "HULL_NOT_FOUND"
      BY <2>1, <3>1 DEF FixerCodes, Ordnance
    <3> QED BY <3>1, <3>2 DEF RefitInv
  <2>6. fit'.mods \subseteq given'.mods
    <3>1. Lessened(ship, fit, fit')
      BY <2>1, <2>3, <2>5, FixersLessen DEF RefitInv
    <3> QED BY <1>1, <1>2, <3>1 DEF Lessened, requested
  <2>7. pass # 0
    BY <1>2, <2>2, <2>4, <2>5 DEF SettleInv
  <2>8. Settling'
    BY <1>2, <1>3, <2>4, <2>5, <2>7, FixKeepsSettling
  <2> QED BY <2>1, <2>2, <2>6, <2>7, <2>8 DEF SettleInv
<1>4. CASE NextFixer
  <2>1. step \in 1..Ordnance /\ ~Running(step) /\ step' = step + 1 /\ UNCHANGED <<ship, locks, given, mode, fit, log, pass, codes, progress>>
    BY <1>4 DEF NextFixer, requested
  <2>2. /\ step \in 1..Assessing /\ step # Assessing
        /\ step' # Searching /\ step' # Finished /\ step' \in 1..Assessing
    BY <2>1 DEF Ordnance, Assessing, Searching, Finished
  <2>3. ASSUME BudgetLeft, ship # Unknown PROVE pass # 0 /\ Settling'
    <3>1. pass # 0 /\ Settling
      BY <1>2, <2>2, <2>3 DEF SettleInv
    <3>2. ~Called(step) \/ Idle(step)
      BY <2>1, <2>3 DEF Running, Called, Idle
    <3>3. \A k \in 1..Ordnance : (Called(k)' <=> Called(k)) /\ (Absent(k, ship, fit)' <=> Absent(k, ship, fit)) /\ (Idle(k)' <=> Idle(k))
      BY <2>1, SameFit DEF Called
    <3>4. \A k \in 1..8 : (Called(k) /\ (k < step \/ pass >= 2) => Idle(k))'
      <4> SUFFICES ASSUME NEW k \in 1..8, Called(k), k < step + 1 \/ pass >= 2 PROVE Idle(k)
        BY <2>1, <3>3 DEF Ordnance
      <4>1. k < step \/ k = step \/ pass >= 2
        BY <2>1 DEF Ordnance
      <4> QED BY <3>1, <3>2, <4>1 DEF Settling
    <3>5. (Called(Ordnance) /\ (step > Ordnance \/ pass = 3) => Idle(Ordnance))'
      <4> SUFFICES ASSUME Called(Ordnance), step + 1 > Ordnance \/ pass = 3 PROVE Idle(Ordnance)
        BY <2>1, <3>3 DEF Ordnance
      <4>1. step = Ordnance \/ pass = 3
        BY <2>1 DEF Ordnance
      <4> QED BY <3>1, <3>2, <4>1 DEF Settling
    <3>6. \A k \in 1..8 : (Called(k) \/ Absent(k, ship, fit))'
      BY <3>1, <3>3 DEF Settling, Ordnance
    <3>7. ((pass >= 2 \/ ~progress) => Called(Ordnance) \/ Absent(Ordnance, ship, fit))'
      BY <2>1, <3>1, <3>3 DEF Settling, Ordnance
    <3> QED BY <3>1, <3>4, <3>5, <3>6, <3>7 DEF Settling
  <2> QED BY <1>2, <2>1, <2>2, <2>3 DEF SettleInv, BudgetLeft
<1>5. CASE Assess
  <2>1. step = Assessing /\ UNCHANGED <<ship, locks, given, mode, fit, log>>
    BY <1>5 DEF Assess, requested
  <2>2. step \in 1..Assessing /\ step > Ordnance /\ \A k \in 1..8 : k < step
    BY <2>1 DEF Ordnance, Assessing
  <2>3. Assessing # Searching /\ Finished # Searching /\ 1 # Searching /\ Finished \notin 1..Assessing /\ 1 # Finished
    BY DEF Assessing, Searching, Finished
  <2>4. CASE PassesDone
    <3>1. step' = Finished /\ UNCHANGED <<pass, codes, progress>>
      BY <1>5, <2>4 DEF Assess
    <3>2. ASSUME BudgetLeft, ship # Unknown PROVE Settled
      <4>1. CASE Verdict(ship, fit) = "LEGAL"
        <5>1. Failures(ship, fit) = {}
          BY <4>1 DEF Verdict
        <5> QED BY <5>1 DEF Settled, Absent
      <4>2. CASE Verdict(ship, fit) # "LEGAL"
        <5>1. ~progress \/ pass = 3
          BY <2>4, <3>2, <4>2 DEF PassesDone
        <5>2. pass # 0
          BY <1>2, <2>2, <3>2, <5>1 DEF SettleInv
        <5>3. Settling
          BY <1>2, <2>2, <3>2, <5>2 DEF SettleInv
        <5>4. \A k \in 1..8 : Absent(k, ship, fit) \/ Idle(k)
          BY <2>2, <5>3 DEF Settling
        <5>5. Absent(Ordnance, ship, fit) \/ Idle(Ordnance)
          BY <2>2, <5>1, <5>3 DEF Settling
        <5> QED BY <5>4, <5>5 DEF Settled, Ordnance
      <4> QED BY <4>1, <4>2
    <3>3. Settled' <=> Settled
      BY <2>1, SameFit DEF Settled
    <3> QED BY <1>2, <2>1, <2>3, <3>1, <3>2, <3>3 DEF SettleInv, BudgetLeft
  <2>5. CASE ~PassesDone
    <3>1. step' = 1 /\ pass' = pass + 1 /\ ~progress' /\ codes' = Failures(ship, fit) /\ pass # 3
      BY <1>5, <2>5 DEF Assess, PassesDone
    <3>2. ASSUME BudgetLeft, ship # Unknown PROVE Settling'
      <4>1. pass # 0 => Settling
        BY <1>2, <2>2, <3>2 DEF SettleInv
      <4>2. \A k \in 1..Ordnance : (Called(k)' <=> ~Absent(k, ship, fit)) /\ (Absent(k, ship, fit)' <=> Absent(k, ship, fit)) /\ (Idle(k)' <=> Idle(k))
        BY <2>1, <3>1, SameFit DEF Called, Absent
      <4>3. \A k \in 1..Ordnance : (Called(k) \/ Absent(k, ship, fit))'
        BY <4>2
      <4>4. \A k \in 1..8 : (Called(k) /\ (k < step \/ pass >= 2) => Idle(k))'
        <5> SUFFICES ASSUME NEW k \in 1..8, ~Absent(k, ship, fit), k < 1 \/ pass + 1 >= 2 PROVE Idle(k)
          BY <3>1, <4>2 DEF Ordnance
        <5>1. Settling
          BY <1>2, <4>1
        <5> QED BY <2>2, <5>1 DEF Settling
      <4>5. (Called(Ordnance) /\ (step > Ordnance \/ pass = 3) => Idle(Ordnance))'
        <5> SUFFICES ASSUME ~Absent(Ordnance, ship, fit), 1 > Ordnance \/ pass + 1 = 3 PROVE Idle(Ordnance)
          BY <3>1, <4>2 DEF Ordnance
        <5>1. pass = 2
          BY <1>2 DEF Ordnance
        <5> QED BY <2>2, <4>1, <5>1 DEF Settling
      <4> QED BY <4>3, <4>4, <4>5 DEF Settling, Ordnance
    <3>3. pass' # 0 /\ step' \in 1..Assessing
      BY <1>2, <3>1 DEF Assessing
    <3> QED BY <1>2, <2>1, <2>3, <3>1, <3>2, <3>3 DEF SettleInv, BudgetLeft
  <2> QED BY <2>4, <2>5
<1>6. CASE Improve \/ EndImprovement
  BY <1>2, <1>6 DEF Improve, EndImprovement
<1>7. CASE Done \/ UNCHANGED refitVars
  <2>1. UNCHANGED <<ship, locks, given, mode, fit, log, step, pass, codes, progress>>
    BY <1>7 DEF Done, refitVars, requested
  <2>2. \A k \in 1..Ordnance : (Called(k)' <=> Called(k)) /\ (Absent(k, ship, fit)' <=> Absent(k, ship, fit)) /\ (Idle(k)' <=> Idle(k))
    BY <2>1, SameFit DEF Called
  <2>3. Settling' <=> Settling
    BY <2>1, <2>2 DEF Settling, Ordnance
  <2>4. Settled' <=> Settled
    BY <2>2 DEF Settled
  <2> QED BY <2>1, <2>3, <2>4 DEF SettleInv, BudgetLeft
<1> QED BY <1>3, <1>4, <1>5, <1>6, <1>7 DEF RefitNext

LEMMA SettleStarts == ASSUME RefitInit PROVE SettleInv
<1>1. mode \in RepairModes => step = Assessing /\ fit = given /\ pass = 0 /\ progress
  BY DEF RefitInit
<1>2. Assessing # Searching /\ Assessing # Finished
  BY DEF Assessing, Searching, Finished
<1> QED BY <1>1, <1>2 DEF SettleInv

------------------------------------------------------------------------------
\* With nothing locked, what the fixers up to the eighth leave is no failure.
Unlocked == locks = [mounts |-> {}, mods |-> {}, wings |-> {}]

LEMMA NothingLeft ==
    ASSUME NEW h \in Ships, h # Unknown, NEW f, IsCounted(f), NEW kept, kept.mounts = {}, kept.mods = {}, kept.wings = {},
           NEW k \in 1..8, Left(k, h, f, kept) = {}
    PROVE  Absent(k, h, f)
<1>1. CASE k = 1
  <2>1. Left(k, h, f, kept) = {m \in DOMAIN f.weapons : m \in DOMAIN h.mounts => f.weapons[m] \notin DOMAIN Weapon}
    BY <1>1 DEF Left
  <2> QED BY <1>1, <2>1, FailureMeans
<1>2. CASE k = 2
  <2>1. Left(k, h, f, kept) = Overridden(h, f)
    BY <1>2 DEF Left
  <2> QED BY <1>2, <2>1, FailureMeans
<1>3. CASE k = 3
  <2>1. Left(k, h, f, kept) = {m \in Checked(h, f) : ~Takes(h.mounts[m], f.weapons[m])}
    BY <1>3 DEF Left
  <2>2. \A m \in Checked(h, f) : ~TooLarge(h.mounts[m], f.weapons[m]) /\ ~Mismatch(h.mounts[m], f.weapons[m])
    BY <2>1 DEF Takes
  <2> QED BY <1>3, <2>2, FailureMeans
<1>4. CASE k = 4
  <2>1. Left(k, h, f, kept) = Charged(h, f) \ DOMAIN Hullmod
    BY <1>4 DEF Left
  <2> QED BY <1>4, <2>1, FailureMeans
<1>5. CASE k = 5
  <2> DEFINE all == LogisticsOf(h, f)
             before(y) == {z \in all : z < y}
  <2>1. Left(k, h, f, kept) = {y \in all : Cardinality(before(y)) >= MaxLogistics}
    BY <1>5 DEF Left
  <2>2. all \subseteq Nat /\ IsFiniteSet(all)
    <3>1. all \subseteq f.mods
      BY DEF LogisticsOf, Charged
    <3> HIDE DEF all
    <3> QED BY <3>1, FS_Subset DEF IsCounted
  <2>3. MaxLogistics \in Nat
    BY PartsAssumption
  <2>4. CASE all = {}
    <3>1. ~(Cardinality(all) > MaxLogistics)
      BY <2>3, <2>4, FS_EmptySet
    <3> QED BY <1>5, <3>1, FailureMeans
  <2>5. CASE all # {}
    <3> HIDE DEF all
    <3>1. PICK y \in all : \A z \in all : z <= y
      BY <2>2, <2>5, GreatestNatural
    <3>2. before(y) = all \ {y}
      <4>1. \A z \in all : z \in Nat /\ y \in Nat /\ z <= y
        BY <2>2, <3>1
      <4>2. \A z \in all : z < y <=> z # y
        BY <4>1
      <4> QED BY <4>2
    <3>3. Cardinality(before(y)) = Cardinality(all) - 1 /\ Cardinality(all) \in Nat
      <4>1. Cardinality(all \ {y}) = Cardinality(all) - 1
        BY <2>2, <3>1, FS_RemoveElement
      <4>2. Cardinality(all) \in Nat
        BY <2>2, FS_CardinalityType
      <4> QED BY <3>2, <4>1, <4>2
    <3>4. ~(Cardinality(before(y)) >= MaxLogistics)
      BY <2>1, <3>1
    <3>5. ~(Cardinality(all) > MaxLogistics)
      BY <2>3, <3>3, <3>4
    <3> QED BY <1>5, <3>5, FailureMeans DEF all
  <2> QED BY <2>4, <2>5
<1>6. CASE k = 6
  <2>1. Left(k, h, f, kept) = DOMAIN f.wings \ DOMAIN Wing
    BY <1>6 DEF Left
  <2> QED BY <1>6, <2>1, FailureMeans
<1>7. CASE k = 7
  <2> DEFINE all == DOMAIN f.wings
             upto(v) == SumFunctionOnSet(f.wings, {u \in all : u <= v})
  <2>1. Left(k, h, f, kept) = {v \in all : h.bays # Unknown /\ upto(v) > h.bays}
    BY <1>7 DEF Left
  <2>2. all \subseteq Nat /\ IsFiniteSet(all)
    BY DEF IsCounted
  <2>3. Flying(f) = SumFunctionOnSet(f.wings, all) /\ (h.bays # Unknown => h.bays \in Nat)
    BY TotalIsSum, PartsAssumption DEF Flying
  <2>4. h.bays # Unknown => ~(Flying(f) > h.bays)
    <3> HIDE DEF all
    <3>1. CASE all = {}
      BY <2>3, <3>1, SumOfNothing
    <3>2. CASE all # {}
      <4>1. PICK v \in all : \A u \in all : u <= v
        BY <2>2, <3>2, GreatestNatural
      <4>2. {u \in all : u <= v} = all
        BY <4>1
      <4>3. upto(v) = Flying(f)
        BY <2>3, <4>2
      <4> QED BY <2>1, <4>1, <4>3
    <3> QED BY <3>1, <3>2
  <2> QED BY <1>7, <2>4, FailureMeans
<1>8. CASE k = 8
  <2>1. Left(k, h, f, kept) = {n \in {1} : TooHigh(h, h.maxVents, f.vents)} \cup {n \in {2} : TooHigh(h, h.maxCaps, f.caps)}
    BY <1>8 DEF Left
  <2> QED BY <1>8, <2>1, FailureMeans
<1> QED BY <1>1, <1>2, <1>3, <1>4, <1>5, <1>6, <1>7, <1>8

\* Where every reference is resolved, the total of the validator is that of the fixer.
LEMMA TotalsAgree ==
    ASSUME ship # Unknown, Absent(1, ship, fit), Absent(4, ship, fit), Absent(6, ship, fit), OpComplete(ship, fit)
    PROVE  TotalKnown(fit) /\ RefitTotal(fit) = TotalOp(ship, fit)
<1>1. /\ \A m \in DOMAIN fit.weapons : m \in DOMAIN ship.mounts /\ fit.weapons[m] \in DOMAIN Weapon
      /\ Charged(ship, fit) \subseteq DOMAIN Hullmod /\ DOMAIN fit.wings \subseteq DOMAIN Wing
  BY FailureMeans
<1>2. Found(ship, fit) = DOMAIN fit.weapons
  BY <1>1 DEF Found
<1>3. Charged(ship, fit) \cap DOMAIN Hullmod = Charged(ship, fit) /\ DOMAIN fit.wings \cap DOMAIN Wing = DOMAIN fit.wings
  BY <1>1
<1>4. TotalKnown(fit)
  BY <1>1, <1>2, <1>3 DEF TotalKnown, OpComplete
<1>5. RefitTotal(fit) = TotalOp(ship, fit)
  BY <1>2, <1>3 DEF RefitTotal, TotalOp
<1> QED BY <1>4, <1>5

\* What can go has a most expensive first.
LEMMA SomethingCanGo ==
    ASSUME IsCounted(fit), TotalKnown(fit), Removable # {}
    PROVE  {q \in Removable : \A r \in Removable \ {q} : GoesBefore(q, r)} # {}
<1> DEFINE mounts == {n \in DOMAIN fit.weapons \ locks.mounts : n \in DOMAIN ship.mounts => ship.mounts[n].fixed = Unknown}
           mods == Charged(ship, fit) \ locks.mods
           wings == DOMAIN fit.wings \ locks.wings
           A == {Priced(Weapon[fit.weapons[m]].op, 3, RemoveWeapon(m)) : m \in mounts}
           B == {Priced(ModCost(ship, x), 2, RemoveHullmod(x)) : x \in mods}
           C == {Priced(Wing[w].op, 1, RemoveWing(w)) : w \in wings}
<1>1. Removable = A \cup B \cup C
  BY DEF Removable
<1>2. IsFiniteSet(mounts) /\ IsFiniteSet(mods) /\ IsFiniteSet(wings)
  <2>1. mounts \subseteq DOMAIN fit.weapons /\ mods \subseteq fit.mods /\ wings \subseteq DOMAIN fit.wings
    BY DEF Charged
  <2> HIDE DEF mounts, mods, wings
  <2> QED BY <2>1, FS_Subset DEF IsCounted
<1>3. IsFiniteSet(Removable)
  <2> HIDE DEF mounts, mods, wings
  <2> DEFINE a == [m \in mounts |-> Priced(Weapon[fit.weapons[m]].op, 3, RemoveWeapon(m))]
             b == [x \in mods |-> Priced(ModCost(ship, x), 2, RemoveHullmod(x))]
             c == [w \in wings |-> Priced(Wing[w].op, 1, RemoveWing(w))]
  <2>1. IsFiniteSet(A)
    <3>1. A = {a[m] : m \in mounts}
      OBVIOUS
    <3> HIDE DEF A, a
    <3> QED BY <1>2, <3>1, ImageIsFinite
  <2>2. IsFiniteSet(B)
    <3>1. B = {b[x] : x \in mods}
      OBVIOUS
    <3> HIDE DEF B, b
    <3> QED BY <1>2, <3>1, ImageIsFinite
  <2>3. IsFiniteSet(C)
    <3>1. C = {c[w] : w \in wings}
      OBVIOUS
    <3> HIDE DEF C, c
    <3> QED BY <1>2, <3>1, ImageIsFinite
  <2> HIDE DEF A, B, C
  <2> QED BY <1>1, <2>1, <2>2, <2>3, FS_Union
<1>4. \A p \in Removable : p.op \in Nat /\ p.kind \in 1..3 /\ p.change.target \in Nat
  <2>1. ASSUME NEW m \in mounts
        PROVE  Weapon[fit.weapons[m]].op \in Nat /\ m \in Nat
    BY PartsAssumption DEF TotalKnown, IsCounted
  <2>2. ASSUME NEW x \in mods PROVE ModCost(ship, x) \in Nat /\ x \in Nat
    <3>1. x \in DOMAIN Hullmod /\ ModCost(ship, x) # Unknown /\ x \in fit.mods
      BY DEF TotalKnown, Charged
    <3>2. ship.size \in DOMAIN Hullmod[x].op /\ ModCost(ship, x) = Hullmod[x].op[ship.size]
      BY <3>1 DEF ModCost
    <3> QED BY <3>1, <3>2, PartsAssumption DEF IsCounted
  <2>3. ASSUME NEW w \in wings PROVE Wing[w].op \in Nat /\ w \in Nat
    BY PartsAssumption DEF TotalKnown, IsCounted
  <2>4. \A op, kind, x : /\ Priced(op, kind, RemoveWeapon(x)).op = op /\ Priced(op, kind, RemoveWeapon(x)).kind = kind
                         /\ Priced(op, kind, RemoveWeapon(x)).change.target = x
    BY DEF Priced, RemoveWeapon, Change
  <2>5. \A op, kind, x : /\ Priced(op, kind, RemoveHullmod(x)).op = op /\ Priced(op, kind, RemoveHullmod(x)).kind = kind
                         /\ Priced(op, kind, RemoveHullmod(x)).change.target = x
    BY DEF Priced, RemoveHullmod, Change
  <2>6. \A op, kind, x : /\ Priced(op, kind, RemoveWing(x)).op = op /\ Priced(op, kind, RemoveWing(x)).kind = kind
                         /\ Priced(op, kind, RemoveWing(x)).change.target = x
    BY DEF Priced, RemoveWing, Change
  <2> HIDE DEF mounts, mods, wings
  <2>7. ASSUME NEW p \in A PROVE p.op \in Nat /\ p.kind \in 1..3 /\ p.change.target \in Nat
    BY <2>1, <2>4
  <2>8. ASSUME NEW p \in B PROVE p.op \in Nat /\ p.kind \in 1..3 /\ p.change.target \in Nat
    BY <2>2, <2>5
  <2>9. ASSUME NEW p \in C PROVE p.op \in Nat /\ p.kind \in 1..3 /\ p.change.target \in Nat
    BY <2>3, <2>6
  <2> HIDE DEF A, B, C
  <2> QED BY <1>1, <2>7, <2>8, <2>9
<1>5. \A p, q \in Removable : p.op = q.op /\ p.kind = q.kind /\ p.change.target = q.change.target => p = q
  <2>1. ASSUME NEW p \in Removable
        PROVE  p = Priced(p.op, p.kind, CASE p.kind = 3 -> RemoveWeapon(p.change.target)
                                          [] p.kind = 2 -> RemoveHullmod(p.change.target)
                                          [] p.kind = 1 -> RemoveWing(p.change.target))
    <3>1. CASE p \in A
      BY <3>1 DEF Priced, RemoveWeapon, Change
    <3>2. CASE p \in B
      BY <3>2 DEF Priced, RemoveHullmod, Change
    <3>3. CASE p \in C
      BY <3>3 DEF Priced, RemoveWing, Change
    <3> HIDE DEF A, B, C
    <3> QED BY <1>1, <3>1, <3>2, <3>3
  <2> QED BY <2>1
<1> DEFINE Before == {pair \in Removable \X Removable : GoesBefore(pair[1], pair[2])}
<1>6. OrdersAll(Before, Removable)
  <2> HIDE DEF A, B, C
  <2>1. \A p, q \in Removable : <<p, q>> \in Before <=> GoesBefore(p, q)
    OBVIOUS
  <2> HIDE DEF Before
  <2>2. ASSUME NEW p \in Removable, NEW q \in Removable, p # q PROVE GoesBefore(p, q) \/ GoesBefore(q, p)
    BY <1>4, <1>5, <2>2 DEF GoesBefore
  <2>3. ASSUME NEW p \in Removable, NEW q \in Removable, NEW r \in Removable, GoesBefore(p, q), GoesBefore(q, r)
        PROVE  GoesBefore(p, r)
    BY <1>4, <2>3 DEF GoesBefore
  <2> QED BY <2>1, <2>2, <2>3 DEF OrdersAll
<1>7. \E x \in Removable : \A y \in Removable \ {x} : <<x, y>> \in Before
  <2> HIDE DEF A, B, C, Before
  <2> QED BY <1>3, <1>6, FirstInOrder
<1> QED BY <1>7

LEMMA SettledSucceeds ==
    ASSUME RefitTypeOK, SettleInv PROVE RepairSettles
<1> SUFFICES ASSUME step = Finished, mode \in RepairModes, BudgetLeft PROVE RepairSettles
  BY DEF RepairSettles, UnlockedRepairSucceeds
<1>1. CASE ship = Unknown
  <2>1. Failures(ship, fit) = {"HULL_NOT_FOUND"}
    BY <1>1 DEF Failures
  <2>2. \A k \in 1..Ordnance : "HULL_NOT_FOUND" \notin FixerCodes[k]
    BY DEF FixerCodes, Ordnance
  <2> QED BY <1>1, <2>1, <2>2 DEF RepairSettles, UnlockedRepairSucceeds
<1>2. CASE ship # Unknown
  <2>1. Settled /\ fit.mods \subseteq given.mods
    BY <1>2 DEF SettleInv
  <2>2. \A k \in 1..Ordnance : FixerCodes[k] \cap Failures(ship, fit) # {} => Wanted(k) = {}
    BY <2>1 DEF Settled, Absent, Idle
  <2>3. UnlockedRepairSucceeds
    <3> SUFFICES ASSUME locks = [mounts |-> {}, mods |-> {}, wings |-> {}]
                 PROVE  /\ Failures(ship, fit) \subseteq {"OP_EXCEEDED", "HULLMOD_INCOMPATIBLE"}
                        /\ "OP_EXCEEDED" \in Failures(ship, fit) => Removable = {}
      BY DEF UnlockedRepairSucceeds
    <3>1. IsCounted(fit) /\ ship \in Ships
      BY <2>1, RepairedIsCounted DEF RefitTypeOK
    <3>2. \A k \in 1..8 : Absent(k, ship, fit)
      <4> SUFFICES ASSUME NEW k \in 1..8, ~Absent(k, ship, fit) PROVE FALSE
        OBVIOUS
      <4>1. Idle(k)
        BY <2>1 DEF Settled, Ordnance
      <4>2. Left(k, ship, fit, locks) = {}
        BY <1>2, <3>1, <4>1, IdleMeans
      <4> QED BY <1>2, <3>1, <4>2, NothingLeft
    <3>3. Failures(ship, fit) \subseteq {"OP_EXCEEDED", "HULLMOD_INCOMPATIBLE"}
      <4>1. Failures(ship, fit) \subseteq AllCodes /\ "HULL_NOT_FOUND" \notin Failures(ship, fit)
        BY <1>2, CodesOfFailures DEF Failures
      <4>2. AllCodes = {"HULL_NOT_FOUND", "HULLMOD_INCOMPATIBLE"} \cup UNION {FixerCodes[k] : k \in 1..9}
        BY DEF AllCodes, Ordnance
      <4>3. FixerCodes[9] = {"OP_EXCEEDED"}
        BY DEF FixerCodes
      <4>4. ASSUME NEW code \in Failures(ship, fit), NEW k \in 1..9, code \in FixerCodes[k] PROVE k = 9
        BY <3>2, <4>4 DEF Absent
      <4> QED BY <4>1, <4>2, <4>3, <4>4
    <3>4. ASSUME "OP_EXCEEDED" \in Failures(ship, fit) PROVE Removable = {}
      <4>1. ~Absent(9, ship, fit)
        BY <3>4 DEF Absent, FixerCodes
      <4>2. ship.op # Unknown /\ OpComplete(ship, fit) /\ TotalOp(ship, fit) > ship.op
        BY <1>2, <4>1, FailureMeans
      <4>3. OverBudget
        BY <1>2, <3>2, <4>2, TotalsAgree DEF OverBudget
      <4>4. Costliest = {}
        BY <2>1, <4>1 DEF Settled, Ordnance, Idle, Wanted
      <4>5. {q \in Removable : \A r \in Removable \ {q} : GoesBefore(q, r)} = {}
        BY <4>3, <4>4 DEF Costliest
      <4> QED BY <3>1, <4>3, <4>5, SomethingCanGo DEF OverBudget
    <3> QED BY <3>3, <3>4
  <2> QED BY <2>2, <2>3 DEF RepairSettles
<1> QED BY <1>1, <1>2

(* Three passes are enough, whatever is locked: a repair that returns with *)
(* changes to spare leaves no failure that its fixer could still do        *)
(* something about; and one that was free to change anything leaves only   *)
(* what it has no fixer for.                                               *)
THEOREM RepairsSettle == RefitSpec => []RepairSettles
<1>1. RefitInit => SettleInv
  BY SettleStarts
<1>2. RefitInv /\ RefitInv' /\ SettleInv /\ [RefitNext]_refitVars => SettleInv'
  BY SettleStep
<1>3. RefitInv /\ SettleInv => RepairSettles
  BY SettledSucceeds DEF RefitInv
<1> QED BY <1>1, <1>2, <1>3, RefitInvariant, PTL DEF RefitSpec
===============================================================================
