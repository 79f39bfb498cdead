--------------------------------- MODULE Refit ---------------------------------
(***************************************************************************)
(* The refit assistant (generation/refit.py).  fix_legality repairs a fit  *)
(* in up to three passes over nine fixers, each of which is run when the   *)
(* pass began with a failure of its kind; improve_quality takes the best   *)
(* single change again and again.  Both leave locked parts alone and stop  *)
(* at a number of changes.  Mounts, weapons, hullmods and wings are        *)
(* numbers in the alphabetical order of their ids.                         *)
(***************************************************************************)
EXTENDS Legality, Sequences

CONSTANTS
    Id,                      \* the ids that a fit may name
    Ships, Fits, LockSets,   \* what a refit may be asked for
    MaxChanges,              \* refit_max_changes
    MinGain,                 \* refit_min_quality_gain
    Metric(_, _, _),         \* score_candidate: a component of a legal fit's score
    InRange(_),              \* the weapon meets the profile's range condition
    RoleSignal               \* the profile has a range condition

IsFit(f) ==
    /\ f = [weapons |-> f.weapons, mods |-> f.mods, wings |-> f.wings, vents |-> f.vents, caps |-> f.caps]
    /\ f.weapons \in [DOMAIN f.weapons -> Id]
    /\ f.mods \subseteq Id
    /\ f.wings \in [DOMAIN f.wings -> Nat \ {0}]
    /\ f.vents \in Nat /\ f.caps \in Nat

\* What is fitted is counted and indexed parts have ids.
ASSUME RefitAssumption ==
    /\ MaxChanges \in Nat /\ MinGain \in Nat \ {0} /\ RoleSignal \in BOOLEAN
    /\ \A f \in Fits : IsFit(f)
    /\ DOMAIN Weapon \subseteq Id /\ DOMAIN Hullmod \subseteq Id
    /\ \A h \in Ships \ {Unknown} : {h.maxVents, h.maxCaps} \subseteq Nat \cup {Unknown}

\* A fit names finitely many parts; costs, bays and limits are counted.
ASSUME PartsAssumption ==
    /\ MaxLogistics \in Nat
    /\ \A f \in Fits : \A parts \in {DOMAIN f.weapons, f.mods, DOMAIN f.wings} : IsFiniteSet(parts) /\ parts \subseteq Nat
    /\ \A h \in Ships \ {Unknown} : {h.bays, h.op, h.unit} \subseteq Nat \cup {Unknown}
    /\ \A w \in DOMAIN Weapon : Weapon[w].op \in Nat \cup {Unknown}
    /\ \A x \in DOMAIN Hullmod : \A size \in DOMAIN Hullmod[x].op : Hullmod[x].op[size] \in Nat \cup {Unknown}
    /\ \A w \in DOMAIN Wing : Wing[w].op \in Nat \cup {Unknown}

VARIABLES
    ship, given, locks, mode,   \* the request
    fit,                        \* current
    log,                        \* changes
    pass, codes, progress,      \* the pass, codes_present, made_progress
    step,                       \* the fixer that is running, or one of the below
    rebuild                     \* rebuild_recommended of a quality refit

requested == <<ship, given, locks, mode>>
refitVars  == <<ship, given, locks, mode, fit, log, pass, codes, progress, step, rebuild>>

Ordnance  == 9      \* the last fixer
Assessing == 10
Searching == 11
Finished  == 12

RepairModes  == {"cheapest", "exact", "starsector_style", "adaptive"}
QualityModes == {"BALANCED_IMPROVEMENT", "REDUCE_FLUX", "IMPROVE_ROLE_MATCH", "IMPROVE_LOGISTICS"}

Change(kind, target, old, new) == [kind |-> kind, target |-> target, old |-> old, new |-> new]
RemoveWeapon(m)          == Change("WEAPON_REMOVED", m, fit.weapons[m], Unknown)
ReplaceWeaponByNew(m, w) == Change("WEAPON_REPLACED", m, w, w)     \* (Bug: old is read late.)
ReplaceWeapon(m, w)      == Change("WEAPON_REPLACED", m, fit.weapons[m], w)
RemoveHullmod(x)         == Change("HULLMOD_REMOVED", x, x, Unknown)
InstallHullmod(x)            == Change("HULLMOD_ADDED", x, Unknown, x)
RemoveWing(w)            == Change("FIGHTER_REMOVED", w, w, Unknown)

First(S) == {x \in S : \A y \in S : x <= y}
Without(f, x) == [y \in DOMAIN f \ {x} |-> f[y]]
Fewer(f, w)   == IF f[w] = 1 THEN Without(f, w) ELSE [f EXCEPT ![w] = @ - 1]
Copies(f, w)  == IF w \in DOMAIN f.wings THEN f.wings[w] ELSE 0

------------------------------------------------------------------------------
\* The nine fixers: the changes each would make next.
UnresolvedWeapons ==
    {RemoveWeapon(m) : m \in {n \in DOMAIN fit.weapons \ locks.mounts :
        n \in DOMAIN ship.mounts => fit.weapons[n] \notin DOMAIN Weapon}}

BuiltInOverrides == {RemoveWeapon(m) : m \in Overridden(ship, fit) \ locks.mounts}

Compatible(m) == {w \in DOMAIN Weapon : Weapon[w].op # Unknown /\ Takes(ship.mounts[m], w)}

\* Which of them is taken: the cheapest, none, or the best by scores that are
\* floats (any of them here).
Replacements(m) ==
    CASE mode = "exact"    -> {}
      [] mode = "cheapest" ->
            {w \in Compatible(m) : \A v \in Compatible(m) \ {w} :
                \/ Weapon[w].op < Weapon[v].op
                \/ Weapon[w].op = Weapon[v].op /\ w < v}
      [] OTHER             -> Compatible(m)

\* Also weapons whose compatibility is merely unknown.
MountIncompatibilities ==
    UNION {IF Replacements(m) = {} THEN {RemoveWeapon(m)}
           ELSE {ReplaceWeapon(m, w) : w \in Replacements(m)} :
              m \in {n \in Checked(ship, fit) \ locks.mounts : ~Takes(ship.mounts[n], fit.weapons[n])}}

UnresolvedHullmods == {RemoveHullmod(x) : x \in Charged(ship, fit) \ (locks.mods \cup DOMAIN Hullmod)}

\* The ids past the first MaxLogistics, or past the bays, that are not locked.
\* (Bug: a locked wing is removed.)
ExcessLogistics ==
    {RemoveHullmod(x) : x \in First({y \in LogisticsOf(ship, fit) \ locks.mods :
        Cardinality({z \in LogisticsOf(ship, fit) : z < y}) >= MaxLogistics})}

UnresolvedWings == {RemoveWing(w) : w \in DOMAIN fit.wings \ (locks.wings \cup DOMAIN Wing)}

FlyingUpTo(w) == SumFunctionOnSet(fit.wings, {v \in DOMAIN fit.wings : v <= w})
ExcessWingsIgnoringLocks ==
    {RemoveWing(w) : w \in First({v \in DOMAIN fit.wings : ship.bays # Unknown /\ FlyingUpTo(v) > ship.bays})}
ExcessWings ==
    {RemoveWing(w) : w \in First({v \in DOMAIN fit.wings \ locks.wings :
        ship.bays # Unknown /\ FlyingUpTo(v) > ship.bays})}

\* Vents are looked at first.
Above(most, n) == ship.unit # Unknown /\ most # Unknown /\ n > most
FluxReductions ==
    CASE Above(ship.maxVents, fit.vents) ->
            {Change("VENTS_REDUCED", "flux_vents", fit.vents, ship.maxVents)}
      [] Above(ship.maxCaps, fit.caps) /\ ~Above(ship.maxVents, fit.vents) ->
            {Change("CAPACITORS_REDUCED", "flux_capacitors", fit.caps, ship.maxCaps)}
      [] OTHER -> {}

\* _total_op: every reference must be resolved, the validator's total need not.
TotalKnown(f) ==
    /\ \A m \in DOMAIN f.weapons : f.weapons[m] \in DOMAIN Weapon /\ Weapon[f.weapons[m]].op # Unknown
    /\ \A x \in Charged(ship, f) : x \in DOMAIN Hullmod /\ ModCost(ship, x) # Unknown
    /\ \A w \in DOMAIN f.wings : w \in DOMAIN Wing /\ Wing[w].op # Unknown
    /\ Flux(f) > 0 => ship.unit # Unknown
RefitTotal(f) ==
      SumFunction([m \in DOMAIN f.weapons |-> Weapon[f.weapons[m]].op])
    + SumFunction([x \in Charged(ship, f) |-> ModCost(ship, x)])
    + SumFunction([w \in DOMAIN f.wings |-> f.wings[w] * Wing[w].op])
    + IF Flux(f) > 0 THEN Flux(f) * ship.unit ELSE 0

\* What could go, with its points; kinds are sorted by their names.
Priced(op, kind, change) == [op |-> op, kind |-> kind, change |-> change]
Removable ==
    {Priced(Weapon[fit.weapons[m]].op, 3, RemoveWeapon(m)) :
        m \in {n \in DOMAIN fit.weapons \ locks.mounts : n \in DOMAIN ship.mounts => ship.mounts[n].fixed = Unknown}}
    \cup {Priced(ModCost(ship, x), 2, RemoveHullmod(x)) : x \in Charged(ship, fit) \ locks.mods}
    \cup {Priced(Wing[w].op, 1, RemoveWing(w)) : w \in DOMAIN fit.wings \ locks.wings}

GoesBefore(a, b) ==
    \/ a.op > b.op
    \/ a.op = b.op /\ a.kind < b.kind
    \/ a.op = b.op /\ a.kind = b.kind /\ a.change.target < b.change.target

OverBudget == ship.op # Unknown /\ TotalKnown(fit) /\ RefitTotal(fit) > ship.op
Costliest ==
    IF ~OverBudget THEN {}
    ELSE {p.change : p \in {q \in Removable : \A r \in Removable \ {q} : GoesBefore(q, r)}}

------------------------------------------------------------------------------
FixerCodes ==
    << {"MOUNT_NOT_FOUND", "WEAPON_NOT_FOUND"}, {"BUILT_IN_WEAPON_OVERRIDDEN"},
       {"WEAPON_TOO_LARGE", "MOUNT_TYPE_MISMATCH"}, {"HULLMOD_NOT_FOUND"},
       {"LOGISTICS_HULLMOD_LIMIT_EXCEEDED"}, {"FIGHTER_WING_NOT_FOUND"},
       {"FIGHTER_BAY_CAPACITY_EXCEEDED"},
       {"FLUX_VENTS_EXCEED_HULL_MAXIMUM", "FLUX_CAPACITORS_EXCEED_HULL_MAXIMUM"}, {"OP_EXCEEDED"} >>

Wanted(k) ==
    CASE k = 1 -> UnresolvedWeapons  [] k = 2 -> BuiltInOverrides [] k = 3 -> MountIncompatibilities
      [] k = 4 -> UnresolvedHullmods [] k = 5 -> ExcessLogistics  [] k = 6 -> UnresolvedWings
      [] k = 7 -> ExcessWings        [] k = 8 -> FluxReductions   [] k = Ordnance -> Costliest

\* The ordnance fixer drops a wing from every bay, the others one copy.
After(c) ==
    CASE c.kind = "WEAPON_REMOVED"     -> [fit EXCEPT !.weapons = Without(@, c.target)]
      [] c.kind = "WEAPON_REPLACED"    -> [fit EXCEPT !.weapons[c.target] = c.new]
      [] c.kind = "HULLMOD_REMOVED"    -> [fit EXCEPT !.mods = @ \ {c.target}]
      [] c.kind = "HULLMOD_ADDED"      -> [fit EXCEPT !.mods = @ \cup {c.target}]
      [] c.kind = "FIGHTER_REMOVED"    ->
            [fit EXCEPT !.wings = IF step = Ordnance THEN Without(@, c.target) ELSE Fewer(@, c.target)]
      [] c.kind = "VENTS_REDUCED"      -> [fit EXCEPT !.vents = c.new]
      [] c.kind = "CAPACITORS_REDUCED" -> [fit EXCEPT !.caps = c.new]

\* One round through the fixers; the codes are those the pass began with.
BudgetLeft == Len(log) < MaxChanges
Running(k) == FixerCodes[k] \cap codes # {} /\ BudgetLeft /\ Wanted(k) # {}

ApplyFix ==
    /\ step \in 1..Ordnance /\ Running(step)
    /\ \E c \in Wanted(step) :
         /\ fit' = After(c)
         /\ log' = Append(log, c)
    /\ progress' = TRUE
    /\ UNCHANGED <<requested, pass, codes, step, rebuild>>

NextFixer ==
    /\ step \in 1..Ordnance /\ ~Running(step)
    /\ step' = step + 1
    /\ UNCHANGED <<requested, fit, log, pass, codes, progress, rebuild>>

\* (Bug: one pass and no more.)
OnePass    == Verdict(ship, fit) = "LEGAL" \/ ~BudgetLeft \/ ~progress \/ pass = 1
PassesDone == Verdict(ship, fit) = "LEGAL" \/ ~BudgetLeft \/ ~progress \/ pass = 3

Assess ==
    /\ step = Assessing
    /\ IF PassesDone
       THEN step' = Finished /\ UNCHANGED <<pass, codes, progress>>
       ELSE /\ step' = 1 /\ pass' = pass + 1 /\ progress' = FALSE
            /\ codes' = Failures(ship, fit)
    /\ UNCHANGED <<requested, fit, log, rebuild>>

------------------------------------------------------------------------------
\* improve_quality.  A metric is that of a legal fit, or Unknown.
MetricName ==
    CASE mode = "BALANCED_IMPROVEMENT" -> "final_score"
      [] mode = "REDUCE_FLUX"          -> "flux_sustainability"
      [] mode = "IMPROVE_ROLE_MATCH"   -> "role_match"
      [] mode = "IMPROVE_LOGISTICS"    -> "civilian_efficiency"

\* Without a logistics hullmod there is no efficiency: a start from nothing.
Quality(f) ==
    LET metric == Metric(MetricName, ship, f)
    IN  IF metric = Unknown /\ mode = "IMPROVE_LOGISTICS" THEN 0 ELSE metric

Scoreable ==
    /\ Verdict(ship, given) = "LEGAL"
    /\ mode = "IMPROVE_LOGISTICS" => ship.civilian
    /\ Quality(given) # Unknown

NewHullmods(S) == (S \cap DOMAIN Hullmod) \ (fit.mods \cup locks.mods)
Swaps ==
    UNION {{ReplaceWeapon(m, w) : w \in Compatible(m) \ {fit.weapons[m]}} :
              m \in {n \in (DOMAIN fit.weapons \cap DOMAIN ship.mounts) \ locks.mounts : ship.mounts[n].fixed = Unknown}}

Moves ==
    CASE mode = "IMPROVE_LOGISTICS"    -> {InstallHullmod(x) : x \in NewHullmods(ship.logistics)}
      [] mode = "BALANCED_IMPROVEMENT" -> {InstallHullmod(x) : x \in NewHullmods(ship.defense)} \cup Swaps
      [] OTHER                         -> Swaps

RoleProgress(f) == Cardinality({m \in DOMAIN f.weapons : InRange(f.weapons[m])})
ByRole == mode = "IMPROVE_ROLE_MATCH" /\ RoleSignal /\ DOMAIN fit.weapons # {}

Preserving(f) ==
    mode = "REDUCE_FLUX" =>
      \A name \in {"role_match", "range_coherence"} : Metric(name, ship, f) >= Metric(name, ship, fit)

\* (Bug: the validator is not asked.)
WorthwhileUnchecked ==
    {c \in Moves : LET f == After(c) IN
        /\ Metric(MetricName, ship, f) # Unknown
        /\ Preserving(f)
        /\ IF ByRole THEN RoleProgress(f) > RoleProgress(fit) ELSE Quality(f) - Quality(fit) >= MinGain}
Worthwhile ==
    {c \in Moves : LET f == After(c) IN
        /\ Verdict(ship, f) = "LEGAL"
        /\ Metric(MetricName, ship, f) # Unknown
        /\ Preserving(f)
        /\ IF ByRole THEN RoleProgress(f) > RoleProgress(fit) ELSE Quality(f) - Quality(fit) >= MinGain}

\* refit_cost_hullmod_change and refit_cost_weapon_change, in halves.
Cost(c) == IF c.kind = "HULLMOD_ADDED" THEN 3 ELSE 2

\* c is chosen over d: the best gain for its cost, in the role mode the most
\* weapons in range, then the score, then the later mount and weapon.
AtLeast(c, d) ==
    LET f == After(c)  g == After(d)
        a == <<RoleProgress(f), Metric("final_score", ship, f), c.target, c.new>>
        b == <<RoleProgress(g), Metric("final_score", ship, g), d.target, d.new>>
    IN  IF ByRole THEN a = b \/ \E i \in DOMAIN a : a[i] > b[i] /\ \A j \in 1..(i - 1) : a[j] = b[j]
        ELSE (Quality(f) - Quality(fit)) * Cost(d) >= (Quality(g) - Quality(fit)) * Cost(c)

Improve ==
    /\ step = Searching /\ BudgetLeft
    /\ \E c \in Worthwhile :
         /\ \A d \in Worthwhile : AtLeast(c, d)
         /\ fit' = After(c)
         /\ log' = Append(log, c)
    /\ UNCHANGED <<requested, pass, codes, progress, step, rebuild>>

\* A role refit that moved weapons but not the metric is no improvement.
Fruitless == mode = "IMPROVE_ROLE_MATCH" /\ log # <<>> /\ Quality(fit) - Quality(given) < MinGain

EndImprovement ==
    /\ step = Searching /\ (BudgetLeft => Worthwhile = {})
    /\ rebuild' = (~BudgetLeft \/ Fruitless)
    /\ step' = Finished
    /\ UNCHANGED <<requested, fit, log, pass, codes, progress>>

Done == step = Finished /\ UNCHANGED refitVars

RefitInit ==
    /\ ship \in Ships /\ given \in Fits /\ locks \in LockSets
    /\ mode \in RepairModes \cup QualityModes
    /\ fit = given /\ log = <<>> /\ rebuild = FALSE
    /\ pass = 0 /\ codes = {} /\ progress = TRUE
    /\ step = IF mode \in RepairModes THEN Assessing ELSE IF Scoreable THEN Searching ELSE Finished

RefitNext == ApplyFix \/ NextFixer \/ Assess \/ Improve \/ EndImprovement \/ Done

RefitSpec == RefitInit /\ [][RefitNext]_refitVars

------------------------------------------------------------------------------
AllCodes == {"HULL_NOT_FOUND", "HULLMOD_INCOMPATIBLE"} \cup UNION {FixerCodes[k] : k \in 1..Ordnance}

(* Types: a refit fills no mount and flies no wing that the given fit did  *)
(* not, and makes at most MaxChanges changes.                              *)
RefitTypeOK ==
    /\ ship \in Ships /\ given \in Fits /\ locks \in LockSets
    /\ mode \in RepairModes \cup QualityModes
    /\ IsFit(fit)
    /\ DOMAIN fit.weapons \subseteq DOMAIN given.weapons
    /\ DOMAIN fit.wings \subseteq DOMAIN given.wings
    /\ \A w \in DOMAIN fit.wings : fit.wings[w] <= given.wings[w]
    /\ fit.vents <= given.vents /\ fit.caps <= given.caps
    /\ Len(log) <= MaxChanges
    /\ pass \in 0..3 /\ codes \subseteq AllCodes
    /\ progress \in BOOLEAN /\ rebuild \in BOOLEAN
    /\ step \in 1..Finished

(* "a locked item is never touched, even if that leaves the variant unable *)
(* to reach LEGAL": by no fixer and by no improvement.                     *)
Mounted(f, m) == IF m \in DOMAIN f.weapons THEN f.weapons[m] ELSE Unknown
LocksKept ==
    /\ \A m \in locks.mounts : Mounted(fit, m) = Mounted(given, m)
    /\ locks.mods \cap fit.mods = locks.mods \cap given.mods
    /\ \A w \in locks.wings : Copies(fit, w) = Copies(given, w)

(* With nothing locked and changes to spare, the repair of a fit whose     *)
(* hull is indexed leaves only what it has no fixer for: exclusive         *)
(* hullmods, and a total of built-in parts, vents and capacitors alone.    *)
UnlockedRepairSucceeds ==
    /\ step = Finished /\ mode \in RepairModes /\ BudgetLeft
    /\ locks = [mounts |-> {}, mods |-> {}, wings |-> {}]
    /\ ship # Unknown
    => /\ Failures(ship, fit) \subseteq {"OP_EXCEEDED", "HULLMOD_INCOMPATIBLE"}
       /\ "OP_EXCEEDED" \in Failures(ship, fit) => Removable = {}

(* Three passes are enough: a repair that returns with changes to spare    *)
(* leaves no failure that the fixer for it could still do something about  *)
(* (a replacement may cost more, a removal may make the total known, so    *)
(* that a failure appears which the pass did not begin with); one that was *)
(* free to change anything succeeds.                                       *)
RepairSettles ==
    /\ step = Finished /\ mode \in RepairModes /\ BudgetLeft =>
         \A k \in 1..Ordnance : FixerCodes[k] \cap Failures(ship, fit) # {} => Wanted(k) = {}
    /\ UnlockedRepairSucceeds

(* What the user is shown explains the fit: the changes, applied in order  *)
(* to the given fit, account for every weapon (each starting from what the *)
(* one before left), every hullmod and every wing that is gone.            *)
Weaponry == {"WEAPON_REMOVED", "WEAPON_REPLACED"}
Earlier(i) == {j \in 1..(i - 1) : log[j].kind \in Weaponry /\ log[j].target = log[i].target}
Logged(kind, x) == \E i \in DOMAIN log : log[i].kind = kind /\ log[i].target = x
ChangesExplainFit ==
    /\ \A m \in DOMAIN given.weapons :
         Mounted(fit, m) # given.weapons[m] =>
           \E i \in DOMAIN log : log[i].kind \in Weaponry /\ log[i].target = m /\ log[i].new = Mounted(fit, m)
    /\ \A i \in DOMAIN log : log[i].kind \in Weaponry =>
         log[i].old = IF Earlier(i) = {} THEN given.weapons[log[i].target] ELSE log[Max(Earlier(i))].new
    /\ \A x \in given.mods \cup fit.mods :
         x \in fit.mods <=> (x \in given.mods /\ ~Logged("HULLMOD_REMOVED", x)) \/ Logged("HULLMOD_ADDED", x)
    /\ \A w \in DOMAIN given.wings :
         Copies(fit, w) < given.wings[w] <=> Logged("FIGHTER_REMOVED", w)

(* "quality search can never trade away legality for a better score", and  *)
(* over all its changes it gained what each had to gain; reducing flux     *)
(* never costs role or range.                                              *)
ImprovementHolds ==
    mode \in QualityModes /\ log # <<>> =>
      /\ Verdict(ship, fit) = "LEGAL"
      /\ IF ByRole THEN RoleProgress(fit) >= RoleProgress(given) + Len(log)
         ELSE Quality(fit) >= Quality(given) + Len(log) * MinGain
      /\ mode = "REDUCE_FLUX" => \A name \in {"role_match", "range_coherence"} :
           Metric(name, ship, fit) >= Metric(name, ship, given)

(* _fix_op_exceeded: it re-checks "after every removal so this never       *)
(* removes more than necessary": with one copy less removed, the fit would *)
(* still be over the budget.                                               *)
NoMoreThanNecessary ==
    [][step = Ordnance => \A w \in DOMAIN fit.wings :
          Copies(fit', w) < Copies(fit, w) => RefitTotal(fit') + Wing[w].op > ship.op]_refitVars
===============================================================================
