---------------------------- MODULE CandidateSearch ----------------------------
(***************************************************************************)
(* The bounded search for fits of one hull (generation/candidate.py).  A   *)
(* fit is built greedily: mount by mount in the order of their ids, then   *)
(* hullmods, then wings, then vents and capacitors, each from what is left *)
(* of the ordnance points.  Alternatives ask one mount for its next-ranked *)
(* weapon; several build paths are searched one after another and merged   *)
(* round by round.  Mounts, weapons, hullmods and wings are numbers in the *)
(* alphabetical order of their ids.                                        *)
(***************************************************************************)
EXTENDS Legality, Sequences

CONSTANTS
    Hulls,          \* the hulls a request may be about
    Requests,       \* the requests
    MaxHullmods     \* select_hullmods(max_hullmods)

\* Costs are counted in points, mounts are numbered from one, and a request
\* names what is indexed and asks for something.
ASSUME SearchAssumption ==
    /\ IsFiniteSet(DOMAIN Weapon) /\ DOMAIN Weapon \subseteq Int
    /\ \A w \in DOMAIN Weapon :
         Weapon[w].op \in Nat \cup {Unknown} /\ Weapon[w].range \in Int \cup {Unknown}
    /\ \A w \in DOMAIN Wing : Wing[w].op \in Nat \cup {Unknown}
    /\ MaxLogistics \in Nat /\ MaxHullmods \in Nat
    /\ \A h \in Hulls :
         /\ h # Unknown /\ {h.op, h.bays} \subseteq Nat \cup {Unknown}
         /\ Len(h.mounts) \in Nat /\ DOMAIN h.mounts = 1..Len(h.mounts)
         /\ \A x \in DOMAIN Hullmod : ModCost(h, x) \in Nat \cup {Unknown}
         /\ h.unit \in (Nat \ {0}) \cup {Unknown}
         /\ {h.maxVents, h.maxCaps} \subseteq Nat \cup {Unknown}
    /\ \A r \in Requests :
         /\ r.allowed \subseteq DOMAIN Weapon
         /\ r.allowedMods \subseteq DOMAIN Hullmod /\ r.allowedWings \subseteq DOMAIN Wing
         /\ Len(r.paths) \in Nat \ {0}
         /\ {r.depth, r.most, r.cap} \subseteq Nat \ {0}

VARIABLES
    hull, req,      \* what was asked for
    path,           \* the build path being searched, an index of req.paths
    seed,           \* 0 for the baseline, then one number for each rank and mount
    phase,          \* what is being chosen
    rest,           \* what this phase has yet to consider
    weapons, mods, wings, spent,   \* selected, hullmod_ids, wing_ids, spent
    results,        \* for each path searched so far, its candidates in order
    offered         \* what is returned, as <<alternative, path>>, in order

asked  == <<hull, req>>
chosen == <<weapons, mods, wings, spent>>
vars   == <<hull, req, path, seed, phase, rest, weapons, mods, wings, spent, results, offered>>

MountIds  == DOMAIN hull.mounts
OpLimit   == IF hull.op = Unknown THEN 0 ELSE hull.op
Remaining == OpLimit - spent
profile   == req.paths[path]
AtMost(a, b) == IF a <= b THEN a ELSE b
PathCount == AtMost(Len(req.paths), req.cap)    \* builds[:max_candidates]

\* Sorting by a tuple of numbers: x is the member of S that n others come before.
Less(a, b) == \E i \in DOMAIN a : a[i] < b[i] /\ \A j \in 1..(i - 1) : a[j] = b[j]
Ranked(x, S, Key(_), n) == Cardinality({y \in S : Less(Key(y), Key(x))}) = n
Unless(condition) == IF condition THEN 0 ELSE 1
OrZero(value)     == IF value = Unknown THEN 0 ELSE value

------------------------------------------------------------------------------
\* What a seed asks: ranks first, and in each rank the mounts in order.
\* (Bug: all ranks of a mount before the next mount's.)
SeedMount == ((seed - 1) % Cardinality(MountIds)) + 1
SeedRank  == ((seed - 1) \div Cardinality(MountIds)) + 1
LastSeed  == req.depth * Cardinality(MountIds)

\* How many better weapons the mount passes over.
Offset(m) == IF seed > 0 /\ m = SeedMount THEN SeedRank ELSE 0

\* Mounts left to the game or to nobody.
\* (Bug: a mount asked to be empty is filled.)
Structural(m) ==
    \/ hull.mounts[m].fixed # Unknown
    \/ hull.mounts[m].type \in {"STATION_MODULE", "LAUNCH_BAY", "BUILT_IN"}
FillableAnyway(m) == ~Structural(m) /\ hull.mounts[m].size # Unknown /\ Documented(hull.mounts[m])
Fillable(m) ==
    /\ ~Structural(m)
    /\ hull.mounts[m].size # Unknown /\ Documented(hull.mounts[m])
    /\ m \notin req.empty

\* The weapons a mount may be given, and of those what can still be paid.
Eligible(m) ==
    {w \in req.allowed \ req.denied :
        /\ Weapon[w].op # Unknown
        /\ Takes(hull.mounts[m], w)
        /\ m \in DOMAIN req.locked => w = req.locked[m]}
Affordable(m) == {w \in Eligible(m) : spent + Weapon[w].op <= OpLimit}

WeaponKey(w) ==
    << Unless(w \in req.preferred),
       CASE profile.priority = "LONG_RANGE" -> 0 - OrZero(Weapon[w].range)
         [] profile.priority = "PD_FIRST"   -> Unless(Weapon[w].pd)
         [] OTHER                           -> 0,
       Weapon[w].op,
       w >>

FillMount ==
    /\ phase = "mounts"
    /\ \E m \in rest :
         /\ \A n \in rest : m <= n
         /\ rest' = rest \ {m}
         /\ \/ /\ ~Fillable(m) \/ Offset(m) >= Cardinality(Affordable(m))
               /\ UNCHANGED <<weapons, spent>>
            \/ /\ Fillable(m)
               /\ \E w \in Affordable(m) :
                    /\ Ranked(w, Affordable(m), WeaponKey, Offset(m))
                    /\ weapons' = [k \in DOMAIN weapons \cup {m} |-> IF k = m THEN w ELSE weapons[k]]
                    /\ spent' = spent + Weapon[w].op
    /\ UNCHANGED <<asked, path, seed, phase, mods, wings, results, offered>>

------------------------------------------------------------------------------
\* select_hullmods: two at most, the hull's own and restricted ones never.
\* (Bug: the hull's own are offered.)
EligibleModsBuiltIn ==
    {x \in req.allowedMods \ req.deniedMods : ~Hullmod[x].restricted /\ ModCost(hull, x) # Unknown}
EligibleMods ==
    {x \in req.allowedMods \ (req.deniedMods \cup hull.mods) :
        ~Hullmod[x].restricted /\ ModCost(hull, x) # Unknown}

HullmodKey(x) ==
    << Unless(x \in req.preferredMods),
       Unless(profile.tag = "Defenses" /\ Hullmod[x].verified),
       Unless(profile.tag \in Hullmod[x].tags),
       ModCost(hull, x),
       x >>

ModsFull      == Cardinality(mods) >= MaxHullmods
LogisticsFull == Cardinality({x \in mods : "Logistics" \in Hullmod[x].tags}) >= MaxLogistics

AddHullmod ==
    /\ phase = "hullmods" /\ ~ModsFull
    /\ \E x \in rest :
         /\ Ranked(x, rest, HullmodKey, 0)
         /\ rest' = rest \ {x}
         /\ IF /\ ModCost(hull, x) <= Remaining
               /\ "Logistics" \in Hullmod[x].tags => ~LogisticsFull
            THEN mods' = mods \cup {x} /\ spent' = spent + ModCost(hull, x)
            ELSE UNCHANGED <<mods, spent>>
    /\ UNCHANGED <<asked, path, seed, phase, weapons, wings, results, offered>>

\* select_fighter_wings: no more than the bays (unknown: none),
\* each wing once.
EligibleWings ==
    {w \in req.allowedWings \ (req.deniedWings \cup hull.wings) : Wing[w].op # Unknown}

WingKey(w) == <<Unless(w \in req.preferredWings), Wing[w].op, w>>

\* (Bug: one wing too many.)
BaysOverfull == Cardinality(wings) > OrZero(hull.bays)
BaysFull     == Cardinality(wings) >= OrZero(hull.bays)

AddWing ==
    /\ phase = "wings" /\ ~BaysFull
    /\ \E w \in rest :
         /\ Ranked(w, rest, WingKey, 0)
         /\ rest' = rest \ {w}
         /\ IF Wing[w].op <= Remaining
            THEN wings' = wings \cup {w} /\ spent' = spent + Wing[w].op
            ELSE UNCHANGED <<wings, spent>>
    /\ UNCHANGED <<asked, path, seed, phase, weapons, mods, results, offered>>

NextPhase ==
    /\ \/ /\ phase = "mounts" /\ rest = {}
          /\ phase' = "hullmods" /\ rest' = EligibleMods
       \/ /\ phase = "hullmods" /\ (rest = {} \/ ModsFull)
          /\ phase' = "wings" /\ rest' = EligibleWings
       \/ /\ phase = "wings" /\ (rest = {} \/ BaysFull)
          /\ phase' = "flux" /\ rest' = {}
    /\ UNCHANGED <<asked, path, seed, chosen, results, offered>>

------------------------------------------------------------------------------
\* allocate_vents_and_capacitors: vents towards a target (a quotient of floats,
\* any number here), capacitors with what is left, nothing on incomplete data.
FluxKnown ==
    /\ Unknown \notin {hull.unit, hull.maxVents, hull.maxCaps, hull.dissipation}
    /\ \A m \in DOMAIN weapons : Weapon[weapons[m]].flux # Unknown
    /\ Remaining > 0

Allocations ==
    IF ~FluxKnown THEN {<<0, 0>>}
    ELSE LET units == Remaining \div hull.unit
         IN  {<<v, AtMost(hull.maxCaps, units - v)>> : v \in 0..AtMost(hull.maxVents, units)}

Candidate(vents, caps) ==
    [weapons |-> weapons, mods |-> mods, wings |-> [w \in wings |-> 1], vents |-> vents, caps |-> caps]

\* Weapons of the candidates found so far on this path.
\* (Bug: the baseline's are not among them.)
SeenLater == {results[path][k].fit.weapons : k \in DOMAIN results[path] \ {1}}
Seen      == {results[path][k].fit.weapons : k \in DOMAIN results[path]}

Validate ==
    /\ phase = "flux"
    /\ \E a \in Allocations :
         LET built == Candidate(a[1], a[2])
             found == [fit |-> built, verdict |-> Verdict(hull, built),
                       rank |-> IF seed = 0 THEN 0 ELSE SeedRank,
                       mount |-> IF seed = 0 THEN 0 ELSE SeedMount]
         IN  results' = IF weapons \in Seen THEN results
                        ELSE [results EXCEPT ![path] = Append(@, found)]
    /\ phase' = "built"
    /\ UNCHANGED <<asked, path, seed, rest, chosen, offered>>

------------------------------------------------------------------------------
\* The next candidate of a path, the next path, or the end of the search.
NoWeapons == [m \in {} |-> Unknown]

StartBuild(p, s) ==
    /\ path' = p /\ seed' = s
    /\ phase' = "mounts" /\ rest' = MountIds
    /\ weapons' = NoWeapons /\ mods' = {} /\ wings' = {} /\ spent' = 0

PathDone == seed = LastSeed \/ Len(results[path]) >= req.most

NextSeed ==
    /\ phase = "built" /\ ~PathDone
    /\ StartBuild(path, seed + 1)
    /\ UNCHANGED <<asked, results, offered>>

NextPath ==
    /\ phase = "built" /\ PathDone /\ path < PathCount
    /\ StartBuild(path + 1, 0)
    /\ UNCHANGED <<asked, results, offered>>

\* Everything found, as <<alternative, path>>: first every path's baseline,
\* then every path's next, up to the cap.
Alternatives == UNION {{<<k, p>> : k \in DOMAIN results[p]} : p \in DOMAIN results}
Merged == {x \in Alternatives : Cardinality({y \in Alternatives : Less(y, x)}) < req.cap}

EndSearch ==
    /\ phase = "built" /\ PathDone /\ path = PathCount
    /\ phase' = "merged" /\ rest' = Merged
    /\ UNCHANGED <<asked, path, seed, chosen, results, offered>>

\* _collapse_near_duplicates: a candidate too like one already kept is dropped
\* (the distance is a float: any answer here).  One path is not collapsed.
Round(x)       == x

Offer ==
    /\ phase = "merged"
    /\ \E x \in rest :
         /\ Ranked(x, rest, Round, 0)
         /\ rest' = rest \ {x}
         /\ \/ offered' = Append(offered, x)
            \/ req.builds /\ offered # <<>> /\ UNCHANGED offered
    /\ UNCHANGED <<asked, path, seed, phase, chosen, results>>

Return ==
    /\ phase = "merged" /\ rest = {}
    /\ phase' = "done"
    /\ UNCHANGED <<asked, path, seed, rest, chosen, results, offered>>

Returned == phase = "done" /\ UNCHANGED vars

Init ==
    /\ hull \in Hulls /\ req \in Requests
    /\ path = 1 /\ seed = 0 /\ phase = "mounts" /\ rest = MountIds
    /\ weapons = NoWeapons /\ mods = {} /\ wings = {} /\ spent = 0
    /\ results = [p \in 1..PathCount |-> <<>>] /\ offered = <<>>

Next ==
    \/ FillMount \/ AddHullmod \/ AddWing \/ NextPhase \/ Validate
    \/ NextSeed \/ NextPath \/ EndSearch \/ Offer \/ Return \/ Returned

Spec == Init /\ [][Next]_vars

------------------------------------------------------------------------------
Phases == {"mounts", "hullmods", "wings", "flux", "built", "merged", "done"}

(* Types: whatever is considered or selected is indexed, on mounts the hull *)
(* has; a path's candidates are kept in order and no seed is past the last.*)
Partial(D, S) == UNION {[E -> S] : E \in SUBSET D}

CandidateType ==
    [fit : [weapons : Partial(MountIds, DOMAIN Weapon), mods : SUBSET DOMAIN Hullmod,
            wings : Partial(DOMAIN Wing, {1}), vents : Nat, caps : Nat],
     verdict : {"LEGAL", "ILLEGAL", "NOT_DETERMINABLE"}, rank : Nat, mount : Nat]

TypeOK ==
    /\ hull \in Hulls /\ req \in Requests
    /\ path \in 1..PathCount /\ seed \in 0..LastSeed /\ phase \in Phases
    /\ phase = "mounts" => rest \subseteq MountIds
    /\ phase = "hullmods" => rest \subseteq EligibleMods
    /\ phase = "wings" => rest \subseteq EligibleWings
    /\ weapons \in Partial(MountIds, DOMAIN Weapon)
    /\ mods \in SUBSET DOMAIN Hullmod /\ wings \in SUBSET DOMAIN Wing /\ spent \in Nat
    /\ results \in [1..PathCount -> Seq(CandidateType)]

(* select_* and the vent allocation each spend within what the one before  *)
(* left: at no point has the build spent more than the hull has.           *)
BudgetKept == spent <= OpLimit

(* "never a falsely-LEGAL one" and better: the separate validator finds    *)
(* every generated candidate LEGAL, whatever is unknown about its parts    *)
(* (no incompatible pairs are documented, adapters/vanilla); and the total *)
(* the search runs up is at every step what the validator, which adds up   *)
(* by itself, will charge: nothing chosen is free, nothing free charged.   *)
GeneratedIsLegal ==
    /\ spent = TotalOp(hull, Candidate(0, 0))
    /\ \A p \in DOMAIN results : \A k \in DOMAIN results[p] : results[p][k].verdict = "LEGAL"

(* An advanced request is honoured by every alternative: a locked mount    *)
(* holds its weapon or nothing, an emptied one nothing, what is denied or  *)
(* not allowed is nowhere.                                                 *)
Honours(held, installed, flown) ==
    /\ \A m \in DOMAIN held :
         /\ m \notin req.empty
         /\ held[m] \in req.allowed \ req.denied
         /\ m \in DOMAIN req.locked => held[m] = req.locked[m]
    /\ installed \subseteq req.allowedMods \ req.deniedMods
    /\ flown \subseteq req.allowedWings \ req.deniedWings

RequestHonoured ==
    /\ Honours(weapons, mods, wings)
    /\ \A p \in DOMAIN results : \A k \in DOMAIN results[p] :
         LET f == results[p][k].fit IN Honours(f.weapons, f.mods, DOMAIN f.wings)

(* The baseline leaves nothing it could have taken: whatever it left out   *)
(* (a weapon for an empty mount, a hullmod while there was room, a wing    *)
(* for a free bay) does not fit in what is left of the budget at the end.  *)
NothingLeft ==
    phase = "built" /\ seed = 0 =>
      /\ \A m \in MountIds \ DOMAIN weapons :
           Fillable(m) => \A w \in Eligible(m) : Weapon[w].op > Remaining
      /\ Cardinality(mods) < MaxHullmods =>
           \A x \in EligibleMods \ mods : ModCost(hull, x) > Remaining \/ "Logistics" \in Hullmod[x].tags
      /\ Cardinality(wings) < OrZero(hull.bays) =>
           \A w \in EligibleWings \ wings : Wing[w].op > Remaining

(* "Each build receives its conservative baseline before any build         *)
(* receives an alternate", and the cap holds over all of them.             *)
BaselinesFirst ==
    /\ Len(offered) <= req.cap
    /\ \A i, j \in DOMAIN offered : i < j => offered[i][1] <= offered[j][1]
    /\ \A i \in DOMAIN offered : offered[i][1] > 1 =>
         \A p \in 1..PathCount : <<1, p>> \notin rest

(* "closest-to-baseline alternatives always sort first": an alternative    *)
(* agrees with the baseline on every mount before the one it was asked to  *)
(* change and differs there, no two have the same weapons, no rank comes   *)
(* before a smaller one, baselines come first and leave nothing they could *)
(* have taken.                                                             *)
SameAt(f, g, m) ==
    /\ m \in DOMAIN f <=> m \in DOMAIN g
    /\ m \in DOMAIN f => f[m] = g[m]

AlternativesDiverge ==
    /\ \A p \in DOMAIN results : \A k \in DOMAIN results[p] \ {1} :
      LET base == results[p][1].fit.weapons
          alt  == results[p][k].fit.weapons
          at   == results[p][k].mount
      IN  /\ \A m \in MountIds : m < at => SameAt(alt, base, m)
          /\ ~SameAt(alt, base, at)
          /\ results[p][k - 1].rank <= results[p][k].rank
          /\ \A j \in 1..(k - 1) : results[p][j].fit.weapons # alt
    /\ BaselinesFirst /\ NothingLeft
===============================================================================
