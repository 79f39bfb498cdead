------------------------------- MODULE MCWorkers -------------------------------
(* The workers on fits, the candidate search and the refit assistant, with one *)
(* set of parts, the advisors on gaps and fleets, and the two caches of what    *)
(* they and the scan compute.  They share nothing: a behaviour is of one.       *)
EXTENDS CandidateSearch, Refit, MCAdvisors, MCReuse
CONSTANT Workers

W(size, type, op, range, pd, flux) ==
    [size |-> size, type |-> type, op |-> op, range |-> range, pd |-> pd, flux |-> flux]
X(op, tags, verified, restricted) ==
    [op |-> op, tags |-> tags, verified |-> verified, restricted |-> restricted]
Frigate(n) == [size \in {"FRIGATE"} |-> n]

\* Weapons 1 to 6, hullmods 1 to 4 and wings 1 to 3 are what refits are about,
\* the others what requests allow.
MCWeapon == << W(1, "BALLISTIC", 2, 7, FALSE, 3), W(1, "BALLISTIC", 4, 9, FALSE, 1), W(2, "ENERGY", 5, 7, FALSE, 2),
               W(1, "ENERGY", 3, 9, FALSE, 2), W(None, "BALLISTIC", 1, 7, FALSE, 1), W(1, "MISSILE", None, 9, FALSE, 0),
               W(1, "BALLISTIC", 2, 5, FALSE, 1),   W(1, "BALLISTIC", 3, 9, FALSE, 1),
               W(2, "ENERGY", 5, None, FALSE, None), W(1, "ENERGY", 0, 3, TRUE, 1),
               W(None, "BALLISTIC", 1, 5, FALSE, 1), W(1, "BALLISTIC", None, 5, FALSE, 1) >>
MCHullmod == << X(Frigate(2), {"Logistics"}, FALSE, FALSE), X(Frigate(1), {"Logistics"}, FALSE, FALSE),
                X(Frigate(3), {"Defenses"}, FALSE, FALSE), X(<<>>, {}, FALSE, FALSE),
                X(Frigate(3), {"Logistics"}, FALSE, FALSE), X(Frigate(4), {"Defenses"}, TRUE, FALSE),
                X(Frigate(2), {}, FALSE, TRUE), X(Frigate(3), {}, FALSE, FALSE), X(<<>>, {}, FALSE, FALSE) >>
MCWing == << [op |-> 4], [op |-> 2], [op |-> None], [op |-> 3], [op |-> 2], [op |-> None] >>
Ghost == 13      \* an id that is not indexed

Mount(size, type, fixed) == [size |-> size, type |-> type, fixed |-> fixed]

------------------------------------------------------------------------------
\* The search: each field that a guard asks about is known in one hull or part
\* and unknown in another.
Hull(mounts, op, bays, own) ==
    [mounts |-> mounts, op |-> op, bays |-> bays, mods |-> own, wings |-> {}, size |-> "FRIGATE",
     unit |-> 1, maxVents |-> 2, maxCaps |-> 2, dissipation |-> TRUE]
Plain == << Mount(2, "HYBRID", None), Mount(1, "BALLISTIC", None) >>
Mixed == << Mount(1, "BUILT_IN", 10), Mount(1, "UNIVERSAL", None), Mount(None, "ENERGY", None), Mount(1, "BALLISTIC", None) >>

MCHulls ==
    {Hull(ms, op, bays, own) : ms \in {Plain, Mixed}, op \in {None, 5, 9, 14}, bays \in {None, 1}, own \in {{}, {5}}}
      \cup {[Hull(Plain, 9, 0, {}) EXCEPT !.unit = None], [Hull(Plain, 16, 2, {8}) EXCEPT !.unit = 2]}

Low  == [priority |-> "LOW_OP", tag |-> None]
Long == [priority |-> "LONG_RANGE", tag |-> None]
Tank == [priority |-> "LOW_OP", tag |-> "Defenses"]
Pd   == [priority |-> "PD_FIRST", tag |-> None]
Open ==
    [paths |-> <<Low>>, builds |-> FALSE, depth |-> 2, most |-> 4, cap |-> 4,
     allowed |-> 7..12, denied |-> {}, preferred |-> {}, locked |-> <<>>, empty |-> {},
     allowedMods |-> 5..9, deniedMods |-> {}, preferredMods |-> {},
     allowedWings |-> 4..6, deniedWings |-> {}, preferredWings |-> {}]
Advanced == [Open EXCEPT !.denied = {7}, !.preferred = {9}, !.deniedMods = {6}, !.preferredWings = {4}]
MCRequests ==
    { Open, Advanced, [Open EXCEPT !.locked = (2 :> 8), !.depth = 1], [Advanced EXCEPT !.empty = {1}, !.paths = <<Pd>>],
      [Open EXCEPT !.paths = <<Tank, Long>>, !.builds = TRUE, !.most = 2, !.cap = 3, !.depth = 1],
      [Open EXCEPT !.paths = <<Long, Low, Pd>>, !.builds = TRUE, !.most = 1, !.cap = 2, !.depth = 1],
      [Open EXCEPT !.allowed = {8, 9, 10}, !.locked = (1 :> 7), !.allowedWings = {5}] }

------------------------------------------------------------------------------
\* The refits: between them the fits have every failure that a fixer is for,
\* and the quality modes something to gain and to lose.
Ship(op, bays, unit) ==
    [mounts |-> << Mount(1, "HYBRID", None), Mount(1, "BALLISTIC", None), Mount(1, "BUILT_IN", 4) >>,
     op |-> op, bays |-> bays, mods |-> {2}, size |-> "FRIGATE", unit |-> unit, maxVents |-> 1, maxCaps |-> 1,
     civilian |-> TRUE, logistics |-> {1, Ghost}, defense |-> {3}]
MCShips ==
    {Ship(10, 3, 1), Ship(7, 1, None), [Ship(14, 2, 1) EXCEPT !.mods = {}], [Ship(9, None, 1) EXCEPT !.mounts[1].type = "MISSILE"], None}

F(weapons_, mods_, wings_, vents, caps) ==
    [weapons |-> weapons_, mods |-> mods_, wings |-> wings_, vents |-> vents, caps |-> caps]
MCFits ==
    { F(<<1, 1, 4>>, {}, <<>>, 0, 0), F(<<2, 2>>, {1, 2, 5}, <<>>, 1, 0), F(<<4, 2>>, {3}, <<1>>, 0, 1),
      F(<<3, 4, 1>>, {1, 2, 5}, <<>>, 2, 2), F((1 :> Ghost) @@ (Ghost :> 1), {Ghost, 1}, <<>>, 0, 0),
      F(<<1, Ghost>>, {}, (1 :> 3), 0, 0), F(<<2, 1>>, {1, 3}, <<1, 2>>, 3, 1),
      F(<<5, 3>>, {4}, (Ghost :> 1) @@ (2 :> 2), 0, 3), F(<<6, 2>>, {}, (3 :> 1), 0, 0),
      F(<<6, 2>>, {3}, <<>>, 0, 0) }

MCId == 1..Ghost

Nothing == [mounts |-> {}, mods |-> {}, wings |-> {}]
MCLockSets ==
    { Nothing, [mounts |-> {1}, mods |-> {2, 3}, wings |-> {2}], [mounts |-> {2, Ghost}, mods |-> {Ghost}, wings |-> {1}] }

\* A score of each name, with the trade-offs of the program's.
Guns(f) == {f.weapons[m] : m \in DOMAIN f.weapons}
MCInRange(w) == MCWeapon[w].range >= 8
MCMetric(name, h, f) ==
    CASE name = "final_score"         -> MapThenSumSet(LAMBDA m : MCWeapon[f.weapons[m]].op, DOMAIN f.weapons) + 3 * Cardinality(f.mods \cap h.defense)
      [] name = "flux_sustainability" -> 9 - MapThenSumSet(LAMBDA m : MCWeapon[f.weapons[m]].flux, DOMAIN f.weapons)
      [] name = "role_match"          -> IF \A w \in Guns(f) : MCInRange(w) THEN 10 ELSE 7
      [] name = "range_coherence"     -> IF Cardinality({MCWeapon[w].range : w \in Guns(f)}) > 1 THEN 5 ELSE 10
      [] name = "civilian_efficiency" -> IF f.mods \cap h.logistics = {} THEN None ELSE 4

------------------------------------------------------------------------------
VARIABLE worker     \* whose behaviour this is

MCInit ==
    /\ worker \in Workers
    /\ worker # "search"  => hull = Hull(Plain, 5, None, {}) /\ req = Open
    /\ worker # "refit"   => ship = None /\ given = F(<<6, 2>>, {3}, <<>>, 0, 0) /\ locks = Nothing /\ mode = "exact"
    /\ worker # "gaps"    => world = World /\ heur = Set(FALSE, FALSE, FALSE, FALSE, FALSE)
    /\ worker # "fleet"   => scanned = Scan1 /\ order = Ask1
    /\ disk = Installed /\ files = Installed /\ heuristic = "a"
    /\ Init /\ RefitInit /\ GapInit /\ FleetInit /\ ReportsInit /\ CacheInit

MCNext ==
    /\ UNCHANGED worker
    /\ \/ worker = "search"  /\ Next /\ UNCHANGED <<refitVars, gapVars, fleetVars, reportVars, cacheVars>>
       \/ worker = "refit"   /\ RefitNext /\ UNCHANGED <<vars, gapVars, fleetVars, reportVars, cacheVars>>
       \/ worker = "gaps"    /\ GapNext /\ UNCHANGED <<vars, refitVars, fleetVars, reportVars, cacheVars>>
       \/ worker = "fleet"   /\ FleetNext /\ UNCHANGED <<vars, refitVars, gapVars, reportVars, cacheVars>>
       \/ worker = "reports" /\ ReportsNext /\ UNCHANGED <<vars, refitVars, gapVars, fleetVars, cacheVars>>
       \/ worker = "results" /\ CacheNext /\ UNCHANGED <<vars, refitVars, gapVars, fleetVars, reportVars>>

MCSpec == MCInit /\ [][MCNext]_<<worker, vars, refitVars, gapVars, fleetVars, reportVars, cacheVars>>
================================================================================
