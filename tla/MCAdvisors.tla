------------------------------- MODULE MCAdvisors -------------------------------
(* What the advisors are asked about: worlds in which a pack, a stage, a rough *)
(* build, a shared hull and a hull of nobody each decide something, and fleets *)
(* in which every exclusion, category and comparison has a hull of its own.    *)
EXTENDS GapAdvice, FleetAdvice, TLC

Roles2(line, pd) == [line |-> line, pd |-> pd]
Unseen == Roles2(Nil, Nil)
Sight(score, sure) == [score |-> score, sure |-> sure]

G(line, pd, builds, owners, traits) ==
    [eligible |-> TRUE, mod |-> "core", hash |-> 1, cap |-> Roles2(line, pd), seen |-> Roles2(Sight(line, 30), Nil),
     builds |-> builds, traits |-> traits, owners |-> owners, variants |-> <<>>]
Bd(id, compat, rough, style, wants) ==
    [id |-> id, compat |-> compat, sure |-> 20 + compat, rough |-> rough, style |-> style, wants |-> wants]
Brawl == Bd(1, 8, FALSE, <<"near", "fast", "kinetic", "line">>, {"armor"})
Kite  == Bd(2, 6, FALSE, <<"far", "fast", "kinetic", "line">>, {"range", "flux"})
Haul  == Bd(3, 9, TRUE, <<"far", "slow", "none", "rear">>, {"cargo"})
Swap  == Bd(2, 8, FALSE, <<"near", "fast", "kinetic", "line">>, {"armor"})
V(before, p, q, cost) == [before |-> before, after |-> [P |-> p, Q |-> q], cost |-> cost]

\* Four hulls of the faction, a twin of the second and one that is no ship among
\* them; then a common hull, one of nobody and two of another faction.
Hold ==
    << [G(5, 0, {Brawl, Kite}, {"us"}, {"frigate", "shield"}) EXCEPT !.variants = <<V(3, 6, 2, 2), V(5, Nil, 9, 9)>>],
       [G(4, 1, {Swap, Haul}, {"us"}, {"frigate"}) EXCEPT !.variants = (3 :> V(4, 7, 4, 0))],
       [G(4, 1, {Kite}, {"us"}, {"frigate"}) EXCEPT !.hash = 2],
       [G(9, 2, {Brawl}, {"us"}, {"station"}) EXCEPT !.eligible = FALSE, !.seen = Roles2(Sight(5, 40), Nil)],
       G(6, 2, {Brawl, Haul}, {"them", "those"}, {"cruiser", "shield"}),
       G(7, 0, {Kite}, {}, {"cruiser"}),
       [G(9, 3, {Brawl, Kite}, {"them"}, {"cruiser", "phase"}) EXCEPT !.mod = "mod"],
       G(2, 3, {}, {"them"}, {"frigate", "shield"}) >>
Pack ==
    [faction |-> "us", mod |-> "core", hashes |-> <<1, 1, 1>>, approved |-> (7 :> 8) @@ (20 :> 5),
     prefers |-> (2 :> [value |-> 9, confidence |-> 10]), tiers |-> [early |-> {3}]]
World == [hulls |-> Hold, known |-> {1, 2, 3}, faction |-> "us", factions |-> {"us", "them"}, pack |-> Nil]
MCWorlds ==
    { World, [World EXCEPT !.pack = Pack], [World EXCEPT !.known = {1, 4, 20}, !.hulls[1].cap = Roles2(7, 1)],
      [World EXCEPT !.pack = [Pack EXCEPT !.hashes = <<1, 1>>], !.known = {1, 2, 3, 20}],
      [World EXCEPT !.pack = [Pack EXCEPT !.faction = "gone"], !.known = {2, 3, 8}] }

Set(builds, diverse, vector, disruption, progression) ==
    [builds |-> builds, diverse |-> diverse, vector |-> vector, disruption |-> disruption, progression |-> progression]
MCHeuristicSets ==
    { Set(FALSE, FALSE, FALSE, FALSE, FALSE), Set(FALSE, TRUE, FALSE, FALSE, FALSE),
      Set(TRUE, TRUE, TRUE, TRUE, FALSE), Set(TRUE, TRUE, FALSE, FALSE, TRUE) }
MCPolicies == { DefaultPolicy, [DefaultPolicy EXCEPT !.stage = "early"], [foreign |-> FALSE, rough |-> FALSE, stage |-> Nil] }
MCRoleBuilds   == [line |-> {1, 2}, pd |-> {}]
MCRoleProfile  == [line |-> "P", pd |-> Nil]
MCBuildProfile == << "P", "Q", Nil >>
MCFit == [raid |-> <<5, 2, 9>>]
------------------------------------------------------------------------------
Knows(score, sure) == [score |-> score, sure |-> sure]
Stance(a) == [x \in Axes |-> [front |-> a, back |-> 100 - a]]
A(owners, pd, strike, haul, move) ==
    [eligible |-> TRUE, hidden |-> FALSE, phase |-> FALSE, speed |-> 80, burn |-> 9, range |-> 700, sensor |-> 60,
     owners |-> owners, traits |-> {"frigate"}, cap |-> [PD |-> pd, STRIKE |-> strike, HAUL |-> haul, MOVE |-> move],
     posture |-> Stance(60)]
Weak == Knows(20, 90)
Good == Knows(80, 70)
Fleet ==
    << A({"us"}, Weak, Good, Nil, Weak), A({"us"}, Good, Weak, Nil, Nil),
       [A({"us"}, Knows(90, 90), Weak, Weak, Good) EXCEPT !.hidden = TRUE],
       [A({"them"}, Knows(85, 60), Good, Nil, Good) EXCEPT !.posture = Stance(10), !.speed = Nil, !.traits = {"cruiser"}],
       [A({}, Good, Good, Good, Good) EXCEPT !.eligible = FALSE, !.speed = 0],
       [A({"us"}, Nil, Knows(10, 50), Nil, Good) EXCEPT !.phase = TRUE, !.sensor = Nil, !.burn = 8],
       [A({}, Nil, Nil, Good, Weak) EXCEPT !.range = Nil, !.burn = 7, !.traits = {"freighter"}],
       [A({"us"}, Knows(78, 70), Weak, Nil, Nil) EXCEPT !.traits = {"frigate", "shield"}] >>
Scan1 ==
    [hulls |-> Fleet,
     variants |-> (11 :> [hull |-> 1, cap |-> [PD |-> Weak, STRIKE |-> Good, HAUL |-> Weak, MOVE |-> Good], posture |-> Stance(30), range |-> 900])
               @@ (12 :> [hull |-> 30, cap |-> [PD |-> Nil, STRIKE |-> Nil, HAUL |-> Nil, MOVE |-> Nil], posture |-> Stance(0), range |-> Nil])]
MCScans == { Scan1, [Scan1 EXCEPT !.hulls = Restrict(Fleet, {1, 3, 4, 5, 7}), !.variants = <<>>] }

Ship1(h, n)    == [hull |-> h, variant |-> Nil, count |-> n]
Variant1(v, n) == [hull |-> Nil, variant |-> v, count |-> n]
Ask1 == [selections |-> <<Ship1(1, 1)>>, faction |-> "us", access |-> "FACTION_PLUS", foreign |-> TRUE, hidden |-> FALSE,
         focus |-> "BALANCED", count |-> Nil]
MCOrders ==
    { Ask1, [Ask1 EXCEPT !.hidden = TRUE, !.selections = <<Variant1(11, 2), Ship1(6, 1), Ship1(40, 1)>>, !.foreign = FALSE],
      [Ask1 EXCEPT !.access = "STRICT_FACTION", !.selections = <<Variant1(11, 1), Variant1(12, 1)>>, !.count = 1],
      [Ask1 EXCEPT !.access = "STRICT_FACTION", !.faction = Nil],
      [Ask1 EXCEPT !.access = "UNRESTRICTED", !.selections = <<Ship1(7, 1), Ship1(5, 2), Ship1(6, 1)>>, !.focus = "COMBAT"],
      [Ask1 EXCEPT !.selections = <<Ship1(2, 1), Variant1(11, 3)>>, !.focus = "LOGISTICS", !.faction = Nil],
      [Ask1 EXCEPT !.selections = <<Ship1(1, 0)>>] }
MCScenarioProfiles ==
    { [sure |-> 50, targets |-> {[need |-> "PD", target |-> 75], [need |-> "STRIKE", target |-> 55]}],
      [sure |-> 60, targets |-> {[need |-> "STRIKE", target |-> 100], [need |-> "MOVE", target |-> 0]}] }
MCCombatNeeds == {"PD", "STRIKE", "MOVE"}
MCFocusNeeds == [BALANCED |-> {"PD", "STRIKE", "MOVE", "HAUL"}, COMBAT |-> MCCombatNeeds, LOGISTICS |-> {"HAUL"}]
MCPurpose == [PD |-> 3, STRIKE |-> 2, MOVE |-> 1]
MCFitProfile == [n \in {2, 3} |-> IF n = 2 THEN "FAST_STRIKE" ELSE "PD_ESCORT"]
================================================================================
