-------------------------------- MODULE MCMods --------------------------------
(* Mods that meet each other: the core declares a hull, its skin, a weapon, a *)
(* hullmod and a faction; mod 2 is installed and declares a hull that the     *)
(* work in progress and mod 6 make skins of; mod 5 is installed, not enabled, *)
(* and declares the core's hull; the two archives share one cache folder.     *)
EXTENDS ModChecks

Loads(of, guns, fits) == [hull |-> of, weapons |-> guns, mods |-> fits, wings |-> {}, modules |-> Gone]
Plain == [wings |-> {}, drops |-> {}, hints |-> {}]
SkinOf(id, base) == [id |-> id, base |-> base, changes |-> Plain]
HintsOf(hull) == IF hull = "wolf" THEN {"SHIP_WITH_MODULES"} ELSE {}
Slots(children) == [i \in DOMAIN children |-> [slot |-> i, child |-> children[i]]]
HasFiles(hulls, weapons, mods, loads) ==
    [hulls |-> [h \in hulls |-> [wings |-> {}, hints |-> HintsOf(h), fighter |-> FALSE]], weapons |-> [w \in weapons |-> {}], wings |-> << >>, mods |-> mods,
     variants |-> loads, factions |-> << >>]
ModWith(id, deps, has, skins) == [mod |-> id, version |-> 1, deps |-> deps, has |-> has, skins |-> skins, errs |-> {}]

CoreFiles == [HasFiles({"eagle"}, {"gun"}, [range |-> "farther"], [line |-> Loads("eagle", {"gun"}, {"range"})])
                 EXCEPT !.factions = [navy |-> {"eagle"}]]
CoreData  == [ModWith(Core, {}, CoreFiles, {SkinOf("eagle_d", "eagle")}) EXCEPT !.version = Gone]
Wolf      == ModWith(2, {}, HasFiles({"wolf"}, {}, [range |-> "farther"], << >>), {})
Mate      == ModWith(6, {2, 9}, HasFiles({}, {}, << >>, [escort |-> [Loads("wolf", {}, {"range", "armor"}) EXCEPT !.wings = {"fly"}], patrol |-> Loads("eagle", {}, {"range"}),
                                                  tug |-> [Loads("wolf", {}, {}) EXCEPT !.modules = Slots(<<"line", "pack", "line">>)],
                                                  barge |-> [Loads("wolf_m", {}, {}) EXCEPT !.modules = Slots(<<"line">>)]]),
                     {[SkinOf("wolf_m", "wolf") EXCEPT !.changes.drops = {"SHIP_WITH_MODULES"}]})
WolfFiles(gun, fitted) ==
    [HasFiles({"wolf"}, {gun}, [range |-> "farther"], [pack |-> Loads("wolf", {fitted}, {"range"})]) EXCEPT !.wings = [fly |-> {}]]
WolfPack  == ModWith(2, {}, WolfFiles("beam", "beam"), {})
WolfLost  == ModWith(2, {}, WolfFiles("gun", "lost"), {})
WolfTorn  == [ModWith(2, {}, HasFiles({}, {}, << >>, << >>), {}) EXCEPT !.errs = {"located", "skipped"}]
Twin      == ModWith(5, {}, HasFiles({"eagle"}, {}, << >>, << >>), {})
WorkFiles == HasFiles({}, {"pod"}, [range |-> "nearer"], [fast |-> Loads("wolf_x", {"pod"}, {"range"})])
Work      == ModWith(1, {2, 3}, [WorkFiles EXCEPT !.factions = [navy |-> {"wolf"}]], {SkinOf("wolf_x", "wolf"), SkinOf("wolf_y", "wolf_x")})
ZipA      == ModWith(3, {}, HasFiles({"wolf"}, {"gun"}, << >>, << >>), {})
ZipB      == ModWith(4, {}, HasFiles({"lone"}, {}, << >>, [line |-> Loads("lone", {}, {"range"})]), {SkinOf("lone_d", "eagle_d")})

MCModFolders == {"game", "inst", "mate", "off", "work", "cache"}
MCInstalled  == <<"inst", "mate", "off">>
MCFirstDisk  == [game |-> CoreData, inst |-> WolfPack, mate |-> Mate, off |-> Twin, work |-> Work, cache |-> Gone]
MCMayHold    == [f \in MCModFolders |-> CASE f = "inst" -> {Gone, Broken, WolfTorn, Wolf, WolfLost}
                                          [] f = "work" -> {Twin, WolfLost} [] OTHER -> {}]
\* "working" is the path of the work as it is given from beside it: the installed mod's folder has the same name.
MCPaths      == (MCModFolders \ {"game"}) \cup {"working"}
MCFolderAt   == [p \in MCPaths |-> IF p = "working" THEN "work" ELSE p]
MCNamedBy    == [p \in MCPaths |-> IF p = "working" THEN {"work", "inst"} ELSE {p}]
MCWrapped    == [f \in {"work", "off"} |-> f]
MCStem       == [a \in {"za", "zb"} |-> "cache"]
MCDrops      == {<<"za">>, <<"zb">>, <<"work">>, <<"off">>, <<"za", "zb">>, <<"zb", "work">>}
MCZips       == {[za |-> ZipA, zb |-> ZipB], [za |-> ZipA, zb |-> Gone]}
MCZipTexts   == {ZipA, ZipB, Gone}
MCFaults     == [v \in {"line", "fast", "pack", "escort", "patrol", "tug", "barge"} |-> {}]
================================================================================
