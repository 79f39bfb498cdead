------------------------------ MODULE MCWorkbench ------------------------------
(* Parts of the program that share nothing; a behaviour is about one of them.  *)
(* The library: one variant id and three texts, what populate generates and    *)
(* two edits.  The calibration: an Eagle, its damaged skin, a Falcon from each *)
(* of two mods and a hull whose name has no Latin letters; a raw sheet of four *)
(* rows; two heuristic sets.  The edits of a save: on saves that differ in     *)
(* what is held, what is known of it and what the saved figures say.  Mods:    *)
(* dropped, scanned and merged, and judged by the two commands.  The export:    *)
(* of two heuristic sets the later fits a beam where there is one, and without *)
(* the hull nothing is legal.                                                   *)
EXTENDS RetrofitLibrary, Calibration, SaveEdits, MCMods, Export

CONSTANTS Machines, starter, generated, edit1, edit2

MCStarters == {starter}
MCTexts == {generated, edit1, edit2}
MCGenerated == [v \in MCStarters |-> generated]
------------------------------------------------------------------------------
N(text, letters, qual) == [text |-> text, letters |-> letters, qual |-> qual]
H(id, mod, name, skin) == [id |-> id, mod |-> mod, name |-> name, skin |-> skin]
Eagle     == H("eagle", "core", N("Eagle", "eagle", ""), FALSE)
EagleD    == H("eagle_d", "core", N("Eagle (D)", "eagle", "d"), TRUE)
Falcon(m) == H("falcon", m, N("Falcon", "falcon", ""), FALSE)
Foreign   == H("foreign", "m1", N("Foreign", "", ""), FALSE)
MCHulls   == {Eagle, EagleD, Falcon("m1"), Falcon("m2"), Foreign}
MCMeant   == {Falcon("m1")}

Row(name, parts, variant, hints) == [name |-> name, parts |-> parts, variant |-> variant, hints |-> hints]
MCRawRows ==
    << Row(N("Eagle", "eagle", ""), {"gun"}, "eagle_line", {"brawl"}),
       Row(N("eagle (vanilla)", "eagle", "vanilla"), {"gun", "gum"}, Missing, {"kite"}),
       Row(N("FALCON (D)", "falcon", "d"), {}, "falcon_bad", {"kite"}),
       Row(N("Other", "", ""), {"gun"}, "eagle_line", {"kite"}) >>
MCVariant == [eagle_line |-> [hull |-> "eagle", verdict |-> "LEGAL"], falcon_bad |-> [hull |-> "falcon", verdict |-> "ILLEGAL"]]
MCPartAliases == [gum |-> "gun"]

B(build, weapon) == [build |-> build, weapon |-> weapon]
MCGeneratedBuilds ==
    [old |-> [h \in MCHulls |-> IF h = Foreign THEN <<>> ELSE <<B("brawl", "gun"), B("kite", "gun")>>],
     new |-> [h \in MCHulls |-> IF h = Eagle THEN <<B("kite", "gun"), B("brawl", "pod")>> ELSE <<>>]]
MCAdvised == [h \in MCHulls |-> IF h = Eagle THEN [rank |-> 2, recommended |-> TRUE] ELSE Missing]
MCSetOrder == <<"old", "new">>

L(h, scheme, kind, expected) ==
    [row |-> 0, hull |-> h, version |-> 1, scheme |-> scheme, kind |-> kind, expected |-> expected, top |-> 1]
Asks(h, e)  == L(h, "hull", "BUILD", {e})
Ranks(e)    == L(Eagle, "hull", "TOP_SET", {e})
Refuses(e)  == L(Eagle, "hull", "NEGATIVE", {e})
Mounts(w)   == L(Eagle, "hull", "EQUIPMENT", {w})
Names(kind) == L(Eagle, "faction", kind, {"RECOMMENDED"})
MCFixtures ==
    { <<Asks(Eagle, "brawl"), Mounts("gun")>>,             <<Ranks("brawl"), Ranks("kite")>>,
      <<Refuses("kite"), Asks(EagleD, "brawl")>>,          <<Asks(Eagle, "kite"), L(Eagle, "hull", "FACTION", {})>>,
      <<Asks(Foreign, "kite"), Asks(Eagle, "kite")>>,      <<Asks(Falcon("m1"), "brawl"), Asks(Falcon("m2"), "brawl")>>,
      <<Asks(Eagle, "brawl"), Ranks("kite"), Names("FACTION"), Names("TOP_SET")>> }
------------------------------------------------------------------------------
\* The base save is as the game writes it; the others lack or exceed something.
Item(n, unit, max) == [n |-> n, kind |-> "FLOAT32", unit |-> unit, max |-> max]
Base ==
    [sound |-> TRUE, partials |-> FALSE, rest |-> 2,
     held |-> [credits |-> Item(5, Absent, Absent), story_points |-> [Item(1, Absent, Absent) EXCEPT !.kind = "INT32"],
               supplies |-> Item(3, 1, 90), heavy_machinery |-> Item(1, 2, 2), food |-> Item(1, 1, 90),
               fuel |-> Item(2, 0, 90), crew |-> Item(2, 0, 90), marines |-> Item(1, 0, 90)],
     caps |-> [cargo |-> 12, fuel |-> 8, personnel |-> 6, space_used |-> 8]]
Without(f, x) == Restrict(f, DOMAIN f \ x)
MCFolders ==
    {Base, [Base EXCEPT !.rest = 6], [Base EXCEPT !.caps["space_used"] = 5], [Base EXCEPT !.partials = TRUE],
     [Base EXCEPT !.sound = FALSE], [Base EXCEPT !.caps = Without(@, {"space_used", "fuel"})],
     [Base EXCEPT !.held["supplies"].unit = Absent, !.held["crew"].max = Absent],
     [Base EXCEPT !.held = Without(@, {"marines", "supplies"}), !.held["fuel"].unit = 1],
     [Base EXCEPT !.held["crew"].n = 10, !.caps["fuel"] = 0, !.caps["cargo"] = 5]}
R(t, v) == [target |-> t, value |-> v]
Items == {R("credits", 9), R("credits", 10), R("credits", -1), R("story_points", 20), R("story_points", 21),
          R("supplies", 0), R("supplies", 3), R("supplies", 7), R("supplies", 10), R("heavy_machinery", 0), R("heavy_machinery", 2),
          R("heavy_machinery", 3), R("fuel", 8), R("fuel", 10), R("crew", 4), R("crew", 5), R("marines", 2), R("food", 1)}
Pairs == {R("supplies", 7), R("heavy_machinery", 0), R("heavy_machinery", 2), R("crew", 4), R("marines", 2), R("fuel", 10)}
MCAsked == {<<r>> : r \in Items} \cup {<<a, b>> : a, b \in Pairs}
MCCatalogs == {{}, Commodities \cup {"food"}}
------------------------------------------------------------------------------
ScanOf(hull, gun, beam) == [hull |-> hull, gun |-> gun, beam |-> beam]
E(hash, mod) == [hash |-> hash, mod |-> mod]
MCInstalls == {ScanOf(E(1, 0), E(1, 0), NoFile), ScanOf(E(1, 0), E(2, 1), NoFile), ScanOf(E(1, 0), E(1, 0), E(1, 1)), ScanOf(NoFile, E(1, 0), NoFile)}
Fitted(found, set) == IF set = "late" /\ found.beam # NoFile THEN {"beam"} ELSE {"gun"}
MCFit == [id \in {"line"} |-> [found \in MCInstalls |-> [set \in {"early", "late"} |->
             [legal |-> found.hull # NoFile, weapons |-> Fitted(found, set), rest |-> "none"]]]]
MCHullOf == [line |-> "hull"]
------------------------------------------------------------------------------
VARIABLE machine
MCInit ==
    /\ machine \in Machines
    /\ machine # "library" => modInfo = "none"
    /\ machine # "edits" => folder = Base
    /\ machine # "mods"  => zip = [za |-> ZipA, zb |-> ZipB]
    /\ machine # "export" => installed = ScanOf(NoFile, E(1, 0), NoFile)
    /\ Init /\ CalibrationInit /\ EditInit /\ ImportInit /\ ChecksInit /\ ExportInit
checkVars == <<auditVars, checked>>
MCNext ==
    /\ UNCHANGED machine
    /\ \/ /\ machine = "library" /\ Next
          /\ UNCHANGED <<calibrationVars, editVars, importVars, checkVars, exportVars>>
       \/ /\ machine = "calibration" /\ CalibrationNext
          /\ UNCHANGED <<vars, editVars, importVars, checkVars, exportVars>>
       \/ /\ machine = "edits" /\ EditNext
          /\ UNCHANGED <<vars, calibrationVars, importVars, checkVars, exportVars>>
       \/ /\ machine = "mods" /\ ImportNext
          /\ UNCHANGED <<vars, calibrationVars, editVars, checkVars, exportVars>>
       \/ /\ machine = "checks" /\ ChecksNext
          /\ UNCHANGED <<vars, calibrationVars, editVars, zip, extras, scan, job, drops, exportVars>>
       \/ /\ machine = "export" /\ ExportNext
          /\ UNCHANGED <<vars, calibrationVars, editVars, importVars, checkVars>>
MCSpec == MCInit /\ [][MCNext]_<<vars, calibrationVars, editVars, importVars, checkVars, exportVars, machine>>
===============================================================================
