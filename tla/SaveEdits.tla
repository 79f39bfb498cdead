------------------------------ MODULE SaveEdits ------------------------------
(***************************************************************************)
(* What an edit of a save may change, and how the game's answer is read.   *)
(* campaign/locators.py reads the resources and the capacity figures of a  *)
(* save; campaign/edit_checks.py judges each requested amount by its own   *)
(* and all of them by the saved capacities; campaign/writer.py writes a    *)
(* plan that is accepted in full as a copy, with the cargo line the game   *)
(* is expected to report (campaign/fingerprint.py).  A copy can be loaded  *)
(* in the game, whose log is then compared with that expectation, and can  *)
(* be chosen and edited again.  Capacity figures are never edited.         *)
(***************************************************************************)
EXTENDS Integers, Sequences, FiniteSets, FiniteSetsExt, Functions

CONSTANTS
    SaveFolders,   \* the saves the game may have written
    Catalogs,      \* sets of ids commodities.csv may list ({}: it is not readable)
    Asked,         \* the lists of requests
    IntMax,        \* the largest stored integer
    Exact,         \* integers below it are exact as a stored float, those above in steps
    Cent,          \* the unit of the game's report, a hundredth
    Sections,      \* the sections of the report that no edit may change
    MaxCopies,     \* bound on the copies made of copies
    Absent         \* nothing there

Fuel        == {"fuel"}
Personnel   == {"crew", "marines"}
Goods       == {"supplies", "heavy_machinery"}
Commodities == Fuel \cup Personnel \cup Goods     \* of tier 1; a save may hold others
Tier1       == Commodities \cup {"credits", "story_points"}

ASSUME EditAssumption ==
    /\ IntMax \in Nat /\ Exact \in Nat /\ Exact % 2 = 0 /\ MaxCopies \in Nat
    /\ Cent \in Nat \ {0} /\ Cent < Exact /\ Cent < IntMax
    /\ \A rs \in Asked : Len(rs) \in 1..7 /\ \A i \in DOMAIN rs : rs[i].value \in Int
    /\ Absent \notin Int /\ Absent \notin {"PASS", "FAIL"}

------------------------------------------------------------------------------
(* Stored numbers.                                                         *)

\* The distance of the floats around n, and the float next to n, of two as
\* near the even one.
Ulp[n \in Nat] == IF n < Exact THEN 1 ELSE 2 * Ulp[n \div 2]
Float(n) ==
    LET low == n \div Ulp[n]
    IN  Ulp[n] * (IF 2 * (n % Ulp[n]) + (low % 2) > Ulp[n] THEN low + 1 ELSE low)

\* The number the game has after reading the text of n.
Read(kind, n) == IF kind = "INT32" THEN n % (IntMax + 1) ELSE Float(n)

Storable(kind, n) == IF kind = "INT32" THEN n <= IntMax ELSE Float(n) = n

------------------------------------------------------------------------------
(* A save: what is held of each target, the saved figures, whether the     *)
(* cargo can be located, and the space taken by what is not a located      *)
(* stack.                                                                  *)

\* locate_resources: the cargo is located as a whole or not at all.
Resources(s) == IF s.sound THEN s.held ELSE Restrict(s.held, {"story_points"} \cap DOMAIN s.held)
Caps(s)      == IF s.sound THEN s.caps ELSE <<>>
Amount(s, t) == Resources(s)[t].n

\* A save as the game writes it: numbers that can be stored, at most four
\* figures, and no space for what is no stack.
Stored(s) ==
    /\ s = [sound |-> s.sound, partials |-> s.partials, rest |-> s.rest, held |-> s.held, caps |-> s.caps]
    /\ IsFiniteSet(DOMAIN s.held) /\ s.held = [t \in DOMAIN s.held |-> s.held[t]]
    /\ \A t \in DOMAIN s.held :
         LET it == s.held[t] IN
         /\ it = [n |-> it.n, kind |-> it.kind, unit |-> it.unit, max |-> it.max]
         /\ it.n \in Nat /\ Storable(it.kind, it.n) /\ it.unit \in Int \cup {Absent}
         /\ it.kind = IF t = "story_points" THEN "INT32" ELSE "FLOAT32"
         /\ t \in {"credits", "story_points"} => it.unit = Absent
    /\ DOMAIN s.caps \subseteq {"cargo", "fuel", "personnel", "space_used"}
    /\ s.caps \in [DOMAIN s.caps -> Int]
    /\ s.rest \in Int /\ s.sound \in BOOLEAN

ASSUME SaveAssumption == \A s \in SaveFolders : Stored(s)

\* Space that the located stacks fill.
Filled(s) ==
    SumFunction([t \in {t \in DOMAIN Resources(s) : Resources(s)[t].unit # Absent} |->
                    Amount(s, t) * Resources(s)[t].unit])

\* A refusal for what a request says by itself.
Refused(s, ids, rs, i) ==
    LET t == rs[i].target
        n == rs[i].value
    IN  \/ t \notin Tier1
        \/ \E k \in DOMAIN rs \ {i} : rs[k].target = t
        \/ n < 0
        \/ t \notin DOMAIN Resources(s)
        \/ t \in Commodities /\ (t \notin ids \/ s.partials)
        \/ ~Storable(Resources(s)[t].kind, n)
        \/ t \in Commodities /\ (Resources(s)[t].max = Absent \/ n > Resources(s)[t].max)

\* The new amounts of the commodities that would change.
Pending(s, ids, rs) ==
    LET at == {i \in DOMAIN rs : /\ ~Refused(s, ids, rs, i)
                                 /\ rs[i].target \in Commodities
                                 /\ rs[i].value # Amount(s, rs[i].target)}
    IN  [t \in {rs[i].target : i \in at} |-> rs[CHOOSE i \in at : rs[i].target = t].value]

After(s, new, t) == IF t \in DOMAIN new THEN new[t] ELSE Amount(s, t)

\* The use of each dimension that can be computed, with all changes made.
Manned(s, new)   == SumFunction([t \in Personnel \cap DOMAIN Resources(s) |-> After(s, new, t)])
Stowed(s, new) ==
    Caps(s)["space_used"]
      + SumFunction([t \in DOMAIN new \cap Goods |-> (new[t] - Amount(s, t)) * Resources(s)[t].unit])

Weightless(s, new) == {t \in DOMAIN new \cap (Fuel \cup Personnel) : Resources(s)[t].unit = 0}
Computed(s, new) ==
    {d \in {"fuel", "personnel", "cargo"} :
        CASE d = "fuel"      -> Fuel \cap Weightless(s, new) # {} /\ "fuel" \in DOMAIN Caps(s)
          [] d = "personnel" -> /\ Personnel \cap Weightless(s, new) # {}
                                /\ "personnel" \in DOMAIN Caps(s) /\ "crew" \in DOMAIN Resources(s)
          [] d = "cargo"     -> /\ DOMAIN new \cap Goods # {}
                                /\ {"cargo", "space_used"} \subseteq DOMAIN Caps(s)
                                /\ \A t \in DOMAIN new \cap Goods : Resources(s)[t].unit # Absent
                                /\ Filled(s) <= Caps(s)["space_used"]}
Usage(s, new) ==
    [d \in Computed(s, new) |-> CASE d = "fuel"      -> new["fuel"]
                                  [] d = "personnel" -> Manned(s, new)
                                  [] d = "cargo"     -> Stowed(s, new)]

Dimension(t) == IF t \in Fuel THEN "fuel" ELSE IF t \in Personnel THEN "personnel" ELSE "cargo"

\* A bug: each change is judged as if it were the only one.
WithinAlone(s, new, t) ==
    LET use == Usage(s, Restrict(new, {t}))
    IN  Dimension(t) \in DOMAIN use /\ use[Dimension(t)] \in 0..Caps(s)[Dimension(t)]

\* _capacity_verdicts, for the commodity t.
Within(s, new, t) ==
    /\ t \in Goods \cup Weightless(s, new)
    /\ Dimension(t) \in DOMAIN Usage(s, new)
    /\ Usage(s, new)[Dimension(t)] \in 0..Caps(s)[Dimension(t)]

Outcome(s, ids, rs, i) ==
    IF Refused(s, ids, rs, i) THEN "REFUSED"
    ELSE LET new == Pending(s, ids, rs)
             t   == rs[i].target
         IN  IF t \in DOMAIN new /\ ~Within(s, new, t) THEN "NOT_DETERMINABLE" ELSE "ACCEPTED"

\* overage_preview: supplies a day, in tenths and at most fifty of them, for
\* each dimension that would be over.
Preview(s, new) ==
    LET use == Usage(s, new)
    IN  [d \in {d \in DOMAIN use : Caps(s)[d] > 0 /\ use[d] > Caps(s)[d]} |-> Min({500, use[d] - Caps(s)[d]})]

\* build_edit_plan.  ready allows for the opt-in, a write does not.
EditPlan(s, ids, rs, optIn) ==
    LET outcomes == [i \in DOMAIN rs |-> Outcome(s, ids, rs, i)] IN
    [source  |-> s, requests |-> rs, outcomes |-> outcomes,
     preview |-> Preview(s, Pending(s, ids, rs)),
     ready   |-> \A i \in DOMAIN rs : outcomes[i] = "ACCEPTED" \/ (outcomes[i] = "NOT_DETERMINABLE" /\ optIn)]

Requested(p) == {p.requests[i].target : i \in DOMAIN p.requests}
Value(p, t)  == p.requests[CHOOSE i \in DOMAIN p.requests : p.requests[i].target = t].value

\* write_save_copy up to its first access to the save.
MayBeWritten(p) ==
    /\ \A i \in DOMAIN p.requests : p.outcomes[i] = "ACCEPTED"
    /\ \E t \in Requested(p) : Value(p, t) # Amount(p.source, t)

Patched(s, p) == [s EXCEPT !.held = [t \in DOMAIN @ |-> IF t \in Requested(p) THEN [@[t] EXCEPT !.n = Value(p, t)] ELSE @[t]]]

------------------------------------------------------------------------------
(* The cargo line of the game's report.                                    *)

Hundredths(n) == Min({IntMax, Float(Cent * Float(n))})
Stack(s, t)   == IF t \in DOMAIN Resources(s) THEN Amount(s, t) ELSE 0
Reproducible(s) == {"cargo", "fuel", "personnel", "space_used"} \subseteq DOMAIN Caps(s)

\* _cargo_line of the save, with the space used given.
Line(s, space) ==
    [caps |-> [d \in {"cargo", "fuel", "personnel"} |-> Hundredths(Caps(s)[d])],
     space |-> Hundredths(space), fuel |-> Hundredths(Stack(s, "fuel")),
     crew |-> Stack(s, "crew"), supplies |-> Hundredths(Stack(s, "supplies"))]

\* _variants: the line of a load that computes the space anew by the edit.
Moved(s, p) ==
    SumFunction([t \in {t \in Requested(p) \ {"credits", "story_points"} : Resources(s)[t].unit # Absent} |->
                    (Value(p, t) - Amount(p.source, t)) * Resources(s)[t].unit])

\* build_expected.
Expected(s, p) ==
    IF Reproducible(s)
    THEN [line |-> Line(s, Caps(s)["space_used"]),
          recomputed |-> IF Moved(s, p) # 0 THEN Line(s, Caps(s)["space_used"] + Moved(s, p)) ELSE Absent]
    ELSE Absent

\* A bug: a line the load computed anew counts as the expected one.
CargoRowLenient(expected, log) ==
    IF log.cargo = Absent THEN "NOT_IN_LOG"
    ELSE IF log.cargo \in {expected.line, expected.recomputed} THEN "MATCH" ELSE "DIFFERS"

\* _cargo_row.
CargoRow(expected, log) ==
    IF log.cargo = Absent THEN "NOT_IN_LOG" ELSE IF log.cargo = expected.line THEN "MATCH" ELSE "DIFFERS"

\* parse_probe_log: the digest kept in a file wins over that of a line.
Before(log, x) == IF log.file[x] # Absent THEN log.file[x] ELSE log.line[x]

\* _unchanged_row.
SectionRow(log, x) ==
    IF Absent \in {Before(log, x), log.after[x]} THEN "NOT_IN_LOG"
    ELSE IF Before(log, x) = log.after[x] THEN "MATCH" ELSE "DIFFERS"

\* verify_ingame.
Verdict(expected, log) ==
    LET rows == {SectionRow(log, x) : x \in Sections}
        all  == rows \cup (IF expected = Absent THEN {} ELSE {CargoRow(expected, log)})
    IN  IF log.cargo = Absent /\ \A x \in Sections : log.after[x] = Absent THEN "FAIL"
        ELSE IF "DIFFERS" \in rows THEN "FAIL"
        ELSE IF all \subseteq {"MATCH"} THEN "PASS" ELSE "REVIEW"

------------------------------------------------------------------------------
VARIABLES
    folder,      \* the save that is chosen
    edit,        \* the plan of an edit
    made,        \* the copy that was written, and the expectation in it
    game,        \* the save as the game has it after loading the copy
    log,         \* what it logged
    verdict,     \* of verify_ingame
    generation   \* copies of copies so far (bound)

editVars == <<folder, edit, made, game, log, verdict, generation>>

EditInit ==
    /\ folder \in SaveFolders
    /\ edit = Absent /\ made = Absent /\ game = Absent /\ log = Absent /\ verdict = Absent
    /\ generation = 0

ReviewEdit ==
    /\ edit = Absent
    /\ \E rs \in Asked, ids \in Catalogs, optIn \in BOOLEAN : edit' = EditPlan(folder, ids, rs, optIn)
    /\ UNCHANGED <<folder, made, game, log, verdict, generation>>

WriteEdit ==
    /\ edit # Absent /\ made = Absent /\ MayBeWritten(edit)
    /\ LET copy == Patched(folder, edit) IN made' = [save |-> copy, expected |-> Expected(copy, edit)]
    /\ UNCHANGED <<folder, edit, game, log, verdict, generation>>

\* What the game may make of it: the space used is kept or computed anew,
\* and a mod of the user's may change the supplies or a section.
LoadedSpace(s) == {Caps(s)["space_used"], s.rest + Filled(s)}
Loaded(s) ==
    LET got == [s EXCEPT !.held = [t \in DOMAIN @ |-> [@[t] EXCEPT !.n = Read(s.held[t].kind, s.held[t].n)]]]
    IN  {got} \cup (IF "supplies" \in DOMAIN got.held THEN {[got EXCEPT !.held["supplies"].n = 1]} ELSE {})

\* Each section has digest 1 in the save that was planned on.
Logs(g) ==
    [cargo : {Absent} \cup (IF Reproducible(g) THEN {Line(g, n) : n \in LoadedSpace(g)} ELSE {"a line"}),
     file  : {[x \in Sections |-> d] : d \in {1, Absent}},
     line  : {[x \in Sections |-> d] : d \in {2, Absent}},
     after : [Sections -> {1, 2, Absent}]]

LoadCopy ==
    /\ made # Absent /\ log = Absent
    /\ game' \in Loaded(made.save)
    /\ log' \in Logs(game')
    /\ UNCHANGED <<folder, edit, made, verdict, generation>>

VerifyInGame ==
    /\ log # Absent /\ verdict = Absent
    /\ verdict' = Verdict(made.expected, log)
    /\ UNCHANGED <<folder, edit, made, game, log, generation>>

\* The copy is chosen as the next save to edit, as it is or as the game saved
\* it, with the space it computes.
ChooseNext ==
    /\ made # Absent /\ generation < MaxCopies
    /\ folder' \in {made.save} \cup
           (IF game # Absent /\ "space_used" \in DOMAIN game.caps
            THEN {[game EXCEPT !.caps["space_used"] = game.rest + Filled(game)]} ELSE {})
    /\ generation' = generation + 1
    /\ edit' = Absent /\ made' = Absent /\ game' = Absent /\ log' = Absent /\ verdict' = Absent

\* The plan is given up: another amount is entered.
StartOver ==
    /\ edit # Absent
    /\ edit' = Absent /\ made' = Absent /\ game' = Absent /\ log' = Absent /\ verdict' = Absent
    /\ UNCHANGED <<folder, generation>>

EditNext == StartOver \/ ReviewEdit \/ WriteEdit \/ LoadCopy \/ VerifyInGame \/ ChooseNext

------------------------------------------------------------------------------
(* Properties.                                                             *)

\* What a save truly has to carry in a dimension.
Carried(s, d) ==
    CASE d = "fuel"      -> Stack(s, "fuel")
      [] d = "personnel" -> Stack(s, "crew") + Stack(s, "marines")
      [] d = "cargo"     -> s.rest + Filled(s)

\* A written copy carries no more than its capacities, however many amounts
\* are changed at once, except for what the save carried already and for the
\* cargo its own space figure fails to count (a copy keeps the figure of the
\* save it is made from, so that a copy of a copy may be over by that much).
CapacityKept ==
    made # Absent =>
        \A d \in DOMAIN Caps(made.save) \ {"space_used"} :
            LET uncounted == IF d = "cargo" /\ "space_used" \in DOMAIN Caps(folder)
                             THEN Max({0, Carried(folder, d) - Caps(folder)["space_used"]}) ELSE 0
            IN  \/ Carried(made.save, d) <= Caps(made.save)[d] + uncounted
                \/ Carried(made.save, d) = Carried(folder, d)

\* The game reads from a copy the amounts that were asked for and, of
\* everything else, what it reads from the save itself.
ReadAsRequested ==
    made # Absent =>
        \A t \in DOMAIN made.save.held :
            Read(made.save.held[t].kind, made.save.held[t].n)
              = IF t \in Requested(edit) THEN Value(edit, t) ELSE Read(folder.held[t].kind, folder.held[t].n)

\* A PASS means that the game holds the copy's supplies, fuel, crew and space
\* (as far as hundredths in an integer tell them apart); a FAIL of a load that
\* was logged, against the digests of the save, that a section changed; and the
\* copy that is loaded is the one that was asked for.
VerdictIsTrue ==
    /\ ReadAsRequested
    /\ verdict = "PASS" /\ made.expected # Absent =>
           /\ \A t \in {"supplies", "fuel", "crew"} :
                 \/ Stack(game, t) = Stack(made.save, t)
                 \/ Cent * Stack(game, t) > IntMax /\ Cent * Stack(made.save, t) > IntMax
           /\ log.cargo = Line(game, Caps(made.save)["space_used"])
    /\ verdict = "FAIL" /\ (\A x \in Sections : log.file[x] = 1) =>
           \/ \E x \in Sections : log.after[x] \notin {1, Absent}
           \/ log.cargo = Absent /\ \A x \in Sections : log.after[x] = Absent
===============================================================================
