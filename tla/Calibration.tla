----------------------------- MODULE Calibration -----------------------------
(***************************************************************************)
(* Calibration: reviewers' expectations against what the program generates *)
(* (analysis/calibration*.py).  A review sheet is resolved against a scan, *)
(* triaged, helped by aliases and approved row by row by a named person;   *)
(* the approved rows are then measured under every heuristic set.  The     *)
(* same measurement serves label files that are evaluated from the desktop.*)
(* Each command is a process of its own and may die; between them mods are *)
(* updated.                                                                *)
(***************************************************************************)
EXTENDS Integers, Sequences, FiniteSetsExt, Functions

CONSTANTS
    Hulls,        \* the hulls that may be installed: [id, mod, name, skin]
    Meant,        \* the hulls that an alias may be added for
    RawRows,      \* the raw sheet: for each row id [name, parts, variant, hints]
    Parts,        \* the equipment the scan knows
    PartAliases,  \* what an equipment alias may stand for: token -> part
    Variant,      \* existing variants: id -> [hull, verdict]
    GeneratedBuilds,    \* run_generate's legal candidates: heuristic set -> hull -> [build, weapon]s
    Advised,      \* explain_native_candidate and its kin: hull -> [rank, recommended], or Missing
    SetOrder,     \* the registered heuristic sets in order; the first is the base
    Fixtures,     \* the label files
    MaxUpdates,   \* bound on the changes to the install
    MaxCrashes,   \* bound on the deaths
    MaxAliases,   \* bound on the aliases
    Missing       \* nothing there

\* A name is its text; letters is what norm_key leaves of it without what is
\* in parentheses, qual what is in them.
Name == [text : STRING, letters : STRING, qual : {"", "d", "vanilla"}]

ASSUME CalibrationAssumption ==
    /\ \A h \in Hulls : h.name \in Name
    /\ MaxUpdates \in Nat /\ MaxCrashes \in Nat /\ MaxAliases \in Nat

Key(h) == <<h.mod, h.id>>
Targets(h) == {<<h.id>>, Key(h)}
Sets   == {SetOrder[i] : i \in DOMAIN SetOrder}

VARIABLES
    version,     \* of each hull, 0 where it is not installed (its source hash)
    aliases,     \* calibration_aliases.json: hull names and equipment tokens
    sheet,       \* the resolved sheet
    journal,     \* .approvals.jsonl: the ids of the rows approved
    pending,     \* rows whose approval is written and not yet in the journal
    report,      \* what the command before this moment reported
    granted,     \* history: the hull each row stood for when it was approved
    lost,        \* history: rows whose approval was cut short
    updates, crashes

calibrationVars ==
    <<version, aliases, sheet, journal, pending, report, granted, lost, updates, crashes>>

Scan == {h \in Hulls : version[h] > 0}

------------------------------------------------------------------------------
(* Resolving (calibration_review.py).                                      *)

\* _prefer_base: narrow by what the sheet says, where that leaves any.
OrAll(narrowed, all) == IF narrowed = {} THEN all ELSE narrowed
PreferBase(name, hulls) ==
    LET sound   == OrAll({h \in hulls : (h.name.qual = "d") = (name.qual = "d")}, hulls)
        vanilla == IF name.qual = "vanilla" THEN OrAll({h \in sound : h.mod = "core"}, sound) ELSE sound
    IN  IF Cardinality(vanilla) > 1 THEN OrAll({h \in vanilla : ~h.skin}, vanilla) ELSE vanilla

Norm(name) == <<name.letters, name.qual>>
Stages(name) ==
    << [rule |-> "ALIAS",
        hulls |-> {h \in Scan : Norm(name) \in DOMAIN aliases.hulls /\ aliases.hulls[Norm(name)] \in Targets(h)}],
       [rule |-> "EXACT_NAME",         hulls |-> {h \in Scan : h.name.text = name.text}],
       [rule |-> "NORMALISED_NAME",    hulls |-> {h \in Scan : Norm(h.name) = Norm(name)}],
       [rule |-> "QUALIFIER_STRIPPED",
        hulls |-> IF name.letters = "" THEN {}
                  ELSE PreferBase(name, {h \in Scan : h.name.letters = name.letters})] >>

\* resolve_name: the first stage with a match decides, also for ambiguity.
ResolveName(name) ==
    LET hit == {i \in DOMAIN Stages(name) : Stages(name)[i].hulls # {}}
        s   == Stages(name)[Min(hit)]
    IN  IF hit = {} THEN [rule |-> "UNRESOLVED", hulls |-> {}]
        ELSE [rule |-> IF Cardinality(s.hulls) = 1 THEN s.rule ELSE "AMBIGUOUS", hulls |-> s.hulls]

\* check_equipment: the parts that name nothing scanned.
Unmatched(parts) ==
    {p \in parts : (IF p \in DOMAIN aliases.parts THEN aliases.parts[p] ELSE p) \notin Parts}

\* check_variant.
Judgement(variant, hull) ==
    IF variant = Missing \/ hull = Missing THEN "NOT_APPLICABLE"
    ELSE IF variant \in DOMAIN Variant /\ Variant[variant].hull = hull.id THEN Variant[variant].verdict
    ELSE "NO_SUCH_VARIANT"

Passing == {"LEGAL", "NOT_APPLICABLE"}

\* _resolve_row, of a row with the status it has.
ResolvedRow(row, status) ==
    LET found == ResolveName(row.name)
        hull  == IF found.rule \in {"UNRESOLVED", "AMBIGUOUS"} THEN Missing ELSE CHOOSE h \in found.hulls : TRUE
        unmatched == IF hull = Missing THEN {} ELSE Unmatched(row.parts)
        legality  == Judgement(row.variant, hull)
    IN  [hull |-> IF hull = Missing THEN Missing ELSE Key(hull), rule |-> found.rule,
         unmatched |-> unmatched, legality |-> legality, status |-> status,
         ready |-> hull # Missing /\ unmatched = {} /\ legality \in Passing /\ status = "PENDING"]

\* reasons_for of calibration_triage.py; {} is UNEXPLAINED.
Reasons(row) ==
    (IF row.rule \in {"UNRESOLVED", "AMBIGUOUS"} THEN {<<row.rule>>} ELSE {})
      \cup {<<"UNMATCHED_LOADOUT", p>> : p \in row.unmatched}
      \cup (IF row.legality = "NO_SUCH_VARIANT" THEN {<<"NO_SUCH_VARIANT">>}
            ELSE IF row.legality \notin Passing THEN {<<"LEGALITY_FAILED">>} ELSE {})

Open(id) == sheet[id].status = "PENDING"

------------------------------------------------------------------------------
(* Measuring (calibration_runner.py, calibration.py).  A label expects     *)
(* something of a hull: a build, a weapon on a mount, a rank, or whether   *)
(* the advisers recommend it; it is bound to the version of the hull.      *)

Observable == [hull |-> {"BUILD", "NEGATIVE", "TOP_SET", "EQUIPMENT"},
               faction |-> {"FACTION", "NEGATIVE", "TOP_SET"}]
InRegistry(h) == \A g \in Scan : g.id = h.id => g = h
NotInRankedSet == 1000000

\* What one label alone makes an observer record of its hull, or Missing.
Found(l, set) ==
    LET h     == l.hull
        legal == GeneratedBuilds[set][h]
        rank  == {i \in DOMAIN legal : legal[i].build \in l.expected}
    IN  IF l.kind \notin Observable[l.scheme] \/ ~InRegistry(h) THEN Missing
        ELSE IF l.scheme = "faction"
             THEN IF Advised[h] = Missing THEN Missing
                  ELSE IF l.kind = "TOP_SET" THEN Advised[h].rank
                  ELSE IF Advised[h].recommended THEN "RECOMMENDED" ELSE "NOT_RECOMMENDED"
        ELSE IF legal = <<>> THEN Missing
        ELSE CASE l.kind = "TOP_SET"   -> IF rank = {} THEN NotInRankedSet ELSE Min(rank)
               [] l.kind = "EQUIPMENT" -> legal[1].weapon
               [] l.kind \in {"BUILD", "NEGATIVE"} -> legal[1].build

\* A bug: a label that finds nothing empties the observation of its hull.
ObservedFresh(labels, i, set) ==
    LET same == {k \in DOMAIN labels : labels[k].hull = labels[i].hull /\ labels[k].scheme = labels[i].scheme}
        last == labels[Max(same)]
    IN  IF (last.kind = "TOP_SET") = (labels[i].kind = "TOP_SET") THEN Found(last, set) ELSE Missing

\* What is on record for label i when all are observed: observations are kept
\* by hull, and a rank apart from the rest, so that the last label to find
\* something decides.
Observed(labels, i, set) ==
    LET writers == {k \in DOMAIN labels :
                       /\ labels[k].hull = labels[i].hull /\ labels[k].scheme = labels[i].scheme
                       /\ (labels[k].kind = "TOP_SET") = (labels[i].kind = "TOP_SET")
                       /\ Found(labels[k], set) # Missing}
    IN  IF writers = {} THEN Missing ELSE Found(labels[Max(writers)], set)

Accepts(l, seen) ==
    CASE l.kind = "TOP_SET"  -> seen <= l.top
      [] l.kind = "NEGATIVE" -> seen \notin l.expected
      [] l.kind \notin {"TOP_SET", "NEGATIVE"} -> seen \in l.expected

\* evaluate_calibration, for label i.
Status(labels, i, set) ==
    LET l    == labels[i]
        seen == Observed(labels, i, set)
    IN  IF version[l.hull] # l.version THEN "STALE"
        ELSE IF seen = Missing THEN "UNSUPPORTED"
        ELSE IF Accepts(l, seen) THEN "MATCH" ELSE "MISMATCH"

Statuses(labels, set) == [i \in DOMAIN labels |-> Status(labels, i, set)]
Tally(labels, set, x) == Cardinality({i \in DOMAIN labels : Status(labels, i, set) = x})

\* labels_from_approved_rows, in the order of the sheet.
Hints(id) == RawRows[id].hints
Measured  == {id \in DOMAIN RawRows : /\ sheet[id].status = "APPROVED" /\ Hints(id) # {}
                                      /\ \E h \in Scan : Key(h) = sheet[id].hull}
LabelOf(id) ==
    LET h == CHOOSE h \in Scan : Key(h) = sheet[id].hull IN
    [row |-> id, hull |-> h, version |-> version[h], scheme |-> "hull", kind |-> "BUILD", expected |-> Hints(id), top |-> 3]
ApprovedLabels == [i \in 1..Cardinality(Measured) |->
                      LabelOf(CHOOSE id \in Measured : Cardinality({k \in Measured : k < id}) = i - 1)]

\* compare_calibration_reports: by hull, the last label of each.
Moves(labels, set) ==
    LET last == {i \in DOMAIN labels : \A k \in DOMAIN labels : labels[k].hull = labels[i].hull => k <= i} IN
    {<<labels[i].hull, Status(labels, i, SetOrder[1]), Status(labels, i, set)>> :
        i \in {i \in last : Status(labels, i, SetOrder[1]) # Status(labels, i, set)}}

\* _best: most matches, then fewest mismatches, then the latest set.
Better(labels, a, b) ==
    LET m(x) == Tally(labels, SetOrder[x], "MATCH")
        w(x) == Tally(labels, SetOrder[x], "MISMATCH")
    IN  m(a) > m(b) \/ (m(a) = m(b) /\ (w(a) < w(b) \/ (w(a) = w(b) /\ a > b)))
Best(labels) == CHOOSE a \in DOMAIN SetOrder : \A b \in DOMAIN SetOrder \ {a} : Better(labels, a, b)

------------------------------------------------------------------------------
(* The commands.                                                           *)

CalibrationInit ==
    /\ version = [h \in Hulls |-> 1]
    /\ aliases = [hulls |-> <<>>, parts |-> <<>>]
    /\ sheet = Missing /\ journal = {} /\ pending = {} /\ report = Missing
    /\ granted = [id \in DOMAIN RawRows |-> Missing] /\ lost = {}
    /\ updates = 0 /\ crashes = 0

\* add_alias, of a name that norm_key leaves something of.
AddAlias ==
    /\ pending = {}
    /\ Cardinality(DOMAIN aliases.hulls) + Cardinality(DOMAIN aliases.parts) < MaxAliases
    /\ \/ \E id \in DOMAIN RawRows, h \in Meant : \E target \in Targets(h) :
             /\ Norm(RawRows[id].name) # <<"", "">>
             /\ aliases' = [aliases EXCEPT !.hulls =
                    [n \in DOMAIN @ \cup {Norm(RawRows[id].name)} |-> IF n = Norm(RawRows[id].name) THEN target ELSE @[n]]]
       \/ \E p \in DOMAIN PartAliases :
             aliases' = [aliases EXCEPT !.parts = [q \in DOMAIN @ \cup {p} |-> PartAliases[q]]]
    /\ UNCHANGED <<report, version, sheet, journal, pending, granted, lost, updates, crashes>>

\* calibration resolve, of the raw sheet (which knows no review) or of a sheet
\* that is resolved already (whose reviews stand).
Resolve(anew) ==
    /\ pending = {}
    /\ anew \/ sheet # Missing
    /\ sheet' = [id \in DOMAIN RawRows |-> ResolvedRow(RawRows[id], IF anew THEN "PENDING" ELSE sheet[id].status)]
    /\ granted' = IF anew THEN [id \in DOMAIN RawRows |-> Missing] ELSE granted
    /\ UNCHANGED <<report, version, aliases, journal, pending, lost, updates, crashes>>

\* A bug: every listed row that is open is approved, ready or not.
ApproveListed(ids) ==
    /\ pending = {} /\ sheet # Missing
    /\ LET approved == {id \in ids : Open(id)} IN
       /\ approved # {}
       /\ sheet' = [id \in DOMAIN RawRows |-> IF id \in approved THEN [sheet[id] EXCEPT !.status = "APPROVED"] ELSE sheet[id]]
       /\ granted' = [id \in DOMAIN RawRows |-> IF id \in approved THEN sheet[id].hull ELSE granted[id]]
       /\ pending' = approved
    /\ UNCHANGED <<report, version, aliases, journal, lost, updates, crashes>>

\* calibration approve, of the rows listed: the sheet is replaced and only
\* then the journal appended to.
Approve(ids) ==
    /\ pending = {} /\ sheet # Missing
    /\ LET approved == {id \in ids : Open(id) /\ sheet[id].ready} IN
       /\ approved # {}
       /\ sheet' = [id \in DOMAIN RawRows |-> IF id \in approved THEN [sheet[id] EXCEPT !.status = "APPROVED"] ELSE sheet[id]]
       /\ granted' = [id \in DOMAIN RawRows |-> IF id \in approved THEN sheet[id].hull ELSE granted[id]]
       /\ pending' = approved
    /\ UNCHANGED <<report, version, aliases, journal, lost, updates, crashes>>

Journal ==
    /\ pending # {}
    /\ journal' = journal \cup pending /\ pending' = {}
    /\ UNCHANGED <<report, version, aliases, sheet, granted, lost, updates, crashes>>

Die ==
    /\ pending # {} /\ crashes < MaxCrashes
    /\ crashes' = crashes + 1
    /\ lost' = lost \cup pending /\ pending' = {}
    /\ UNCHANGED <<report, version, aliases, sheet, journal, granted, updates>>

\* calibration propose.
Propose ==
    /\ pending = {} /\ sheet # Missing
    /\ LET labels == ApprovedLabels IN
       report' = [of |-> "sheet", labels |-> labels,
                  moves |-> [x \in Sets |-> Moves(labels, x)],
                  statuses |-> [x \in Sets |-> Statuses(labels, x)],
                  best |-> IF labels = <<>> THEN Missing ELSE Best(labels)]
    /\ UNCHANGED <<version, aliases, sheet, journal, pending, granted, lost, updates, crashes>>

\* evaluate_local_workspace, on a label file.
Evaluate ==
    /\ \E f \in Fixtures, x \in Sets :
         report' = [of |-> "file", labels |-> f, set |-> x, statuses |-> Statuses(f, x)]
    /\ UNCHANGED <<version, aliases, sheet, journal, pending, granted, lost, updates, crashes>>

\* A mod is removed, installed or updated.
UpdateMod ==
    /\ updates < MaxUpdates
    /\ updates' = updates + 1
    /\ \E h \in Hulls, v \in 0..2 : v # version[h] /\ version' = [version EXCEPT ![h] = v]
    /\ UNCHANGED <<report, aliases, sheet, journal, pending, granted, lost, crashes>>

\* What a command reports is read before the next is given.
ReadReport ==
    /\ report # Missing /\ report' = Missing
    /\ UNCHANGED <<version, aliases, sheet, journal, pending, granted, lost, updates, crashes>>

CalibrationNext ==
    \/ ReadReport
    \/ /\ report = Missing
       /\ \/ AddAlias \/ (\E anew \in BOOLEAN : Resolve(anew)) \/ (\E ids \in SUBSET DOMAIN RawRows : Approve(ids))
          \/ Journal \/ Die \/ Propose \/ Evaluate \/ UpdateMod

------------------------------------------------------------------------------
(* Properties.                                                             *)

\* An approved row has its approval in the journal, unless the process died
\* right after the sheet was replaced, and was approved for some hull; and
\* triage, which judges the columns anew, gives a reason for exactly the open
\* rows that cannot be approved.
ApprovalIsAccounted ==
    sheet # Missing =>
        \A id \in DOMAIN RawRows :
            IF Open(id) THEN sheet[id].ready <=> Reasons(sheet[id]) = {}
            ELSE granted[id] # Missing /\ id \in journal \cup pending \cup lost

\* A label of a file is judged as if it were the only one, whatever else is
\* asked of its hull.
JudgedOnItsOwn ==
    report # Missing /\ report.of = "file" =>
        \A i \in DOMAIN report.labels :
            report.statuses[i] = Status(<<report.labels[i]>>, 1, report.set)

\* The same for a label about the build, where none of its hull is about its
\* equipment: labels of other kinds, of other hulls or of the other scheme, and
\* labels that find nothing, leave what was observed for it alone.
BuildsJudgedOnTheirOwn ==
    report # Missing /\ report.of = "file" =>
        \A i \in DOMAIN report.labels :
            LET labels == report.labels IN
            \/ labels[i].scheme # "hull" \/ labels[i].kind \notin {"BUILD", "NEGATIVE"}
            \/ \E k \in DOMAIN labels : labels[k].hull = labels[i].hull /\ labels[k].kind = "EQUIPMENT"
            \/ report.statuses[i] = Status(<<labels[i]>>, 1, report.set)
===============================================================================
