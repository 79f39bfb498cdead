---------------------------- MODULE AnalysisReports ----------------------------
(* The analysis reports a scan leaves under the output root, and how the next  *)
(* scan reuses them: whole, when the scan manifest is unchanged and the report *)
(* manifest's fingerprint matches, or one by one, each by its own fingerprint. *)
(* A report is written by an atomic replace; the process may die between two.  *)
EXTENDS Analyses

CONSTANTS Heuristics, None,
    MaxEdits, MaxScans, MaxCrashes      \* bounds on the run, none of the code's

VARIABLES
    disk,         \* the game and mod files
    manifest,     \* scan_manifest.json: the rows of the last scan, or None
    impacts,      \* change_impact.json of the last scan
    reports,      \* the report files
    published,    \* analysis_report_manifest.json, or None
    state,        \* idle, writing, done
    heuristic,    \* the heuristic set of the scan under way
    unchanged,    \* reuse_if_unchanged
    outcome,      \* reuse_status
    todo,         \* the reports still to be written or reused
    edits, scans, crashes,
    seen, torn    \* history: the disk of the last scan; a run died since `published` was written

reportVars == <<disk, manifest, impacts, reports, published, state, heuristic, unchanged, outcome, todo,
                edits, scans, crashes, seen, torn>>

------------------------------------------------------------------------------
\* The documents, in the order in which a run writes them.
Capability(f) == <<"capability", f>>
Doctrine(f)   == <<"doctrine", f>>
Profile(h)    == <<"profile", h>>
Fragment(kind, m) == <<kind, m>>
Document(kind) == <<"document", kind>>
Kinds == {"weapons", "hullmods", "sources"}
KindOf == [weapons |-> Weapons, hullmods |-> Hullmods, sources |-> Hullmods]

FactionReports == {Capability(f) : f \in Factions} \cup {Doctrine(f) : f \in Factions}
Profiles == {Profile(h) : h \in HullIds}
Fragments == {Fragment(kind, m) : kind \in Kinds, m \in Mods}
Documents == {Document(kind) : kind \in Kinds}
Reports == FactionReports \cup Profiles \cup Fragments \cup Documents

Order == [capability |-> 1, doctrine |-> 2, profile |-> 3, weapons |-> 4, hullmods |-> 5, sources |-> 8]
OrderOfDocument == [weapons |-> 6, hullmods |-> 7, sources |-> 9]
Rank(r) == IF r[1] = "document" THEN OrderOfDocument[r[2]] ELSE Order[r[1]]

ModsWith(d, kind) == {m \in Mods : OfMod(Indexed(d, KindOf[kind]), m) # {}}
Due(d) ==
    {r \in Reports :
        \/ r[1] = "document"
        \/ r[1] \in Kinds /\ r[2] \in ModsWith(d, r[1])
        \/ r[1] \in {"capability", "doctrine", "profile"} /\ r[2] \in Indexed(d, Factions \cup HullIds)}
\* What the report manifest lists: the fragments stay out of it.
Listed(d) == {r \in Due(d) : r[1] \notin Kinds}

------------------------------------------------------------------------------
\* What a report says when it is computed from the disk d.
FragmentBody(d, kind, m) ==
    IF kind = "sources" THEN SourceEvidence(d, m) ELSE ClassificationEvidence(d, KindOf[kind], m)
Body(d, r) ==
    CASE r[1] = "capability" -> CapabilityEvidence(d, r[2])
      [] r[1] = "doctrine"   -> DoctrineEvidence(d, r[2])
      [] r[1] = "profile"    -> HullEvidence(d, r[2])
      [] r[1] = "document"   -> [m \in ModsWith(d, r[2]) |-> FragmentBody(d, r[2], m)]
      [] OTHER               -> FragmentBody(d, r[1], r[2])

------------------------------------------------------------------------------
\* The fingerprints: the flat sets of entities that the code declares.
FitDependenciesShallow(d, h) == EntitiesOf(d, VariantsForHull(d, h))    \* a mutant: the equipment left out
FitDependencies(d, h) ==
    EntitiesOf(d, VariantsForHull(d, h) \cup UNION {LoadoutNow(d, v).parts : v \in VariantsForHull(d, h)})
HullDependencies(d, h) == {Entity(d, h)} \cup FitDependencies(d, h)
CapabilityDependencies(d, f) ==
    {Entity(d, f)} \cup UNION {HullDependencies(d, h) : h \in Indexed(d, KnownNow(d, f))}
DoctrineVariants(d, f) == OfMod(Indexed(d, Variants), ModOf[f])
DoctrineDependencies(d, f) ==
    {Entity(d, f)} \cup EntitiesOf(d, DoctrineVariants(d, f)
                        \cup UNION {LoadoutNow(d, v).parts \cap Weapons : v \in DoctrineVariants(d, f)})
SourceDependencies(d, m) == [hullmods |-> EntitiesOf(d, OfMod(Hullmods, m)), javaHashes |-> d[Java(m)]]
Dependencies(d, r) ==
    CASE r[1] = "capability" -> CapabilityDependencies(d, r[2])
      [] r[1] = "doctrine"   -> DoctrineDependencies(d, r[2])
      [] r[1] = "profile"    -> HullDependencies(d, r[2])
      [] r[1] = "sources"    -> SourceDependencies(d, r[2])
      [] OTHER               -> EntitiesOf(d, OfMod(KindOf[r[1]], r[2]))

\* The scan manifest: a hash per entity.
RowsOf(d) == [e \in Entities |-> IF e \in Indexed(d, Entities) THEN Hash(d, e) ELSE Gone]
NoRows == [e \in Entities |-> Gone]

\* The whole set: the scan manifest, and the files it does not cover.
WholeDependencies(d) ==
    [manifest |-> RowsOf(d), extras |-> [file \in SpecFiles \cup Sources |-> d[file]]]

------------------------------------------------------------------------------
\* Change impact: which hulls and factions a changed row reaches, by the rows
\* of the scan at hand.
Changed(rows, d, es) == {e \in es : rows[e] # RowsOf(d)[e]}
TouchedByWeapons(rows, d) ==    \* a mutant: hullmods are not indexed in reverse
    {v \in Indexed(d, Variants) :
        LoadoutNow(d, v).hull \in Changed(rows, d, HullIds) \/ LoadoutNow(d, v).parts \cap Changed(rows, d, Weapons) # {}}
Touched(rows, d) ==
    {v \in Indexed(d, Variants) :
        \/ LoadoutNow(d, v).hull \in Changed(rows, d, HullIds)
        \/ LoadoutNow(d, v).parts \cap Changed(rows, d, Weapons \cup Hullmods) # {}}
TouchedHulls(rows, d) == {LoadoutNow(d, v).hull : v \in Touched(rows, d)}
KnowingOneOf(d, hs) == {f \in Indexed(d, Factions) : KnownNow(d, f) \cap hs # {}}
DirectImpacts(rows, d) ==
    [profiles   |-> Changed(rows, d, HullIds) \cup TouchedHulls(rows, d),
     capability |-> Changed(rows, d, Factions) \cup KnowingOneOf(d, TouchedHulls(rows, d)),
     knownList  |-> KnowingOneOf(d, Changed(rows, d, HullIds))]

------------------------------------------------------------------------------
ReportsInit ==
    /\ disk \in [Files -> Contents \cup {Gone}]
    /\ manifest = None /\ published = None
    /\ reports = [r \in Reports |-> None]
    /\ impacts = [profiles |-> {}, capability |-> {}, knownList |-> {}]
    /\ state = "idle" /\ outcome = None /\ heuristic \in Heuristics /\ unchanged = FALSE /\ todo = {}
    /\ edits = 0 /\ scans = 0 /\ crashes = 0
    /\ seen = disk /\ torn = FALSE

\* Between two scans the player edits, adds or removes a file, or deletes a report.
Edit(file, content) ==
    /\ state = "idle" /\ edits < MaxEdits /\ disk[file] # content
    /\ disk' = [disk EXCEPT ![file] = content]
    /\ edits' = edits + 1
    /\ UNCHANGED <<manifest, impacts, reports, published, state, heuristic, unchanged, outcome, todo,
                   scans, crashes, seen, torn>>
Delete(r) ==
    /\ state = "idle" /\ edits < MaxEdits /\ reports[r] # None
    /\ reports' = [reports EXCEPT ![r] = None]
    /\ edits' = edits + 1
    /\ UNCHANGED <<disk, manifest, impacts, published, state, heuristic, unchanged, outcome, todo,
                   scans, crashes, seen, torn>>

WholeReusable(h) ==
    /\ published # None
    /\ published.heuristic = h
    /\ published.fingerprint = WholeDependencies(disk)
    /\ \A r \in published.listed : reports[r] # None

\* A scan replaces the manifest before any report is looked at; a summary-only
\* scan, or the desktop's, looks at none.
Scan(h, summaryOnly) ==
    LET same == manifest = RowsOf(disk) IN
    /\ state = "idle" /\ scans < MaxScans
    /\ scans' = scans + 1
    /\ impacts' = DirectImpacts(IF manifest = None THEN NoRows ELSE manifest, disk)
    /\ manifest' = RowsOf(disk)
    /\ seen' = disk
    /\ IF summaryOnly THEN UNCHANGED <<state, heuristic, unchanged, outcome, todo>>
       ELSE /\ heuristic' = h /\ unchanged' = same
            /\ IF same /\ WholeReusable(h)
               THEN state' = "done" /\ outcome' = "REUSED_UNCHANGED" /\ todo' = {}
               ELSE state' = "writing" /\ outcome' = None /\ todo' = Due(disk)
    /\ UNCHANGED <<disk, reports, published, edits, crashes, torn>>

Reusable(r) ==
    /\ unchanged /\ r[1] # "document"
    /\ reports[r] # None
    /\ reports[r].heuristic = heuristic
    /\ reports[r].fingerprint = Dependencies(disk, r)
\* A document is put together from the fragments of its kind, reused or new.
Computed(r) ==
    IF r[1] = "document"
    THEN [heuristic |-> heuristic, fingerprint |-> None,
          body |-> [m \in ModsWith(disk, r[2]) |-> reports[Fragment(r[2], m)].body]]
    ELSE [heuristic |-> heuristic, fingerprint |-> Dependencies(disk, r), body |-> Body(disk, r)]

WriteReport(r) ==
    /\ state = "writing" /\ r \in todo
    /\ \A other \in todo : Rank(r) <= Rank(other)
    /\ reports' = IF Reusable(r) THEN reports ELSE [reports EXCEPT ![r] = Computed(r)]
    /\ todo' = todo \ {r}
    /\ UNCHANGED <<disk, manifest, impacts, published, state, heuristic, unchanged, outcome,
                   edits, scans, crashes, seen, torn>>

Publish ==
    /\ state = "writing" /\ todo = {}
    /\ published' = [heuristic |-> heuristic, fingerprint |-> WholeDependencies(disk), listed |-> Listed(disk)]
    /\ state' = "done" /\ outcome' = "RECOMPUTED" /\ torn' = FALSE
    /\ UNCHANGED <<disk, manifest, impacts, reports, heuristic, unchanged, todo, edits, scans, crashes, seen>>

Finish ==
    /\ state = "done" /\ state' = "idle"
    /\ UNCHANGED <<disk, manifest, impacts, reports, published, heuristic, unchanged, outcome, todo,
                   edits, scans, crashes, seen, torn>>

Crash ==
    /\ state = "writing" /\ crashes < MaxCrashes
    /\ state' = "idle" /\ todo' = {} /\ torn' = TRUE /\ crashes' = crashes + 1
    /\ UNCHANGED <<disk, manifest, impacts, reports, published, heuristic, unchanged, outcome, edits, scans, seen>>

ReportsNext ==
    \/ \E file \in Files, content \in Contents \cup {Gone} : Edit(file, content)
    \/ \E r \in Reports : Delete(r) \/ WriteReport(r)
    \/ \E h \in Heuristics, summaryOnly \in BOOLEAN : Scan(h, summaryOnly)
    \/ Publish \/ Finish \/ Crash

ReportsSpec == ReportsInit /\ [][ReportsNext]_reportVars

------------------------------------------------------------------------------
ReportsTypeOK ==
    /\ disk \in Disks /\ seen \in Disks
    /\ state \in {"idle", "writing", "done"} /\ heuristic \in Heuristics
    /\ unchanged \in BOOLEAN /\ torn \in BOOLEAN
    /\ outcome \in {None, "RECOMPUTED", "REUSED_UNCHANGED"}
    /\ todo \subseteq Reports
    /\ manifest = None \/ manifest \in [Entities -> Contents \cup {Gone}]

\* When a run ends, however much of it was reused, every report it lists says
\* what a computation from nothing would say.  Excepted is a set that is
\* reused whole after an earlier run died among its writes; and the base hull of
\* a skin is no evidence here (see HullEvidence).
ReportsAreCurrent ==
    (state = "done" /\ ~(outcome = "REUSED_UNCHANGED" /\ torn)) =>
        \A r \in Listed(disk) :
            reports[r] # None /\ reports[r].heuristic = heuristic /\ reports[r].body = Body(disk, r)

\* Each scan's change impact names every hull and faction whose evidence the
\* changed rows of hulls, weapons, hullmods and factions have changed since the
\* scan before.  (A changed variant file reaches nothing, nor does a .ship or
\* .wpn file: the impacts go by rows.)
Rowwise == \A file \in Files \ {Table(e) : e \in Entities \ Variants} : disk[file] = seen[file]
StaleIsAnnounced ==
    [][(scans' # scans /\ manifest # None /\ Rowwise) =>
        /\ \A h \in Indexed(disk, HullIds) :
               HullEvidence(seen, h) # HullEvidence(disk, h) => h \in impacts'.profiles
        /\ \A f \in Indexed(disk, Factions) :
               f \notin Indexed(seen, Factions) \/ CapabilityEvidence(seen, f) # CapabilityEvidence(disk, f)
                   => f \in impacts'.capability \cup impacts'.knownList]_reportVars
===============================================================================
