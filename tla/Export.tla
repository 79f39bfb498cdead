-------------------------------- MODULE Export --------------------------------
(***************************************************************************)
(* The compatibility-mod export: a generated fit is written as a variant   *)
(* file, with the mod's own two files and a manifest of what it was made   *)
(* from (output/writer.py, api.py run_export), and `check-export` compares *)
(* a manifest with the installation (output/staleness.py).  One process    *)
(* exports at a time; it may die between two files, and the user deletes   *)
(* and edits files and mods between and during the exports.                *)
(***************************************************************************)
EXTENDS Naturals, FiniteSets

CONSTANTS
    NoFile,           \* no file, no entity, no answer
    NotOurs,        \* a file that the program did not write
    ExportIds,      \* the ids of generated variants: a hull and a profile each
    SourceIds,      \* hulls and weapons
    HullOf,         \* [ExportIds -> SourceIds]
    Installs,       \* what a scan may find: functions from SourceIds to [hash, mod] or NoFile
    HeuristicSets,
    Fit             \* Fit[id][install][heuristics]: what is generated: its legality, weapons and the rest

\* validate_variant: a legal fit has an indexed hull and indexed weapons.
ASSUME FitAssumption ==
    /\ HullOf \in [ExportIds -> SourceIds]
    /\ Installs \subseteq [SourceIds -> {NoFile} \cup [hash : Nat, mod : Nat]]
    /\ \A id \in ExportIds, found \in Installs, set \in HeuristicSets :
          LET fit == Fit[id][found][set]
          IN /\ fit.weapons \subseteq SourceIds
             /\ fit.legal = TRUE => \A x \in fit.weapons \cup {HullOf[id]} : found[x] # NoFile

VARIABLES
    installed,      \* what the last scan found
    variants,       \* [ExportIds -> NoFile, NotOurs or the text of a fit]
    shared,         \* mod_info.json and README.txt: NoFile, NotOurs or "own"
    manifests,      \* [ExportIds -> NoFile, NotOurs or a manifest]
    export,         \* the export at work, NoFile when there is none
    finished,       \* the export that ended with the last step, NoFile otherwise
    parted          \* history: variants whose file the user changed beside a manifest that is still there

exportVars == <<installed, variants, shared, manifests, export, finished, parted>>
SharedFiles == {"mod_info", "readme"}

------------------------------------------------------------------------------
\* A variant file holds the fit and nothing of where it comes from.
Payload(id, fit) == [hull |-> HullOf[id], weapons |-> fit.weapons, rest |-> fit.rest]

\* The manifest names hull and weapons with their hashes, their mods and the heuristic set; the
\* timestamp is not compared.
Manifest(id, found, set, weapons) ==
    [variant |-> id, hull |-> HullOf[id], hullHash |-> found[HullOf[id]].hash,
     weapons |-> [w \in weapons |-> found[w].hash],
     mods |-> {found[x].mod : x \in weapons \cup {HullOf[id]}}, set |-> set]

\* What the program writes is neither nothing nor another's.
ASSUME TextAssumption ==
    \A id \in ExportIds, found \in Installs, set \in HeuristicSets :
        LET fit == Fit[id][found][set]
        IN fit.legal = TRUE => /\ Payload(id, fit) \notin {NoFile, NotOurs}
                               /\ Manifest(id, found, set, fit.weapons) \notin {NoFile, NotOurs}

\* check_generation_manifest: an unreadable manifest is stale, and one of which a source is gone,
\* changed, or comes from other mods.  Neither hullmods, wings nor heuristics are looked at.
Stale(manifest, found) ==
    \/ manifest \in {NoFile, NotOurs}
    \/ found[manifest.hull] = NoFile
    \/ found[manifest.hull].hash # manifest.hullHash
    \/ \E w \in DOMAIN manifest.weapons : found[w] = NoFile \/ found[w].hash # manifest.weapons[w]
    \/ manifest.mods # {found[x].mod : x \in {y \in DOMAIN manifest.weapons \cup {manifest.hull} : found[y] # NoFile}}

\* _write_text_if_same_or_missing, _write_manifest_if_compatible: what is there is kept if it is the
\* same, and refused otherwise.  A bug: whatever is there is taken for the same.
AnythingThere(old, new) == TRUE
SameOrMissing(old, new) == old \in {NoFile, new}
Written(old, new) == IF old = NoFile THEN new ELSE old

------------------------------------------------------------------------------
ExportInit ==
    /\ installed \in Installs
    /\ variants = [id \in ExportIds |-> NoFile] /\ manifests = [id \in ExportIds |-> NoFile]
    /\ shared = [f \in SharedFiles |-> NoFile]
    /\ export = NoFile /\ finished = NoFile /\ parted = {}

\* run_export generates and validates before anything is written; an export that is refused ends.
StartExport(id, set) ==
    LET fit == Fit[id][installed][set]
    IN /\ export = NoFile
       /\ export' = IF fit.legal = TRUE
                    THEN [id |-> id, set |-> set, found |-> installed, fit |-> fit, next |-> "variant"] ELSE NoFile
       /\ finished' = NoFile
       /\ parted' = IF manifests[id] = NoFile THEN parted \ {id} ELSE parted
       /\ UNCHANGED <<installed, variants, shared, manifests>>

Collides ==
    /\ export' = NoFile /\ finished' = NoFile
    /\ UNCHANGED <<installed, variants, shared, manifests, parted>>

WriteVariant ==
    /\ export # NoFile /\ export.next = "variant"
    /\ LET text == Payload(export.id, export.fit)
       IN IF SameOrMissing(variants[export.id], text)
          THEN /\ variants' = [variants EXCEPT ![export.id] = Written(@, text)]
               /\ export' = [export EXCEPT !.next = "mod_info"] /\ finished' = NoFile
               /\ UNCHANGED <<installed, shared, manifests, parted>>
          ELSE Collides

WriteShared(f) ==
    /\ export # NoFile /\ export.next = f
    /\ IF SameOrMissing(shared[f], "own")
       THEN /\ shared' = [shared EXCEPT ![f] = Written(@, "own")]
            /\ export' = [export EXCEPT !.next = IF f = "mod_info" THEN "readme" ELSE "manifest"] /\ finished' = NoFile
            /\ UNCHANGED <<installed, variants, manifests, parted>>
       ELSE Collides

WriteManifest ==
    /\ export # NoFile /\ export.next = "manifest"
    /\ LET manifest == Manifest(export.id, export.found, export.set, export.fit.weapons)
       IN IF SameOrMissing(manifests[export.id], manifest)
          THEN /\ manifests' = [manifests EXCEPT ![export.id] = Written(@, manifest)]
               /\ export' = NoFile /\ finished' = export
               /\ UNCHANGED <<installed, variants, shared, parted>>
          ELSE Collides

\* What happens between two steps: the process dies, a scan adopts what it found, the user
\* deletes or edits a file.  Installed mods do not change under a running export, which
\* works on the registry it was given.
ExporterDies ==
    /\ finished' = NoFile /\ export # NoFile /\ export' = NoFile
    /\ UNCHANGED <<installed, variants, shared, manifests, parted>>
Rescan ==
    /\ finished' = NoFile /\ \E found \in Installs \ {installed} : installed' = found
    /\ UNCHANGED <<variants, shared, manifests, export, parted>>
UserChangesVariant(id, text) ==
    /\ finished' = NoFile /\ variants[id] # NoFile
    /\ variants' = [variants EXCEPT ![id] = text]
    /\ parted' = IF manifests[id] # NoFile \/ (export # NoFile /\ export.id = id /\ export.next # "variant")
                 THEN parted \cup {id} ELSE parted
    /\ UNCHANGED <<installed, shared, manifests, export>>
UserChangesShared(f, text) ==
    /\ finished' = NoFile /\ shared[f] # NoFile
    /\ shared' = [shared EXCEPT ![f] = text]
    /\ UNCHANGED <<installed, variants, manifests, export, parted>>
UserDeletesManifest(id) ==
    /\ finished' = NoFile /\ manifests[id] # NoFile
    /\ manifests' = [manifests EXCEPT ![id] = NoFile]
    /\ parted' = IF export # NoFile /\ export.id = id THEN parted ELSE parted \ {id}
    /\ UNCHANGED <<installed, variants, shared, export>>

ExportNext ==
    \/ \E id \in ExportIds, set \in HeuristicSets : StartExport(id, set)
    \/ WriteVariant \/ WriteManifest
    \/ \E f \in SharedFiles : WriteShared(f)
    \/ ExporterDies \/ Rescan
    \/ \E id \in ExportIds, text \in {NoFile, NotOurs} : UserChangesVariant(id, text)
    \/ \E f \in SharedFiles, text \in {NoFile, NotOurs} : UserChangesShared(f, text)
    \/ \E id \in ExportIds : UserDeletesManifest(id)

ExportSpec == ExportInit /\ [][ExportNext]_exportVars

------------------------------------------------------------------------------
\* The two files of id are those of one generation: some scan and heuristic set give both.
Belong(id, text, manifest) ==
    \E found \in Installs, set \in HeuristicSets :
        LET fit == Fit[id][found][set]
        IN fit.legal = TRUE /\ text = Payload(id, fit) /\ manifest = Manifest(id, found, set, fit.weapons)

\* Provenance.  An export that is reported as complete left the fit it generated and a manifest that
\* check-export finds current against the scan it was made from.  A variant beside a manifest is the one
\* that the manifest describes, whatever died or was scanned, edited or refused in between, unless the user
\* changed the variant and left the manifest.
ExportIsTraceable ==
    /\ finished # NoFile =>
          /\ finished.id \notin parted => variants[finished.id] = Payload(finished.id, finished.fit)
          /\ ~Stale(manifests[finished.id], finished.found)
    /\ \A id \in ExportIds \ parted :
          variants[id] # NoFile /\ manifests[id] # NoFile => Belong(id, variants[id], manifests[id])

------------------------------------------------------------------------------
(* The inductive invariant: an export works on one generation, whose text is  *)
(* in place from its second file on, and a manifest is never alone.           *)
IsExport(x) ==
    /\ x = [id |-> x.id, set |-> x.set, found |-> x.found, fit |-> Fit[x.id][x.found][x.set], next |-> x.next]
    /\ x.id \in ExportIds /\ x.set \in HeuristicSets /\ x.found \in Installs
    /\ x.fit.legal = TRUE
InPlace(x) == x.id \notin parted => variants[x.id] = Payload(x.id, x.fit)

ExportTypes ==
    /\ installed \in Installs
    /\ variants = [id \in ExportIds |-> variants[id]]
    /\ manifests = [id \in ExportIds |-> manifests[id]]
ExportGoesOn == export # NoFile => IsExport(export) /\ (export.next # "variant" => InPlace(export))
FinishedInPlace ==
    finished # NoFile =>
        /\ IsExport(finished) /\ InPlace(finished)
        /\ manifests[finished.id] = Manifest(finished.id, finished.found, finished.set, finished.fit.weapons)
NeverAlone == \A id \in ExportIds \ parted : manifests[id] # NoFile => Belong(id, variants[id], manifests[id])

ExportInv == ExportTypes /\ ExportGoesOn /\ FinishedInPlace /\ NeverAlone
===============================================================================
