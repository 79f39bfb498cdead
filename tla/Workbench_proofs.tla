---------------------------- MODULE Workbench_proofs ---------------------------
(***************************************************************************)
(* Of the workbench, for every install: the two resolutions of a module    *)
(* map, that of the profiles and that of the audit, agree, and what is     *)
(* recommended as a ship is neither composed nor a component; an exported  *)
(* variant is what its manifest says; approvals are accounted for, and a   *)
(* label about a build is judged by its build; the library of retrofits    *)
(* loses nothing and asks first; an edited save stays within its figures   *)
(* and what is said of it in the game is true; the report of an acceptance *)
(* sweep is whole and a check is of its folder; a scan that mods were      *)
(* merged into resolves what a full scan would.                            *)
(***************************************************************************)
EXTENDS ModChecks, Export, Calibration, RetrofitLibrary, SaveEdits, Counting

\* Codes that say that a mapping was not resolved.
BlockingCodes ==
    {"AMBIGUOUS_MODULE_PARENT", "MISSING_MODULE_PARENT", "UNRESOLVED_MODULE_VARIANT", "UNRESOLVED_MODULE_HULL"}

\* A parent is reported exactly if it is not indexed.
LEMMA ParentReported ==
    ASSUME NEW reg, NEW v, v.what.hull # Gone
    PROVE  HasId(reg["hulls"], v.what.hull) <=> ParentCodes(reg, v) \cap BlockingCodes = {}
BY DEF ParentCodes, BlockingCodes

\* The children are reported exactly if one of them is not resolved under an indexed parent.
LEMMA ChildrenReported ==
    ASSUME NEW reg, NEW v, HasId(reg["hulls"], v.what.hull)
    PROVE  (\A x \in Children(v) : Resolution(reg, v, x) = "RESOLVED") <=> ChildCodes(reg, v) \cap BlockingCodes = {}
<1>1. \A x \in Children(v) : Resolution(reg, v, x) = "RESOLVED" <=>
          HasId(reg["variants"], x) /\ HasId(reg["hulls"], reg["variants"].by_id[x].what.hull)
  BY DEF Resolution
<1>2. ChildCodes(reg, v) \subseteq BlockingCodes
  BY DEF ChildCodes, BlockingCodes
<1>3. ChildCodes(reg, v) = {} <=>
          \A x \in Children(v) : HasId(reg["variants"], x) /\ HasId(reg["hulls"], reg["variants"].by_id[x].what.hull)
  BY DEF ChildCodes
<1> QED BY <1>1, <1>2, <1>3

\* analysis/complex_hull_audit.py resolves the mappings again, on its own, and never reads the profiles: for a
\* variant with mappings and a hull id, the audit reports nothing unresolved exactly if every mapping of the
\* variant's structural profile is resolved, so that a profile said to be certain is one without such a finding.
THEOREM AuditAgreesWithProfile ==
    ASSUME NEW reg, NEW v, v.what.hull # Gone, v.what.modules # Gone, NEW first \in DOMAIN Mappings(v)
    PROVE  ShipProfile(reg, v).certain <=> AuditedCodes(reg, v) \cap BlockingCodes = {}
<1> DEFINE resolved == \A x \in Children(v) : Resolution(reg, v, x) = "RESOLVED"
<1>1. ShipProfile(reg, v).certain <=> resolved
  BY DEF ShipProfile, ModuleProfile, Children
<1>2. AuditedCodes(reg, v) \cap BlockingCodes = {} <=>
          ParentCodes(reg, v) \cap BlockingCodes = {} /\ ChildCodes(reg, v) \cap BlockingCodes = {}
  BY DEF AuditedCodes, BlockingCodes
<1>3. CASE HasId(reg["hulls"], v.what.hull)
  BY <1>1, <1>2, <1>3, ParentReported, ChildrenReported
<1>4. CASE ~HasId(reg["hulls"], v.what.hull)
  <2>1. ~resolved
    BY <1>4 DEF Resolution, Children
  <2>2. ParentCodes(reg, v) \cap BlockingCodes # {}
    BY <1>4, ParentReported
  <2> QED BY <2>1, <2>2, <1>1, <1>2
<1> QED BY <1>3, <1>4

\* analysis/combat_entity.py: what may be ranked as a ship is deployed on its own and declares itself neither
\* parent nor part of another hull, and everything else says why not.
THEOREM RankedShipsStandAlone ==
    ASSUME NEW hull, Eligibility(hull).eligible
    PROVE  /\ Eligibility(hull).deployment = "INDEPENDENT"
           /\ Eligibility(hull).support = "FULL"
           /\ ~HullDefinition(hull).parent /\ ~Attached(hull)
BY DEF Eligibility, EntityKind, DeploymentModel, Support, Attached, HullDefinition

\* A variant with a module array about which the audit says nothing is never of a hull that a fit may be
\* recommended for: the advisors (analysis/gap/native.py, analysis/fleet_support.py) leave out every composite
\* parent that the audit knows, though neither consults the other.
THEOREM AuditedParentsAreNotRanked ==
    ASSUME NEW reg, NEW v, v.what.hull # Gone, v.what.modules # Gone, AuditedCodes(reg, v) = {}
    PROVE  /\ HasId(reg["hulls"], v.what.hull)
           /\ ~Eligibility(reg["hulls"].by_id[v.what.hull].what).eligible
<1>1. ParentCodes(reg, v) = {}
  BY DEF AuditedCodes
<1>2. HasId(reg["hulls"], v.what.hull)
  BY <1>1, ParentReported
<1>3. HullDefinition(reg["hulls"].by_id[v.what.hull].what).parent
  BY <1>1, <1>2 DEF ParentCodes
<1> QED BY <1>2, <1>3, RankedShipsStandAlone

------------------------------------------------------------------------------
\* What is written over an absent or equal file is there afterwards.
LEMMA WrittenIsNew == \A old, new : SameOrMissing(old, new) => Written(old, new) = new
BY DEF SameOrMissing, Written

\* The manifest of a legal fit is current against the scan it was made from.
LEMMA CurrentWhenMade ==
    ASSUME NEW x, IsExport(x)
    PROVE  ~Stale(Manifest(x.id, x.found, x.set, x.fit.weapons), x.found)
<1> DEFINE m == Manifest(x.id, x.found, x.set, x.fit.weapons)
<1>1. x.fit = Fit[x.id][x.found][x.set]
  BY DEF IsExport
<1>2. \A y \in x.fit.weapons \cup {HullOf[x.id]} : x.found[y] # NoFile
  BY <1>1, FitAssumption DEF IsExport
<1>3. m \notin {NoFile, NotOurs}
  BY <1>1, TextAssumption DEF IsExport
<1>4. /\ m.hull = HullOf[x.id] /\ m.hullHash = x.found[HullOf[x.id]].hash
      /\ DOMAIN m.weapons = x.fit.weapons
      /\ \A w \in x.fit.weapons : m.weapons[w] = x.found[w].hash
      /\ m.mods = {x.found[y].mod : y \in x.fit.weapons \cup {HullOf[x.id]}}
  BY DEF Manifest
<1>5. {y \in DOMAIN m.weapons \cup {m.hull} : x.found[y] # NoFile} = x.fit.weapons \cup {HullOf[x.id]}
  BY <1>2, <1>4
<1> QED BY <1>2, <1>3, <1>4, <1>5 DEF Stale

\* What is exported belongs together.
LEMMA ExportBelongs ==
    ASSUME NEW x, IsExport(x)
    PROVE  Belong(x.id, Payload(x.id, x.fit), Manifest(x.id, x.found, x.set, x.fit.weapons))
<1>1. x.fit = Fit[x.id][x.found][x.set] /\ x.fit.legal = TRUE
  BY DEF IsExport
<1>2. x.found \in Installs /\ x.set \in HeuristicSets
  BY DEF IsExport
<1> QED BY <1>1, <1>2 DEF Belong

\* A variant that belongs to a manifest is there.
LEMMA BelongingIsThere ==
    ASSUME NEW id \in ExportIds, NEW text, NEW manifest, Belong(id, text, manifest)
    PROVE  text # NoFile
<1>1. PICK found \in Installs, set \in HeuristicSets :
          Fit[id][found][set].legal = TRUE /\ text = Payload(id, Fit[id][found][set])
  BY DEF Belong
<1> QED BY <1>1, TextAssumption

LEMMA InitInv == ExportInit => ExportInv
BY DEF ExportInit, ExportInv, ExportTypes, ExportGoesOn, FinishedInPlace, NeverAlone

\* The same export at another file.
LEMMA NextFile ==
    ASSUME NEW x, IsExport(x), NEW step
    PROVE  LET y == [x EXCEPT !.next = step]
           IN IsExport(y) /\ y.id = x.id /\ y.set = x.set /\ y.found = x.found /\ y.fit = x.fit /\ y.next = step
BY DEF IsExport

\* An export starts with a legal fit of what is installed.
LEMMA StartInv ==
    ASSUME ExportInv, NEW id \in ExportIds, NEW set \in HeuristicSets, StartExport(id, set)
    PROVE  ExportInv'
<1>1. ExportTypes'
  BY DEF ExportInv, ExportTypes, StartExport
<1>2. ExportGoesOn'
  <2>1. CASE Fit[id][installed][set].legal = TRUE
    <3>1. export' = [id |-> id, set |-> set, found |-> installed, fit |-> Fit[id][installed][set], next |-> "variant"]
      BY <2>1 DEF StartExport
    <3> QED BY <3>1, <2>1 DEF ExportGoesOn, IsExport, ExportInv, ExportTypes
  <2>2. CASE Fit[id][installed][set].legal # TRUE
    BY <2>2 DEF StartExport, ExportGoesOn
  <2> QED BY <2>1, <2>2
<1>3. FinishedInPlace'
  BY DEF StartExport, FinishedInPlace
<1>4. NeverAlone'
  BY DEF ExportInv, StartExport, NeverAlone
<1> QED BY <1>1, <1>2, <1>3, <1>4 DEF ExportInv

\* A refused file ends the export and leaves every file as it is.
LEMMA CollidesInv == ASSUME ExportInv, Collides PROVE ExportInv'
BY DEF ExportInv, ExportTypes, ExportGoesOn, FinishedInPlace, NeverAlone, Collides

\* The variant is written before its manifest: if there is one, it stands as it was.
LEMMA WriteVariantInv == ASSUME ExportInv, WriteVariant PROVE ExportInv'
<1> DEFINE id == export.id
           text == Payload(export.id, export.fit)
<1>1. CASE ~SameOrMissing(variants[id], text)
  BY <1>1, CollidesInv DEF WriteVariant
<1>2. CASE SameOrMissing(variants[id], text)
  <2>1. IsExport(export) /\ id \in ExportIds
    BY DEF ExportInv, ExportGoesOn, WriteVariant, IsExport
  <2>2. /\ variants' = [variants EXCEPT ![id] = text]
        /\ export' = [export EXCEPT !.next = "mod_info"] /\ finished' = NoFile
        /\ UNCHANGED <<installed, shared, manifests, parted>>
    BY <1>2, WrittenIsNew DEF WriteVariant
  <2>3. ExportTypes' /\ variants'[id] = text
    BY <2>1, <2>2 DEF ExportInv, ExportTypes
  <2>4. ExportGoesOn'
    BY <2>1, <2>2, <2>3, NextFile DEF ExportGoesOn, InPlace
  <2>5. FinishedInPlace'
    BY <2>2 DEF FinishedInPlace
  <2>6. NeverAlone'
    <3> SUFFICES ASSUME NEW i \in ExportIds \ parted, manifests[i] # NoFile
                 PROVE  variants'[i] = variants[i]
      BY <2>2 DEF NeverAlone, ExportInv
    <3>1. CASE i # id
      BY <3>1, <2>1, <2>2 DEF ExportInv, ExportTypes
    <3>2. CASE i = id
      <4>1. variants[i] # NoFile
        BY BelongingIsThere DEF ExportInv, NeverAlone
      <4> QED BY <4>1, <3>2, <1>2, <2>3 DEF SameOrMissing
    <3> QED BY <3>1, <3>2
  <2> QED BY <2>3, <2>4, <2>5, <2>6 DEF ExportInv
<1> QED BY <1>1, <1>2

LEMMA WriteSharedInv == ASSUME ExportInv, NEW f \in SharedFiles, WriteShared(f) PROVE ExportInv'
<1>1. CASE ~SameOrMissing(shared[f], "own")
  BY <1>1, CollidesInv DEF WriteShared
<1>2. CASE SameOrMissing(shared[f], "own")
  <2>1. IsExport(export) /\ InPlace(export)
    BY DEF ExportInv, ExportGoesOn, WriteShared, SharedFiles
  <2>2. PICK step : export' = [export EXCEPT !.next = step] /\ step \in {"readme", "manifest"}
    BY <1>2 DEF WriteShared
  <2>3. finished' = NoFile /\ UNCHANGED <<installed, variants, manifests, parted>>
    BY <1>2 DEF WriteShared
  <2>4. ExportGoesOn'
    BY <2>1, <2>2, <2>3, NextFile DEF ExportGoesOn, InPlace
  <2> QED BY <2>3, <2>4 DEF ExportInv, ExportTypes, FinishedInPlace, NeverAlone
<1> QED BY <1>1, <1>2

\* The manifest is of the generation whose text is in place.
LEMMA WriteManifestInv == ASSUME ExportInv, WriteManifest PROVE ExportInv'
<1> DEFINE id == export.id
           new == Manifest(export.id, export.found, export.set, export.fit.weapons)
<1>1. CASE ~SameOrMissing(manifests[id], new)
  BY <1>1, CollidesInv DEF WriteManifest
<1>2. CASE SameOrMissing(manifests[id], new)
  <2>1. IsExport(export) /\ InPlace(export) /\ id \in ExportIds
    BY DEF ExportInv, ExportGoesOn, WriteManifest, IsExport
  <2>2. /\ manifests' = [manifests EXCEPT ![id] = new]
        /\ export' = NoFile /\ finished' = export
        /\ UNCHANGED <<installed, variants, shared, parted>>
    BY <1>2, WrittenIsNew DEF WriteManifest
  <2>3. ExportTypes' /\ manifests'[id] = new
    BY <2>1, <2>2 DEF ExportInv, ExportTypes
  <2>4. ExportGoesOn'
    BY <2>2 DEF ExportGoesOn
  <2>5. FinishedInPlace'
    BY <2>1, <2>2, <2>3 DEF FinishedInPlace, InPlace
  <2>6. NeverAlone'
    <3> SUFFICES ASSUME NEW i \in ExportIds \ parted, manifests'[i] # NoFile
                 PROVE  Belong(i, variants[i], manifests'[i])
      BY <2>2 DEF NeverAlone
    <3>1. CASE i # id
      BY <3>1, <2>1, <2>2 DEF ExportInv, ExportTypes, NeverAlone
    <3>2. CASE i = id
      BY <3>2, <2>1, <2>3, ExportBelongs DEF InPlace
    <3> QED BY <3>1, <3>2
  <2> QED BY <2>3, <2>4, <2>5, <2>6 DEF ExportInv
<1> QED BY <1>1, <1>2

\* Death and a scan leave the files alone.
LEMMA OutsideInv == ASSUME ExportInv, ExporterDies \/ Rescan PROVE ExportInv'
<1>1. finished' = NoFile /\ UNCHANGED <<variants, manifests, parted>>
  BY DEF ExporterDies, Rescan
<1>2. installed' \in Installs
  BY DEF ExporterDies, Rescan, ExportInv, ExportTypes
<1>3. export' = NoFile \/ export' = export
  BY DEF ExporterDies, Rescan
<1> QED BY <1>1, <1>2, <1>3 DEF ExportInv, ExportTypes, ExportGoesOn, InPlace, FinishedInPlace, NeverAlone

\* A variant changed beside its manifest, or under its export, is parted from it.
LEMMA ChangesVariantInv ==
    ASSUME ExportInv, NEW id \in ExportIds, NEW text, UserChangesVariant(id, text)
    PROVE  ExportInv'
<1>1. /\ finished' = NoFile /\ UNCHANGED <<installed, manifests, export>>
      /\ variants' = [variants EXCEPT ![id] = text]
      /\ parted \subseteq parted'
      /\ manifests[id] # NoFile => id \in parted'
      /\ export # NoFile /\ export.id = id /\ export.next # "variant" => id \in parted'
  BY DEF UserChangesVariant
<1>2. ExportTypes' /\ \A i \in ExportIds : i # id => variants'[i] = variants[i]
  BY <1>1 DEF ExportInv, ExportTypes
<1>3. ExportGoesOn'
  <2> SUFFICES ASSUME export # NoFile, export.next # "variant", export.id \notin parted'
               PROVE  variants'[export.id] = Payload(export.id, export.fit)
    BY <1>1 DEF ExportInv, ExportGoesOn, InPlace
  <2>1. export.id # id /\ export.id \in ExportIds
    BY <1>1 DEF ExportInv, ExportGoesOn, IsExport
  <2> QED BY <2>1, <1>1, <1>2 DEF ExportInv, ExportGoesOn, InPlace
<1>4. FinishedInPlace'
  BY <1>1 DEF FinishedInPlace
<1>5. NeverAlone'
  <2> SUFFICES ASSUME NEW i \in ExportIds \ parted', manifests[i] # NoFile
               PROVE  i \notin parted /\ variants'[i] = variants[i]
    BY <1>1 DEF ExportInv, NeverAlone
  <2> QED BY <1>1, <1>2
<1> QED BY <1>2, <1>3, <1>4, <1>5 DEF ExportInv

LEMMA ChangesSharedInv ==
    ASSUME ExportInv, NEW f, NEW text, UserChangesShared(f, text)
    PROVE  ExportInv'
BY DEF ExportInv, ExportTypes, ExportGoesOn, InPlace, FinishedInPlace, NeverAlone, UserChangesShared

\* Without its manifest a variant has nothing to disagree with.
LEMMA DeletesManifestInv ==
    ASSUME ExportInv, NEW id \in ExportIds, UserDeletesManifest(id)
    PROVE  ExportInv'
<1>1. /\ finished' = NoFile /\ UNCHANGED <<installed, variants, export>>
      /\ manifests' = [manifests EXCEPT ![id] = NoFile]
      /\ parted' = parted \/ (parted' = parted \ {id} /\ (export = NoFile \/ export.id # id))
  BY DEF UserDeletesManifest
<1>2. ExportTypes' /\ manifests'[id] = NoFile /\ \A i \in ExportIds : i # id => manifests'[i] = manifests[i]
  BY <1>1 DEF ExportInv, ExportTypes
<1>3. ExportGoesOn'
  BY <1>1 DEF ExportInv, ExportGoesOn, InPlace
<1>4. FinishedInPlace'
  BY <1>1 DEF FinishedInPlace
<1>5. NeverAlone'
  <2> SUFFICES ASSUME NEW i \in ExportIds \ parted', manifests'[i] # NoFile
               PROVE  i \notin parted /\ manifests'[i] = manifests[i]
    BY <1>1 DEF ExportInv, NeverAlone
  <2> QED BY <1>1, <1>2
<1> QED BY <1>2, <1>3, <1>4, <1>5 DEF ExportInv

LEMMA StepInv == ExportInv /\ [ExportNext]_exportVars => ExportInv'
<1> SUFFICES ASSUME ExportInv, [ExportNext]_exportVars PROVE ExportInv'
  OBVIOUS
<1>1. CASE \E id \in ExportIds, set \in HeuristicSets : StartExport(id, set)
  BY <1>1, StartInv
<1>2. CASE WriteVariant
  BY <1>2, WriteVariantInv
<1>3. CASE WriteManifest
  BY <1>3, WriteManifestInv
<1>4. CASE \E f \in SharedFiles : WriteShared(f)
  BY <1>4, WriteSharedInv
<1>5. CASE ExporterDies \/ Rescan
  BY <1>5, OutsideInv
<1>6. CASE \E id \in ExportIds, text \in {NoFile, NotOurs} : UserChangesVariant(id, text)
  BY <1>6, ChangesVariantInv
<1>7. CASE \E f \in SharedFiles, text \in {NoFile, NotOurs} : UserChangesShared(f, text)
  BY <1>7, ChangesSharedInv
<1>8. CASE \E id \in ExportIds : UserDeletesManifest(id)
  BY <1>8, DeletesManifestInv
<1>9. CASE UNCHANGED exportVars
  BY <1>9 DEF exportVars, ExportInv, ExportTypes, ExportGoesOn, InPlace, FinishedInPlace, NeverAlone
<1> QED BY <1>1, <1>2, <1>3, <1>4, <1>5, <1>6, <1>7, <1>8, <1>9 DEF ExportNext

LEMMA InvTraces == ExportInv => ExportIsTraceable
<1> SUFFICES ASSUME ExportInv PROVE ExportIsTraceable
  OBVIOUS
<1>1. ASSUME finished # NoFile PROVE ~Stale(manifests[finished.id], finished.found)
  BY <1>1, CurrentWhenMade DEF ExportInv, FinishedInPlace
<1>2. ASSUME finished # NoFile, finished.id \notin parted
      PROVE  variants[finished.id] = Payload(finished.id, finished.fit)
  BY <1>2 DEF ExportInv, FinishedInPlace, InPlace
<1> QED BY <1>1, <1>2 DEF ExportIsTraceable, ExportInv, NeverAlone

\* output/writer.py: whatever dies, is scanned, edited or deleted between its steps, an export that completes
\* leaves the fit it generated and a manifest that check-export finds current against the scan it was made from,
\* and a variant beside a manifest is the one the manifest describes unless the user changed it.
THEOREM Traceable == ExportSpec => []ExportIsTraceable
BY InitInv, StepInv, InvTraces, PTL DEF ExportSpec

------------------------------------------------------------------------------
(* Calibration.                                                            *)

CalibrationSpec == CalibrationInit /\ [][CalibrationNext]_calibrationVars

\* Nothing is neither a hull nor the key of one.
MissingIsNoHull == Missing \notin Hulls /\ \A h \in Hulls : Key(h) # Missing

\* A name that is resolved stands for an installed hull.
LEMMA ResolvedIsInstalled ==
    ASSUME NEW name, ResolveName(name).rule \notin {"UNRESOLVED", "AMBIGUOUS"}
    PROVE  ResolveName(name).hulls # {} /\ ResolveName(name).hulls \subseteq Hulls
<1> DEFINE hit == {i \in DOMAIN Stages(name) : Stages(name)[i].hulls # {}}
<1>1. DOMAIN Stages(name) = 1..4 /\ \A i \in 1..4 : Stages(name)[i].hulls \subseteq Scan
  <2>1. PreferBase(name, {h \in Scan : h.name.letters = name.letters}) \subseteq Scan
    BY DEF PreferBase, OrAll
  <2>2. DOMAIN Stages(name) = 1..4
    BY DEF Stages
  <2>3. Stages(name)[1].hulls \subseteq Scan /\ Stages(name)[2].hulls \subseteq Scan /\ Stages(name)[3].hulls \subseteq Scan
    BY DEF Stages
  <2>4. Stages(name)[4].hulls \subseteq Scan
    BY <2>1 DEF Stages
  <2>5. \A i \in 1..4 : i = 1 \/ i = 2 \/ i = 3 \/ i = 4
    OBVIOUS
  <2> QED BY <2>2, <2>3, <2>4, <2>5
<1>2. hit # {} /\ ResolveName(name).hulls = Stages(name)[Min(hit)].hulls
  BY DEF ResolveName
<1>3. \E x \in hit : \A y \in hit : x <= y
  <2>1. hit \subseteq 1..4
    BY <1>1
  <2> HIDE DEF hit
  <2>2. PICK e \in hit : e \in 1..4
    BY <1>2, <2>1
  <2>3. e = 1 \/ e = 2 \/ e = 3 \/ e = 4
    BY <2>2
  <2>4. CASE 1 \in hit
    BY <2>1, <2>4
  <2>5. CASE 1 \notin hit /\ 2 \in hit
    <3>1. \A y \in hit : 2 <= y
      BY <2>1, <2>5
    <3> QED BY <2>5, <3>1
  <2>6. CASE 1 \notin hit /\ 2 \notin hit /\ 3 \in hit
    <3>1. \A y \in hit : 3 <= y
      BY <2>1, <2>6
    <3> QED BY <2>6, <3>1
  <2>7. CASE 1 \notin hit /\ 2 \notin hit /\ 3 \notin hit /\ 4 \in hit
    <3>1. \A y \in hit : 4 <= y
      BY <2>1, <2>7
    <3> QED BY <2>7, <3>1
  <2> QED BY <2>3, <2>4, <2>5, <2>6, <2>7
<1>4. Min(hit) \in hit
  BY <1>3 DEF Min
<1> QED BY <1>1, <1>2, <1>4 DEF Scan

\* A row as resolving and approving leave it: what triage finds no reason against can be approved.
RowSound(row) ==
    /\ row = [hull |-> row.hull, rule |-> row.rule, unmatched |-> row.unmatched, legality |-> row.legality,
              status |-> row.status, ready |-> row.ready]
    /\ row.ready => row.hull # Missing
    /\ row.status = "PENDING" => (row.ready <=> Reasons(row) = {})

LEMMA ResolvedIsSound ==
    ASSUME MissingIsNoHull, NEW row, NEW status
    PROVE  RowSound(ResolvedRow(row, status)) /\ ResolvedRow(row, status).status = status
<1> DEFINE found == ResolveName(row.name)
           known == found.rule \notin {"UNRESOLVED", "AMBIGUOUS"}
           hull == IF found.rule \in {"UNRESOLVED", "AMBIGUOUS"} THEN Missing ELSE CHOOSE h \in found.hulls : TRUE
           unmatched == IF hull = Missing THEN {} ELSE Unmatched(row.parts)
           legality == Judgement(row.variant, hull)
           r == ResolvedRow(row, status)
<1>1. /\ r = [hull |-> IF hull = Missing THEN Missing ELSE Key(hull), rule |-> found.rule,
              unmatched |-> unmatched, legality |-> legality, status |-> status,
              ready |-> hull # Missing /\ unmatched = {} /\ legality \in Passing /\ status = "PENDING"]
  BY DEF ResolvedRow
<1>2. hull # Missing <=> known
  BY ResolvedIsInstalled DEF MissingIsNoHull
<1>3. hull # Missing => Key(hull) # Missing
  BY ResolvedIsInstalled DEF MissingIsNoHull
<1> HIDE DEF hull, unmatched, legality, found, r
<1>4. /\ r.hull = (IF hull = Missing THEN Missing ELSE Key(hull)) /\ r.rule = found.rule
      /\ r.unmatched = unmatched /\ r.legality = legality /\ r.status = status
      /\ r.ready <=> (hull # Missing /\ unmatched = {} /\ legality \in Passing /\ status = "PENDING")
  BY <1>1
<1>5. Reasons(r) = {} <=> known /\ unmatched = {} /\ legality \in Passing
  <2>1. Reasons(r) = {} <=> known /\ unmatched = {} /\ ~(legality = "NO_SUCH_VARIANT" \/ legality \notin Passing)
    BY <1>4 DEF Reasons
  <2> QED BY <2>1 DEF Passing
<1>6. r = [hull |-> r.hull, rule |-> r.rule, unmatched |-> r.unmatched, legality |-> r.legality,
           status |-> r.status, ready |-> r.ready]
  BY <1>1
<1> QED BY <1>2, <1>3, <1>4, <1>5, <1>6 DEF RowSound, r

\* Beside the property: rows are sound, and whatever is approved has its grant and its account.
ApprovalInv ==
    /\ granted = [id \in DOMAIN RawRows |-> granted[id]]
    /\ sheet # Missing =>
          /\ sheet = [id \in DOMAIN RawRows |-> sheet[id]]
          /\ \A id \in DOMAIN RawRows :
                /\ RowSound(sheet[id])
                /\ ~Open(id) => granted[id] # Missing /\ id \in journal \cup pending \cup lost

LEMMA ResolveKeeps ==
    ASSUME MissingIsNoHull, ApprovalInv, NEW anew \in BOOLEAN, Resolve(anew)
    PROVE  ApprovalInv'
<1>1. /\ anew \/ sheet # Missing
      /\ sheet' = [id \in DOMAIN RawRows |-> ResolvedRow(RawRows[id], IF anew THEN "PENDING" ELSE sheet[id].status)]
      /\ granted' = IF anew THEN [id \in DOMAIN RawRows |-> Missing] ELSE granted
      /\ UNCHANGED <<journal, pending, lost>>
  BY DEF Resolve
<1>2. ASSUME NEW id \in DOMAIN RawRows
      PROVE  RowSound(sheet'[id]) /\ sheet'[id].status = IF anew THEN "PENDING" ELSE sheet[id].status
  BY <1>1, ResolvedIsSound
<1>3. \A id \in DOMAIN RawRows : RowSound(sheet[id])'
  BY <1>2 DEF RowSound, Reasons
<1>4. ASSUME NEW id \in DOMAIN RawRows, ~Open(id)'
      PROVE  (granted[id] # Missing /\ id \in journal \cup pending \cup lost)'
  BY <1>1, <1>2, <1>4 DEF ApprovalInv, Open
<1>5. (granted = [id \in DOMAIN RawRows |-> granted[id]])' /\ (sheet = [id \in DOMAIN RawRows |-> sheet[id]])'
  BY <1>1 DEF ApprovalInv
<1> QED BY <1>3, <1>4, <1>5 DEF ApprovalInv

LEMMA ApproveKeeps ==
    ASSUME ApprovalInv, NEW ids \in SUBSET DOMAIN RawRows, Approve(ids)
    PROVE  ApprovalInv'
<1> DEFINE approved == {id \in ids : Open(id) /\ sheet[id].ready}
<1>1. /\ sheet # Missing
      /\ sheet' = [id \in DOMAIN RawRows |-> IF id \in approved THEN [sheet[id] EXCEPT !.status = "APPROVED"] ELSE sheet[id]]
      /\ granted' = [id \in DOMAIN RawRows |-> IF id \in approved THEN sheet[id].hull ELSE granted[id]]
      /\ pending' = approved /\ pending = {} /\ UNCHANGED <<journal, lost>>
  BY DEF Approve
<1>2. ASSUME NEW id \in DOMAIN RawRows, id \in approved
      PROVE  /\ RowSound(sheet[id])' /\ granted'[id] # Missing /\ id \in pending'
  <2>1. RowSound(sheet[id]) /\ sheet[id].ready
    BY <1>1, <1>2 DEF ApprovalInv
  <2>2. sheet'[id] = [sheet[id] EXCEPT !.status = "APPROVED"] /\ granted'[id] = sheet[id].hull
    BY <1>1, <1>2
  <2>3. sheet'[id] = [hull |-> sheet[id].hull, rule |-> sheet[id].rule, unmatched |-> sheet[id].unmatched,
                      legality |-> sheet[id].legality, status |-> "APPROVED", ready |-> sheet[id].ready]
    BY <2>1, <2>2 DEF RowSound
  <2>4. granted'[id] # Missing
    BY <2>1, <2>2 DEF RowSound
  <2>5. RowSound(sheet[id])'
    BY <2>1, <2>3 DEF RowSound
  <2> QED BY <1>1, <1>2, <2>4, <2>5
<1>3. ASSUME NEW id \in DOMAIN RawRows, id \notin approved
      PROVE  /\ RowSound(sheet[id])'
             /\ ~Open(id)' => (granted[id] # Missing /\ id \in journal \cup pending \cup lost)'
  <2>1. sheet'[id] = sheet[id] /\ granted'[id] = granted[id]
    BY <1>1, <1>3
  <2> QED BY <1>1, <2>1 DEF ApprovalInv, RowSound, Reasons, Open
<1>4. (granted = [id \in DOMAIN RawRows |-> granted[id]])' /\ (sheet = [id \in DOMAIN RawRows |-> sheet[id]])'
  BY <1>1
<1> QED BY <1>2, <1>3, <1>4 DEF ApprovalInv

LEMMA ApprovalStep == MissingIsNoHull /\ ApprovalInv /\ [CalibrationNext]_calibrationVars => ApprovalInv'
<1> SUFFICES ASSUME MissingIsNoHull, ApprovalInv, [CalibrationNext]_calibrationVars PROVE ApprovalInv'
  OBVIOUS
<1>1. CASE Journal \/ Die
  <2>1. UNCHANGED <<sheet, granted>> /\ journal \cup pending \cup lost \subseteq (journal \cup pending \cup lost)'
    BY <1>1 DEF Journal, Die
  <2> QED BY <2>1 DEF ApprovalInv, RowSound, Reasons, Open
<1>2. CASE UNCHANGED <<sheet, granted, journal, pending, lost>>
  BY <1>2 DEF ApprovalInv, RowSound, Reasons, Open
<1>3. CASE AddAlias \/ Propose \/ Evaluate \/ UpdateMod \/ ReadReport \/ UNCHANGED calibrationVars
  BY <1>2, <1>3 DEF AddAlias, Propose, Evaluate, UpdateMod, ReadReport, calibrationVars
<1> QED BY <1>1, <1>3, ResolveKeeps, ApproveKeeps DEF CalibrationNext

\* Through resolving, aliases, approvals, deaths between sheet and journal and changes of the install, an
\* approved row has been approved for some hull and its approval is in the journal unless the process died
\* in between, and triage finds a reason against exactly the open rows that cannot be approved.
THEOREM ApprovalsAreAccounted ==
    ASSUME MissingIsNoHull PROVE CalibrationSpec => []ApprovalIsAccounted
<1>1. CalibrationInit => ApprovalInv
  BY DEF CalibrationInit, ApprovalInv
<1>2. ApprovalInv => ApprovalIsAccounted
  BY DEF ApprovalInv, ApprovalIsAccounted, RowSound, Open
<1>3. ApprovalInv /\ [CalibrationNext]_calibrationVars => ApprovalInv'
  BY ApprovalStep
<1> QED BY <1>1, <1>2, <1>3, PTL DEF CalibrationSpec

------------------------------------------------------------------------------
\* A label file is a list.
FixturesAreLists == \A f \in Fixtures : \E n \in Nat : DOMAIN f = 1..n

LEMMA MaxExists ==
    ASSUME NEW n \in Nat, NEW S \in SUBSET (1..n), S # {}
    PROVE  Max(S) \in S
<1> DEFINE Above(x) == {y \in S : y > x}
           T == {Above(x) : x \in S}
<1>1. T \subseteq FiniteSubsetsOf(1..n) /\ T # {}
  <2>1. IsFiniteSet(1..n)
    BY FS_Interval
  <2>2. ASSUME NEW x \in S PROVE Above(x) \subseteq 1..n
    OBVIOUS
  <2>3. ASSUME NEW x \in S PROVE IsFiniteSet(Above(x))
    BY <2>1, <2>2, FS_Subset
  <2> QED BY <2>2, <2>3 DEF FiniteSubsetsOf
<1>2. PICK m \in T : \A t \in T : <<t, m>> \notin StrictSubsetOrdering(1..n)
  BY <1>1, FS_StrictSubsetOrderingWellFounded, WFMin
<1>3. PICK x \in S : m = Above(x)
  BY <1>2
<1>4. ASSUME NEW y \in S, y > x PROVE FALSE
  <2>1. Above(y) \subseteq Above(x) /\ y \in Above(x) /\ y \notin Above(y)
    <3>1. x \in Int /\ y \in Int /\ \A z \in S : z \in Int
      OBVIOUS
    <3>2. \A z \in S : z > y => z > x
      BY <1>4, <3>1
    <3>3. ~(y > y)
      BY <3>1
    <3>4. y \in Above(x) /\ y \notin Above(y)
      BY <1>4, <3>3
    <3> QED BY <3>2, <3>4
  <2>2. Above(y) \in T /\ <<Above(y), Above(x)>> \in StrictSubsetOrdering(1..n)
    BY <2>1 DEF StrictSubsetOrdering
  <2> QED BY <1>2, <1>3, <2>2
<1>5. \A y \in S : x >= y
  BY <1>4
<1> QED BY <1>5 DEF Max

\* What is found for a label about the build is the hull's best build, whatever the label expects.
Builds == {"BUILD", "NEGATIVE"}
LEMMA BuildOfHull ==
    ASSUME NEW a, NEW b, NEW x, a.hull = b.hull, a.scheme = "hull", b.scheme = "hull", a.kind \in Builds, b.kind \in Builds
    PROVE  Found(a, x) = Found(b, x)
BY DEF Found, Observable, Builds

LEMMA JudgedAlone ==
    ASSUME NEW labels, NEW n \in Nat, DOMAIN labels = 1..n, NEW i \in 1..n, NEW x,
           labels[i].scheme = "hull", labels[i].kind \in Builds,
           \A k \in 1..n : labels[k].hull = labels[i].hull => labels[k].kind # "EQUIPMENT"
    PROVE  Status(labels, i, x) = Status(<<labels[i]>>, 1, x)
<1> DEFINE l == labels[i]
           writers == {k \in DOMAIN labels :
                         /\ labels[k].hull = labels[i].hull /\ labels[k].scheme = labels[i].scheme
                         /\ (labels[k].kind = "TOP_SET") = (labels[i].kind = "TOP_SET")
                         /\ Found(labels[k], x) # Missing}
<1>1. ASSUME NEW k \in writers PROVE Found(labels[k], x) = Found(l, x) /\ Found(l, x) # Missing
  <2>1. labels[k].kind # "TOP_SET" /\ labels[k].kind # "EQUIPMENT"
    BY <1>1 DEF Builds
  <2>2. labels[k].kind \in Observable["hull"]
    BY <1>1 DEF Found
  <2>3. labels[k].kind \in Builds
    BY <2>1, <2>2 DEF Observable, Builds
  <2> QED BY <1>1, <2>3, BuildOfHull
<1>2. Found(l, x) # Missing => i \in writers
  OBVIOUS
<1>3. Observed(labels, i, x) = Found(l, x)
  <2>1. CASE writers = {}
    BY <1>2, <2>1 DEF Observed
  <2>2. CASE writers # {}
    <3>1. Max(writers) \in writers
      BY <2>2, MaxExists
    <3>2. Observed(labels, i, x) = Found(labels[Max(writers)], x)
      BY <2>2 DEF Observed
    <3> QED BY <1>1, <3>1, <3>2
  <2> QED BY <2>1, <2>2
<1>4. Observed(<<l>>, 1, x) = Found(l, x)
  <2> DEFINE own == {k \in DOMAIN <<l>> :
                        /\ <<l>>[k].hull = <<l>>[1].hull /\ <<l>>[k].scheme = <<l>>[1].scheme
                        /\ (<<l>>[k].kind = "TOP_SET") = (<<l>>[1].kind = "TOP_SET")
                        /\ Found(<<l>>[k], x) # Missing}
  <2>0. DOMAIN <<l>> = {1} /\ <<l>>[1] = l
    OBVIOUS
  <2>1. own = IF Found(l, x) = Missing THEN {} ELSE {1}
    BY <2>0
  <2>2. Max({1}) = 1
    BY DEF Max
  <2> QED BY <2>0, <2>1, <2>2 DEF Observed
<1> HIDE DEF l
<1>5. l = labels[i] /\ <<labels[i]>>[1] = l
  BY DEF l
<1> QED BY <1>3, <1>4, <1>5 DEF Status

\* How labels come out depends on what is installed only.
LEMMA SameInstallSameStatus ==
    ASSUME version' = version, NEW CONSTANT labels, NEW CONSTANT i, NEW CONSTANT x
    PROVE  Status(labels, i, x)' = Status(labels, i, x)
<1>1. \A h : InRegistry(h)' = InRegistry(h)
  BY DEF InRegistry, Scan
<1>2. \A l : Found(l, x)' = Found(l, x)
  <2> TAKE l
  <2>1. InRegistry(l.hull)' = InRegistry(l.hull)
    BY <1>1
  <2> QED BY <2>1 DEF Found
<1>3. Observed(labels, i, x)' = Observed(labels, i, x)
  <2>1. \A k : Found(labels[k], x)' = Found(labels[k], x)
    BY <1>2
  <2> QED BY <2>1 DEF Observed
<1> QED BY <1>3 DEF Status

\* Whatever else is asked of a hull in a file, but for its equipment, a label about the build comes out as
\* it would alone, for any lists of labels, candidates and changes of the install.
THEOREM BuildsAreJudgedAlone ==
    ASSUME FixturesAreLists PROVE CalibrationSpec => []BuildsJudgedOnTheirOwn
<1>1. CalibrationInit => BuildsJudgedOnTheirOwn
  BY DEF CalibrationInit, BuildsJudgedOnTheirOwn
<1>2. BuildsJudgedOnTheirOwn /\ [CalibrationNext]_calibrationVars => BuildsJudgedOnTheirOwn'
  <2> SUFFICES ASSUME BuildsJudgedOnTheirOwn, [CalibrationNext]_calibrationVars PROVE BuildsJudgedOnTheirOwn'
    OBVIOUS
  <2>1. CASE UNCHANGED <<report, version>>
    <3>1. PICK r : r = report
      OBVIOUS
    <3>2. \A i : Status(<<r.labels[i]>>, 1, r.set)' = Status(<<r.labels[i]>>, 1, r.set)
      BY <2>1, SameInstallSameStatus
    <3>3. report' = r
      BY <2>1, <3>1
    <3> QED BY <3>1, <3>2, <3>3 DEF BuildsJudgedOnTheirOwn
  <2>2. CASE report' = Missing
    BY <2>2 DEF BuildsJudgedOnTheirOwn
  <2>3. CASE Propose
    <3>1. report'.of = "sheet"
      BY <2>3 DEF Propose
    <3> QED BY <3>1 DEF BuildsJudgedOnTheirOwn
  <2>4. CASE Evaluate
    <3>1. PICK f \in Fixtures, x \in Sets : report' = [of |-> "file", labels |-> f, set |-> x, statuses |-> Statuses(f, x)]
      BY <2>4 DEF Evaluate
    <3>2. /\ report'.labels = f /\ report'.set = x
          /\ \A i \in DOMAIN f : report'.statuses[i] = Status(f, i, x)
          /\ version' = version
      BY <2>4, <3>1 DEF Statuses, Evaluate
    <3>3. PICK n \in Nat : DOMAIN f = 1..n
      BY DEF FixturesAreLists
    <3>4. ASSUME NEW i \in DOMAIN f
          PROVE  \/ f[i].scheme # "hull" \/ f[i].kind \notin {"BUILD", "NEGATIVE"}
                 \/ \E k \in DOMAIN f : f[k].hull = f[i].hull /\ f[k].kind = "EQUIPMENT"
                 \/ report'.statuses[i] = Status(<<f[i]>>, 1, x)
      BY <3>2, <3>3, <3>4, JudgedAlone DEF Builds
    <3>5. \A i \in DOMAIN f : Status(<<f[i]>>, 1, x) = Status(<<f[i]>>, 1, x)'
      BY <3>2, SameInstallSameStatus
    <3> QED BY <3>2, <3>4, <3>5 DEF BuildsJudgedOnTheirOwn
  <2>5. \A anew \in BOOLEAN : Resolve(anew) => UNCHANGED <<report, version>>
    BY DEF Resolve
  <2>6. \A ids : Approve(ids) => UNCHANGED <<report, version>>
    BY DEF Approve
  <2>7. report = Missing /\ UpdateMod => report' = Missing
    BY DEF UpdateMod
  <2>8. AddAlias \/ Journal \/ Die \/ UNCHANGED calibrationVars => UNCHANGED <<report, version>>
    BY DEF AddAlias, Journal, Die, calibrationVars
  <2>9. ReadReport => report' = Missing
    BY DEF ReadReport
  <2> QED BY <2>1, <2>2, <2>3, <2>4, <2>5, <2>6, <2>7, <2>8, <2>9 DEF CalibrationNext
<1> QED BY <1>1, <1>2, PTL DEF CalibrationSpec

------------------------------------------------------------------------------
(* An operation that starts is a Gui record.                               *)
LEMMA StartType ==
  ASSUME TypeInv, NEW op \in GuiOps, NEW at \in GuiSteps, NEW v \in Ids, NEW t \in Texts \cup {Nothing},
         at # "preserve", Start(op, at, v, t)
  PROVE  TypeInv'
<1>1. gui' \in Gui
  <2>1. FALSE \in BOOLEAN /\ Nothing \in Texts \cup {Nothing}
    OBVIOUS
  <2> QED
    BY <2>1 DEF Start, Gui
<1>2. gui'.at = at
  BY DEF Start
<1> QED
  BY <1>1, <1>2 DEF Start, TypeInv, TypeOK, Keeping, libraryVars, modVars

(* So is one that moves on, to a step where it has nothing to preserve.    *)
LEMMA GotoType ==
  ASSUME TypeInv, NEW at \in GuiSteps, at # "preserve", Goto(at)
  PROVE  TypeInv'
<1>1. gui' \in Gui /\ gui'.at = at
  BY DEF Goto, TypeInv, TypeOK, Gui
<1> QED
  BY <1>1 DEF Goto, TypeInv, TypeOK, Keeping, libraryVars, modVars

(* And one that ends.                                                      *)
LEMMA RestsType ==
  ASSUME TypeInv
  PROVE  Rested \in Gui /\ Rested.at = "idle"
<1>1. "none" \in GuiOps /\ "idle" \in GuiSteps /\ Nothing \in Texts \cup {Nothing}
  BY DEF GuiOps, GuiSteps
<1> QED
  BY <1>1 DEF TypeInv, TypeOK, Gui, Rested

LEMMA StopType ==
  ASSUME TypeInv, Stop
  PROVE  TypeInv'
BY RestsType DEF Stop, Rests, TypeInv, TypeOK, Keeping, libraryVars, modVars

LEMMA TargetType ==
  ASSUME TypeOK
  PROVE  Target \in Texts \cup {Nothing}
<1>1. gui.id \in Ids
  BY DEF TypeOK, Gui
<1> QED
  BY <1>1 DEF TypeOK, Target

LEMMA LibraryInit == Init => LibraryInv
<1> SUFFICES ASSUME Init PROVE LibraryInv
  OBVIOUS
<1>1. gui \in Gui /\ gui.at = "idle"
  BY Zenon DEF Init
<1>2. populate \in Populate /\ populate.at = "idle"
  BY Zenon DEF Init
<1>3. TypeInv
  BY <1>1, <1>2 DEF Init, TypeInv, TypeOK, Keeping
<1>4. TargetKept /\ AskedOrAbsent /\ WorkerFoundNone
  BY <1>1, <1>2 DEF Init, TargetKept, AskedOrAbsent, WorkerFoundNone
<1> QED
  BY <1>3, <1>4 DEF LibraryInv

LEMMA TypeStep == TypeInv /\ [Next]_vars => TypeInv'
<1> SUFFICES ASSUME TypeInv, [Next]_vars PROVE TypeInv'
  OBVIOUS
<1> USE LibraryAssumption DEF TypeInv
<1>0. gui.id \in Ids /\ gui.text \in Texts \cup {Nothing} /\ gui.kept \in Texts \cup {Nothing}
  BY DEF TypeOK, Gui
<1>1. CASE StartSave
  <2>1. PICK v \in UserIds, t \in Texts : Start("save", "check", v, t)
    BY <1>1 DEF StartSave
  <2> QED
    BY <2>1, StartType DEF GuiOps, GuiSteps
<1>2. CASE StartCopy
  <2>1. PICK v \in UserIds, t \in Texts :
          Start("copy", IF file[v] # Nothing THEN "ask" ELSE "check", v, t)
    BY <1>2 DEF StartCopy
  <2> QED
    BY <2>1, StartType DEF GuiOps, GuiSteps
<1>3. CASE StartRestore
  <2>1. PICK v \in Ids : \E t \in history[v] : Start("restore", "backup", v, t)
    BY <1>3 DEF StartRestore
  <2>2. PICK t \in history[v] : Start("restore", "backup", v, t)
    BY <2>1
  <2>3. t \in Texts
    BY <2>2 DEF TypeOK
  <2> QED
    BY <2>2, <2>3, StartType DEF GuiOps, GuiSteps
<1>4. CASE StartPublish
  <2>1. PICK v \in Ids : Start("publish", "check", v, file[v])
    BY <1>4 DEF StartPublish
  <2>2. file[v] \in Texts \cup {Nothing}
    BY DEF TypeOK
  <2> QED
    BY <2>1, <2>2, StartType DEF GuiOps, GuiSteps
<1>5. CASE AnswerYes
  <2>1. gui' \in Gui /\ gui'.at = "check"
    BY <1>5 DEF AnswerYes, TypeOK, Gui, GuiSteps
  <2> QED
    BY <1>5, <2>1 DEF AnswerYes, TypeOK, Keeping, libraryVars, modVars
<1>6. CASE AnswerNo
  BY <1>6, StopType DEF AnswerNo
<1>7. CASE Check
  BY <1>7, GotoType, StopType DEF Check, GuiSteps
<1>8. CASE AlreadyPublished
  <2>1. gui' \in Gui /\ gui'.at = "idle"
    BY <1>8, RestsType DEF AlreadyPublished, Rests
  <2> QED
    BY <1>0, <1>8, <2>1 DEF AlreadyPublished, Rests, TypeOK, Keeping, libraryVars, modVars
<1>9. CASE Backup
  <2>1. gui' \in Gui
    BY <1>9, TargetType DEF Backup, TypeOK, Gui, GuiSteps
  <2>2. gui'.at = "preserve" => gui'.kept # Nothing
    BY <1>9 DEF Backup, TypeOK, Gui
  <2> QED
    BY <1>9, <2>1, <2>2 DEF Backup, TypeOK, Keeping, libraryVars, modVars
<1>10. CASE Preserve
  <2>1. gui' \in Gui /\ gui'.at = "write"
    BY <1>10 DEF Preserve, TypeOK, Gui, GuiSteps
  <2>2. gui.kept \in Texts
    BY <1>0, <1>10 DEF Preserve, Keeping
  <2>3. history' \in [Ids -> SUBSET Texts] /\ oldPublished' \in [Ids -> SUBSET Texts]
    BY <1>10, <2>2 DEF Preserve, TypeOK, modVars
  <2> QED
    BY <1>10, <2>1, <2>3 DEF Preserve, TypeOK, Keeping, modVars
<1>11. CASE Write
  <2>1. gui' \in Gui /\ gui'.at = "idle"
    BY <1>11, RestsType DEF Write, Rests
  <2> QED
    BY <1>0, <1>11, <2>1 DEF Write, TypeOK, Keeping, modVars
<1>12. CASE WritePublished
  <2>1. gui' \in Gui /\ gui'.at = "modinfo"
    BY <1>12 DEF WritePublished, TypeOK, Gui, GuiSteps
  <2> QED
    BY <1>0, <1>12, <2>1 DEF WritePublished, TypeOK, Keeping, libraryVars
<1>13. CASE WriteModInfo
  <2>1. gui' \in Gui /\ gui'.at = "idle"
    BY <1>13, RestsType DEF WriteModInfo, Rests
  <2> QED
    BY <1>0, <1>13, <2>1 DEF WriteModInfo, Rests, TypeOK, Keeping, libraryVars
<1>14. CASE Fail
  BY <1>14, StopType DEF Fail
<1>15. CASE StartPopulate
  BY <1>15 DEF StartPopulate, TypeOK, Keeping, Populate, libraryVars, modVars
<1>16. CASE PopulateEnds
  BY <1>16 DEF PopulateEnds, TypeOK, Keeping, Populate, libraryVars, modVars
<1>17. CASE PopulateWrites
  <2>1. file' \in [Ids -> Texts \cup {Nothing}]
    <3>1. \A v \in PopulateIds : Generated[v] \in Texts
      OBVIOUS
    <3> QED
      BY <1>17, <3>1 DEF PopulateWrites, TypeOK, Keeping
  <2> QED
    BY <1>17, <2>1 DEF PopulateWrites, TypeOK, Keeping, Populate, modVars
<1>18. ASSUME NEW v \in PopulateIds, PopulateSkips(v) PROVE TypeInv'
  BY <1>18 DEF PopulateSkips, TypeOK, Keeping, libraryVars, modVars
<1>19. ASSUME NEW v \in PopulateIds, PopulateFinds(v) PROVE TypeInv'
  BY <1>19 DEF PopulateFinds, TypeOK, Keeping, Populate, libraryVars, modVars
<1>20. CASE Crash
  <2>1. gui' \in Gui /\ gui'.at = "idle"
    BY <1>20, RestsType DEF Crash, Rests
  <2> QED
    BY <1>20, <2>1 DEF Crash, TypeOK, Keeping, Populate, libraryVars, modVars
<1>21. CASE UNCHANGED vars
  BY <1>21 DEF vars, TypeOK, Keeping, libraryVars, modVars
<1> QED
  BY <1>1, <1>2, <1>3, <1>4, <1>5, <1>6, <1>7, <1>8, <1>9, <1>10, <1>11, <1>12, <1>13, <1>14,
     <1>15, <1>16, <1>17, <1>18, <1>19, <1>20, <1>21
     DEF Next, UserStarts, GuiStep, Worker

(* The three facts about the files found, kept by the steps of the user,   *)
(* of the GUI thread and of the worker.                                    *)
FilesInv == TargetKept /\ AskedOrAbsent /\ WorkerFoundNone

(* A step that starts or moves an operation to a step that claims nothing  *)
(* of the files, and leaves the files alone.                               *)
LEMMA QuietStep ==
  ASSUME LibraryInv, gui'.at \notin {"backup", "preserve", "write"}, UNCHANGED <<libraryVars, populate>>,
         "worker" \in raced => "worker" \in raced'
  PROVE  FilesInv'
BY DEF FilesInv, LibraryInv, TargetKept, AskedOrAbsent, WorkerFoundNone, libraryVars

LEMMA QuietStop ==
  ASSUME LibraryInv, Stop
  PROVE  FilesInv'
<1>1. gui'.at = "idle" /\ raced' = raced \ {"gui"} /\ UNCHANGED <<libraryVars, populate>>
  BY RestsType DEF Stop, Rests, LibraryInv
<1> QED
  BY <1>1, QuietStep

(* An operation that goes on over files that nobody touches.               *)
LEMMA RacedKept ==
  ASSUME gui'.op = gui.op, gui'.id = gui.id, UNCHANGED <<file, raced>>
  PROVE  GuiRaced' = GuiRaced
BY DEF GuiRaced

LEMMA FilesStep ==
  ASSUME LibraryInv, [Next]_vars
  PROVE  FilesInv'
<1> USE LibraryAssumption
<1> DEFINE Facts == TypeOK /\ TargetKept /\ AskedOrAbsent /\ WorkerFoundNone
<1>0. /\ gui.id \in Ids /\ Facts
      /\ gui' \in Gui
  <2>1. TypeInv'
    BY TypeStep DEF LibraryInv
  <2> QED
    BY <2>1 DEF LibraryInv, TypeInv, TypeOK, Gui
<1>1. CASE StartSave
  BY <1>1, QuietStep DEF StartSave, Start
<1>2. CASE StartCopy
  BY <1>2, QuietStep DEF StartCopy, Start
<1>3. CASE StartRestore
  BY <1>0, <1>3 DEF StartRestore, Start, FilesInv, TargetKept, AskedOrAbsent, WorkerFoundNone, libraryVars
<1>4. CASE StartPublish
  BY <1>4, QuietStep DEF StartPublish, Start
<1>5. CASE AnswerYes
  <2>1. gui'.at = "check"
    BY <1>5 DEF AnswerYes, LibraryInv, TypeInv, TypeOK, Gui
  <2> QED
    BY <1>5, <2>1, QuietStep DEF AnswerYes
<1>6. CASE AnswerNo
  BY <1>6, QuietStop DEF AnswerNo
<1>7. CASE Check
  <2>1. CASE Stop
    BY <2>1, QuietStop
  <2>2. ASSUME NEW at \in {"ask", "write", "backup"}, Goto(at),
               at = "write" => Target = Nothing, at = "backup" => gui.replace
        PROVE  FilesInv'
    <3>1. gui'.at = at /\ gui'.op = gui.op /\ gui'.id = gui.id /\ gui'.replace = gui.replace
      BY <1>0, <2>2 DEF Goto, TypeOK, Gui
    <3> QED
      BY <1>0, <2>2, <3>1 DEF Goto, FilesInv, TargetKept, AskedOrAbsent, WorkerFoundNone, Target,
         libraryVars, modVars
  <2> QED
    BY <1>7, <2>1, <2>2 DEF Check
<1>8. CASE AlreadyPublished
  <2>1. gui'.at = "idle" /\ raced' = raced \ {"gui"}
    BY <1>8, RestsType DEF AlreadyPublished, Rests, LibraryInv
  <2> QED
    BY <1>8, <2>1, QuietStep DEF AlreadyPublished
<1>9. CASE Backup
  <2>1. /\ gui'.at = IF Target = Nothing THEN "write" ELSE "preserve"
        /\ gui'.kept = Target
        /\ gui'.op = gui.op /\ gui'.id = gui.id /\ gui'.replace = gui.replace
    BY <1>0, <1>9 DEF Backup, TypeOK, Gui
  <2> QED
    BY <1>0, <1>9, <2>1 DEF Backup, FilesInv, TargetKept, AskedOrAbsent, WorkerFoundNone, Target,
       libraryVars, modVars
<1>10. CASE Preserve
  <2>1. /\ gui'.at = "write"
        /\ gui'.op = gui.op /\ gui'.id = gui.id /\ gui'.replace = gui.replace
    BY <1>0, <1>10 DEF Preserve, TypeOK, Gui
  <2>2. /\ Target' = Target /\ GuiRaced' = GuiRaced
        /\ gui.kept = Target \/ GuiRaced
        /\ UNCHANGED <<file, populate, raced>>
    BY <1>0, <1>10, <2>1, RacedKept DEF Preserve, TargetKept, Target, modVars
  <2>3. AskedOrAbsent' /\ WorkerFoundNone'
    BY <1>0, <1>10, <2>1, <2>2 DEF Preserve, AskedOrAbsent, WorkerFoundNone
  <2>4. CASE GuiRaced
    BY <2>1, <2>2, <2>3, <2>4 DEF FilesInv, TargetKept
  <2>5. CASE ~GuiRaced /\ gui.op = "publish"
    <3>1. Target \in oldPublished'[gui.id]
      BY <1>0, <1>10, <2>2, <2>5 DEF Preserve, TypeOK
    <3> QED
      BY <2>1, <2>2, <2>3, <2>5, <3>1 DEF FilesInv, TargetKept
  <2>6. CASE ~GuiRaced /\ gui.op # "publish"
    <3>1. Target \in history'[gui.id]
      BY <1>0, <1>10, <2>2, <2>6 DEF Preserve, TypeOK
    <3> QED
      BY <2>1, <2>2, <2>3, <2>6, <3>1 DEF FilesInv, TargetKept
  <2> QED
    BY <2>4, <2>5, <2>6
<1>11. CASE Write
  <2>1. gui'.at = "idle"
    BY <1>11, RestsType DEF Write, LibraryInv
  <2>2. ASSUME populate.at = "writing"
        PROVE  file'[populate.id] = Nothing \/ "worker" \in raced'
    <3>1. CASE populate.id = gui.id
      BY <1>11, <2>2, <3>1 DEF Write
    <3>2. CASE populate.id # gui.id
      BY <1>0, <1>11, <2>2, <3>2 DEF Write, WorkerFoundNone, TypeOK, Populate
    <3> QED
      BY <3>1, <3>2
  <2> QED
    BY <1>11, <2>1, <2>2 DEF Write, FilesInv, TargetKept, AskedOrAbsent, WorkerFoundNone
<1>12. CASE WritePublished
  <2>1. gui'.at = "modinfo"
    BY <1>12 DEF WritePublished, LibraryInv, TypeInv, TypeOK, Gui
  <2> QED
    BY <1>12, <2>1, QuietStep DEF WritePublished
<1>13. CASE WriteModInfo
  <2>1. gui'.at = "idle" /\ raced' = raced \ {"gui"}
    BY <1>13, RestsType DEF WriteModInfo, Rests, LibraryInv
  <2> QED
    BY <1>13, <2>1, QuietStep DEF WriteModInfo
<1>14. CASE Fail
  BY <1>14, QuietStop DEF Fail
<1>15. CASE StartPopulate
  BY <1>0, <1>15 DEF StartPopulate, FilesInv, TargetKept, AskedOrAbsent, WorkerFoundNone, GuiRaced, Target,
     libraryVars, modVars, TypeOK, Populate
<1>16. CASE PopulateEnds
  BY <1>0, <1>16 DEF PopulateEnds, FilesInv, TargetKept, AskedOrAbsent, WorkerFoundNone, GuiRaced, Target,
     libraryVars, modVars, TypeOK, Populate
<1>17. CASE PopulateWrites
  <2>1. populate'.at = "choosing"
    BY <1>0, <1>17 DEF PopulateWrites, TypeOK, Populate
  <2>2. populate.id \in PopulateIds /\ populate.id \in Ids
    BY <1>17 DEF PopulateWrites, LibraryInv, TypeInv, Keeping
  <2>3. file' = [file EXCEPT ![populate.id] = Generated[populate.id]] /\ UNCHANGED <<history, modVars, gui>>
    BY <1>17 DEF PopulateWrites
  <2>4. CASE gui.at \in {"preserve", "write"} /\ gui.op # "publish" /\ gui.id = populate.id
    <3>1. GuiRaced'
      BY <1>0, <1>17, <2>2, <2>3, <2>4 DEF PopulateWrites, GuiRaced, TypeOK
    <3> QED
      BY <1>0, <2>1, <2>3, <2>4, <3>1 DEF FilesInv, TargetKept, AskedOrAbsent, WorkerFoundNone
  <2>5. CASE gui.at \in {"preserve", "write"} /\ (gui.op = "publish" \/ gui.id # populate.id)
    <3>1. Target' = Target /\ (gui.op # "publish" => file'[gui.id] = file[gui.id]) /\ (GuiRaced => GuiRaced')
      BY <1>0, <1>17, <2>2, <2>3, <2>5 DEF PopulateWrites, Target, GuiRaced, modVars, TypeOK
    <3> QED
      BY <1>0, <2>1, <2>3, <2>5, <3>1 DEF FilesInv, TargetKept, AskedOrAbsent, WorkerFoundNone, modVars
  <2>6. CASE gui.at \notin {"preserve", "write"}
    BY <1>0, <2>1, <2>3, <2>6 DEF FilesInv, TargetKept, AskedOrAbsent, WorkerFoundNone
  <2> QED
    BY <2>4, <2>5, <2>6
<1>18. ASSUME NEW v \in PopulateIds, PopulateSkips(v) PROVE FilesInv'
  BY <1>0, <1>18 DEF PopulateSkips, FilesInv, TargetKept, AskedOrAbsent, WorkerFoundNone, GuiRaced, Target,
     libraryVars, modVars
<1>19. ASSUME NEW v \in PopulateIds, PopulateFinds(v) PROVE FilesInv'
  BY <1>0, <1>19 DEF PopulateFinds, FilesInv, TargetKept, AskedOrAbsent, WorkerFoundNone, GuiRaced, Target,
     libraryVars, modVars
<1>20. CASE Crash
  <2>1. gui'.at = "idle" /\ populate'.at = "idle"
    BY <1>0, <1>20, RestsType DEF Crash, LibraryInv, TypeOK, Populate
  <2> QED
    BY <2>1 DEF FilesInv, TargetKept, AskedOrAbsent, WorkerFoundNone
<1>21. CASE UNCHANGED vars
  BY <1>0, <1>21 DEF vars, libraryVars, modVars, FilesInv, TargetKept, AskedOrAbsent,
     WorkerFoundNone, GuiRaced, Target
<1> QED
  BY <1>1, <1>2, <1>3, <1>4, <1>5, <1>6, <1>7, <1>8, <1>9, <1>10, <1>11, <1>12, <1>13, <1>14,
     <1>15, <1>16, <1>17, <1>18, <1>19, <1>20, <1>21
     DEF Next, UserStarts, GuiStep, Worker

(* One step keeps both action properties.                                  *)
LEMMA StepKeeps ==
  ASSUME LibraryInv, [Next]_vars
  PROVE  \A v \in Ids :
            /\ file[v] \notin {file'[v], Nothing} =>
                 \/ /\ file[v] \in history'[v]
                    /\ gui.at = "write" /\ gui.id = v /\ (gui.replace \/ gui.op = "restore")
                 \/ RacedFor(v)
            /\ published[v] \notin {published'[v], Nothing} => published[v] \in oldPublished'[v]
<1> DEFINE Kept(v) ==
            /\ file[v] \notin {file'[v], Nothing} =>
                 \/ /\ file[v] \in history'[v]
                    /\ gui.at = "write" /\ gui.id = v /\ (gui.replace \/ gui.op = "restore")
                 \/ RacedFor(v)
            /\ published[v] \notin {published'[v], Nothing} => published[v] \in oldPublished'[v]
<1> SUFFICES ASSUME NEW v \in Ids PROVE Kept(v)
  OBVIOUS
<1>1. CASE Write
  <2>1. file[gui.id] \in history[gui.id] \cup {Nothing} \/ GuiRaced
    BY <1>1 DEF Write, LibraryInv, TargetKept, Target
  <2>2. gui.replace \/ gui.op = "restore" \/ file[gui.id] = Nothing \/ GuiRaced
    BY <1>1 DEF Write, LibraryInv, AskedOrAbsent
  <2>3. /\ gui.at = "write" /\ history' = history /\ published' = published
        /\ gui.id \in Ids /\ (v # gui.id => file'[v] = file[v])
    BY <1>1 DEF Write, LibraryInv, TypeInv, TypeOK, Gui, modVars
  <2> QED
    BY <2>1, <2>2, <2>3 DEF RacedFor
<1>2. CASE WritePublished
  <2>1. published[gui.id] \in oldPublished[gui.id] \cup {Nothing}
    BY <1>2 DEF WritePublished, LibraryInv, TargetKept, Target, GuiRaced
  <2> QED
    BY <1>2, <2>1 DEF WritePublished, LibraryInv, TypeInv, TypeOK, libraryVars
<1>3. CASE PopulateWrites
  <2>1. file[populate.id] = Nothing \/ "worker" \in raced
    BY <1>3 DEF PopulateWrites, LibraryInv, WorkerFoundNone
  <2> QED
    BY <1>3, <2>1 DEF PopulateWrites, RacedFor, LibraryInv, TypeInv, TypeOK, modVars
<1>4. CASE Preserve
  BY <1>4 DEF Preserve, modVars
<1>5. CASE UNCHANGED <<file, published>>
  BY <1>5
<1>6. Write \/ WritePublished \/ PopulateWrites \/ Preserve \/ UNCHANGED <<file, published>>
  BY DEF Next, UserStarts, GuiStep, Worker, vars, libraryVars, modVars, Start, Goto, Stop, StartSave,
     StartCopy, StartRestore, StartPublish, AnswerYes, AnswerNo, Check, AlreadyPublished, Backup,
     WriteModInfo, Fail, StartPopulate, PopulateSkips, PopulateFinds, PopulateEnds, Crash
<1> QED
  BY <1>1, <1>2, <1>3, <1>4, <1>5, <1>6

LEMMA LibraryInvariant == Spec => []LibraryInv
<1>1. LibraryInv /\ [Next]_vars => LibraryInv'
  <2> SUFFICES ASSUME LibraryInv, [Next]_vars PROVE LibraryInv'
    OBVIOUS
  <2>1. TypeInv'
    BY TypeStep DEF LibraryInv
  <2> QED
    BY <2>1, FilesStep DEF LibraryInv, FilesInv
<1> QED
  BY <1>1, LibraryInit, PTL DEF Spec

(* The library's state keeps its type.                                     *)
THEOREM LibraryTypeCorrect == Spec => []TypeOK
<1>1. Init => TypeInv
  BY LibraryInit DEF LibraryInv
<1>2. TypeInv => TypeOK
  BY DEF TypeInv
<1> QED
  BY <1>1, <1>2, TypeStep, PTL DEF Spec

(* Whatever a thread replaces is in the history before it is gone, or was  *)
(* written by the other since this one looked: failures and crashes        *)
(* included, for any number of ids and texts and however the user's        *)
(* operations and populate overlap.                                        *)
THEOREM LibraryLosesNothing == Spec => NothingLost
<1>1. LibraryInv /\ [Next]_vars =>
        [\A v \in Ids :
           /\ file[v] \notin {file'[v], Nothing} => file[v] \in history'[v] \/ RacedFor(v)
           /\ published[v] \notin {published'[v], Nothing} => published[v] \in oldPublished'[v]]_vars
  BY StepKeeps
<1> QED
  BY <1>1, LibraryInvariant, PTL DEF Spec, NothingLost

(* And no file is replaced that the user was not asked about, but for one  *)
(* that the other thread wrote in that very gap.                           *)
THEOREM LibraryAsksFirst == Spec => OnlyConfirmedReplaces
<1>1. LibraryInv /\ [Next]_vars =>
        [\A v \in Ids :
           \/ file[v] \in {file'[v], Nothing}
           \/ gui.at = "write" /\ gui.id = v /\ (gui.replace \/ gui.op = "restore")
           \/ RacedFor(v)]_vars
  BY StepKeeps
<1> QED
  BY <1>1, LibraryInvariant, PTL DEF Spec, OnlyConfirmedReplaces

------------------------------------------------------------------------------
(* Stored numbers.  That the distance of the floats is defined at all.     *)
HalvesTo(f, k) == f = [n \in 0..k |-> IF n < Exact THEN 1 ELSE 2 * f[n \div 2]]

LEMMA HalvesAgree ==
    ASSUME NEW f, NEW g, NEW k \in Nat, NEW l \in Nat, k <= l, HalvesTo(f, k), HalvesTo(g, l)
    PROVE  \A n \in 0..k : f[n] = g[n]
<1> DEFINE Bad == {n \in 0..k : f[n] # g[n]}
<1> SUFFICES ASSUME Bad # {} PROVE FALSE
  OBVIOUS
<1>1. PICK n \in Bad : \A m \in Bad : n <= m
  <2>1. Bad \in SUBSET Nat
    OBVIOUS
  <2> HIDE DEF Bad
  <2> QED BY <2>1, LeastNatural
<1>2. Exact \in Nat /\ Exact >= 2
  BY EditAssumption
<1>3. n \in 0..k /\ n \in 0..l
  OBVIOUS
<1>4. /\ f[n] = IF n < Exact THEN 1 ELSE 2 * f[n \div 2]
      /\ g[n] = IF n < Exact THEN 1 ELSE 2 * g[n \div 2]
  BY <1>3 DEF HalvesTo
<1>5. CASE n < Exact
  BY <1>4, <1>5
<1>6. CASE ~(n < Exact)
  <2>1. n \div 2 \in 0..k /\ n \div 2 < n
    BY <1>2, <1>3, <1>6
  <2>2. n \div 2 \notin Bad
    BY <1>1, <1>3, <2>1
  <2> QED BY <1>1, <1>4, <1>6, <2>1, <2>2
<1> QED BY <1>5, <1>6

LEMMA HalvesExist == ASSUME NEW k \in Nat PROVE \E f : HalvesTo(f, k)
<1> DEFINE Bad == {n \in Nat : ~ \E f : HalvesTo(f, n)}
<1> SUFFICES ASSUME Bad # {} PROVE FALSE
  OBVIOUS
<1>1. PICK n \in Bad : \A m \in Bad : n <= m
  BY LeastNatural
<1>2. Exact \in Nat /\ Exact >= 2
  BY EditAssumption
<1>3. n \in Nat
  OBVIOUS
<1>4. CASE n = 0
  <2>1. HalvesTo([m \in 0..0 |-> 1], 0)
    BY <1>2 DEF HalvesTo
  <2> QED BY <1>4, <2>1
<1>5. CASE n # 0
  <2>1. PICK f : HalvesTo(f, n - 1)
    BY <1>1, <1>3, <1>5
  <2> DEFINE g == [m \in 0..n |-> IF m = n THEN IF n < Exact THEN 1 ELSE 2 * f[n \div 2] ELSE f[m]]
  <2>2. ASSUME NEW m \in 0..n PROVE g[m] = IF m < Exact THEN 1 ELSE 2 * g[m \div 2]
    <3>1. ~(m < Exact) => m \div 2 \in 0..n /\ m \div 2 < m
      BY <1>2, <1>3
    <3>2. CASE m = n
      BY <1>3, <3>1, <3>2
    <3>3. CASE m # n
      <4>1. m \in 0..(n - 1) /\ (~(m < Exact) => m \div 2 \in 0..n /\ m \div 2 # n)
        BY <1>3, <3>1, <3>3
      <4>2. f[m] = IF m < Exact THEN 1 ELSE 2 * f[m \div 2]
        BY <2>1, <4>1 DEF HalvesTo
      <4> QED BY <3>3, <4>1, <4>2
    <3> QED BY <3>2, <3>3
  <2>3. HalvesTo(g, n)
    <3>1. g = [m \in 0..n |-> g[m]]
      OBVIOUS
    <3> HIDE DEF g
    <3> QED BY <2>2, <3>1 DEF HalvesTo
  <2> QED BY <1>3, <2>3
<1> QED BY <1>4, <1>5

LEMMA UlpEquation == \A n \in Nat : Ulp[n] = IF n < Exact THEN 1 ELSE 2 * Ulp[n \div 2]
<1> DEFINE At(k) == CHOOSE f : HalvesTo(f, k)
           F == [n \in Nat |-> At(n)[n]]
<1>1. \A k \in Nat : HalvesTo(At(k), k)
  BY HalvesExist
<1>2. ASSUME NEW n \in Nat PROVE F[n] = IF n < Exact THEN 1 ELSE 2 * F[n \div 2]
  <2>1. Exact \in Nat /\ Exact >= 2
    BY EditAssumption
  <2>2. n \in 0..n /\ n \div 2 \in Nat /\ n \div 2 <= n /\ n \div 2 \in 0..(n \div 2)
    OBVIOUS
  <2>3. At(n)[n] = IF n < Exact THEN 1 ELSE 2 * At(n)[n \div 2]
    <3> HIDE DEF At
    <3> QED BY <1>1, <2>2 DEF HalvesTo
  <2>4. At(n \div 2)[n \div 2] = At(n)[n \div 2]
    <3>1. HalvesTo(At(n), n) /\ HalvesTo(At(n \div 2), n \div 2)
      BY <1>1, <2>2
    <3> HIDE DEF At
    <3> QED BY <2>2, <3>1, HalvesAgree
  <2> HIDE DEF At
  <2> QED BY <2>2, <2>3, <2>4
<1>3. F = [n \in Nat |-> IF n < Exact THEN 1 ELSE 2 * F[n \div 2]]
  <2>1. F = [n \in Nat |-> F[n]]
    OBVIOUS
  <2> HIDE DEF F
  <2> QED BY <1>2, <2>1
<1>4. Ulp = [n \in Nat |-> IF n < Exact THEN 1 ELSE 2 * Ulp[n \div 2]]
  <2> HIDE DEF F
  <2> QED BY <1>3 DEF Ulp
<1> QED BY <1>4

LEMMA UlpIsPositive == \A n \in Nat : Ulp[n] \in Nat \ {0}
<1> DEFINE Bad == {n \in Nat : Ulp[n] \notin Nat \ {0}}
<1> SUFFICES ASSUME Bad # {} PROVE FALSE
  OBVIOUS
<1>1. PICK n \in Bad : \A m \in Bad : n <= m
  BY LeastNatural
<1>2. Exact \in Nat /\ Exact >= 2 /\ n \in Nat
  BY EditAssumption
<1>3. n >= Exact
  BY <1>1, <1>2, UlpEquation
<1>4. n \div 2 \in Nat /\ n \div 2 < n
  BY <1>2, <1>3
<1>5. Ulp[n \div 2] \in Nat \ {0}
  BY <1>1, <1>2, <1>4
<1> HIDE DEF Bad
<1>6. Ulp[n] = 2 * Ulp[n \div 2]
  BY <1>2, <1>3, UlpEquation
<1>7. Ulp[n] \in Nat \ {0}
  BY <1>5, <1>6
<1> QED BY <1>1, <1>7 DEF Bad

LEMMA Grows == \A a \in Nat, b \in Nat, u \in Nat : a <= b => a * u <= b * u
<1>1. \A a \in Nat, d \in Nat, u \in Nat : (a + d) * u = a * u + d * u /\ d * u \in Nat
  OBVIOUS
<1> QED
  <2> TAKE a \in Nat, b \in Nat, u \in Nat
  <2> HAVE a <= b
  <2>1. b - a \in Nat /\ a + (b - a) = b
    OBVIOUS
  <2>2. b * u = a * u + (b - a) * u /\ (b - a) * u \in Nat
    BY <1>1, <2>1
  <2>3. a * u \in Nat /\ b * u \in Nat
    OBVIOUS
  <2> QED BY <2>2, <2>3

\* A number that is rounded down to a float stays as large as what is exact.
LEMMA UlpSteps ==
    \A n \in Nat : \E q \in Nat : /\ q * Ulp[n] <= n /\ n < q * Ulp[n] + Ulp[n]
                                  /\ n >= Exact => q * Ulp[n] >= Exact
<1> DEFINE Good(n) == \E q \in Nat : /\ q * Ulp[n] <= n /\ n < q * Ulp[n] + Ulp[n]
                                     /\ n >= Exact => q * Ulp[n] >= Exact
           Bad == {n \in Nat : ~Good(n)}
<1> SUFFICES ASSUME Bad # {} PROVE FALSE
  OBVIOUS
<1>1. PICK n \in Bad : \A m \in Bad : n <= m
  BY LeastNatural
<1>2. Exact \in Nat /\ Exact >= 2 /\ Exact % 2 = 0 /\ n \in Nat
  BY EditAssumption
<1>3. CASE n < Exact
  <2>1. Ulp[n] = 1 /\ n * 1 = n
    BY <1>2, <1>3, UlpEquation
  <2>2. n * Ulp[n] <= n /\ n < n * Ulp[n] + Ulp[n] /\ ~(n >= Exact)
    BY <1>2, <1>3, <2>1
  <2> QED BY <1>1, <1>2, <2>2
<1>4. CASE n >= Exact
  <2> DEFINE m == n \div 2
  <2>1. m \in Nat /\ m < n /\ (n = 2 * m \/ n = 2 * m + 1)
    BY <1>2, <1>4
  <2>2. Good(m)
    BY <1>1, <1>2, <2>1
  <2>3. Ulp[n] = 2 * Ulp[m] /\ Ulp[m] \in Nat \ {0}
    BY <1>2, <1>4, <2>1, UlpEquation, UlpIsPositive
  <2> HIDE DEF m
  <2>4. PICK q \in Nat : /\ q * Ulp[m] <= m /\ m < q * Ulp[m] + Ulp[m]
                         /\ m >= Exact => q * Ulp[m] >= Exact
    BY <2>2
  <2> DEFINE a == q * Ulp[m]
  <2>5. a \in Nat /\ q * Ulp[n] = 2 * a
    BY <2>3
  <2>6. a <= m /\ m < a + Ulp[m] /\ (m >= Exact => a >= Exact)
    BY <2>4
  <2>7. 2 * a >= Exact
    <3>1. CASE m >= Exact
      BY <1>2, <2>5, <2>6, <3>1
    <3>2. CASE m < Exact
      <4>1. Ulp[m] = 1
        BY <2>1, <3>2, UlpEquation
      <4>2. a = m
        <5> HIDE DEF a
        <5> QED BY <2>1, <2>5, <2>6, <4>1
      <4> HIDE DEF a
      <4> QED BY <1>2, <1>4, <2>1, <4>2
    <3> QED BY <1>2, <2>1, <3>1, <3>2
  <2>8. q * Ulp[n] <= n /\ n < q * Ulp[n] + Ulp[n] /\ q * Ulp[n] >= Exact
    <3> HIDE DEF a
    <3> QED BY <1>2, <2>1, <2>3, <2>5, <2>6, <2>7
  <2> QED BY <1>1, <2>8
<1> QED BY <1>2, <1>3, <1>4

LEMMA Floats ==
    ASSUME NEW n \in Nat
    PROVE  Float(n) \in Nat /\ (n < Exact => Float(n) = n) /\ (n >= Exact => Float(n) >= Exact)
<1> DEFINE u == Ulp[n]
           low == n \div u
<1>1. u \in Nat \ {0} /\ Exact \in Nat
  BY UlpIsPositive, EditAssumption
<1>2. low \in Nat /\ n % u \in Nat /\ n = u * low + (n % u) /\ n % u < u
  <2> HIDE DEF u
  <2> QED BY <1>1
<1>3. Float(n) = u * low \/ Float(n) = u * (low + 1)
  BY DEF Float
<1>4. u * low \in Nat /\ u * (low + 1) \in Nat /\ u * (low + 1) = u * low + u
  <2> HIDE DEF u, low
  <2> QED BY <1>1, <1>2
<1>5. ASSUME n < Exact PROVE Float(n) = n
  <2>1. u = 1
    BY <1>5, UlpEquation
  <2>2. low = n /\ n % u = 0
    BY <2>1
  <2>3. ~(2 * (n % u) + (low % 2) > u)
    BY <2>1, <2>2
  <2>4. Float(n) = u * low
    BY <2>3 DEF Float
  <2> QED BY <2>1, <2>2, <2>4
<1>6. ASSUME n >= Exact PROVE u * low >= Exact
  <2>1. PICK q \in Nat : q * u <= n /\ q * u >= Exact
    BY <1>6, UlpSteps
  <2>2. q <= low
    <3> SUFFICES ASSUME low + 1 <= q PROVE FALSE
      BY <1>2
    <3> HIDE DEF u, low
    <3>1. (low + 1) * u <= q * u
      BY <1>1, <1>2, Grows
    <3>2. (low + 1) * u = u * (low + 1)
      BY <1>1, <1>2
    <3>3. q * u \in Nat
      BY <1>1
    <3> QED BY <1>1, <1>2, <1>4, <2>1, <3>1, <3>2, <3>3
  <2> HIDE DEF u, low
  <2>3. q * u <= low * u /\ low * u = u * low /\ q * u \in Nat
    BY <1>1, <1>2, <2>2, Grows
  <2> QED BY <1>1, <1>4, <2>1, <2>3
<1> HIDE DEF u, low
<1> QED BY <1>1, <1>3, <1>4, <1>5, <1>6

------------------------------------------------------------------------------
LEMMA MaxWithZero == ASSUME NEW x \in Int PROVE Max({0, x}) \in Int /\ Max({0, x}) >= 0 /\ Max({0, x}) >= x
<1>1. \E m \in {0, x} : \A n \in {0, x} : m >= n
  BY SMT
<1> QED BY <1>1 DEF Max

LEMMA ResourcesOf ==
    ASSUME NEW s, Stored(s)
    PROVE  /\ DOMAIN Resources(s) = (IF s.sound THEN DOMAIN s.held ELSE {"story_points"} \cap DOMAIN s.held)
           /\ \A t \in DOMAIN Resources(s) : Resources(s)[t] = s.held[t]
           /\ IsFiniteSet(DOMAIN Resources(s))
<1>1. /\ DOMAIN Resources(s) = (IF s.sound THEN DOMAIN s.held ELSE {"story_points"} \cap DOMAIN s.held)
      /\ \A t \in DOMAIN Resources(s) : Resources(s)[t] = s.held[t]
  BY DEF Resources, Restrict, Stored
<1>2. DOMAIN Resources(s) \subseteq DOMAIN s.held /\ IsFiniteSet(DOMAIN s.held)
  BY <1>1 DEF Stored
<1> QED BY <1>1, <1>2, FS_Subset

\* What a plan that may be written was made of.
Accepted(p, s, ids, rs, optIn) == Stored(s) /\ rs \in Asked /\ p = EditPlan(s, ids, rs, optIn) /\ MayBeWritten(p)

LEMMA AcceptedRequests ==
    ASSUME NEW p, NEW s, NEW ids, NEW rs, NEW optIn, Accepted(p, s, ids, rs, optIn)
    PROVE  /\ p.source = s /\ p.requests = rs
           /\ \A i \in DOMAIN rs : ~Refused(s, ids, rs, i) /\ Outcome(s, ids, rs, i) = "ACCEPTED"
           /\ Requested(p) = {rs[i].target : i \in DOMAIN rs}
           /\ \A i \in DOMAIN rs : Value(p, rs[i].target) = rs[i].value
<1>1. p.source = s /\ p.requests = rs /\ p.outcomes = [i \in DOMAIN rs |-> Outcome(s, ids, rs, i)]
  BY DEF Accepted, EditPlan
<1>2. \A i \in DOMAIN rs : Outcome(s, ids, rs, i) = "ACCEPTED"
  BY <1>1 DEF Accepted, MayBeWritten
<1>3. \A i \in DOMAIN rs : ~Refused(s, ids, rs, i)
  BY <1>2 DEF Outcome
<1>4. ASSUME NEW i \in DOMAIN rs PROVE Value(p, rs[i].target) = rs[i].value
  <2> DEFINE k == CHOOSE k \in DOMAIN rs : rs[k].target = rs[i].target
  <2>1. k \in DOMAIN rs /\ rs[k].target = rs[i].target
    OBVIOUS
  <2>2. k = i
    BY <1>3, <2>1 DEF Refused
  <2> QED BY <1>1, <2>2 DEF Value
<1> QED BY <1>1, <1>2, <1>3, <1>4 DEF Requested

LEMMA AcceptedValues ==
    ASSUME NEW p, NEW s, NEW ids, NEW rs, NEW optIn, Accepted(p, s, ids, rs, optIn), NEW t \in Requested(p)
    PROVE  /\ t \in Tier1 /\ t \in DOMAIN Resources(s)
           /\ Value(p, t) \in Nat /\ Storable(Resources(s)[t].kind, Value(p, t))
<1>1. PICK i \in DOMAIN rs : rs[i].target = t /\ Value(p, t) = rs[i].value /\ ~Refused(s, ids, rs, i)
  BY AcceptedRequests
<1>2. rs[i].value \in Int
  BY EditAssumption DEF Accepted
<1> QED BY <1>1, <1>2 DEF Refused

\* What the copy holds.
LEMMA CopyHolds ==
    ASSUME NEW p, NEW s, NEW ids, NEW rs, NEW optIn, Accepted(p, s, ids, rs, optIn)
    PROVE  LET c == Patched(s, p) IN
           /\ c.sound = s.sound /\ c.caps = s.caps /\ c.rest = s.rest
           /\ DOMAIN c.held = DOMAIN s.held
           /\ \A t \in DOMAIN s.held : c.held[t] = [n |-> IF t \in Requested(p) THEN Value(p, t) ELSE s.held[t].n,
                  kind |-> s.held[t].kind, unit |-> s.held[t].unit, max |-> s.held[t].max]
           /\ Stored(c)
<1> DEFINE c == Patched(s, p)
           h == [t \in DOMAIN s.held |-> IF t \in Requested(p) THEN [s.held[t] EXCEPT !.n = Value(p, t)] ELSE s.held[t]]
<1>1. c = [sound |-> s.sound, partials |-> s.partials, rest |-> s.rest, held |-> h, caps |-> s.caps]
  <2>1. c = [s EXCEPT !.held = h]
    BY DEF Patched
  <2>2. s = [sound |-> s.sound, partials |-> s.partials, rest |-> s.rest, held |-> s.held, caps |-> s.caps]
    BY DEF Accepted, Stored
  <2> HIDE DEF h, c
  <2> QED BY <2>1, <2>2
<1>2. ASSUME NEW t \in DOMAIN s.held
      PROVE  h[t] = [n |-> IF t \in Requested(p) THEN Value(p, t) ELSE s.held[t].n,
                  kind |-> s.held[t].kind, unit |-> s.held[t].unit, max |-> s.held[t].max]
  <2> DEFINE it == s.held[t]
  <2>1. it = [n |-> it.n, kind |-> it.kind, unit |-> it.unit, max |-> it.max]
    BY DEF Accepted, Stored
  <2>2. h[t] = IF t \in Requested(p) THEN [it EXCEPT !.n = Value(p, t)] ELSE it
    OBVIOUS
  <2> HIDE DEF h, it
  <2>3. [it EXCEPT !.n = Value(p, t)] = [n |-> Value(p, t), kind |-> it.kind, unit |-> it.unit, max |-> it.max]
    BY <2>1
  <2> QED BY <2>1, <2>2, <2>3 DEF it
<1>3. DOMAIN h = DOMAIN s.held
  OBVIOUS
<1> HIDE DEF h
<1>4. /\ c.sound = s.sound /\ c.caps = s.caps /\ c.rest = s.rest /\ c.partials = s.partials /\ c.held = h
  BY <1>1
<1>5. ASSUME NEW t \in Requested(p), t \in DOMAIN s.held
      PROVE  Value(p, t) \in Nat /\ Storable(s.held[t].kind, Value(p, t))
  <2>1. t \in DOMAIN Resources(s) /\ Value(p, t) \in Nat /\ Storable(Resources(s)[t].kind, Value(p, t))
    BY AcceptedValues
  <2>2. Stored(s)
    BY DEF Accepted
  <2> QED BY <2>1, <2>2, ResourcesOf
<1>6. Stored(c)
  <2>1. c = [sound |-> c.sound, partials |-> c.partials, rest |-> c.rest, held |-> c.held, caps |-> c.caps]
    BY <1>1
  <2>2. h = [t \in DOMAIN h |-> h[t]]
    BY DEF h
  <2>3. \A t \in DOMAIN h :
         LET it == h[t] IN
         /\ it = [n |-> it.n, kind |-> it.kind, unit |-> it.unit, max |-> it.max]
         /\ it.n \in Nat /\ Storable(it.kind, it.n) /\ it.unit \in Int \cup {Absent}
         /\ it.kind = IF t = "story_points" THEN "INT32" ELSE "FLOAT32"
         /\ t \in {"credits", "story_points"} => it.unit = Absent
    <3> TAKE t \in DOMAIN h
    <3>1. /\ s.held[t].n \in Nat /\ Storable(s.held[t].kind, s.held[t].n) /\ s.held[t].unit \in Int \cup {Absent}
          /\ s.held[t].kind = IF t = "story_points" THEN "INT32" ELSE "FLOAT32"
          /\ t \in {"credits", "story_points"} => s.held[t].unit = Absent
      BY <1>3 DEF Accepted, Stored
    <3>2. /\ h[t].n = IF t \in Requested(p) THEN Value(p, t) ELSE s.held[t].n
          /\ h[t].kind = s.held[t].kind /\ h[t].unit = s.held[t].unit /\ h[t].max = s.held[t].max
          /\ h[t] = [n |-> h[t].n, kind |-> h[t].kind, unit |-> h[t].unit, max |-> h[t].max]
      <4> DEFINE v == IF t \in Requested(p) THEN Value(p, t) ELSE s.held[t].n
                 k == s.held[t].kind
                 u == s.held[t].unit
                 m == s.held[t].max
      <4>1. h[t] = [n |-> v, kind |-> k, unit |-> u, max |-> m]
        BY <1>2, <1>3
      <4> HIDE DEF v, k, u, m
      <4>2. h[t].n = v /\ h[t].kind = k /\ h[t].unit = u /\ h[t].max = m
        BY <4>1
      <4> QED BY <4>1, <4>2 DEF v, k, u, m
    <3>3. h[t].n \in Nat /\ Storable(h[t].kind, h[t].n)
      BY <1>3, <1>5, <3>1, <3>2
    <3> QED BY <3>1, <3>2, <3>3
  <2>4. /\ IsFiniteSet(DOMAIN h) /\ DOMAIN s.caps \subseteq {"cargo", "fuel", "personnel", "space_used"}
        /\ s.caps \in [DOMAIN s.caps -> Int]
        /\ s.rest \in Int /\ s.sound \in BOOLEAN
    BY <1>3 DEF Accepted, Stored
  <2> HIDE DEF c
  <2> QED BY <1>4, <2>1, <2>2, <2>3, <2>4 DEF Stored
<1> HIDE DEF c
<1>7. /\ DOMAIN c.held = DOMAIN s.held
      /\ \A t \in DOMAIN s.held : c.held[t] = [n |-> IF t \in Requested(p) THEN Value(p, t) ELSE s.held[t].n,
                  kind |-> s.held[t].kind, unit |-> s.held[t].unit, max |-> s.held[t].max]
  BY <1>2, <1>3, <1>4
<1> QED BY <1>4, <1>6, <1>7 DEF c

LEMMA CopyReads ==
    ASSUME NEW p, NEW s, NEW ids, NEW rs, NEW optIn, Accepted(p, s, ids, rs, optIn)
    PROVE  LET c == Patched(s, p) IN
           /\ Stored(c) /\ Caps(c) = Caps(s) /\ c.rest = s.rest /\ c.caps = s.caps
           /\ DOMAIN Resources(c) = DOMAIN Resources(s)
           /\ \A t \in DOMAIN Resources(s) :
                 /\ Resources(c)[t].unit = Resources(s)[t].unit /\ Resources(c)[t].kind = Resources(s)[t].kind
                 /\ Amount(c, t) = IF t \in Requested(p) THEN Value(p, t) ELSE Amount(s, t)
<1> DEFINE c == Patched(s, p)
<1>1. /\ c.sound = s.sound /\ c.caps = s.caps /\ c.rest = s.rest /\ Stored(c)
      /\ DOMAIN c.held = DOMAIN s.held
      /\ \A t \in DOMAIN s.held : c.held[t] = [n |-> IF t \in Requested(p) THEN Value(p, t) ELSE s.held[t].n,
                  kind |-> s.held[t].kind, unit |-> s.held[t].unit, max |-> s.held[t].max]
  BY CopyHolds
<1> HIDE DEF c
<1>2. Stored(s)
  BY DEF Accepted
<1>3. DOMAIN Resources(c) = DOMAIN Resources(s) /\ DOMAIN Resources(s) \subseteq DOMAIN s.held
  BY <1>1, <1>2, ResourcesOf
<1>4. \A t \in DOMAIN Resources(s) : Resources(c)[t] = c.held[t] /\ Resources(s)[t] = s.held[t]
  BY <1>1, <1>2, <1>3, ResourcesOf
<1>5. ASSUME NEW t \in DOMAIN Resources(s)
      PROVE  /\ Resources(c)[t].unit = Resources(s)[t].unit /\ Resources(c)[t].kind = Resources(s)[t].kind
             /\ Amount(c, t) = IF t \in Requested(p) THEN Value(p, t) ELSE Amount(s, t)
  <2> DEFINE v == IF t \in Requested(p) THEN Value(p, t) ELSE s.held[t].n
             k == s.held[t].kind
             u == s.held[t].unit
             m == s.held[t].max
  <2>1. c.held[t] = [n |-> v, kind |-> k, unit |-> u, max |-> m]
    BY <1>1, <1>3
  <2>2. Resources(c)[t] = c.held[t] /\ Resources(s)[t].unit = u /\ Resources(s)[t].kind = k /\ Resources(s)[t].n = s.held[t].n
    BY <1>4
  <2> HIDE DEF v, k, u, m
  <2>3. Resources(c)[t].unit = u /\ Resources(c)[t].kind = k /\ Resources(c)[t].n = v
    BY <2>1, <2>2
  <2> QED BY <2>2, <2>3 DEF Amount, v
<1>6. Caps(c) = Caps(s)
  BY <1>1 DEF Caps
<1> QED BY <1>1, <1>3, <1>5, <1>6 DEF c

\* The changes that are judged are those the copy makes.
LEMMA PendingIs ==
    ASSUME NEW p, NEW s, NEW ids, NEW rs, NEW optIn, Accepted(p, s, ids, rs, optIn),
           NEW new, new = Pending(s, ids, rs), NEW c, c = Patched(s, p)
    PROVE  /\ DOMAIN new = {t \in Requested(p) : t \in Commodities /\ Value(p, t) # Amount(s, t)}
           /\ \A t \in DOMAIN new : new[t] = Value(p, t) /\ new[t] \in Nat /\ Within(s, new, t)
           /\ \A t \in Commodities \cap DOMAIN Resources(s) : Amount(c, t) = After(s, new, t)
<1> DEFINE at == {i \in DOMAIN rs : /\ ~Refused(s, ids, rs, i)
                                    /\ rs[i].target \in Commodities
                                    /\ rs[i].value # Amount(s, rs[i].target)}
<1>1. new = [t \in {rs[i].target : i \in at} |-> rs[CHOOSE i \in at : rs[i].target = t].value]
  BY DEF Pending
<1>2. /\ p.source = s /\ p.requests = rs
      /\ \A i \in DOMAIN rs : ~Refused(s, ids, rs, i) /\ Outcome(s, ids, rs, i) = "ACCEPTED"
      /\ Requested(p) = {rs[i].target : i \in DOMAIN rs}
      /\ \A i \in DOMAIN rs : Value(p, rs[i].target) = rs[i].value
  BY AcceptedRequests
<1>3. at \subseteq DOMAIN rs
  OBVIOUS
<1>4. DOMAIN new = {t \in Requested(p) : t \in Commodities /\ Value(p, t) # Amount(s, t)}
  <2>1. DOMAIN new = {rs[i].target : i \in at}
    BY <1>1
  <2>2. \A i \in DOMAIN rs : i \in at <=> rs[i].target \in Commodities /\ Value(p, rs[i].target) # Amount(s, rs[i].target)
    BY <1>2
  <2> HIDE DEF at
  <2> QED BY <1>2, <1>3, <2>1, <2>2
<1>5. ASSUME NEW t \in DOMAIN new PROVE new[t] = Value(p, t)
  <2> DEFINE k == CHOOSE i \in at : rs[i].target = t
  <2>1. t \in {rs[i].target : i \in at}
    BY <1>1
  <2>2. k \in at /\ rs[k].target = t
    <3> HIDE DEF at
    <3> QED BY <2>1
  <2>3. new[t] = rs[k].value
    BY <1>1, <2>1
  <2> HIDE DEF k, at
  <2> QED BY <1>2, <1>3, <2>2, <2>3
<1>6. ASSUME NEW t \in DOMAIN new PROVE Within(s, new, t)
  <2>1. PICK i \in DOMAIN rs : rs[i].target = t /\ ~Refused(s, ids, rs, i) /\ Outcome(s, ids, rs, i) = "ACCEPTED"
    BY <1>2, <1>4
  <2> QED BY <2>1 DEF Outcome
<1>7. \A t \in DOMAIN new : new[t] \in Nat
  BY <1>4, <1>5, AcceptedValues
<1>8. ASSUME NEW t \in Commodities \cap DOMAIN Resources(s) PROVE Amount(c, t) = After(s, new, t)
  <2>1. Amount(c, t) = IF t \in Requested(p) THEN Value(p, t) ELSE Amount(s, t)
    BY CopyReads
  <2> QED BY <1>4, <1>5, <2>1 DEF After
<1> QED BY <1>4, <1>5, <1>6, <1>7, <1>8

SpaceOf(s) == [t \in {t \in DOMAIN Resources(s) : Resources(s)[t].unit # Absent} |-> Amount(s, t) * Resources(s)[t].unit]

LEMMA SpaceIsInt ==
    ASSUME NEW s, Stored(s)
    PROVE  /\ IsFiniteSet(DOMAIN SpaceOf(s)) /\ Filled(s) = SumFunction(SpaceOf(s)) /\ Filled(s) \in Int
           /\ \A t \in DOMAIN SpaceOf(s) : SpaceOf(s)[t] \in Int
           /\ \A t \in DOMAIN Resources(s) : Amount(s, t) \in Nat /\ Resources(s)[t].unit \in Int \cup {Absent}
<1>1. \A t \in DOMAIN Resources(s) : Amount(s, t) \in Nat /\ Resources(s)[t].unit \in Int \cup {Absent}
  <2> TAKE t \in DOMAIN Resources(s)
  <2>1. t \in DOMAIN s.held /\ Resources(s)[t] = s.held[t]
    BY ResourcesOf
  <2>2. s.held[t].n \in Nat /\ s.held[t].unit \in Int \cup {Absent}
    BY <2>1 DEF Stored
  <2> QED BY <2>1, <2>2 DEF Amount
<1>2. DOMAIN SpaceOf(s) \subseteq DOMAIN Resources(s) /\ \A t \in DOMAIN SpaceOf(s) : SpaceOf(s)[t] \in Int
  <2>1. ASSUME NEW t \in DOMAIN SpaceOf(s) PROVE t \in DOMAIN Resources(s) /\ SpaceOf(s)[t] \in Int
    <3>1. /\ t \in DOMAIN Resources(s) /\ Resources(s)[t].unit # Absent
          /\ SpaceOf(s)[t] = Amount(s, t) * Resources(s)[t].unit
      BY DEF SpaceOf
    <3>2. Amount(s, t) \in Int /\ Resources(s)[t].unit \in Int
      BY <1>1, <3>1
    <3> QED BY <3>1, <3>2
  <2> QED BY <2>1
<1>3. IsFiniteSet(DOMAIN SpaceOf(s))
  BY <1>2, ResourcesOf, FS_Subset
<1>4. Filled(s) = SumFunction(SpaceOf(s))
  BY DEF Filled, SpaceOf
<1> QED BY <1>1, <1>2, <1>3, <1>4, TotalIsInt

\* The space of a copy's stacks is that of the save's and of the changed goods,
\* for what else is changed takes none.
LEMMA SpaceMoves ==
    ASSUME NEW p, NEW s, NEW ids, NEW rs, NEW optIn, Accepted(p, s, ids, rs, optIn),
           NEW new, new = Pending(s, ids, rs), NEW c, c = Patched(s, p),
           \A t \in DOMAIN new \cap Goods : Resources(s)[t].unit # Absent
    PROVE  LET e == [t \in DOMAIN new \cap Goods |-> (new[t] - Amount(s, t)) * Resources(s)[t].unit]
           IN  Filled(c) = Filled(s) + SumFunction(e) /\ SumFunction(e) \in Int
<1> DEFINE e == [t \in DOMAIN new \cap Goods |-> (new[t] - Amount(s, t)) * Resources(s)[t].unit]
           f == SpaceOf(s)
           g == SpaceOf(c)
<1>1. /\ Stored(s) /\ Stored(c) /\ DOMAIN Resources(c) = DOMAIN Resources(s)
      /\ \A t \in DOMAIN Resources(s) : /\ Resources(c)[t].unit = Resources(s)[t].unit
                                        /\ Amount(c, t) = IF t \in Requested(p) THEN Value(p, t) ELSE Amount(s, t)
  BY CopyReads DEF Accepted
<1>2. /\ DOMAIN new = {t \in Requested(p) : t \in Commodities /\ Value(p, t) # Amount(s, t)}
      /\ \A t \in DOMAIN new : new[t] = Value(p, t) /\ new[t] \in Nat /\ Within(s, new, t)
  BY PendingIs
<1>3. \A t \in Requested(p) : t \in Tier1 /\ t \in DOMAIN Resources(s)
  BY AcceptedValues
<1>4. \A t \in DOMAIN new \cap Goods : Resources(s)[t].unit # Absent
  OBVIOUS
<1>5. DOMAIN e \subseteq DOMAIN f /\ DOMAIN g = DOMAIN f
  BY <1>1, <1>2, <1>3, <1>4 DEF SpaceOf
<1>6. \A t \in DOMAIN Resources(s) : Amount(s, t) \in Nat /\ Resources(s)[t].unit \in Int \cup {Absent}
  BY <1>1, SpaceIsInt
<1>7. \A t \in DOMAIN e : e[t] \in Int
  <2> TAKE t \in DOMAIN e
  <2>1. t \in DOMAIN Resources(s) /\ t \in DOMAIN new /\ Resources(s)[t].unit # Absent
    BY <1>2, <1>3, <1>4
  <2>2. new[t] \in Int /\ Amount(s, t) \in Int /\ Resources(s)[t].unit \in Int
    BY <1>2, <1>6, <2>1
  <2> QED BY <2>2
<1>8. ASSUME NEW t \in DOMAIN f PROVE g[t] = f[t] + IF t \in DOMAIN e THEN e[t] ELSE 0
  <2> DEFINE u == Resources(s)[t].unit
             a == Amount(s, t)
  <2>1. t \in DOMAIN Resources(s) /\ u # Absent /\ f[t] = a * u
    BY DEF SpaceOf
  <2>2. u \in Int /\ a \in Int
    BY <1>6, <2>1
  <2>3. g[t] = Amount(c, t) * u
    BY <1>1, <1>5, <2>1 DEF SpaceOf
  <2>4. CASE t \in DOMAIN e
    <3>1. new[t] \in Int /\ e[t] = (new[t] - a) * u /\ Amount(c, t) = new[t]
      BY <1>1, <1>2, <2>1, <2>4
    <3> HIDE DEF u, a, e, f, g
    <3> QED BY <2>1, <2>2, <2>3, <2>4, <3>1
  <2>5. CASE t \notin DOMAIN e
    <3>1. CASE t \in DOMAIN new
      <4>1. t \notin Goods /\ Within(s, new, t)
        BY <1>2, <2>5, <3>1
      <4>2. u = 0
        BY <4>1 DEF Within, Weightless
      <4>3. Amount(c, t) \in Nat
        BY <1>1, <2>1, SpaceIsInt
      <4> HIDE DEF u, a, e, f, g
      <4> QED BY <2>1, <2>2, <2>3, <2>5, <4>2, <4>3
    <3>2. CASE t \notin DOMAIN new
      <4>1. t \notin {"credits", "story_points"}
        <5>1. t \in DOMAIN s.held /\ Resources(s)[t] = s.held[t]
          BY <1>1, <2>1, ResourcesOf
        <5> QED BY <1>1, <2>1, <5>1 DEF Stored
      <4>2. t \notin Requested(p) \/ Value(p, t) = a
        BY <1>2, <1>3, <3>2, <4>1 DEF Tier1
      <4>3. Amount(c, t) = a
        BY <1>1, <2>1, <4>2
      <4> HIDE DEF u, a, e, f, g
      <4> QED BY <2>1, <2>2, <2>3, <2>5, <4>3
    <3> QED BY <3>1, <3>2
  <2> QED BY <2>4, <2>5
<1>9. /\ IsFiniteSet(DOMAIN f) /\ \A t \in DOMAIN f : f[t] \in Int
      /\ Filled(s) = SumFunction(f) /\ Filled(c) = SumFunction(g)
  BY <1>1, SpaceIsInt
<1> HIDE DEF e, f, g
<1>10. SumFunction(g) = SumFunction(f) + SumFunction(e)
  BY <1>5, <1>7, <1>8, <1>9, TotalOfChange
<1>11. SumFunction(e) \in Int
  BY <1>5, <1>7, <1>9, FS_Subset, TotalIsInt
<1> QED BY <1>9, <1>10, <1>11 DEF e

LEMMA PendingOf ==
    ASSUME NEW p, NEW s, NEW ids, NEW rs, NEW optIn, Accepted(p, s, ids, rs, optIn)
    PROVE  /\ DOMAIN Pending(s, ids, rs) \subseteq Requested(p)
           /\ \A t \in DOMAIN Pending(s, ids, rs) :
                 /\ Pending(s, ids, rs)[t] = Value(p, t) /\ Pending(s, ids, rs)[t] \in Nat
                 /\ Within(s, Pending(s, ids, rs), t)
           /\ \A t \in Commodities \cap DOMAIN Resources(s) :
                 Amount(Patched(s, p), t) = After(s, Pending(s, ids, rs), t)
<1>1. PICK new, c : new = Pending(s, ids, rs) /\ c = Patched(s, p)
  OBVIOUS
<1>2. /\ DOMAIN new = {t \in Requested(p) : t \in Commodities /\ Value(p, t) # Amount(s, t)}
      /\ \A t \in DOMAIN new : new[t] = Value(p, t) /\ new[t] \in Nat /\ Within(s, new, t)
      /\ \A t \in Commodities \cap DOMAIN Resources(s) : Amount(c, t) = After(s, new, t)
  BY <1>1, PendingIs
<1> QED BY <1>1, <1>2

LEMMA FigureIsInt == ASSUME NEW s, Stored(s), NEW d \in DOMAIN Caps(s)
                     PROVE  /\ d \in {"cargo", "fuel", "personnel", "space_used"} /\ Caps(s)[d] \in Int /\ s.sound
<1>1. CASE s.sound
  BY <1>1 DEF Caps, Stored
<1>2. CASE ~s.sound
  BY <1>2 DEF Caps
<1> QED BY <1>1, <1>2

LEMMA StackIsNat == ASSUME NEW s, Stored(s), NEW t PROVE Stack(s, t) \in Nat
BY SpaceIsInt DEF Stack

\* What the save has to spare, as the property counts it.
Fits(c, s, d) ==
    LET uncounted == IF d = "cargo" /\ "space_used" \in DOMAIN Caps(s)
                     THEN Max({0, Carried(s, d) - Caps(s)["space_used"]}) ELSE 0
    IN  \/ Carried(c, d) <= Caps(c)[d] + uncounted
        \/ Carried(c, d) = Carried(s, d)

LEMMA FuelFits ==
    ASSUME NEW p, NEW s, NEW ids, NEW rs, NEW optIn, Accepted(p, s, ids, rs, optIn),
           NEW c, c = Patched(s, p), "fuel" \in DOMAIN Caps(s)
    PROVE  Fits(c, s, "fuel")
<1>1. /\ Stored(s) /\ Stored(c) /\ Caps(c) = Caps(s) /\ DOMAIN Resources(c) = DOMAIN Resources(s)
  BY CopyReads DEF Accepted
<1>2. PICK new : new = Pending(s, ids, rs)
  OBVIOUS
<1>3. /\ \A t \in DOMAIN new : new[t] = Value(p, t) /\ new[t] \in Nat /\ Within(s, new, t)
      /\ \A t \in Commodities \cap DOMAIN Resources(s) : Amount(c, t) = After(s, new, t)
  BY <1>2, PendingOf
<1>4. CASE "fuel" \in DOMAIN new /\ "fuel" \in DOMAIN Resources(s)
  <2>1. Within(s, new, "fuel")
    BY <1>3, <1>4
  <2>2. new["fuel"] <= Caps(s)["fuel"]
    BY <2>1, <1>3, <1>4, <1>1, FigureIsInt DEF Within, Dimension, Fuel, Usage
  <2>3. Carried(c, "fuel") = new["fuel"]
    BY <1>1, <1>3, <1>4 DEF Carried, Stack, After, Commodities, Fuel
  <2> QED BY <1>1, <2>2, <2>3, FigureIsInt DEF Fits
<1>5. CASE ~("fuel" \in DOMAIN new /\ "fuel" \in DOMAIN Resources(s))
  BY <1>1, <1>3, <1>5 DEF Fits, Carried, Stack, After, Commodities, Fuel
<1> QED BY <1>4, <1>5

LEMMA PersonnelFits ==
    ASSUME NEW p, NEW s, NEW ids, NEW rs, NEW optIn, Accepted(p, s, ids, rs, optIn),
           NEW c, c = Patched(s, p), "personnel" \in DOMAIN Caps(s)
    PROVE  Fits(c, s, "personnel")
<1>1. /\ Stored(s) /\ Stored(c) /\ Caps(c) = Caps(s) /\ DOMAIN Resources(c) = DOMAIN Resources(s)
  BY CopyReads DEF Accepted
<1>2. PICK new : new = Pending(s, ids, rs)
  OBVIOUS
<1>3. /\ DOMAIN new \subseteq Requested(p)
      /\ \A t \in DOMAIN new : new[t] = Value(p, t) /\ new[t] \in Nat /\ Within(s, new, t)
      /\ \A t \in Commodities \cap DOMAIN Resources(s) : Amount(c, t) = After(s, new, t)
  BY <1>2, PendingOf
<1> DEFINE f == [t \in Personnel \cap DOMAIN Resources(s) |-> After(s, new, t)]
<1>4. Manned(s, new) = Stack(c, "crew") + Stack(c, "marines")
  <2>1. DOMAIN f = {"crew", "marines"} \cap DOMAIN Resources(s)
    BY DEF Personnel
  <2>2. \A t \in DOMAIN f : f[t] = Stack(c, t) /\ f[t] \in Int
    <3> TAKE t \in DOMAIN f
    <3>1. t \in Personnel \cap DOMAIN Resources(s) /\ f[t] = After(s, new, t)
      OBVIOUS
    <3>2. f[t] = Stack(c, t)
      BY <1>1, <1>3, <3>1 DEF Stack, Commodities
    <3> QED BY <1>1, <3>2, StackIsNat
  <2>3. \A t : t \notin DOMAIN Resources(s) => Stack(c, t) = 0
    BY <1>1 DEF Stack
  <2>4. SumFunction(f) = Manned(s, new)
    BY DEF Manned
  <2> HIDE DEF f
  <2>5. SumFunction(f) = (IF "crew" \in DOMAIN f THEN f["crew"] ELSE 0)
                       + (IF "marines" \in DOMAIN f THEN f["marines"] ELSE 0)
    BY <2>1, <2>2, TotalOfTwo
  <2>6. \A t \in {"crew", "marines"} : (IF t \in DOMAIN f THEN f[t] ELSE 0) = Stack(c, t)
    BY <2>1, <2>2, <2>3
  <2> QED BY <2>4, <2>5, <2>6
<1>5. Carried(c, "personnel") = Stack(c, "crew") + Stack(c, "marines")
  BY DEF Carried
<1>6. CASE \E t \in Personnel : t \in DOMAIN new
  <2>1. PICK t \in Personnel : t \in DOMAIN new
    BY <1>6
  <2>2. Within(s, new, t) /\ Dimension(t) = "personnel"
    BY <1>3, <2>1 DEF Dimension, Fuel, Personnel
  <2>3. Manned(s, new) \in 0..Caps(s)["personnel"]
    BY <2>2 DEF Within, Usage
  <2> QED BY <1>1, <1>4, <1>5, <2>3, FigureIsInt DEF Fits
<1>7. CASE ~ \E t \in Personnel : t \in DOMAIN new
  <2>1. \A t \in Personnel : Stack(c, t) = Stack(s, t)
    BY <1>1, <1>3, <1>7 DEF Stack, After, Commodities
  <2> QED BY <1>5, <2>1 DEF Fits, Carried, Personnel
<1> QED BY <1>6, <1>7

LEMMA CargoFits ==
    ASSUME NEW p, NEW s, NEW ids, NEW rs, NEW optIn, Accepted(p, s, ids, rs, optIn),
           NEW c, c = Patched(s, p), "cargo" \in DOMAIN Caps(s)
    PROVE  Fits(c, s, "cargo")
<1>1. /\ Stored(s) /\ Stored(c) /\ Caps(c) = Caps(s) /\ DOMAIN Resources(c) = DOMAIN Resources(s) /\ c.rest = s.rest
  BY CopyReads DEF Accepted
<1>2. PICK new : new = Pending(s, ids, rs)
  OBVIOUS
<1>3. \A t \in DOMAIN new : new[t] = Value(p, t) /\ new[t] \in Nat /\ Within(s, new, t)
  BY <1>2, PendingOf
<1> DEFINE e == [t \in DOMAIN new \cap Goods |-> (new[t] - Amount(s, t)) * Resources(s)[t].unit]
<1>4. /\ Carried(c, "cargo") = s.rest + Filled(c) /\ Carried(s, "cargo") = s.rest + Filled(s)
      /\ s.rest \in Int /\ Filled(s) \in Int /\ Filled(c) \in Int
  BY <1>1, SpaceIsInt DEF Carried, Stored
<1>5. CASE DOMAIN new \cap Goods = {}
  <2>1. \A t \in DOMAIN new \cap Goods : Resources(s)[t].unit # Absent
    BY <1>5
  <2>2. Filled(c) = Filled(s) + SumFunction(e)
    BY <1>2, <2>1, SpaceMoves
  <2>3. DOMAIN e = {}
    BY <1>5
  <2> HIDE DEF e
  <2>4. SumFunction(e) = 0
    BY <2>3, TotalOfNothing
  <2> QED BY <1>4, <2>2, <2>4 DEF Fits
<1>6. CASE DOMAIN new \cap Goods # {}
  <2>1. PICK t \in DOMAIN new \cap Goods : Within(s, new, t)
    BY <1>3, <1>6
  <2>2. Dimension(t) = "cargo"
    BY DEF Dimension, Goods, Fuel, Personnel
  <2>3. "cargo" \in Computed(s, new) /\ Usage(s, new)["cargo"] \in 0..Caps(s)["cargo"]
    BY <2>1, <2>2 DEF Within, Usage
  <2>4. /\ "space_used" \in DOMAIN Caps(s)
        /\ \A x \in DOMAIN new \cap Goods : Resources(s)[x].unit # Absent
    BY <2>3 DEF Computed
  <2>5. Filled(c) = Filled(s) + SumFunction(e) /\ SumFunction(e) \in Int
    BY <1>2, <2>4, SpaceMoves
  <2>6. Caps(s)["space_used"] + SumFunction(e) <= Caps(s)["cargo"]
    <3>1. Usage(s, new)["cargo"] = Stowed(s, new)
      BY <2>3 DEF Usage
    <3>2. Stowed(s, new) = Caps(s)["space_used"] + SumFunction(e)
      BY DEF Stowed
    <3> HIDE DEF e
    <3> QED BY <1>1, <2>3, <2>4, <2>5, <3>1, <3>2, FigureIsInt
  <2> DEFINE over == Carried(s, "cargo") - Caps(s)["space_used"]
  <2>7. Caps(s)["space_used"] \in Int /\ Caps(s)["cargo"] \in Int
    BY <1>1, <2>4, FigureIsInt
  <2>8. Max({0, over}) \in Int /\ Max({0, over}) >= over
    <3>1. over \in Int
      BY <1>4, <2>7
    <3> HIDE DEF over
    <3> QED BY <3>1, MaxWithZero
  <2> HIDE DEF e
  <2>9. Carried(c, "cargo") <= Caps(s)["cargo"] + Max({0, over})
    <3>1. over = (s.rest + Filled(s)) - Caps(s)["space_used"]
      BY <1>4
    <3> HIDE DEF over
    <3> QED BY <1>4, <2>5, <2>6, <2>7, <2>8, <3>1
  <2> QED BY <1>1, <2>4, <2>9 DEF Fits
<1> QED BY <1>5, <1>6

LEMMA CopyFits ==
    ASSUME NEW p, NEW s, NEW ids, NEW rs, NEW optIn, Accepted(p, s, ids, rs, optIn)
    PROVE  \A d \in DOMAIN Caps(Patched(s, p)) \ {"space_used"} : Fits(Patched(s, p), s, d)
<1>1. Stored(s) /\ Caps(Patched(s, p)) = Caps(s)
  BY CopyReads DEF Accepted
<1>2. \A d \in DOMAIN Caps(s) : d \in {"cargo", "fuel", "personnel", "space_used"}
  BY <1>1, FigureIsInt
<1> QED BY <1>1, <1>2, FuelFits, PersonnelFits, CargoFits

------------------------------------------------------------------------------
(* The saves one after the other, with the copies made of them.            *)
EditSpec == EditInit /\ [][EditNext]_editVars

PlanIsOfFolder ==
    edit # Absent => \E rs \in Asked, ids \in Catalogs, optIn \in BOOLEAN : edit = EditPlan(folder, ids, rs, optIn)
CopyIsOfPlan ==
    made # Absent =>
        /\ edit # Absent /\ MayBeWritten(edit)
        /\ made = [save |-> Patched(folder, edit), expected |-> Expected(Patched(folder, edit), edit)]
GameIsOfCopy ==
    /\ game # Absent => made # Absent /\ game \in Loaded(made.save)
    /\ log # Absent => made # Absent /\ game \in Loaded(made.save) /\ log \in Logs(game)
    /\ verdict # Absent => log # Absent /\ verdict = Verdict(made.expected, log)
EditInv == Stored(folder) /\ PlanIsOfFolder /\ CopyIsOfPlan /\ GameIsOfCopy

LEMMA PlanAccepted ==
    ASSUME EditInv, made # Absent
    PROVE  \E ids, rs, optIn : Accepted(edit, folder, ids, rs, optIn)
<1>1. PICK rs \in Asked, ids \in Catalogs, optIn \in BOOLEAN : edit = EditPlan(folder, ids, rs, optIn)
  BY DEF EditInv, PlanIsOfFolder, CopyIsOfPlan
<1>2. Stored(folder) /\ MayBeWritten(edit)
  BY DEF EditInv, CopyIsOfPlan
<1> QED BY <1>1, <1>2 DEF Accepted

\* What the game loads is the copy, but for the supplies a mod may set.
LEMMA StoredReadsBack == ASSUME NEW n \in Nat, NEW kind, Storable(kind, n) PROVE Read(kind, n) = n
<1>1. CASE kind = "INT32"
  <2>1. n <= IntMax /\ IntMax \in Nat
    BY <1>1, EditAssumption DEF Storable
  <2>2. n % (IntMax + 1) = n
    BY <2>1
  <2> QED BY <1>1, <2>2 DEF Read
<1>2. CASE kind # "INT32"
  BY <1>2 DEF Read, Storable
<1> QED BY <1>1, <1>2

LEMMA Loads ==
    ASSUME NEW s, Stored(s), NEW g \in Loaded(s)
    PROVE  /\ Stored(g) /\ g.caps = s.caps /\ g.rest = s.rest /\ g.sound = s.sound
           /\ DOMAIN g.held = DOMAIN s.held
           /\ \A t \in DOMAIN s.held : g.held[t].n = s.held[t].n \/ (t = "supplies" /\ g.held[t].n = 1)
<1> DEFINE h == [t \in DOMAIN s.held |-> [s.held[t] EXCEPT !.n = Read(s.held[t].kind, s.held[t].n)]]
           got == [s EXCEPT !.held = h]
<1>1. s = [sound |-> s.sound, partials |-> s.partials, rest |-> s.rest, held |-> s.held, caps |-> s.caps]
  BY DEF Stored
<1>2. ASSUME NEW t \in DOMAIN s.held PROVE h[t] = s.held[t]
  <2> DEFINE it == s.held[t]
  <2>1. it = [n |-> it.n, kind |-> it.kind, unit |-> it.unit, max |-> it.max] /\ it.n \in Nat /\ Storable(it.kind, it.n)
    BY DEF Stored
  <2>2. Read(it.kind, it.n) = it.n
    <3> HIDE DEF it
    <3> QED BY <2>1, StoredReadsBack
  <2>3. h[t] = [it EXCEPT !.n = Read(it.kind, it.n)]
    OBVIOUS
  <2> HIDE DEF it, h
  <2> QED BY <2>1, <2>2, <2>3 DEF it
<1>3. h = s.held
  <2>1. s.held = [t \in DOMAIN s.held |-> s.held[t]] /\ h = [t \in DOMAIN s.held |-> h[t]]
    BY DEF Stored
  <2> HIDE DEF h
  <2> QED BY <1>2, <2>1
<1>4. got = s
  <2> HIDE DEF h
  <2> QED BY <1>1, <1>3
<1>5. g = got \/ ("supplies" \in DOMAIN got.held /\ g = [got EXCEPT !.held["supplies"].n = 1])
  BY DEF Loaded
<1> HIDE DEF got
<1>6. CASE g = s
  BY <1>6
<1>7. CASE "supplies" \in DOMAIN s.held /\ g = [s EXCEPT !.held["supplies"].n = 1]
  <2> DEFINE it == s.held["supplies"]
             k == [s.held EXCEPT !["supplies"] = [n |-> 1, kind |-> it.kind, unit |-> it.unit, max |-> it.max]]
  <2>1. it = [n |-> it.n, kind |-> it.kind, unit |-> it.unit, max |-> it.max]
    BY <1>7 DEF Stored
  <2>2. [it EXCEPT !.n = 1] = [n |-> 1, kind |-> it.kind, unit |-> it.unit, max |-> it.max]
    <3> HIDE DEF it
    <3> QED BY <2>1
  <2>3. g = [sound |-> s.sound, partials |-> s.partials, rest |-> s.rest, held |-> k, caps |-> s.caps]
    <3>1. g = [s EXCEPT !.held = [s.held EXCEPT !["supplies"] = [it EXCEPT !.n = 1]]]
      BY <1>7
    <3>2. g = [s EXCEPT !.held = k]
      BY <2>2, <3>1
    <3> HIDE DEF k, it
    <3> QED BY <1>1, <3>2
  <2>4. DOMAIN k = DOMAIN s.held /\ k = [t \in DOMAIN k |-> k[t]]
    BY <1>7
  <2>5. /\ k["supplies"].n = 1 /\ k["supplies"].kind = it.kind /\ k["supplies"].unit = it.unit
        /\ k["supplies"].max = it.max
        /\ \A t \in DOMAIN s.held \ {"supplies"} : k[t] = s.held[t]
    <3>1. k["supplies"] = [n |-> 1, kind |-> it.kind, unit |-> it.unit, max |-> it.max]
      BY <1>7
    <3>2. \A t \in DOMAIN s.held \ {"supplies"} : k[t] = s.held[t]
      BY <1>7
    <3> HIDE DEF k, it
    <3> QED BY <3>1, <3>2
  <2>6. k["supplies"] = [n |-> k["supplies"].n, kind |-> k["supplies"].kind, unit |-> k["supplies"].unit, max |-> k["supplies"].max]
    BY <1>7
  <2>7. Storable(it.kind, 1)
    <3>1. Float(1) = 1 /\ 1 <= IntMax
      BY Floats, EditAssumption
    <3> QED BY <3>1 DEF Storable
  <2>8. it.unit \in Int \cup {Absent} /\ it.kind = "FLOAT32"
    BY <1>7 DEF Stored
  <2> HIDE DEF k, it
  <2>9. \A t \in DOMAIN k :
         LET y == k[t] IN
         /\ y = [n |-> y.n, kind |-> y.kind, unit |-> y.unit, max |-> y.max]
         /\ y.n \in Nat /\ Storable(y.kind, y.n) /\ y.unit \in Int \cup {Absent}
         /\ y.kind = IF t = "story_points" THEN "INT32" ELSE "FLOAT32"
         /\ t \in {"credits", "story_points"} => y.unit = Absent
    <3> TAKE t \in DOMAIN k
    <3>1. CASE t = "supplies"
      BY <2>5, <2>6, <2>7, <2>8, <3>1
    <3>2. CASE t # "supplies"
      <4>1. k[t] = s.held[t] /\ t \in DOMAIN s.held
        BY <2>4, <2>5, <3>2
      <4> QED BY <4>1 DEF Stored
    <3> QED BY <3>1, <3>2
  <2>10. g.held = k /\ g.caps = s.caps /\ g.rest = s.rest /\ g.sound = s.sound /\ g.partials = s.partials
    BY <2>3
  <2>11. g = [sound |-> g.sound, partials |-> g.partials, rest |-> g.rest, held |-> g.held, caps |-> g.caps]
    BY <2>3, <2>10
  <2>12. /\ IsFiniteSet(DOMAIN k) /\ DOMAIN s.caps \subseteq {"cargo", "fuel", "personnel", "space_used"}
         /\ s.caps \in [DOMAIN s.caps -> Int]
         /\ s.rest \in Int /\ s.sound \in BOOLEAN
    BY <2>4 DEF Stored
  <2>13. Stored(g)
    BY <2>4, <2>9, <2>10, <2>11, <2>12 DEF Stored
  <2> QED BY <2>4, <2>5, <2>10, <2>13
<1> QED BY <1>4, <1>5, <1>6, <1>7

LEMMA ChosenIsStored == ASSUME EditInv, ChooseNext PROVE Stored(folder')
<1>1. PICK ids, rs, optIn : Accepted(edit, folder, ids, rs, optIn)
  BY PlanAccepted DEF ChooseNext
<1>2. made.save = Patched(folder, edit)
  BY DEF EditInv, CopyIsOfPlan, ChooseNext
<1>3. Stored(made.save)
  BY <1>1, <1>2, CopyReads
<1>4. ASSUME game # Absent, "space_used" \in DOMAIN game.caps,
             folder' = [game EXCEPT !.caps["space_used"] = game.rest + Filled(game)]
      PROVE  Stored(folder')
  <2>1. PICK g : g = game
    OBVIOUS
  <2>2. Stored(g)
    BY <1>3, <1>4, <2>1, Loads DEF EditInv, GameIsOfCopy
  <2> DEFINE n == g.rest + Filled(g)
             k == [g.caps EXCEPT !["space_used"] = n]
  <2>3. n \in Int
    BY <2>2, SpaceIsInt DEF Stored
  <2>4. folder' = [g EXCEPT !.caps = k]
    BY <1>4, <2>1
  <2>5. DOMAIN k = DOMAIN g.caps /\ k \in [DOMAIN g.caps -> Int]
    <3>1. g.caps \in [DOMAIN g.caps -> Int]
      BY <2>2 DEF Stored
    <3> HIDE DEF n
    <3> QED BY <2>3, <3>1
  <2>6. PICK s : s = folder'
    OBVIOUS
  <2> HIDE DEF n, k
  <2>7. s = [sound |-> g.sound, partials |-> g.partials, rest |-> g.rest, held |-> g.held, caps |-> k]
    <3>1. g = [sound |-> g.sound, partials |-> g.partials, rest |-> g.rest, held |-> g.held, caps |-> g.caps]
      BY <2>2 DEF Stored
    <3> QED BY <2>4, <2>6, <3>1
  <2>8. s.sound = g.sound /\ s.partials = g.partials /\ s.rest = g.rest /\ s.held = g.held /\ s.caps = k
    BY <2>7
  <2>9. s = [sound |-> s.sound, partials |-> s.partials, rest |-> s.rest, held |-> s.held, caps |-> s.caps]
    BY <2>7, <2>8
  <2>10. Stored(s)
    BY <2>2, <2>5, <2>8, <2>9 DEF Stored
  <2> QED BY <2>6, <2>10
<1> QED BY <1>3, <1>4 DEF ChooseNext

LEMMA EditStep == EditInv /\ [EditNext]_editVars => EditInv'
<1> SUFFICES ASSUME EditInv, [EditNext]_editVars PROVE EditInv'
  OBVIOUS
<1> USE DEF EditInv, PlanIsOfFolder, CopyIsOfPlan, GameIsOfCopy
<1>1. CASE StartOver
  BY <1>1 DEF StartOver
<1>2. CASE ReviewEdit
  <2>1. PICK rs \in Asked, ids \in Catalogs, optIn \in BOOLEAN : edit' = EditPlan(folder, ids, rs, optIn)
    BY <1>2 DEF ReviewEdit
  <2>2. edit = Absent /\ UNCHANGED <<folder, made, game, log, verdict>>
    BY <1>2 DEF ReviewEdit
  <2>3. PlanIsOfFolder'
    BY <2>1, <2>2
  <2> QED BY <2>2, <2>3
<1>3. CASE WriteEdit
  BY <1>3 DEF WriteEdit
<1>4. CASE LoadCopy
  <2>1. /\ made # Absent /\ log = Absent /\ game' \in Loaded(made.save) /\ log' \in Logs(game')
        /\ UNCHANGED <<folder, edit, made, verdict>>
    BY <1>4 DEF LoadCopy
  <2>2. verdict = Absent
    BY <2>1
  <2> QED BY <2>1, <2>2
<1>5. CASE VerifyInGame
  BY <1>5 DEF VerifyInGame
<1>6. CASE ChooseNext
  <2>1. Stored(folder')
    BY <1>6, ChosenIsStored
  <2> QED BY <1>6, <2>1 DEF ChooseNext
<1>7. CASE UNCHANGED editVars
  BY <1>7 DEF editVars
<1> QED BY <1>1, <1>2, <1>3, <1>4, <1>5, <1>6, <1>7 DEF EditNext

LEMMA EditInvariant == EditSpec => []EditInv
<1>1. EditInit => EditInv
  BY SaveAssumption DEF EditInit, EditInv, PlanIsOfFolder, CopyIsOfPlan, GameIsOfCopy
<1> QED BY <1>1, EditStep, PTL DEF EditSpec

(* However many amounts are changed at once, and in a copy of a copy too,   *)
(* what is written carries no more than the save's figures allow, but for   *)
(* what it carried already and what its own figure of space does not count. *)
THEOREM CapacityIsKept == EditSpec => []CapacityKept
<1>1. EditInv => CapacityKept
  <2> SUFFICES ASSUME EditInv, made # Absent
               PROVE  \A d \in DOMAIN Caps(made.save) \ {"space_used"} : Fits(made.save, folder, d)
    BY DEF CapacityKept, Fits
  <2>1. PICK ids, rs, optIn : Accepted(edit, folder, ids, rs, optIn)
    BY PlanAccepted
  <2>2. made.save = Patched(folder, edit)
    BY DEF EditInv, CopyIsOfPlan
  <2> QED BY <2>1, <2>2, CopyFits
<1> QED BY <1>1, EditInvariant, PTL

------------------------------------------------------------------------------
LEMMA ReadsBack == EditInv => ReadAsRequested
<1> SUFFICES ASSUME EditInv, made # Absent, NEW t \in DOMAIN made.save.held
             PROVE  Read(made.save.held[t].kind, made.save.held[t].n)
                      = IF t \in Requested(edit) THEN Value(edit, t) ELSE Read(folder.held[t].kind, folder.held[t].n)
  BY DEF ReadAsRequested
<1>1. PICK ids, rs, optIn : Accepted(edit, folder, ids, rs, optIn)
  BY PlanAccepted
<1>2. PICK c : c = made.save /\ c = Patched(folder, edit)
  BY DEF EditInv, CopyIsOfPlan
<1> DEFINE v == IF t \in Requested(edit) THEN Value(edit, t) ELSE folder.held[t].n
           k == folder.held[t].kind
<1>3. Stored(c) /\ c.held[t] = [n |-> v, kind |-> k, unit |-> folder.held[t].unit, max |-> folder.held[t].max]
  BY <1>1, <1>2, CopyHolds
<1> HIDE DEF v, k
<1>4. c.held[t].n = v /\ c.held[t].kind = k
  BY <1>3
<1>5. c.held[t].n \in Nat /\ Storable(c.held[t].kind, c.held[t].n)
  BY <1>2, <1>3 DEF Stored
<1>6. Read(k, v) = v
  BY <1>4, <1>5, StoredReadsBack
<1> QED BY <1>2, <1>4, <1>6 DEF v, k

\* The hundredths of one unit are those of no other amount.
LEMMA OneIsReported == ASSUME NEW n \in Nat, Float(n) = n, Hundredths(n) = Hundredths(1) PROVE n = 1
<1> DEFINE a == Float(Cent * n)
<1>1. Cent \in Nat /\ Cent >= 1 /\ Cent < Exact /\ Cent < IntMax /\ Exact \in Nat /\ IntMax \in Nat
  BY EditAssumption
<1>2. Float(1) = 1 /\ Float(Cent * 1) = Cent /\ Cent * n \in Nat
  BY <1>1, Floats
<1>3. a \in Nat /\ (Cent * n < Exact => a = Cent * n) /\ (Cent * n >= Exact => a >= Exact)
  BY <1>2, Floats
<1> HIDE DEF a
<1>4. Hundredths(1) = Min({IntMax, Cent}) /\ Hundredths(n) = Min({IntMax, a})
  BY <1>2 DEF Hundredths, a
<1>5. Min({IntMax, Cent}) = Cent /\ Min({IntMax, a}) = IF a < IntMax THEN a ELSE IntMax
  <2>1. ASSUME NEW x \in Nat, NEW y \in Nat PROVE Min({x, y}) = IF y < x THEN y ELSE x
    <3> DEFINE m == IF y < x THEN y ELSE x
    <3>1. m \in {x, y} /\ \A z \in {x, y} : m <= z
      BY <2>1
    <3>2. \A w \in {x, y} : (\A z \in {x, y} : w <= z) => w = m
      BY <2>1
    <3> HIDE DEF m
    <3>3. Min({x, y}) = m
      BY <3>1, <3>2 DEF Min
    <3> QED BY <3>3 DEF m
  <2> QED BY <1>1, <1>3, <2>1
<1>6. a = Cent
  BY <1>1, <1>3, <1>4, <1>5
<1>7. Cent * n = Cent
  BY <1>1, <1>2, <1>3, <1>6
<1> QED BY <1>1, <1>7

LEMMA LoadedStack ==
    ASSUME NEW s, Stored(s), NEW g \in Loaded(s), NEW t
    PROVE  Stack(g, t) = Stack(s, t) \/ (t = "supplies" /\ Stack(g, t) = 1)
<1>1. /\ Stored(g) /\ g.sound = s.sound
      /\ DOMAIN g.held = DOMAIN s.held
      /\ \A x \in DOMAIN s.held : g.held[x].n = s.held[x].n \/ (x = "supplies" /\ g.held[x].n = 1)
  BY Loads
<1>2. DOMAIN Resources(g) = DOMAIN Resources(s) /\ DOMAIN Resources(s) \subseteq DOMAIN s.held
  BY <1>1, ResourcesOf
<1>3. \A x \in DOMAIN Resources(s) : Resources(g)[x] = g.held[x] /\ Resources(s)[x] = s.held[x]
  BY <1>1, <1>2, ResourcesOf
<1> QED BY <1>1, <1>2, <1>3 DEF Stack, Amount

LEMMA StackIsFloat == ASSUME NEW s, Stored(s) PROVE Float(Stack(s, "supplies")) = Stack(s, "supplies")
<1>1. CASE "supplies" \in DOMAIN Resources(s)
  <2>1. "supplies" \in DOMAIN s.held /\ Resources(s)["supplies"] = s.held["supplies"]
    BY <1>1, ResourcesOf
  <2>2. Storable(s.held["supplies"].kind, s.held["supplies"].n) /\ s.held["supplies"].kind = "FLOAT32"
    BY <2>1 DEF Stored
  <2> QED BY <1>1, <2>1, <2>2 DEF Stack, Amount, Storable
<1>2. CASE "supplies" \notin DOMAIN Resources(s)
  <2>1. Float(0) = 0
    BY Floats, EditAssumption
  <2> QED BY <1>2, <2>1 DEF Stack
<1> QED BY <1>1, <1>2

LEMMA SameSections ==
    ASSUME EditInv, verdict = "FAIL", \A x \in Sections : log.file[x] = 1
    PROVE  \/ \E x \in Sections : log.after[x] \notin {1, Absent}
           \/ log.cargo = Absent /\ \A x \in Sections : log.after[x] = Absent
<1>1. verdict # Absent /\ 1 # Absent
  BY EditAssumption
<1>2. verdict = Verdict(made.expected, log)
  BY <1>1 DEF EditInv, GameIsOfCopy
<1>3. \/ log.cargo = Absent /\ \A x \in Sections : log.after[x] = Absent
      \/ \E x \in Sections : SectionRow(log, x) = "DIFFERS"
  BY <1>2 DEF Verdict
<1>4. ASSUME NEW x \in Sections, SectionRow(log, x) = "DIFFERS" PROVE log.after[x] \notin {1, Absent}
  BY <1>1, <1>4 DEF SectionRow, Before
<1> QED BY <1>3, <1>4

LEMMA PassHolds ==
    ASSUME EditInv, verdict = "PASS", made.expected # Absent
    PROVE  /\ \A t \in {"supplies", "fuel", "crew"} : Stack(game, t) = Stack(made.save, t)
           /\ log.cargo = Line(game, Caps(made.save)["space_used"])
<1>1. /\ verdict # Absent /\ log # Absent /\ made # Absent
      /\ verdict = Verdict(made.expected, log) /\ game \in Loaded(made.save) /\ log \in Logs(game)
      /\ made.save = Patched(folder, edit) /\ made.expected = Expected(Patched(folder, edit), edit)
  BY EditAssumption DEF EditInv, GameIsOfCopy, CopyIsOfPlan
<1>2. PICK c, g, space : c = made.save /\ g = game /\ space = Caps(c)["space_used"]
  OBVIOUS
<1>3. Stored(c)
  <2>1. PICK ids, rs, optIn : Accepted(edit, folder, ids, rs, optIn)
    BY <1>1, PlanAccepted
  <2> QED BY <1>1, <1>2, <2>1, CopyReads
<1>4. Reproducible(c) /\ made.expected.line = Line(c, space)
  BY <1>1, <1>2 DEF Expected
<1>5. log.cargo = Line(c, space) /\ log.cargo # Absent
  <2>1. CargoRow(made.expected, log) = "MATCH"
    BY <1>1 DEF Verdict
  <2> QED BY <1>4, <2>1 DEF CargoRow
<1>6. Stored(g) /\ Caps(g) = Caps(c)
  BY <1>1, <1>2, <1>3, Loads DEF Caps
<1>7. PICK n : log.cargo = Line(g, n)
  <2>1. Reproducible(g)
    BY <1>4, <1>6 DEF Reproducible
  <2> QED BY <1>1, <1>2, <1>5, <2>1 DEF Logs
<1>8. /\ Hundredths(n) = Hundredths(space) /\ Hundredths(Stack(g, "fuel")) = Hundredths(Stack(c, "fuel"))
      /\ Stack(g, "crew") = Stack(c, "crew")
      /\ Hundredths(Stack(g, "supplies")) = Hundredths(Stack(c, "supplies"))
  BY <1>5, <1>7 DEF Line
<1>9. \A t : Stack(g, t) = Stack(c, t) \/ (t = "supplies" /\ Stack(g, t) = 1)
  BY <1>1, <1>2, <1>3, LoadedStack
<1>10. Stack(g, "supplies") = Stack(c, "supplies")
  BY <1>3, <1>8, <1>9, StackIsNat, StackIsFloat, OneIsReported
<1>11. log.cargo = Line(g, space)
  BY <1>7, <1>8 DEF Line
<1> QED BY <1>2, <1>9, <1>10, <1>11

(* What the workshop says of a loaded copy is true: the game reads what was *)
(* asked for and nothing else changed; a PASS means that it holds the       *)
(* copy's supplies, fuel, crew and space, a FAIL that a section changed.    *)
THEOREM VerdictsAreTrue == EditSpec => []VerdictIsTrue
<1>1. EditInv => VerdictIsTrue
  BY ReadsBack, SameSections, PassHolds DEF VerdictIsTrue
<1> QED BY <1>1, EditInvariant, PTL

------------------------------------------------------------------------------
(* Of the acceptance sweep.                                                 *)
\* A verdict has one of the four classes.
IsVerdict(record) == record.class \in DOMAIN Rank

LEMMA RanksAreNumbers == \A class \in DOMAIN Rank : Rank[class] \in 0..3
BY DEF Rank

LEMMA RecordIsVerdict ==
    ASSUME NEW read, NEW reg, NEW mod PROVE IsVerdict(Record(read, reg, mod))
<1>1. ASSUME NEW codes PROVE Classified(read, mod, codes) \in {"FAIL", "PARTIAL", "PASS_WITH_UNKNOWNS", "PASS"}
  BY DEF Classified
<1>2. DOMAIN Rank = {"FAIL", "PARTIAL", "PASS_WITH_UNKNOWNS", "PASS"}
  BY DEF Rank
<1>3. Record(read, reg, mod).class = Classified(read, mod, AuditCodes(read, reg, mod, Messages(read, mod)))
  BY DEF Record, Judged
<1> QED BY <1>1, <1>2, <1>3 DEF IsVerdict

\* What is no regression against what is no regression is none.
Keeps(before, after) == ~Worse(before, after) /\ ~Gained(before, after)
LEMMA KeepsIsTransitive ==
    ASSUME NEW a, NEW b, NEW c, IsVerdict(a), IsVerdict(b), IsVerdict(c), Keeps(a, b), Keeps(b, c)
    PROVE  Keeps(a, c)
<1>1. Rank[a.class] \in Int /\ Rank[b.class] \in Int /\ Rank[c.class] \in Int
  BY RanksAreNumbers DEF IsVerdict
<1>2. ~(Rank[b.class] > Rank[a.class]) /\ ~(Rank[c.class] > Rank[b.class])
  BY DEF Keeps, Worse
<1>3. ~Worse(a, c)
  <2> DEFINE ra == Rank[a.class]
             rb == Rank[b.class]
             rc == Rank[c.class]
  <2>1. ra \in Int /\ rb \in Int /\ rc \in Int /\ ~(rb > ra) /\ ~(rc > rb)
    BY <1>1, <1>2
  <2> HIDE DEF ra, rb, rc
  <2>2. ~(rc > ra)
    BY <2>1
  <2> QED BY <2>2 DEF Worse, ra, rc
<1>4. ~Gained(a, c)
  BY DEF Keeps, Gained
<1> QED BY <1>3, <1>4 DEF Keeps

LEMMA KeepsItself == ASSUME NEW a, IsVerdict(a) PROVE Keeps(a, a)
<1>1. Rank[a.class] \in Int
  BY RanksAreNumbers DEF IsVerdict
<1>2. ~Worse(a, a)
  BY <1>1 DEF Worse
<1>3. ~Gained(a, a)
  BY DEF Gained
<1> QED BY <1>2, <1>3 DEF Keeps

LEMMA BaselineIsVerdicts ==
    ASSUME NEW records, NEW failed, \A mod \in DOMAIN records : IsVerdict(records[mod])
    PROVE  \A key \in DOMAIN BaselineOf(records, failed) : IsVerdict(BaselineOf(records, failed)[key])
<1> DEFINE now == BaselineOf(records, failed)
           ids == {[id |-> mod] : mod \in DOMAIN records}
<1>1. DOMAIN now = ids \cup failed
  BY DEF BaselineOf
<1>2. ASSUME NEW key \in failed PROVE IsVerdict(now[key])
  <2>1. now[key].class = "FAIL"
    BY DEF BaselineOf
  <2> QED BY <2>1 DEF IsVerdict, Rank
<1>3. ASSUME NEW key \in ids, key \notin failed PROVE IsVerdict(now[key])
  <2>1. PICK mod \in DOMAIN records : key = [id |-> mod]
    OBVIOUS
  <2>2. now[key] = records[key.id]
    BY <1>3 DEF BaselineOf
  <2> QED BY <2>1, <2>2
<1> QED BY <1>1, <1>2, <1>3

Verdicts(records) == \A mod \in DOMAIN records : IsVerdict(records[mod])

LEMMA MoreVerdicts ==
    ASSUME NEW one, NEW other, Verdicts(one), Verdicts(other) PROVE Verdicts(Over(one, other))
BY DEF Verdicts, Over

\* The mods of a header, and what a checkpoint of that header may record of them: what some scan with it says.
HeaderMods(header) == {entry[1] : entry \in header.mods}
Recorded(header, records) ==
    /\ Verdicts(records)
    /\ \A mod \in DOMAIN records : mod \in HeaderMods(header) /\ <<header, mod, records[mod]>> \in AuditVerdicts
CheckpointOk(saved) ==
    /\ saved = [header |-> saved.header, done |-> saved.done, end |-> saved.end]
    /\ Recorded(saved.header, saved.done)

\* The run at work: its scan is one that is possible, its checkpoint has the header of its scan, and what is
\* recorded and what is pending are together the mods of the scan.
AuditOk(run, saved) ==
    /\ run = [read |-> run.read, reg |-> run.reg, done |-> run.done, failed |-> run.failed, pending |-> run.pending]
    /\ CheckpointOk(saved) /\ saved.header = Header(run.read, run.failed)
    /\ VerdictsOf(run.read, run.failed) \subseteq AuditVerdicts
    /\ run.reg = RegistryOf(ScanClaims(run.read))
    /\ run.pending \subseteq ModPlaces(run.read)
    /\ DOMAIN run.done \cup ModsOf(run.read, run.pending) = ModsOf(run.read, ModPlaces(run.read))
    /\ Recorded(Header(run.read, run.failed), run.done)

DiskInv == disk = [f \in Folders |-> disk[f]] /\ \A f \in Folders : disk[f] \in HeldBy(f)
RunInv == (checkpoint # Gone => CheckpointOk(checkpoint)) /\ (audit # Gone => AuditOk(audit, checkpoint))

\* The baseline at hand is no regression against what its line began with.
BaselineInv ==
    baseline # Gone =>
        /\ Verdicts(baseline.mods)
        /\ \A key \in DOMAIN baseline.since :
              /\ key \in DOMAIN baseline.mods /\ IsVerdict(baseline.since[key])
              /\ Keeps(baseline.since[key], baseline.mods[key])
SweepInv == DiskInv /\ RunInv /\ BaselineInv /\ AuditIsWhole

LEMMA DiskIsPossible == ASSUME DiskInv PROVE disk \in AuditDisks
<1> DEFINE held == [f \in Changing |-> disk[f]]
           all == UNION {HeldBy(f) : f \in Changing}
<1>1. held \in {d \in [Changing -> all] : \A f \in Changing : d[f] \in HeldBy(f)}
  <2>1. \A f \in Changing : disk[f] \in HeldBy(f) /\ HeldBy(f) \subseteq all
    BY DEF DiskInv, Changing
  <2> HIDE DEF all
  <2> QED BY <2>1
<1>2. ASSUME NEW f \in Folders, f \notin Changing PROVE disk[f] = FirstDisk[f]
  BY <1>2 DEF DiskInv, Changing, HeldBy
<1>3. Over(held, FirstDisk) = [f \in Folders |-> disk[f]]
  <2>1. DOMAIN FirstDisk = Folders /\ Changing \subseteq Folders
    BY DiskAssumption DEF Changing
  <2> QED BY <1>2, <2>1 DEF Over
<1>4. Over(held, FirstDisk) = disk
  BY <1>3 DEF DiskInv
<1> HIDE DEF held, all
<1> QED BY <1>1, <1>4 DEF AuditDisks, all

LEMMA HeadersName ==
    ASSUME NEW read, NEW failed PROVE HeaderMods(Header(read, failed)) = ModsOf(read, ModPlaces(read))
<1>1. Header(read, failed).mods = {<<read.mods[i].mod, read.mods[i].version, read.mods[i].root>> : i \in ModPlaces(read)}
  BY DEF Header
<1> DEFINE entry(i) == <<read.mods[i].mod, read.mods[i].version, read.mods[i].root>>
           places == ModPlaces(read)
<1>2. \A i : entry(i)[1] = read.mods[i].mod
  OBVIOUS
<1>3. Header(read, failed).mods = {entry(i) : i \in places}
  BY <1>1
<1> HIDE DEF entry, places
<1>4. HeaderMods(Header(read, failed)) = {read.mods[i].mod : i \in places}
  BY <1>2, <1>3 DEF HeaderMods
<1> QED BY <1>4 DEF ModsOf, places

LEMMA StartIsOk == ASSUME SweepInv, StartAudit PROVE CheckpointOk(checkpoint') /\ AuditOk(audit', checkpoint')
<1> DEFINE read == FullScan(disk, << >>)
           failed == Synthetic(disk, read.mods)
           done == LoadCheckpoint(Header(read, failed))
           left == {i \in ModPlaces(read) : read.mods[i].mod \notin DOMAIN done}
<1>1. AuditOf(read, failed, done)
  BY DEF StartAudit, AuditScan
<1>2. audit' = [read |-> read, reg |-> RegistryOf(ScanClaims(read)), done |-> done, failed |-> failed, pending |-> left]
  BY <1>1 DEF AuditOf
<1>3. checkpoint' = IF done = << >> THEN [header |-> Header(read, failed), done |-> << >>, end |-> "whole"] ELSE checkpoint
  BY <1>1 DEF AuditOf
<1>4. VerdictsOf(read, failed) \subseteq AuditVerdicts
  <2>1. read.mods = DiscoverSources(disk, << >>)
    BY DEF FullScan, FullScanOf
  <2>2. VerdictsOf(FullScan(disk, << >>), Synthetic(disk, DiscoverSources(disk, << >>))) \subseteq AuditVerdicts
    BY DiskIsPossible DEF AuditVerdicts, SweepInv
  <2> QED BY <2>1, <2>2
<1>5. CASE done = << >>
  <2>1. Recorded(Header(read, failed), << >>)
    BY DEF Recorded, Verdicts
  <2>2. CheckpointOk(checkpoint') /\ checkpoint'.header = Header(read, failed)
    BY <1>3, <1>5, <2>1 DEF CheckpointOk
  <2>3. Recorded(Header(read, failed), done)
    BY <1>5, <2>1
  <2>4. DOMAIN done \cup ModsOf(read, left) = ModsOf(read, ModPlaces(read)) /\ left \subseteq ModPlaces(read)
    <3>1. DOMAIN done = {}
      BY <1>5
    <3> HIDE DEF done
    <3> QED BY <3>1 DEF ModsOf
  <2> HIDE DEF read, failed, done, left
  <2> QED BY <1>2, <1>4, <2>2, <2>3, <2>4 DEF AuditOk
<1>6. CASE done # << >>
  <2>1. checkpoint # Gone /\ checkpoint.header = Header(read, failed) /\ done = checkpoint.done
    BY <1>6 DEF LoadCheckpoint
  <2>2. checkpoint' = checkpoint
    BY <1>3, <1>6
  <2>3. CheckpointOk(checkpoint)
    BY <2>1 DEF SweepInv, RunInv
  <2>4. Recorded(Header(read, failed), done)
    <3> HIDE DEF read, failed, done
    <3> QED BY <2>1, <2>3 DEF CheckpointOk
  <2>5. DOMAIN done \subseteq ModsOf(read, ModPlaces(read))
    <3>1. HeaderMods(Header(read, failed)) = ModsOf(read, ModPlaces(read))
      BY HeadersName
    <3> HIDE DEF read, failed, done
    <3> QED BY <2>4, <3>1 DEF Recorded
  <2>6. DOMAIN done \cup ModsOf(read, left) = ModsOf(read, ModPlaces(read)) /\ left \subseteq ModPlaces(read)
    <3> HIDE DEF read, failed, done
    <3> QED BY <2>5 DEF ModsOf
  <2> HIDE DEF read, failed, done, left
  <2> QED BY <1>2, <1>4, <2>1, <2>2, <2>3, <2>4, <2>6 DEF AuditOk
<1> QED BY <1>5, <1>6

LEMMA ChunkIsRecorded ==
    ASSUME AuditOk(audit, checkpoint)
    PROVE  /\ Recorded(Header(audit.read, audit.failed), ChunkRecords)
           /\ DOMAIN ChunkRecords = ModsOf(audit.read, Chunk) /\ Chunk \subseteq audit.pending
<1> DEFINE read == audit.read
           header == Header(audit.read, audit.failed)
<1>1. Chunk \subseteq audit.pending /\ audit.pending \subseteq ModPlaces(read)
  BY DEF Chunk, AuditOk
<1>2. DOMAIN ChunkRecords = ModsOf(read, Chunk) /\ ModsOf(read, Chunk) \subseteq ModsOf(read, ModPlaces(read))
  BY <1>1 DEF ChunkRecords, ModsOf
<1>3. ASSUME NEW mod \in DOMAIN ChunkRecords
      PROVE  mod \in HeaderMods(header) /\ <<header, mod, ChunkRecords[mod]>> \in AuditVerdicts /\ IsVerdict(ChunkRecords[mod])
  <2>1. ChunkRecords[mod] = Record(read, RegistryOf(ScanClaims(read)), mod)
    BY <1>2 DEF ChunkRecords, AuditOk
  <2>2. mod \in ModsOf(read, ModPlaces(read))
    BY <1>2
  <2>3. <<header, mod, Record(read, RegistryOf(ScanClaims(read)), mod)>> \in VerdictsOf(read, audit.failed)
    BY <2>2 DEF VerdictsOf
  <2> QED BY <2>1, <2>2, <2>3, HeadersName, RecordIsVerdict DEF AuditOk
<1> QED BY <1>1, <1>2, <1>3 DEF Recorded, Verdicts

LEMMA MoreIsRecorded ==
    ASSUME NEW header, NEW one, NEW other, Recorded(header, one), Recorded(header, other)
    PROVE  Recorded(header, Over(one, other))
BY MoreVerdicts DEF Recorded, Over

LEMMA FileChanges ==
    ASSUME NEW old, NEW new, NEW h, NEW d, NEW e, NEW x, NEW y,
           old = [header |-> h, done |-> d, end |-> e], new = [old EXCEPT !.done = x, !.end = y]
    PROVE  new = [header |-> h, done |-> x, end |-> y]
OBVIOUS

LEMMA AppendedIsOk ==
    ASSUME AuditOk(audit, checkpoint)
    PROVE  /\ CheckpointOk(Appended(ChunkRecords)) /\ Appended(ChunkRecords).header = checkpoint.header
           /\ Appended(ChunkRecords) =
                 [header |-> checkpoint.header, done |-> Over(ChunkRecords, checkpoint.done), end |-> Appended(ChunkRecords).end]
<1> DEFINE records == ChunkRecords
           end == IF checkpoint.end = "whole" THEN "whole" ELSE "torn"
<1>1. checkpoint = [header |-> checkpoint.header, done |-> checkpoint.done, end |-> checkpoint.end]
  BY DEF AuditOk, CheckpointOk
<1>2. Recorded(checkpoint.header, Over(records, checkpoint.done))
  BY ChunkIsRecorded, MoreIsRecorded DEF AuditOk, CheckpointOk
<1> HIDE DEF records
<1>3. Appended(records) = [header |-> checkpoint.header, done |-> Over(records, checkpoint.done), end |-> end]
  <2>1. Appended(records) = [checkpoint EXCEPT !.done = Over(records, checkpoint.done), !.end = end]
    BY DEF Appended
  <2> HIDE DEF end
  <2> QED BY <1>1, <2>1, FileChanges
<1> HIDE DEF end
<1> QED BY <1>2, <1>3 DEF CheckpointOk, records

LEMMA RunChanges ==
    ASSUME NEW old, NEW new, NEW a, NEW b, NEW c, NEW d, NEW e, NEW x, NEW y,
           old = [read |-> a, reg |-> b, done |-> c, failed |-> d, pending |-> e], new = [old EXCEPT !.done = x, !.pending = y]
    PROVE  new = [read |-> a, reg |-> b, done |-> x, failed |-> d, pending |-> y]
OBVIOUS

LEMMA ChunkIsOk == ASSUME SweepInv, AuditChunk PROVE CheckpointOk(checkpoint') /\ AuditOk(audit', checkpoint')
<1> DEFINE read == audit.read
           records == ChunkRecords
           rest == audit.pending \ Chunk
<1>1. AuditOk(audit, checkpoint)
  BY DEF AuditChunk, SweepInv, RunInv
<1>2. checkpoint' = Appended(records) /\ CheckpointOk(checkpoint') /\ checkpoint'.header = Header(audit.read, audit.failed)
  BY <1>1, AppendedIsOk DEF AuditChunk, AuditOk
<1>3. Recorded(Header(read, audit.failed), records) /\ DOMAIN records = ModsOf(read, Chunk) /\ Chunk \subseteq audit.pending
  BY <1>1, ChunkIsRecorded
<1>4. Recorded(Header(read, audit.failed), Over(records, audit.done))
  BY <1>1, <1>3, MoreIsRecorded DEF AuditOk
<1>5. DOMAIN (Over(records, audit.done)) = DOMAIN records \cup DOMAIN audit.done
  BY DEF Over
<1>6. DOMAIN (Over(records, audit.done)) \cup ModsOf(read, rest) = ModsOf(read, ModPlaces(read)) /\ rest \subseteq ModPlaces(read)
  <2>1. ModsOf(read, audit.pending) = ModsOf(read, Chunk) \cup ModsOf(read, rest)
    BY <1>3 DEF ModsOf
  <2>2. DOMAIN audit.done \cup ModsOf(read, audit.pending) = ModsOf(read, ModPlaces(read)) /\ audit.pending \subseteq ModPlaces(read)
    BY <1>1 DEF AuditOk
  <2> QED BY <1>3, <1>5, <2>1, <2>2
<1>7. audit' = [read |-> read, reg |-> audit.reg, done |-> Over(records, audit.done), failed |-> audit.failed, pending |-> rest]
  <2>1. audit = [read |-> read, reg |-> audit.reg, done |-> audit.done, failed |-> audit.failed, pending |-> audit.pending]
    BY <1>1 DEF AuditOk
  <2> DEFINE more == Over(records, audit.done)
  <2>2. audit' = [audit EXCEPT !.done = more, !.pending = rest]
    BY DEF AuditChunk
  <2> HIDE DEF records, read, rest, more
  <2>3. audit' = [read |-> read, reg |-> audit.reg, done |-> more, failed |-> audit.failed, pending |-> rest]
    <3>1. PICK old : old = audit
      OBVIOUS
    <3>2. PICK new : new = audit'
      OBVIOUS
    <3>3. new = [old EXCEPT !.done = more, !.pending = rest]
      BY <2>2, <3>1, <3>2
    <3>4. old = [read |-> read, reg |-> audit.reg, done |-> audit.done, failed |-> audit.failed, pending |-> audit.pending]
      BY <2>1, <3>1
    <3>5. new = [read |-> read, reg |-> audit.reg, done |-> more, failed |-> audit.failed, pending |-> rest]
      BY <3>3, <3>4, RunChanges
    <3> QED BY <3>2, <3>5
  <2> QED BY <2>3 DEF more
<1>8. VerdictsOf(read, audit.failed) \subseteq AuditVerdicts /\ audit.reg = RegistryOf(ScanClaims(read))
  BY <1>1 DEF AuditOk
<1> HIDE DEF records, read, rest
<1> QED BY <1>2, <1>4, <1>6, <1>7, <1>8 DEF AuditOk, read

LEMMA DeathIsOk == ASSUME SweepInv, AuditDies PROVE checkpoint' # Gone => CheckpointOk(checkpoint')
<1>1. AuditOk(audit, checkpoint) /\ CheckpointOk(checkpoint)
  BY DEF AuditDies, SweepInv, RunInv, AuditOk
<1>2. CASE checkpoint' = checkpoint
  BY <1>1, <1>2
<1>3. CASE checkpoint' = [checkpoint EXCEPT !.end = "torn"]
  <2>1. checkpoint = [header |-> checkpoint.header, done |-> checkpoint.done, end |-> checkpoint.end]
    BY <1>1 DEF CheckpointOk
  <2>2. checkpoint' = [header |-> checkpoint.header, done |-> checkpoint.done, end |-> "torn"]
    BY <1>3, <2>1
  <2> QED BY <1>1, <2>2 DEF CheckpointOk
<1>4. CASE checkpoint' = [Appended(ChunkRecords) EXCEPT !.end = IF @ = "whole" THEN "unended" ELSE @]
  <2> DEFINE saved == Appended(ChunkRecords)
  <2>1. CheckpointOk(saved)
    BY <1>1, AppendedIsOk
  <2> HIDE DEF saved
  <2>2. saved = [header |-> saved.header, done |-> saved.done, end |-> saved.end]
    BY <2>1 DEF CheckpointOk
  <2>3. \E end : checkpoint' = [saved EXCEPT !.end = end]
    BY <1>4 DEF saved
  <2>4. PICK end : checkpoint' = [saved EXCEPT !.end = end]
    BY <2>3
  <2>5. checkpoint' = [header |-> saved.header, done |-> saved.done, end |-> end]
    BY <2>2, <2>4
  <2> QED BY <2>1, <2>5 DEF CheckpointOk
<1>5. CASE checkpoint' = Gone
  BY <1>5
<1> QED BY <1>2, <1>3, <1>4, <1>5 DEF AuditDies

\* A report: what the run recorded, with nothing worse than what its baseline's line began with.
LEMMA NotWorse ==
    ASSUME NEW old, NEW new, Regressions(old, new) = {}, NEW key \in DOMAIN new, key \in DOMAIN old
    PROVE  Keeps(old[key], new[key])
BY DEF Regressions, Keeps

LEMMA EndKeeps == ASSUME SweepInv, NEW write \in BOOLEAN, AuditEnds(write) PROVE BaselineInv' /\ AuditIsWhole'
<1> DEFINE now == BaselineOf(audit.done, audit.failed)
           worse == IF baseline = Gone THEN {} ELSE Regressions(baseline.mods, now)
           since == IF baseline = Gone THEN << >> ELSE Restrict(baseline.since, DOMAIN baseline.since \cap DOMAIN now)
<1>1. AuditOk(audit, checkpoint) /\ audit.pending = {}
  BY DEF AuditEnds, SweepInv, RunInv
<1>2. accepted' = [of |-> audit.read, records |-> audit.done, failed |-> audit.failed, worse |-> worse, since |-> since]
  BY DEF AuditEnds
<1>3. baseline' = IF ~write THEN baseline ELSE [mods |-> now, since |-> IF worse = {} THEN Over(since, now) ELSE now]
  BY DEF AuditEnds
<1>4. Verdicts(now)
  BY <1>1, BaselineIsVerdicts DEF Verdicts, AuditOk, Recorded
<1>5. ASSUME NEW key \in DOMAIN since PROVE key \in DOMAIN now /\ IsVerdict(since[key]) /\ (worse = {} => Keeps(since[key], now[key]))
  <2>1. baseline # Gone /\ key \in DOMAIN baseline.since /\ key \in DOMAIN now /\ since[key] = baseline.since[key]
    <3>1. CASE baseline = Gone
      BY <3>1
    <3>2. CASE baseline # Gone
      BY <3>2 DEF Restrict
    <3> QED BY <3>1, <3>2
  <2>2. key \in DOMAIN baseline.mods /\ IsVerdict(baseline.since[key]) /\ Keeps(baseline.since[key], baseline.mods[key])
        /\ IsVerdict(baseline.mods[key])
    BY <2>1 DEF SweepInv, BaselineInv, Verdicts
  <2>3. IsVerdict(now[key])
    BY <1>4, <2>1 DEF Verdicts
  <2>4. worse = {} => Keeps(baseline.mods[key], now[key])
    BY <2>1, <2>2, NotWorse
  <2> HIDE DEF now, since, worse
  <2> QED BY <2>1, <2>2, <2>3, <2>4, KeepsIsTransitive
<1> HIDE DEF now, worse, since
<1>6. BaselineInv'
  <2>1. CASE ~write
    BY <1>3, <2>1 DEF SweepInv, BaselineInv
  <2>2. CASE write /\ worse = {}
    <3>1. baseline' = [mods |-> now, since |-> Over(since, now)]
      BY <1>3, <2>2
    <3>2. ASSUME NEW key \in DOMAIN Over(since, now)
          PROVE  key \in DOMAIN now /\ IsVerdict(Over(since, now)[key]) /\ Keeps(Over(since, now)[key], now[key])
      <4>1. CASE key \in DOMAIN since
        BY <1>5, <2>2, <4>1 DEF Over
      <4>2. CASE key \notin DOMAIN since
        BY <1>4, <4>2, KeepsItself DEF Over, Verdicts
      <4> QED BY <4>1, <4>2
    <3> QED BY <1>4, <3>1, <3>2 DEF BaselineInv
  <2>3. CASE write /\ worse # {}
    <3>1. baseline' = [mods |-> now, since |-> now]
      BY <1>3, <2>3
    <3> QED BY <1>4, <3>1, KeepsItself DEF BaselineInv, Verdicts
  <2> QED BY <2>1, <2>2, <2>3
<1>7. NothingCreepsIn'
  <2>1. BaselineOf(accepted'.records, accepted'.failed) = now /\ accepted'.since = since /\ accepted'.worse = worse
    BY <1>2 DEF now
  <2> QED BY <1>5, <2>1 DEF NothingCreepsIn, Keeps
<1>8. AuditIsWhole'
  <2>1. DOMAIN audit.done = ModsOf(audit.read, ModPlaces(audit.read))
    BY <1>1 DEF AuditOk, ModsOf
  <2>2. \A mod \in DOMAIN audit.done : <<Header(audit.read, audit.failed), mod, audit.done[mod]>> \in AuditVerdicts
    BY <1>1 DEF AuditOk, Recorded
  <2> QED BY <1>2, <1>7, <2>1, <2>2 DEF AuditIsWhole
<1> QED BY <1>6, <1>8

ChecksVars == <<auditVars, checked, importVars>>
ChecksSpec == ImportInit /\ ChecksInit /\ [][ChecksNext]_ChecksVars

LEMMA AuditKeeps == ASSUME SweepInv, AuditNext, UNCHANGED importVars PROVE SweepInv'
<1>1. DiskInv'
  BY DEF SweepInv, DiskInv, importVars
<1>2. CASE StartAudit
  <2>1. RunInv'
    BY <1>2, StartIsOk DEF RunInv
  <2>2. UNCHANGED <<accepted, baseline>>
    BY <1>2 DEF StartAudit
  <2> QED BY <1>1, <2>1, <2>2 DEF SweepInv, BaselineInv, AuditIsWhole, NothingCreepsIn
<1>3. CASE AuditChunk
  <2>1. RunInv'
    BY <1>3, ChunkIsOk DEF RunInv
  <2>2. UNCHANGED <<accepted, baseline>>
    BY <1>3 DEF AuditChunk
  <2> QED BY <1>1, <2>1, <2>2 DEF SweepInv, BaselineInv, AuditIsWhole, NothingCreepsIn
<1>4. CASE AuditDies
  <2>1. RunInv'
    BY <1>4, DeathIsOk DEF RunInv, AuditDies
  <2>2. UNCHANGED <<accepted, baseline>>
    BY <1>4 DEF AuditDies
  <2> QED BY <1>1, <2>1, <2>2 DEF SweepInv, BaselineInv, AuditIsWhole, NothingCreepsIn
<1>5. ASSUME NEW write \in BOOLEAN, AuditEnds(write) PROVE SweepInv'
  <2>1. RunInv'
    BY <1>5 DEF RunInv, AuditEnds
  <2> QED BY <1>1, <1>5, <2>1, EndKeeps DEF SweepInv
<1> QED BY <1>2, <1>3, <1>4, <1>5 DEF AuditNext

LEMMA FolderKeeps == ASSUME SweepInv, NEW f \in Folders, FolderChanges(f), UNCHANGED auditVars PROVE SweepInv'
<1>1. PICK c \in MayHold[f] : disk' = [disk EXCEPT ![f] = c]
  BY DEF FolderChanges
<1>2. DiskInv'
  BY <1>1 DEF SweepInv, DiskInv, HeldBy
<1> QED BY <1>2 DEF SweepInv, RunInv, BaselineInv, AuditIsWhole, NothingCreepsIn, auditVars

LEMMA SweepInvariant == ChecksSpec => []SweepInv
<1>1. ImportInit /\ ChecksInit => SweepInv
  <2> SUFFICES ASSUME ImportInit, ChecksInit PROVE SweepInv
    OBVIOUS
  <2>1. DiskInv
    BY DiskAssumption DEF ImportInit, DiskInv, HeldBy
  <2> QED BY <2>1 DEF ChecksInit, SweepInv, RunInv, BaselineInv, AuditIsWhole, NothingCreepsIn
<1>2. SweepInv /\ [ChecksNext]_ChecksVars => SweepInv'
  <2> SUFFICES ASSUME SweepInv, [ChecksNext]_ChecksVars PROVE SweepInv'
    OBVIOUS
  <2>1. CASE AuditNext /\ UNCHANGED importVars
    BY <2>1, AuditKeeps
  <2>2. ASSUME NEW path, NEW context, RunCheckMod(path, context) PROVE SweepInv'
    BY <2>2 DEF RunCheckMod, SweepInv, DiskInv, RunInv, BaselineInv, AuditIsWhole, NothingCreepsIn, auditVars, importVars
  <2>3. ASSUME NEW f \in Folders, FolderChanges(f), UNCHANGED auditVars PROVE SweepInv'
    BY <2>3, FolderKeeps
  <2>4. CASE UNCHANGED ChecksVars
    BY <2>4 DEF ChecksVars, SweepInv, DiskInv, RunInv, BaselineInv, AuditIsWhole, NothingCreepsIn, auditVars, importVars
  <2> QED BY <2>1, <2>2, <2>3, <2>4 DEF ChecksNext
<1> QED BY <1>1, <1>2, PTL DEF ChecksSpec

\* A report of a sweep, however many runs died on the way to it and whatever changed meanwhile, has exactly the
\* mods of the scan it is of, each with a verdict of a scan that its header cannot tell from this one; and a mod
\* that stayed while every sweep exited 0 is not worse than at the first: run_acceptance, compare_with_baseline.
THEOREM ReportsAreWhole == ChecksSpec => []AuditIsWhole
<1>1. SweepInv => AuditIsWhole
  BY DEF SweepInv
<1> QED BY <1>1, SweepInvariant, PTL

------------------------------------------------------------------------------
(* Of check-mod: what counts of a scan is what the files of the folder and of *)
(* the core say, wherever their sources come among those of installed mods.   *)
\* The places that Sifted takes its members from: each of them once, in their order.
SiftedBy(place, seq, P) ==
    /\ place \in [1..Cardinality(P) -> P]
    /\ \A m, n \in 1..Cardinality(P) : place[m] = place[n] => m = n
    /\ \A m, n \in 1..Cardinality(P) : m < n => place[m] < place[n]
    /\ \A i \in P : \E n \in 1..Cardinality(P) : place[n] = i
    /\ Sifted(seq, P) = [n \in 1..Cardinality(P) |-> seq[place[n]]]

LEMMA SiftedTakesAll ==
    ASSUME NEW seq, NEW P, P \subseteq Nat, IsFiniteSet(P) PROVE \E place : SiftedBy(place, seq, P)
<1> DEFINE upto(i) == {j \in P : j <= i}
           rank == [i \in P |-> Cardinality(upto(i))]
           N == Cardinality(P)
           R == {rank[i] : i \in P}
           place == [n \in 1..N |-> CHOOSE i \in P : rank[i] = n]
<1>1. N \in Nat
  BY FS_CardinalityType
<1>2. \A i \in P : rank[i] \in 1..N
  <2> TAKE i \in P
  <2>1. upto(i) \subseteq P /\ i \in upto(i)
    OBVIOUS
  <2> DEFINE U == upto(i)
  <2> HIDE DEF U
  <2>2. IsFiniteSet(U) /\ Cardinality(U) \in Nat /\ Cardinality(U) <= N
    BY <2>1, FS_Subset, FS_CardinalityType DEF U
  <2>3. Cardinality(U) # 0
    BY <2>1, <2>2, FS_EmptySet DEF U
  <2>4. rank[i] = Cardinality(U)
    BY DEF U
  <2> QED BY <1>1, <2>2, <2>3, <2>4
<1>3. \A i, k \in P : i < k => rank[i] < rank[k]
  <2> SUFFICES ASSUME NEW i \in P, NEW k \in P, i < k PROVE rank[i] < rank[k]
    OBVIOUS
  <2>1. upto(i) \subseteq upto(k) /\ k \in upto(k) /\ k \notin upto(i) /\ upto(k) \subseteq P
    <3>1. i \in Nat /\ k \in Nat /\ \A j \in P : j \in Nat
      OBVIOUS
    <3>2. k \in upto(k) /\ k \notin upto(i) /\ upto(k) \subseteq P
      BY <3>1
    <3>3. \A j \in upto(i) : j \in upto(k)
      BY <3>1
    <3> HIDE DEF upto
    <3> QED BY <3>2, <3>3
  <2> DEFINE U == upto(i)
             V == upto(k)
  <2> HIDE DEF U, V
  <2>2. /\ IsFiniteSet(V) /\ (Cardinality(U) = Cardinality(V) => U = V) /\ Cardinality(U) <= Cardinality(V)
        /\ Cardinality(U) \in Nat /\ Cardinality(V) \in Nat
    BY <2>1, FS_Subset, FS_CardinalityType DEF U, V
  <2>3. rank[i] = Cardinality(U) /\ rank[k] = Cardinality(V)
    BY DEF U, V
  <2> QED BY <2>1, <2>2, <2>3 DEF U, V
<1> HIDE DEF rank
<1>4. \A i, k \in P : (rank[i] = rank[k] => i = k) /\ (rank[i] < rank[k] => i < k)
  BY <1>2, <1>3
<1>5. R = 1..N
  <2>1. R \subseteq 1..N
    BY <1>2
  <2>2. rank \in Bijection(P, R)
    <3>1. rank \in [P -> R] 
      BY DEF rank
    <3> QED BY <1>4, <3>1 DEF Bijection, Injection, Surjection, IsInjective
  <2>3. Cardinality(R) = N
    <3> DEFINE T == R
    <3> HIDE DEF R
    <3>1. rank \in Bijection(P, T)
      BY <2>2
    <3> HIDE DEF T
    <3>2. ExistsBijection(P, T)
      BY <3>1 DEF ExistsBijection
    <3> QED BY <3>2, FS_Bijection DEF T
  <2> HIDE DEF R
  <2>4. IsFiniteSet(1..N) /\ Cardinality(1..N) = N
    BY <1>1, FS_Interval
  <2> HIDE DEF N
  <2> QED BY <2>1, <2>3, <2>4, FS_Subset
<1>6. \A n \in 1..N : place[n] \in P /\ rank[place[n]] = n
  <2> TAKE n \in 1..N
  <2>1. \E i \in P : rank[i] = n
    BY <1>5
  <2> QED BY <2>1
<1> HIDE DEF place
<1>7. /\ place \in [1..N -> P]
      /\ \A m, n \in 1..N : place[m] = place[n] => m = n
      /\ \A m, n \in 1..N : m < n => place[m] < place[n]
      /\ \A i \in P : \E n \in 1..N : place[n] = i
  <2>1. place \in [1..N -> P]
    BY <1>6 DEF place
  <2>2. \A m, n \in 1..N : place[m] = place[n] => m = n
    BY <1>6
  <2>3. \A i \in P : \E n \in 1..N : place[n] = i
    BY <1>2, <1>4, <1>6
  <2>4. \A m, n \in 1..N : m < n => place[m] < place[n]
    <3> SUFFICES ASSUME NEW m \in 1..N, NEW n \in 1..N, m < n PROVE place[m] < place[n]
      OBVIOUS
    <3>1. place[m] \in P /\ place[n] \in P /\ rank[place[m]] < rank[place[n]]
      BY <1>6
    <3> QED BY <1>4, <3>1
  <2> QED BY <2>1, <2>2, <2>3, <2>4
<1>8. Sifted(seq, P) = [n \in 1..N |-> seq[place[n]]]
  <2>1. \A n \in 1..N : place[n] = CHOOSE i \in P : Cardinality({j \in P : j <= i}) = n
    <3> TAKE n \in 1..N
    <3>1. \A i \in P : rank[i] = Cardinality({j \in P : j <= i})
      BY DEF rank
    <3>2. place[n] = CHOOSE i \in P : rank[i] = n
      BY DEF place
    <3>3. (CHOOSE i \in P : rank[i] = n) = CHOOSE i \in P : Cardinality({j \in P : j <= i}) = n
      BY <3>1
    <3> QED BY <3>2, <3>3
  <2> DEFINE nth(n) == CHOOSE i \in P : Cardinality({j \in P : j <= i}) = n
  <2>2. Sifted(seq, P) = [n \in 1..N |-> seq[nth(n)]]
    BY DEF Sifted
  <2>3. \A n \in 1..N : place[n] = nth(n)
    BY <2>1
  <2> HIDE DEF N, nth
  <2> QED BY <2>2, <2>3
<1> QED BY <1>7, <1>8 DEF SiftedBy

\* A sequence of an element and two more sequences.
LEMMA ThreeParts ==
    ASSUME NEW S, NEW x \in S, NEW s \in Seq(S), NEW t \in Seq(S), NEW all, all = <<x>> \o s \o t
    PROVE  /\ DOMAIN all = 1..1 + Len(s) + Len(t) /\ Len(s) \in Nat /\ Len(t) \in Nat
           /\ all[1] = x
           /\ \A i \in 1..Len(s) : all[1 + i] = s[i]
           /\ \A i \in 1..Len(t) : all[1 + Len(s) + i] = t[i]
<1>1. <<x>> \in Seq(S) /\ Len(<<x>>) = 1 /\ <<x>>[1] = x
  OBVIOUS
<1> DEFINE one == <<x>>
           head == one \o s
<1> HIDE DEF one
<1>2. head \in Seq(S) /\ Len(head) = 1 + Len(s) /\ head[1] = x /\ \A i \in 1..Len(s) : head[1 + i] = s[i]
  BY <1>1 DEF one
<1>3. all = head \o t
  BY DEF one
<1> HIDE DEF head
<1>4. all \in Seq(S) /\ Len(all) = 1 + Len(s) + Len(t)
  BY <1>2, <1>3
<1>5. \A i \in 1..1 + Len(s) : all[i] = head[i]
  BY <1>2, <1>3
<1>6. \A i \in 1..Len(t) : all[1 + Len(s) + i] = t[i]
  BY <1>2, <1>3
<1>7. Len(s) \in Nat /\ Len(t) \in Nat
  OBVIOUS
<1>8. \A i \in 1..Len(s) : all[1 + i] = s[i]
  BY <1>2, <1>5, <1>7
<1>9. all[1] = x
  BY <1>2, <1>5, <1>7
<1> QED BY <1>4, <1>6, <1>7, <1>8, <1>9

------------------------------------------------------------------------------
CoreSource == [root |-> GameRoot, mod |-> Core, version |-> Gone, deps |-> {}, enabled |-> TRUE]
AddedAt(folders, root) == [SourceAt(folders, root) EXCEPT !.enabled = TRUE]
IsOnly(sources, i) == \A j \in DOMAIN sources : sources[j].root = sources[i].root => j = i
Outside(root) == root \in Folders \ {GameRoot} /\ root \notin ToSet(InstalledRoots)

\* The sources of a scan of a folder beside the installed mods: the core and that folder once each, and installed ones.
FoundBeside(sources, folders, root) ==
    /\ IsFiniteSet(DOMAIN sources) /\ DOMAIN sources \subseteq Nat
    /\ \E i \in DOMAIN sources : sources[i] = CoreSource /\ IsOnly(sources, i)
    /\ Readable(folders, root) => \E i \in DOMAIN sources : sources[i] = AddedAt(folders, root) /\ IsOnly(sources, i)
    /\ \A i \in DOMAIN sources :
          \/ sources[i].root = GameRoot
          \/ sources[i].root = root /\ Readable(folders, root)
          \/ \E r \in ToSet(InstalledRoots) : Readable(folders, r) /\ sources[i] = SourceAt(folders, r)

LEMMA SiftedIsFound ==
    ASSUME NEW mods, NEW folders, NEW root, FoundBeside(mods, folders, root)
    PROVE  /\ FoundBeside(ToScan(mods), folders, root)
           /\ \A i \in DOMAIN ToScan(mods) : ToScan(mods)[i].enabled
<1> DEFINE P == {i \in DOMAIN mods : mods[i].enabled}
           N == Cardinality(P)
<1>1. P \subseteq Nat /\ IsFiniteSet(P) /\ P \subseteq DOMAIN mods
  BY FS_Subset DEF FoundBeside
<1> HIDE DEF P
<1>2. N \in Nat
  BY <1>1, FS_CardinalityType
<1>3. PICK place : SiftedBy(place, mods, P)
  BY <1>1, SiftedTakesAll
<1> DEFINE T == ToScan(mods)
<1>4. T = [n \in 1..N |-> mods[place[n]]]
  BY <1>3 DEF ToScan, P, SiftedBy
<1> HIDE DEF T, N
<1>5. /\ DOMAIN T = 1..N /\ \A n \in 1..N : place[n] \in P /\ place[n] \in DOMAIN mods /\ T[n] = mods[place[n]]
      /\ \A m, n \in 1..N : place[m] = place[n] => m = n
      /\ \A i \in P : \E n \in 1..N : place[n] = i
  BY <1>1, <1>3, <1>4 DEF SiftedBy, N
<1>6. ASSUME NEW i \in P, IsOnly(mods, i) PROVE \E n \in DOMAIN T : T[n] = mods[i] /\ IsOnly(T, n)
  <2>1. PICK n \in 1..N : place[n] = i
    BY <1>5
  <2>2. \A m \in 1..N : T[m].root = T[n].root => m = n
    BY <1>5, <1>6, <2>1 DEF IsOnly
  <2> QED BY <1>5, <2>1, <2>2 DEF IsOnly
<1>7. \A i \in DOMAIN mods : mods[i] = CoreSource \/ mods[i] = AddedAt(folders, root) => i \in P
  <2>1. CoreSource.enabled /\ AddedAt(folders, root).enabled
    BY DEF CoreSource, AddedAt, SourceAt
  <2> QED BY <2>1 DEF P
<1>8. IsFiniteSet(DOMAIN T) /\ DOMAIN T \subseteq Nat
  BY <1>2, <1>5, FS_Interval
<1>9. \E i \in DOMAIN T : T[i] = CoreSource /\ IsOnly(T, i)
  BY <1>6, <1>7 DEF FoundBeside
<1>10. Readable(folders, root) => \E i \in DOMAIN T : T[i] = AddedAt(folders, root) /\ IsOnly(T, i)
  BY <1>6, <1>7 DEF FoundBeside
<1>11. \A i \in DOMAIN T :
          \/ T[i].root = GameRoot
          \/ T[i].root = root /\ Readable(folders, root)
          \/ \E r \in ToSet(InstalledRoots) : Readable(folders, r) /\ T[i] = SourceAt(folders, r)
  BY <1>5 DEF FoundBeside
<1>12. \A i \in DOMAIN T : T[i].enabled
  BY <1>5 DEF P
<1> QED BY <1>8, <1>9, <1>10, <1>11, <1>12 DEF FoundBeside, T

LEMMA SourcesAreFound ==
    ASSUME FoldersAssumption, NEW folders, NEW root, Outside(root)
    PROVE  FoundBeside(DiscoverSources(folders, <<root>>), folders, root)
<1> DEFINE P == {i \in DOMAIN InstalledRoots : Readable(folders, InstalledRoots[i])}
           there == Sifted(InstalledRoots, P)
           one == <<root>>
           Q == {i \in DOMAIN one : Readable(folders, one[i])}
           here == Sifted(one, Q)
           found == [i \in DOMAIN there |-> SourceAt(folders, there[i])]
           added == [i \in DOMAIN here |-> AddedAt(folders, here[i])]
           mods == DiscoverSources(folders, one)
           S == {CoreSource} \cup {found[i] : i \in DOMAIN there} \cup {added[i] : i \in DOMAIN here}
<1>1. mods = <<CoreSource>> \o found \o added
  BY DEF DiscoverSources, CoreSource, AddedAt
<1>2. P \subseteq Nat /\ IsFiniteSet(P)
  <2>1. DOMAIN InstalledRoots = 1..Len(InstalledRoots) /\ Len(InstalledRoots) \in Nat
    BY DEF FoldersAssumption
  <2>2. IsFiniteSet(DOMAIN InstalledRoots)
    BY <2>1, FS_Interval
  <2> QED BY <2>1, <2>2, FS_Subset
<1>3. DOMAIN there = 1..Cardinality(P) /\ Cardinality(P) \in Nat
      /\ \A i \in DOMAIN there : there[i] \in ToSet(InstalledRoots) /\ Readable(folders, there[i])
  <2> DEFINE N == Cardinality(P)
  <2>1. N \in Nat
    BY <1>2, FS_CardinalityType
  <2> HIDE DEF P
  <2>2. PICK place : SiftedBy(place, InstalledRoots, P)
    BY <1>2, SiftedTakesAll
  <2>3. DOMAIN there = 1..N /\ \A n \in 1..N : place[n] \in P /\ there[n] = InstalledRoots[place[n]]
    BY <2>2 DEF SiftedBy
  <2> HIDE DEF N
  <2>4. \A i \in P : InstalledRoots[i] \in ToSet(InstalledRoots) /\ Readable(folders, InstalledRoots[i])
    BY DEF P, ToSet
  <2> QED BY <2>1, <2>3, <2>4 DEF N
<1>4. DOMAIN one = {1} /\ one[1] = root
  OBVIOUS
<1>5. Q \subseteq Nat /\ IsFiniteSet(Q) /\ Q = IF Readable(folders, root) THEN {1} ELSE {}
  <2> HIDE DEF one
  <2>1. Q = IF Readable(folders, root) THEN {1} ELSE {}
    BY <1>4
  <2>2. IsFiniteSet({1}) /\ IsFiniteSet({})
    BY FS_Singleton, FS_EmptySet
  <2> HIDE DEF Q
  <2> QED BY <2>1, <2>2
<1>6. /\ DOMAIN here = 1..Cardinality(Q)
      /\ Cardinality(Q) = IF Readable(folders, root) THEN 1 ELSE 0
      /\ \A i \in DOMAIN here : here[i] = root
  <2> DEFINE N == Cardinality(Q)
  <2>1. N = IF Readable(folders, root) THEN 1 ELSE 0
    BY <1>5, FS_Singleton, FS_EmptySet
  <2> HIDE DEF Q, one
  <2>2. PICK place : SiftedBy(place, one, Q)
    BY <1>5, SiftedTakesAll
  <2>3. DOMAIN here = 1..N /\ \A n \in 1..N : place[n] \in Q /\ here[n] = one[place[n]]
    BY <2>2 DEF SiftedBy
  <2> HIDE DEF N
  <2> QED BY <1>4, <1>5, <2>1, <2>3 DEF N
<1> HIDE DEF P, Q, one, there, here
<1>7. CoreSource \in S /\ found \in Seq(S) /\ added \in Seq(S) /\ Len(found) = Cardinality(P) /\ Len(added) = Cardinality(Q)
  <2>1. found \in [1..Cardinality(P) -> S]
    BY <1>3
  <2>2. added \in [1..Cardinality(Q) -> S]
    BY <1>6
  <2>3. Cardinality(Q) \in Nat /\ Cardinality(P) \in Nat
    BY <1>3, <1>6
  <2> HIDE DEF S, found, added
  <2>4. found \in Seq(S) /\ added \in Seq(S)
    BY <2>1, <2>2, <2>3
  <2>5. Len(found) = Cardinality(P) /\ Len(added) = Cardinality(Q)
    BY <2>1, <2>2, <2>3, <2>4
  <2> QED BY <2>4, <2>5 DEF S
<1> DEFINE a == Len(found)
           b == Len(added)
<1>8. /\ \A i \in 1..a : \E r \in ToSet(InstalledRoots) : Readable(folders, r) /\ found[i] = SourceAt(folders, r)
      /\ b = IF Readable(folders, root) THEN 1 ELSE 0
      /\ \A i \in 1..b : added[i] = AddedAt(folders, root)
  <2>1. a = Cardinality(P) /\ b = Cardinality(Q)
    BY <1>7
  <2> HIDE DEF a, b
  <2> QED BY <1>3, <1>6, <2>1
<1> HIDE DEF found, added, S, mods
<1>9. /\ DOMAIN mods = 1..1 + a + b /\ a \in Nat /\ b \in Nat
      /\ mods[1] = CoreSource
      /\ \A i \in 1..a : mods[1 + i] = found[i]
      /\ \A i \in 1..b : mods[1 + a + i] = added[i]
  BY <1>1, <1>7, ThreeParts
<1> HIDE DEF a, b
<1>10. \A i \in DOMAIN mods : i = 1 \/ i - 1 \in 1..a \/ (i = 2 + a /\ Readable(folders, root))
  BY <1>8, <1>9
<1>11. /\ \A i \in DOMAIN mods \ {1} : i - 1 \in 1..a => \E r \in ToSet(InstalledRoots) : Readable(folders, r) /\ mods[i] = SourceAt(folders, r)
       /\ Readable(folders, root) => 2 + a \in DOMAIN mods /\ mods[2 + a] = AddedAt(folders, root)
  <2>1. ASSUME NEW i \in DOMAIN mods, i - 1 \in 1..a PROVE mods[i] = found[i - 1]
    <3>1. mods[1 + (i - 1)] = found[i - 1]
      BY <1>9, <2>1
    <3>2. 1 + (i - 1) = i
      BY <1>9
    <3> QED BY <3>1, <3>2
  <2>2. ASSUME Readable(folders, root) PROVE 2 + a \in DOMAIN mods /\ mods[2 + a] = AddedAt(folders, root)
    <3>1. b = 1 /\ 1 \in 1..b /\ 1 + a + 1 = 2 + a
      BY <1>8, <1>9, <2>2
    <3> QED BY <1>8, <1>9, <3>1
  <2> QED BY <1>8, <2>1, <2>2
<1>12. CoreSource.root = GameRoot /\ AddedAt(folders, root).root = root /\ \A r : SourceAt(folders, r).root = r
  BY DEF CoreSource, AddedAt, SourceAt
<1>13. root # GameRoot /\ root \notin ToSet(InstalledRoots) /\ GameRoot \notin ToSet(InstalledRoots)
  BY DEF Outside, FoldersAssumption, ToSet
<1>14. \A i \in DOMAIN mods : (mods[i].root = GameRoot => i = 1) /\ (mods[i].root = root => i = 2 + a)
  <2> TAKE i \in DOMAIN mods
  <2>1. CASE i = 1
    BY <1>9, <1>12, <1>13, <2>1
  <2>2. CASE i # 1 /\ i - 1 \in 1..a
    <3>1. mods[i].root \in ToSet(InstalledRoots)
      BY <1>11, <1>12, <2>2
    <3> QED BY <1>13, <3>1
  <2>3. CASE i = 2 + a /\ Readable(folders, root)
    BY <1>11, <1>12, <1>13, <2>3
  <2> QED BY <1>10, <2>1, <2>2, <2>3
<1>15. 1 \in DOMAIN mods /\ DOMAIN mods \subseteq Nat /\ IsFiniteSet(DOMAIN mods)
  <2>1. 1 + a + b \in Nat /\ 1 \in 1..1 + a + b /\ 1..1 + a + b \subseteq Nat
    BY <1>9
  <2>2. IsFiniteSet(1..1 + a + b)
    BY <2>1, FS_Interval
  <2> QED BY <1>9, <2>1, <2>2
<1>16. \E i \in DOMAIN mods : mods[i] = CoreSource /\ IsOnly(mods, i)
  BY <1>9, <1>12, <1>14, <1>15 DEF IsOnly
<1>17. Readable(folders, root) => \E i \in DOMAIN mods : mods[i] = AddedAt(folders, root) /\ IsOnly(mods, i)
  BY <1>11, <1>12, <1>14 DEF IsOnly
<1>18. \A i \in DOMAIN mods :
          \/ mods[i].root = GameRoot
          \/ mods[i].root = root /\ Readable(folders, root)
          \/ \E r \in ToSet(InstalledRoots) : Readable(folders, r) /\ mods[i] = SourceAt(folders, r)
  BY <1>9, <1>10, <1>11, <1>12
<1> QED BY <1>15, <1>16, <1>17, <1>18 DEF FoundBeside, mods, one

------------------------------------------------------------------------------
\* What is read of the sources: of the core at one place, of the folder at another, and of enabled installed mods.
SourceIs(source, root, mod, files) ==
    /\ source.root = root /\ source.mod = mod
    /\ source.has = files.has /\ source.skins = files.skins /\ source.errs = files.errs
Reads(sources, folders, root, core, own) ==
    /\ DOMAIN sources \subseteq Nat
    /\ core \in DOMAIN sources /\ SourceIs(sources[core], GameRoot, Core, FilesIn(folders, GameRoot))
    /\ Readable(folders, root) =>
          own \in DOMAIN sources /\ own # core /\ SourceIs(sources[own], root, folders[root].mod, FilesIn(folders, root))
    /\ \A i \in DOMAIN sources \ {core} :
          \/ Readable(folders, root) /\ i = own
          \/ \E r \in ToSet(InstalledRoots) :
                Readable(folders, r) /\ folders[r].mod \in EnabledMods /\ SourceIs(sources[i], r, folders[r].mod, FilesIn(folders, r))

LEMMA SourceIsRead ==
    ASSUME NEW folders, NEW r, NEW mod, NEW release, NEW deps, NEW enabled, NEW source,
           source = [root |-> r, mod |-> mod, version |-> release, deps |-> deps, enabled |-> enabled]
    PROVE  SourceIs(Over(source, FilesIn(folders, source.root)), r, mod, FilesIn(folders, r))
<1> DEFINE files == FilesIn(folders, r)
<1>1. source.root = r /\ source.mod = mod /\ DOMAIN source = {"root", "mod", "version", "deps", "enabled"}
  OBVIOUS
<1>2. DOMAIN files = {"has", "skins", "errs"}
  BY DEF FilesIn, NoFiles
<1> HIDE DEF files
<1>3. DOMAIN source \cup DOMAIN files = {"root", "mod", "version", "deps", "enabled", "has", "skins", "errs"}
  BY <1>1, <1>2
<1>4. Over(source, files) =
        [x \in {"root", "mod", "version", "deps", "enabled", "has", "skins", "errs"} |-> IF x \in DOMAIN source THEN source[x] ELSE files[x]]
  BY <1>3 DEF Over
<1>5. SourceIs(Over(source, files), r, mod, files)
  <2> DEFINE both == Over(source, files)
  <2>1. both.root = r /\ both.mod = mod
    BY <1>1, <1>4
  <2>2. both.has = files.has /\ both.skins = files.skins /\ both.errs = files.errs
    BY <1>1, <1>4
  <2> HIDE DEF both
  <2> QED BY <2>1, <2>2 DEF SourceIs, both
<1> QED BY <1>1, <1>5 DEF files

LEMMA FolderReads ==
    ASSUME FoldersAssumption, NEW folders, NEW root, Outside(root)
    PROVE  \E core, own : Reads(FullScan(folders, <<root>>).sources, folders, root, core, own)
<1> DEFINE mods == DiscoverSources(folders, <<root>>)
           T == ToScan(mods)
           S == ReadAll(folders, T)
<1>1. FullScan(folders, <<root>>).sources = S
  BY DEF FullScan, FullScanOf
<1>2. FoundBeside(T, folders, root) /\ \A i \in DOMAIN T : T[i].enabled
  BY SourcesAreFound, SiftedIsFound
<1>3. DOMAIN S = DOMAIN T /\ \A i \in DOMAIN T : S[i] = Over(T[i], FilesIn(folders, T[i].root))
  BY DEF ReadAll
<1> HIDE DEF mods, T, S
<1>4. PICK core \in DOMAIN T : T[core] = CoreSource /\ IsOnly(T, core)
  BY <1>2 DEF FoundBeside
<1>5. PICK own : Readable(folders, root) => own \in DOMAIN T /\ T[own] = AddedAt(folders, root) /\ IsOnly(T, own)
  BY <1>2 DEF FoundBeside
<1>6. CoreSource.root = GameRoot /\ AddedAt(folders, root).root = root /\ root # GameRoot
  BY DEF CoreSource, AddedAt, SourceAt, Outside
<1>7. SourceIs(S[core], GameRoot, Core, FilesIn(folders, GameRoot))
  BY <1>3, <1>4, SourceIsRead DEF CoreSource
<1>8. Readable(folders, root) => SourceIs(S[own], root, folders[root].mod, FilesIn(folders, root))
  <2> SUFFICES ASSUME Readable(folders, root) PROVE SourceIs(S[own], root, folders[root].mod, FilesIn(folders, root))
    OBVIOUS
  <2>1. T[own] = [root |-> root, mod |-> folders[root].mod, version |-> folders[root].version, deps |-> folders[root].deps, enabled |-> TRUE]
    BY <1>5 DEF AddedAt, SourceAt
  <2> QED BY <1>3, <1>5, <2>1, SourceIsRead
<1>9. ASSUME NEW i \in DOMAIN T, NEW r \in ToSet(InstalledRoots), Readable(folders, r), T[i] = SourceAt(folders, r)
      PROVE  folders[r].mod \in EnabledMods /\ SourceIs(S[i], r, folders[r].mod, FilesIn(folders, r))
  <2>1. T[i].enabled
    BY <1>2
  <2>2. folders[r].mod \in EnabledMods
    <3>1. SourceAt(folders, r).enabled <=> folders[r].mod \in EnabledMods
      BY DEF SourceAt
    <3>2. SourceAt(folders, r).enabled
      BY <1>9, <2>1
    <3> QED BY <3>1, <3>2
  <2>3. SourceIs(S[i], r, folders[r].mod, FilesIn(folders, r))
    BY <1>3, <1>9, SourceIsRead DEF SourceAt
  <2> QED BY <2>2, <2>3
<1>10. ASSUME NEW i \in DOMAIN T, i # core
       PROVE  \/ Readable(folders, root) /\ i = own
              \/ \E r \in ToSet(InstalledRoots) : Readable(folders, r) /\ T[i] = SourceAt(folders, r)
  <2>1. T[i].root # GameRoot
    BY <1>4, <1>6, <1>10 DEF IsOnly
  <2>2. T[i].root = root /\ Readable(folders, root) => i = own
    BY <1>5, <1>6 DEF IsOnly
  <2> QED BY <1>2, <2>1, <2>2 DEF FoundBeside
<1>11. Readable(folders, root) => own \in DOMAIN T /\ own # core
  BY <1>4, <1>5, <1>6
<1>12. Reads(S, folders, root, core, own)
  <2>1. DOMAIN S \subseteq Nat
    BY <1>2, <1>3 DEF FoundBeside
  <2> QED BY <2>1, <1>3, <1>4, <1>7, <1>8, <1>9, <1>10, <1>11 DEF Reads
<1> QED BY <1>1, <1>12

------------------------------------------------------------------------------
\* What the files of a folder and of the core claim, without the places of the sources.
Declares(files, kind, r, mod) ==
    {[id |-> x, mod |-> mod, root |-> r, what |-> files.has[kind][x]] : x \in DOMAIN files.has[kind]}
OwnClaims(folders, root, kind) ==
    Declares(FilesIn(folders, GameRoot), kind, GameRoot, Core)
      \cup IF Readable(folders, root) THEN Declares(FilesIn(folders, root), kind, root, folders[root].mod) ELSE {}

Chosen(claims, id) == CHOOSE c \in OfId(claims, id) : TRUE
SkinsOn(bases, files, r, mod) ==
    {[id |-> k.id, mod |-> mod, root |-> r, what |-> FromSkin(Chosen(bases, k.base).what, k.changes)] :
        k \in {j \in files.skins : j.id # Gone /\ Sole(bases, j.base)}}
OwnSkins(folders, root) ==
    SkinsOn(OwnClaims(folders, root, "hulls"), FilesIn(folders, GameRoot), GameRoot, Core)
      \cup IF Readable(folders, root)
           THEN SkinsOn(OwnClaims(folders, root, "hulls"), FilesIn(folders, root), root, folders[root].mod) ELSE {}
PlainClaims(folders, root) ==
    [kind \in EntityKinds |-> OwnClaims(folders, root, kind) \cup IF kind = "hulls" THEN OwnSkins(folders, root) ELSE {}]

\* The same claims with a place for each folder.
Marked(c, place) == [id |-> c.id, at |-> place[c.root], mod |-> c.mod, root |-> c.root, what |-> c.what]
AllMarked(claims, place) == {Marked(c, place) : c \in claims}
Shaped(claims) == \A c \in claims : c = [id |-> c.id, mod |-> c.mod, root |-> c.root, what |-> c.what]

LEMMA MarksKeep ==
    ASSUME NEW claims, IsFiniteSet(claims), Shaped(claims), NEW place, NEW id
    PROVE  /\ OfId(AllMarked(claims, place), id) = AllMarked(OfId(claims, id), place)
           /\ Sole(AllMarked(claims, place), id) <=> Sole(claims, id)
           /\ Sole(claims, id) => Chosen(AllMarked(claims, place), id).what = Chosen(claims, id).what
<1>1. \A c : Marked(c, place).id = c.id /\ Marked(c, place).mod = c.mod /\ Marked(c, place).root = c.root /\ Marked(c, place).what = c.what
  BY DEF Marked
<1> DEFINE S == OfId(claims, id)
           M == AllMarked(S, place)
<1>2. OfId(AllMarked(claims, place), id) = M
  BY <1>1 DEF OfId, AllMarked
<1>3. IsFiniteSet(S) /\ \A c \in S : c = [id |-> c.id, mod |-> c.mod, root |-> c.root, what |-> c.what]
  <2>1. S \subseteq claims
    BY DEF OfId
  <2> QED BY <2>1, FS_Subset DEF Shaped
<1>4. \A c, d \in S : Marked(c, place) = Marked(d, place) => c = d
  <2> SUFFICES ASSUME NEW c \in S, NEW d \in S, Marked(c, place) = Marked(d, place) PROVE c = d
    OBVIOUS
  <2>1. c.id = d.id /\ c.mod = d.mod /\ c.root = d.root /\ c.what = d.what
    BY <1>1
  <2> HIDE DEF S
  <2> QED BY <1>3, <2>1
<1> HIDE DEF S
<1>5. Cardinality(M) = Cardinality(S)
  <2> DEFINE f == [c \in S |-> Marked(c, place)]
             N == M
  <2>1. f \in Bijection(S, N)
    BY <1>4 DEF Bijection, Injection, Surjection, IsInjective, AllMarked
  <2> HIDE DEF f, N
  <2>2. Cardinality(N) = Cardinality(S)
    BY <1>3, <2>1, FS_Bijection DEF ExistsBijection
  <2> QED BY <2>2 DEF N
<1>6. Sole(AllMarked(claims, place), id) <=> Sole(claims, id)
  BY <1>2, <1>5 DEF Sole, S
<1>7. ASSUME Sole(claims, id) PROVE Chosen(AllMarked(claims, place), id).what = Chosen(claims, id).what
  <2>1. PICK c : S = {c}
    BY <1>3, <1>7, FS_Singleton DEF Sole, S
  <2>2. M = {Marked(c, place)}
    BY <2>1 DEF AllMarked
  <2> HIDE DEF M
  <2>3. Chosen(claims, id) = c /\ Chosen(AllMarked(claims, place), id) = Marked(c, place)
    BY <1>2, <2>1, <2>2 DEF Chosen, S
  <2> QED BY <1>1, <2>3
<1> QED BY <1>2, <1>6, <1>7 DEF S

\* A folder and the core make claims that the claims of installed mods are told from.
IsHere(c, root) == c.root = root \/ c.mod = Core
Marks(place, root, core, own) == place[GameRoot] = core /\ place[root] = own
CoreIsTheCore(folders) == \A r \in ToSet(InstalledRoots) : Readable(folders, r) => folders[r].mod # Core

LEMMA ClaimsHere ==
    ASSUME NEW sources, NEW folders, NEW root, NEW core, NEW own, Reads(sources, folders, root, core, own),
           Outside(root), CoreIsTheCore(folders), NEW place, Marks(place, root, core, own), NEW kind
    PROVE  /\ {c \in Claimed(sources, kind) : IsHere(c, root)} = AllMarked(OwnClaims(folders, root, kind), place)
           /\ \A c \in Claimed(sources, kind) : IsHere(c, root) \/
                 \E r \in ToSet(InstalledRoots) :
                    Readable(folders, r) /\ folders[r].mod \in EnabledMods /\ c.id \in DOMAIN folders[r].has[kind]
<1> DEFINE claim(i, x) == [id |-> x, at |-> i, mod |-> sources[i].mod, root |-> sources[i].root, what |-> sources[i].has[kind][x]]
           plain(r, mod, x) == [id |-> x, mod |-> mod, root |-> r, what |-> FilesIn(folders, r).has[kind][x]]
           here == FilesIn(folders, root)
           ofCore == FilesIn(folders, GameRoot)
<1>1. \A c : c \in Claimed(sources, kind) <=> \E i \in DOMAIN sources : \E x \in DOMAIN sources[i].has[kind] : c = claim(i, x)
  BY DEF Claimed
<1>2. \A c : c \in OwnClaims(folders, root, kind) <=>
           \/ \E x \in DOMAIN ofCore.has[kind] : c = plain(GameRoot, Core, x)
           \/ Readable(folders, root) /\ \E x \in DOMAIN here.has[kind] : c = plain(root, folders[root].mod, x)
  BY DEF OwnClaims, Declares
<1>3. \A x : claim(core, x) = Marked(plain(GameRoot, Core, x), place) /\ IsHere(claim(core, x), root)
  BY DEF Reads, SourceIs, Marked, Marks, IsHere
<1>4. Readable(folders, root) => \A x : claim(own, x) = Marked(plain(root, folders[root].mod, x), place) /\ IsHere(claim(own, x), root)
  BY DEF Reads, SourceIs, Marked, Marks, IsHere
<1>5. ASSUME NEW i \in DOMAIN sources, i # core, ~(Readable(folders, root) /\ i = own), NEW x \in DOMAIN sources[i].has[kind]
      PROVE  /\ ~IsHere(claim(i, x), root)
             /\ \E r \in ToSet(InstalledRoots) :
                   Readable(folders, r) /\ folders[r].mod \in EnabledMods /\ claim(i, x).id \in DOMAIN folders[r].has[kind]
  <2>1. PICK r \in ToSet(InstalledRoots) :
                Readable(folders, r) /\ folders[r].mod \in EnabledMods /\ SourceIs(sources[i], r, folders[r].mod, FilesIn(folders, r))
    BY <1>5 DEF Reads
  <2>2. r # root /\ folders[r].mod # Core /\ FilesIn(folders, r).has = folders[r].has
    BY <2>1 DEF Outside, CoreIsTheCore, FilesIn
  <2>3. claim(i, x).id = x /\ claim(i, x).root = r /\ claim(i, x).mod = folders[r].mod /\ x \in DOMAIN folders[r].has[kind]
    BY <1>5, <2>1, <2>2 DEF SourceIs
  <2> QED BY <2>1, <2>2, <2>3 DEF IsHere
<1>6. sources[core].has[kind] = ofCore.has[kind] /\ core \in DOMAIN sources
      /\ (Readable(folders, root) => own \in DOMAIN sources /\ sources[own].has[kind] = here.has[kind])
  BY DEF Reads, SourceIs
<1> HIDE DEF claim, plain, here, ofCore
<1>7. \A c : c \in Claimed(sources, kind) /\ IsHere(c, root) <=> \E d \in OwnClaims(folders, root, kind) : c = Marked(d, place)
  <2> TAKE c
  <2>1. ASSUME c \in Claimed(sources, kind), IsHere(c, root) PROVE \E d \in OwnClaims(folders, root, kind) : c = Marked(d, place)
    <3>1. PICK i \in DOMAIN sources : \E x \in DOMAIN sources[i].has[kind] : c = claim(i, x)
      BY <1>1, <2>1
    <3>2. PICK x \in DOMAIN sources[i].has[kind] : c = claim(i, x)
      BY <3>1
    <3>3. i = core \/ (Readable(folders, root) /\ i = own)
      BY <1>5, <2>1, <3>2
    <3> QED BY <1>2, <1>3, <1>4, <1>6, <3>2, <3>3
  <2>2. ASSUME NEW d \in OwnClaims(folders, root, kind), c = Marked(d, place) PROVE c \in Claimed(sources, kind) /\ IsHere(c, root)
    BY <1>1, <1>2, <1>3, <1>4, <1>6, <2>2
  <2> QED BY <2>1, <2>2
<1>8. {c \in Claimed(sources, kind) : IsHere(c, root)} = AllMarked(OwnClaims(folders, root, kind), place)
  BY <1>7 DEF AllMarked
<1>9. \A c \in Claimed(sources, kind) : IsHere(c, root) \/
                 \E r \in ToSet(InstalledRoots) :
                    Readable(folders, r) /\ folders[r].mod \in EnabledMods /\ c.id \in DOMAIN folders[r].has[kind]
  BY <1>1, <1>3, <1>4, <1>5
<1> QED BY <1>8, <1>9

\* The skins of the folder and of the core, no base of which an enabled installed mod declares.
BasesOf(folders, root) == {k.base : k \in FilesIn(folders, root).skins \cup FilesIn(folders, GameRoot).skins}
Uncrossed(folders, root) ==
    \A r \in ToSet(InstalledRoots) :
        Readable(folders, r) /\ folders[r].mod \in EnabledMods => BasesOf(folders, root) \cap DOMAIN folders[r].has["hulls"] = {}
FinitelyMany(folders, root) ==
    \A r \in {GameRoot, root} :
        IsFiniteSet(FilesIn(folders, r).skins) /\ \A kind \in EntityKinds : IsFiniteSet(DOMAIN FilesIn(folders, r).has[kind])

LEMMA OwnAreFinite ==
    ASSUME NEW folders, NEW root, FinitelyMany(folders, root), NEW kind \in EntityKinds
    PROVE  IsFiniteSet(OwnClaims(folders, root, kind)) /\ Shaped(OwnClaims(folders, root, kind))
<1>1. ASSUME NEW r \in {GameRoot, root}, NEW mod
      PROVE  IsFiniteSet(Declares(FilesIn(folders, r), kind, r, mod)) /\ Shaped(Declares(FilesIn(folders, r), kind, r, mod))
  <2> DEFINE files == FilesIn(folders, r)
             S == DOMAIN files.has[kind]
             f == [x \in S |-> [id |-> x, mod |-> mod, root |-> r, what |-> files.has[kind][x]]]
  <2>1. IsFiniteSet(S)
    BY DEF FinitelyMany
  <2>2. Declares(files, kind, r, mod) = {f[x] : x \in S}
    BY DEF Declares
  <2>3. Shaped(Declares(files, kind, r, mod))
    BY DEF Declares, Shaped
  <2> HIDE DEF S, f, files
  <2>4. IsFiniteSet({f[x] : x \in S})
    BY <2>1, ImageIsFinite
  <2> QED BY <2>2, <2>3, <2>4 DEF files
<1> DEFINE A == Declares(FilesIn(folders, GameRoot), kind, GameRoot, Core)
           B == Declares(FilesIn(folders, root), kind, root, folders[root].mod)
<1>2. IsFiniteSet(A) /\ IsFiniteSet(B) /\ Shaped(A) /\ Shaped(B)
  BY <1>1
<1>3. OwnClaims(folders, root, kind) = A \/ OwnClaims(folders, root, kind) = A \cup B
  BY DEF OwnClaims
<1> HIDE DEF A, B
<1>4. IsFiniteSet(A \cup B) /\ Shaped(A \cup B)
  BY <1>2, FS_Union DEF Shaped
<1> QED BY <1>2, <1>3, <1>4

LEMMA OwnSkinsAreFinite ==
    ASSUME NEW folders, NEW root, FinitelyMany(folders, root)
    PROVE  IsFiniteSet(OwnSkins(folders, root)) /\ Shaped(OwnSkins(folders, root))
<1> DEFINE D == OwnClaims(folders, root, "hulls")
<1>1. ASSUME NEW r \in {GameRoot, root}, NEW mod
      PROVE  IsFiniteSet(SkinsOn(D, FilesIn(folders, r), r, mod)) /\ Shaped(SkinsOn(D, FilesIn(folders, r), r, mod))
  <2> HIDE DEF D
  <2> DEFINE files == FilesIn(folders, r)
             S == {j \in files.skins : j.id # Gone /\ Sole(D, j.base)}
             f == [k \in S |-> [id |-> k.id, mod |-> mod, root |-> r, what |-> FromSkin(Chosen(D, k.base).what, k.changes)]]
  <2>1. IsFiniteSet(S)
    BY FS_Subset DEF FinitelyMany
  <2>2. SkinsOn(D, files, r, mod) = {f[x] : x \in S}
    BY DEF SkinsOn
  <2>3. Shaped(SkinsOn(D, files, r, mod))
    BY DEF SkinsOn, Shaped
  <2> HIDE DEF S, f, files
  <2>4. IsFiniteSet({f[x] : x \in S})
    BY <2>1, ImageIsFinite
  <2> QED BY <2>2, <2>3, <2>4 DEF files
<1> DEFINE A == SkinsOn(D, FilesIn(folders, GameRoot), GameRoot, Core)
           B == SkinsOn(D, FilesIn(folders, root), root, folders[root].mod)
<1>2. IsFiniteSet(A) /\ IsFiniteSet(B) /\ Shaped(A) /\ Shaped(B)
  BY <1>1
<1>3. OwnSkins(folders, root) = A \/ OwnSkins(folders, root) = A \cup B
  BY DEF OwnSkins
<1> HIDE DEF A, B
<1>4. IsFiniteSet(A \cup B) /\ Shaped(A \cup B)
  BY <1>2, FS_Union DEF Shaped
<1> QED BY <1>2, <1>3, <1>4

LEMMA BasesHere ==
    ASSUME NEW sources, NEW folders, NEW root, NEW core, NEW own, Reads(sources, folders, root, core, own),
           Outside(root), CoreIsTheCore(folders), NEW place, Marks(place, root, core, own),
           Uncrossed(folders, root), FinitelyMany(folders, root), NEW base \in BasesOf(folders, root)
    PROVE  LET hulls == Claimed(sources, "hulls")
               plain == OwnClaims(folders, root, "hulls")
           IN (Sole(hulls, base) <=> Sole(plain, base)) /\ (Sole(plain, base) => Chosen(hulls, base).what = Chosen(plain, base).what)
<1> DEFINE H == Claimed(sources, "hulls")
           D == OwnClaims(folders, root, "hulls")
           M == AllMarked(D, place)
<1>1. {c \in H : IsHere(c, root)} = M
  BY ClaimsHere
<1>2. \A c \in H : IsHere(c, root) \/
                 \E r \in ToSet(InstalledRoots) :
                    Readable(folders, r) /\ folders[r].mod \in EnabledMods /\ c.id \in DOMAIN folders[r].has["hulls"]
  BY ClaimsHere
<1> HIDE DEF H, M
<1>3. OfId(H, base) = OfId(M, base)
  BY <1>1, <1>2 DEF OfId, Uncrossed
<1>4. Sole(H, base) = Sole(M, base) /\ Chosen(H, base) = Chosen(M, base)
  BY <1>3 DEF Sole, Chosen
<1>5. IsFiniteSet(D) /\ Shaped(D)
  BY OwnAreFinite DEF EntityKinds
<1> HIDE DEF D
<1>6. (Sole(M, base) <=> Sole(D, base)) /\ (Sole(D, base) => Chosen(M, base).what = Chosen(D, base).what)
  BY <1>5, MarksKeep DEF M
<1> QED BY <1>4, <1>6 DEF H, D

LEMMA SkinsHere ==
    ASSUME NEW sources, NEW folders, NEW root, NEW core, NEW own, Reads(sources, folders, root, core, own),
           Outside(root), CoreIsTheCore(folders), NEW place, Marks(place, root, core, own),
           Uncrossed(folders, root), FinitelyMany(folders, root)
    PROVE  {c \in SkinsMade(Claimed(sources, "hulls"), PendingSkins(sources, 0)) : IsHere(c, root)} = AllMarked(OwnSkins(folders, root), place)
<1> DEFINE H == Claimed(sources, "hulls")
           D == OwnClaims(folders, root, "hulls")
           skinned(i, k) == [id |-> k.id, at |-> i, mod |-> sources[i].mod, root |-> sources[i].root,
                          what |-> FromSkin(Chosen(H, k.base).what, k.changes)]
           plain(r, mod, k) == [id |-> k.id, mod |-> mod, root |-> r, what |-> FromSkin(Chosen(D, k.base).what, k.changes)]
           here == FilesIn(folders, root)
           ofCore == FilesIn(folders, GameRoot)
           Can(k) == k.id # Gone /\ Sole(D, k.base)
           Made == SkinsMade(H, PendingSkins(sources, 0))
<1>1. \A c : c \in Made <=> \E i \in DOMAIN sources : \E k \in sources[i].skins : k.id # Gone /\ Sole(H, k.base) /\ c = skinned(i, k)
  <2> DEFINE wait(i, k) == [id |-> k.id, base |-> k.base, changes |-> k.changes, at |-> 0 + i, mod |-> sources[i].mod, root |-> sources[i].root]
             W == PendingSkins(sources, 0)
             as(p) == [id |-> p.id, at |-> p.at, mod |-> p.mod, root |-> p.root, what |-> FromSkin(Chosen(H, p.base).what, p.changes)]
  <2>1. \A p : p \in W <=> \E i \in DOMAIN sources : \E k \in sources[i].skins : p = wait(i, k)
    BY DEF PendingSkins
  <2>2. \A c : c \in Made <=> \E p \in W : p.id # Gone /\ Sole(H, p.base) /\ c = as(p)
    BY DEF SkinsMade, Chosen
  <2>3. \A i \in DOMAIN sources : \A k : wait(i, k).id = k.id /\ wait(i, k).base = k.base /\ as(wait(i, k)) = skinned(i, k)
    <3>1. \A i \in DOMAIN sources : 0 + i = i
      BY DEF Reads
    <3> HIDE DEF H
    <3> QED BY <3>1
  <2> HIDE DEF wait, W, as, skinned, H, Made
  <2>4. ASSUME NEW c \in Made PROVE \E i \in DOMAIN sources : \E k \in sources[i].skins : k.id # Gone /\ Sole(H, k.base) /\ c = skinned(i, k)
    <3>1. PICK p \in W : p.id # Gone /\ Sole(H, p.base) /\ c = as(p)
      BY <2>2
    <3>2. PICK i \in DOMAIN sources : \E k \in sources[i].skins : p = wait(i, k)
      BY <2>1
    <3>3. PICK k \in sources[i].skins : p = wait(i, k)
      BY <3>2
    <3>4. p.id = k.id /\ p.base = k.base /\ as(p) = skinned(i, k)
      BY <2>3, <3>3
    <3> QED BY <3>1, <3>4
  <2>5. ASSUME NEW i \in DOMAIN sources, NEW k \in sources[i].skins, k.id # Gone, Sole(H, k.base) PROVE skinned(i, k) \in Made
    <3>1. wait(i, k) \in W /\ wait(i, k).id # Gone /\ Sole(H, wait(i, k).base) /\ as(wait(i, k)) = skinned(i, k)
      BY <2>1, <2>3, <2>5
    <3> QED BY <2>2, <3>1
  <2> QED BY <2>4, <2>5
<1>2. \A c : c \in OwnSkins(folders, root) <=>
           \/ \E k \in ofCore.skins : Can(k) /\ c = plain(GameRoot, Core, k)
           \/ Readable(folders, root) /\ \E k \in here.skins : Can(k) /\ c = plain(root, folders[root].mod, k)
  BY DEF OwnSkins, SkinsOn
<1>3. \A k \in ofCore.skins \cup here.skins :
           (Sole(H, k.base) <=> Sole(D, k.base)) /\ (Sole(D, k.base) => Chosen(H, k.base).what = Chosen(D, k.base).what)
  <2> TAKE k \in ofCore.skins \cup here.skins
  <2>1. k.base \in BasesOf(folders, root)
    BY DEF BasesOf
  <2> QED BY <2>1, BasesHere
<1>4. \A k \in ofCore.skins : Sole(D, k.base) => skinned(core, k) = Marked(plain(GameRoot, Core, k), place) /\ IsHere(skinned(core, k), root)
  <2> TAKE k \in ofCore.skins
  <2>1. Sole(D, k.base) => Chosen(H, k.base).what = Chosen(D, k.base).what
    BY <1>3
  <2> HIDE DEF H, D
  <2> QED BY <2>1 DEF Reads, SourceIs, Marked, Marks, IsHere
<1>5. Readable(folders, root) =>
        \A k \in here.skins : Sole(D, k.base) => skinned(own, k) = Marked(plain(root, folders[root].mod, k), place) /\ IsHere(skinned(own, k), root)
  <2> SUFFICES ASSUME Readable(folders, root), NEW k \in here.skins, Sole(D, k.base)
               PROVE  skinned(own, k) = Marked(plain(root, folders[root].mod, k), place) /\ IsHere(skinned(own, k), root)
    OBVIOUS
  <2>1. Chosen(H, k.base).what = Chosen(D, k.base).what
    BY <1>3
  <2> HIDE DEF H, D
  <2> QED BY <2>1 DEF Reads, SourceIs, Marked, Marks, IsHere
<1>6. ASSUME NEW i \in DOMAIN sources, i # core, ~(Readable(folders, root) /\ i = own), NEW k PROVE ~IsHere(skinned(i, k), root)
  <2>1. PICK r \in ToSet(InstalledRoots) : Readable(folders, r) /\ SourceIs(sources[i], r, folders[r].mod, FilesIn(folders, r))
    BY <1>6 DEF Reads
  <2>2. r # root /\ folders[r].mod # Core
    BY <2>1 DEF Outside, CoreIsTheCore
  <2>3. skinned(i, k).root = r /\ skinned(i, k).mod = folders[r].mod
    BY <2>1 DEF SourceIs
  <2> QED BY <2>2, <2>3 DEF IsHere
<1>7. /\ core \in DOMAIN sources /\ sources[core].skins = ofCore.skins
      /\ Readable(folders, root) => own \in DOMAIN sources /\ sources[own].skins = here.skins
  BY DEF Reads, SourceIs
<1> HIDE DEF skinned, plain, here, ofCore, H, D, Made
<1>8. ASSUME NEW c \in Made, IsHere(c, root) PROVE \E d \in OwnSkins(folders, root) : c = Marked(d, place)
  <2>1. PICK i \in DOMAIN sources : \E k \in sources[i].skins : k.id # Gone /\ Sole(H, k.base) /\ c = skinned(i, k)
    BY <1>1
  <2>2. PICK k \in sources[i].skins : k.id # Gone /\ Sole(H, k.base) /\ c = skinned(i, k)
    BY <2>1
  <2>3. i = core \/ (Readable(folders, root) /\ i = own)
    BY <1>6, <1>8, <2>2
  <2>4. CASE i = core
    <3>1. k \in ofCore.skins /\ Can(k) /\ c = skinned(core, k)
      BY <1>3, <1>7, <2>2, <2>4
    <3>2. c = Marked(plain(GameRoot, Core, k), place)
      BY <1>4, <3>1
    <3> QED BY <1>2, <3>1, <3>2
  <2>5. CASE Readable(folders, root) /\ i = own
    <3>1. k \in here.skins /\ Can(k) /\ c = skinned(own, k)
      BY <1>3, <1>7, <2>2, <2>5
    <3>2. c = Marked(plain(root, folders[root].mod, k), place)
      BY <1>5, <2>5, <3>1
    <3> QED BY <1>2, <2>5, <3>1, <3>2
  <2> QED BY <2>3, <2>4, <2>5
<1>9. ASSUME NEW d \in OwnSkins(folders, root) PROVE Marked(d, place) \in Made /\ IsHere(Marked(d, place), root)
  <2>1. CASE \E k \in ofCore.skins : Can(k) /\ d = plain(GameRoot, Core, k)
    <3>1. PICK k \in ofCore.skins : Can(k) /\ d = plain(GameRoot, Core, k)
      BY <2>1
    <3>2. Marked(d, place) = skinned(core, k) /\ IsHere(skinned(core, k), root) /\ Sole(H, k.base)
      BY <1>3, <1>4, <3>1
    <3> QED BY <1>1, <1>7, <3>1, <3>2
  <2>2. CASE Readable(folders, root) /\ \E k \in here.skins : Can(k) /\ d = plain(root, folders[root].mod, k)
    <3>1. PICK k \in here.skins : Can(k) /\ d = plain(root, folders[root].mod, k)
      BY <2>2
    <3>2. Marked(d, place) = skinned(own, k) /\ IsHere(skinned(own, k), root) /\ Sole(H, k.base)
      BY <1>3, <1>5, <2>2, <3>1
    <3> QED BY <1>1, <1>7, <2>2, <3>1, <3>2
  <2> QED BY <1>2, <2>1, <2>2
<1> QED BY <1>8, <1>9 DEF AllMarked, Made, H

------------------------------------------------------------------------------
\* Claims that differ in the places alone are resolved alike.
LEMMA MarkedResolve ==
    ASSUME NEW plain, NEW claims, NEW place, NEW kind \in EntityKinds,
           IsFiniteSet(plain[kind]), Shaped(plain[kind]), claims[kind] = AllMarked(plain[kind], place), NEW id
    PROVE  HasId(RegistryOf(claims)[kind], id) <=> HasId(RegistryOf(plain)[kind], id)
<1> DEFINE D == plain[kind]
           C == AllMarked(D, place)
           Same(S, x) == \A c, d \in OfId(S, x) : c.what = d.what
           Claims(S, x) == \E c \in S : c.id = x
<1>1. \A x : /\ OfId(C, x) = AllMarked(OfId(D, x), place)
             /\ Sole(C, x) <=> Sole(D, x)
  <2> HIDE DEF D
  <2> QED BY MarksKeep DEF D
<1>2. \A c : Marked(c, place).id = c.id /\ Marked(c, place).what = c.what
  BY DEF Marked
<1>3. \A x : Claims(C, x) <=> Claims(D, x)
  <2> HIDE DEF D
  <2> QED BY <1>2 DEF AllMarked
<1>4. \A x : Same(C, x) <=> Same(D, x)
  <2> HIDE DEF D, C
  <2> QED BY <1>1, <1>2 DEF AllMarked
<1>5. ASSUME NEW S
      PROVE  /\ \A x : HasId(IndexOf(S), x) <=> Claims(S, x) /\ Sole(S, x)
             /\ \A x : HasId(Canonicalised(IndexOf(S)), x) <=> Claims(S, x) /\ (Sole(S, x) \/ Same(S, x))
  <2> DEFINE index == IndexOf(S)
             ids == {c.id : c \in S}
  <2>1. \A x : x \in ids <=> Claims(S, x)
    OBVIOUS
  <2>2. /\ DOMAIN index.by_id = {y \in ids : Sole(S, y)}
        /\ DOMAIN index.duplicates = {y \in ids : ~Sole(S, y)}
        /\ \A x \in DOMAIN index.duplicates : index.duplicates[x] = OfId(S, x)
    BY DEF IndexOf
  <2> HIDE DEF index, ids
  <2>3. DOMAIN Canonicalised(index).by_id = DOMAIN index.by_id \cup {x \in DOMAIN index.duplicates : Same(S, x)}
    BY <2>2 DEF Canonicalised
  <2> HIDE DEF Same, Claims
  <2> QED BY <2>1, <2>2, <2>3 DEF HasId, index
<1>6. /\ RegistryOf(claims)[kind] = IF kind = "mods" THEN Canonicalised(IndexOf(C)) ELSE IndexOf(C)
      /\ RegistryOf(plain)[kind] = IF kind = "mods" THEN Canonicalised(IndexOf(D)) ELSE IndexOf(D)
  BY DEF RegistryOf
<1> HIDE DEF C, D, Same, Claims
<1>7. CASE kind = "mods"
  BY <1>1, <1>3, <1>4, <1>5, <1>6, <1>7
<1>8. CASE kind # "mods"
  BY <1>1, <1>3, <1>5, <1>6, <1>8
<1> QED BY <1>7, <1>8

OwnCodes(claims, root) == CodesOf({v \in claims["variants"] : v.root = root}, RegistryOf(claims))

\* What check-mod says of a folder as the files of the folder and of the core say it, and what besides is
\* taken for the folder's own: from installed mods that are enabled.
PlainErrors(folders, path) ==
    FilesIn(folders, FolderAt[path]).errs \cup IF GameRoot \in NamedBy[path] THEN FilesIn(folders, GameRoot).errs ELSE {}
TakenFrom(folders, path, r) ==
    r \in ToSet(InstalledRoots) \cap NamedBy[path] /\ Readable(folders, r) /\ folders[r].mod \in EnabledMods
TakenErrors(folders, path, errors) ==
    /\ PlainErrors(folders, path) \subseteq errors
    /\ \A e \in errors : e \in PlainErrors(folders, path) \/ \E r : TakenFrom(folders, path, r) /\ e \in folders[r].errs

\* More errors make a verdict stricter, and only two kinds of them count.
LEMMA VerdictsCompare ==
    ASSUME NEW there, NEW codes, NEW few, NEW many, few \subseteq many
    PROVE  /\ Strictness[VerdictOn(there, codes, few)] <= Strictness[VerdictOn(there, codes, many)]
           /\ many \cap {"located", "other"} \subseteq few => VerdictOn(there, codes, many) = VerdictOn(there, codes, few)
<1>1. Strictness["PASS"] = 0 /\ Strictness["REVIEW"] = 1 /\ Strictness["FAIL"] = 2
  BY DEF Strictness
<1>2. ("located" \in few => "located" \in many) /\ ("other" \in few => "other" \in many)
  OBVIOUS
<1>3. many \cap {"located", "other"} \subseteq few => ("located" \in many => "located" \in few) /\ ("other" \in many => "other" \in few)
  OBVIOUS
<1> QED BY <1>1, <1>2, <1>3 DEF VerdictOn

LEMMA MarkedCodes ==
    ASSUME NEW plain, NEW claims, NEW place, NEW root,
           \A kind \in EntityKinds : IsFiniteSet(plain[kind]) /\ Shaped(plain[kind]) /\ claims[kind] = AllMarked(plain[kind], place)
    PROVE  OwnCodes(claims, root) = OwnCodes(plain, root)
<1> DEFINE reg == RegistryOf(claims)
           ref == RegistryOf(plain)
           C == {v \in claims["variants"] : v.root = root}
           D == {v \in plain["variants"] : v.root = root}
<1>1. \A kind \in EntityKinds : \A id : HasId(reg[kind], id) <=> HasId(ref[kind], id)
  BY MarkedResolve
<1>2. "hulls" \in EntityKinds /\ "weapons" \in EntityKinds /\ "mods" \in EntityKinds /\ "wings" \in EntityKinds /\ "variants" \in EntityKinds
  BY DEF EntityKinds
<1>3. \A v : Marked(v, place).what = v.what /\ Marked(v, place).id = v.id /\ Marked(v, place).root = v.root
  BY DEF Marked
<1> HIDE DEF reg, ref
<1>4. ASSUME NEW v PROVE VariantCodes(Marked(v, place), reg) = VariantCodes(v, ref)
  <2>1. \A id : /\ HasId(reg["hulls"], id) <=> HasId(ref["hulls"], id)
                /\ HasId(reg["weapons"], id) <=> HasId(ref["weapons"], id)
                /\ HasId(reg["mods"], id) <=> HasId(ref["mods"], id)
                /\ HasId(reg["wings"], id) <=> HasId(ref["wings"], id)
    BY <1>1, <1>2
  <2>2. VariantCodes(Marked(v, place), reg) = VariantCodes(v, reg)
    BY <1>3 DEF VariantCodes
  <2>3. VariantCodes(v, reg) = VariantCodes(v, ref)
    BY <2>1 DEF VariantCodes
  <2> QED BY <2>2, <2>3
<1>5. C = {Marked(v, place) : v \in D}
  <2>1. claims["variants"] = {Marked(v, place) : v \in plain["variants"]}
    BY <1>2 DEF AllMarked
  <2> QED BY <1>3, <2>1
<1> HIDE DEF C, D
<1>6. {VariantCodes(v, reg) : v \in C} = {VariantCodes(v, ref) : v \in D}
  BY <1>4, <1>5
<1> QED BY <1>6 DEF OwnCodes, CodesOf, C, D, reg, ref

LEMMA VerdictIsPlain ==
    ASSUME FoldersAssumption, PathsAssumption, NEW folders, NEW path \in CheckPaths, NEW root, root = FolderAt[path],
           Outside(root), CoreIsTheCore(folders), Uncrossed(folders, root), FinitelyMany(folders, root)
    PROVE  \E errors : /\ TakenErrors(folders, path, errors)
                       /\ CheckMod(folders, path, "core") =
                            VerdictOn(Readable(folders, root), OwnCodes(PlainClaims(folders, root), root), errors)
<1> DEFINE read == FullScan(folders, <<root>>)
           sources == read.sources
           claims == Restricted(read, root, "core")
           plain == PlainClaims(folders, root)
<1>1. PICK core : \E own : Reads(sources, folders, root, core, own)
  BY FolderReads
<1>2. PICK own : Reads(sources, folders, root, core, own)
  BY <1>1
<1> DEFINE place == [r \in {GameRoot, root} |-> IF r = GameRoot THEN core ELSE own]
<1>3. Marks(place, root, core, own)
  BY DEF Marks, Outside
<1>4. read.skins = SkinsMade(Claimed(sources, "hulls"), PendingSkins(sources, 0))
  BY DEF FullScan, FullScanOf
<1> HIDE DEF read, place
<1>5. ASSUME NEW kind \in EntityKinds
      PROVE  IsFiniteSet(plain[kind]) /\ Shaped(plain[kind]) /\ claims[kind] = AllMarked(plain[kind], place)
  <2> DEFINE own1 == OwnClaims(folders, root, kind)
             own2 == OwnSkins(folders, root)
             skinned == {c \in read.skins : IsHere(c, root)}
             told == {c \in Claimed(sources, kind) : IsHere(c, root)}
  <2>1. IsFiniteSet(own1) /\ Shaped(own1)
    BY OwnAreFinite
  <2>2. IsFiniteSet(own2) /\ Shaped(own2)
    BY OwnSkinsAreFinite
  <2>3. told = AllMarked(own1, place)
    BY <1>2, <1>3, ClaimsHere
  <2>4. skinned = AllMarked(own2, place)
    BY <1>2, <1>3, <1>4, SkinsHere
  <2>5. plain[kind] = IF kind = "hulls" THEN own1 \cup own2 ELSE own1
    BY DEF PlainClaims
  <2>6. claims[kind] = IF kind = "hulls" THEN told \cup skinned ELSE told
    <3>1. claims[kind] = {c \in ClaimsOf(read, kind) : IsHere(c, root)}
      BY DEF Restricted, IsHere
    <3>2. ClaimsOf(read, kind) = Claimed(sources, kind) \cup IF kind = "hulls" THEN read.skins ELSE {}
      BY DEF ClaimsOf
    <3> QED BY <3>1, <3>2
  <2> HIDE DEF plain, claims, own1, own2, skinned, told
  <2>7. IsFiniteSet(own1 \cup own2) /\ Shaped(own1 \cup own2) /\ AllMarked(own1 \cup own2, place) = AllMarked(own1, place) \cup AllMarked(own2, place)
    BY <2>1, <2>2, FS_Union DEF Shaped, AllMarked
  <2> QED BY <2>1, <2>3, <2>4, <2>5, <2>6, <2>7
<1>6. OwnCodes(claims, root) = OwnCodes(plain, root)
  <2> HIDE DEF claims, plain
  <2>1. \A kind \in EntityKinds : IsFiniteSet(plain[kind]) /\ Shaped(plain[kind]) /\ claims[kind] = AllMarked(plain[kind], place)
    BY <1>5
  <2> QED BY ONLY <2>1, MarkedCodes
<1>7. TakenErrors(folders, path, ErrorsAt(read, path))
  <2> DEFINE there == {t \in ToSet(sources) : t.root \in NamedBy[path]}
  <2>1. \A t : t \in there <=> \E i \in DOMAIN sources : t = sources[i] /\ t.root \in NamedBy[path]
    BY DEF ToSet
  <2>2. \A e : e \in ErrorsAt(read, path) <=> \E i \in DOMAIN sources : sources[i].root \in NamedBy[path] /\ e \in sources[i].errs
    <3> HIDE DEF there
    <3>1. ErrorsAt(read, path) = UNION {t.errs : t \in there}
      BY DEF ErrorsAt, there
    <3> QED BY <2>1, <3>1
  <2>3. core \in DOMAIN sources /\ sources[core].root = GameRoot /\ sources[core].errs = FilesIn(folders, GameRoot).errs
    BY <1>2 DEF Reads, SourceIs
  <2>4. Readable(folders, root) => own \in DOMAIN sources /\ sources[own].root = root /\ sources[own].errs = FilesIn(folders, root).errs
    BY <1>2 DEF Reads, SourceIs
  <2>5. ~Readable(folders, root) => FilesIn(folders, root).errs = {}
    BY DEF FilesIn, NoFiles
  <2>6. root \in NamedBy[path]
    BY DEF PathsAssumption
  <2>7. ASSUME NEW i \in DOMAIN sources, i # core, ~(Readable(folders, root) /\ i = own), sources[i].root \in NamedBy[path]
        PROVE  \E r : TakenFrom(folders, path, r) /\ sources[i].errs = folders[r].errs
    <3>1. PICK r \in ToSet(InstalledRoots) :
             Readable(folders, r) /\ folders[r].mod \in EnabledMods /\ SourceIs(sources[i], r, folders[r].mod, FilesIn(folders, r))
      BY <1>2, <2>7 DEF Reads
    <3>2. sources[i].root = r /\ sources[i].errs = folders[r].errs
      BY <3>1 DEF SourceIs, FilesIn
    <3> QED BY <2>7, <3>1, <3>2 DEF TakenFrom
  <2> HIDE DEF there, read
  <2>8. ASSUME NEW e \in PlainErrors(folders, path) PROVE e \in ErrorsAt(read, path)
    <3>1. CASE e \in FilesIn(folders, root).errs
      BY <2>2, <2>4, <2>5, <2>6, <3>1
    <3>2. CASE GameRoot \in NamedBy[path] /\ e \in FilesIn(folders, GameRoot).errs
      BY <2>2, <2>3, <3>2
    <3> QED BY <2>8, <3>1, <3>2 DEF PlainErrors
  <2>9. ASSUME NEW e \in ErrorsAt(read, path)
        PROVE  e \in PlainErrors(folders, path) \/ \E r : TakenFrom(folders, path, r) /\ e \in folders[r].errs
    <3>1. PICK i \in DOMAIN sources : sources[i].root \in NamedBy[path] /\ e \in sources[i].errs
      BY <2>2
    <3>2. CASE i = core
      BY <2>3, <3>1, <3>2 DEF PlainErrors
    <3>3. CASE Readable(folders, root) /\ i = own
      BY <2>4, <3>1, <3>3 DEF PlainErrors
    <3>4. CASE i # core /\ ~(Readable(folders, root) /\ i = own)
      BY <2>7, <3>1, <3>4
    <3> QED BY <3>2, <3>3, <3>4
  <2> QED BY <2>8, <2>9 DEF TakenErrors
<1>8. CheckMod(folders, path, "core") =
        VerdictOn(Readable(folders, root), OwnCodes(claims, root), ErrorsAt(read, path))
  BY DEF CheckMod, CheckScan, CheckIn, OwnCodes, read
<1> QED BY <1>6, <1>7, <1>8

LEMMA SameFilesSameVerdict ==
    ASSUME NEW one, NEW other, NEW path, NEW root, root = FolderAt[path],
           one[root] = other[root], one[GameRoot] = other[GameRoot]
    PROVE  /\ PlainClaims(one, root) = PlainClaims(other, root) /\ PlainErrors(one, path) = PlainErrors(other, path)
           /\ Readable(one, root) = Readable(other, root)
           /\ FinitelyMany(one, root) <=> FinitelyMany(other, root)
<1>1. FilesIn(one, root) = FilesIn(other, root) /\ FilesIn(one, GameRoot) = FilesIn(other, GameRoot)
      /\ Readable(one, root) = Readable(other, root)
  BY DEF FilesIn, Readable
<1>2. \A kind : OwnClaims(one, root, kind) = OwnClaims(other, root, kind)
  BY <1>1 DEF OwnClaims
<1>3. OwnSkins(one, root) = OwnSkins(other, root)
  BY <1>1, <1>2 DEF OwnSkins
<1>4. PlainClaims(one, root) = PlainClaims(other, root)
  BY <1>2, <1>3 DEF PlainClaims
<1>5. PlainErrors(one, path) = PlainErrors(other, path)
  BY <1>1 DEF PlainErrors
<1>6. \A r \in {GameRoot, root} : FilesIn(one, r) = FilesIn(other, r)
  BY <1>1
<1>7. FinitelyMany(one, root) <=> FinitelyMany(other, root)
  BY <1>6 DEF FinitelyMany
<1> QED BY <1>1, <1>4, <1>5, <1>7

\* The installed mods do not count, but for what is taken for the folder's own.
LEMMA CheckedAlone ==
    ASSUME DiskInv, NEW path \in CheckPaths, NEW root, root = FolderAt[path], Outside(root), ~CrossedSkin(root)
    PROVE  /\ Strictness[CheckMod(Alone, path, "core")] <= Strictness[CheckMod(disk, path, "core")]
           /\ CheckMod(disk, path, "core") = CheckMod(Alone, path, "core") \/ TakenForIts(path)
<1>1. ASSUME NEW r \in Folders, Readable(disk, r)
      PROVE  /\ IsFiniteSet(disk[r].skins) /\ \A k \in EntityKinds : IsFiniteSet(DOMAIN disk[r].has[k])
             /\ r # GameRoot => disk[r].mod # Core
  BY <1>1, HeldAssumption, CoreIdAssumption DEF DiskInv, HeldBy, Readable
<1>2. root \in Folders /\ GameRoot \in Folders /\ ToSet(InstalledRoots) \subseteq Folders \ {GameRoot}
  BY FoldersAssumption DEF Outside, ToSet
<1>3. FinitelyMany(disk, root)
  <2>1. IsFiniteSet({}) /\ DOMAIN << >> = {}
    BY FS_EmptySet
  <2>2. IsFiniteSet(NoFiles.skins) /\ \A k \in EntityKinds : IsFiniteSet(DOMAIN NoFiles.has[k])
    BY <2>1 DEF NoFiles
  <2> QED BY <1>1, <1>2, <2>2 DEF FinitelyMany, FilesIn
<1>4. CoreIsTheCore(disk) /\ Uncrossed(disk, root)
  BY <1>1, <1>2 DEF CoreIsTheCore, CrossedSkin, Uncrossed, BasesOf
<1>5. Alone[root] = disk[root] /\ Alone[GameRoot] = disk[GameRoot] /\ \A r \in ToSet(InstalledRoots) : Alone[r] = Gone
  BY <1>2 DEF Alone, Outside
<1>6. CoreIsTheCore(Alone) /\ Uncrossed(Alone, root)
  BY <1>5 DEF CoreIsTheCore, Uncrossed, Readable
<1>7. /\ FinitelyMany(Alone, root) /\ Readable(Alone, root) = Readable(disk, root)
      /\ PlainClaims(Alone, root) = PlainClaims(disk, root) /\ PlainErrors(Alone, path) = PlainErrors(disk, path)
  BY <1>3, <1>5, SameFilesSameVerdict
<1> DEFINE codes == OwnCodes(PlainClaims(disk, root), root)
           there == Readable(disk, root)
<1>8. PICK many : TakenErrors(disk, path, many) /\ CheckMod(disk, path, "core") = VerdictOn(there, codes, many)
  BY <1>3, <1>4, VerdictIsPlain, FoldersAssumption, PathsAssumption
<1>9. PICK few : TakenErrors(Alone, path, few) /\ CheckMod(Alone, path, "core") = VerdictOn(there, codes, few)
  BY <1>6, <1>7, VerdictIsPlain, FoldersAssumption, PathsAssumption
<1>10. few = PlainErrors(disk, path)
  <2>1. \A r : ~TakenFrom(Alone, path, r)
    BY <1>5 DEF TakenFrom, Readable
  <2> QED BY <1>7, <1>9, <2>1 DEF TakenErrors
<1>11. few \subseteq many /\ (many \cap {"located", "other"} \subseteq few \/ TakenForIts(path))
  <2>1. \A e \in many \cap {"located", "other"} : e \in few \/ TakenForIts(path)
    BY <1>8, <1>10 DEF TakenErrors, TakenFrom, TakenForIts
  <2> QED BY <1>8, <1>10, <2>1 DEF TakenErrors
<1> HIDE DEF codes, there
<1> QED BY <1>8, <1>9, <1>11, VerdictsCompare

\* A verdict at hand is the one that check-mod gives of the folders as they are.
CheckInv ==
    checked # Gone =>
        checked.path \in CheckPaths /\ checked.verdict = CheckMod(disk, checked.path, checked.context)

\* The verdict of check-mod on a folder beside the installed mods, in the context of the core, is the verdict on an
\* install without any other mod, unless an enabled mod also declares the base of a skin that counts
\* (restrict_to_mod), or has trouble in a file whose name contains the path given: then it may be stricter.
THEOREM ChecksAreOfTheFolder == ChecksSpec => []CheckIsOfTheFolder
<1>1. ImportInit /\ ChecksInit => CheckInv
  BY DEF ChecksInit, CheckInv
<1>2. CheckInv /\ [ChecksNext]_ChecksVars => CheckInv'
  <2> SUFFICES ASSUME CheckInv, [ChecksNext]_ChecksVars PROVE CheckInv'
    OBVIOUS
  <2>1. CASE checked' = Gone
    BY <2>1 DEF CheckInv
  <2>2. ASSUME NEW path \in CheckPaths, NEW context, RunCheckMod(path, context) PROVE CheckInv'
    <3>1. checked' = [path |-> path, context |-> context, verdict |-> CheckMod(disk, path, context)] /\ disk' = disk
      BY <2>2 DEF RunCheckMod, importVars
    <3>2. checked'.path = path /\ checked'.verdict = CheckMod(disk, path, context) /\ checked'.context = context
      BY <3>1
    <3> QED BY <3>1, <3>2 DEF CheckInv
  <2>3. CASE UNCHANGED ChecksVars
    BY <2>3 DEF ChecksVars, CheckInv, importVars
  <2> QED BY <2>1, <2>2, <2>3 DEF ChecksNext
<1>3. CheckInv /\ SweepInv => CheckIsOfTheFolder
  <2> SUFFICES ASSUME CheckInv, SweepInv, checked # Gone, checked.context = "core",
                      FolderAt[checked.path] \notin ToSet(InstalledRoots), ~CrossedSkin(FolderAt[checked.path])
               PROVE  /\ Strictness[CheckMod(Alone, checked.path, "core")] <= Strictness[checked.verdict]
                      /\ checked.verdict = CheckMod(Alone, checked.path, "core") \/ TakenForIts(checked.path)
    BY DEF CheckIsOfTheFolder
  <2>1. checked.path \in CheckPaths /\ checked.verdict = CheckMod(disk, checked.path, "core")
    BY DEF CheckInv
  <2>2. Outside(FolderAt[checked.path]) /\ DiskInv
    BY <2>1, PathsAssumption DEF Outside, SweepInv
  <2> QED BY <2>1, <2>2, CheckedAlone
<1> QED BY <1>1, <1>2, <1>3, SweepInvariant, PTL DEF ChecksSpec
------------------------------------------------------------------------------
(* Of merges: the sources of two scans that are up to date are the same ones, *)
(* in orders that agree on the folders of one mod.                            *)
\* The members of a list at their places in another one, those of one mod in their order.
Shuffled(to, one, other) ==
    /\ to \in [DOMAIN one -> DOMAIN other]
    /\ \A j \in DOMAIN other : \E i \in DOMAIN one : to[i] = j
    /\ \A i, j \in DOMAIN one : to[i] = to[j] => i = j
    /\ \A i, j \in DOMAIN one : one[i].mod = one[j].mod /\ i < j => to[i] < to[j]

LEMMA TurnsIncrease ==
    ASSUME NEW mods, NEW i \in Nat, NEW j \in Nat, 0 < j, i < j, mods[i].mod = mods[j].mod
    PROVE  Turn(mods, i) < Turn(mods, j) /\ Turn(mods, i) \in Nat /\ Turn(mods, j) \in Nat
<1> DEFINE U == {k \in 1..i : mods[k].mod = mods[i].mod}
           V == {k \in 1..j : mods[k].mod = mods[j].mod}
<1>1. U \subseteq V /\ j \in V /\ j \notin U
  OBVIOUS
<1>2. IsFiniteSet(V)
  <2>1. IsFiniteSet(1..j) /\ V \subseteq 1..j
    BY FS_Interval
  <2> QED BY <2>1, FS_Subset
<1>3. Turn(mods, i) = Cardinality(U) /\ Turn(mods, j) = Cardinality(V)
  BY DEF Turn
<1> HIDE DEF U, V
<1>4. /\ IsFiniteSet(U) /\ Cardinality(U) <= Cardinality(V) /\ (Cardinality(U) = Cardinality(V) => U = V)
      /\ Cardinality(U) \in Nat /\ Cardinality(V) \in Nat
  BY <1>1, <1>2, FS_Subset, FS_CardinalityType
<1> QED BY <1>1, <1>3, <1>4

\* The turn of a member tells it from the others of its mod.
LEMMA TurnsTell ==
    ASSUME NEW mods, NEW N \in Nat, NEW i \in 1..N, NEW j \in 1..N, mods[i].mod = mods[j].mod
    PROVE  (i < j <=> Turn(mods, i) < Turn(mods, j)) /\ (i = j <=> Turn(mods, i) = Turn(mods, j))
<1>1. CASE i < j
  BY <1>1, TurnsIncrease
<1>2. CASE j < i
  BY <1>2, TurnsIncrease
<1>3. CASE i = j
  <2>1. IsFiniteSet({k \in 1..i : mods[k].mod = mods[i].mod})
    <3>1. IsFiniteSet(1..i) /\ {k \in 1..i : mods[k].mod = mods[i].mod} \subseteq 1..i
      BY FS_Interval
    <3> QED BY <3>1, FS_Subset
  <2>2. Turn(mods, i) \in Nat
    BY <2>1, FS_CardinalityType DEF Turn
  <2> QED BY <1>3, <2>2
<1> QED BY <1>1, <1>2, <1>3

LEMMA TurnsMatch ==
    ASSUME NEW M \in Nat, NEW N \in Nat, NEW one, NEW other, DOMAIN one = 1..M, DOMAIN other = 1..N, InTurn(one) = InTurn(other)
    PROVE  M = N /\ \E to : Shuffled(to, one, other) /\ \A i \in 1..M : other[to[i]] = one[i]
<1> DEFINE turn(i) == <<one[i], Turn(one, i)>>
           there(j) == <<other[j], Turn(other, j)>>
           to == [i \in 1..M |-> CHOOSE j \in 1..N : there(j) = turn(i)]
<1>1. (\A i \in 1..M : \E j \in 1..N : there(j) = turn(i)) /\ \A j \in 1..N : \E i \in 1..M : there(j) = turn(i)
  BY DEF InTurn
<1>2. \A i \in 1..M : to[i] \in 1..N /\ there(to[i]) = turn(i)
  BY <1>1
<1> HIDE DEF to
<1>3. \A i \in 1..M : other[to[i]] = one[i] /\ Turn(other, to[i]) = Turn(one, i)
  BY <1>2
<1>4. ASSUME NEW i \in 1..M, NEW j \in 1..M, to[i] = to[j] PROVE i = j
  <2>1. one[i] = one[j] /\ Turn(one, i) = Turn(one, j)
    BY <1>3, <1>4
  <2> QED BY <2>1, TurnsTell
<1>5. ASSUME NEW i \in 1..M, NEW j \in 1..M, one[i].mod = one[j].mod, i < j PROVE to[i] < to[j]
  <2>1. Turn(one, i) < Turn(one, j)
    BY <1>5, TurnsTell
  <2>2. other[to[i]].mod = other[to[j]].mod /\ Turn(other, to[i]) < Turn(other, to[j])
    BY <1>3, <1>5, <2>1
  <2>3. to[i] \in 1..N /\ to[j] \in 1..N
    BY <1>2
  <2> QED BY <2>2, <2>3, TurnsTell
<1>6. ASSUME NEW j \in 1..N PROVE \E i \in 1..M : to[i] = j
  <2>1. PICK i \in 1..M : there(j) = turn(i)
    BY <1>1
  <2>2. other[j] = other[to[i]] /\ Turn(other, j) = Turn(other, to[i]) /\ to[i] \in 1..N
    BY <1>2, <1>3, <2>1
  <2> QED BY <2>2, TurnsTell
<1>7. to \in [1..M -> 1..N]
  BY <1>2 DEF to
<1>8. Shuffled(to, one, other)
  BY <1>4, <1>5, <1>6, <1>7 DEF Shuffled
<1>9. M = N
  <2> DEFINE S == 1..M
             T == 1..N
  <2>1. IsFiniteSet(S) /\ Cardinality(S) = M /\ Cardinality(T) = N
    BY FS_Interval
  <2>2. to \in Bijection(S, T)
    BY <1>4, <1>6, <1>7 DEF Bijection, Injection, Surjection, IsInjective
  <2> HIDE DEF S, T
  <2>3. Cardinality(T) = Cardinality(S)
    BY <2>1, <2>2, FS_Bijection DEF ExistsBijection
  <2> QED BY <2>1, <2>3
<1> QED BY <1>3, <1>8, <1>9

\* What folders and archives may ever hold, what is found of the folders of a list, and what is read of them.
Contents == (UNION {{FirstDisk[f]} \cup MayHold[f] : f \in Folders}) \cup ArchiveTexts
Held == Contents \ {Gone, Broken}
Disks == [Folders -> Contents]
Finds ==
    [root : Folders, mod : {Core} \cup {c.mod : c \in Held}, version : {Gone} \cup {c.version : c \in Held},
     deps : {{}} \cup {c.deps : c \in Held}, enabled : BOOLEAN]
Told == {NoFiles} \cup {[has |-> c.has, skins |-> c.skins, errs |-> c.errs] : c \in Held}
Readings ==
    [root : Folders, mod : {Core} \cup {c.mod : c \in Held}, version : {Gone} \cup {c.version : c \in Held},
     deps : {{}} \cup {c.deps : c \in Held}, enabled : BOOLEAN,
     has : {t.has : t \in Told}, skins : {t.skins : t \in Told}, errs : {t.errs : t \in Told}]

LEMMA FilesAreTold ==
    ASSUME NEW folders \in Disks, NEW r \in Folders
    PROVE  FilesIn(folders, r) \in Told /\ (Readable(folders, r) => folders[r] \in Held)
<1>1. folders[r] \in Contents
  BY DEF Disks
<1>2. Readable(folders, r) => folders[r] \in Held
  BY <1>1 DEF Readable, Held
<1> QED BY <1>2 DEF FilesIn, Told

LEMMA FolderIsFound ==
    ASSUME NEW folders \in Disks, NEW r \in Folders, Readable(folders, r)
    PROVE  /\ SourceAt(folders, r) \in Finds
           /\ [SourceAt(folders, r) EXCEPT !.enabled = TRUE] \in Finds
           /\ [SourceAt(folders, r) EXCEPT !.enabled = TRUE].enabled
<1>1. folders[r] \in Held
  BY FilesAreTold
<1>2. (folders[r].mod \in EnabledMods) \in BOOLEAN
  OBVIOUS
<1> QED BY <1>1, <1>2 DEF SourceAt, Finds

LEMMA ReadIsReading ==
    ASSUME NEW m \in Finds, NEW t \in Told
    PROVE  /\ Over(m, t) \in Readings
           /\ Over(m, t).root = m.root /\ Over(m, t).mod = m.mod /\ Over(m, t).enabled = m.enabled
           /\ Over(m, t).has = t.has /\ Over(m, t).skins = t.skins
<1> DEFINE five == {"root", "mod", "version", "deps", "enabled"}
           all == {"root", "mod", "version", "deps", "enabled", "has", "skins", "errs"}
           both == Over(m, t)
<1>1. DOMAIN m = five /\ DOMAIN t = {"has", "skins", "errs"}
  BY DEF Finds, Told, NoFiles
<1>2. five \cup {"has", "skins", "errs"} = all
  OBVIOUS
<1>3. both = [x \in all |-> IF x \in five THEN m[x] ELSE t[x]]
  BY <1>1, <1>2 DEF Over
<1>4. /\ both.root = m.root /\ both.mod = m.mod /\ both.version = m.version /\ both.deps = m.deps /\ both.enabled = m.enabled
      /\ both.has = t.has /\ both.skins = t.skins /\ both.errs = t.errs
  BY <1>3
<1>5. both = [root |-> m.root, mod |-> m.mod, version |-> m.version, deps |-> m.deps, enabled |-> m.enabled,
              has |-> t.has, skins |-> t.skins, errs |-> t.errs]
  <2> HIDE DEF both
  <2>1. DOMAIN both = all
    BY <1>3
  <2> QED BY <1>3, <1>4, <2>1
<1>6. both \in Readings
  <2> HIDE DEF both
  <2> QED BY <1>5 DEF Finds, Readings
<1> QED BY <1>4, <1>6

LEMMA ReadingIsFound ==
    ASSUME NEW s \in Readings
    PROVE  LET m == Restrict(s, {"root", "mod", "version", "deps", "enabled"})
           IN m \in Finds /\ m.root = s.root /\ m.mod = s.mod /\ m.enabled = s.enabled
<1> DEFINE m == Restrict(s, {"root", "mod", "version", "deps", "enabled"})
<1>1. m = [x \in {"root", "mod", "version", "deps", "enabled"} |-> s[x]]
  BY DEF Restrict
<1>2. m.root = s.root /\ m.mod = s.mod /\ m.version = s.version /\ m.deps = s.deps /\ m.enabled = s.enabled
  BY <1>1
<1>3. m = [root |-> s.root, mod |-> s.mod, version |-> s.version, deps |-> s.deps, enabled |-> s.enabled]
  <2> HIDE DEF m
  <2> QED BY <1>1, <1>2
<1>4. m \in Finds
  <2> HIDE DEF m
  <2> QED BY <1>3 DEF Finds, Readings
<1> QED BY <1>2, <1>4

\* Some of the members of a list, in its order.
LEMMA SiftedIsList ==
    ASSUME NEW S, NEW seq \in Seq(S), NEW P \in SUBSET DOMAIN seq
    PROVE  /\ Sifted(seq, P) \in Seq(S) /\ DOMAIN Sifted(seq, P) = 1..Cardinality(P) /\ Cardinality(P) \in Nat
           /\ \E place : SiftedBy(place, seq, P)
           /\ \A n \in DOMAIN Sifted(seq, P) : \E i \in P : Sifted(seq, P)[n] = seq[i]
<1> DEFINE N == Cardinality(P)
           out == Sifted(seq, P)
<1>1. P \subseteq Nat /\ IsFiniteSet(P)
  <2>1. DOMAIN seq = 1..Len(seq) /\ Len(seq) \in Nat
    OBVIOUS
  <2>2. IsFiniteSet(DOMAIN seq)
    BY <2>1, FS_Interval
  <2> QED BY <2>1, <2>2, FS_Subset
<1>2. N \in Nat
  BY <1>1, FS_CardinalityType
<1>3. PICK place : SiftedBy(place, seq, P)
  BY <1>1, SiftedTakesAll
<1>4. place \in [1..N -> P] /\ out = [n \in 1..N |-> seq[place[n]]]
  BY <1>3 DEF SiftedBy
<1> HIDE DEF N, out
<1>5. \A n \in 1..N : place[n] \in P /\ seq[place[n]] \in S
  BY <1>4
<1>6. out \in [1..N -> S]
  BY <1>4, <1>5
<1>7. out \in Seq(S) /\ DOMAIN out = 1..N
  BY <1>2, <1>6
<1>8. \A n \in DOMAIN out : \E i \in P : out[n] = seq[i]
  BY <1>4, <1>5
<1> QED BY <1>2, <1>3, <1>7, <1>8 DEF N, out

LEMMA FoundAreFinds ==
    ASSUME FoldersAssumption, NEW folders \in Disks, NEW extra \in Seq(Folders)
    PROVE  DiscoverSources(folders, extra) \in Seq(Finds)
<1> DEFINE core == [root |-> GameRoot, mod |-> Core, version |-> Gone, deps |-> {}, enabled |-> TRUE]
           there == Sifted(InstalledRoots, {i \in DOMAIN InstalledRoots : Readable(folders, InstalledRoots[i])})
           here == Sifted(extra, {i \in DOMAIN extra : Readable(folders, extra[i])})
           found == [i \in DOMAIN there |-> SourceAt(folders, there[i])]
           added == [i \in DOMAIN here |-> [SourceAt(folders, here[i]) EXCEPT !.enabled = TRUE]]
<1>1. InstalledRoots \in Seq(Folders) /\ GameRoot \in Folders
  BY DEF FoldersAssumption
<1>2. ASSUME NEW roots \in Seq(Folders), NEW list, list = Sifted(roots, {i \in DOMAIN roots : Readable(folders, roots[i])})
      PROVE  /\ list \in Seq(Folders)
             /\ \A n \in DOMAIN list : list[n] \in Folders /\ Readable(folders, list[n])
  <2> DEFINE P == {i \in DOMAIN roots : Readable(folders, roots[i])}
  <2>1. P \in SUBSET DOMAIN roots /\ \A i \in P : roots[i] \in Folders /\ Readable(folders, roots[i])
    OBVIOUS
  <2>2. list = Sifted(roots, P)
    BY <1>2
  <2> HIDE DEF P
  <2> QED BY <2>1, <2>2, SiftedIsList
<1>3. /\ there \in Seq(Folders) /\ \A n \in DOMAIN there : there[n] \in Folders /\ Readable(folders, there[n])
      /\ here \in Seq(Folders) /\ \A n \in DOMAIN here : here[n] \in Folders /\ Readable(folders, here[n])
  BY <1>1, <1>2
<1>4. core \in Finds
  BY <1>1 DEF Finds
<1> HIDE DEF there, here, core
<1>5. found \in Seq(Finds)
  <2>1. \A n \in DOMAIN there : SourceAt(folders, there[n]) \in Finds
    BY <1>3, FolderIsFound
  <2> QED BY <1>3, <2>1
<1>6. added \in Seq(Finds)
  <2>1. \A n \in DOMAIN here : [SourceAt(folders, here[n]) EXCEPT !.enabled = TRUE] \in Finds
    BY <1>3, FolderIsFound
  <2> QED BY <1>3, <2>1
<1>7. DiscoverSources(folders, extra) = <<core>> \o found \o added
  BY DEF DiscoverSources, core, there, here
<1> HIDE DEF found, added
<1> QED BY <1>4, <1>5, <1>6, <1>7

\* The sources read of a list are of its enabled members, in its order.
Drawn(place, mods, sources) ==
    /\ place \in [DOMAIN sources -> DOMAIN mods]
    /\ \A i \in DOMAIN mods : mods[i].enabled <=> \E n \in DOMAIN sources : place[n] = i
    /\ \A m, n \in DOMAIN sources : m < n => place[m] < place[n]
    /\ \A n \in DOMAIN sources : sources[n].root = mods[place[n]].root /\ sources[n].mod = mods[place[n]].mod
InLine(mods, sources) ==
    mods \in Seq(Finds) /\ sources \in Seq(Readings) /\ \E place : Drawn(place, mods, sources)

LEMMA AllAreRead ==
    ASSUME NEW folders \in Disks, NEW mods \in Seq(Finds), NEW sources, sources = ReadAll(folders, mods)
    PROVE  /\ sources \in Seq(Readings) /\ DOMAIN sources = DOMAIN mods
           /\ \A n \in DOMAIN mods :
                 /\ sources[n].root = mods[n].root /\ sources[n].mod = mods[n].mod /\ sources[n].enabled = mods[n].enabled
                 /\ sources[n].has = FilesIn(folders, mods[n].root).has /\ sources[n].skins = FilesIn(folders, mods[n].root).skins
<1>1. sources = [n \in DOMAIN mods |-> Over(mods[n], FilesIn(folders, mods[n].root))]
  BY DEF ReadAll
<1>2. \A n \in DOMAIN mods : mods[n] \in Finds /\ FilesIn(folders, mods[n].root) \in Told
  <2> TAKE n \in DOMAIN mods
  <2>1. mods[n] \in Finds
    OBVIOUS
  <2>2. mods[n].root \in Folders
    BY <2>1 DEF Finds
  <2> QED BY <2>1, <2>2, FilesAreTold
<1>3. \A n \in DOMAIN mods :
         /\ sources[n] \in Readings
         /\ sources[n].root = mods[n].root /\ sources[n].mod = mods[n].mod /\ sources[n].enabled = mods[n].enabled
         /\ sources[n].has = FilesIn(folders, mods[n].root).has /\ sources[n].skins = FilesIn(folders, mods[n].root).skins
  <2> TAKE n \in DOMAIN mods
  <2>1. mods[n] \in Finds /\ FilesIn(folders, mods[n].root) \in Told
    BY <1>2
  <2>2. sources[n] = Over(mods[n], FilesIn(folders, mods[n].root))
    BY <1>1
  <2> QED BY <2>1, <2>2, ReadIsReading
<1>4. DOMAIN sources = DOMAIN mods /\ DOMAIN mods = 1..Len(mods) /\ Len(mods) \in Nat
  BY <1>1
<1>5. sources \in [1..Len(mods) -> Readings]
  BY <1>1, <1>3, <1>4
<1> QED BY <1>3, <1>4, <1>5

LEMMA ScanIsInLine ==
    ASSUME NEW folders \in Disks, NEW mods \in Seq(Finds)
    PROVE  InLine(mods, ReadAll(folders, ToScan(mods)))
<1> DEFINE P == {i \in DOMAIN mods : mods[i].enabled}
           list == ToScan(mods)
           sources == ReadAll(folders, list)
           N == Cardinality(P)
<1>1. P \in SUBSET DOMAIN mods /\ \A i \in DOMAIN mods : i \in P <=> mods[i].enabled
  OBVIOUS
<1>2. list = Sifted(mods, P)
  BY DEF ToScan
<1> HIDE DEF P, list
<1>3. PICK place : SiftedBy(place, mods, P)
  BY <1>1, SiftedIsList
<1>4. list \in Seq(Finds) /\ DOMAIN list = 1..N
  BY <1>1, <1>2, SiftedIsList
<1>5. /\ place \in [1..N -> P] /\ list = [n \in 1..N |-> mods[place[n]]]
      /\ \A m, n \in 1..N : m < n => place[m] < place[n]
      /\ \A i \in P : \E n \in 1..N : place[n] = i
  BY <1>2, <1>3 DEF SiftedBy
<1> HIDE DEF N, sources
<1>6. /\ sources \in Seq(Readings) /\ DOMAIN sources = 1..N
      /\ \A n \in 1..N : sources[n].root = list[n].root /\ sources[n].mod = list[n].mod
  <2>1. sources = ReadAll(folders, list)
    BY DEF sources
  <2> PICK l : l = list
    OBVIOUS
  <2> PICK r : r = sources
    OBVIOUS
  <2>2. folders \in Disks /\ l \in Seq(Finds) /\ r = ReadAll(folders, l)
    BY <1>4, <2>1
  <2>3. /\ r \in Seq(Readings) /\ DOMAIN r = DOMAIN l
        /\ \A n \in DOMAIN l : r[n].root = l[n].root /\ r[n].mod = l[n].mod
    BY ONLY <2>2, AllAreRead
  <2> QED BY <1>4, <2>3
<1>7. Drawn(place, mods, sources)
  BY <1>1, <1>5, <1>6 DEF Drawn
<1> QED BY <1>6, <1>7 DEF InLine, sources, list

LEMMA MergeIsInLine ==
    ASSUME NEW mods, NEW sources, InLine(mods, sources), NEW added \in Seq(Readings), \A i \in DOMAIN added : added[i].enabled
    PROVE  InLine(mods \o [i \in DOMAIN added |-> Restrict(added[i], {"root", "mod", "version", "deps", "enabled"})], sources \o added)
<1> DEFINE new == [i \in DOMAIN added |-> Restrict(added[i], {"root", "mod", "version", "deps", "enabled"})]
           M == Len(mods)
           N == Len(sources)
           K == Len(added)
<1>1. PICK place : Drawn(place, mods, sources)
  BY DEF InLine
<1>2. mods \in Seq(Finds) /\ sources \in Seq(Readings)
  BY DEF InLine
<1>3. M \in Nat /\ N \in Nat /\ K \in Nat /\ DOMAIN mods = 1..M /\ DOMAIN sources = 1..N /\ DOMAIN added = 1..K
  BY <1>2
<1>4. \A i \in 1..K : new[i] \in Finds /\ new[i].root = added[i].root /\ new[i].mod = added[i].mod /\ new[i].enabled
  <2> TAKE i \in 1..K
  <2>1. added[i] \in Readings /\ added[i].enabled
    BY <1>3
  <2>2. new[i] = Restrict(added[i], {"root", "mod", "version", "deps", "enabled"})
    BY <1>3
  <2> QED BY <2>1, <2>2, ReadingIsFound
<1>5. new \in [1..K -> Finds]
  BY <1>3, <1>4
<1> HIDE DEF new
<1>6. new \in Seq(Finds) /\ Len(new) = K
  BY <1>3, <1>5
<1> DEFINE both == mods \o new
           all == sources \o added
           to == [n \in 1..N + K |-> IF n <= N THEN place[n] ELSE M + (n - N)]
<1>7. /\ both \in Seq(Finds) /\ DOMAIN both = 1..M + K
      /\ \A i \in 1..M : both[i] = mods[i]
      /\ \A i \in 1..K : both[M + i] = new[i]
  <2>1. both \in Seq(Finds) /\ Len(both) = M + Len(new) /\ DOMAIN both = 1..Len(both)
    BY <1>2, <1>6
  <2>2. \A i \in 1..M : both[i] = mods[i]
    BY <1>2, <1>6
  <2>3. \A i \in 1..Len(new) : both[M + i] = new[i]
    BY <1>2, <1>6
  <2> QED BY <1>6, <2>1, <2>2, <2>3
<1>8. /\ all \in Seq(Readings) /\ DOMAIN all = 1..N + K
      /\ \A i \in 1..N : all[i] = sources[i]
      /\ \A i \in 1..K : all[N + i] = added[i]
  BY <1>2, <1>3
<1> HIDE DEF both, all
<1>9. /\ \A n \in 1..N : place[n] \in 1..M
      /\ \A i \in 1..M : mods[i].enabled <=> \E n \in 1..N : place[n] = i
      /\ \A m, n \in 1..N : m < n => place[m] < place[n]
      /\ \A n \in 1..N : sources[n].root = mods[place[n]].root /\ sources[n].mod = mods[place[n]].mod
  BY <1>1, <1>3 DEF Drawn
<1> HIDE DEF M, N, K
<1>10. \A n \in 1..N + K : n \in 1..N \/ \E i \in 1..K : n = N + i
  <2> TAKE n \in 1..N + K
  <2>1. n \in 1..N \/ (n - N \in 1..K /\ n = N + (n - N))
    BY <1>3
  <2> QED BY <2>1
<1>11. /\ \A n \in 1..N : to[n] = place[n] /\ n \in 1..N + K
       /\ \A i \in 1..K : to[N + i] = M + i /\ N + i \in 1..N + K
  BY <1>3
<1> HIDE DEF to
<1>12. \A i \in 1..M + K : i \in 1..M \/ \E j \in 1..K : i = M + j
  <2> TAKE i \in 1..M + K
  <2>1. i \in 1..M \/ (i - M \in 1..K /\ i = M + (i - M))
    BY <1>3
  <2> QED BY <2>1
<1>13. \A n \in 1..N + K : to[n] \in 1..M + K /\ all[n].root = both[to[n]].root /\ all[n].mod = both[to[n]].mod
  <2>1. \A n \in 1..N : to[n] \in 1..M + K /\ all[n].root = both[to[n]].root /\ all[n].mod = both[to[n]].mod
    <3> TAKE n \in 1..N
    <3>1. to[n] = place[n] /\ place[n] \in 1..M /\ all[n] = sources[n] /\ both[place[n]] = mods[place[n]]
      BY <1>7, <1>8, <1>9, <1>11
    <3>2. place[n] \in 1..M + K
      BY <1>3, <3>1
    <3> QED BY <1>9, <3>1, <3>2
  <2>2. \A i \in 1..K : to[N + i] \in 1..M + K /\ all[N + i].root = both[to[N + i]].root /\ all[N + i].mod = both[to[N + i]].mod
    <3> TAKE i \in 1..K
    <3>1. to[N + i] = M + i /\ all[N + i] = added[i] /\ both[M + i] = new[i]
      BY <1>7, <1>8, <1>11
    <3>2. M + i \in 1..M + K
      BY <1>3
    <3> QED BY <1>4, <3>1, <3>2
  <2> QED BY <1>10, <2>1, <2>2
<1>14. \A i \in 1..M + K : both[i].enabled <=> \E n \in 1..N + K : to[n] = i
  <2> TAKE i \in 1..M + K
  <2>1. CASE i \in 1..M
    <3>1. both[i] = mods[i]
      BY <1>7, <2>1
    <3>2. ASSUME NEW n \in 1..N + K, to[n] = i PROVE n \in 1..N /\ place[n] = i
      <4>1. \A j \in 1..K : M + j # i
        BY <1>3, <2>1
      <4> QED BY <1>10, <1>11, <3>2, <4>1
    <3> QED BY <1>9, <1>11, <2>1, <3>1, <3>2
  <2>2. CASE i \notin 1..M
    <3>1. PICK j \in 1..K : i = M + j
      BY <1>12, <2>2
    <3> QED BY <1>4, <1>7, <1>11, <3>1
  <2> QED BY <2>1, <2>2
<1>15. \A m, n \in 1..N + K : m < n => to[m] < to[n]
  <2> SUFFICES ASSUME NEW m \in 1..N + K, NEW n \in 1..N + K, m < n PROVE to[m] < to[n]
    OBVIOUS
  <2>1. CASE n \in 1..N
    <3>1. m \in 1..N
      BY <1>3, <2>1
    <3> QED BY <1>9, <1>11, <2>1, <3>1
  <2>2. CASE n \notin 1..N /\ m \in 1..N
    <3>1. PICK i \in 1..K : n = N + i
      BY <1>10, <2>2
    <3>2. to[m] \in 1..M /\ to[n] = M + i
      BY <1>9, <1>11, <2>2, <3>1
    <3> QED BY <1>3, <3>2
  <2>3. CASE n \notin 1..N /\ m \notin 1..N
    <3>1. PICK i \in 1..K : n = N + i
      BY <1>10, <2>3
    <3>2. PICK j \in 1..K : m = N + j
      BY <1>10, <2>3
    <3>3. to[m] = M + j /\ to[n] = M + i
      BY <1>11, <3>1, <3>2
    <3> QED BY <1>3, <3>1, <3>2, <3>3
  <2> QED BY <2>1, <2>2, <2>3
<1>16. to \in [1..N + K -> 1..M + K]
  BY <1>13 DEF to
<1>17. Drawn(to, both, all)
  BY <1>7, <1>8, <1>13, <1>14, <1>15, <1>16 DEF Drawn
<1> QED BY <1>7, <1>8, <1>17 DEF InLine, both, all, new

\* A hull that one alone of the first sources declares, and the ids of skins.
Bears(sources, i, base) == base \in DOMAIN sources[i].has["hulls"]
AloneAmong(sources, n, base) == \E i \in 1..n : Bears(sources, i, base) /\ \A j \in 1..n : Bears(sources, j, base) => j = i
SkinIds(sources) == UNION {{k.id : k \in s.skins} : s \in ToSet(sources)}

\* A skin was made when its base was declared once, and left when it was not, or its base is made of a skin itself.
SkinsHold(sources, resolved) ==
    /\ \A k \in resolved : \E q \in PendingSkins(sources, 0) :
          /\ q.id = k.id /\ q.root = k.root /\ q.id # Gone
          /\ q.base \in SkinIds(sources) \/ \E n \in q.at..Len(sources) : AloneAmong(sources, n, q.base)
    /\ \A q \in PendingSkins(sources, 0) :
          \/ q.id = Gone \/ q.base \in SkinIds(sources)
          \/ \E k \in resolved : k.id = q.id /\ k.root = q.root
          \/ \E n \in q.at..Len(sources) : ~AloneAmong(sources, n, q.base)

HullClaim(sources, i, base) ==
    [id |-> base, at |-> i, mod |-> sources[i].mod, root |-> sources[i].root, what |-> sources[i].has["hulls"][base]]

LEMMA HullClaims ==
    ASSUME NEW sources, NEW base
    PROVE  OfId(Claimed(sources, "hulls"), base) = {HullClaim(sources, i, base) : i \in {j \in DOMAIN sources : Bears(sources, j, base)}}
<1> DEFINE claim(i, x) == [id |-> x, at |-> i, mod |-> sources[i].mod, root |-> sources[i].root, what |-> sources[i].has["hulls"][x]]
<1>1. \A c : c \in Claimed(sources, "hulls") <=> \E i \in DOMAIN sources : \E x \in DOMAIN sources[i].has["hulls"] : c = claim(i, x)
  BY DEF Claimed
<1>2. \A i, x : claim(i, x).id = x /\ HullClaim(sources, i, x) = claim(i, x)
  BY DEF HullClaim
<1> HIDE DEF claim
<1> QED BY <1>1, <1>2 DEF OfId, Bears

LEMMA SoleIsAlone ==
    ASSUME NEW sources, NEW N \in Nat, DOMAIN sources = 1..N, NEW base
    PROVE  Sole(Claimed(sources, "hulls"), base) <=> AloneAmong(sources, N, base)
<1> DEFINE J == {j \in 1..N : Bears(sources, j, base)}
           C == {HullClaim(sources, i, base) : i \in J}
<1>1. OfId(Claimed(sources, "hulls"), base) = C
  BY HullClaims
<1>2. \A i, j : HullClaim(sources, i, base) = HullClaim(sources, j, base) => i = j
  <2>1. \A i : HullClaim(sources, i, base).at = i
    BY DEF HullClaim
  <2> QED BY <2>1
<1>3. IsFiniteSet(J)
  <2>1. IsFiniteSet(1..N) /\ J \subseteq 1..N
    BY FS_Interval
  <2> HIDE DEF J
  <2> QED BY <2>1, FS_Subset
<1>4. IsFiniteSet(C)
  <2> DEFINE f == [i \in J |-> HullClaim(sources, i, base)]
  <2>1. C = {f[i] : i \in J}
    OBVIOUS
  <2> HIDE DEF C, J, f
  <2> QED BY <1>3, <2>1, ImageIsFinite
<1>5. Cardinality(C) = 1 <=> \E c : C = {c}
  <2> HIDE DEF C
  <2> QED BY <1>4, FS_Singleton
<1>6. (\E c : C = {c}) <=> \E i \in J : \A j \in J : j = i
  <2>1. ASSUME NEW c, C = {c} PROVE \E i \in J : \A j \in J : j = i
    <3>1. PICK i \in J : c = HullClaim(sources, i, base)
      BY <2>1
    <3>2. \A j \in J : HullClaim(sources, j, base) = c
      BY <2>1
    <3> QED BY <1>2, <3>1, <3>2
  <2>2. ASSUME NEW i \in J, \A j \in J : j = i PROVE C = {HullClaim(sources, i, base)}
    BY <2>2
  <2> QED BY <2>1, <2>2
<1> QED BY <1>1, <1>5, <1>6 DEF Sole, AloneAmong

\* What waits in the sources of a merge, and in those that it adds to.
LEMMA PendingAppends ==
    ASSUME NEW S, NEW old \in Seq(S), NEW new \in Seq(S)
    PROVE  /\ PendingSkins(old \o new, 0) = PendingSkins(old, 0) \cup PendingSkins(new, Len(old))
           /\ \A q \in PendingSkins(old, 0) : q.at \in 1..Len(old)
           /\ \A q \in PendingSkins(new, Len(old)) : q.at \in 1..Len(old) + Len(new)
           /\ \A q \in PendingSkins(old \o new, 0) : q.id \in SkinIds(old \o new)
           /\ SkinIds(old) \subseteq SkinIds(old \o new)
<1> DEFINE all == old \o new
           N == Len(old)
           K == Len(new)
           wait(s, k, at) == [id |-> k.id, base |-> k.base, changes |-> k.changes, at |-> at, mod |-> s.mod, root |-> s.root]
<1>1. N \in Nat /\ K \in Nat /\ DOMAIN old = 1..N /\ DOMAIN new = 1..K /\ DOMAIN all = 1..N + K
  OBVIOUS
<1>2. (\A i \in 1..N : all[i] = old[i]) /\ \A i \in 1..K : all[N + i] = new[i]
  OBVIOUS
<1>3. \A q : q \in PendingSkins(old, 0) <=> \E i \in 1..N : \E k \in old[i].skins : q = wait(old[i], k, 0 + i)
  BY <1>1 DEF PendingSkins
<1>4. \A q : q \in PendingSkins(new, N) <=> \E i \in 1..K : \E k \in new[i].skins : q = wait(new[i], k, N + i)
  BY <1>1 DEF PendingSkins
<1>5. \A q : q \in PendingSkins(all, 0) <=> \E i \in 1..N + K : \E k \in all[i].skins : q = wait(all[i], k, 0 + i)
  <2> HIDE DEF all, N, K
  <2> QED BY <1>1 DEF PendingSkins
<1>6. \A x : x \in SkinIds(old) <=> \E i \in 1..N : \E k \in old[i].skins : x = k.id
  BY <1>1 DEF SkinIds, ToSet
<1>7. \A x : x \in SkinIds(all) <=> \E i \in 1..N + K : \E k \in all[i].skins : x = k.id
  <2> HIDE DEF all, N, K
  <2> QED BY <1>1 DEF SkinIds, ToSet
<1>8. \A s, k, at : wait(s, k, at).id = k.id /\ wait(s, k, at).at = at
  OBVIOUS
<1> HIDE DEF all, wait, N, K
<1>9. \A n \in 1..N + K : n \in 1..N \/ \E i \in 1..K : n = N + i
  <2> TAKE n \in 1..N + K
  <2>1. n \in 1..N \/ (n - N \in 1..K /\ n = N + (n - N))
    BY <1>1
  <2> QED BY <2>1
<1>10. (\A n \in 1..N : n \in 1..N + K /\ 0 + n = n) /\ \A i \in 1..K : N + i \in 1..N + K /\ 0 + (N + i) = N + i
  BY <1>1
<1>11. ASSUME NEW q PROVE q \in PendingSkins(all, 0) <=> q \in PendingSkins(old, 0) \/ q \in PendingSkins(new, N)
  <2>1. ASSUME NEW i \in 1..N + K, NEW k \in all[i].skins, q = wait(all[i], k, 0 + i)
        PROVE  q \in PendingSkins(old, 0) \/ q \in PendingSkins(new, N)
    <3>1. CASE i \in 1..N
      BY <1>2, <1>3, <2>1, <3>1
    <3>2. CASE i \notin 1..N
      <4>1. PICK j \in 1..K : i = N + j
        BY <1>9, <3>2
      <4>2. all[i] = new[j] /\ 0 + i = N + j
        BY <1>2, <1>10, <4>1
      <4> QED BY <1>4, <2>1, <4>2
    <3> QED BY <3>1, <3>2
  <2>2. ASSUME NEW i \in 1..N, NEW k \in old[i].skins, q = wait(old[i], k, 0 + i) PROVE q \in PendingSkins(all, 0)
    BY <1>2, <1>5, <1>10, <2>2
  <2>3. ASSUME NEW i \in 1..K, NEW k \in new[i].skins, q = wait(new[i], k, N + i) PROVE q \in PendingSkins(all, 0)
    BY <1>2, <1>5, <1>10, <2>3
  <2> QED BY <1>3, <1>4, <1>5, <2>1, <2>2, <2>3
<1>12. PendingSkins(all, 0) = PendingSkins(old, 0) \cup PendingSkins(new, N)
  BY <1>11
<1>13. /\ \A q \in PendingSkins(old, 0) : q.at \in 1..N
       /\ \A q \in PendingSkins(new, N) : q.at \in 1..N + K
       /\ \A q \in PendingSkins(all, 0) : q.id \in SkinIds(all)
  BY <1>3, <1>4, <1>5, <1>7, <1>8, <1>10
<1>14. SkinIds(old) \subseteq SkinIds(all)
  BY <1>2, <1>6, <1>7, <1>10
<1> QED BY <1>12, <1>13, <1>14 DEF all, N, K

LEMMA SkinsAreMade ==
    ASSUME NEW hulls, NEW W, NEW resolved, resolved = SkinsMade(hulls, W)
    PROVE  /\ \A k \in resolved : \E q \in W : q.id = k.id /\ q.root = k.root /\ q.id # Gone /\ Sole(hulls, q.base)
           /\ \A q \in W : q.id # Gone /\ Sole(hulls, q.base) => \E k \in resolved : k.id = q.id /\ k.root = q.root
<1> DEFINE as(p) == [id |-> p.id, at |-> p.at, mod |-> p.mod, root |-> p.root,
                     what |-> FromSkin((CHOOSE h \in OfId(hulls, p.base) : TRUE).what, p.changes)]
<1>1. \A k : k \in resolved <=> \E p \in W : p.id # Gone /\ Sole(hulls, p.base) /\ k = as(p)
  BY DEF SkinsMade
<1>2. \A p : as(p).id = p.id /\ as(p).root = p.root
  OBVIOUS
<1> HIDE DEF as
<1>3. ASSUME NEW k \in resolved PROVE \E q \in W : q.id = k.id /\ q.root = k.root /\ q.id # Gone /\ Sole(hulls, q.base)
  <2>1. PICK q \in W : q.id # Gone /\ Sole(hulls, q.base) /\ k = as(q)
    BY <1>1
  <2> QED BY <1>2, <2>1
<1>4. ASSUME NEW q \in W, q.id # Gone, Sole(hulls, q.base) PROVE \E k \in resolved : k.id = q.id /\ k.root = q.root
  BY <1>1, <1>2, <1>4
<1> QED BY <1>3, <1>4

\* A merge keeps what is said of the skins: what it adds makes no earlier base alone or not.
LEMMA MergeHolds ==
    ASSUME NEW old \in Seq(Readings), NEW new \in Seq(Readings), NEW resolved, SkinsHold(old, resolved), NEW hulls,
           hulls = Claimed(old \o new, "hulls") \cup resolved
    PROVE  SkinsHold(old \o new, resolved \cup SkinsMade(hulls, PendingSkins(new, Len(old))))
<1> DEFINE all == old \o new
           N == Len(old)
           K == Len(new)
           W == PendingSkins(new, N)
           more == SkinsMade(hulls, W)
<1>1. N \in Nat /\ K \in Nat /\ all \in Seq(Readings) /\ Len(all) = N + K /\ DOMAIN all = 1..N + K /\ \A i \in 1..N : all[i] = old[i]
  OBVIOUS
<1>2. /\ PendingSkins(all, 0) = PendingSkins(old, 0) \cup PendingSkins(new, N)
      /\ \A q \in PendingSkins(old, 0) : q.at \in 1..N
      /\ \A q \in PendingSkins(new, N) : q.at \in 1..N + K
      /\ \A q \in PendingSkins(all, 0) : q.id \in SkinIds(all)
      /\ SkinIds(old) \subseteq SkinIds(all)
  BY PendingAppends
<1> HIDE DEF all, N, K
<1>3. ASSUME NEW base PROVE \A n \in 1..N : AloneAmong(all, n, base) <=> AloneAmong(old, n, base)
  <2> TAKE n \in 1..N
  <2>1. \A i \in 1..n : i \in 1..N
    BY <1>1
  <2>2. \A i \in 1..n : Bears(all, i, base) <=> Bears(old, i, base)
    BY <1>1, <2>1 DEF Bears
  <2> QED BY <2>2 DEF AloneAmong
<1>4. \A q \in PendingSkins(old, 0) : \A n \in q.at..N : n \in q.at..N + K /\ n \in 1..N
  BY <1>1, <1>2
<1>5. \A q \in PendingSkins(new, N) : N + K \in q.at..N + K
  BY <1>1, <1>2
<1>6. \A k \in resolved : k.id \in SkinIds(all)
  <2> TAKE k \in resolved
  <2>1. PICK q \in PendingSkins(old, 0) : q.id = k.id
    BY DEF SkinsHold
  <2> QED BY <1>2, <2>1
<1>7. ASSUME NEW base, base \notin SkinIds(all) PROVE Sole(hulls, base) <=> AloneAmong(all, N + K, base)
  <2>1. hulls = Claimed(all, "hulls") \cup resolved
    BY DEF all
  <2>2. OfId(hulls, base) = OfId(Claimed(all, "hulls"), base)
    BY <1>6, <1>7, <2>1 DEF OfId
  <2>3. N + K \in Nat
    BY <1>1
  <2> QED BY <1>1, <2>2, <2>3, SoleIsAlone DEF Sole
<1>8. /\ \A k \in more : \E q \in PendingSkins(new, N) : q.id = k.id /\ q.root = k.root /\ q.id # Gone /\ Sole(hulls, q.base)
      /\ \A q \in PendingSkins(new, N) : q.id # Gone /\ Sole(hulls, q.base) => \E k \in more : k.id = q.id /\ k.root = q.root
  <2> HIDE DEF W, more
  <2>1. more = SkinsMade(hulls, W)
    BY DEF more
  <2>2. /\ \A k \in more : \E q \in W : q.id = k.id /\ q.root = k.root /\ q.id # Gone /\ Sole(hulls, q.base)
        /\ \A q \in W : q.id # Gone /\ Sole(hulls, q.base) => \E k \in more : k.id = q.id /\ k.root = q.root
    <3> PICK wait : wait = W
      OBVIOUS
    <3> PICK done : done = more
      OBVIOUS
    <3>1. done = SkinsMade(hulls, wait)
      BY <2>1
    <3>2. /\ \A k \in done : \E q \in wait : q.id = k.id /\ q.root = k.root /\ q.id # Gone /\ Sole(hulls, q.base)
          /\ \A q \in wait : q.id # Gone /\ Sole(hulls, q.base) => \E k \in done : k.id = q.id /\ k.root = q.root
      BY ONLY <3>1, SkinsAreMade
    <3> QED BY <3>2
  <2> QED BY <2>2 DEF W
<1> HIDE DEF W, more
<1>9. ASSUME NEW k \in resolved \cup more
       PROVE  \E q \in PendingSkins(all, 0) :
                 /\ q.id = k.id /\ q.root = k.root /\ q.id # Gone
                 /\ q.base \in SkinIds(all) \/ \E n \in q.at..N + K : AloneAmong(all, n, q.base)
  <2>1. CASE k \in resolved
    <3>1. PICK q \in PendingSkins(old, 0) :
             /\ q.id = k.id /\ q.root = k.root /\ q.id # Gone
             /\ q.base \in SkinIds(old) \/ \E n \in q.at..N : AloneAmong(old, n, q.base)
      BY <2>1 DEF SkinsHold, N
    <3> QED BY <1>2, <1>3, <1>4, <3>1
  <2>2. CASE k \in more
    <3>1. PICK q \in PendingSkins(new, N) : q.id = k.id /\ q.root = k.root /\ q.id # Gone /\ Sole(hulls, q.base)
      BY <1>8, <2>2
    <3> QED BY <1>2, <1>5, <1>7, <3>1
  <2> QED BY <2>1, <2>2
<1>10. ASSUME NEW q \in PendingSkins(all, 0)
       PROVE  \/ q.id = Gone \/ q.base \in SkinIds(all)
              \/ \E k \in resolved \cup more : k.id = q.id /\ k.root = q.root
              \/ \E n \in q.at..N + K : ~AloneAmong(all, n, q.base)
  <2>1. CASE q \in PendingSkins(old, 0)
    <3>1. \/ q.id = Gone \/ q.base \in SkinIds(old)
          \/ \E k \in resolved : k.id = q.id /\ k.root = q.root
          \/ \E n \in q.at..N : ~AloneAmong(old, n, q.base)
      BY <2>1 DEF SkinsHold, N
    <3> QED BY <1>2, <1>3, <1>4, <2>1, <3>1
  <2>2. CASE q \in PendingSkins(new, N)
    BY <1>5, <1>7, <1>8, <2>2
  <2> QED BY <1>2, <2>1, <2>2
<1>11. SkinsHold(all, resolved \cup more)
  BY <1>1, <1>9, <1>10 DEF SkinsHold
<1> QED BY <1>11 DEF all, N, more, W

\* A scan at hand: its sources are its enabled mods read, its skins made of what was read when they were.
Whole(s) == InLine(s.mods, s.sources) /\ SkinsHold(s.sources, s.skins)

LEMMA FullIsWhole ==
    ASSUME NEW folders \in Disks, NEW mods \in Seq(Finds)
    PROVE  Whole(FullScanOf(mods, ReadAll(folders, ToScan(mods))))
<1> DEFINE sources == ReadAll(folders, ToScan(mods))
           hulls == Claimed(sources, "hulls")
           none == << >>
           resolved == SkinsMade(hulls, PendingSkins(sources, 0))
<1>1. InLine(mods, sources)
  BY ScanIsInLine
<1> HIDE DEF sources
<1>2. sources \in Seq(Readings)
  BY <1>1 DEF InLine
<1>3. none \in Seq(Readings) /\ Len(none) = 0 /\ none \o sources = sources
  BY <1>2
<1>4. SkinsHold(none, {})
  BY DEF SkinsHold, PendingSkins
<1> HIDE DEF none
<1>5. hulls = Claimed(none \o sources, "hulls") \cup {}
  BY <1>3
<1> HIDE DEF hulls
<1>6. SkinsHold(none \o sources, {} \cup SkinsMade(hulls, PendingSkins(sources, Len(none))))
  BY <1>2, <1>3, <1>4, <1>5, MergeHolds
<1>7. SkinsHold(sources, resolved)
  BY <1>3, <1>6
<1>8. FullScanOf(mods, sources).mods = mods /\ FullScanOf(mods, sources).sources = sources /\ FullScanOf(mods, sources).skins = resolved
  BY DEF FullScanOf, hulls
<1> HIDE DEF resolved
<1> QED BY <1>1, <1>7, <1>8 DEF Whole, sources

LEMMA MergedIsWhole ==
    ASSUME NEW s, Whole(s), NEW added \in Seq(Readings), \A i \in DOMAIN added : added[i].enabled
    PROVE  Whole(Merged(s, added))
<1> DEFINE hulls == BaseHulls(s, added)
           next == Merged(s, added)
<1>1. InLine(s.mods \o [i \in DOMAIN added |-> Restrict(added[i], {"root", "mod", "version", "deps", "enabled"})], s.sources \o added)
  BY MergeIsInLine DEF Whole
<1>2. s.sources \in Seq(Readings) /\ SkinsHold(s.sources, s.skins)
  BY DEF Whole, InLine
<1>3. hulls = Claimed(s.sources \o added, "hulls") \cup s.skins
  BY DEF BaseHulls
<1> HIDE DEF hulls
<1>4. SkinsHold(s.sources \o added, s.skins \cup SkinsMade(hulls, PendingSkins(added, Len(s.sources))))
  BY <1>2, <1>3, MergeHolds
<1>5. /\ next.mods = s.mods \o [i \in DOMAIN added |-> Restrict(added[i], {"root", "mod", "version", "deps", "enabled"})]
      /\ next.sources = s.sources \o added
      /\ next.skins = s.skins \cup SkinsMade(hulls, PendingSkins(added, Len(s.sources)))
  BY DEF Merged, hulls
<1> HIDE DEF next
<1>6. Whole(next)
  BY <1>1, <1>4, <1>5 DEF Whole
<1> QED BY <1>6 DEF next

LEMMA MergeReads ==
    ASSUME disk \in Disks, NEW roots \in Seq(Folders)
    PROVE  MergeRead(roots) \in Seq(Readings) /\ \A i \in DOMAIN MergeRead(roots) : MergeRead(roots)[i].enabled
<1> DEFINE P == {i \in DOMAIN roots : Readable(disk, roots[i])}
           there == Sifted(roots, P)
           mods == [i \in DOMAIN there |-> [SourceAt(disk, there[i]) EXCEPT !.enabled = TRUE]]
           out == MergeRead(roots)
<1>1. P \in SUBSET DOMAIN roots /\ \A i \in P : roots[i] \in Folders /\ Readable(disk, roots[i])
  OBVIOUS
<1>2. out = ReadAll(disk, mods)
  BY DEF MergeRead
<1> HIDE DEF P
<1>3. there \in Seq(Folders) /\ \A n \in DOMAIN there : there[n] \in Folders /\ Readable(disk, there[n])
  BY <1>1, SiftedIsList
<1> HIDE DEF there
<1>4. \A n \in DOMAIN there : mods[n] \in Finds /\ mods[n].enabled
  BY <1>3, FolderIsFound
<1>5. mods \in Seq(Finds) /\ DOMAIN mods = DOMAIN there
  BY <1>3, <1>4
<1> HIDE DEF mods, out
<1>6. out \in Seq(Readings) /\ DOMAIN out = DOMAIN mods /\ \A n \in DOMAIN mods : out[n].enabled = mods[n].enabled
  BY <1>2, <1>5, AllAreRead
<1>7. \A n \in DOMAIN out : out[n].enabled
  BY <1>4, <1>5, <1>6
<1> QED BY <1>6, <1>7 DEF out

------------------------------------------------------------------------------
\* What a drop goes through: each item takes the folders and the lists to the next.
States == [disk : Disks, extras : Seq(Folders), added : Seq(Folders)]

LEMMA ListedIsState ==
    ASSUME NEW state \in States, NEW root \in Folders PROVE Listed(state, root) \in States
<1>1. Append(state.extras, root) \in Seq(Folders) /\ Append(state.added, root) \in Seq(Folders)
  BY DEF States
<1> QED BY <1>1 DEF Listed, States

LEMMA ItemKeepsState ==
    ASSUME DropsAssumption, zip \in [Archives -> ArchiveTexts], NEW state \in States, NEW item \in Archives \cup DOMAIN Wrapped
    PROVE  DropItem(state, item) \in States
<1>1. ASSUME item \in Archives PROVE Extracted(state, item) \in States /\ StemFolder[item] \in Folders
  <2>1. StemFolder[item] \in Folders /\ zip[item] \in Contents
    <3>1. zip[item] \in ArchiveTexts
      BY <1>1
    <3>2. StemFolder[item] \in Folders
      BY <1>1 DEF DropsAssumption
    <3>3. ArchiveTexts \subseteq Contents
      BY Zenon DEF Contents
    <3> QED BY <3>1, <3>2, <3>3
  <2>2. state.disk \in Disks
    BY DEF States
  <2>3. [state.disk EXCEPT ![StemFolder[item]] = zip[item]] \in Disks
    BY <2>1, <2>2 DEF Disks
  <2>4. Extracted(state, item) = [state EXCEPT !.disk = [state.disk EXCEPT ![StemFolder[item]] = zip[item]]]
    BY DEF Extracted, States
  <2> QED BY <2>1, <2>3, <2>4 DEF States
<1>2. ASSUME item \notin Archives PROVE Wrapped[item] \in Folders
  BY <1>2 DEF DropsAssumption
<1> QED BY <1>1, <1>2, ListedIsState DEF DropItem

\* A run of steps, each of its own kind, is: the recursion has a solution.
Ran(f, first, step, N) == \A n \in 0..N : f[n] = IF n = 0 THEN first ELSE step[<<n, f[n - 1]>>]

LEMMA RunExists ==
    ASSUME NEW D, NEW first \in D, NEW N \in Nat, NEW step \in [(1..N) \X D -> D]
    PROVE  \E f \in [0..N -> D] : Ran(f, first, step, N)
<1> DEFINE Bad == {n \in Nat : n <= N /\ ~\E f \in [0..n -> D] : Ran(f, first, step, n)}
<1> SUFFICES ASSUME Bad # {} PROVE FALSE
  OBVIOUS
<1>1. PICK m \in Bad : \A n \in Bad : m <= n
  <2>1. Bad \in SUBSET Nat
    OBVIOUS
  <2> HIDE DEF Bad
  <2> QED BY <2>1, LeastNatural
<1>2. m \in Nat /\ m <= N /\ ~\E f \in [0..m -> D] : Ran(f, first, step, m)
  OBVIOUS
<1>3. m # 0
  <2>1. [n \in 0..0 |-> first] \in [0..0 -> D] /\ Ran([n \in 0..0 |-> first], first, step, 0)
    BY DEF Ran
  <2> QED BY <1>2, <2>1
<1>4. m - 1 \in Nat /\ m - 1 \notin Bad /\ m - 1 <= N /\ m \in 1..N
  <2>1. m - 1 \in Nat /\ ~(m <= m - 1)
    BY <1>2, <1>3
  <2> HIDE DEF Bad
  <2> QED BY <1>1, <1>2, <1>3, <2>1
<1>5. PICK f \in [0..m - 1 -> D] : Ran(f, first, step, m - 1)
  BY <1>4
<1> HIDE DEF Bad
<1> DEFINE g == [n \in 0..m |-> IF n = m THEN step[<<m, f[m - 1]>>] ELSE f[n]]
<1>6. f[m - 1] \in D /\ <<m, f[m - 1]>> \in (1..N) \X D
  BY <1>4
<1>7. step[<<m, f[m - 1]>>] \in D
  BY <1>6
<1>8. \A n \in 0..m : n # m => n \in 0..m - 1 /\ (n # 0 => n - 1 \in 0..m - 1)
  BY <1>4
<1>9. g \in [0..m -> D]
  BY <1>7, <1>8
<1>10. Ran(g, first, step, m)
  <2> SUFFICES ASSUME NEW n \in 0..m PROVE g[n] = IF n = 0 THEN first ELSE step[<<n, g[n - 1]>>]
    BY DEF Ran
  <2>1. CASE n = m
    <3>1. g[n] = step[<<m, f[m - 1]>>] /\ g[m - 1] = f[m - 1]
      BY <1>2, <1>4, <2>1
    <3> QED BY <1>3, <2>1, <3>1
  <2>2. CASE n # m
    <3>1. n \in 0..m - 1 /\ g[n] = f[n]
      BY <1>8, <2>2
    <3>2. f[n] = IF n = 0 THEN first ELSE step[<<n, f[n - 1]>>]
      BY <1>5, <3>1 DEF Ran
    <3>3. n # 0 => g[n - 1] = f[n - 1]
      BY <1>2, <1>4, <3>1
    <3> QED BY <3>1, <3>2, <3>3
  <2> QED BY <2>1, <2>2
<1> HIDE DEF g
<1> QED BY <1>2, <1>9, <1>10

DroppedBy(h, start, items) == h = [n \in 0..Len(items) |-> IF n = 0 THEN start ELSE DropItem(h[n - 1], items[n])]

LEMMA DropKeepsState ==
    ASSUME DropsAssumption, zip \in [Archives -> ArchiveTexts], NEW start \in States, NEW items \in Seq(Archives \cup DOMAIN Wrapped)
    PROVE  Dropped(start, items) \in States
<1> DEFINE N == Len(items)
           step == [x \in (1..N) \X States |-> DropItem(x[2], items[x[1]])]
<1>1. N \in Nat /\ \A n \in 1..N : items[n] \in Archives \cup DOMAIN Wrapped
  OBVIOUS
<1>2. \A x \in (1..N) \X States : DropItem(x[2], items[x[1]]) \in States
  BY <1>1, ItemKeepsState
<1> HIDE DEF N
<1>3. step \in [(1..N) \X States -> States]
  BY <1>2
<1>4. \A n \in 1..N : \A s \in States : step[<<n, s>>] = DropItem(s, items[n])
  OBVIOUS
<1> HIDE DEF step
<1>5. PICK f \in [0..N -> States] : Ran(f, start, step, N)
  BY <1>1, <1>3, RunExists
<1>6. DroppedBy(f, start, items)
  <2>1. \A n \in 0..N : f[n] = IF n = 0 THEN start ELSE DropItem(f[n - 1], items[n])
    <3> TAKE n \in 0..N
    <3>1. CASE n = 0
      BY <1>5, <3>1 DEF Ran
    <3>2. CASE n # 0
      <4>1. n \in 1..N /\ n - 1 \in 0..N
        BY <1>1, <3>2
      <4>2. f[n - 1] \in States
        BY <4>1
      <4> QED BY <1>4, <1>5, <3>2, <4>1, <4>2 DEF Ran
    <3> QED BY <3>1, <3>2
  <2>2. f = [n \in 0..N |-> f[n]]
    OBVIOUS
  <2>3. f = [n \in 0..N |-> IF n = 0 THEN start ELSE DropItem(f[n - 1], items[n])]
    BY <2>1, <2>2, Zenon
  <2> QED BY <2>3 DEF DroppedBy, N
<1>7. Dropped(start, items) = (CHOOSE h : DroppedBy(h, start, items))[N]
  <2>1. Dropped(start, items) = (CHOOSE h : h = [n \in 0..Len(items) |-> IF n = 0 THEN start ELSE DropItem(h[n - 1], items[n])])[Len(items)]
    BY DEF Dropped
  <2> QED BY <2>1 DEF DroppedBy, N
<1>8. PICK h : h = CHOOSE g : DroppedBy(g, start, items)
  OBVIOUS
<1>9. DroppedBy(h, start, items)
  BY <1>6, <1>8
<1>10. \A n \in 0..N : h[n] = IF n = 0 THEN start ELSE DropItem(h[n - 1], items[n])
  BY <1>9 DEF DroppedBy, N
<1> DEFINE Bad == {n \in 0..N : h[n] \notin States}
<1>11. Bad = {}
  <2> SUFFICES ASSUME Bad # {} PROVE FALSE
    OBVIOUS
  <2>1. PICK m \in Bad : \A n \in Bad : m <= n
    <3>1. Bad \in SUBSET Nat
      OBVIOUS
    <3> HIDE DEF Bad
    <3> QED BY <3>1, LeastNatural
  <2>2. m \in 0..N /\ h[m] \notin States /\ m # 0
    BY <1>10
  <2>3. m - 1 \in 0..N /\ m \in 1..N /\ h[m - 1] \in States
    <3>1. m - 1 \in 0..N /\ m \in 1..N /\ ~(m <= m - 1)
      BY <1>1, <2>2
    <3> QED BY <2>1, <3>1
  <2>4. DropItem(h[m - 1], items[m]) \in States
    BY <1>1, <2>3, ItemKeepsState
  <2> QED BY <1>10, <2>2, <2>4
<1>12. N \in 0..N
  BY <1>1
<1> QED BY <1>7, <1>8, <1>11, <1>12

------------------------------------------------------------------------------
\* What holds of an import at every step: a scan at hand, and the one that a merge adds to, is whole.
ImportInv ==
    /\ disk \in Disks /\ zip \in [Archives -> ArchiveTexts] /\ extras \in Seq(Folders)
    /\ scan # Gone => Whole(scan)
    /\ job.kind = "scan" => job.mods \in Seq(Finds)
    /\ job.kind = "merge" => Whole(job.onto) /\ job.roots \in Seq(Folders)

LEMMA ImportStarts == ASSUME DiskAssumption, DropsAssumption, ImportInit PROVE ImportInv
<1>1. FirstDisk \in Disks
  <2>1. \A f \in Folders : FirstDisk[f] \in Contents
    BY DEF Contents
  <2> QED BY <2>1 DEF DiskAssumption, Disks
<1>2. job.kind # "scan" /\ job.kind # "merge"
  BY DEF ImportInit, NoJob
<1> QED BY <1>1, <1>2 DEF ImportInit, ImportInv, DropsAssumption

LEMMA DropKeeps ==
    ASSUME DropsAssumption, ImportInv, NEW items \in DropSets, Drop(items) PROVE ImportInv'
<1> DEFINE start == [disk |-> disk, extras |-> extras, added |-> << >>]
           end == Dropped(start, items)
<1>1. start \in States /\ items \in Seq(Archives \cup DOMAIN Wrapped)
  BY DEF ImportInv, States, DropsAssumption
<1>2. zip \in [Archives -> ArchiveTexts]
  BY DEF ImportInv
<1>3. /\ disk' = end.disk /\ extras' = end.extras /\ zip' = zip /\ scan' = scan
      /\ job' = IF end.added # << >> /\ scan # Gone /\ job = NoJob THEN [kind |-> "merge", onto |-> scan, roots |-> end.added] ELSE job
  BY DEF Drop
<1> HIDE DEF start
<1>4. end \in States
  BY <1>1, <1>2, DropKeepsState
<1> HIDE DEF end
<1>5. disk' \in Disks /\ extras' \in Seq(Folders) /\ end.added \in Seq(Folders)
  BY <1>3, <1>4 DEF States
<1>6. (scan # Gone => Whole(scan)) /\ (scan' # Gone => Whole(scan'))
  BY <1>3 DEF ImportInv
<1>7. CASE end.added # << >> /\ scan # Gone /\ job = NoJob
  <2>1. job' = [kind |-> "merge", onto |-> scan, roots |-> end.added]
    BY <1>3, <1>7
  <2>2. job'.kind = "merge" /\ job'.onto = scan /\ job'.roots = end.added
    BY <2>1
  <2> QED BY <1>2, <1>3, <1>5, <1>6, <1>7, <2>2 DEF ImportInv
<1>8. CASE ~(end.added # << >> /\ scan # Gone /\ job = NoJob)
  <2>1. job' = job
    BY <1>3, <1>8
  <2> QED BY <1>2, <1>3, <1>5, <1>6, <2>1 DEF ImportInv
<1> QED BY <1>7, <1>8

LEMMA ImportKeeps ==
    ASSUME FoldersAssumption, DropsAssumption, ImportInv, [ImportNext]_importVars PROVE ImportInv'
<1> USE DEF ImportInv
<1>1. ASSUME NEW items \in DropSets, Drop(items) PROVE ImportInv'
  BY <1>1, DropKeeps
<1>2. ASSUME NEW f \in ToSet(extras), RemoveExtra(f) PROVE ImportInv'
  <2> DEFINE P == {i \in DOMAIN extras : extras[i] # f}
  <2>1. extras' = Sifted(extras, P) /\ P \in SUBSET DOMAIN extras /\ extras \in Seq(Folders)
    BY <1>2 DEF RemoveExtra
  <2> HIDE DEF P
  <2>2. extras' \in Seq(Folders)
    BY <2>1, SiftedIsList
  <2> QED BY <1>2, <2>2 DEF RemoveExtra
<1>3. ASSUME ScanStarts PROVE ImportInv'
  <2>1. DiscoverSources(disk, extras) \in Seq(Finds)
    BY FoundAreFinds
  <2>2. job'.kind = "scan" /\ job'.mods = DiscoverSources(disk, extras)
    BY <1>3 DEF ScanStarts
  <2> QED BY <1>3, <2>1, <2>2 DEF ScanStarts
<1>4. ASSUME ScanDone PROVE ImportInv'
  <2>1. Whole(FullScanOf(job.mods, ReadAll(disk, ToScan(job.mods))))
    BY <1>4, FullIsWhole DEF ScanDone
  <2>2. Whole(scan')
    BY <1>4, <2>1 DEF ScanDone
  <2>3. job'.kind # "scan" /\ job'.kind # "merge"
    BY <1>4 DEF ScanDone, NoJob
  <2> QED BY <1>4, <2>2, <2>3 DEF ScanDone
<1>5. ASSUME MergeDone PROVE ImportInv'
  <2>1. MergeRead(job.roots) \in Seq(Readings) /\ \A i \in DOMAIN MergeRead(job.roots) : MergeRead(job.roots)[i].enabled
    BY <1>5, MergeReads DEF MergeDone
  <2>2. Whole(Merged(job.onto, MergeRead(job.roots)))
    BY <1>5, <2>1, MergedIsWhole DEF MergeDone
  <2>3. Whole(scan')
    BY <1>5, <2>2 DEF MergeDone
  <2>4. job'.kind # "scan" /\ job'.kind # "merge"
    BY <1>5 DEF MergeDone, NoJob
  <2> QED BY <1>5, <2>3, <2>4 DEF MergeDone
<1>6. ASSUME JobFails PROVE ImportInv'
  <2>1. job'.kind # "scan" /\ job'.kind # "merge"
    BY <1>6 DEF JobFails, NoJob
  <2> QED BY <1>6, <2>1 DEF JobFails
<1>7. ASSUME NEW f \in Folders, FolderChanges(f) PROVE ImportInv'
  <2>1. PICK c \in MayHold[f] : disk' = [disk EXCEPT ![f] = c]
    BY <1>7 DEF FolderChanges
  <2>2. c \in Contents
    BY <2>1 DEF Contents
  <2>3. disk' \in Disks
    BY <2>1, <2>2 DEF Disks
  <2> QED BY <1>7, <2>3 DEF FolderChanges
<1>8. ASSUME NEW a \in Archives, ArchiveChanges(a) PROVE ImportInv'
  <2>1. PICK c \in ArchiveTexts : zip' = [zip EXCEPT ![a] = c]
    BY <1>8 DEF ArchiveChanges
  <2>2. zip' \in [Archives -> ArchiveTexts]
    BY <2>1
  <2> QED BY <1>8, <2>2 DEF ArchiveChanges
<1>9. ASSUME UNCHANGED importVars PROVE ImportInv'
  BY <1>9 DEF importVars
<1> QED BY <1>1, <1>2, <1>3, <1>4, <1>5, <1>6, <1>7, <1>8, <1>9 DEF ImportNext

------------------------------------------------------------------------------
\* Two lists of sources that say the same, those of one mod in one order, and a list whose sources say what a mod may.
Matched(to, mine, theirs) ==
    /\ Shuffled(to, mine, theirs)
    /\ \A i \in DOMAIN mine : /\ theirs[to[i]].root = mine[i].root /\ theirs[to[i]].mod = mine[i].mod
                              /\ theirs[to[i]].has = mine[i].has /\ theirs[to[i]].skins = mine[i].skins
Countable(sources) ==
    \A i \in DOMAIN sources :
        /\ sources[i].mod \in Nat /\ \A k \in EntityKinds : IsFiniteSet(DOMAIN sources[i].has[k])
        /\ \A x \in DOMAIN sources[i].has["variants"] :
              LET modules == sources[i].has["variants"][x].modules IN modules = Gone \/ modules \in Seq(ToSet(modules))

LEMMA DrawnMatch ==
    ASSUME NEW one \in Seq(Finds), NEW other \in Seq(Finds), NEW mine \in Seq(Readings), NEW theirs \in Seq(Readings),
           NEW p, Drawn(p, one, mine), NEW q, Drawn(q, other, theirs),
           NEW tm, Shuffled(tm, one, other), \A i \in DOMAIN one : other[tm[i]] = one[i]
    PROVE  \E to : /\ Shuffled(to, mine, theirs)
                   /\ \A n \in DOMAIN mine : theirs[to[n]].root = mine[n].root /\ theirs[to[n]].mod = mine[n].mod
<1> DEFINE S == DOMAIN mine
           T == DOMAIN theirs
           to == [n \in S |-> CHOOSE m \in T : q[m] = tm[p[n]]]
<1>1. /\ \A n \in S : n \in Nat /\ p[n] \in DOMAIN one /\ one[p[n]].enabled /\ mine[n].root = one[p[n]].root /\ mine[n].mod = one[p[n]].mod
      /\ \A i \in DOMAIN one : one[i].enabled => \E n \in S : p[n] = i
      /\ \A m, n \in S : m < n => p[m] < p[n]
  BY DEF Drawn
<1>2. /\ \A n \in T : n \in Nat /\ q[n] \in DOMAIN other /\ other[q[n]].enabled /\ theirs[n].root = other[q[n]].root /\ theirs[n].mod = other[q[n]].mod
      /\ \A i \in DOMAIN other : other[i].enabled => \E n \in T : q[n] = i
      /\ \A m, n \in T : m < n => q[m] < q[n]
  BY DEF Drawn
<1>3. /\ \A i \in DOMAIN one : i \in Nat /\ tm[i] \in DOMAIN other /\ other[tm[i]] = one[i]
      /\ \A j \in DOMAIN other : j \in Nat /\ \E i \in DOMAIN one : tm[i] = j
      /\ \A i, j \in DOMAIN one : tm[i] = tm[j] => i = j
      /\ \A i, j \in DOMAIN one : one[i].mod = one[j].mod /\ i < j => tm[i] < tm[j]
  BY DEF Shuffled
<1>4. \A m, n \in S : p[m] = p[n] => m = n
  <2> TAKE m, n \in S
  <2>1. m \in Nat /\ n \in Nat /\ p[m] \in Nat /\ p[n] \in Nat /\ (m < n => p[m] < p[n]) /\ (n < m => p[n] < p[m])
    BY <1>1, <1>3
  <2> QED BY <2>1
<1>5. \A m, n \in T : (q[m] = q[n] => m = n) /\ (q[m] < q[n] => m < n)
  <2> TAKE m, n \in T
  <2>1. m \in Nat /\ n \in Nat /\ q[m] \in Nat /\ q[n] \in Nat /\ (m < n => q[m] < q[n]) /\ (n < m => q[n] < q[m])
    BY <1>2, <1>3
  <2> QED BY <2>1
<1> HIDE DEF S, T
<1>6. \A n \in S : to[n] \in T /\ q[to[n]] = tm[p[n]]
  <2> TAKE n \in S
  <2>1. tm[p[n]] \in DOMAIN other /\ other[tm[p[n]]].enabled
    BY <1>1, <1>3
  <2>2. \E m \in T : q[m] = tm[p[n]]
    BY <1>2, <2>1
  <2> QED BY <2>2
<1>7. to \in [S -> T]
  BY <1>6
<1> HIDE DEF to
<1>8. ASSUME NEW j \in T PROVE \E n \in S : to[n] = j
  <2>1. PICK i \in DOMAIN one : tm[i] = q[j]
    BY <1>2, <1>3
  <2>2. one[i].enabled
    BY <1>2, <1>3, <2>1
  <2>3. PICK n \in S : p[n] = i
    BY <1>1, <2>2
  <2>4. q[to[n]] = q[j]
    BY <1>6, <2>1, <2>3
  <2> QED BY <1>5, <1>6, <2>4
<1>9. ASSUME NEW m \in S, NEW n \in S, to[m] = to[n] PROVE m = n
  <2>1. tm[p[m]] = tm[p[n]]
    BY <1>6, <1>9
  <2>2. p[m] \in DOMAIN one /\ p[n] \in DOMAIN one
    BY <1>1
  <2>3. \A i, j \in DOMAIN one : tm[i] = tm[j] => i = j
    BY <1>3
  <2>4. p[m] = p[n]
    BY ONLY <2>1, <2>2, <2>3
  <2> QED BY <1>4, <2>4
<1>10. ASSUME NEW m \in S, NEW n \in S, mine[m].mod = mine[n].mod, m < n PROVE to[m] < to[n]
  <2>1. p[m] \in DOMAIN one /\ p[n] \in DOMAIN one /\ p[m] < p[n] /\ one[p[m]].mod = one[p[n]].mod
    BY <1>1, <1>10
  <2>2. tm[p[m]] < tm[p[n]]
    BY <1>3, <2>1
  <2>3. to[m] \in T /\ to[n] \in T /\ q[to[m]] < q[to[n]]
    BY <1>6, <2>2
  <2> QED BY <1>5, <2>3
<1>11. ASSUME NEW n \in S PROVE theirs[to[n]].root = mine[n].root /\ theirs[to[n]].mod = mine[n].mod
  <2>1. p[n] \in DOMAIN one /\ to[n] \in T /\ q[to[n]] = tm[p[n]]
    BY <1>1, <1>6
  <2>2. other[q[to[n]]] = one[p[n]]
    BY <1>3, <2>1
  <2>3. theirs[to[n]].root = other[q[to[n]]].root /\ theirs[to[n]].mod = other[q[to[n]]].mod
    BY <1>2, <2>1
  <2> QED BY <1>1, <2>2, <2>3
<1>12. Shuffled(to, mine, theirs)
  BY <1>7, <1>8, <1>9, <1>10 DEF Shuffled, S, T
<1> QED BY <1>11, <1>12 DEF S

LEMMA FullIsRead ==
    ASSUME FoldersAssumption, NEW folders \in Disks, NEW extra \in Seq(Folders), NEW full, full = FullScan(folders, extra)
    PROVE  /\ full.mods = DiscoverSources(folders, extra) /\ Whole(full)
           /\ full.skins = SkinsMade(Claimed(full.sources, "hulls"), PendingSkins(full.sources, 0))
           /\ \A n \in DOMAIN full.sources : /\ full.sources[n].has = FilesIn(folders, full.sources[n].root).has
                                             /\ full.sources[n].skins = FilesIn(folders, full.sources[n].root).skins
<1> DEFINE mods == DiscoverSources(folders, extra)
           list == ToScan(mods)
           sources == ReadAll(folders, list)
<1>1. mods \in Seq(Finds)
  BY FoundAreFinds
<1>2. full = FullScanOf(mods, sources)
  BY DEF FullScan
<1> HIDE DEF mods
<1>3. Whole(full)
  BY <1>1, <1>2, FullIsWhole
<1>4. full.mods = mods /\ full.sources = sources /\ full.skins = SkinsMade(Claimed(sources, "hulls"), PendingSkins(sources, 0))
  BY <1>2 DEF FullScanOf
<1>5. list \in Seq(Finds)
  <2> DEFINE P == {i \in DOMAIN mods : mods[i].enabled}
  <2>1. P \in SUBSET DOMAIN mods /\ list = Sifted(mods, P)
    BY DEF ToScan
  <2> HIDE DEF P, list
  <2> QED BY <1>1, <2>1, SiftedIsList
<1> HIDE DEF list
<1>6. /\ DOMAIN sources = DOMAIN list
      /\ \A n \in DOMAIN list : /\ sources[n].root = list[n].root /\ sources[n].has = FilesIn(folders, list[n].root).has
                                /\ sources[n].skins = FilesIn(folders, list[n].root).skins
  BY <1>5, AllAreRead
<1> HIDE DEF sources
<1>7. \A n \in DOMAIN sources : /\ sources[n].has = FilesIn(folders, sources[n].root).has
                                /\ sources[n].skins = FilesIn(folders, sources[n].root).skins
  BY <1>6
<1> QED BY <1>3, <1>4, <1>7 DEF mods

LEMMA SourcesMatch ==
    ASSUME FoldersAssumption, HeldAssumption, ImportInv, UpToDate, NEW full, full = FullScan(disk, extras)
    PROVE  /\ scan.sources \in Seq(Readings) /\ full.sources \in Seq(Readings) /\ Countable(scan.sources)
           /\ \E to : Matched(to, scan.sources, full.sources)
           /\ scan.mods \in Seq(Finds) /\ full.mods \in Seq(Finds) /\ Len(scan.mods) = Len(full.mods)
           /\ \E to : Shuffled(to, scan.mods, full.mods) /\ \A i \in DOMAIN scan.mods : full.mods[to[i]] = scan.mods[i]
<1> DEFINE one == scan.mods
           other == full.mods
           mine == scan.sources
           theirs == full.sources
<1>1. disk \in Disks /\ extras \in Seq(Folders) /\ scan # Gone /\ Whole(scan)
  BY DEF ImportInv, UpToDate
<1>2. /\ full.mods = DiscoverSources(disk, extras) /\ Whole(full)
      /\ \A n \in DOMAIN theirs : /\ theirs[n].has = FilesIn(disk, theirs[n].root).has
                                  /\ theirs[n].skins = FilesIn(disk, theirs[n].root).skins
  BY <1>1, FullIsRead
<1>3. one \in Seq(Finds) /\ mine \in Seq(Readings) /\ \E p : Drawn(p, one, mine)
  BY <1>1 DEF Whole, InLine
<1>4. other \in Seq(Finds) /\ theirs \in Seq(Readings) /\ \E q : Drawn(q, other, theirs)
  BY <1>2 DEF Whole, InLine
<1>5. InTurn(one) = InTurn(other)
  BY <1>2 DEF UpToDate
<1>6. \A n \in DOMAIN mine : Readable(disk, mine[n].root) /\ disk[mine[n].root] = Restrict(mine[n], {"mod", "version", "deps", "has", "skins", "errs"})
  <2>1. \A n \in DOMAIN mine : mine[n] \in ToSet(mine)
    BY <1>3 DEF ToSet
  <2> QED BY <2>1 DEF UpToDate
<1> HIDE DEF one, other, mine, theirs
<1>7. Len(one) = Len(other) /\ \E to : Shuffled(to, one, other) /\ \A i \in DOMAIN one : other[to[i]] = one[i]
  <2>1. Len(one) \in Nat /\ DOMAIN one = 1..Len(one) /\ Len(other) \in Nat /\ DOMAIN other = 1..Len(other)
    BY <1>3, <1>4
  <2> PICK M \in Nat : M = Len(one)
    BY <2>1
  <2> PICK N \in Nat : N = Len(other)
    BY <2>1
  <2>2. DOMAIN one = 1..M /\ DOMAIN other = 1..N
    BY <2>1
  <2>3. M = N /\ \E to : Shuffled(to, one, other) /\ \A i \in 1..M : other[to[i]] = one[i]
    BY ONLY <1>5, <2>2, M \in Nat, N \in Nat, TurnsMatch
  <2> QED BY <2>2, <2>3
<1>8. \A n \in DOMAIN mine : /\ FilesIn(disk, mine[n].root).has = mine[n].has /\ FilesIn(disk, mine[n].root).skins = mine[n].skins
                             /\ mine[n].mod = disk[mine[n].root].mod /\ mine[n].has = disk[mine[n].root].has
  <2> TAKE n \in DOMAIN mine
  <2>1. Readable(disk, mine[n].root) /\ disk[mine[n].root] = Restrict(mine[n], {"mod", "version", "deps", "has", "skins", "errs"})
    BY <1>6
  <2>2. /\ disk[mine[n].root].mod = mine[n].mod /\ disk[mine[n].root].has = mine[n].has /\ disk[mine[n].root].skins = mine[n].skins
    BY <2>1 DEF Restrict
  <2> QED BY <2>1, <2>2 DEF FilesIn
<1>9. \E to : Matched(to, mine, theirs)
  <2>1. PICK to : /\ Shuffled(to, mine, theirs)
                  /\ \A n \in DOMAIN mine : theirs[to[n]].root = mine[n].root /\ theirs[to[n]].mod = mine[n].mod
    <3>1. PICK p : Drawn(p, one, mine)
      BY <1>3
    <3>2. PICK q : Drawn(q, other, theirs)
      BY <1>4
    <3>3. PICK tm : Shuffled(tm, one, other) /\ \A i \in DOMAIN one : other[tm[i]] = one[i]
      BY <1>7
    <3>4. one \in Seq(Finds) /\ other \in Seq(Finds) /\ mine \in Seq(Readings) /\ theirs \in Seq(Readings)
      BY <1>3, <1>4
    <3>5. PICK A : A = one
      OBVIOUS
    <3>6. PICK B : B = other
      OBVIOUS
    <3>7. PICK C : C = mine
      OBVIOUS
    <3>8. PICK D : D = theirs
      OBVIOUS
    <3>9. /\ A \in Seq(Finds) /\ B \in Seq(Finds) /\ C \in Seq(Readings) /\ D \in Seq(Readings)
          /\ Drawn(p, A, C) /\ Drawn(q, B, D) /\ Shuffled(tm, A, B)
      BY <3>1, <3>2, <3>3, <3>4, <3>5, <3>6, <3>7, <3>8
    <3>10. \A i \in DOMAIN A : B[tm[i]] = A[i]
      BY <3>3, <3>5, <3>6
    <3>11. \E to : /\ Shuffled(to, C, D)
                   /\ \A n \in DOMAIN C : D[to[n]].root = C[n].root /\ D[to[n]].mod = C[n].mod
      BY ONLY <3>9, <3>10, DrawnMatch
    <3> QED BY <3>7, <3>8, <3>11
  <2>2. \A n \in DOMAIN mine : to[n] \in DOMAIN theirs
    BY <2>1 DEF Shuffled
  <2>3. \A n \in DOMAIN mine : theirs[to[n]].has = mine[n].has /\ theirs[to[n]].skins = mine[n].skins
    <3> TAKE n \in DOMAIN mine
    <3>1. theirs[to[n]].has = FilesIn(disk, theirs[to[n]].root).has /\ theirs[to[n]].skins = FilesIn(disk, theirs[to[n]].root).skins
      BY <1>2, <2>2 DEF theirs
    <3> QED BY <1>8, <2>1, <3>1
  <2> QED BY <2>1, <2>3 DEF Matched
<1>10. Countable(mine)
  <2> DEFINE isList(x) == x = Gone \/ x \in Seq(ToSet(x))
             good(c) == /\ c.mod \in Nat /\ \A k \in EntityKinds : IsFiniteSet(DOMAIN c.has[k])
                        /\ \A x \in DOMAIN c.has["variants"] : isList(c.has["variants"][x].modules)
  <2> HIDE DEF isList
  <2> SUFFICES ASSUME NEW n \in DOMAIN mine PROVE good(mine[n])
    BY DEF Countable, isList
  <2> DEFINE r == mine[n].root
  <2>1. r \in Folders
    <3>1. mine[n] \in Readings
      BY <1>3
    <3> QED BY <3>1 DEF Readings
  <2>2. disk[r] \in Held
    BY <1>1, <1>6, <2>1, FilesAreTold
  <2>3. good(disk[r])
    <3>1. \E f \in Folders : disk[r] \in ({FirstDisk[f]} \cup MayHold[f] \cup ArchiveTexts) \ {Gone, Broken}
      BY <2>1, <2>2 DEF Held, Contents
    <3> QED BY <3>1 DEF HeldAssumption, isList
  <2> QED BY <1>8, <2>3
<1> QED BY <1>3, <1>4, <1>7, <1>9, <1>10 DEF one, other, mine, theirs

------------------------------------------------------------------------------
\* The claims of one list are those of the other, each at its source's place there.
MovedTo(c, to) == [id |-> c.id, at |-> to[c.at], mod |-> c.mod, root |-> c.root, what |-> c.what]
CarriedOver(A, B, to) ==
    /\ \A c \in A : MovedTo(c, to) \in B
    /\ \A d \in B : \E c \in A : d = MovedTo(c, to)
    /\ \A c, d \in A : MovedTo(c, to) = MovedTo(d, to) => c = d
    /\ IsFiniteSet(A)

LEMMA MovedKeeps ==
    ASSUME NEW c, NEW to
    PROVE  /\ MovedTo(c, to).id = c.id /\ MovedTo(c, to).mod = c.mod /\ MovedTo(c, to).root = c.root /\ MovedTo(c, to).what = c.what
           /\ MovedTo(c, to).at = to[c.at]
BY DEF MovedTo

LEMMA CarriedAreAsMany == ASSUME NEW A, NEW B, NEW to, CarriedOver(A, B, to) PROVE Cardinality(A) = Cardinality(B) /\ IsFiniteSet(B)
<1> DEFINE f == [c \in A |-> MovedTo(c, to)]
<1>1. \A c \in A : f[c] = MovedTo(c, to) /\ f[c] \in B
  BY DEF CarriedOver
<1>2. f \in [A -> B]
  BY <1>1
<1> HIDE DEF f
<1>3. \A d \in B : \E c \in A : f[c] = d
  BY <1>1 DEF CarriedOver
<1>4. \A c, d \in A : f[c] = f[d] => c = d
  BY <1>1 DEF CarriedOver
<1>5. f \in Bijection(A, B)
  BY <1>2, <1>3, <1>4 DEF Bijection, Injection, Surjection, IsInjective
<1>6. ExistsBijection(A, B) /\ IsFiniteSet(A)
  BY <1>5 DEF ExistsBijection, CarriedOver
<1> QED BY <1>6, FS_Bijection

LEMMA SubsetsAreCarried ==
    ASSUME NEW A, NEW B, NEW to, CarriedOver(A, B, to), NEW C \in SUBSET A, NEW D \in SUBSET B,
           \A c \in A : c \in C <=> MovedTo(c, to) \in D
    PROVE  CarriedOver(C, D, to)
<1>1. IsFiniteSet(C)
  BY FS_Subset DEF CarriedOver
<1> QED BY <1>1 DEF CarriedOver

LEMMA CarriedSayTheSame ==
    ASSUME NEW A, NEW B, NEW to, CarriedOver(A, B, to)
    PROVE  /\ {<<c.root, c.mod, c.what>> : c \in A} = {<<c.root, c.mod, c.what>> : c \in B}
           /\ {c.what : c \in A} = {c.what : c \in B}
           /\ {c.id : c \in A} = {c.id : c \in B}
           /\ {c.root : c \in A} = {c.root : c \in B}
<1>1. \A c : \E d : d = MovedTo(c, to) /\ d.id = c.id /\ d.mod = c.mod /\ d.root = c.root /\ d.what = c.what
  BY MovedKeeps
<1>2. ASSUME NEW c \in A PROVE \E d \in B : d.id = c.id /\ d.mod = c.mod /\ d.root = c.root /\ d.what = c.what
  BY <1>1 DEF CarriedOver
<1>3. ASSUME NEW d \in B PROVE \E c \in A : d.id = c.id /\ d.mod = c.mod /\ d.root = c.root /\ d.what = c.what
  BY <1>1 DEF CarriedOver
<1>4. {<<c.root, c.mod, c.what>> : c \in A} = {<<c.root, c.mod, c.what>> : c \in B}
  BY <1>2, <1>3
<1>5. {c.what : c \in A} = {c.what : c \in B}
  BY <1>2, <1>3
<1>6. {c.id : c \in A} = {c.id : c \in B}
  BY <1>2, <1>3
<1>7. {c.root : c \in A} = {c.root : c \in B}
  BY <1>2, <1>3
<1> QED BY <1>4, <1>5, <1>6, <1>7

\* What a claim of a source says.
LEMMA ClaimsAre ==
    ASSUME NEW sources, NEW kind
    PROVE  /\ \A c \in Claimed(sources, kind) :
                 /\ c.at \in DOMAIN sources /\ c.id \in DOMAIN sources[c.at].has[kind]
                 /\ c.mod = sources[c.at].mod /\ c.root = sources[c.at].root /\ c.what = sources[c.at].has[kind][c.id]
                 /\ c = [id |-> c.id, at |-> c.at, mod |-> c.mod, root |-> c.root, what |-> c.what]
           /\ \A i \in DOMAIN sources : \A x \in DOMAIN sources[i].has[kind] :
                 [id |-> x, at |-> i, mod |-> sources[i].mod, root |-> sources[i].root, what |-> sources[i].has[kind][x]] \in Claimed(sources, kind)
<1> DEFINE claim(i, x) == [id |-> x, at |-> i, mod |-> sources[i].mod, root |-> sources[i].root, what |-> sources[i].has[kind][x]]
<1>1. \A c : c \in Claimed(sources, kind) <=> \E i \in DOMAIN sources : \E x \in DOMAIN sources[i].has[kind] : c = claim(i, x)
  BY DEF Claimed
<1>2. ASSUME NEW c \in Claimed(sources, kind)
      PROVE  /\ c.at \in DOMAIN sources /\ c.id \in DOMAIN sources[c.at].has[kind]
             /\ c.mod = sources[c.at].mod /\ c.root = sources[c.at].root /\ c.what = sources[c.at].has[kind][c.id]
             /\ c = [id |-> c.id, at |-> c.at, mod |-> c.mod, root |-> c.root, what |-> c.what]
  <2> PICK i \in DOMAIN sources : \E x \in DOMAIN sources[i].has[kind] : c = claim(i, x)
    BY <1>1
  <2>1. PICK x \in DOMAIN sources[i].has[kind] : c = claim(i, x)
    OBVIOUS
  <2>2. c.id = x /\ c.at = i /\ c.mod = sources[i].mod /\ c.root = sources[i].root /\ c.what = sources[i].has[kind][x]
    BY <2>1
  <2> QED BY <2>1, <2>2
<1> HIDE DEF claim
<1>3. \A i \in DOMAIN sources : \A x \in DOMAIN sources[i].has[kind] : claim(i, x) \in Claimed(sources, kind)
  BY <1>1
<1> QED BY <1>2, <1>3 DEF claim

LEMMA ClaimsAreCarried ==
    ASSUME NEW mine \in Seq(Readings), NEW theirs \in Seq(Readings), NEW to, Matched(to, mine, theirs), Countable(mine), NEW kind \in EntityKinds
    PROVE  /\ CarriedOver(Claimed(mine, kind), Claimed(theirs, kind), to)
           /\ \A c, d \in Claimed(mine, kind) :
                 /\ c.mod \in Nat
                 /\ c.id = d.id /\ c.at = d.at => c = d
                 /\ c.mod = d.mod => (c.at <= d.at <=> to[c.at] <= to[d.at])
<1> DEFINE S == DOMAIN mine
           T == DOMAIN theirs
           A == Claimed(mine, kind)
           B == Claimed(theirs, kind)
<1>1. /\ to \in [S -> T] /\ (\A j \in T : \E i \in S : to[i] = j)
      /\ \A i, j \in S : to[i] = to[j] => i = j
      /\ \A i, j \in S : mine[i].mod = mine[j].mod /\ i < j => to[i] < to[j]
      /\ \A i \in S : /\ theirs[to[i]].root = mine[i].root /\ theirs[to[i]].mod = mine[i].mod
                      /\ theirs[to[i]].has = mine[i].has
  BY DEF Matched, Shuffled
<1>2. \A c \in A : /\ c.at \in S /\ c.id \in DOMAIN mine[c.at].has[kind]
                   /\ c.mod = mine[c.at].mod /\ c.root = mine[c.at].root /\ c.what = mine[c.at].has[kind][c.id]
                   /\ c = [id |-> c.id, at |-> c.at, mod |-> c.mod, root |-> c.root, what |-> c.what]
  BY ClaimsAre
<1>3. \A d \in B : /\ d.at \in T /\ d.id \in DOMAIN theirs[d.at].has[kind]
                   /\ d.mod = theirs[d.at].mod /\ d.root = theirs[d.at].root /\ d.what = theirs[d.at].has[kind][d.id]
                   /\ d = [id |-> d.id, at |-> d.at, mod |-> d.mod, root |-> d.root, what |-> d.what]
  BY ClaimsAre
<1>4. \A i \in S : \A x \in DOMAIN mine[i].has[kind] :
         [id |-> x, at |-> i, mod |-> mine[i].mod, root |-> mine[i].root, what |-> mine[i].has[kind][x]] \in A
  BY ClaimsAre
<1>5. \A i \in T : \A x \in DOMAIN theirs[i].has[kind] :
         [id |-> x, at |-> i, mod |-> theirs[i].mod, root |-> theirs[i].root, what |-> theirs[i].has[kind][x]] \in B
  BY ClaimsAre
<1>6. S = 1..Len(mine) /\ Len(mine) \in Nat /\ (\A i \in S : i \in Nat) /\ \A i \in T : i \in Nat
  OBVIOUS
<1>7. IsFiniteSet(A)
  <2> DEFINE of(i) == {[id |-> x, at |-> i, mod |-> mine[i].mod, root |-> mine[i].root, what |-> mine[i].has[kind][x]] : x \in DOMAIN mine[i].has[kind]}
             parts == {of(i) : i \in S}
  <2>1. IsFiniteSet(S)
    BY <1>6, FS_Interval
  <2>2. IsFiniteSet(parts)
    <3> DEFINE g == [i \in S |-> of(i)]
    <3>1. parts = {g[i] : i \in S}
      OBVIOUS
    <3> HIDE DEF g, parts, S
    <3> QED BY <2>1, <3>1, ImageIsFinite
  <2>3. ASSUME NEW i \in S PROVE IsFiniteSet(of(i))
    <3> DEFINE X == DOMAIN mine[i].has[kind]
               g == [x \in X |-> [id |-> x, at |-> i, mod |-> mine[i].mod, root |-> mine[i].root, what |-> mine[i].has[kind][x]]]
    <3>1. IsFiniteSet(X)
      BY DEF Countable
    <3>2. of(i) = {g[x] : x \in X}
      OBVIOUS
    <3> HIDE DEF g, X, of
    <3> QED BY <3>1, <3>2, ImageIsFinite
  <2>4. A = UNION parts
    BY DEF Claimed
  <2>5. \A P \in parts : IsFiniteSet(P)
    BY <2>3
  <2> HIDE DEF parts, A
  <2> QED BY <2>2, <2>4, <2>5, FS_UNION
<1>8. \A i \in S : mine[i].mod \in Nat
  BY DEF Countable
<1> HIDE DEF S, T, A, B
<1>9. ASSUME NEW c \in A PROVE MovedTo(c, to) \in B
  <2> DEFINE j == to[c.at]
  <2>1. c.at \in S /\ j \in T /\ theirs[j].root = c.root /\ theirs[j].mod = c.mod /\ theirs[j].has[kind] = mine[c.at].has[kind]
    BY <1>1, <1>2
  <2>2. c.id \in DOMAIN theirs[j].has[kind] /\ theirs[j].has[kind][c.id] = c.what
    BY <1>2, <2>1
  <2>3. [id |-> c.id, at |-> j, mod |-> theirs[j].mod, root |-> theirs[j].root, what |-> theirs[j].has[kind][c.id]] \in B
    BY <1>5, <2>1, <2>2
  <2> QED BY <2>1, <2>2, <2>3 DEF MovedTo
<1>10. ASSUME NEW d \in B PROVE \E c \in A : d = MovedTo(c, to)
  <2>1. PICK i \in S : to[i] = d.at
    BY <1>1, <1>3
  <2>2. theirs[d.at].root = mine[i].root /\ theirs[d.at].mod = mine[i].mod /\ theirs[d.at].has = mine[i].has
    BY <1>1, <2>1
  <2>3. d.id \in DOMAIN mine[i].has[kind] /\ d.what = mine[i].has[kind][d.id] /\ d.mod = mine[i].mod /\ d.root = mine[i].root
    BY <1>3, <2>2
  <2> DEFINE c == [id |-> d.id, at |-> i, mod |-> mine[i].mod, root |-> mine[i].root, what |-> mine[i].has[kind][d.id]]
  <2>4. c \in A
    BY <1>4, <2>3
  <2>5. MovedTo(c, to) = [id |-> d.id, at |-> d.at, mod |-> d.mod, root |-> d.root, what |-> d.what]
    BY <2>1, <2>3 DEF MovedTo
  <2>6. d = MovedTo(c, to)
    BY <1>3, <2>5
  <2> QED BY <2>4, <2>6
<1>11. ASSUME NEW c \in A, NEW d \in A, c.id = d.id, c.at = d.at PROVE c = d
  <2>1. c.mod = d.mod /\ c.root = d.root /\ c.what = d.what
    BY <1>2, <1>11
  <2> QED BY <1>2, <1>11, <2>1
<1>12. ASSUME NEW c \in A, NEW d \in A, MovedTo(c, to) = MovedTo(d, to) PROVE c = d
  <2>1. c.id = d.id /\ to[c.at] = to[d.at]
    BY <1>12, MovedKeeps
  <2>2. c.at = d.at
    BY <1>1, <1>2, <2>1
  <2> QED BY <1>11, <2>1, <2>2
<1>13. ASSUME NEW c \in A, NEW d \in A, c.mod = d.mod PROVE c.at <= d.at <=> to[c.at] <= to[d.at]
  <2>1. c.at \in S /\ d.at \in S /\ mine[c.at].mod = mine[d.at].mod
    BY <1>2, <1>13
  <2>2. (c.at < d.at => to[c.at] < to[d.at]) /\ (d.at < c.at => to[d.at] < to[c.at])
    BY <1>1, <2>1
  <2>3. c.at \in Nat /\ d.at \in Nat /\ to[c.at] \in Nat /\ to[d.at] \in Nat
    BY <1>1, <1>6, <2>1
  <2> QED BY <2>2, <2>3
<1>14. \A c \in A : c.mod \in Nat
  BY <1>2, <1>8
<1>15. CarriedOver(A, B, to)
  BY <1>7, <1>9, <1>10, <1>12 DEF CarriedOver
<1> QED BY <1>11, <1>13, <1>14, <1>15 DEF A, B

------------------------------------------------------------------------------
\* An index by the claims of one id.
LEMMA IndexSays ==
    ASSUME NEW claims, NEW x, NEW index, index = IndexOf(claims)
    PROVE  /\ HasId(index, x) <=> Sole(claims, x)
           /\ HasId(index, x) => index.by_id[x] \in OfId(claims, x)
           /\ Rivals(index, x) = IF Sole(claims, x) THEN {} ELSE OfId(claims, x)
           /\ x \in DOMAIN index.duplicates <=> OfId(claims, x) # {} /\ ~Sole(claims, x)
           /\ x \in DOMAIN index.duplicates => index.duplicates[x] = OfId(claims, x)
<1> DEFINE ids == {c.id : c \in claims}
           own == {y \in ids : Sole(claims, y)}
           several == {y \in ids : ~Sole(claims, y)}
<1>1. x \in ids <=> OfId(claims, x) # {}
  BY DEF OfId
<1>2. Sole(claims, x) => OfId(claims, x) # {}
  BY FS_EmptySet DEF Sole
<1>3. /\ index.by_id = [y \in own |-> CHOOSE c \in OfId(claims, y) : TRUE]
      /\ index.duplicates = [y \in several |-> OfId(claims, y)]
  BY DEF IndexOf
<1>4. (x \in own <=> Sole(claims, x)) /\ (x \in several <=> OfId(claims, x) # {} /\ ~Sole(claims, x))
  BY <1>1, <1>2
<1> HIDE DEF own, several, ids
<1>5. x \in own => index.by_id[x] = CHOOSE c \in OfId(claims, x) : TRUE
  BY <1>3
<1>6. x \in several => index.duplicates[x] = OfId(claims, x)
  BY <1>3
<1>7. DOMAIN index.by_id = own /\ DOMAIN index.duplicates = several
  BY <1>3
<1> QED BY <1>2, <1>4, <1>5, <1>6, <1>7 DEF HasId, Rivals

\* The claimants of the first mod, and the one that is kept.
Firsts(cs) == {c \in cs : \A d \in cs : c.mod <= d.mod}
FirstRoot(cs) == CHOOSE root \in {d.root : d \in Firsts(cs)} : TRUE
FirstOf(cs) == CHOOSE c \in Firsts(cs) : c.root = FirstRoot(cs)
AllSame(cs) == cs # {} /\ \A c, d \in cs : c.what = d.what

LEMMA FirstIs ==
    ASSUME NEW cs, cs # {}, \A c \in cs : c.mod \in Nat
    PROVE  FirstOf(cs) \in Firsts(cs) /\ FirstOf(cs).root = FirstRoot(cs)
<1> DEFINE S == {c.mod : c \in cs}
<1>1. S \in SUBSET Nat /\ S # {}
  OBVIOUS
<1>2. PICK m \in S : \A n \in S : m <= n
  <2> HIDE DEF S
  <2> QED BY <1>1, LeastNatural
<1>3. PICK c \in cs : c.mod = m
  OBVIOUS
<1>4. c \in Firsts(cs)
  BY <1>2, <1>3 DEF Firsts
<1> DEFINE R == {d.root : d \in Firsts(cs)}
<1>5. R # {}
  BY <1>4
<1>6. FirstRoot(cs) \in R
  <2> HIDE DEF R
  <2>1. (CHOOSE root \in R : TRUE) \in R
    BY <1>5
  <2> QED BY <2>1 DEF FirstRoot, R
<1>7. \E d \in Firsts(cs) : d.root = FirstRoot(cs)
  BY <1>6
<1> QED BY <1>7 DEF FirstOf

LEMMA CanonicalSays ==
    ASSUME NEW claims, NEW x, NEW index, index = Canonicalised(IndexOf(claims))
    PROVE  /\ HasId(index, x) <=> Sole(claims, x) \/ AllSame(OfId(claims, x))
           /\ HasId(index, x) => index.by_id[x] = IF Sole(claims, x) THEN IndexOf(claims).by_id[x] ELSE FirstOf(OfId(claims, x))
           /\ Rivals(index, x) = IF HasId(index, x) THEN {} ELSE OfId(claims, x)
<1> DEFINE old == IndexOf(claims)
           same == {y \in DOMAIN old.duplicates : \A c, d \in old.duplicates[y] : c.what = d.what}
           firsts(cs) == {c \in cs : \A d \in cs : c.mod <= d.mod}
           first(cs) == CHOOSE c \in firsts(cs) : c.root = CHOOSE root \in {d.root : d \in firsts(cs)} : TRUE
<1>1. /\ HasId(old, x) <=> Sole(claims, x)
      /\ Rivals(old, x) = IF Sole(claims, x) THEN {} ELSE OfId(claims, x)
      /\ x \in DOMAIN old.duplicates <=> OfId(claims, x) # {} /\ ~Sole(claims, x)
      /\ x \in DOMAIN old.duplicates => old.duplicates[x] = OfId(claims, x)
  BY IndexSays
<1>2. \A cs : first(cs) = FirstOf(cs)
  BY DEF FirstOf, FirstRoot, Firsts
<1>3. /\ index.by_id = [y \in DOMAIN old.by_id \cup same |-> IF y \in same THEN first(old.duplicates[y]) ELSE old.by_id[y]]
      /\ index.duplicates = Restrict(old.duplicates, DOMAIN old.duplicates \ same)
  BY DEF Canonicalised
<1>4. x \in same <=> x \in DOMAIN old.duplicates /\ AllSame(OfId(claims, x))
  BY <1>1 DEF AllSame
<1> HIDE DEF old, same, first
<1>5. /\ HasId(index, x) <=> HasId(old, x) \/ x \in same
      /\ x \in same => index.by_id[x] = first(old.duplicates[x])
      /\ HasId(old, x) /\ x \notin same => index.by_id[x] = old.by_id[x]
  BY <1>3 DEF HasId
<1>6. Rivals(index, x) = IF x \in DOMAIN old.duplicates /\ x \notin same THEN old.duplicates[x] ELSE {}
  BY <1>3 DEF Rivals, Restrict
<1>7. HasId(index, x) <=> Sole(claims, x) \/ AllSame(OfId(claims, x))
  BY <1>1, <1>4, <1>5 DEF AllSame
<1>8. Sole(claims, x) => x \notin same
  BY <1>1, <1>4
<1>9. ~Sole(claims, x) /\ HasId(index, x) => x \in same /\ old.duplicates[x] = OfId(claims, x)
  BY <1>1, <1>4, <1>5
<1>10. HasId(index, x) => index.by_id[x] = IF Sole(claims, x) THEN old.by_id[x] ELSE FirstOf(OfId(claims, x))
  BY <1>1, <1>2, <1>5, <1>8, <1>9
<1>11. Rivals(index, x) = IF HasId(index, x) THEN {} ELSE OfId(claims, x)
  BY <1>1, <1>4, <1>6, <1>7, <1>8
<1> QED BY <1>7, <1>10, <1>11 DEF old

\* Two indexes that say the same of an id.
Alike(index, other, x, to) ==
    /\ HasId(index, x) <=> HasId(other, x)
    /\ HasId(index, x) => /\ index.by_id[x].id = other.by_id[x].id /\ index.by_id[x].mod = other.by_id[x].mod
                          /\ index.by_id[x].root = other.by_id[x].root /\ index.by_id[x].what = other.by_id[x].what
    /\ HasId(index, x) => Rivals(index, x) = {} /\ Rivals(other, x) = {}
    /\ CarriedOver(Rivals(index, x), Rivals(other, x), to)

LEMMA SoleIsOne ==
    ASSUME NEW claims, NEW x, IsFiniteSet(OfId(claims, x)), Sole(claims, x), NEW b \in OfId(claims, x), NEW c \in OfId(claims, x)
    PROVE  b = c
BY FS_Singleton DEF Sole

LEMMA NothingIsCarried == ASSUME NEW to PROVE CarriedOver({}, {}, to)
BY FS_EmptySet DEF CarriedOver

LEMMA IndexesAreAlike ==
    ASSUME NEW claims, NEW others, NEW x, NEW to, CarriedOver(OfId(claims, x), OfId(others, x), to),
           \A c \in OfId(claims, x) : c.mod \in Nat
    PROVE  /\ Alike(IndexOf(claims), IndexOf(others), x, to)
           /\ Alike(Canonicalised(IndexOf(claims)), Canonicalised(IndexOf(others)), x, to)
<1> DEFINE A == OfId(claims, x)
           B == OfId(others, x)
           index == IndexOf(claims)
           other == IndexOf(others)
           canon == Canonicalised(index)
           canon2 == Canonicalised(other)
<1>1. CarriedOver(A, B, to) /\ IsFiniteSet(A) /\ IsFiniteSet(B) /\ Cardinality(A) = Cardinality(B)
  BY CarriedAreAsMany DEF CarriedOver
<1>2. Sole(claims, x) <=> Sole(others, x)
  BY <1>1 DEF Sole
<1>3. ASSUME NEW d \in B PROVE \E c \in A : d.id = c.id /\ d.mod = c.mod /\ d.root = c.root /\ d.what = c.what
  <2>1. PICK c \in A : d = MovedTo(c, to)
    BY <1>1 DEF CarriedOver
  <2> QED BY <2>1, MovedKeeps
<1>4. ASSUME NEW c \in A PROVE \E d \in B : d.id = c.id /\ d.mod = c.mod /\ d.root = c.root /\ d.what = c.what
  <2>1. MovedTo(c, to) \in B
    BY <1>1 DEF CarriedOver
  <2> QED BY <2>1, MovedKeeps
<1>5. /\ HasId(index, x) <=> Sole(claims, x)
      /\ HasId(index, x) => index.by_id[x] \in A
      /\ Rivals(index, x) = IF Sole(claims, x) THEN {} ELSE A
  BY IndexSays
<1>6. /\ HasId(other, x) <=> Sole(others, x)
      /\ HasId(other, x) => other.by_id[x] \in B
      /\ Rivals(other, x) = IF Sole(others, x) THEN {} ELSE B
  BY IndexSays
<1>7. /\ HasId(canon, x) <=> Sole(claims, x) \/ AllSame(A)
      /\ HasId(canon, x) => canon.by_id[x] = IF Sole(claims, x) THEN index.by_id[x] ELSE FirstOf(A)
      /\ Rivals(canon, x) = IF HasId(canon, x) THEN {} ELSE A
  BY CanonicalSays
<1>8. /\ HasId(canon2, x) <=> Sole(others, x) \/ AllSame(B)
      /\ HasId(canon2, x) => canon2.by_id[x] = IF Sole(others, x) THEN other.by_id[x] ELSE FirstOf(B)
      /\ Rivals(canon2, x) = IF HasId(canon2, x) THEN {} ELSE B
  BY CanonicalSays
<1>9. ASSUME Sole(claims, x), NEW b \in A, NEW o \in B
      PROVE  b.id = o.id /\ b.mod = o.mod /\ b.root = o.root /\ b.what = o.what
  <2>1. PICK c \in A : o.id = c.id /\ o.mod = c.mod /\ o.root = c.root /\ o.what = c.what
    BY <1>3
  <2>2. c = b
    BY <1>1, <1>9, SoleIsOne
  <2> QED BY <2>1, <2>2
<1>10. AllSame(A) <=> AllSame(B)
  BY <1>3, <1>4 DEF AllSame
<1>11. \A c \in A : c.mod \in Nat /\ c.id = x
  BY DEF OfId
<1>12. \A d \in B : d.mod \in Nat /\ d.id = x
  BY <1>3, <1>11
<1> HIDE DEF A, B, index, other, canon, canon2
<1>13. {d.root : d \in Firsts(A)} = {d.root : d \in Firsts(B)}
  <2>1. ASSUME NEW c \in Firsts(A) PROVE \E d \in Firsts(B) : d.root = c.root
    <3>1. c \in A /\ \A d \in A : c.mod <= d.mod
      BY DEF Firsts
    <3>2. PICK d \in B : d.mod = c.mod /\ d.root = c.root
      BY <1>4, <3>1
    <3>3. \A e \in B : d.mod <= e.mod
      BY <1>3, <3>1, <3>2
    <3> QED BY <3>2, <3>3 DEF Firsts
  <2>2. ASSUME NEW d \in Firsts(B) PROVE \E c \in Firsts(A) : d.root = c.root
    <3>1. d \in B /\ \A e \in B : d.mod <= e.mod
      BY DEF Firsts
    <3>2. PICK c \in A : d.mod = c.mod /\ d.root = c.root
      BY <1>3, <3>1
    <3>3. \A e \in A : c.mod <= e.mod
      BY <1>4, <3>1, <3>2
    <3> QED BY <3>2, <3>3 DEF Firsts
  <2> QED BY <2>1, <2>2
<1>14. FirstRoot(A) = FirstRoot(B)
  BY <1>13 DEF FirstRoot
<1>15. ASSUME AllSame(A)
       PROVE  /\ FirstOf(A).id = FirstOf(B).id /\ FirstOf(A).mod = FirstOf(B).mod
              /\ FirstOf(A).root = FirstOf(B).root /\ FirstOf(A).what = FirstOf(B).what
  <2>1. A # {} /\ B # {}
    BY <1>10, <1>15 DEF AllSame
  <2>2. FirstOf(A) \in Firsts(A) /\ FirstOf(A).root = FirstRoot(A)
    BY <1>11, <2>1, FirstIs
  <2>3. FirstOf(B) \in Firsts(B) /\ FirstOf(B).root = FirstRoot(B)
    BY <1>12, <2>1, FirstIs
  <2>4. PICK a \in A : a = FirstOf(A) /\ \A e \in A : a.mod <= e.mod
    BY <2>2 DEF Firsts
  <2>5. PICK b \in B : b = FirstOf(B) /\ \A e \in B : b.mod <= e.mod
    BY <2>3 DEF Firsts
  <2>6. PICK c \in A : b.id = c.id /\ b.mod = c.mod /\ b.root = c.root /\ b.what = c.what
    BY <1>3
  <2>7. PICK d \in B : d.id = a.id /\ d.mod = a.mod /\ d.root = a.root /\ d.what = a.what
    BY <1>4
  <2>8. a.mod <= b.mod /\ b.mod <= a.mod /\ a.mod \in Nat /\ b.mod \in Nat
    BY <1>11, <1>12, <2>4, <2>5, <2>6, <2>7
  <2>9. a.mod = b.mod
    BY <2>8
  <2>10. a.what = b.what
    BY <1>15, <2>6 DEF AllSame
  <2> QED BY <1>11, <1>12, <1>14, <2>2, <2>3, <2>4, <2>5, <2>9, <2>10
<1>16. Alike(index, other, x, to)
  BY <1>1, <1>2, <1>5, <1>6, <1>9, NothingIsCarried DEF Alike
<1>17. Alike(canon, canon2, x, to)
  <2>1. HasId(canon, x) <=> HasId(canon2, x)
    BY <1>2, <1>7, <1>8, <1>10
  <2>2. ASSUME HasId(canon, x)
        PROVE  /\ canon.by_id[x].id = canon2.by_id[x].id /\ canon.by_id[x].mod = canon2.by_id[x].mod
               /\ canon.by_id[x].root = canon2.by_id[x].root /\ canon.by_id[x].what = canon2.by_id[x].what
    <3>1. CASE Sole(claims, x)
      <4>1. canon.by_id[x] = index.by_id[x] /\ canon2.by_id[x] = other.by_id[x] /\ index.by_id[x] \in A /\ other.by_id[x] \in B
        BY <1>2, <1>5, <1>6, <1>7, <1>8, <3>1
      <4> QED BY <1>9, <3>1, <4>1
    <3>2. CASE ~Sole(claims, x)
      <4>1. AllSame(A) /\ canon.by_id[x] = FirstOf(A) /\ canon2.by_id[x] = FirstOf(B)
        BY <1>2, <1>7, <1>8, <2>1, <2>2, <3>2
      <4> QED BY <1>15, <4>1
    <3> QED BY <3>1, <3>2
  <2>3. CarriedOver(Rivals(canon, x), Rivals(canon2, x), to)
    BY <1>1, <1>7, <1>8, <2>1, NothingIsCarried
  <2> QED BY <1>7, <1>8, <2>1, <2>2, <2>3 DEF Alike
<1> QED BY <1>16, <1>17 DEF index, other, canon, canon2

------------------------------------------------------------------------------
\* Two scans of sources that match, whose hulls made of skins are among the given ids.
Twins(s, t, to, but) ==
    /\ s.sources \in Seq(Readings) /\ t.sources \in Seq(Readings) /\ Matched(to, s.sources, t.sources) /\ Countable(s.sources)
    /\ \A k \in s.skins : k.id \in but
    /\ \A k \in t.skins : k.id \in but

LEMMA TwinsClaimTheSame ==
    ASSUME NEW s, NEW t, NEW to, NEW but, Twins(s, t, to, but), NEW kind \in EntityKinds
    PROVE  /\ kind # "hulls" => CarriedOver(ClaimsOf(s, kind), ClaimsOf(t, kind), to)
           /\ \A x : (kind = "hulls" => x \notin but) =>
                /\ CarriedOver(OfId(ClaimsOf(s, kind), x), OfId(ClaimsOf(t, kind), x), to)
                /\ \A c, d \in OfId(ClaimsOf(s, kind), x) :
                     /\ c.mod \in Nat
                     /\ c.at = d.at => c = d
                     /\ c.mod = d.mod => (c.at <= d.at <=> to[c.at] <= to[d.at])
<1> DEFINE A == Claimed(s.sources, kind)
           B == Claimed(t.sources, kind)
<1>1. /\ CarriedOver(A, B, to)
      /\ \A c, d \in A : /\ c.mod \in Nat
                         /\ c.id = d.id /\ c.at = d.at => c = d
                         /\ c.mod = d.mod => (c.at <= d.at <=> to[c.at] <= to[d.at])
  BY ClaimsAreCarried DEF Twins
<1>2. kind # "hulls" => ClaimsOf(s, kind) = A /\ ClaimsOf(t, kind) = B
  BY DEF ClaimsOf
<1>3. \A c : c \in ClaimsOf(s, kind) <=> c \in A \/ (kind = "hulls" /\ c \in s.skins)
  BY DEF ClaimsOf
<1>4. \A c : c \in ClaimsOf(t, kind) <=> c \in B \/ (kind = "hulls" /\ c \in t.skins)
  BY DEF ClaimsOf
<1>5. kind # "hulls" => CarriedOver(ClaimsOf(s, kind), ClaimsOf(t, kind), to)
  BY <1>1, <1>2
<1> HIDE DEF A, B
<1>6. ASSUME NEW x, kind = "hulls" => x \notin but
      PROVE  /\ CarriedOver(OfId(ClaimsOf(s, kind), x), OfId(ClaimsOf(t, kind), x), to)
             /\ \A c, d \in OfId(ClaimsOf(s, kind), x) :
                     /\ c.mod \in Nat
                     /\ c.at = d.at => c = d
                     /\ c.mod = d.mod => (c.at <= d.at <=> to[c.at] <= to[d.at])
  <2> DEFINE C == OfId(ClaimsOf(s, kind), x)
             D == OfId(ClaimsOf(t, kind), x)
  <2>1. \A c : c \in C <=> c \in A /\ c.id = x
    BY <1>3, <1>6 DEF OfId, Twins
  <2>2. \A c : c \in D <=> c \in B /\ c.id = x
    BY <1>4, <1>6 DEF OfId, Twins
  <2> HIDE DEF C, D
  <2>3. C \in SUBSET A /\ D \in SUBSET B
    BY <2>1, <2>2
  <2>4. \A c \in A : c \in C <=> MovedTo(c, to) \in D
    <3> TAKE c \in A
    <3>1. MovedTo(c, to) \in B /\ MovedTo(c, to).id = c.id
      BY <1>1, MovedKeeps DEF CarriedOver
    <3> QED BY <2>1, <2>2, <3>1
  <2>5. CarriedOver(C, D, to)
    BY <1>1, <2>3, <2>4, SubsetsAreCarried
  <2>6. ASSUME NEW c \in C, NEW d \in C
        PROVE  /\ c.mod \in Nat
               /\ c.at = d.at => c = d
               /\ c.mod = d.mod => (c.at <= d.at <=> to[c.at] <= to[d.at])
    <3>1. c \in A /\ d \in A /\ c.id = d.id
      BY <2>1
    <3> QED BY <1>1, <3>1
  <2> QED BY <2>5, <2>6 DEF C, D
<1> QED BY <1>5, <1>6

LEMMA TwinsAreIndexedAlike ==
    ASSUME NEW s, NEW t, NEW to, NEW but, Twins(s, t, to, but), NEW kind \in EntityKinds, NEW x, kind = "hulls" => x \notin but
    PROVE  Alike(RegistryOf(ScanClaims(s))[kind], RegistryOf(ScanClaims(t))[kind], x, to)
<1> DEFINE C == ClaimsOf(s, kind)
           D == ClaimsOf(t, kind)
<1>1. CarriedOver(OfId(C, x), OfId(D, x), to) /\ \A c \in OfId(C, x) : c.mod \in Nat
  BY TwinsClaimTheSame
<1>2. ScanClaims(s)[kind] = C /\ ScanClaims(t)[kind] = D
  BY DEF ScanClaims
<1>3. /\ RegistryOf(ScanClaims(s))[kind] = IF kind = "mods" THEN Canonicalised(IndexOf(C)) ELSE IndexOf(C)
      /\ RegistryOf(ScanClaims(t))[kind] = IF kind = "mods" THEN Canonicalised(IndexOf(D)) ELSE IndexOf(D)
  BY <1>2 DEF RegistryOf
<1> HIDE DEF C, D
<1>4. /\ Alike(IndexOf(C), IndexOf(D), x, to)
      /\ Alike(Canonicalised(IndexOf(C)), Canonicalised(IndexOf(D)), x, to)
  BY <1>1, IndexesAreAlike
<1> QED BY <1>3, <1>4

LEMMA AlikeAgree ==
    ASSUME NEW index, NEW other, NEW x, NEW to, Alike(index, other, x, to)
    PROVE  HasId(index, x) = HasId(other, x) /\ SameClaims(Claimers(index, x), Claimers(other, x))
<1>1. HasId(index, x) = HasId(other, x)
  BY DEF Alike, HasId
<1>2. CASE HasId(index, x)
  <2>1. Claimers(index, x) = {index.by_id[x]} /\ Claimers(other, x) = {other.by_id[x]}
    BY <1>1, <1>2 DEF Alike, Claimers
  <2>2. Cardinality({index.by_id[x]}) = 1 /\ Cardinality({other.by_id[x]}) = 1
    BY FS_Singleton
  <2>3. /\ index.by_id[x].mod = other.by_id[x].mod
        /\ index.by_id[x].root = other.by_id[x].root /\ index.by_id[x].what = other.by_id[x].what
    BY <1>2 DEF Alike
  <2> QED BY <1>1, <2>1, <2>2, <2>3 DEF SameClaims
<1>3. CASE ~HasId(index, x)
  <2> DEFINE A == Rivals(index, x)
             B == Rivals(other, x)
  <2>1. Claimers(index, x) = A /\ Claimers(other, x) = B
    BY <1>1, <1>3 DEF Claimers
  <2>2. CarriedOver(A, B, to)
    BY DEF Alike
  <2> HIDE DEF A, B
  <2>3. SameClaims(A, B)
    BY <2>2, CarriedAreAsMany, CarriedSayTheSame DEF SameClaims
  <2> QED BY <1>1, <2>1, <2>3
<1> QED BY <1>2, <1>3

LEMMA DependenciesMatch ==
    ASSUME NEW one \in Seq(Finds), NEW other \in Seq(Finds), Len(one) = Len(other), NEW tm, Shuffled(tm, one, other),
           \A i \in DOMAIN one : other[tm[i]] = one[i]
    PROVE  /\ ToSet(one) = ToSet(other) /\ MissingDependencies(one) = MissingDependencies(other)
           /\ \A mod : DependencyClosure(one, mod) = DependencyClosure(other, mod)
<1> DEFINE S == DOMAIN one
           T == DOMAIN other
           isLast(mods, mod, i) == mods[i].mod = mod /\ \A j \in DOMAIN mods : mods[j].mod = mod => j <= i
           last(mods, mod) == CHOOSE i \in DOMAIN mods : isLast(mods, mod, i)
<1>1. /\ \A i \in S : i \in Nat /\ tm[i] \in T /\ other[tm[i]] = one[i]
      /\ \A j \in T : j \in Nat /\ \E i \in S : tm[i] = j
      /\ \A i, j \in S : one[i].mod = one[j].mod /\ i < j => tm[i] < tm[j]
  BY DEF Shuffled
<1>2. ToSet(one) = {one[i] : i \in S} /\ ToSet(other) = {other[i] : i \in T}
  BY DEF ToSet
<1>3. IsFiniteSet(S)
  <2>1. S = 1..Len(one) /\ Len(one) \in Nat
    OBVIOUS
  <2> QED BY <2>1, FS_Interval
<1>4. ToSet(one) = ToSet(other)
  <2> HIDE DEF S, T
  <2>1. \A i \in S : \E j \in T : one[i] = other[j]
    BY <1>1
  <2>2. \A j \in T : \E i \in S : one[i] = other[j]
    BY <1>1
  <2> QED BY <1>2, <2>1, <2>2
<1>5. ASSUME NEW i \in S PROVE one[last(one, one[i].mod)].deps = other[last(other, one[i].mod)].deps
  <2> DEFINE mod == one[i].mod
             P == {k \in S : one[k].mod = mod}
  <2>1. P \subseteq Nat /\ IsFiniteSet(P) /\ P # {}
    <3>1. P \subseteq S /\ i \in P
      OBVIOUS
    <3>2. P \subseteq Nat
      BY <1>1, <3>1
    <3> HIDE DEF P, S
    <3> QED BY <1>3, <3>1, <3>2, FS_Subset
  <2>2. PICK k \in P : \A n \in P : n <= k
    <3> HIDE DEF P
    <3> QED BY <2>1, GreatestNatural
  <2>3. k \in S /\ isLast(one, mod, k)
    BY <2>2
  <2>4. last(one, mod) \in S /\ isLast(one, mod, last(one, mod))
    <3> HIDE DEF isLast
    <3> QED BY <2>3
  <2> PICK m : m = last(one, mod)
    OBVIOUS
  <2>5. m \in S /\ one[m].mod = mod /\ \A j \in S : one[j].mod = mod => j <= m
    BY <2>4
  <2>6. tm[m] \in T /\ other[tm[m]] = one[m]
    BY <1>1, <2>5
  <2>7. ASSUME NEW j \in T, other[j].mod = mod PROVE j <= tm[m]
    <3>1. PICK n \in S : tm[n] = j
      BY <1>1
    <3>2. one[n].mod = mod /\ n <= m
      BY <1>1, <2>5, <2>7, <3>1
    <3>3. n = m \/ tm[n] < tm[m]
      BY <1>1, <2>5, <3>2
    <3>4. tm[m] \in Nat /\ j \in Nat
      BY <1>1, <2>6
    <3>5. j = tm[m] \/ j < tm[m]
      BY <3>1, <3>3
    <3> PICK a \in Nat : a = tm[m]
      BY <3>4
    <3>6. j = a \/ j < a
      BY <3>5
    <3>7. j <= a
      BY ONLY <3>4, <3>6, a \in Nat
    <3> QED BY <3>7
  <2>8. isLast(other, mod, tm[m])
    BY <2>5, <2>6, <2>7
  <2>9. last(other, mod) \in T /\ isLast(other, mod, last(other, mod))
    <3> HIDE DEF isLast
    <3> QED BY <2>6, <2>8
  <2> PICK n : n = last(other, mod)
    OBVIOUS
  <2>10. n = tm[m]
    <3>1. n \in T /\ other[n].mod = mod /\ \A j \in T : other[j].mod = mod => j <= n
      BY <2>9
    <3>2. n \in Nat /\ tm[m] \in Nat /\ other[tm[m]].mod = mod
      BY <1>1, <2>5, <2>6, <3>1
    <3>3. n <= tm[m] /\ tm[m] <= n
      BY <2>6, <2>7, <3>1, <3>2
    <3> PICK a \in Nat : a = tm[m]
      BY <3>2
    <3>4. n <= a /\ a <= n
      BY <3>3
    <3>5. n = a
      BY ONLY <3>2, <3>4, a \in Nat
    <3> QED BY <3>5
  <2> HIDE DEF last
  <2> QED BY <2>6, <2>10
<1>6. ModDependencies(one) = ModDependencies(other)
  <2> DEFINE X == {m.mod : m \in ToSet(one)}
  <2>1. \A mod \in X : \E i \in S : mod = one[i].mod
    BY <1>2
  <2>2. \A mod \in X : one[last(one, mod)].deps = other[last(other, mod)].deps
    <3> HIDE DEF last, X, S
    <3> QED BY <1>5, <2>1
  <2>3. ModDependencies(one) = [mod \in X |-> one[last(one, mod)].deps]
    BY DEF ModDependencies
  <2>4. ModDependencies(other) = [mod \in X |-> other[last(other, mod)].deps]
    BY <1>4 DEF ModDependencies
  <2> HIDE DEF last, X
  <2> QED BY <2>2, <2>3, <2>4
<1>7. ASSUME NEW mod PROVE DependencyClosure(one, mod) = DependencyClosure(other, mod)
  BY <1>6 DEF DependencyClosure
<1>8. MissingDependencies(one) = MissingDependencies(other)
  BY <1>4 DEF MissingDependencies
<1> QED BY <1>4, <1>7, <1>8

LEMMA ContextsAreCarried ==
    ASSUME NEW A, NEW B, NEW to, CarriedOver(A, B, to), NEW scope, NEW mod
    PROVE  Cardinality(Contextual(A, scope, mod)) = Cardinality(Contextual(B, scope, mod))
<1> DEFINE own(S) == {c \in S : c.mod = mod}
           needed(S) == {c \in S : c.mod \in scope \ {mod, Core}}
           base(S) == {c \in S : c.mod = Core}
<1>1. \A c \in A : MovedTo(c, to) \in B /\ MovedTo(c, to).mod = c.mod
  BY MovedKeeps DEF CarriedOver
<1>2. CarriedOver(own(A), own(B), to)
  <2>1. \A c \in A : c \in own(A) <=> MovedTo(c, to) \in own(B)
    BY <1>1
  <2>2. own(A) \in SUBSET A /\ own(B) \in SUBSET B
    OBVIOUS
  <2> HIDE DEF own
  <2> QED BY <2>1, <2>2, SubsetsAreCarried
<1>3. CarriedOver(needed(A), needed(B), to)
  <2>1. \A c \in A : c \in needed(A) <=> MovedTo(c, to) \in needed(B)
    BY <1>1
  <2>2. needed(A) \in SUBSET A /\ needed(B) \in SUBSET B
    OBVIOUS
  <2> HIDE DEF needed
  <2> QED BY <2>1, <2>2, SubsetsAreCarried
<1>4. CarriedOver(base(A), base(B), to)
  <2>1. \A c \in A : c \in base(A) <=> MovedTo(c, to) \in base(B)
    BY <1>1
  <2>2. base(A) \in SUBSET A /\ base(B) \in SUBSET B
    OBVIOUS
  <2> HIDE DEF base
  <2> QED BY <2>1, <2>2, SubsetsAreCarried
<1>5. \A S : Contextual(S, scope, mod) = IF own(S) # {} THEN own(S) ELSE IF needed(S) # {} THEN needed(S) ELSE base(S)
  BY DEF Contextual
<1> HIDE DEF own, needed, base
<1>6. (own(A) = {} <=> own(B) = {}) /\ (needed(A) = {} <=> needed(B) = {})
  BY <1>2, <1>3 DEF CarriedOver
<1>7. /\ Cardinality(own(A)) = Cardinality(own(B)) /\ Cardinality(needed(A)) = Cardinality(needed(B))
      /\ Cardinality(base(A)) = Cardinality(base(B))
  BY <1>2, <1>3, <1>4, CarriedAreAsMany
<1> QED BY <1>5, <1>6, <1>7

LEMMA AlikeResolve ==
    ASSUME NEW index, NEW other, NEW x, NEW to, Alike(index, other, x, to), NEW one, NEW two, NEW mod,
           DependencyClosure(one, mod) = DependencyClosure(two, mod), NEW kind
    PROVE  Resolves(index, kind, x, one, mod) <=> Resolves(other, kind, x, two, mod)
<1>1. CarriedOver(Rivals(index, x), Rivals(other, x), to) /\ (HasId(index, x) <=> HasId(other, x))
  BY DEF Alike
<1>2. Cardinality(Contextual(Rivals(index, x), DependencyClosure(one, mod), mod))
        = Cardinality(Contextual(Rivals(other, x), DependencyClosure(two, mod), mod))
  BY <1>1, ContextsAreCarried
<1> QED BY <1>1, <1>2 DEF Resolves

LEMMA AlikeFactions ==
    ASSUME NEW index, NEW other, NEW x, NEW to, Alike(index, other, x, to)
    PROVE  FactionKnows(index, x) = FactionKnows(other, x)
<1>1. {c.what : c \in Rivals(index, x)} = {c.what : c \in Rivals(other, x)}
  BY CarriedSayTheSame DEF Alike
<1> QED BY <1>1 DEF Alike, FactionKnows

\* What a variant names, by kind.
Named(v, kind) ==
    IF kind = "hulls" THEN {v.what.hull} \ {Gone} ELSE IF kind = "weapons" THEN v.what.weapons ELSE v.what.mods

LEMMA UnresolvedAre ==
    ASSUME NEW read, NEW reg, NEW u
    PROVE  u \in Unresolved(read, reg) <=>
             \E v \in ClaimsOf(read, "variants") : \E kind \in {"hulls", "weapons", "mods"} : \E x \in Named(v, kind) :
                u = <<v.id, kind, x>> /\ ~Resolves(reg[kind], kind, x, read.mods, v.mod)
<1> DEFINE V == ClaimsOf(read, "variants")
           refs == UNION {({v} \X {"hulls"} \X ({v.what.hull} \ {Gone})) \cup ({v} \X {"weapons"} \X v.what.weapons)
                          \cup ({v} \X {"mods"} \X v.what.mods) : v \in V}
           bad == {r \in refs : ~Resolves(reg[r[2]], r[2], r[3], read.mods, r[1].mod)}
<1>1. \A r : r \in refs <=> \E v \in V : \E kind \in {"hulls", "weapons", "mods"} : \E x \in Named(v, kind) : r = <<v, kind, x>>
  <2> DEFINE of(v) == ({v} \X {"hulls"} \X ({v.what.hull} \ {Gone})) \cup ({v} \X {"weapons"} \X v.what.weapons)
                          \cup ({v} \X {"mods"} \X v.what.mods)
  <2>1. ASSUME NEW v, NEW r PROVE r \in of(v) <=> \E kind \in {"hulls", "weapons", "mods"} : \E x \in Named(v, kind) : r = <<v, kind, x>>
    <3>1. r \in {v} \X {"hulls"} \X ({v.what.hull} \ {Gone}) <=> \E x \in Named(v, "hulls") : r = <<v, "hulls", x>>
      BY DEF Named
    <3>2. r \in {v} \X {"weapons"} \X v.what.weapons <=> \E x \in Named(v, "weapons") : r = <<v, "weapons", x>>
      BY DEF Named
    <3>3. r \in {v} \X {"mods"} \X v.what.mods <=> \E x \in Named(v, "mods") : r = <<v, "mods", x>>
      BY DEF Named
    <3>4. r \in of(v) <=> \/ r \in {v} \X {"hulls"} \X ({v.what.hull} \ {Gone}) \/ r \in {v} \X {"weapons"} \X v.what.weapons
                          \/ r \in {v} \X {"mods"} \X v.what.mods
      BY Zenon
    <3> HIDE DEF of
    <3> QED BY <3>1, <3>2, <3>3, <3>4
  <2>2. refs = UNION {of(v) : v \in V}
    OBVIOUS
  <2> HIDE DEF of, refs
  <2> QED BY <2>1, <2>2
<1>2. u \in Unresolved(read, reg) <=> \E r \in bad : u = <<r[1].id, r[2], r[3]>>
  <2>1. Unresolved(read, reg) = {<<r[1].id, r[2], r[3]>> : r \in bad}
    BY DEF Unresolved
  <2> HIDE DEF bad
  <2> QED BY <2>1
<1> HIDE DEF refs
<1>3. ASSUME NEW r \in bad, u = <<r[1].id, r[2], r[3]>>
      PROVE  \E v \in V : \E kind \in {"hulls", "weapons", "mods"} : \E x \in Named(v, kind) :
                u = <<v.id, kind, x>> /\ ~Resolves(reg[kind], kind, x, read.mods, v.mod)
  <2>1. r \in refs /\ ~Resolves(reg[r[2]], r[2], r[3], read.mods, r[1].mod)
    OBVIOUS
  <2>2. PICK v \in V : \E kind \in {"hulls", "weapons", "mods"} : \E x \in Named(v, kind) : r = <<v, kind, x>>
    BY <1>1, <2>1
  <2>3. PICK kind \in {"hulls", "weapons", "mods"} : \E x \in Named(v, kind) : r = <<v, kind, x>>
    BY <2>2
  <2>4. PICK x \in Named(v, kind) : r = <<v, kind, x>>
    BY <2>3
  <2>5. r[1] = v /\ r[2] = kind /\ r[3] = x
    BY <2>4
  <2> QED BY <1>3, <2>1, <2>5
<1>4. ASSUME NEW v \in V, NEW kind \in {"hulls", "weapons", "mods"}, NEW x \in Named(v, kind),
             u = <<v.id, kind, x>>, ~Resolves(reg[kind], kind, x, read.mods, v.mod)
      PROVE  \E r \in bad : u = <<r[1].id, r[2], r[3]>>
  <2> DEFINE r == <<v, kind, x>>
  <2>1. r \in refs
    BY <1>1
  <2>2. r[1] = v /\ r[2] = kind /\ r[3] = x
    OBVIOUS
  <2> HIDE DEF r
  <2>3. ~Resolves(reg[r[2]], r[2], r[3], read.mods, r[1].mod)
    BY <1>4, <2>2
  <2> QED BY <1>4, <2>1, <2>2, <2>3
<1> QED BY <1>2, <1>3, <1>4

------------------------------------------------------------------------------
\* Two registries that say the same of every id, but for some hulls; the mappings of a variant make a list.
RegistriesAlike(reg, ref, to, but) ==
    \A kind \in EntityKinds : \A x : (kind = "hulls" => x \notin but) => Alike(reg[kind], ref[kind], x, to)
Listing(v) == v.what.modules = Gone \/ v.what.modules \in Seq(ToSet(v.what.modules))

LEMMA MappingsAreList ==
    ASSUME NEW v, Listing(v) PROVE \E N \in Nat : DOMAIN Mappings(v) = 1..N
<1>1. CASE v.what.modules = Gone
  <2>1. DOMAIN << >> = 1..0
    OBVIOUS
  <2> QED BY <1>1, <2>1 DEF Mappings
<1>2. CASE v.what.modules # Gone
  <2> DEFINE m == v.what.modules
  <2>1. m \in Seq(ToSet(m))
    BY <1>2 DEF Listing
  <2> HIDE DEF m
  <2>2. DOMAIN m = 1..Len(m) /\ Len(m) \in Nat
    BY <2>1
  <2> QED BY <1>2, <2>2 DEF Mappings, m
<1> QED BY <1>1, <1>2

LEMMA ModulesMatch ==
    ASSUME NEW reg, NEW ref, NEW to, NEW but, RegistriesAlike(reg, ref, to, but), NEW v, NEW w, v.what = w.what,
           v.what.hull \notin but, NEW m
    PROVE  /\ ModuleProfile(reg, v, m).hull = ModuleProfile(ref, w, m).hull
           /\ ModuleProfile(reg, v, m).hull \notin but => ModuleProfile(reg, v, m) = ModuleProfile(ref, w, m)
           /\ ModuleProfile(reg, v, m).resolution = "RESOLVED" =>
                 HasId(reg["variants"], ModuleProfile(reg, v, m).child) /\ HasId(reg["hulls"], ModuleProfile(reg, v, m).hull)
<1> DEFINE r == Resolution(reg, v, m.child)
           q == Resolution(ref, w, m.child)
           hull == reg["variants"].by_id[m.child].what.hull
           hull2 == ref["variants"].by_id[m.child].what.hull
<1>1. HasId(reg["hulls"], v.what.hull) <=> HasId(ref["hulls"], w.what.hull)
  BY DEF RegistriesAlike, Alike, EntityKinds
<1>2. /\ HasId(reg["variants"], m.child) <=> HasId(ref["variants"], m.child)
      /\ HasId(reg["variants"], m.child) => hull = hull2
  BY DEF RegistriesAlike, Alike, EntityKinds
<1>3. hull = hull2 /\ hull \notin but => (HasId(reg["hulls"], hull) <=> HasId(ref["hulls"], hull2))
  BY DEF RegistriesAlike, Alike, EntityKinds
<1>4. /\ r = IF ~HasId(reg["hulls"], v.what.hull) THEN "UNRESOLVED_PARENT"
             ELSE IF ~HasId(reg["variants"], m.child) THEN "UNRESOLVED_CHILD_VARIANT"
             ELSE IF ~HasId(reg["hulls"], hull) THEN "UNRESOLVED_CHILD_HULL" ELSE "RESOLVED"
      /\ q = IF ~HasId(ref["hulls"], w.what.hull) THEN "UNRESOLVED_PARENT"
             ELSE IF ~HasId(ref["variants"], m.child) THEN "UNRESOLVED_CHILD_VARIANT"
             ELSE IF ~HasId(ref["hulls"], hull2) THEN "UNRESOLVED_CHILD_HULL" ELSE "RESOLVED"
  BY DEF Resolution
<1>5. /\ ModuleProfile(reg, v, m) =
             [slot |-> m.slot, child |-> m.child, resolution |-> r, hull |-> IF r \in {"RESOLVED", "UNRESOLVED_CHILD_HULL"} THEN hull ELSE Gone]
      /\ ModuleProfile(ref, w, m) =
             [slot |-> m.slot, child |-> m.child, resolution |-> q, hull |-> IF q \in {"RESOLVED", "UNRESOLVED_CHILD_HULL"} THEN hull2 ELSE Gone]
  BY DEF ModuleProfile
<1> HIDE DEF r, q, hull, hull2
<1>6. r \in {"RESOLVED", "UNRESOLVED_CHILD_HULL"} <=> HasId(reg["hulls"], v.what.hull) /\ HasId(reg["variants"], m.child)
  BY <1>4
<1>7. q \in {"RESOLVED", "UNRESOLVED_CHILD_HULL"} <=> HasId(ref["hulls"], w.what.hull) /\ HasId(ref["variants"], m.child)
  BY <1>4
<1>8. (r \in {"RESOLVED", "UNRESOLVED_CHILD_HULL"} <=> q \in {"RESOLVED", "UNRESOLVED_CHILD_HULL"})
        /\ (r \in {"RESOLVED", "UNRESOLVED_CHILD_HULL"} => hull = hull2)
  BY <1>1, <1>2, <1>6, <1>7
<1> PICK a, b : /\ a = ModuleProfile(reg, v, m) /\ b = ModuleProfile(ref, w, m)
  OBVIOUS
<1>9. /\ a.hull = (IF r \in {"RESOLVED", "UNRESOLVED_CHILD_HULL"} THEN hull ELSE Gone) /\ a.child = m.child /\ a.resolution = r
      /\ b.hull = (IF q \in {"RESOLVED", "UNRESOLVED_CHILD_HULL"} THEN hull2 ELSE Gone)
  BY <1>5
<1>10. a.hull = b.hull
  BY <1>8, <1>9
<1>11. ASSUME a.hull \notin but PROVE a = b
  <2>1. r = q
    <3>1. CASE r \in {"RESOLVED", "UNRESOLVED_CHILD_HULL"}
      <4>1. hull = hull2 /\ hull \notin but
        BY <1>8, <1>9, <1>11, <3>1
      <4>2. HasId(reg["hulls"], hull) <=> HasId(ref["hulls"], hull2)
        BY <1>3, <4>1
      <4> QED BY <1>1, <1>2, <1>4, <4>2
    <3>2. CASE r \notin {"RESOLVED", "UNRESOLVED_CHILD_HULL"}
      BY <1>1, <1>2, <1>4, <1>6, <1>7, <3>2
    <3> QED BY <3>1, <3>2
  <2> QED BY <1>5, <1>8, <2>1
<1>12. ASSUME r = "RESOLVED" PROVE HasId(reg["variants"], m.child) /\ HasId(reg["hulls"], hull) /\ a.hull = hull
  BY <1>4, <1>9, <1>12
<1> QED BY <1>9, <1>10, <1>11, <1>12

LEMMA FeaturesMatch ==
    ASSUME NEW reg, NEW ref, NEW to, NEW but, RegistriesAlike(reg, ref, to, but), NEW v, NEW w, v.what = w.what,
           v.what.hull \notin but
    PROVE  StructuralFeatures(reg, v) = StructuralFeatures(ref, w)
<1>1. Mappings(v) = Mappings(w)
  BY DEF Mappings
<1>2. (Repeats(v) <=> Repeats(w)) /\ Children(v) = Children(w)
  BY <1>1 DEF Repeats, Children
<1>3. HasId(reg["hulls"], v.what.hull) <=> HasId(ref["hulls"], w.what.hull)
  BY DEF RegistriesAlike, Alike, EntityKinds
<1>4. HasId(reg["hulls"], v.what.hull) => reg["hulls"].by_id[v.what.hull].what = ref["hulls"].by_id[w.what.hull].what
  BY DEF RegistriesAlike, Alike, EntityKinds
<1>5. {f \in {"REPEATED_MODULES"} : Repeats(v)} = {f \in {"REPEATED_MODULES"} : Repeats(w)}
  BY <1>2
<1>6. {f \in {"ASYMMETRIC_MODULES"} : Cardinality(Children(v)) > 1} = {f \in {"ASYMMETRIC_MODULES"} : Cardinality(Children(w)) > 1}
  BY <1>2
<1>7. {f \in {"STATION_STYLE_MODULES"} : HasId(reg["hulls"], v.what.hull) /\ HullDefinition(reg["hulls"].by_id[v.what.hull].what).station}
        = {f \in {"STATION_STYLE_MODULES"} : HasId(ref["hulls"], w.what.hull) /\ HullDefinition(ref["hulls"].by_id[w.what.hull].what).station}
  BY <1>3, <1>4
<1> QED BY <1>5, <1>6, <1>7 DEF StructuralFeatures

\* The hulls of a profile, and what is compared of it.
PartsOf(p) == {p.modules[i].hull : i \in DOMAIN p.modules}
HullsOf(p) == {p.hull} \cup PartsOf(p)
SaysOf(c) == <<c.root, c.id, c.what>>
StructureOf(reg, p) ==
    LET built == ResolvedStructure(reg, p)
    IN [slot \in DOMAIN built |-> <<{SaysOf(c) : c \in built[slot].variant}, {SaysOf(c) : c \in built[slot].hull}>>]

LEMMA ProfileIs ==
    ASSUME NEW reg, NEW v
    PROVE  LET p == ShipProfile(reg, v)
           IN /\ p.variant = v.id /\ p.hull = v.what.hull /\ p.mod = v.mod /\ p.at = v.at
              /\ DOMAIN p.modules = DOMAIN Mappings(v)
              /\ \A i \in DOMAIN Mappings(v) : p.modules[i] = ModuleProfile(reg, v, Mappings(v)[i])
<1> DEFINE modules == [i \in DOMAIN Mappings(v) |-> ModuleProfile(reg, v, Mappings(v)[i])]
           p == ShipProfile(reg, v)
<1>1. p = [variant |-> v.id, hull |-> v.what.hull, mod |-> v.mod, at |-> v.at, modules |-> modules,
           features |-> StructuralFeatures(reg, v), certain |-> \A i \in DOMAIN modules : modules[i].resolution = "RESOLVED"]
  BY DEF ShipProfile
<1>2. DOMAIN modules = DOMAIN Mappings(v) /\ \A i \in DOMAIN Mappings(v) : modules[i] = ModuleProfile(reg, v, Mappings(v)[i])
  OBVIOUS
<1> HIDE DEF modules, p
<1>3. p.variant = v.id /\ p.hull = v.what.hull /\ p.mod = v.mod /\ p.at = v.at /\ p.modules = modules
  BY <1>1
<1> QED BY <1>2, <1>3 DEF p

LEMMA PartsMatch ==
    ASSUME NEW reg, NEW ref, NEW to, NEW but, RegistriesAlike(reg, ref, to, but), NEW v, NEW w, v.what = w.what,
           v.id = w.id, v.mod = w.mod, v.what.hull \notin but, NEW p, p = ShipProfile(reg, v), NEW q, q = ShipProfile(ref, w)
    PROVE  /\ PartsOf(p) = PartsOf(q) /\ DOMAIN p.modules = DOMAIN q.modules
           /\ \A i \in DOMAIN p.modules : p.modules[i].hull \notin but => p.modules[i] = q.modules[i]
<1> DEFINE D == DOMAIN Mappings(v)
<1>1. Mappings(v) = Mappings(w)
  BY DEF Mappings
<1>2. /\ DOMAIN p.modules = D
      /\ \A i \in D : p.modules[i] = ModuleProfile(reg, v, Mappings(v)[i])
  BY ProfileIs
<1>3. /\ DOMAIN q.modules = D
      /\ \A i \in D : q.modules[i] = ModuleProfile(ref, w, Mappings(v)[i])
  BY <1>1, ProfileIs
<1>4. ASSUME NEW i \in D
      PROVE  /\ p.modules[i].hull = q.modules[i].hull
             /\ p.modules[i].hull \notin but => p.modules[i] = q.modules[i]
  <2> PICK m : m = Mappings(v)[i]
    OBVIOUS
  <2>1. /\ ModuleProfile(reg, v, m).hull = ModuleProfile(ref, w, m).hull
        /\ ModuleProfile(reg, v, m).hull \notin but => ModuleProfile(reg, v, m) = ModuleProfile(ref, w, m)
    BY ModulesMatch
  <2>2. p.modules[i] = ModuleProfile(reg, v, m) /\ q.modules[i] = ModuleProfile(ref, w, m)
    BY <1>2, <1>3
  <2> QED BY <2>1, <2>2
<1> HIDE DEF D
<1> QED BY <1>2, <1>3, <1>4 DEF PartsOf

LEMMA ProfilesMatch ==
    ASSUME NEW reg, NEW ref, NEW to, NEW but, RegistriesAlike(reg, ref, to, but), NEW v, NEW w, v.what = w.what,
           v.id = w.id, v.mod = w.mod
    PROVE  LET p == ShipProfile(reg, v)
               q == ShipProfile(ref, w)
           IN /\ HullsOf(p) \cap but = {} <=> HullsOf(q) \cap but = {}
              /\ HullsOf(p) \cap but = {} => p.modules = q.modules /\ [p EXCEPT !.at = 0] = [q EXCEPT !.at = 0]
<1> DEFINE p == ShipProfile(reg, v)
           q == ShipProfile(ref, w)
           D == DOMAIN Mappings(v)
<1>1. Mappings(v) = Mappings(w)
  BY DEF Mappings
<1>2. /\ p.hull = v.what.hull /\ DOMAIN p.modules = D
      /\ \A i \in D : p.modules[i] = ModuleProfile(reg, v, Mappings(v)[i])
  BY ProfileIs
<1>3. /\ q.hull = v.what.hull
      /\ \A i \in D : q.modules[i] = ModuleProfile(ref, w, Mappings(v)[i])
  BY <1>1, ProfileIs
<1> HIDE DEF D
<1>5. ASSUME v.what.hull \notin but
      PROVE  PartsOf(p) = PartsOf(q) /\ \A i \in D : p.modules[i].hull \notin but => p.modules[i] = q.modules[i]
  <2> HIDE DEF p, q
  <2> PICK a : a = p
    OBVIOUS
  <2> PICK b : b = q
    OBVIOUS
  <2>1. a = ShipProfile(reg, v) /\ b = ShipProfile(ref, w)
    BY DEF p, q
  <2>2. /\ PartsOf(a) = PartsOf(b)
        /\ \A i \in DOMAIN a.modules : a.modules[i].hull \notin but => a.modules[i] = b.modules[i]
    BY <1>5, <2>1, PartsMatch
  <2> QED BY <1>2, <2>2
<1>6. HullsOf(p) \cap but = {} <=> HullsOf(q) \cap but = {}
  <2> HIDE DEF p, q
  <2>1. CASE v.what.hull \in but
    BY <1>2, <1>3, <2>1 DEF HullsOf
  <2>2. CASE v.what.hull \notin but
    <3>1. HullsOf(p) = HullsOf(q)
      BY <1>2, <1>3, <1>5, <2>2 DEF HullsOf
    <3> QED BY <3>1
  <2> QED BY <2>1, <2>2
<1>7. ASSUME HullsOf(p) \cap but = {} PROVE p.modules = q.modules /\ [p EXCEPT !.at = 0] = [q EXCEPT !.at = 0]
  <2> DEFINE ms(r, x) == [i \in DOMAIN Mappings(x) |-> ModuleProfile(r, x, Mappings(x)[i])]
             sure(m) == \A i \in DOMAIN m : m[i].resolution = "RESOLVED"
  <2>1. v.what.hull \notin but /\ \A i \in D : p.modules[i].hull \notin but
    <3> HIDE DEF p, q
    <3> QED BY <1>2, <1>7 DEF HullsOf, PartsOf
  <2>2. \A i \in D : p.modules[i] = q.modules[i]
    BY <1>5, <2>1
  <2>3. \A i \in D : ModuleProfile(reg, v, Mappings(v)[i]) = ModuleProfile(ref, w, Mappings(w)[i])
    BY <1>1, <1>2, <1>3, <2>2
  <2>4. ms(reg, v) = ms(ref, w)
    BY <1>1, <2>3 DEF D
  <2>5. /\ p = [variant |-> v.id, hull |-> v.what.hull, mod |-> v.mod, at |-> v.at, modules |-> ms(reg, v),
                features |-> StructuralFeatures(reg, v), certain |-> sure(ms(reg, v))]
        /\ q = [variant |-> w.id, hull |-> w.what.hull, mod |-> w.mod, at |-> w.at, modules |-> ms(ref, w),
                features |-> StructuralFeatures(ref, w), certain |-> sure(ms(ref, w))]
    BY DEF ShipProfile
  <2>6. StructuralFeatures(reg, v) = StructuralFeatures(ref, w)
    BY <2>1, FeaturesMatch
  <2> HIDE DEF ms, sure
  <2> PICK a : a = p
    OBVIOUS
  <2> PICK b : b = q
    OBVIOUS
  <2> PICK m : m = ms(reg, v)
    OBVIOUS
  <2> PICK f : f = StructuralFeatures(reg, v)
    OBVIOUS
  <2> HIDE DEF p, q
  <2>7. /\ a = [variant |-> v.id, hull |-> v.what.hull, mod |-> v.mod, at |-> v.at, modules |-> m, features |-> f, certain |-> sure(m)]
        /\ b = [variant |-> v.id, hull |-> v.what.hull, mod |-> v.mod, at |-> w.at, modules |-> m, features |-> f, certain |-> sure(m)]
    BY <2>4, <2>5, <2>6
  <2>8. a.modules = b.modules
    BY <2>7
  <2>9. [a EXCEPT !.at = 0] = [variant |-> v.id, hull |-> v.what.hull, mod |-> v.mod, at |-> 0, modules |-> m, features |-> f, certain |-> sure(m)]
    BY <2>7
  <2>10. [b EXCEPT !.at = 0] = [variant |-> v.id, hull |-> v.what.hull, mod |-> v.mod, at |-> 0, modules |-> m, features |-> f, certain |-> sure(m)]
    BY <2>7
  <2> QED BY <2>8, <2>9, <2>10
<1> QED BY <1>6, <1>7

LEMMA StructuresMatch ==
    ASSUME NEW reg, NEW ref, NEW to, NEW but, RegistriesAlike(reg, ref, to, but), NEW v, NEW p, p = ShipProfile(reg, v), Listing(v),
           NEW q, q.modules = p.modules, HullsOf(p) \cap but = {}
    PROVE  StructureOf(reg, p) = StructureOf(ref, q)
<1> DEFINE D == DOMAIN p.modules
           slots == {p.modules[i].slot : i \in D}
           isLast(slot, i) == p.modules[i].slot = slot /\ \A j \in D : p.modules[j].slot = slot => j <= i
           last(slot) == CHOOSE i \in D : isLast(slot, i)
           resolved(r, slot) ==
               IF p.modules[last(slot)].resolution = "RESOLVED"
               THEN [variant |-> {r["variants"].by_id[p.modules[last(slot)].child]}, hull |-> {r["hulls"].by_id[p.modules[last(slot)].hull]}]
               ELSE [variant |-> {}, hull |-> {}]
<1>1. /\ DOMAIN p.modules = DOMAIN Mappings(v) /\ p.hull = v.what.hull
      /\ \A i \in DOMAIN Mappings(v) : p.modules[i] = ModuleProfile(reg, v, Mappings(v)[i])
  BY ProfileIs
<1>2. PICK N \in Nat : D = 1..N
  BY <1>1, MappingsAreList
<1>3. ASSUME NEW slot \in slots PROVE last(slot) \in D
  <2> DEFINE P == {i \in D : p.modules[i].slot = slot}
  <2>1. P \subseteq Nat /\ IsFiniteSet(P) /\ P # {}
    <3>1. IsFiniteSet(D) /\ P \subseteq D /\ D \subseteq Nat
      <4>1. P \subseteq D
        OBVIOUS
      <4>2. IsFiniteSet(1..N) /\ 1..N \subseteq Nat
        BY FS_Interval
      <4> HIDE DEF P, D
      <4> QED BY <1>2, <4>1, <4>2
    <3>2. P # {}
      OBVIOUS
    <3> HIDE DEF P, D
    <3> QED BY <3>1, <3>2, FS_Subset
  <2>2. PICK k \in P : \A n \in P : n <= k
    <3> HIDE DEF P
    <3> QED BY <2>1, GreatestNatural
  <2>3. k \in D /\ isLast(slot, k)
    BY <2>2
  <2> HIDE DEF isLast, D
  <2> QED BY <2>3
<1>4. /\ ResolvedStructure(reg, p) = [slot \in slots |-> resolved(reg, slot)]
      /\ ResolvedStructure(ref, q) = [slot \in slots |-> resolved(ref, slot)]
  BY DEF ResolvedStructure
<1> DEFINE said(r, slot) == <<{SaysOf(c) : c \in resolved(r, slot).variant}, {SaysOf(c) : c \in resolved(r, slot).hull}>>
<1>5. ASSUME NEW slot \in slots PROVE said(reg, slot) = said(ref, slot)
  <2> DEFINE m == p.modules[last(slot)]
  <2>1. CASE m.resolution = "RESOLVED"
    <3>1. PICK i \in D : i = last(slot)
      BY <1>3
    <3>2. m = ModuleProfile(reg, v, Mappings(v)[i]) /\ v.what.hull \notin but /\ m.hull \notin but
      BY <1>1, <3>1 DEF HullsOf, PartsOf
    <3>3. HasId(reg["variants"], m.child) /\ HasId(reg["hulls"], m.hull)
      <4> HIDE DEF m, D, last
      <4> QED BY <2>1, <3>2, ModulesMatch
    <3> DEFINE a == reg["variants"].by_id[m.child]
               b == ref["variants"].by_id[m.child]
               c == reg["hulls"].by_id[m.hull]
               d == ref["hulls"].by_id[m.hull]
    <3> HIDE DEF m
    <3>4. a.id = b.id /\ a.root = b.root /\ a.what = b.what
      BY <3>3 DEF RegistriesAlike, Alike, EntityKinds
    <3>5. c.id = d.id /\ c.root = d.root /\ c.what = d.what
      BY <3>2, <3>3 DEF RegistriesAlike, Alike, EntityKinds
    <3>6. /\ resolved(reg, slot).variant = {a} /\ resolved(reg, slot).hull = {c}
          /\ resolved(ref, slot).variant = {b} /\ resolved(ref, slot).hull = {d}
      BY <2>1 DEF m
    <3> HIDE DEF a, b, c, d, resolved
    <3>7. said(reg, slot) = <<{SaysOf(a)}, {SaysOf(c)}>> /\ said(ref, slot) = <<{SaysOf(b)}, {SaysOf(d)}>>
      BY <3>6
    <3> HIDE DEF said
    <3> QED BY <3>4, <3>5, <3>7 DEF SaysOf
  <2>2. CASE m.resolution # "RESOLVED"
    <3>1. resolved(reg, slot) = resolved(ref, slot)
      BY <2>2
    <3> QED BY <3>1
  <2> QED BY <2>1, <2>2
<1>6. /\ StructureOf(reg, p) = [slot \in slots |-> said(reg, slot)]
      /\ StructureOf(ref, q) = [slot \in slots |-> said(ref, slot)]
  <2> HIDE DEF slots, resolved
  <2> QED BY <1>4 DEF StructureOf
<1> HIDE DEF slots, said
<1> QED BY <1>5, <1>6

------------------------------------------------------------------------------
\* The variants with mappings, and those of one hull.
Composites(read) == {c \in ClaimsOf(read, "variants") : Mappings(c) # << >>}
CompositesOf(read, id) == {v \in Composites(read) : v.what.hull = id}
ProfilesOf(read, reg, id) == {p \in ShipProfiles(read, reg) : p.hull = id}
ShipsOf(read, reg, but) ==
    {<<[p EXCEPT !.at = 0], StructureOf(reg, p)>> : p \in {p \in ShipProfiles(read, reg) : HullsOf(p) \cap but = {}}}

LEMMA ComposedIs ==
    ASSUME NEW read, NEW reg, NEW but
    PROVE  Composed(read, reg, but) = [ships |-> ShipsOf(read, reg, but), hulls |-> {d \in HullDefinitions(read, reg) : d.hull \notin but}]
BY DEF Composed, ShipsOf, StructureOf, SaysOf, HullsOf, PartsOf

LEMMA CompositesAreCarried ==
    ASSUME NEW s, NEW t, NEW to, NEW but, Twins(s, t, to, but)
    PROVE  /\ CarriedOver(Composites(s), Composites(t), to) /\ \A v \in Composites(s) : Listing(v)
           /\ \A id : CarriedOver(CompositesOf(s, id), CompositesOf(t, id), to)
<1> DEFINE A == ClaimsOf(s, "variants")
           B == ClaimsOf(t, "variants")
<1>1. CarriedOver(A, B, to)
  BY TwinsClaimTheSame DEF EntityKinds
<1>2. A = Claimed(s.sources, "variants")
  BY DEF ClaimsOf
<1>3. \A v \in A : Listing(v)
  <2> TAKE v \in A
  <2>1. /\ v.at \in DOMAIN s.sources /\ v.id \in DOMAIN s.sources[v.at].has["variants"]
        /\ v.what = s.sources[v.at].has["variants"][v.id]
    BY <1>2, ClaimsAre
  <2> QED BY <2>1 DEF Twins, Countable, Listing
<1> HIDE DEF A, B
<1>4. \A c \in A : MovedTo(c, to) \in B /\ MovedTo(c, to).what = c.what /\ Mappings(MovedTo(c, to)) = Mappings(c)
  BY <1>1, MovedKeeps DEF CarriedOver, Mappings
<1>5. CarriedOver(Composites(s), Composites(t), to)
  <2>1. Composites(s) \in SUBSET A /\ Composites(t) \in SUBSET B
    BY DEF Composites, A, B
  <2>2. \A c \in A : c \in Composites(s) <=> MovedTo(c, to) \in Composites(t)
    BY <1>4 DEF Composites, A, B
  <2> QED BY <1>1, <2>1, <2>2, SubsetsAreCarried
<1>6. ASSUME NEW id PROVE CarriedOver(CompositesOf(s, id), CompositesOf(t, id), to)
  <2>1. CompositesOf(s, id) \in SUBSET Composites(s) /\ CompositesOf(t, id) \in SUBSET Composites(t)
    BY DEF CompositesOf
  <2>2. \A c \in Composites(s) : MovedTo(c, to) \in Composites(t) /\ c \in A
    BY <1>5 DEF CarriedOver, Composites, A
  <2>3. \A c \in Composites(s) : c \in CompositesOf(s, id) <=> MovedTo(c, to) \in CompositesOf(t, id)
    BY <1>4, <2>2 DEF CompositesOf
  <2> QED BY <1>5, <2>1, <2>3, SubsetsAreCarried
<1>7. \A v \in Composites(s) : Listing(v)
  BY <1>3 DEF Composites, A
<1> QED BY <1>5, <1>6, <1>7

LEMMA ShipsMatch ==
    ASSUME NEW s, NEW t, NEW to, NEW but, Twins(s, t, to, but), NEW reg, NEW ref, RegistriesAlike(reg, ref, to, but)
    PROVE  ShipsOf(s, reg, but) = ShipsOf(t, ref, but)
<1> DEFINE A == Composites(s)
           B == Composites(t)
           entry(r, p) == <<[p EXCEPT !.at = 0], StructureOf(r, p)>>
           clean(p) == HullsOf(p) \cap but = {}
<1>1. CarriedOver(A, B, to) /\ \A v \in A : Listing(v)
  BY CompositesAreCarried
<1>2. ShipProfiles(s, reg) = {ShipProfile(reg, v) : v \in A} /\ ShipProfiles(t, ref) = {ShipProfile(ref, w) : w \in B}
  BY DEF ShipProfiles, Composites
<1> HIDE DEF A, B
<1>3. ASSUME NEW v \in A, NEW w, w = MovedTo(v, to)
      PROVE  /\ clean(ShipProfile(reg, v)) <=> clean(ShipProfile(ref, w))
             /\ clean(ShipProfile(reg, v)) => entry(reg, ShipProfile(reg, v)) = entry(ref, ShipProfile(ref, w))
  <2>1. v.what = w.what /\ v.id = w.id /\ v.mod = w.mod
    BY <1>3, MovedKeeps
  <2> PICK p : p = ShipProfile(reg, v)
    OBVIOUS
  <2> PICK q : q = ShipProfile(ref, w)
    OBVIOUS
  <2>2. /\ clean(p) <=> clean(q)
        /\ clean(p) => p.modules = q.modules /\ [p EXCEPT !.at = 0] = [q EXCEPT !.at = 0]
    BY <2>1, ProfilesMatch
  <2>3. ASSUME clean(p) PROVE StructureOf(reg, p) = StructureOf(ref, q)
    <3>1. q.modules = p.modules /\ Listing(v)
      BY <1>1, <2>2, <2>3
    <3> QED BY <2>3, <3>1, StructuresMatch
  <2> HIDE DEF clean
  <2>4. clean(p) => entry(reg, p) = entry(ref, q)
    BY <2>2, <2>3
  <2> HIDE DEF entry
  <2> QED BY <2>2, <2>4
<1>4. \A x : x \in ShipsOf(s, reg, but) <=> \E v \in A : clean(ShipProfile(reg, v)) /\ x = entry(reg, ShipProfile(reg, v))
  BY <1>2 DEF ShipsOf
<1>5. \A x : x \in ShipsOf(t, ref, but) <=> \E w \in B : clean(ShipProfile(ref, w)) /\ x = entry(ref, ShipProfile(ref, w))
  BY <1>2 DEF ShipsOf
<1> HIDE DEF clean, entry
<1>6. ASSUME NEW x \in ShipsOf(s, reg, but) PROVE x \in ShipsOf(t, ref, but)
  <2>1. PICK v \in A : clean(ShipProfile(reg, v)) /\ x = entry(reg, ShipProfile(reg, v))
    BY <1>4
  <2>2. PICK w \in B : w = MovedTo(v, to)
    BY <1>1 DEF CarriedOver
  <2> QED BY <1>3, <1>5, <2>1, <2>2
<1>7. ASSUME NEW x \in ShipsOf(t, ref, but) PROVE x \in ShipsOf(s, reg, but)
  <2>1. PICK w \in B : clean(ShipProfile(ref, w)) /\ x = entry(ref, ShipProfile(ref, w))
    BY <1>5
  <2>2. PICK v \in A : w = MovedTo(v, to)
    BY <1>1 DEF CarriedOver
  <2> QED BY <1>3, <1>4, <2>1, <2>2
<1> QED BY <1>6, <1>7

LEMMA ImageIsAsLarge ==
    ASSUME NEW S, IsFiniteSet(S), NEW f, \A x, y \in S : f[x] = f[y] => x = y
    PROVE  Cardinality({f[x] : x \in S}) = Cardinality(S)
<1> DEFINE T == {f[x] : x \in S}
           g == [x \in S |-> f[x]]
<1>1. g \in Bijection(S, T)
  <2>1. g \in [S -> T] /\ \A x \in S : g[x] = f[x]
    OBVIOUS
  <2>2. \A y \in T : \E x \in S : f[x] = y
    OBVIOUS
  <2> HIDE DEF g, T
  <2> QED BY <2>1, <2>2 DEF Bijection, Injection, Surjection, IsInjective
<1> HIDE DEF T, g
<1>2. ExistsBijection(S, T)
  BY <1>1 DEF ExistsBijection
<1>3. Cardinality(T) = Cardinality(S)
  BY <1>2, FS_Bijection
<1> QED BY <1>3 DEF T

LEMMA ProfilesAreAsMany ==
    ASSUME NEW read, NEW reg, NEW id, IsFiniteSet(CompositesOf(read, id))
    PROVE  /\ ProfilesOf(read, reg, id) = {ShipProfile(reg, v) : v \in CompositesOf(read, id)}
           /\ Cardinality(ProfilesOf(read, reg, id)) = Cardinality(CompositesOf(read, id))
<1> DEFINE C == CompositesOf(read, id)
           f == [v \in C |-> ShipProfile(reg, v)]
<1>1. ProfilesOf(read, reg, id) = {ShipProfile(reg, v) : v \in C}
  <2>1. ShipProfiles(read, reg) = {ShipProfile(reg, v) : v \in Composites(read)}
    BY DEF ShipProfiles, Composites
  <2>2. \A v : ShipProfile(reg, v).hull = v.what.hull
    BY ProfileIs
  <2> QED BY <2>1, <2>2 DEF ProfilesOf, CompositesOf
<1>2. \A v, w \in C : ShipProfile(reg, v) = ShipProfile(reg, w) => v = w
  <2> SUFFICES ASSUME NEW v \in C, NEW w \in C, ShipProfile(reg, v) = ShipProfile(reg, w) PROVE v = w
    OBVIOUS
  <2>1. v.id = w.id /\ v.at = w.at
    <3>1. ShipProfile(reg, v).variant = v.id /\ ShipProfile(reg, v).at = v.at
      BY ProfileIs
    <3>2. ShipProfile(reg, w).variant = w.id /\ ShipProfile(reg, w).at = w.at
      BY ProfileIs
    <3> QED BY <3>1, <3>2
  <2>2. v \in Claimed(read.sources, "variants") /\ w \in Claimed(read.sources, "variants")
    BY DEF CompositesOf, Composites, ClaimsOf
  <2>3. v.mod = w.mod /\ v.root = w.root /\ v.what = w.what
    BY <2>1, <2>2, ClaimsAre
  <2>4. /\ v = [id |-> v.id, at |-> v.at, mod |-> v.mod, root |-> v.root, what |-> v.what]
        /\ w = [id |-> w.id, at |-> w.at, mod |-> w.mod, root |-> w.root, what |-> w.what]
    BY <2>2, ClaimsAre
  <2> QED BY <2>1, <2>3, <2>4
<1>3. \A v, w \in C : f[v] = f[w] => v = w
  BY <1>2
<1>4. {f[v] : v \in C} = {ShipProfile(reg, v) : v \in C}
  OBVIOUS
<1> HIDE DEF f, C
<1>5. Cardinality({f[v] : v \in C}) = Cardinality(C)
  BY <1>3, ImageIsAsLarge DEF C
<1> QED BY <1>1, <1>4, <1>5 DEF C

\* What the definition of a hull says of its variants.
ChildHulls(read, reg, id) == (UNION {{p.modules[i].hull : i \in DOMAIN p.modules} : p \in ProfilesOf(read, reg, id)}) \ {Gone}

LEMMA ProfilesOfAHullMatch ==
    ASSUME NEW s, NEW t, NEW to, NEW but, Twins(s, t, to, but), NEW reg, NEW ref, RegistriesAlike(reg, ref, to, but), NEW id, id \notin but
    PROVE  /\ Cardinality(ProfilesOf(s, reg, id)) = Cardinality(ProfilesOf(t, ref, id))
           /\ ProfilesOf(s, reg, id) = {} <=> ProfilesOf(t, ref, id) = {}
           /\ ChildHulls(s, reg, id) = ChildHulls(t, ref, id)
<1> DEFINE A == CompositesOf(s, id)
           B == CompositesOf(t, id)
           P == ProfilesOf(s, reg, id)
           Q == ProfilesOf(t, ref, id)
           kids(p) == {p.modules[i].hull : i \in DOMAIN p.modules}
<1>1. CarriedOver(A, B, to) /\ IsFiniteSet(A) /\ IsFiniteSet(B) /\ Cardinality(A) = Cardinality(B)
  BY CompositesAreCarried, CarriedAreAsMany DEF CarriedOver
<1>2. P = {ShipProfile(reg, v) : v \in A} /\ Cardinality(P) = Cardinality(A)
  BY <1>1, ProfilesAreAsMany
<1>3. Q = {ShipProfile(ref, v) : v \in B} /\ Cardinality(Q) = Cardinality(B)
  BY <1>1, ProfilesAreAsMany
<1>4. \A v \in A : v.what.hull = id
  BY DEF CompositesOf
<1> HIDE DEF A, B, P, Q
<1>5. P = {} <=> Q = {}
  BY <1>1, <1>2, <1>3 DEF CarriedOver
<1>6. ASSUME NEW v \in A, NEW w, w = MovedTo(v, to) PROVE kids(ShipProfile(reg, v)) = kids(ShipProfile(ref, w))
  <2>1. v.what = w.what /\ v.id = w.id /\ v.mod = w.mod /\ v.what.hull \notin but
    BY <1>4, <1>6, MovedKeeps
  <2> PICK p : p = ShipProfile(reg, v)
    OBVIOUS
  <2> PICK q : q = ShipProfile(ref, w)
    OBVIOUS
  <2>2. PartsOf(p) = PartsOf(q)
    BY <2>1, PartsMatch
  <2>3. kids(p) = kids(q)
    BY <2>2 DEF PartsOf
  <2> HIDE DEF kids
  <2> QED BY <2>3
<1> HIDE DEF kids
<1>7. UNION {kids(p) : p \in P} = UNION {kids(p) : p \in Q}
  <2>1. ASSUME NEW p \in P PROVE \E q \in Q : kids(p) = kids(q)
    <3>1. PICK v \in A : p = ShipProfile(reg, v)
      BY <1>2
    <3>2. PICK w \in B : w = MovedTo(v, to)
      BY <1>1 DEF CarriedOver
    <3> QED BY <1>3, <1>6, <3>1, <3>2
  <2>2. ASSUME NEW q \in Q PROVE \E p \in P : kids(p) = kids(q)
    <3>1. PICK w \in B : q = ShipProfile(ref, w)
      BY <1>3
    <3>2. PICK v \in A : w = MovedTo(v, to)
      BY <1>1 DEF CarriedOver
    <3> QED BY <1>2, <1>6, <3>1, <3>2
  <2> QED BY <2>1, <2>2
<1>8. ChildHulls(s, reg, id) = ChildHulls(t, ref, id)
  BY <1>7 DEF ChildHulls, P, Q, kids
<1> QED BY <1>1, <1>2, <1>3, <1>5, <1>8 DEF P, Q

\* The claimants of a hull that may define it, and the one that does.
CompositeClaims(read, reg) ==
    {h \in ClaimsOf(read, "hulls") : HullDefinition(h.what).parent \/ ProfilesOf(read, reg, h.id) # {}}
Defines(read, reg, h) ==
    \A g \in OfId(CompositeClaims(read, reg), h.id) : h.mod < g.mod \/ (h.mod = g.mod /\ h.at <= g.at)
DefinitionOf(read, reg, h) ==
    [hull |-> h.id, mod |-> h.mod, declared |-> HullDefinition(h.what), variants |-> Cardinality(ProfilesOf(read, reg, h.id)),
     children |-> ChildHulls(read, reg, h.id)]

LEMMA DefinitionsAre ==
    ASSUME NEW read, NEW reg
    PROVE  HullDefinitions(read, reg) = {DefinitionOf(read, reg, h) : h \in {h \in CompositeClaims(read, reg) : Defines(read, reg, h)}}
BY DEF HullDefinitions, DefinitionOf, CompositeClaims, Defines, ProfilesOf, ChildHulls

LEMMA DefinitionsMatch ==
    ASSUME NEW s, NEW t, NEW to, NEW but, Twins(s, t, to, but), NEW reg, NEW ref, RegistriesAlike(reg, ref, to, but)
    PROVE  {d \in HullDefinitions(s, reg) : d.hull \notin but} = {d \in HullDefinitions(t, ref) : d.hull \notin but}
<1>1. ASSUME NEW id, id \notin but
      PROVE  /\ CarriedOver(OfId(CompositeClaims(s, reg), id), OfId(CompositeClaims(t, ref), id), to)
             /\ \A h, g \in OfId(CompositeClaims(s, reg), id) : h.mod = g.mod => (h.at <= g.at <=> to[h.at] <= to[g.at])
  <2> DEFINE A == OfId(ClaimsOf(s, "hulls"), id)
             B == OfId(ClaimsOf(t, "hulls"), id)
             C == OfId(CompositeClaims(s, reg), id)
             D == OfId(CompositeClaims(t, ref), id)
  <2>1. CarriedOver(A, B, to) /\ \A c, d \in A : c.mod = d.mod => (c.at <= d.at <=> to[c.at] <= to[d.at])
    BY <1>1, TwinsClaimTheSame DEF EntityKinds
  <2>2. \A h : h \in C <=> h \in A /\ (HullDefinition(h.what).parent \/ ProfilesOf(s, reg, id) # {})
    BY DEF OfId, CompositeClaims
  <2>3. \A h : h \in D <=> h \in B /\ (HullDefinition(h.what).parent \/ ProfilesOf(t, ref, id) # {})
    BY DEF OfId, CompositeClaims
  <2>4. ProfilesOf(s, reg, id) = {} <=> ProfilesOf(t, ref, id) = {}
    BY <1>1, ProfilesOfAHullMatch
  <2> HIDE DEF A, B, C, D
  <2>5. \A h \in A : MovedTo(h, to) \in B /\ MovedTo(h, to).what = h.what
    BY <2>1, MovedKeeps DEF CarriedOver
  <2>6. C \in SUBSET A /\ D \in SUBSET B
    BY <2>2, <2>3
  <2>7. \A h \in A : h \in C <=> MovedTo(h, to) \in D
    BY <2>2, <2>3, <2>4, <2>5
  <2>8. CarriedOver(C, D, to)
    BY <2>1, <2>6, <2>7, SubsetsAreCarried
  <2> QED BY <2>1, <2>6, <2>8 DEF C, D
<1>2. ASSUME NEW h \in CompositeClaims(s, reg), h.id \notin but
      PROVE  /\ MovedTo(h, to) \in CompositeClaims(t, ref)
             /\ Defines(s, reg, h) <=> Defines(t, ref, MovedTo(h, to))
             /\ DefinitionOf(s, reg, h) = DefinitionOf(t, ref, MovedTo(h, to))
  <2> DEFINE C == OfId(CompositeClaims(s, reg), h.id)
             D == OfId(CompositeClaims(t, ref), h.id)
             k == MovedTo(h, to)
             before(x, y) == x.mod < y.mod \/ (x.mod = y.mod /\ x.at <= y.at)
  <2>1. CarriedOver(C, D, to) /\ \A x, y \in C : x.mod = y.mod => (x.at <= y.at <=> to[x.at] <= to[y.at])
    BY <1>1, <1>2
  <2>2. h \in C
    BY DEF OfId
  <2>3. k.id = h.id /\ k.mod = h.mod /\ k.what = h.what /\ k.at = to[h.at]
    BY MovedKeeps
  <2>4. Defines(s, reg, h) <=> \A g \in C : before(h, g)
    BY DEF Defines
  <2>5. Defines(t, ref, k) <=> \A g \in D : before(k, g)
    BY <2>3 DEF Defines
  <2> HIDE DEF C, D, k
  <2>6. k \in D
    BY <2>1, <2>2 DEF CarriedOver, k
  <2>7. k \in CompositeClaims(t, ref)
    BY <2>6 DEF OfId, D
  <2>8. ASSUME NEW g \in C PROVE before(h, g) <=> before(k, MovedTo(g, to))
    <3>1. MovedTo(g, to).mod = g.mod /\ MovedTo(g, to).at = to[g.at]
      BY MovedKeeps
    <3>2. h.mod = g.mod => (h.at <= g.at <=> to[h.at] <= to[g.at])
      BY <2>1, <2>2
    <3> QED BY <2>3, <3>1, <3>2
  <2> HIDE DEF before
  <2>9. (\A g \in C : before(h, g)) <=> \A g \in D : before(k, g)
    BY <2>1, <2>8 DEF CarriedOver
  <2>10. /\ Cardinality(ProfilesOf(s, reg, h.id)) = Cardinality(ProfilesOf(t, ref, h.id))
         /\ ChildHulls(s, reg, h.id) = ChildHulls(t, ref, h.id)
    BY <1>2, ProfilesOfAHullMatch
  <2>11. DefinitionOf(s, reg, h) = DefinitionOf(t, ref, k)
    BY <2>3, <2>10 DEF DefinitionOf
  <2> QED BY <2>4, <2>5, <2>7, <2>9, <2>11 DEF k
<1>3. ASSUME NEW k \in CompositeClaims(t, ref), k.id \notin but PROVE \E h \in CompositeClaims(s, reg) : h.id = k.id /\ k = MovedTo(h, to)
  <2>1. k \in OfId(CompositeClaims(t, ref), k.id)
    BY DEF OfId
  <2>2. PICK h \in OfId(CompositeClaims(s, reg), k.id) : k = MovedTo(h, to)
    BY <1>1, <1>3, <2>1 DEF CarriedOver
  <2> QED BY <2>2 DEF OfId
<1>4. \A d : d \in HullDefinitions(s, reg) <=> \E h \in CompositeClaims(s, reg) : Defines(s, reg, h) /\ d = DefinitionOf(s, reg, h)
  BY DefinitionsAre
<1>5. \A d : d \in HullDefinitions(t, ref) <=> \E h \in CompositeClaims(t, ref) : Defines(t, ref, h) /\ d = DefinitionOf(t, ref, h)
  BY DefinitionsAre
<1>6. (\A h : DefinitionOf(s, reg, h).hull = h.id) /\ \A h : DefinitionOf(t, ref, h).hull = h.id
  BY DEF DefinitionOf
<1>7. ASSUME NEW d \in HullDefinitions(s, reg), d.hull \notin but PROVE d \in HullDefinitions(t, ref)
  <2>1. PICK h \in CompositeClaims(s, reg) : Defines(s, reg, h) /\ d = DefinitionOf(s, reg, h)
    BY <1>4
  <2>2. h.id \notin but
    BY <1>6, <1>7, <2>1
  <2> QED BY <1>2, <1>5, <2>1, <2>2
<1>8. ASSUME NEW d \in HullDefinitions(t, ref), d.hull \notin but PROVE d \in HullDefinitions(s, reg)
  <2>1. PICK k \in CompositeClaims(t, ref) : Defines(t, ref, k) /\ d = DefinitionOf(t, ref, k)
    BY <1>5
  <2>2. k.id \notin but
    BY <1>6, <1>8, <2>1
  <2>3. PICK h \in CompositeClaims(s, reg) : h.id = k.id /\ k = MovedTo(h, to)
    BY <1>3, <2>2
  <2> QED BY <1>2, <1>4, <2>1, <2>2, <2>3
<1> QED BY <1>7, <1>8

------------------------------------------------------------------------------
\* Two scans whose sources match resolve the same, hulls made of skins and what rests on them aside.
LEMMA TwinsAgree ==
    ASSUME NEW s, NEW t, NEW to, NEW but, Twins(s, t, to, but), s.mods \in Seq(Finds), t.mods \in Seq(Finds),
           Len(s.mods) = Len(t.mods), NEW tm, Shuffled(tm, s.mods, t.mods), \A i \in DOMAIN s.mods : t.mods[tm[i]] = s.mods[i],
           NEW reg, reg = RegistryOf(ScanClaims(s)), NEW ref, ref = RegistryOf(ScanClaims(t))
    PROVE  RegistriesAgree(s, t, reg, ref, but)
<1>1. RegistriesAlike(reg, ref, to, but)
  BY TwinsAreIndexedAlike DEF RegistriesAlike
<1>2. ASSUME NEW k \in EntityKinds PROVE Agree(reg[k], ref[k], IF k = "hulls" THEN but ELSE {})
  <2>1. ASSUME NEW x, x \notin IF k = "hulls" THEN but ELSE {}
        PROVE  HasId(reg[k], x) = HasId(ref[k], x) /\ SameClaims(Claimers(reg[k], x), Claimers(ref[k], x))
    <3>1. Alike(reg[k], ref[k], x, to)
      BY <1>1, <2>1 DEF RegistriesAlike
    <3> QED BY <3>1, AlikeAgree
  <2> QED BY <2>1 DEF Agree
<1>3. /\ MissingDependencies(s.mods) = MissingDependencies(t.mods)
      /\ \A mod : DependencyClosure(s.mods, mod) = DependencyClosure(t.mods, mod)
  <2> PICK a : a = s.mods
    OBVIOUS
  <2> PICK b : b = t.mods
    OBVIOUS
  <2>1. a \in Seq(Finds) /\ b \in Seq(Finds) /\ Len(a) = Len(b) /\ Shuffled(tm, a, b)
    OBVIOUS
  <2>2. \A i \in DOMAIN a : b[tm[i]] = a[i]
    OBVIOUS
  <2>3. MissingDependencies(a) = MissingDependencies(b)
    BY ONLY <2>1, <2>2, DependenciesMatch
  <2>4. \A mod : DependencyClosure(a, mod) = DependencyClosure(b, mod)
    BY ONLY <2>1, <2>2, DependenciesMatch
  <2> QED BY <2>3, <2>4
<1>4. CarriedOver(ClaimsOf(s, "variants"), ClaimsOf(t, "variants"), to) /\ CarriedOver(ClaimsOf(s, "factions"), ClaimsOf(t, "factions"), to)
  BY TwinsClaimTheSame DEF EntityKinds
<1>5. ASSUME NEW kind \in {"hulls", "weapons", "mods"}, NEW x, ~(kind = "hulls" /\ x \in but), NEW mod
      PROVE  Resolves(reg[kind], kind, x, s.mods, mod) <=> Resolves(ref[kind], kind, x, t.mods, mod)
  <2>1. Alike(reg[kind], ref[kind], x, to)
    BY <1>1, <1>5 DEF RegistriesAlike, EntityKinds
  <2> PICK i : i = reg[kind]
    OBVIOUS
  <2> PICK j : j = ref[kind]
    OBVIOUS
  <2> PICK a : a = s.mods
    OBVIOUS
  <2> PICK b : b = t.mods
    OBVIOUS
  <2>2. Alike(i, j, x, to) /\ DependencyClosure(a, mod) = DependencyClosure(b, mod)
    BY <1>3, <2>1
  <2>3. Resolves(i, kind, x, a, mod) <=> Resolves(j, kind, x, b, mod)
    BY ONLY <2>2, AlikeResolve
  <2> QED BY <2>3
<1>6. ASSUME NEW u \in SymDiff(Unresolved(s, reg), Unresolved(t, ref)) PROVE u[2] = "hulls" /\ u[3] \in but
  <2>1. CASE u \in Unresolved(s, reg) /\ u \notin Unresolved(t, ref)
    <3>1. \E v \in ClaimsOf(s, "variants") : \E kind \in {"hulls", "weapons", "mods"} : \E x \in Named(v, kind) :
             u = <<v.id, kind, x>> /\ ~Resolves(reg[kind], kind, x, s.mods, v.mod)
      BY <2>1, UnresolvedAre
    <3> PICK v \in ClaimsOf(s, "variants") : \E kind \in {"hulls", "weapons", "mods"} : \E x \in Named(v, kind) :
                u = <<v.id, kind, x>> /\ ~Resolves(reg[kind], kind, x, s.mods, v.mod)
      BY <3>1
    <3> PICK kind \in {"hulls", "weapons", "mods"} : \E x \in Named(v, kind) :
                u = <<v.id, kind, x>> /\ ~Resolves(reg[kind], kind, x, s.mods, v.mod)
      OBVIOUS
    <3>2. PICK x \in Named(v, kind) : u = <<v.id, kind, x>> /\ ~Resolves(reg[kind], kind, x, s.mods, v.mod)
      OBVIOUS
    <3>3. PICK w \in ClaimsOf(t, "variants") : w = MovedTo(v, to)
      BY <1>4 DEF CarriedOver
    <3>4. w.id = v.id /\ w.mod = v.mod /\ w.what = v.what
      BY <3>3, MovedKeeps
    <3>5. x \in Named(w, kind) /\ u = <<w.id, kind, x>>
      BY <3>2, <3>4 DEF Named
    <3>6. CASE kind = "hulls" /\ x \in but
      BY <3>2, <3>6
    <3>7. CASE ~(kind = "hulls" /\ x \in but)
      <4>1. ~Resolves(ref[kind], kind, x, t.mods, w.mod)
        BY <1>5, <3>2, <3>4, <3>7
      <4>2. u \in Unresolved(t, ref)
        BY <3>5, <4>1, UnresolvedAre
      <4> QED BY <2>1, <4>2
    <3> QED BY <3>6, <3>7
  <2>2. CASE u \in Unresolved(t, ref) /\ u \notin Unresolved(s, reg)
    <3>1. \E w \in ClaimsOf(t, "variants") : \E kind \in {"hulls", "weapons", "mods"} : \E x \in Named(w, kind) :
             u = <<w.id, kind, x>> /\ ~Resolves(ref[kind], kind, x, t.mods, w.mod)
      BY <2>2, UnresolvedAre
    <3> PICK w \in ClaimsOf(t, "variants") : \E kind \in {"hulls", "weapons", "mods"} : \E x \in Named(w, kind) :
                u = <<w.id, kind, x>> /\ ~Resolves(ref[kind], kind, x, t.mods, w.mod)
      BY <3>1
    <3> PICK kind \in {"hulls", "weapons", "mods"} : \E x \in Named(w, kind) :
                u = <<w.id, kind, x>> /\ ~Resolves(ref[kind], kind, x, t.mods, w.mod)
      OBVIOUS
    <3>2. PICK x \in Named(w, kind) : u = <<w.id, kind, x>> /\ ~Resolves(ref[kind], kind, x, t.mods, w.mod)
      OBVIOUS
    <3>3. PICK v \in ClaimsOf(s, "variants") : w = MovedTo(v, to)
      BY <1>4 DEF CarriedOver
    <3>4. w.id = v.id /\ w.mod = v.mod /\ w.what = v.what
      BY <3>3, MovedKeeps
    <3>5. x \in Named(v, kind) /\ u = <<v.id, kind, x>>
      BY <3>2, <3>4 DEF Named
    <3>6. CASE kind = "hulls" /\ x \in but
      BY <3>2, <3>6
    <3>7. CASE ~(kind = "hulls" /\ x \in but)
      <4>1. ~Resolves(reg[kind], kind, x, s.mods, v.mod)
        BY <1>5, <3>2, <3>4, <3>7
      <4>2. u \in Unresolved(s, reg)
        BY <3>5, <4>1, UnresolvedAre
      <4> QED BY <2>2, <4>2
    <3> QED BY <3>6, <3>7
  <2> QED BY <2>1, <2>2 DEF SymDiff
<1>7. Composed(s, reg, but) = Composed(t, ref, but)
  <2>1. ShipsOf(s, reg, but) = ShipsOf(t, ref, but)
    BY <1>1, ShipsMatch
  <2>2. {d \in HullDefinitions(s, reg) : d.hull \notin but} = {d \in HullDefinitions(t, ref) : d.hull \notin but}
    BY <1>1, DefinitionsMatch
  <2>3. /\ Composed(s, reg, but) = [ships |-> ShipsOf(s, reg, but), hulls |-> {d \in HullDefinitions(s, reg) : d.hull \notin but}]
        /\ Composed(t, ref, but) = [ships |-> ShipsOf(t, ref, but), hulls |-> {d \in HullDefinitions(t, ref) : d.hull \notin but}]
    BY ComposedIs
  <2> QED BY ONLY <2>1, <2>2, <2>3
<1>8. ASSUME NEW x PROVE FactionKnows(reg["factions"], x) = FactionKnows(ref["factions"], x)
  <2>1. Alike(reg["factions"], ref["factions"], x, to)
    BY <1>1 DEF RegistriesAlike, EntityKinds
  <2> QED BY <2>1, AlikeFactions
<1> QED BY <1>2, <1>3, <1>6, <1>7, <1>8 DEF RegistriesAgree

------------------------------------------------------------------------------
\* The skins that wait in two lists of sources that match, and their bases.
LEMMA PendingMatch ==
    ASSUME NEW mine \in Seq(Readings), NEW theirs \in Seq(Readings), NEW to, Matched(to, mine, theirs)
    PROVE  /\ \A q \in PendingSkins(mine, 0) : \E r \in PendingSkins(theirs, 0) : r.id = q.id /\ r.base = q.base /\ r.root = q.root
           /\ \A r \in PendingSkins(theirs, 0) : \E q \in PendingSkins(mine, 0) : r.id = q.id /\ r.base = q.base /\ r.root = q.root
<1> DEFINE pends(S, i, k) == [id |-> k.id, base |-> k.base, changes |-> k.changes, at |-> 0 + i, mod |-> S[i].mod, root |-> S[i].root]
<1>1. \A S : \A q : q \in PendingSkins(S, 0) <=> \E i \in DOMAIN S : \E k \in S[i].skins : q = pends(S, i, k)
  BY DEF PendingSkins
<1>2. \A S, i, k : pends(S, i, k).id = k.id /\ pends(S, i, k).base = k.base /\ pends(S, i, k).root = S[i].root
  OBVIOUS
<1> HIDE DEF pends
<1>3. /\ \A i \in DOMAIN mine : to[i] \in DOMAIN theirs /\ theirs[to[i]].root = mine[i].root /\ theirs[to[i]].skins = mine[i].skins
      /\ \A j \in DOMAIN theirs : \E i \in DOMAIN mine : to[i] = j
  BY DEF Matched, Shuffled
<1>4. ASSUME NEW q \in PendingSkins(mine, 0)
      PROVE  \E r \in PendingSkins(theirs, 0) : r.id = q.id /\ r.base = q.base /\ r.root = q.root
  <2>1. PICK i \in DOMAIN mine : \E k \in mine[i].skins : q = pends(mine, i, k)
    BY <1>1
  <2>2. PICK k \in mine[i].skins : q = pends(mine, i, k)
    BY <2>1
  <2>3. pends(theirs, to[i], k) \in PendingSkins(theirs, 0)
    BY <1>1, <1>3
  <2>4. q.id = k.id /\ q.base = k.base /\ q.root = mine[i].root
    BY <1>2, <2>2
  <2>5. theirs[to[i]].root = mine[i].root
    BY <1>3
  <2>6. pends(theirs, to[i], k).id = k.id /\ pends(theirs, to[i], k).base = k.base /\ pends(theirs, to[i], k).root = theirs[to[i]].root
    BY ONLY <1>2
  <2> QED BY <2>3, <2>4, <2>5, <2>6
<1>5. ASSUME NEW r \in PendingSkins(theirs, 0)
      PROVE  \E q \in PendingSkins(mine, 0) : r.id = q.id /\ r.base = q.base /\ r.root = q.root
  <2>1. PICK j \in DOMAIN theirs : \E k \in theirs[j].skins : r = pends(theirs, j, k)
    BY <1>1
  <2>2. PICK k \in theirs[j].skins : r = pends(theirs, j, k)
    BY <2>1
  <2>3. PICK i \in DOMAIN mine : to[i] = j
    BY <1>3
  <2>4. pends(mine, i, k) \in PendingSkins(mine, 0)
    BY <1>1, <1>3, <2>3
  <2>5. r.id = k.id /\ r.base = k.base /\ r.root = theirs[j].root
    BY <1>2, <2>2
  <2>6. theirs[j].root = mine[i].root
    BY <1>3, <2>3
  <2>7. pends(mine, i, k).id = k.id /\ pends(mine, i, k).base = k.base /\ pends(mine, i, k).root = mine[i].root
    BY ONLY <1>2
  <2> QED BY <2>4, <2>5, <2>6, <2>7
<1> QED BY <1>4, <1>5

LEMMA AloneMatches ==
    ASSUME NEW mine \in Seq(Readings), NEW theirs \in Seq(Readings), NEW to, Matched(to, mine, theirs), NEW base
    PROVE  AloneAmong(mine, Len(mine), base) <=> AloneAmong(theirs, Len(theirs), base)
<1> DEFINE S == DOMAIN mine
           T == DOMAIN theirs
<1>1. S = 1..Len(mine) /\ T = 1..Len(theirs)
  OBVIOUS
<1>2. /\ \A i \in S : to[i] \in T /\ (Bears(mine, i, base) <=> Bears(theirs, to[i], base))
      /\ \A j \in T : \E i \in S : to[i] = j
      /\ \A i, j \in S : to[i] = to[j] => i = j
  BY DEF Matched, Shuffled, Bears
<1>3. AloneAmong(mine, Len(mine), base) <=> \E i \in S : Bears(mine, i, base) /\ \A j \in S : Bears(mine, j, base) => j = i
  BY <1>1 DEF AloneAmong
<1>4. AloneAmong(theirs, Len(theirs), base) <=> \E i \in T : Bears(theirs, i, base) /\ \A j \in T : Bears(theirs, j, base) => j = i
  BY <1>1 DEF AloneAmong
<1> HIDE DEF S, T
<1>5. ASSUME NEW i \in S, Bears(mine, i, base), \A j \in S : Bears(mine, j, base) => j = i
      PROVE  \E k \in T : Bears(theirs, k, base) /\ \A j \in T : Bears(theirs, j, base) => j = k
  <2>1. \A j \in T : Bears(theirs, j, base) => j = to[i]
    BY <1>2, <1>5
  <2> QED BY <1>2, <1>5, <2>1
<1>6. ASSUME NEW k \in T, Bears(theirs, k, base), \A j \in T : Bears(theirs, j, base) => j = k
      PROVE  \E i \in S : Bears(mine, i, base) /\ \A j \in S : Bears(mine, j, base) => j = i
  <2>1. PICK i \in S : to[i] = k
    BY <1>2
  <2>2. \A j \in S : Bears(mine, j, base) => j = i
    BY <1>2, <1>6, <2>1
  <2> QED BY <1>2, <1>6, <2>1, <2>2
<1> QED BY <1>3, <1>4, <1>5, <1>6

LEMMA SkinsAgree ==
    ASSUME NEW s, NEW t, NEW to, s.sources \in Seq(Readings), t.sources \in Seq(Readings), Matched(to, s.sources, t.sources),
           SkinsHold(s.sources, s.skins), t.skins = SkinsMade(Claimed(t.sources, "hulls"), PendingSkins(t.sources, 0)),
           NEW p \in PendingSkins(s.sources, 0), MadeIn(s, p) # MadeIn(t, p)
    PROVE  \E q \in PendingSkins(s.sources, 0) :
              /\ q.id = p.id /\ q.root = p.root
              /\ \/ BaseIsASkin(q, SkinIds(s.sources))
                 \/ MadeIn(t, p) /\ BaseComesLater(q, s.sources)
                 \/ MadeIn(s, p) /\ BaseClaimedAgain(q, s.sources)
<1> PICK mine : mine = s.sources
  OBVIOUS
<1> PICK theirs : theirs = t.sources
  OBVIOUS
<1> DEFINE W == PendingSkins(mine, 0)
           V == PendingSkins(theirs, 0)
           N == Len(mine)
           H == Claimed(theirs, "hulls")
<1>1. mine \in Seq(Readings) /\ theirs \in Seq(Readings) /\ Matched(to, mine, theirs) /\ N \in Nat
  OBVIOUS
<1>2. \A base : Sole(H, base) <=> AloneAmong(mine, N, base)
  <2>1. Len(theirs) \in Nat /\ DOMAIN theirs = 1..Len(theirs)
    BY <1>1
  <2>2. \A base : Sole(H, base) <=> AloneAmong(theirs, Len(theirs), base)
    BY <2>1, SoleIsAlone
  <2> QED BY <1>1, <2>2, AloneMatches
<1>3. /\ \A q \in W : \E r \in V : r.id = q.id /\ r.base = q.base /\ r.root = q.root
      /\ \A r \in V : \E q \in W : r.id = q.id /\ r.base = q.base /\ r.root = q.root
  BY <1>1, PendingMatch
<1>4. /\ \A k \in t.skins : \E q \in V : q.id = k.id /\ q.root = k.root /\ q.id # Gone /\ Sole(H, q.base)
      /\ \A q \in V : q.id # Gone /\ Sole(H, q.base) => \E k \in t.skins : k.id = q.id /\ k.root = q.root
  BY SkinsAreMade
<1>5. \A q \in W : q.at \in Nat
  BY <1>1 DEF PendingSkins
<1>6. /\ \A k \in s.skins : \E q \in W : /\ q.id = k.id /\ q.root = k.root /\ q.id # Gone
                                         /\ q.base \in SkinIds(mine) \/ \E n \in q.at..N : AloneAmong(mine, n, q.base)
      /\ \A q \in W : \/ q.id = Gone \/ q.base \in SkinIds(mine)
                      \/ \E k \in s.skins : k.id = q.id /\ k.root = q.root
                      \/ \E n \in q.at..N : ~AloneAmong(mine, n, q.base)
  BY DEF SkinsHold
<1> HIDE DEF W, V, N, H
<1>7. ASSUME NEW q \in W, q.id = p.id, q.root = p.root, q.id # Gone, AloneAmong(mine, N, q.base) PROVE MadeIn(t, p)
  BY <1>2, <1>3, <1>4, <1>7 DEF MadeIn
<1>8. CASE MadeIn(s, p) /\ ~MadeIn(t, p)
  <2>1. PICK k \in s.skins : k.id = p.id /\ k.root = p.root
    BY <1>8 DEF MadeIn
  <2>2. PICK q \in W : /\ q.id = p.id /\ q.root = p.root /\ q.id # Gone
                       /\ q.base \in SkinIds(mine) \/ \E n \in q.at..N : AloneAmong(mine, n, q.base)
    BY <1>6, <2>1
  <2>3. ~AloneAmong(mine, N, q.base)
    BY <1>7, <1>8, <2>2
  <2>4. CASE q.base \in SkinIds(mine)
    BY <2>2, <2>4 DEF BaseIsASkin, W
  <2>5. ASSUME NEW n \in q.at..N, AloneAmong(mine, n, q.base) PROVE BaseClaimedAgain(q, mine)
    <3>1. PICK i \in 1..n : Bears(mine, i, q.base) /\ \A j \in 1..n : Bears(mine, j, q.base) => j = i
      BY <2>5 DEF AloneAmong
    <3>2. n \in Nat /\ n <= N /\ q.at <= n /\ i \in 1..N
      BY <1>1, <1>5
    <3>3. PICK j \in 1..N : Bears(mine, j, q.base) /\ j # i
      BY <2>3, <3>1, <3>2 DEF AloneAmong
    <3>4. j \in q.at + 1..N
      BY <1>1, <1>5, <3>1, <3>2, <3>3
    <3> QED BY <3>3, <3>4 DEF BaseClaimedAgain, Bears, N
  <2> QED BY <1>8, <2>2, <2>4, <2>5 DEF W
<1>9. CASE MadeIn(t, p) /\ ~MadeIn(s, p)
  <2>1. PICK k \in t.skins : k.id = p.id /\ k.root = p.root
    BY <1>9 DEF MadeIn
  <2>2. PICK r \in V : r.id = p.id /\ r.root = p.root /\ r.id # Gone /\ Sole(H, r.base)
    BY <1>4, <2>1
  <2>3. PICK q \in W : q.id = p.id /\ q.root = p.root /\ q.base = r.base
    BY <1>3, <2>2
  <2>4. q.id # Gone /\ AloneAmong(mine, N, q.base)
    BY <1>2, <2>2, <2>3
  <2>5. CASE q.base \in SkinIds(mine)
    BY <2>3, <2>5 DEF BaseIsASkin, W
  <2>6. ASSUME NEW n \in q.at..N, ~AloneAmong(mine, n, q.base) PROVE BaseComesLater(q, mine)
    <3>1. PICK i \in 1..N : Bears(mine, i, q.base) /\ \A j \in 1..N : Bears(mine, j, q.base) => j = i
      BY <2>4 DEF AloneAmong
    <3>2. n \in Nat /\ n <= N /\ q.at <= n /\ 1..n \subseteq 1..N /\ 1..q.at \subseteq 1..n
      BY <1>1, <1>5
    <3>3. i \notin 1..n
      BY <2>6, <3>1, <3>2 DEF AloneAmong
    <3> QED BY <3>1, <3>2, <3>3 DEF BaseComesLater, Bears
  <2>7. ~\E x \in s.skins : x.id = q.id /\ x.root = q.root
    BY <1>9, <2>3 DEF MadeIn
  <2> QED BY <1>6, <1>9, <2>3, <2>4, <2>5, <2>6, <2>7 DEF W
<1> QED BY <1>8, <1>9 DEF MadeIn

LEMMA MergeAgrees ==
    ASSUME FoldersAssumption, HeldAssumption, ImportInv PROVE MergeAgreesWithRescan
<1> SUFFICES ASSUME UpToDate, NEW full, full = FullScan(disk, extras), NEW but, but = SkinIds(scan.sources)
             PROVE  /\ RegistriesAgree(scan, full, RegistryOf(ScanClaims(scan)), RegistryOf(ScanClaims(full)), but)
                    /\ \A p \in PendingSkins(scan.sources, 0) :
                          \/ MadeIn(scan, p) = MadeIn(full, p)
                          \/ \E q \in PendingSkins(scan.sources, 0) :
                                /\ q.id = p.id /\ q.root = p.root
                                /\ \/ BaseIsASkin(q, but)
                                   \/ MadeIn(full, p) /\ BaseComesLater(q, scan.sources)
                                   \/ MadeIn(scan, p) /\ BaseClaimedAgain(q, scan.sources)
  BY DEF MergeAgreesWithRescan, SkinIds
<1>1. disk \in Disks /\ extras \in Seq(Folders) /\ Whole(scan)
  BY DEF ImportInv, UpToDate
<1>2. Whole(full) /\ full.skins = SkinsMade(Claimed(full.sources, "hulls"), PendingSkins(full.sources, 0))
  BY <1>1, FullIsRead
<1>3. /\ scan.sources \in Seq(Readings) /\ full.sources \in Seq(Readings) /\ Countable(scan.sources)
      /\ \E to : Matched(to, scan.sources, full.sources)
      /\ scan.mods \in Seq(Finds) /\ full.mods \in Seq(Finds) /\ Len(scan.mods) = Len(full.mods)
      /\ \E tm : Shuffled(tm, scan.mods, full.mods) /\ \A i \in DOMAIN scan.mods : full.mods[tm[i]] = scan.mods[i]
  BY SourcesMatch
<1>4. PICK to : Matched(to, scan.sources, full.sources)
  BY <1>3
<1>5. PICK tm : Shuffled(tm, scan.mods, full.mods) /\ \A i \in DOMAIN scan.mods : full.mods[tm[i]] = scan.mods[i]
  BY <1>3
<1>6. SkinsHold(scan.sources, scan.skins) /\ SkinsHold(full.sources, full.skins)
  BY <1>1, <1>2 DEF Whole
<1>7. Twins(scan, full, to, but)
  <2>1. SkinIds(full.sources) \subseteq but
    <3> PICK mine : mine = scan.sources
      OBVIOUS
    <3> PICK theirs : theirs = full.sources
      OBVIOUS
    <3>1. /\ \A i \in DOMAIN mine : to[i] \in DOMAIN theirs /\ theirs[to[i]].skins = mine[i].skins
          /\ \A j \in DOMAIN theirs : \E i \in DOMAIN mine : to[i] = j
      BY <1>4 DEF Matched, Shuffled
    <3>2. \A S, x : x \in SkinIds(S) <=> \E i \in DOMAIN S : \E k \in S[i].skins : x = k.id
      BY DEF SkinIds, ToSet
    <3> QED BY <3>1, <3>2
  <2>2. \A S \in Seq(Readings) : \A q \in PendingSkins(S, 0) : q.id \in SkinIds(S)
    BY DEF PendingSkins, SkinIds, ToSet
  <2>3. \A k \in scan.skins : k.id \in but
    BY <1>3, <1>6, <2>2 DEF SkinsHold
  <2>4. \A k \in full.skins : k.id \in but
    BY <1>3, <1>6, <2>1, <2>2 DEF SkinsHold
  <2> QED BY <1>3, <1>4, <2>3, <2>4 DEF Twins
<1>8. RegistriesAgree(scan, full, RegistryOf(ScanClaims(scan)), RegistryOf(ScanClaims(full)), but)
  BY ONLY <1>3, <1>5, <1>7, TwinsAgree
<1>9. ASSUME NEW p \in PendingSkins(scan.sources, 0), MadeIn(scan, p) # MadeIn(full, p)
      PROVE  \E q \in PendingSkins(scan.sources, 0) :
                /\ q.id = p.id /\ q.root = p.root
                /\ \/ BaseIsASkin(q, but)
                   \/ MadeIn(full, p) /\ BaseComesLater(q, scan.sources)
                   \/ MadeIn(scan, p) /\ BaseClaimedAgain(q, scan.sources)
  BY <1>2, <1>3, <1>4, <1>6, <1>9, SkinsAgree
<1> QED BY <1>8, <1>9

\* run_incremental_mod_scan, api.py: whatever mods, drops, merges, failures and removals brought it about, a scan at
\* hand whose folders are as they were read resolves what a full scan of the same sources would, and where
\* a hull made of a skin is missing or one too many, its base came later, was claimed again or is a skin itself.
THEOREM MergesAgree == ImportSpec => []MergeAgreesWithRescan
<1> USE FoldersAssumption, DiskAssumption, HeldAssumption, DropsAssumption
<1>1. ImportInit => ImportInv
  BY ImportStarts
<1>2. ImportInv /\ [ImportNext]_importVars => ImportInv'
  BY ImportKeeps
<1>3. ImportInv => MergeAgreesWithRescan
  BY MergeAgrees
<1> QED BY <1>1, <1>2, <1>3, PTL DEF ImportSpec
===============================================================================
