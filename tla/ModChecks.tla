------------------------------ MODULE ModChecks ------------------------------
(***************************************************************************)
(* The verdicts on mods: check-mod on one folder (analysis/check_mod.py,   *)
(* analysis/validate_all.py) and the acceptance sweep over all of them     *)
(* (analysis/mod_acceptance.py), which records its progress in a           *)
(* checkpoint, may die at any point, and takes up the work of an earlier   *)
(* run over the same inputs (analysis/acceptance_baseline.py).  The        *)
(* folders change between and during runs.                                 *)
(***************************************************************************)
EXTENDS ModImport

CONSTANTS
    AdapterMods,  \* hullmods in the effect tables of the core's adapter
    Modelled,     \* those of them that derive_ship_state applies
    CheckPaths,   \* the paths that check-mod may be given, absolute and relative ones
    FolderAt,     \* FolderAt[p]: the folder that path p leads to
    NamedBy,      \* NamedBy[p]: the folders whose files' full names contain p as it is given, or as it is resolved
    ChunkSize,    \* mods audited between two checkpoints
    MaxAudits,    \* bound on the runs
    MaxDeaths     \* bound on the runs that die

\* No mod has the id of the core.
ASSUME CoreIdAssumption ==
    \A f \in Folders \ {GameRoot} : \A c \in ({FirstDisk[f]} \cup MayHold[f]) \ {Gone, Broken} : c.mod # Core
\* A message about a file of the folder itself has the path in it.
ASSUME PathsAssumption == FolderAt \in [CheckPaths -> Folders \ {GameRoot}] /\ \A p \in CheckPaths : FolderAt[p] \in NamedBy[p]
ASSUME ChecksAssumption == Modelled \subseteq AdapterMods /\ ChunkSize \in Nat \ {0}

VARIABLES
    checkpoint,   \* the partial file, Gone when there is none
    audit,        \* the run at work, Gone when there is none
    accepted,     \* the last report written: the scan it is of, its verdicts and what it says got worse
    baseline,     \* the verdicts a person had recorded, Gone when there are none
    checked,      \* the verdict check-mod printed last, Gone after the next step
    audits, deaths

auditVars == <<checkpoint, audit, accepted, baseline, audits, deaths>>
------------------------------------------------------------------------------
(* check-mod.  errs: "located" is a parse failure with a place, "other" any   *)
(* other error, "skipped" an entity left out.                                 *)

\* A mutant: the mod is told by its id.
RestrictedById(read, root, context) ==
    [k \in EntityKinds |->
        {c \in ClaimsOf(read, k) : context = "enabled" \/ c.mod = Core \/ \E s \in ToSet(read.sources) : s.root = root /\ s.mod = c.mod}]

\* restrict_to_mod: the folder's own, with the core or with everything else.
Restricted(read, root, context) ==
    [k \in EntityKinds |->
        {c \in ClaimsOf(read, k) : c.root = root \/ context = "enabled" \/ c.mod = Core}]

\* validate_all: the codes of the selected variants.
CodesOf(chosen, reg) == UNION {VariantCodes(v, reg) : v \in chosen}

\* A message is taken for the folder's own when the path, as given or resolved, is anywhere in it.
ErrorsAt(read, path) == UNION {s.errs : s \in {t \in ToSet(read.sources) : t.root \in NamedBy[path]}}

\* check_mod: the folder is scanned as an additional mod.
VerdictOn(there, codes, errors) ==
    IF ~there \/ "located" \in errors \/ "WEAPON_NOT_FOUND" \in codes THEN "FAIL"
    ELSE IF codes # {} \/ "other" \in errors THEN "REVIEW" ELSE "PASS"

CheckIn(there, read, path, claims) ==
    VerdictOn(there, CodesOf({v \in claims["variants"] : v.root = FolderAt[path]}, RegistryOf(claims)), ErrorsAt(read, path))

CheckScan(there, read, path, context) == CheckIn(there, read, path, Restricted(read, FolderAt[path], context))
CheckMod(folders, path, context) ==
    CheckScan(Readable(folders, FolderAt[path]), FullScan(folders, <<FolderAt[path]>>), path, context)
------------------------------------------------------------------------------
(* audit_mod_acceptance: what is wrong with a mod, from its own claims, the   *)
(* registry's duplicates and references, and the messages about its folder.   *)
OwnedBy(read, kind, mod) == {c \in ClaimsOf(read, kind) : c.mod = mod}

\* An unresolved reference goes to the mod of the first variant of that id.
ReferencesOf(read, reg, mod) ==
    {r \in Unresolved(read, reg) :
        \E v \in OwnedBy(read, "variants", mod) :
            v.id = r[1] /\ \A w \in ClaimsOf(read, "variants") : w.id = r[1] => v.at <= w.at}

WingAnomalies(read, reg, mod) ==
    {w \in UNION ({v.what.wings : v \in OwnedBy(read, "variants", mod)} \cup {h.what.wings : h \in OwnedBy(read, "hulls", mod)}) :
        ~HasId(reg["wings"], w)}

IsDuplicated(reg, mod) == \E k \in EntityKinds : \E c \in UNION Range(reg[k].duplicates) : c.mod = mod

\* The hullmods of a mod's variants whose hull is of the core, and those of the others.
FittedWith(read, reg, mod, ofCore) ==
    UNION {v.what.mods : v \in {w \in OwnedBy(read, "variants", mod) :
        HasId(reg["hulls"], w.what.hull) /\ (reg["hulls"].by_id[w.what.hull].mod = Core) = ofCore}}
UnknownEffects(read, reg, mod) == (FittedWith(read, reg, mod, TRUE) \ Modelled) \cup FittedWith(read, reg, mod, FALSE)

Messages(read, mod) == UNION {s.errs : s \in {t \in ToSet(read.sources) : t.mod = mod}}

AuditCodes(read, reg, mod, messages) ==
         {code \in {"PARSER_ERRORS"} : messages \cap {"located", "other"} # {}}
    \cup {code \in {"SKIPPED_ENTITIES"} : "skipped" \in messages}
    \cup {code \in {"UNRESOLVED_REFERENCES"} : ReferencesOf(read, reg, mod) # {}}
    \cup {code \in {"UNRESOLVED_FIGHTER_WING_REFERENCES"} : WingAnomalies(read, reg, mod) # {}}
    \cup {code \in {"MISSING_DEPENDENCIES"} : \E d \in MissingDependencies(read.mods) : d[1] = mod}
    \cup {code \in {"DUPLICATE_ENTITY_IDS"} : IsDuplicated(reg, mod)}
    \cup {code \in {"COMPLEX_HULL_AMBIGUITY"} : ComplexWarnings(read, reg, mod) # {}}
    \cup {code \in {"UNKNOWN_HULLMOD_EFFECTS"} : UnknownEffects(read, reg, mod) # {}}
    \cup {code \in {"ADAPTER_MODELED_HULLMODS_USED"} : FittedWith(read, reg, mod, TRUE) \cap AdapterMods # {}}

InfoCodes == {"UNKNOWN_HULLMOD_EFFECTS", "ADAPTER_MODELED_HULLMODS_USED"}

\* A skin warned about is a defect without a code.
Classified(read, mod, codes) ==
    IF codes \cap {"PARSER_ERRORS", "SKIPPED_ENTITIES"} # {} /\ \A k \in EntityKinds : OwnedBy(read, k, mod) = {} THEN "FAIL"
    ELSE IF codes \ InfoCodes # {} \/ \E p \in read.unmade : p.mod = mod THEN "PARTIAL"
    ELSE IF "UNKNOWN_HULLMOD_EFFECTS" \in codes THEN "PASS_WITH_UNKNOWNS" ELSE "PASS"

Judged(read, mod, codes) == [class |-> Classified(read, mod, codes), codes |-> codes]
Record(read, reg, mod) == Judged(read, mod, AuditCodes(read, reg, mod, Messages(read, mod)))

\* Folders with unreadable metadata and enabled ids not found fail without a record of their own.
Synthetic(folders, mods) ==
    {[folder |-> r] : r \in {f \in ToSet(InstalledRoots) : folders[f] = Broken}}
      \cup {[id |-> m] : m \in EnabledMods \ {n.mod : n \in ToSet(mods)}}
------------------------------------------------------------------------------
(* The comparison with a baseline.                                            *)

\* baseline_from_audit: a verdict for every id, also for those without a record.
BaselineOf(records, failed) ==
    [key \in {[id |-> mod] : mod \in DOMAIN records} \cup failed |->
        IF key \in failed
        THEN [class |-> "FAIL", codes |-> {IF "id" \in DOMAIN key THEN "MOD_ENABLED_NOT_FOUND" ELSE "MOD_METADATA_UNREADABLE"}]
        ELSE records[key.id]]

Rank == [PASS |-> 0, PASS_WITH_UNKNOWNS |-> 1, PARTIAL |-> 2, FAIL |-> 3]
Worse(before, after) == Rank[after.class] > Rank[before.class]
Gained(before, after) == after.codes \ (before.codes \cup InfoCodes) # {}

\* A mutant: a mod that already had defects is not looked at again.
WorseOnly(old, new) ==
    {key \in DOMAIN new : IF key \in DOMAIN old THEN Worse(old[key], new[key]) ELSE Rank[new[key].class] > 1}

\* compare_with_baseline: the changes that are regressions.  A mod that is gone is none.
Regressions(old, new) ==
    {key \in DOMAIN new :
        IF key \in DOMAIN old THEN Worse(old[key], new[key]) \/ Gained(old[key], new[key]) ELSE Rank[new[key].class] > 1}
------------------------------------------------------------------------------
(* run_acceptance, with its checkpoint.                                       *)

\* The places of the mods among the sources: the first is the core.
ModPlaces(read) == 2..Len(read.mods)
ModsOf(read, places) == {read.mods[i].mod : i \in places}

\* inputs_fingerprint: which mods in which folders and how much of everything, not what it says.
ErrorCount(read, kinds) == MapThenSumSet(LAMBDA s : Cardinality(s.errs \cap kinds), ToSet(read.sources))
Header(read, failed) ==
    [mods |-> {<<read.mods[i].mod, read.mods[i].version, read.mods[i].root>> : i \in ModPlaces(read)},
     counts |-> [k \in EntityKinds |-> Cardinality(ClaimsOf(read, k))],
     errors |-> ErrorCount(read, {"located", "other"}), skipped |-> ErrorCount(read, {"skipped"}) + Cardinality(failed)]

\* _load_checkpoint: nothing when the header is of another scan or a line is no JSON.
LoadCheckpoint(header) ==
    IF checkpoint # Gone /\ checkpoint.header = header /\ checkpoint.end # "torn" THEN checkpoint.done ELSE << >>

ChecksInit == checkpoint = Gone /\ audit = Gone /\ accepted = Gone /\ baseline = Gone /\ checked = Gone /\ audits = 0 /\ deaths = 0

\* A checkpoint without a record is written anew.
AuditOf(read, failed, done) ==
    /\ audit' = [read |-> read, reg |-> RegistryOf(ScanClaims(read)), done |-> done, failed |-> failed,
                 pending |-> {i \in ModPlaces(read) : read.mods[i].mod \notin DOMAIN done}]
    /\ checkpoint' = IF done = << >> THEN [header |-> Header(read, failed), done |-> << >>, end |-> "whole"] ELSE checkpoint

AuditScan(read, failed) == AuditOf(read, failed, LoadCheckpoint(Header(read, failed)))
StartAudit ==
    /\ audit = Gone /\ audits < MaxAudits
    /\ audits' = audits + 1
    /\ LET read == FullScan(disk, << >>) IN AuditScan(read, Synthetic(disk, read.mods))
    /\ UNCHANGED <<accepted, baseline, deaths>>

\* Mods come in the order of their ids; an id that two folders declare comes twice.
Sooner(mods, i, j) == mods[i].mod < mods[j].mod \/ (mods[i].mod = mods[j].mod /\ i < j)
Chunk == {i \in audit.pending : Cardinality({j \in audit.pending : Sooner(audit.read.mods, j, i)}) < ChunkSize}
ChunkRecords == [mod \in ModsOf(audit.read, Chunk) |-> Record(audit.read, audit.reg, mod)]

\* _append_checkpoint: a line after one without its end makes the two no JSON.
Appended(records) ==
    [checkpoint EXCEPT !.done = Over(records, @), !.end = IF @ = "whole" THEN "whole" ELSE "torn"]

AuditChunk ==
    /\ audit # Gone /\ audit.pending # {}
    /\ LET records == ChunkRecords
       IN /\ audit' = [audit EXCEPT !.done = Over(records, @), !.pending = @ \ Chunk]
          /\ checkpoint' = Appended(records)
    /\ UNCHANGED <<accepted, baseline, audits, deaths>>

\* The process dies: before, within or at the end of an append, or after the checkpoint is gone.
AuditDies ==
    /\ audit # Gone /\ deaths < MaxDeaths
    /\ deaths' = deaths + 1
    /\ audit' = Gone
    /\ \/ UNCHANGED checkpoint
       \/ audit.pending # {} /\ checkpoint' = [checkpoint EXCEPT !.end = "torn"]
       \/ audit.pending # {}
          /\ checkpoint' = [Appended(ChunkRecords) EXCEPT !.end = IF @ = "whole" THEN "unended" ELSE @]
       \/ audit.pending = {} /\ checkpoint' = Gone
    /\ UNCHANGED <<accepted, baseline, audits>>

\* The synthetic records are added, the checkpoint goes, the report is written and compared, and
\* --write-baseline records it whatever the comparison says.  (History: `since` is the verdicts
\* that the unbroken line of baselines without a regression began with, of the mods that stayed.)
AuditEnds(write) ==
    /\ audit # Gone /\ audit.pending = {}
    /\ LET now == BaselineOf(audit.done, audit.failed)
           worse == IF baseline = Gone THEN {} ELSE Regressions(baseline.mods, now)
           since == IF baseline = Gone THEN << >> ELSE Restrict(baseline.since, DOMAIN baseline.since \cap DOMAIN now)
       IN /\ accepted' = [of |-> audit.read, records |-> audit.done, failed |-> audit.failed, worse |-> worse, since |-> since]
          /\ baseline' = IF ~write THEN baseline
                         ELSE [mods |-> now, since |-> IF worse = {} THEN Over(since, now) ELSE now]
    /\ checkpoint' = Gone
    /\ audit' = Gone
    /\ UNCHANGED <<audits, deaths>>

AuditNext == StartAudit \/ AuditChunk \/ AuditDies \/ \E write \in BOOLEAN : AuditEnds(write)

RunCheckMod(path, context) ==
    /\ disk[FolderAt[path]] # Gone /\ audit = Gone
    /\ checked' = [path |-> path, context |-> context, verdict |-> CheckMod(disk, path, context)]
    /\ UNCHANGED <<auditVars, importVars>>

ChecksNext ==
    \/ AuditNext /\ checked' = Gone /\ UNCHANGED importVars
    \/ \E path \in CheckPaths, context \in {"core", "enabled"} : RunCheckMod(path, context)
    \/ \E f \in Folders : FolderChanges(f) /\ checked' = Gone /\ UNCHANGED auditVars
------------------------------------------------------------------------------
\* check_mod.py:1-9: the verdict on a folder, in the context of the core, is what it would be on an install
\* without any other mod: nothing of the installed mods counts, not even of one with the same id.  Only a
\* message about an installed mod's file whose name contains the path as it was given is taken for the
\* folder's own (check_mod.py:60), and that makes the verdict stricter, never milder.  (Skins are resolved
\* before the restriction: a skin of the folder or the core whose base an enabled installed mod also
\* declares may come out differently.)
CrossedSkin(root) ==
    \E f \in {g \in ToSet(InstalledRoots) : Readable(disk, g)} :
        disk[f].mod \in EnabledMods /\ {k.base : k \in FilesIn(disk, root).skins \cup FilesIn(disk, GameRoot).skins} \cap DOMAIN disk[f].has["hulls"] # {}
TakenForIts(path) ==
    \E f \in {g \in ToSet(InstalledRoots) \cap NamedBy[path] : Readable(disk, g)} :
        disk[f].mod \in EnabledMods /\ disk[f].errs \cap {"located", "other"} # {}
Alone == [f \in Folders |-> IF f \in ToSet(InstalledRoots) THEN Gone ELSE disk[f]]
Strictness == [PASS |-> 0, REVIEW |-> 1, FAIL |-> 2]
CheckIsOfTheFolder ==
    checked # Gone /\ checked.context = "core" /\ FolderAt[checked.path] \notin ToSet(InstalledRoots) /\ ~CrossedSkin(FolderAt[checked.path]) =>
        LET alone == CheckMod(Alone, checked.path, "core")
        IN /\ Strictness[alone] <= Strictness[checked.verdict]
           /\ checked.verdict = alone \/ TakenForIts(checked.path)

\* A sweep that exits 0, after any number of baselines each recorded by a sweep that exits 0, finds no mod
\* that stayed all the while worse than when the first was recorded: regressions do not creep in by small steps.
NothingCreepsIn ==
    accepted # Gone /\ accepted.worse = {} =>
        \A key \in DOMAIN accepted.since :
            LET now == BaselineOf(accepted.records, accepted.failed)[key]
            IN ~Worse(accepted.since[key], now) /\ ~Gained(accepted.since[key], now)

\* acceptance_baseline.py:1-9: a report, however many runs died on the way to it and whatever changed
\* meanwhile, has exactly the mods of the scan it is of, each with the verdict that this scan gives or one
\* that cannot be told from it by its header; and nothing creeps in.
Changing == {f \in Folders : MayHold[f] # {}}
HeldBy(f) == {FirstDisk[f]} \cup MayHold[f]
AuditDisks ==
    {Over(held, FirstDisk) : held \in {d \in [Changing -> UNION {HeldBy(f) : f \in Changing}] : \A f \in Changing : d[f] \in HeldBy(f)}}
VerdictsOf(read, failed) ==
    {<<Header(read, failed), mod, Record(read, RegistryOf(ScanClaims(read)), mod)>> : mod \in ModsOf(read, ModPlaces(read))}
AuditVerdicts == UNION {VerdictsOf(FullScan(d, << >>), Synthetic(d, DiscoverSources(d, << >>))) : d \in AuditDisks}
AuditIsWhole ==
    /\ NothingCreepsIn
    /\ accepted # Gone =>
        /\ DOMAIN accepted.records = ModsOf(accepted.of, ModPlaces(accepted.of))
        /\ \A mod \in DOMAIN accepted.records :
              <<Header(accepted.of, accepted.failed), mod, accepted.records[mod]>> \in AuditVerdicts
==============================================================================
