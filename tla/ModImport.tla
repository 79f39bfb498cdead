------------------------------ MODULE ModImport ------------------------------
(***************************************************************************)
(* Mods dropped on the window (core/mod_import.py, gui/window_scan.py) and *)
(* the scans and merges they join.  A drop extracts archives into a cache  *)
(* folder named after the archive at once, on the window's own thread,     *)
(* whatever runs; the scan that includes the folder, or the merge into the *)
(* scan at hand, reads it later.  Folders and archives change under the    *)
(* program.                                                                *)
(***************************************************************************)
EXTENDS CompositeHulls, FiniteSetsExt, TLC

CONSTANTS
    Folders,      \* every folder a scan may read
    DropSets,     \* what may be dropped at once: sequences of folders and archives
    Archives,
    StemFolder,   \* StemFolder[a]: the cache folder of archive a
    Wrapped,      \* Wrapped[f]: the folder with the mod_info.json that a drop of f stands for
    FirstDisk,    \* what the folders hold at the start
    MayHold,      \* MayHold[f]: what else folder f may come to hold
    FirstZips,    \* what the archives may hold at the start
    ArchiveTexts, \* what an archive may hold; Gone: a file that is no archive
    MaxChanges,   \* bound on the changes of folders and archives
    MaxDrops      \* bound on the drops

ASSUME FoldersAssumption == GameRoot \in Folders /\ InstalledRoots \in Seq(Folders \ {GameRoot})
ASSUME DiskAssumption == FirstDisk = [f \in Folders |-> FirstDisk[f]]
\* What a folder may hold is finite, mod ids are numbers, and the module array of a variant is a list.
ASSUME HeldAssumption ==
    \A f \in Folders : \A c \in ({FirstDisk[f]} \cup MayHold[f] \cup ArchiveTexts) \ {Gone, Broken} :
        /\ c.mod \in Nat /\ IsFiniteSet(c.skins) /\ \A k \in EntityKinds : IsFiniteSet(DOMAIN c.has[k])
        /\ \A x \in DOMAIN c.has["variants"] :
              LET modules == c.has["variants"][x].modules IN modules = Gone \/ modules \in Seq(ToSet(modules))
\* What is dropped stands for folders.
ASSUME DropsAssumption ==
    /\ \A items \in DropSets : items \in Seq(Archives \cup DOMAIN Wrapped)
    /\ (\A a \in Archives : StemFolder[a] \in Folders) /\ \A f \in DOMAIN Wrapped : Wrapped[f] \in Folders
    /\ \A z \in FirstZips : z \in [Archives -> ArchiveTexts]

VARIABLES
    disk,         \* what each folder holds: a mod or Gone
    zip,          \* what each archive holds
    extras,       \* the list of additional mods, by folder
    scan,         \* the scan at hand, Gone before the first
    job,          \* the scan or merge on its worker thread
    changes, drops

importVars == <<disk, zip, extras, scan, job, changes, drops>>

NoJob == [kind |-> "none"]

ImportInit ==
    /\ disk = FirstDisk
    /\ zip \in FirstZips
    /\ extras = << >> /\ scan = Gone /\ job = NoJob /\ changes = 0 /\ drops = 0

------------------------------------------------------------------------------
\* Each dropped item in turn, on the folders, the list and what this drop added to it.
\* _extract_and_locate removes the cache folder first: an archive that cannot be read leaves none.
Extracted(state, a) == [state EXCEPT !.disk[StemFolder[a]] = zip[a]]

Listed(state, root) ==
    IF ~Readable(state.disk, root) \/ \E i \in DOMAIN state.extras : state.extras[i] = root
    THEN state
    ELSE [state EXCEPT !.extras = Append(@, root), !.added = Append(@, root)]

DropItem(state, item) ==
    IF item \in Archives THEN Listed(Extracted(state, item), StemFolder[item]) ELSE Listed(state, Wrapped[item])

Dropped(start, items) ==
    LET after[n \in 0..Len(items)] == IF n = 0 THEN start ELSE DropItem(after[n - 1], items[n])
    IN after[Len(items)]

\* dropEvent: what is new is merged at once when a scan is at hand and nothing runs.
Drop(items) ==
    /\ drops < MaxDrops
    /\ drops' = drops + 1
    /\ LET end == Dropped([disk |-> disk, extras |-> extras, added |-> << >>], items)
       IN /\ disk' = end.disk
          /\ extras' = end.extras
          /\ job' = IF end.added # << >> /\ scan # Gone /\ job = NoJob
                    THEN [kind |-> "merge", onto |-> scan, roots |-> end.added]
                    ELSE job
    /\ UNCHANGED <<zip, scan, changes>>

\* _remove_selected_extra_mod: out of the next scan; the scan at hand keeps it.
RemoveExtra(root) ==
    /\ \E i \in DOMAIN extras : extras[i] = root
    /\ extras' = Sifted(extras, {i \in DOMAIN extras : extras[i] # root})
    /\ UNCHANGED <<disk, zip, scan, job, changes, drops>>

------------------------------------------------------------------------------
\* The sources are found and their mod_info.json read when the scan starts.
ScanStarts ==
    /\ job = NoJob
    /\ job' = [kind |-> "scan", mods |-> DiscoverSources(disk, extras)]
    /\ UNCHANGED <<disk, zip, extras, scan, changes, drops>>

\* scan_single_mod reads metadata and files in one go; a folder without metadata is skipped.
MergeRead(roots) ==
    LET there == Sifted(roots, {i \in DOMAIN roots : Readable(disk, roots[i])})
    IN ReadAll(disk, [i \in DOMAIN there |-> [SourceAt(disk, there[i]) EXCEPT !.enabled = TRUE]])

\* The files are read and the result adopted (_apply_incremental_scan_outcome after a merge).
ScanDone ==
    /\ job.kind = "scan"
    /\ scan' = FullScanOf(job.mods, ReadAll(disk, ToScan(job.mods)))
    /\ job' = NoJob
    /\ UNCHANGED <<disk, zip, extras, changes, drops>>

MergeDone ==
    /\ job.kind = "merge"
    /\ scan' = Merged(job.onto, MergeRead(job.roots))
    /\ job' = NoJob
    /\ UNCHANGED <<disk, zip, extras, changes, drops>>

\* A cancelled scan and a worker that fails leave the scan at hand.
JobFails ==
    /\ job # NoJob
    /\ job' = NoJob
    /\ UNCHANGED <<disk, zip, extras, scan, changes, drops>>

\* The user's own work on the mods.
FolderChanges(f) ==
    /\ changes < MaxChanges
    /\ changes' = changes + 1
    /\ \E c \in MayHold[f] \ {disk[f]} : disk' = [disk EXCEPT ![f] = c]
    /\ UNCHANGED <<zip, extras, scan, job, drops>>

ArchiveChanges(a) ==
    /\ changes < MaxChanges
    /\ changes' = changes + 1
    /\ \E c \in ArchiveTexts \ {zip[a]} : zip' = [zip EXCEPT ![a] = c]
    /\ UNCHANGED <<disk, extras, scan, job, drops>>

ImportNext ==
    \/ \E items \in DropSets : Drop(items)
    \/ \E f \in ToSet(extras) : RemoveExtra(f)
    \/ ScanStarts \/ ScanDone \/ MergeDone \/ JobFails
    \/ \E f \in Folders : FolderChanges(f)
    \/ \E a \in Archives : ArchiveChanges(a)
------------------------------------------------------------------------------
\* The scan at hand is of the sources a scan would find now, none of which has changed since.  Folders with one mod
\* id come in the same order in both: the index keeps the last one's dependencies, a composite hull is the first one's.
Turn(mods, i) == Cardinality({j \in 1..i : mods[j].mod = mods[i].mod})
InTurn(mods) == {<<mods[i], Turn(mods, i)>> : i \in DOMAIN mods}
UpToDate ==
    /\ scan # Gone
    /\ \A s \in ToSet(scan.sources) :
          Readable(disk, s.root) /\ disk[s.root] = Restrict(s, {"mod", "version", "deps", "has", "skins", "errs"})
    /\ InTurn(scan.mods) = InTurn(DiscoverSources(disk, extras))

SameClaims(one, other) ==
    /\ Cardinality(one) = Cardinality(other)
    /\ {<<c.root, c.mod, c.what>> : c \in one} = {<<c.root, c.mod, c.what>> : c \in other}
Claimers(index, id) == (IF HasId(index, id) THEN {index.by_id[id]} ELSE {}) \cup Rivals(index, id)
Agree(index, other, but) ==
    \A x \in (DOMAIN index.by_id \cup DOMAIN index.duplicates \cup DOMAIN other.by_id \cup DOMAIN other.duplicates) \ but :
        HasId(index, x) = HasId(other, x) /\ SameClaims(Claimers(index, x), Claimers(other, x))

\* The composite hulls, their structures and their claimants, but for those that rest on a skin.
Composed(scn, reg, but) ==
    LET profiles == {p \in ShipProfiles(scn, reg) : ({p.hull} \cup {p.modules[i].hull : i \in DOMAIN p.modules}) \cap but = {}}
        claimants(cs) == {<<c.root, c.id, c.what>> : c \in cs}
        structure(p) == LET built == ResolvedStructure(reg, p)
                        IN [slot \in DOMAIN built |-> <<claimants(built[slot].variant), claimants(built[slot].hull)>>]
    IN [ships |-> {<<[p EXCEPT !.at = 0], structure(p)>> : p \in profiles},
        hulls |-> {d \in HullDefinitions(scn, reg) : d.hull \notin but}]

RegistriesAgree(mine, theirs, reg, ref, skinned) ==
    /\ \A k \in EntityKinds : Agree(reg[k], ref[k], IF k = "hulls" THEN skinned ELSE {})
    /\ \A u \in SymDiff(Unresolved(mine, reg), Unresolved(theirs, ref)) : u[2] = "hulls" /\ u[3] \in skinned
    /\ Composed(mine, reg, skinned) = Composed(theirs, ref, skinned)
    /\ MissingDependencies(mine.mods) = MissingDependencies(theirs.mods)
    /\ \A x \in {c.id : c \in ClaimsOf(mine, "factions")} : FactionKnows(reg["factions"], x) = FactionKnows(ref["factions"], x)

\* A skin whose base only a later source declares, one the later sources make ambiguous, and one whose base is
\* itself a hull made of a skin: the skins that a merge and a full scan may resolve differently.
BaseComesLater(p, sources) == ~\E i \in 1..p.at : p.base \in DOMAIN sources[i].has["hulls"]
BaseClaimedAgain(p, sources) == \E i \in p.at + 1..Len(sources) : p.base \in DOMAIN sources[i].has["hulls"]
BaseIsASkin(p, skinned) == p.base \in skinned
MadeIn(made, p) == \E k \in made.skins : k.id = p.id /\ k.root = p.root    \* wherever the folder comes, it may come twice

\* run_incremental_mod_scan, api.py: a scan that mods were merged into, in whatever order drops, scans, failures
\* and removals came, resolves every entity, reference, dependency, composite hull and faction as a full scan of the same
\* unchanged sources would, ambiguities included.  Only hulls made of skins may differ: one is missing only
\* if its base came with a later source, one too many only if a later source declares its base again, unless
\* the base is made of a skin itself.
MergeAgreesWithRescan ==
    UpToDate =>
        LET full == FullScan(disk, extras)
            skinned == UNION {{k.id : k \in s.skins} : s \in ToSet(scan.sources)}
        IN /\ RegistriesAgree(scan, full, RegistryOf(ScanClaims(scan)), RegistryOf(ScanClaims(full)), skinned)
           /\ \A p \in PendingSkins(scan.sources, 0) :
                  \/ MadeIn(scan, p) = MadeIn(full, p)
                  \/ \E q \in PendingSkins(scan.sources, 0) :
                        /\ q.id = p.id /\ q.root = p.root
                        /\ \/ BaseIsASkin(q, skinned)
                           \/ MadeIn(full, p) /\ BaseComesLater(q, scan.sources)
                           \/ MadeIn(scan, p) /\ BaseClaimedAgain(q, scan.sources)

ImportSpec == ImportInit /\ [][ImportNext]_importVars
===============================================================================
