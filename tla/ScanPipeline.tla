----------------------------- MODULE ScanPipeline -----------------------------
(***************************************************************************)
(* One installation scanned again and again: Scanner.scan                  *)
(* (core/scanner.py) inside api.run_scan, with the per-source snapshots    *)
(* and the manifest it leaves in the output folder.                        *)
(*                                                                         *)
(* The coordinator walks the sources in order and waits for each one's     *)
(* fingerprint, which a pool computes; a source whose snapshot carries the *)
(* same fingerprint is reused, the others are parsed by a second pool and  *)
(* harvested in completion order.  A fingerprint is the content it was     *)
(* computed from: it hashes every file the parsers read (SHA-256 is taken  *)
(* to be collision free).  A process that dies loses everything but the    *)
(* files; every file is replaced atomically.                               *)
(***************************************************************************)
EXTENDS Naturals, FiniteSets, Sequences

CONSTANTS
    Sources,        \* 1..n, in discovery order; 1 is the game's own data
    Contents,       \* what the files of a source may hold
    Selections,     \* the sets of sources a scan may be asked to read
    HashWorkers,    \* fingerprint_worker_count
    MaxWorkers,     \* max_workers, the parsing pool
    MaxScans,       \* bound on the scans
    MaxEdits,       \* bound on the edits of the sources
    MaxDamage,      \* bound on how often something else damages the manifest
    MidScanEdits,   \* may a source be edited while a scan runs?
    ReadFaults,     \* may a file fail to open while its source is parsed?
    Nothing,        \* no usable file, no result yet, None
    Failed          \* a future that ended without a value

\* What parsing a source gives, complete unless some file could not be read,
\* and the file that keeps it for the next scan.
Fragment == [source : Sources, content : Contents, complete : BOOLEAN]
Snapshot == [print : Contents, fragment : Fragment]

ASSUME ScanAssumption ==
    /\ IsFiniteSet(Sources) /\ Sources = 1..Cardinality(Sources)
    /\ Selections \subseteq SUBSET Sources
    /\ HashWorkers \in Nat \ {0}
    /\ MaxWorkers \in Nat \ {0}
    /\ MaxScans \in Nat /\ MaxEdits \in Nat /\ MaxDamage \in Nat
    /\ MidScanEdits \in BOOLEAN /\ ReadFaults \in BOOLEAN
    /\ {Nothing, Failed} \cap (Contents \cup Fragment \cup Snapshot) = {}
    /\ Nothing # Failed

VARIABLES
    disk,           \* what each source holds now
    snapshots,      \* the snapshot file of each source
    manifest,       \* scan_manifest.json: "none", "valid" or "malformed"
    phase,          \* where the coordinator is
    selected,       \* the sources of this scan
    next,           \* the source the fingerprint loop is at
    prints,         \* what the fingerprint future of each source holds
    reusable,       \* reusable_fragments
    toParse,        \* sources_to_parse
    fragments,      \* what the parse future of each source holds
    current,        \* the source being harvested, 0: none
    parsed,         \* the keys of parsed_fragments
    result,         \* the merged result
    cancel,         \* the caller's cancel_check() answers true
    late,           \* sources harvested since it does (history)
    scans, edits, damage

filesVars == <<disk, snapshots, manifest>>
hashVars  == <<next, prints, reusable, toParse>>
parseVars == <<fragments, current, parsed>>
bounds    == <<scans, edits, damage>>
vars      == <<filesVars, phase, selected, hashVars, parseVars, result, cancel, late, bounds>>

Ended    == {"idle", "done", "cancelled", "failed"}
Scanning == {"checking", "waiting", "parsing", "storing", "merging", "manifest", "reporting"}

Cold == INSTANCE ColdScan WITH
          status <- IF phase \in Scanning THEN "scanning" ELSE phase,
          chosen <- selected,
          answer <- IF phase = "done" THEN result ELSE <<>>

------------------------------------------------------------------------------
Init ==
    /\ disk \in [Sources -> Contents]
    /\ snapshots = [s \in Sources |-> Nothing]
    /\ manifest = "none"
    /\ phase = "idle"
    /\ selected = {}
    /\ next = 1
    /\ prints = [s \in Sources |-> Nothing]
    /\ reusable = [s \in Sources |-> Nothing]
    /\ toParse = {}
    /\ fragments = [s \in Sources |-> Nothing]
    /\ current = 0
    /\ parsed = {}
    /\ result = <<>>
    /\ cancel = FALSE
    /\ late = 0
    /\ scans = 0 /\ edits = 0 /\ damage = 0

\* Mutant: the fingerprints of the last scan are kept.
StartScanKeepsHashes ==
    /\ phase \in Ended
    /\ scans < MaxScans
    /\ scans' = scans + 1
    /\ phase' = "checking"
    /\ selected' \in Selections
    /\ next' = 1
    /\ reusable' = [s \in Sources |-> Nothing]
    /\ toParse' = {}
    /\ fragments' = [s \in Sources |-> Nothing]
    /\ parsed' = {}
    /\ current' = 0
    /\ result' = <<>>
    /\ cancel' = FALSE
    /\ late' = 0
    /\ UNCHANGED <<filesVars, prints, edits, damage>>

\* run_scan makes a new Scanner; scan() empties its working state, discovers
\* the sources and submits a fingerprint job for each selected one.
StartScan ==
    /\ phase \in Ended
    /\ scans < MaxScans
    /\ scans' = scans + 1
    /\ phase' = "checking"
    /\ selected' \in Selections
    /\ next' = 1
    /\ prints' = [s \in Sources |-> Nothing]
    /\ reusable' = [s \in Sources |-> Nothing]
    /\ toParse' = {}
    /\ fragments' = [s \in Sources |-> Nothing]
    /\ parsed' = {}
    /\ current' = 0
    /\ result' = <<>>
    /\ cancel' = FALSE
    /\ late' = 0
    /\ UNCHANGED <<filesVars, edits, damage>>

\* A pool with w threads takes the jobs in source order: job s is running
\* when fewer than w of the jobs before it have yet to end.
Running(s, jobs, ended, w) ==
    /\ s \in jobs \ ended
    /\ Cardinality({t \in jobs \ ended : t < s}) < w

\* Leave the scan: the finally blocks cancel the jobs that have not started
\* and wait for the running ones, whose results nobody takes.
Leave(outcome) ==
    /\ phase' = outcome
    /\ current' = 0
    /\ UNCHANGED <<filesVars, selected, hashVars, fragments, parsed, result, cancel, late, bounds>>

------------------------------------------------------------------------------
(* The fingerprint loop.                                                   *)

Hashed == {s \in Sources : prints[s] # Nothing}

\* A pool thread fingerprints a source; a file it cannot read gives None.
HashSource(s) ==
    /\ phase \in {"checking", "waiting"}
    /\ Running(s, selected, Hashed, HashWorkers)
    /\ \E p \in {disk[s], Failed} : prints' = [prints EXCEPT ![s] = p]
    /\ UNCHANGED <<filesVars, phase, selected, next, reusable, toParse, parseVars, result, cancel, late, bounds>>

\* The head of the loop asks cancel_check before it does anything else.
CancelledHashing ==
    /\ phase = "checking" /\ next \in Sources
    /\ cancel
    /\ Leave("cancelled")

SkipDisabled ==
    /\ phase = "checking" /\ next \in Sources
    /\ ~cancel
    /\ next \notin selected
    /\ next' = next + 1
    /\ UNCHANGED <<filesVars, phase, selected, prints, reusable, toParse, parseVars, result, cancel, late, bounds>>

AwaitPrint ==
    /\ phase = "checking" /\ next \in selected
    /\ ~cancel
    /\ phase' = "waiting"
    /\ UNCHANGED <<filesVars, selected, hashVars, parseVars, result, cancel, late, bounds>>

\* Mutant: the fingerprint in the snapshot is not compared.
LoadAnyPrint(s, p) ==
    IF p # Failed /\ snapshots[s] # Nothing THEN snapshots[s].fragment ELSE Nothing

\* _load_source_fragment: a readable snapshot with this very fingerprint.
Loadable(s, p) ==
    IF p # Failed /\ snapshots[s] # Nothing /\ snapshots[s].print = p
    THEN snapshots[s].fragment
    ELSE Nothing

\* The future's result is taken without asking cancel_check again; a snapshot
\* that cannot be read counts as missing.
HarvestPrint ==
    /\ phase = "waiting" /\ next \in Hashed
    /\ \E cached \in {Loadable(next, prints[next]), Nothing} :
          /\ reusable' = [reusable EXCEPT ![next] = cached]
          /\ toParse' = IF cached = Nothing THEN toParse \cup {next} ELSE toParse
    /\ next' = next + 1
    /\ phase' = "checking"
    /\ late' = IF cancel THEN late + 1 ELSE late
    /\ UNCHANGED <<filesVars, selected, prints, parseVars, result, cancel, bounds>>

\* After the last source, without a check: submit what has to be parsed.
SubmitParses ==
    /\ phase = "checking" /\ next \notin Sources
    /\ phase' = IF toParse = {} THEN "merging" ELSE "parsing"
    /\ UNCHANGED <<filesVars, selected, hashVars, parseVars, result, cancel, late, bounds>>

------------------------------------------------------------------------------
(* The parsing pool and its harvest.                                       *)

ParseEnded == {s \in Sources : fragments[s] # Nothing}

\* _scan_source reads the files as they are now.  One that fails to open is
\* noted among the fragment's errors; an exception the parsers do not expect
\* ends the job.
ParseSource(s) ==
    /\ phase \in {"parsing", "storing"}
    /\ Running(s, toParse, ParseEnded, MaxWorkers)
    /\ \E whole \in (IF ReadFaults THEN BOOLEAN ELSE {TRUE}) :
       \E f \in {[source |-> s, content |-> disk[s], complete |-> whole], Failed} :
          fragments' = [fragments EXCEPT ![s] = f]
    /\ UNCHANGED <<filesVars, phase, selected, hashVars, current, parsed, result, cancel, late, bounds>>

\* as_completed yields an ended future: cancel_check first, then its result.
CancelledParsing ==
    /\ phase = "parsing" /\ (toParse \ parsed) \cap ParseEnded # {}
    /\ cancel
    /\ Leave("cancelled")

ParseRaises ==
    /\ phase = "parsing" /\ ~cancel
    /\ \E s \in toParse \ parsed : fragments[s] = Failed
    /\ Leave("failed")

HarvestParse(s) ==
    /\ phase = "parsing" /\ ~cancel
    /\ s \in (toParse \ parsed) \cap ParseEnded
    /\ fragments[s] # Failed
    /\ parsed' = parsed \cup {s}
    /\ current' = s
    /\ phase' = "storing"
    /\ UNCHANGED <<filesVars, selected, hashVars, fragments, result, cancel, late, bounds>>

\* _store_source_fragment, under the fingerprint taken before the parse; a
\* write that fails leaves the old file.
Stored(s) ==
    IF prints[s] = Failed THEN snapshots
    ELSE [snapshots EXCEPT ![s] = [print |-> prints[s], fragment |-> fragments[s]]]

\* Mutant: the loop waits until every source of the scan has been parsed,
\* the reused ones included.
StoreAndAwaitAll ==
    /\ phase = "storing"
    /\ snapshots' \in {Stored(current), snapshots}
    /\ current' = 0
    /\ phase' = IF parsed = selected THEN "merging" ELSE "parsing"
    /\ late' = IF cancel THEN late + 1 ELSE late
    /\ UNCHANGED <<disk, manifest, selected, hashVars, fragments, parsed, result, cancel, bounds>>

StoreFragment ==
    /\ phase = "storing"
    /\ snapshots' \in {Stored(current), snapshots}
    /\ current' = 0
    /\ phase' = IF parsed = toParse THEN "merging" ELSE "parsing"
    /\ late' = IF cancel THEN late + 1 ELSE late
    /\ UNCHANGED <<disk, manifest, selected, hashVars, fragments, parsed, result, cancel, bounds>>

------------------------------------------------------------------------------
(* The end of the scan.                                                    *)

FragmentOf(s) == IF reusable[s] # Nothing THEN reusable[s] ELSE fragments[s]

\* The fragments are merged in source order, whatever order they came in;
\* skins and the registry are computed from the merged lists.
Merged == Cold!InSourceOrder([s \in selected |-> FragmentOf(s)])

Merge ==
    /\ phase = "merging"
    /\ result' = Merged
    /\ phase' = "manifest"
    /\ UNCHANGED <<filesVars, selected, hashVars, parseVars, cancel, late, bounds>>

\* run_scan compares the result with the manifest of the last scan and then
\* replaces it.  load_manifest turns a malformed manifest into None, but
\* update_manifest reads it again and lets the exception out.
UpdateManifest ==
    /\ phase = "manifest"
    /\ manifest # "malformed"
    /\ manifest' = "valid"
    /\ phase' = "reporting"
    /\ UNCHANGED <<disk, snapshots, selected, hashVars, parseVars, result, cancel, late, bounds>>

ManifestMalformed ==
    /\ phase = "manifest"
    /\ manifest = "malformed"
    /\ Leave("failed")

\* Merging, skin resolution, the registry, the manifest's file and the report
\* may all raise.
EndRaises ==
    /\ phase \in {"merging", "manifest", "reporting"}
    /\ phase = "manifest" => manifest # "malformed"
    /\ Leave("failed")

Report ==
    /\ phase = "reporting"
    /\ Leave("done")

------------------------------------------------------------------------------
(* The environment.                                                        *)

\* The caller's cancel event; nothing clears it while the scan runs.
Cancel ==
    /\ phase \in Scanning
    /\ ~cancel
    /\ cancel' = TRUE
    /\ UNCHANGED <<filesVars, phase, selected, hashVars, parseVars, result, late, bounds>>

Crash ==
    /\ phase \in Scanning
    /\ Leave("idle")

\* The user edits, updates or replaces a mod.
EditSource(s) ==
    /\ edits < MaxEdits
    /\ MidScanEdits \/ phase \notin Scanning
    /\ edits' = edits + 1
    /\ \E c \in Contents : disk' = [disk EXCEPT ![s] = c]
    /\ UNCHANGED <<snapshots, manifest, phase, selected, hashVars, parseVars, result, cancel, late, scans, damage>>

\* Something else truncates, edits or deletes the manifest.  A damaged
\* snapshot needs no action: HarvestPrint may always find one unreadable.
DamageManifest ==
    /\ damage < MaxDamage
    /\ damage' = damage + 1
    /\ manifest' \in {"none", "malformed"}
    /\ UNCHANGED <<disk, snapshots, phase, selected, hashVars, parseVars, result, cancel, late, scans, edits>>

------------------------------------------------------------------------------
Fingerprinting == CancelledHashing \/ SkipDisabled \/ AwaitPrint \/ HarvestPrint \/ SubmitParses
Parsing        == CancelledParsing \/ ParseRaises \/ (\E s \in Sources : HarvestParse(s)) \/ StoreFragment
Finishing      == Merge \/ UpdateManifest \/ ManifestMalformed \/ EndRaises \/ Report
Coordinator    == Fingerprinting \/ Parsing \/ Finishing
HashPool       == \E s \in Sources : HashSource(s)
ParsePool      == \E s \in Sources : ParseSource(s)
Environment    == \/ StartScan \/ Cancel \/ Crash \/ DamageManifest
                  \/ \E s \in Sources : EditSource(s)

Next == Coordinator \/ HashPool \/ ParsePool \/ Environment

Spec == Init /\ [][Next]_vars

\* The scanning thread and its pools are never starved; nothing obliges the
\* user, and nothing obliges a crash or a damaged file to happen.
FairSpec == Spec /\ WF_vars(Coordinator) /\ WF_vars(HashPool) /\ WF_vars(ParsePool)

------------------------------------------------------------------------------
(* Properties.                                                             *)

TypeOK ==
    /\ disk \in [Sources -> Contents]
    /\ snapshots \in [Sources -> Snapshot \cup {Nothing}]
    /\ manifest \in {"none", "valid", "malformed"}
    /\ phase \in Ended \cup Scanning
    /\ selected \in SUBSET Sources
    /\ next \in Nat \ {0}
    /\ prints \in [Sources -> Contents \cup {Nothing, Failed}]
    /\ reusable \in [Sources -> Fragment \cup {Nothing}]
    /\ toParse \in SUBSET Sources
    /\ fragments \in [Sources -> Fragment \cup {Nothing, Failed}]
    /\ current \in Sources \cup {0}
    /\ parsed \in SUBSET Sources
    /\ cancel \in BOOLEAN
    /\ late \in Nat
    /\ scans \in Nat /\ edits \in Nat /\ damage \in Nat

\* A snapshot that is reused is what parsing the source would give at the
\* fingerprint just computed: never another content, never the records of
\* another source, never a fragment some file is missing from.
ReuseIsExact ==
    \A s \in Sources : reusable[s] # Nothing => reusable[s] = Cold!ParseOf(s, prints[s])

\* Snapshots, pools, completion order, cancels, crashes and damaged cache
\* files do not show: a scan that completes returns what parsing every
\* selected source in source order would return.
ImplementsColdScan == Cold!ColdSpec

\* A cancelled scan takes at most one more source ("bounded to roughly one
\* source's worth of time").
CancelBounded == late <= 1

\* A scan ends, and a scan that is cancelled ends.
ScanEnds == (phase \in Scanning) ~> (phase \in Ended)

\* "malformed data is not trusted": a manifest that cannot be read is treated
\* like no manifest.
MalformedManifestIgnored ==
    [][phase = "manifest" /\ manifest = "malformed" => phase' # "failed"]_vars

------------------------------------------------------------------------------
(* The inductive invariant behind ReuseIsExact, ImplementsColdScan and     *)
(* CancelBounded (ScanPipeline_proofs).                                    *)

\* No source changes under a scan and every file of it can be read.
Quiet == ~MidScanEdits /\ ~ReadFaults

SnapshotsSound ==
    \A s \in Sources :
        snapshots[s] # Nothing => snapshots[s].fragment = Cold!ParseOf(s, snapshots[s].print)

PrintsFresh ==
    \A s \in Sources :
        phase \in Scanning /\ prints[s] \notin {Nothing, Failed} => prints[s] = disk[s]

ReusePrinted ==
    \A s \in Sources :
        reusable[s] # Nothing =>
            /\ prints[s] \notin {Nothing, Failed}
            /\ reusable[s] = Cold!ParseOf(s, prints[s])

FragmentsFresh ==
    \A s \in Sources :
        phase \in Scanning /\ fragments[s] \notin {Nothing, Failed} =>
            fragments[s] = Cold!ParseOf(s, disk[s])

\* Where the coordinator is says which sources have a fragment already.
Accounted ==
    /\ phase \in {"checking", "waiting"} =>
         /\ parsed = {}
         /\ \A s \in selected : s < next => s \in toParse \/ reusable[s] # Nothing
    /\ phase = "waiting" => next \in selected
    /\ phase \in {"parsing", "storing", "merging"} =>
         \A s \in selected : s \in toParse \/ reusable[s] # Nothing
    /\ phase = "storing" => current \in parsed
    /\ phase = "merging" => toParse \subseteq parsed
    /\ parsed \subseteq toParse
    /\ \A s \in toParse : prints[s] # Nothing
    /\ \A s \in parsed : fragments[s] \notin {Nothing, Failed}

ResultCold ==
    phase \in {"manifest", "reporting"} =>
        result = Cold!InSourceOrder([s \in selected |-> Cold!ParseOf(s, disk[s])])

\* These hold whatever is edited or unreadable.
LateInv == /\ CancelBounded
           /\ ~cancel => late = 0
           /\ phase \in {"waiting", "storing"} => late = 0

ScanInv == TypeOK /\ Accounted /\ LateInv

\* These need Quiet.
ColdInv == SnapshotsSound /\ PrintsFresh /\ ReusePrinted /\ FragmentsFresh /\ ResultCold
===============================================================================
