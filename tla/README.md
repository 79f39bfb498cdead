# VoidSmith in TLA+

VoidSmith (`src/src/starsector_variant_generator`) reads a Starsector installation and its
mods, builds a registry of hulls, weapons, hullmods and variants, generates and improves
ship fits, advises on fleets, keeps a library of edited fits, judges mods and writes edited
copies of campaign saves. It has a command line and a Qt desktop window. This directory
specifies the parts of it whose correctness depends on the order in which things happen:
threads and callbacks in the window, worker pools and caches in the scanner, files that two
actors write, processes that die half-way, results kept beyond what they were computed from;
and the searches, advisors and audits in which rules written apart from each other have to
agree. TLC checks every module on a small instance; TLAPS proves the central safety properties
for all values of the constants.

Paths below are relative to `src/src/starsector_variant_generator/` unless they start
with `src/`.

## 1. The system

### Components, their state and their operations

| component | state | operations | what is hard |
|---|---|---|---|
| desktop session (`gui/main_window.py`, `gui/window_*.py`, `gui/workers/`) | `_scan_thread`, `_threads`, `_operation_tokens`, `_scan_result`, `_registry`, the enabled state of each button, `_closing_requested` | start and cancel a scan, run an operation, stop waiting, drop a mod, close | worker threads, signals queued to the GUI thread, nested event loops of modal dialogs |
| scan pipeline (`core/scanner.py`, `api.py:run_scan`, `core/cache.py`) | per-source snapshot files, `scan_manifest.json`, futures of two pools, the cancel event | fingerprint, reuse, parse, harvest, merge, update the manifest | completion order, cancellation, edits of the sources, damaged caches, crashes |
| retrofit library (`output/retrofit_library.py`, `output/writer.py`) | `editable_retrofits/*.variant`, `.history/`, the published mod and its `mod_info.json` | save, copy, restore, publish, populate | check-then-write by two threads, operations of several file writes, crashes |
| save copies (`campaign/writer.py`, `campaign/verify.py`, `campaign/fingerprint.py`) | the original's files, the copy's directory, the hashes taken on the way | write a verified copy, verify it again | the game writes the save meanwhile, failed removals, crashes, two writes of one plan |
| save workshop widget (`gui/save_workshop.py`) | `_epoch`, `_current_plan`, `selected_save` | inspect, review, write | results of superseded requests |
| save edit plan (`campaign/edit_checks.py`, `edit_plan.py`, `overage.py`) | none | accept or refuse each change and all of them together, preview, predict what the game will read | numeric limits, combined changes, copies edited again |
| save readers (`campaign/format.py`, `campaign/locators.py`) | none | locate the spans of the editable values | byte-level XML |
| registry (`core/registry.py`) | indexes by id | build from a scan, resolve references | duplicates across mods, canonical choice, what a merge leaves behind |
| composite hulls (`analysis/composite_hulls.py`, `combat_entity.py`, `complex_hull_audit.py`) | none | classify a hull, resolve module maps, audit them | two resolutions of one map, skins that change hints |
| mod import (`core/mod_import.py`, `gui/window_scan.py`) | the drop cache, the list of additional mods | extract, locate, list, remove, merge | cache folders shared by archives, folders replaced under a scan |
| change impact (`analysis/change_impact.py`) | none | compare two manifests | exactness of the impact |
| result cache, analysis reports (`core/result_cache.py`, `analysis/gap/cache.py`, `output/analysis_reports.py`) | SQLite rows, report files with fingerprints | get, put, reuse whole or one by one | inputs that no fingerprint declares, deaths between two files |
| candidate generation (`generation/candidate.py`, `hullmods.py`, `fighters.py`, `vent_cap.py`) | the loop's: selected parts, points spent, candidates seen | fill mounts, add hullmods and wings, split the rest, seed alternatives, merge paths | one budget through four selectors, agreement with the validator, order and caps |
| refit (`generation/refit.py`) | the loop's: current fit, changes | run the fixers, search for the best change | fixers that disturb each other, locks, a bounded number of changes |
| legality (`validation/legality.py`, `core/mount_compatibility.py`) | none (pure) | judge a fit | what is unknown |
| gap engine (`analysis/gap/`) with knowledge packs (`core/knowledge_packs.py`) | a result on the screen | recommend by three legs, explain why not | explanations computed apart from the listing |
| fleet support and scenarios (`analysis/fleet_support.py`, `scenario_advisor.py`) | cards on the screen | needs, exclusions, shortlists, fits from a card | a card of an earlier scan or selection |
| calibration workflow (`analysis/calibration_*.py`) | review sheets, approval log, aliases, label files | resolve, triage, approve, propose, evaluate | two files per approval, mods updated between commands |
| checks of mods (`analysis/check_mod.py`, `mod_acceptance.py`, `acceptance_baseline.py`) | a checkpoint, reports, a baseline | judge one folder, classify all mods in chunks, compare | deaths, resumption over a changed install, ids that meet |
| compatibility-mod export (`output/writer.py`, `output/staleness.py`) | a variant, two shared files, a manifest | export, check a manifest | several files, collisions, deaths |
| safe file operations (`core/safeio.py`) | none | atomic replace, contained delete | used by all of the above |
| scoring and statistics (`scoring/`, parts of `analysis/`) | none (pure) | rank | floating point |
| release verification, feedback | report files | verify, append | small |
| command line (`cli/`) | none between commands | one command a process | none of its own |

`PROJECT.json` lists them with their status, and lists the hazards of the code line by line
with the property that covers each, or the reason why none does.

### How they interact

The window starts every backend call on a thread of its own: a scan through `_start_scan`,
everything else through `MainWindow._run`. A worker object emits one terminal signal, which
Qt queues to the GUI thread, and afterwards its thread emits `finished`. Operations read
`self._registry` from their worker thread; it is replaced by the slots that adopt a finished
scan or a finished incorporation of dropped mods. `scan_button` being enabled doubles as the
lock between those two writers and the handlers that ask `_registry_write_in_progress`.

A scan calls `Scanner.scan` inside `api.run_scan`: two thread pools, a snapshot file for each
source, then the registry, the manifest and the report. The library is written from two
threads: the user's saves run in GUI slots, `populate_variations_if_missing` on a worker.
A save copy runs on a worker thread while the game itself may be running. All of them use
`core/safeio.py`, which replaces one file at a time atomically and promises nothing across
files.

## 2. The modules

| module | models |
|---|---|
| `SessionRegistry` | what the session promises of its registry: one writer at a time, replaced as a whole |
| `DesktopSession` | the window, its threads, tokens and buttons; implements `SessionRegistry` |
| `ColdScan` | what a scan promises: what parsing every selected source in order would return |
| `ScanPipeline` | the scanner with pools, snapshots, manifest, cancel, crash; implements `ColdScan` |
| `Registry` | sources, skins, the index and its references, as functions of what a scan read |
| `CompositeHulls` | what hints declare a hull to be, module maps, profiles and their audit; over `Registry` |
| `ModImport` | drops, extraction folders, scans and merges while folders change; over `CompositeHulls` |
| `ModChecks` | check-mod, and the acceptance sweep with checkpoint and baseline; over `ModImport` |
| `RetrofitLibrary` | the library, its history and the published mod, written by user and worker |
| `Export` | the compatibility mod written file by file, and check-export |
| `SaveEdits` | the edit plan, the copy it makes, what the game reads, the comparison with its log |
| `SaveCopy` | writing and verifying a copy of a save beside the game |
| `SaveWorkshop` | the workshop tab over the window's operation threads: screen, plan in force, buttons |
| `Legality` | the validator: failures, uncertainties and verdict of a fit |
| `CandidateSearch` | the generator's greedy builds, seeds, paths and merge; uses `Legality` |
| `Refit` | the repair's fixers and passes and the quality search; uses `Legality` |
| `AdvisorRules` | affinity, rankings and the choice of a varied shortlist, shared by the advisors |
| `KnowledgePacks` | how fresh a pack is and what it says for a faction |
| `GapAdvice` | gaps, the three legs, scenario options, and every why-not; uses the two above |
| `FleetAdvice` | needs, exclusions, shortlists, scenarios, cards and the fits from them |
| `Analyses` | what each analysis is computed from, as functions of the files |
| `AnalysisReports` | the report files of a scan and their reuse, with change impact |
| `ResultCache` | the table of finished results and the context each declares |
| `Calibration` | sheets, aliases, triage, approvals with their journal, labels and their evaluation |
| `*_proofs` | the theorems of the module they are named for; `SaveWorkshop_proofs` of `SaveCopy` too, `Workbench_proofs` of the parts of `MCWorkbench`, `Workers_proofs` of `CandidateSearch` and the two caches, `Advisors_proofs` of `GapAdvice` and `FleetAdvice` |
| `Counting` | sums over finite sets and ranks, as lemmas for the proofs |
| `MC*` | the small instances for TLC |

Several MC modules hold parts that share no state (`MCWorkbench`, `MCWorkers`,
`MCSaveWorkshop`). A variable `machine` (or `worker`), chosen at the start, says which part a
behaviour is about; the others keep their first state, which is pinned. A run of such a module
is the union of the parts' state spaces, not their product, and each property is about one
part. The constants' values come from `MCMods`, `MCAdvisors`, `MCReuse` and `MCSaveCopy`, which
these modules extend.

The operators named "Mutant" or "A bug" in a comment are the specification's own test: each
is a plausible mistake in the definition that follows it, and is used by nothing.

### DesktopSession

The actions are the slots and thread events. `Run` is the body of `_run` with its token,
thread record, disabled button and optional "Stop Waiting" dialog; `OpDelivered` is
`_complete_operation` or `_operation_failed`; `OpFinished` is `_finish_thread`, which closes
the dialog (and so runs `_discard_operation_result` once more), re-enables the button and may
carry out a deferred close. `StartScan`, `ScanProgressed`, `CancelScan`, `ScanDelivered` and
`ScanFinished` are the slots of `window_scan.py`; `DropMods` is `dropEvent` with its guard and
`_incorporate_dropped_mods`. `ReadRegistry` is the moment at which a worker's lambda reads
`self._registry`. Buttons are grouped by what their handlers do: `Checked` ask
`_registry_write_in_progress` first, `Cancellable` pass `cancellable=True`, `Standalone` need
no registry.

Modal dialogs hold up the user and nobody else: `WindowReachable` guards the user's actions,
while signals are delivered in any state. A thread's `finished` follows its terminal signal;
between threads no order is assumed. The scan dialog hides when it is cancelled and also when
progress reaches its maximum, as a `QProgressDialog` does, so that the user can reach the
window during the end of a scan.

Not modelled: the save workshop's own controls, `generate_button` (enabled by other rules),
the stall watchdog, an `outcome` of `None`, and what tables and text show. The list of
additional mods and the extraction of dropped archives are `ModImport`'s.

### ScanPipeline

The coordinator's position is `phase`. `HashSource` and `ParseSource` are jobs of the two
pools, which start in submission order, at most as many as the pool has threads.
`AwaitPrint` and `HarvestPrint` are the loop over the fingerprint futures with its snapshot
lookup; `HarvestParse` and `StoreFragment` the loop over `as_completed`; a cancel is looked at
where the code looks at it. `Leave` is how a scan ends: futures that have not started are
cancelled. The data is abstract: a source holds one of `Contents`, its fingerprint is that
content (SHA-256 is taken to be injective), and parsing it gives `ParseOf`, unless a file
could not be read, when the fragment is incomplete. A snapshot may be unreadable, of another
version or not storable at any time, which `Loadable` and `StoreFragment` allow without a
cause. `Crash` keeps the files only.

Not modelled here: the text of the report and the JSON round trip of a fragment. What the
sources are and what the registry makes of the merged result is `Registry`.

### RetrofitLibrary

A GUI operation is a program of steps: check the target, ask, read what is there, copy it to
the history, write, and for a publication look at and write `mod_info.json`. Each step is one
file access and may fail or be the last before a crash. The worker's populate run looks for
each generated id, skips what is equal, stops at a collision and writes what is missing; the
look and the write are two steps, as in `_write_text_if_same_or_missing`. A file's name is its
variant's id, which holds for every file the program writes. The two
threads may always be in an operation at once. `raced` is history: the threads whose file the
other has written since they looked at it, that is, between the look and the write of a populated
fit, or between the look for a backup (or for a file in the way) and the write of a user's
operation. `NothingLost` and `OnlyConfirmedReplaces` say that nothing but such a file is replaced
unasked or without a trace. That window is in the code (`exists()` and the replacing write are
two steps, on two threads), and TLC reaches it: a save nobody was asked about replaces a fit that
populate has just generated, and populate what the user has just saved under that fit's id.

### SaveCopy

A job follows `write_save_copy` line by line: inspect, read, hash all files, make the
directory, copy file by file, hash again, compare, mark, and then the second verification of
`run_save_verify_copy`. A sweep over the files is a step a file, and the game may write any
file between two steps; a file other than the two known ones may be absent, appear or vanish, so
that a folder of exactly the two is among the saves. `entries` is what the folder listed when it
was read. `campaign.xml` is a pair: the bytes outside the planned span, and the
value in it. The directory's name is derived from the plan (`default_copy_name`), so a
directory is indexed by its plan. A file of a copy is opened and then written, and so is the
expectation file (`OpenMark`, `WriteMark`): a failure or death in between leaves it `begun`. A failed copy is removed entry by
entry, in any order, and the removal may stop anywhere without a word (`EndRemoval`), or die. So
a directory may be left with a mark and not all of its files, and `MarkedIsWhole` says when: only
where the mark itself was begun and never written (`HalfRemoved`). The original is
written by nobody but the game: no action of a job changes `save`.

Not modelled: several changes in one plan (their spans are disjoint by a check the code makes,
and a plan is one value here), and the order and number of the reads of the source's
`campaign.xml` inside one `verify_copy` (taken as one). A read of one file is one step.

### SaveWorkshop

The user's actions are the slots of `SaveWorkshopWidget`; `Invalidate` is `_invalidate_plan`
with its new epoch; `Run`, `Delivered`, `Failed`, `Finished` and `Dropped` are the window's
operation threads as in `DesktopSession`, here with what the completions do to the tab. A
write has no "Stop Waiting" dialog, so the user goes on while it runs. The epochs turn out
to be a second line of defence: inspections and reviews hold the user up with a modal dialog
and a stopped one is refused by its token, so that no behaviour of the model needs the epoch
to refuse anything. A plan is an abstract value, writable if every change was accepted.

Not modelled: the columns and the font, messages, and the capacity verdict itself.

### Legality and CandidateSearch

`Legality` is `validate_variant` by codes: `Failures`, `Uncertain` and `Verdict` over hulls,
parts and fits as records. `None` in the code is `Unknown`. Ids are numbers in alphabetical
order, since the code sorts by them.

`CandidateSearch` runs `_build_candidate` in phases (`FillMount` for each mount, `AddHullmod`,
`AddWing`, `Validate` with the split of the rest into vents and capacitors), once for each seed
of `generate_candidate_alternatives` and each path of `generate_build_archetype_candidates`, then merges
the paths (`Offer`). The sort keys are `WeaponKey`, `HullmodKey` and `WingKey`. The vent target
is a float of the hull's dissipation: every split within the limits is allowed. An offer of a
build set may be collapsed as a near duplicate, by a distance that is left open.

### Refit

A repair runs `NextFixer` and `ApplyFix` through nine fixers a pass and `Assess` after each,
at most three times; `Wanted(k)` is the set of changes that fixer k would make next, so a
fixer with several changes takes several steps. A quality refit is `Improve` until
`EndImprovement`. Scores are constants of a fit (`Metric`), whatever they are.

Not modelled: reasons and costs shown to the user, a hullmod listed twice, and, in the
non-deterministic modes' ranking by scores, which of the compatible weapons is taken.

### Registry, CompositeHulls, ModImport and ModChecks

A folder holds one record: for each kind of entity a function from ids to what a file says,
its skins, and its parse errors. `DiscoverSources` and `FullScan` give the claims that a scan
collects from the folders in order, with the skins it could make (`SkinsMade`: a base declared
once; skins of skins only if the base was read before). `RegistryOf` is the index: an id with
one claim resolves; hullmods that say the same are one (`Canonicalised`); any other id is
ambiguous, except to a variant of a mod whose dependencies leave one candidate (`Contextual`).

`CompositeHulls` follows `classify_combat_entity_kind`, `build_composite_ship_profiles` and
`audit_complex_hulls`, which resolve a variant's module map independently of each other.
Slots have names; a mapping whose slot is empty is skipped by the profiles and counted by the
audit. A variant without a hull id has an unresolved profile but no finding; a module array
without mappings has its parent audited all the same. The audit never asks that a child hull
declare itself a module, and a hull that is only used as one is ranked as a ship. The role of
a wing (`classify_fighter_wing_entity`) is left out.

`ModImport`: `Drop` extracts at once, into the folder of the archive's stem, which another
archive of the stem shares; `ScanStarts`/`ScanDone` and `MergeRead`/`MergeDone` bracket a scan
or the merge of one dropped mod (`scan_single_mod`, then `run_incremental_mod_scan`), during
which folders and archives may change. What a scan reads is taken at one moment; edits within a
parse are `ScanPipeline`'s. All other readers and operations of the window are one `job`.
An extraction that stops in the middle leaves nothing here. `ModChecks`: `CheckMod` is the
verdict of `check-mod` on a path, which leads to a folder (`FolderAt`), in the context of the core
or of the enabled mods; a message is taken for the folder's own when the path, as given or
resolved, is a part of it, so a relative path takes in messages of any folder whose full name
contains it (`NamedBy`);
`StartAudit`, `AuditChunk`, `AuditEnds` are `run_acceptance` chunk by chunk with its checkpoint,
`AuditDies` a death before, within or after an append. `Regressions` is the comparison with a
baseline. Commands run one at a time. Only the enabled scope is modelled; records of one id
collapse, as in the code's dictionary. The version inside a verdict, an unreadable baseline and
message texts are left out.

### Export

`StartExport` generates and validates; each written file is then a step that keeps what is
equal, refuses what differs (`SameOrMissing`) and writes what is missing, in the code's order:
variant, `mod_info.json`, `README.txt`, manifest. Between two steps the process may die, a scan
may adopt another installation, and the user may edit or delete any of the files. `parted` is
history: the variants that the user changed beside a manifest that stayed, or under a running
export. It cannot be avoided: a variant file says nothing of its origin, so when the user
deletes only the variant, as the collision message invites, the next export writes a new one
beside the old manifest and is then refused, and `check-export` may call that manifest current:
it compares the hashes of hull and weapons and the mods they come from, and neither hullmods,
wings nor heuristics. One process exports at a time; two at once would race `exists()` against
the write. Editing a manifest is left out.

### SaveEdits

`ReviewEdit` makes an `EditPlan`: `Outcome` is what `build_edit_plan` says of each request, alone
and then with all of them against the capacities (`WithinAlone`, `Within`). `WriteEdit` makes
a copy (`Patched`) only of a plan accepted in full; `LoadCopy` is the game reading it (`Loaded`)
and writing its log, `VerifyInGame` the comparison of the log with `Expected` (`Verdict`).
`ChooseNext` goes on from the copy, `StartOver` from the save. Integers are `int32` and amounts `float32`
in small: `IntMax`, `Exact` (below it a float holds every integer) and hundredths of `Cent` steps
stand for 2^31-1, 2^24 and two decimals, so that rounding and saturation both happen. A copy keeps
the space figure of its source, so a copy of a copy may exceed a capacity by what that figure
misses: `CapacityKept` says exactly that much (a save stores its capacity figures as of save time,
`SAVE_WORKSHOP_DESIGN.md:39`). No preview is made where a capacity is 0. A PASS of the comparison says nothing of
credits, story points, marines and heavy machinery, which the log does not report. Left out:
the `capacity_as_source` variant, and the overflow of a float.

### Advisors

`GapAdvice` starts from a world (a faction's known hulls, all hulls with their capabilities,
builds and variants, a knowledge pack) and a heuristic set; `Recommend` computes the three legs
(`NativePool`, `RetrofitPool`, `AcquisitionPool`), each ranked and cut to a varied shortlist;
`AskHull`, `AskBuild` and `AskOption` are the why-not questions, which build their trails again.
Scores of a hull, a build, a variant or a scenario fit are given constants, in integers; sums
and products of them follow the code. `FleetAdvice` keeps what the window keeps: the scan, the
order (selection, options, scenario), the advice and its cards; its rules are functions of a
scan and an order, as cards may be of an earlier one. `GenerateFit` is the click on a card. A
ranking (`InOrder`) is a pool in the order of its sort key, which no two of a pool share. Left out: `_scenario_fit_score`, evidence texts, serialised requests, officers, retrofit
templates of a pack, overrides.

### Analyses, AnalysisReports and ResultCache

`Analyses` says of every analysis which files it reads, by evaluating it on the disk: an
analysis stands for its evidence. `AnalysisReports` writes and reuses the report files of a
scan, whole or one by one, with deaths between two files, and announces the impact of a change.
`ResultCache` keeps finished results of `generate` and `recommend` under the context each
declares (`AlternativesContext`, `PathsContext`, `GapContext`), for two commands and edits
between them. The hashes in a context are a bare sorted tuple in the code; `SourceHashes` tags each
with the entity it is of, as if no two files ever shared a hash: two files that swap their
contents are told apart by the model alone. Nothing deletes a row: `invalidate` has no caller.

### Calibration

`Resolve` matches a sheet's rows with the install (`ResolveName` by the `Stages` of the code:
alias, name, normalised name, name without its qualifier), anew from the raw sheet or in place; `AddAlias` helps it;
`Approve` is a person's approval of the listed rows that are ready, which replaces the sheet,
and `Journal` the append of the log that follows it. `Propose` makes labels of approved rows, `Evaluate` measures
labels under every heuristic set. `UpdateMod` and `Die` come in between. Left out: the workspace's directories and the
comparison of two reports.

## 3. What TLC checks

The type invariants of the modules with theorems are proved, and no run repeats them.

| run | checked on | shows |
|---|---|---|
| `session_all` | 2 operations, 3 buttons (one of each kind), 2 scans, drops, cancels, stops, failures, closes | the session implements `SessionRegistry`; no merge is computed from a stale result; no button stays dead; a result is shown exactly when it is awaited; a scan is adopted unless it was cancelled; the window outlives its threads; scans end and deferred closes happen |
| `scan_cold` | 2 sources, 2 contents, pools of 2, 3 scans, 2 edits between scans, 1 damaged manifest, crashes | `ImplementsColdScan`: caches, pools and completion order do not show; reuse is exact; every scan ends |
| `scan_fault` | 2 sources, read faults | *violated*: a fragment with an unreadable file is stored and reused |
| `scan_manifest` | 2 sources, a damaged manifest | *violated*: a malformed manifest fails the scan |
| `workbench` | six independent parts, below | the library loses nothing and asks first; approvals are accounted for and builds judged on their own; edits keep capacities and comparisons are true; a merge agrees with a rescan; no installed mod makes a check milder; a sweep is whole; an export is traceable |
| `library_publish` | the library | *violated*: a publication that failed at the manifest is reported as done when it is repeated |
| `calibration_labels` | the calibration | *violated*: two labels of one hull are judged by what the later one made the observer record |
| `save_again` | 1 job, no change by the game | *violated*: the second verification fails for a save with any third file |
| `workshop` | the tab: 2 operations, 2 saves, 5 operations begun, 4 changes; the copies: 2 jobs, 3 files of which one may be absent, 2 versions, 3 writes and changes by the game together | what is in force is what is on the screen; a write is reported unless a later one was begun; a reported copy is the planned one; a directory with a written mark is whole; a verified copy is of the reviewed save; only the maker writes a directory |
| `workers` | six independent parts, below | fits are legal, within the request, and diverge; repairs settle, locks hold, changes explain the fit, improvements hold; shortlists are honest and why-not agrees; fleet advice holds; reports and cached results are current and staleness is announced |
| `reuse_stale` | 3 commands, 2 edits | *violated*: `generate` after an edit of the `.ship` file returns the earlier result as `CACHE_SAFE` |
| `advice_scenario` | a scenario with a target of 0 | *violated*: a declared scenario is not assessed but divides by zero |

The parts of `workbench`: the library (1 id, 3 texts, failures and crashes, the two threads
at once); the calibration (5 hulls from 4 sources, 4 rows, 2 heuristic sets, 1 update,
1 death, 1 alias); the edits (9 saves, one or two of 18 requests, a copy of a copy); the mods
(6 folders, 2 archives of one stem, 2 drops, 1 change); the checks (the same folders, absolute paths and one that is a part of two folders' names, 3 sweeps
of one mod a chunk, 2 deaths, 1 change); the export (1 variant of a hull and 2 possible weapons,
4 installations, 2 heuristic sets; nothing is bounded). The parts of `workers`: the search (18
hulls, 7 requests, 6 weapons, 5 hullmods, 3 wings, seeds up to depth 2, 3 paths); the refit (5
hulls, 10 fits, 3 sets of locks, 8 modes); the gaps and the fleets (worlds and rosters in which
every rule decides something, listed in `MCAdvisors`); the reports (2 edits, 3 scans, 1 death);
the results (2 edits, 2 commands, 3 in the violated run, none edited before the first command).
`MaxHappenings = 3` of `MCSaveWorkshop` admits two writes and one change by the game, or one write
and two changes: two writes suffice to meet in a directory, two changes to change and to come
back. Three sweeps are a first baseline, a second and a report; a drop needs a second to meet another
archive of its stem; two commands are a store and a lookup.

`session_all` and `scan_cold` check liveness and use no symmetry. `workshop` permutes jobs,
operations, saves, versions and values: nothing in those modules or their properties
distinguishes one from another. `CHECK_DEADLOCK FALSE` where it stands: the user may stop, the
window may be closed, and the bounds on scans, jobs and commands run out. In `workbench`
deadlock is checked. `MaxChanges = 4` and `MinGain = 1` of the refit stand for the heuristics'
20 and 0.5; no fit of the instance needs more than a few changes, and some need more than four,
so that both ends of the budget are met.

### Fairness

`DesktopSession`: weak fairness of each worker's end and of the delivery of each signal. A
worker runs a terminating call on its own thread and emits exactly one terminal signal in
every path (`AnalysisWorker.run`, `ScanWorker.run` catch everything); Qt delivers queued
signals while an event loop runs, and modal dialogs run one. Nothing is assumed of the user.
`ScanPipeline`: weak fairness of the coordinator and of the two pools, ordinary threads that
nothing suspends. The other modules state safety only: their loops stand in one thread and are
bounded by counters or by what is left to do.

### Findings

1. A fragment with read errors becomes a snapshot under the full content's fingerprint
   (`scan_fault`).
2. `update_manifest` parses the manifest `load_manifest` has just declined
   (`scan_manifest`).
3. `publish_editable_retrofit` writes the variant before it looks at the manifest, and
   returns early the next time (`library_publish`).
4. `run_save_verify_copy` hands two hashes to a comparison of all files (`save_again`). This
   one was also seen by running the code on a folder with a third file.
5. `collect_build_observations` keeps one observation per hull, so a label is judged by what
   a later label of the hull made it record (`calibration_labels`).
6. A hull's `.ship` file is no part of what a cached result declares (`reuse_stale`).
7. A scenario target of 0 is accepted when a scenario is declared and divides by zero when it
   is assessed (`advice_scenario`).

Three statements are written down as properties that the code does not keep and no run checks.
`StoppedWaitingNoErrorBox`: `main_window.py:360` connects `failed` straight to the error box,
and the token-gated `_fail_operation` is never connected. `TaskIsSnapshot`: several handlers
start without asking `_registry_write_in_progress` and read the registry later.
`NoMoreThanNecessary`: a wing removed for the budget goes with all its copies.

Disagreements met while reading, which the properties step around with a named premise or
which lie in what is abstracted:

- Calibration. Resolving the raw sheet again replaces the resolved sheet and loses its
  approvals, though the alias command's help says to re-run it; resolving in place can change
  the hull of an approved row; `propose` binds labels to the current hash, so none is ever
  STALE; `compare_calibration_reports` keeps the last row of a hull; `add_alias` refuses a name
  without letters though triage prints that fix; two approvals at once lose an update.
- Reuse. A skin's profile is reused though its base hull's columns changed; an edit during a
  scan leaves a whole reuse stale for good; `_safe_segment` maps two names to one file; change
  impact names nothing for variants, `.ship` and `.wpn` files, packs and adapter tables.
- Advice. The native and retrofit why-nots ignore pack and policy, and the acquisition one the
  policy (`explanations.py:43`); a shortlist falls back to the least similar candidates where
  its docstring and reason text say best; of equals the larger id is preferred; an acquired
  hull's build is said to have no capability while it is listed; scenario options compare scores
  of different legs, which a comment in `scenario.py` says never happens; a need supported only
  by candidates that are ranked but not shown is neither shown nor unaddressed.
- Mods. `check-mod` on a relative path takes in the errors of an installed mod whose folder's
  name contains it (`check_mod.py:60`), and reports FAIL on an installed, enabled mod's own
  folder, because folder and
  ids are scanned twice; archives of one stem share an extraction folder (`mod_import.py:45`
  says one per archive); a merge keeps an earlier skin whose base has become ambiguous and makes
  skins of skins that a full scan refuses; a mod that is removed from the list and dropped again
  is merged twice and all its ids become ambiguous; the header of a checkpoint does not see an
  edit that keeps counts and versions; a torn line loses all progress; the baseline comparison
  ignores the scope; without `--all-installed-mods` mods that are not enabled, and so never
  read, get a record, usually PASS; a hullmod that is resolved by context is still
  HULLMOD_NOT_FOUND to `validate_variant`.

## 4. What is proved

`tlapm` checks every proof to its leaves. The assumptions are those of the modules
(`SessionAssumption`, `ScanAssumption`, ...): finite, typed, distinct constants, nothing about
their size. The theorems that assume more say so in their statement, and the list below why.

- `DesktopSession_proofs`: `TypeCorrect`, `RegistryLocked`, `MergesAreUpToDate`,
  `MergesExcludeReaders`, `ClosedWindowIsIdle`, `SessionImplementsRegistry`, and
  `ButtonsComeBack`, `ScansAreAdopted`, `AwaitedIsShown`. The invariant is `WriterInv`. That the button is the lock is not inductive alone: `_finish_thread` re-enables
  the button of a merge only if there is a registry, so the invariant adds that a merge has
  one, and `MergeUpToDate` needs that no scan can have been adopted meanwhile, which is the
  lock again. The refinement follows from `WriterInv` step by step. What is shown is what is
  awaited by `AwaitInv`: requests are numbered as their tokens are, no two requests of one
  button share a token, and so a token is current exactly as long as its result is awaited.
- `ScanPipeline_proofs`: `TypeCorrect` and `CancelIsBounded` for every disturbance the module
  has; `ReuseExact` and `ScanIsCold` under `Quiet`, no edit of a source while it is scanned
  and every file readable. The invariant is `ScanInv` (`Accounted` says for each position of
  the coordinator which sources have a fragment) with `ColdInv` (snapshots are sound, prints
  and fragments are of what the disk holds). `Quiet` is needed: `scan_fault` shows why for
  read faults, and with `MidScanEdits` TLC finds a source edited between its fingerprint and
  its parse, stored under the old fingerprint, and reused when the edit is undone.
- `Workbench_proofs`, of `RetrofitLibrary`: `LibraryTypeCorrect`, `LibraryLosesNothing` and
  `LibraryAsksFirst`, for any ids and texts and every interleaving of the two threads. The
  invariant is `LibraryInv`: what was read for the history is what the target still holds
  (`TargetKept`), and an operation nobody was asked about found no file and there still is none
  (`AskedOrAbsent`), unless populate wrote there since, and then it holds the generated fit; and
  where populate is about to write there is no file, unless the user's operation wrote it since
  (`WorkerFoundNone`).
- `SaveWorkshop_proofs`, of `SaveCopy`: `TypeCorrect`, `WritesWhatWasPlanned`, `MarksOnlyWhole`,
  `VerifiesWhatWasReviewed`, `OnlyTheMakerWrites`, for any folder, any number of jobs and any
  changes by the game. The invariant is `CopyInv`: `Prepared` (what a job read is what its plan
  holds, and how many hashes it has), `OwnCopy` (from `mkdir` until its removal ends, the
  directory of the plan was made by this job, holds what was copied so far, and has a mark only
  where the job is past it) and `MakerKnown` (a directory's maker, also one that is done or dead,
  keeps its plan and hashes, by which what it left is judged). Of the tab, for any saves, values,
  threads and changes: `TabTypeCorrect`, `PlansAreOfScreen`, `WritesAreReported`. `TabInv` says
  why the plan in force is of the screen: whoever is still awaited by an inspection or a review
  has the one dialog on the screen (`AwaitedHasDialog`, `OneDialog`), and under a dialog nothing
  that the request was made of is changed (`DialogIsOfScreen`); the proof does not need the
  epoch. `WriteInv` says that threads are numbered in their order and that nothing
  but a later write drops the result of a write.
- `Workers_proofs`, of `CandidateSearch`: `TypeCorrect`, `BudgetIsKept`, `RequestIsHonoured`, for any hull,
  parts and request. The type invariant carries the argument: what is still to be considered
  is eligible in every phase, so that whatever rank a seed asks for is a part the request
  allows; the budget is an invariant of its own, as each selector is given what is left.
- `Workers_proofs`, of what is generated: `GeneratedAreLegal` and
  `AlternativesAreChoices`. The first says that the validator, written apart, finds nothing
  against what the search builds: `BuildSound` (parts are eligible and each is considered
  once) and that `spent` is the sum of what the parts cost, which is what the validator sums.
  It assumes `Incompatible = {}`, which the code states of itself (the table of exclusive
  pairs is empty by design, `generation/refit.py:36`); the search does not look at it. The
  second needs what a greedy build decides to be a function of what it decided before
  (`BuildGreedy`): then a seed that gets its rank at its mount has the baseline before it and
  something else there, for two options of different rank are different weapons, as the order
  of the options is total. `SearchOrdered` keeps, of every path, the baseline first and the
  alternatives in the order of their ranks; `PassedOver` says that what a phase passed over
  does not fit, and `OfferedInRounds` that the offer has taken from every path what it took
  from one, up to its length.
- `Counting`, for the other proof modules: what a sum over a finite set is. A sum is
  `SumFunction` of the community modules, a fold, and a fold is a recursive function; that the
  function exists is proved by well-founded induction on the finite subsets (`SumExists`), a
  set taking the place of the predicate that the library's induction theorems would ask for.
  `SumTakesOut`, `TotalPutsIn`, `TotalOfPart` and the rest are what the sums are used for;
  `FirstInOrder` and `GreatestNatural` pick an extreme member of a finite set.
- `Refit_proofs`: `TypeCorrect`, `LocksAreKept`, `ChangesExplain`, `ImprovementsAddUp` and
  `RepairsSettle`, for any hull, fit, locks, metrics and parts.
  Every change that a fixer or the search may want is `Permitted`: it takes, changes or adds
  a part that is not locked, or lowers a number. `RefitInv` adds to the two properties that
  the changes are a sequence and that a fit without an indexed hull has no other failure,
  so that no fixer runs on it. `LogInv` explains the fit: a mount holds what the last change
  logged of it says, and the hullmods go one way, for a fixer adds none and a quality search
  removes none, so that what was removed is not back. `GainInv` keeps what a search has gained.
  `ImprovementsAddUp` assumes `ScoresAreNumbers` (a metric is a number or unknown).
  `RepairsSettle` rests on what all fixers do alike (`Lessened`): parts go or become fewer,
  and a weapon that comes in is one that its mount takes. So none of the first eight kinds of
  failure comes back, and no fixer of them that was done gets work again (`AbsentStays`,
  `LessIsLeft`). `SettleInv` says what that leaves to the passes: after the first, only the
  points may still be over, since a replacement may cost more and a removal may make the total
  known; in the second nothing runs before them, and in the third nothing runs at all. That an
  unlocked repair succeeds adds that a fixer without work means no failure (`NothingLeft`,
  which looks at the last of the excess), and that the validator and the fixer of the points,
  which sum apart, get one total once every reference is resolved (`TotalsAgree`).
- `Workers_proofs`, of the two caches: `HitsStayFresh`, `ReportsStayCurrent` and
  `ChangesAreAnnounced`, for any files, entities, loadouts, edits and deaths. Each rests on a
  lemma about two disks: equal fingerprints mean equal evidence (`KeyFixesResult` for a result,
  `FingerprintFixesReport` for a report, `WholeFixesReports` for a whole set), as a set of
  hashed entities fixes which they are, hence the loadouts, hence what is carried. `ReuseInv`
  says from which disk every report on disk was computed (`ReportsInv`), that a run leaves
  behind it what is current (`RunInv`, where a document waits for its fragments), and that
  outside of a run the listed reports that are left are of the published fingerprint
  (`PublishedInv`), unless a run died: that is why the property has its exception. The two
  theorems on reports assume `NoneIsNoReport`, and `ChangesAreAnnounced` also
  `VariantsHaveFiles`, no variant file being the table of another entity: a changed variant
  reaches nothing, and were it a row of a table of hulls, the impacts would miss it.
- `Advisors_proofs`, of `GapAdvice`: `ShortlistsAreHonest` and `AnswersAgree`, for any worlds,
  packs, heuristics and policies that are finite, typed and have one build of an id to a hull
  (`GapAssumption`, `WorldsAssumption`). A sort key is a tuple of numbers, and comparing tuples
  of one length is a total order (`ExceedsIsTotal` and its neighbours), so each member of a
  pool has one place in its ranking (`InOrderIsSorted`). A shortlist is built one by one; that
  the recursion has a solution is proved first, and that what it builds is a shortlist by
  induction on its length (`Shortlisted`: as many as may be, none twice, and nothing far from
  the best while a near one is left out). Each leg's pool is then shown to be fair, with one
  candidate to a hull and a build. Why-Not builds trails of its own: where it is asked with
  what the report was made with they are the pools of the legs, so that what it says is read
  off the same ranking. The invariant is `GapInv`: the report is what the rules make of the
  world, and an answer is of a report there is and agrees with it.
- `Advisors_proofs`, of `FleetAdvice`: `AdviceHolds`, for any scans, selections, orders and
  scenarios under `FleetAssumption`, `ScansAssumption` and `OrdersAssumption`: all is finite,
  scores are numbers or unknown, ids are ordered, and every doctrine is shared out among the
  same labels. That a request that is answered never divides by zero is most of it: each mean
  is over a selection with a count, each score an integer (`SupportScoreIsInt`). The invariant
  is `FleetInv`: the cards are of some scan and some order there were, perhaps not of those
  there are, and what was said last is of those there are, so a fit that was generated is of a
  list made now.
- `Workbench_proofs`, of `CompositeHulls`: `AuditAgreesWithProfile`,
  `AuditedParentsAreNotRanked`, for every registry and variant with a hull and a module map: the two resolutions of one map, written
  apart, call the same maps sound, and the parent of a map the audit finds nothing against is
  a hull that is never ranked as a ship.
- `Workbench_proofs`, of `Export`: `Traceable`, for any ids, installations and heuristic sets, under
  `FitAssumption` (a legal fit uses what the installation has) and `TextAssumption` (what the
  program writes is a file, and not one it did not write). The invariant is `ExportInv`: past
  its first file a running export's variant is in place (`ExportGoesOn`), a finished one's
  variant and manifest are (`FinishedInPlace`), and a manifest's variant belongs to it
  (`NeverAlone`), each unless the user parted the two.
- `Workbench_proofs`, of `Calibration`: `ApprovalsAreAccounted` and `BuildsAreJudgedAlone`, for
  any sheet, hulls, candidates, label files and changes of the install. `ApprovalInv` says of
  every row that triage, which judges the columns anew, finds a reason against it exactly if
  resolving left it open and not ready (`RowSound`), and of every approved row that it has a
  grant and an account; approving keeps it because what is ready has a hull. The second rests
  on `JudgedAlone`: of the labels that share a hull's observation, all that may come last are
  about the build, and what is found for those does not depend on what they expect. They
  assume `MissingIsNoHull` (nothing is neither a hull nor its key) and `FixturesAreLists`
  (a label file is numbered from 1).
- `Workbench_proofs`, of `SaveEdits`: `CapacityIsKept` and `VerdictsAreTrue`, for any saves that
  are `Stored` (their numbers can be stored, and what is no stack takes no space), requests,
  catalogs and widths. `EditInv` says that the plan is of the chosen save, the copy of the
  plan, the load of the copy and the verdict of the load, and that every save that is chosen,
  a copy or what the game made of it, is `Stored` again. The first is then a fact of one plan
  (`CopyFits`): the space of the copy is that of the save and of the changed goods, for what
  else is changed has no weight (`SpaceMoves`), and that sum is the one that was judged. The
  second needs that a stored number is read back as it is (`StoredReadsBack`), and that one
  unit, to which a mod may set the supplies, shares its hundredths with no other amount
  (`OneIsReported`), which holds as `Cent` is below `Exact` and `IntMax`. That the spacing of
  the floats is a function at all is proved first (`UlpEquation`).
- `Workbench_proofs`, of `ModChecks`: `ReportsAreWhole`, for any folders, changes, sizes of a
  chunk, runs and deaths. `SweepInv` says that what lies in a checkpoint, whole or torn, are
  verdicts that some possible scan with its header gives (`CheckpointOk`); that what a run has
  and what it still has to do are together the mods of its scan (`AuditOk`); and that a
  baseline is no regression against what its line began with (`BaselineInv`), which stays so
  since neither of the two comparisons that make a regression can be undone in between
  (`KeepsIsTransitive`). Which scans are possible are those of the disks that the folders can
  form (`DiskIsPossible`).
- `Workbench_proofs`, of `ModChecks`: `ChecksAreOfTheFolder`, for any folders, paths, installed and
  enabled mods and changes. That a verdict at hand is of the folders as they are is
  inductive (`CheckInv`); the rest compares two scans of one disk, with the installed mods and
  without. A source is read once for each place it has in the scan (`SiftedTakesAll`,
  `ThreeParts`, `SourcesAreFound`), so the claims that the restriction to the folder and the
  core keeps are theirs as their files say them, each marked with a place (`ClaimsHere`); their
  skins find the same bases as no other mod crosses them (`BasesHere`, `SkinsHere`); and to
  resolve an id by claims that differ in the places alone is to resolve it alike
  (`MarkedResolve`). So both verdicts are the plain one of the two folders (`VerdictIsPlain`), but for the errors
  taken for the folder's own, of which the installed mods can only add.
  It assumes `FoldersAssumption` (the game is not a folder under `mods/`), `HeldAssumption` (a
  folder holds finitely much), `CoreIdAssumption` (no mod takes the id of the core) and
  `PathsAssumption` (a message about a file of the folder itself has the path in it).
- `Workbench_proofs`, of `ModImport`: `MergesAgree`, that is `MergeAgreesWithRescan`, for any
  folders, archives, drops, removals, failures and changes. What a merge keeps and is short of
  the whole claim is `Whole`: the sources of a scan are its enabled mods, each once and in
  their order (`Drawn`), and every hull made of a skin had a base that was declared once at
  some time from its source on, every skin left without one a base that at some such time was
  not (`SkinsHold`, kept by `MergeHolds`: what is added later changes neither). `ImportInv`
  says so of the scan at hand and of the one that a running merge adds to. The rest compares
  two scans whose sources come in different orders, those of one mod in one order, which is
  what `UpToDate` says (`TurnsMatch`, `SourcesMatch`): a bijection of the places takes the
  claims of the one to those of the other (`ClaimsAreCarried`), hence the indexes to indexes
  that resolve alike, canonical hullmods and ambiguities included (`IndexesAreAlike`), hence
  references, factions and structures (`AlikeResolve`, `StructuresMatch`, `DefinitionsMatch`).
  The closure of the dependencies is a function of what each mod needs, so it is enough that
  these tables are equal (`DependenciesMatch`). Were two folders of one mod to come in another
  order, the index would keep other dependencies and another folder's composite hull would
  count: that is why `UpToDate` excludes it. It assumes `FoldersAssumption`, `DiskAssumption`,
  `HeldAssumption` (a folder holds finitely much, and the module array of a variant is a list)
  and `DropsAssumption` (what is dropped stands for folders).

`RegistryLocked`, `MergesExcludeReaders`, `CancelIsBounded`, `BudgetIsKept` and
`TabTypeCorrect` are proved and are no run's property, nor are the two of `CompositeHulls`.

Only model-checked, and why:

- `ScanEnds` and `CloseCompletes`: liveness under fairness, which is out of the prover's reach,
  as is `ENABLED`.

Every safety property of a passing run is a theorem.

## 5. The plan

The session, the scan, the registry, the library, the saves, the searches, the advisors, the
caches, the calibration, the checks of mods and the export are done. What is left, in order:

1. Two exporting processes on one folder, and two approvals of one sheet, each a race of a look
   and a write that the README names and no run has.
2. Edits within a parse joined with merges: `ScanPipeline` has the former and `ModImport` the
   latter.
3. `_scenario_fit_score` and the archetype scores as orders: which changes of a fit may never
   lower them.
4. Release verification and the feedback file.

## 6. Not modelled, and why

Scores and ship statistics are floating-point formulas without state, over numbers TLC cannot
enumerate; where a module needs one it takes it as a constant of the thing scored, so that
what is shown holds for every score of the instance. The hullmod static analysis matches
patterns in Java sources and the save readers locate spans in XML bytes: string processing.
Widgets, texts, argument parsing and the packaging tools have no behaviour of their own.
Release verification compares an archive with its inventory and changes nothing; recommendation
feedback reads, appends to and replaces one file. Path containment in `core/safeio.py` and the
limits of an archive in `core/mod_import.py` are guards on inputs, refused as a whole where a
module meets them. What is left out of a component that is modelled in part stands with its
module above and in `PROJECT.json`.
