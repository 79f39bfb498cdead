-------------------------- MODULE ScanPipeline_proofs --------------------------
(* Proofs about ScanPipeline, for any number of sources, contents,         *)
(* selections, pool sizes and scans.                                       *)
EXTENDS ScanPipeline, FiniteSetTheorems, TLAPS

(* The sources are numbered from one.                                      *)
LEMMA SourceNumbers == \E n \in Nat : Sources = 1..n
<1>1. Cardinality(Sources) \in Nat
  BY ScanAssumption, FS_CardinalityType
<1> QED
  BY <1>1, ScanAssumption

(* A snapshot that is loaded is a fragment.                                *)
LEMMA LoadableType ==
  ASSUME TypeOK, NEW s \in Sources, NEW p
  PROVE  Loadable(s, p) \in Fragment \cup {Nothing}
<1>1. snapshots[s] \in Snapshot \cup {Nothing}
  BY DEF TypeOK
<1>2. CASE p # Failed /\ snapshots[s] # Nothing /\ snapshots[s].print = p
  <2>1. snapshots[s].fragment \in Fragment
    BY <1>1, <1>2 DEF Snapshot
  <2> QED
    BY <1>2, <2>1 DEF Loadable
<1>3. CASE ~(p # Failed /\ snapshots[s] # Nothing /\ snapshots[s].print = p)
  BY <1>3 DEF Loadable
<1> QED
  BY <1>2, <1>3

(* What _store_source_fragment writes is a snapshot file.                  *)
LEMMA StoredType ==
  ASSUME TypeOK, NEW s \in Sources, prints[s] # Nothing, fragments[s] \notin {Nothing, Failed}
  PROVE  Stored(s) \in [Sources -> Snapshot \cup {Nothing}]
<1>1. CASE prints[s] = Failed
  BY <1>1 DEF Stored, TypeOK
<1>2. CASE prints[s] # Failed
  <2>1. prints[s] \in Contents /\ fragments[s] \in Fragment
    BY <1>2 DEF TypeOK
  <2>2. [print |-> prints[s], fragment |-> fragments[s]] \in Snapshot
    BY <2>1 DEF Snapshot
  <2> QED
    BY <1>2, <2>2 DEF Stored, TypeOK
<1> QED
  BY <1>1, <1>2

(* What a parse job leaves in its future: a fragment of its source, of     *)
(* what the source holds, or an exception.                                 *)
LEMMA ParsedFragment ==
  ASSUME TypeOK, NEW s \in Sources, ParseSource(s)
  PROVE  \E f \in Fragment \cup {Failed} :
            /\ fragments' = [fragments EXCEPT ![s] = f]
            /\ Quiet /\ f # Failed => f = Cold!ParseOf(s, disk[s])
<1>1. PICK whole \in (IF ReadFaults THEN BOOLEAN ELSE {TRUE}) :
        \E f \in {[source |-> s, content |-> disk[s], complete |-> whole], Failed} :
           fragments' = [fragments EXCEPT ![s] = f]
  BY DEF ParseSource
<1>2. PICK f \in {[source |-> s, content |-> disk[s], complete |-> whole], Failed} :
           fragments' = [fragments EXCEPT ![s] = f]
  BY <1>1
<1>3. whole \in BOOLEAN
  BY <1>1, Zenon
<1>4. disk[s] \in Contents
  BY DEF TypeOK
<1>5. [source |-> s, content |-> disk[s], complete |-> whole] \in Fragment
  BY <1>3, <1>4 DEF Fragment
<1>6. Quiet => whole = TRUE
  BY <1>1, Zenon DEF Quiet
<1>7. Quiet => [source |-> s, content |-> disk[s], complete |-> whole] = Cold!ParseOf(s, disk[s])
  BY <1>6, Zenon DEF Cold!ParseOf
<1> HIDE <1>1
<1> QED
  BY <1>2, <1>5, <1>7

(* Leaving a scan keeps the invariant.                                     *)
LEMMA LeaveInv ==
  ASSUME ScanInv, NEW o \in Ended, Leave(o)
  PROVE  ScanInv'
<1>1. TypeOK'
  BY DEF ScanInv, TypeOK, Leave, filesVars, hashVars, bounds
<1>2. Accounted'
  BY DEF ScanInv, Accounted, Leave, hashVars, Ended
<1>3. LateInv'
  BY DEF ScanInv, LateInv, CancelBounded, Leave, Ended
<1> QED
  BY <1>1, <1>2, <1>3 DEF ScanInv

LEMMA InitInv == Init => ScanInv /\ ColdInv
<1> SUFFICES ASSUME Init PROVE ScanInv /\ ColdInv
  OBVIOUS
<1>1. cancel \in BOOLEAN
  BY Zenon DEF Init
<1>2. TypeOK
  BY <1>1 DEF Init, TypeOK, Ended
<1>3. Accounted
  BY DEF Init, Accounted
<1>4. LateInv
  BY DEF Init, LateInv, CancelBounded
<1>5. ColdInv
  BY DEF Init, ColdInv, SnapshotsSound, PrintsFresh, ReusePrinted, FragmentsFresh,
     ResultCold, Scanning
<1> QED
  BY <1>2, <1>3, <1>4, <1>5 DEF ScanInv

LEMMA TypeStep == ScanInv /\ [Next]_vars => TypeOK'
<1> SUFFICES ASSUME ScanInv, [Next]_vars PROVE TypeOK'
  OBVIOUS
<1> USE DEF ScanInv
<1>1. CASE StartScan
  <2>1. cancel' \in BOOLEAN
    BY <1>1, Zenon DEF StartScan
  <2>2. selected' \in SUBSET Sources
    BY <1>1, ScanAssumption DEF StartScan
  <2> QED
    BY <1>1, <2>1, <2>2 DEF StartScan, TypeOK, filesVars, Scanning
<1>2. ASSUME NEW s \in Sources, HashSource(s) PROVE TypeOK'
  <2>1. prints' \in [Sources -> Contents \cup {Nothing, Failed}]
    BY <1>2 DEF HashSource, TypeOK
  <2> QED
    BY <1>2, <2>1 DEF HashSource, TypeOK, filesVars, parseVars, bounds
<1>3. CASE SkipDisabled
  BY <1>3 DEF SkipDisabled, TypeOK, filesVars, parseVars, bounds
<1>4. CASE AwaitPrint
  BY <1>4 DEF AwaitPrint, TypeOK, filesVars, hashVars, parseVars, bounds, Scanning
<1>5. CASE HarvestPrint
  <2>1. next \in Sources
    BY <1>5 DEF HarvestPrint, Hashed
  <2>2. /\ reusable' \in [Sources -> Fragment \cup {Nothing}]
        /\ toParse' \in SUBSET Sources
    BY <1>5, <2>1, LoadableType DEF HarvestPrint, TypeOK
  <2>3. late' \in Nat /\ next' \in Nat \ {0}
    BY <1>5 DEF HarvestPrint, TypeOK
  <2> QED
    BY <1>5, <2>2, <2>3 DEF HarvestPrint, TypeOK, filesVars, parseVars, bounds, Scanning
<1>6. CASE SubmitParses
  BY <1>6 DEF SubmitParses, TypeOK, filesVars, hashVars, parseVars, bounds, Scanning
<1>7. ASSUME NEW s \in Sources, ParseSource(s) PROVE TypeOK'
  <2>1. PICK f \in Fragment \cup {Failed} : fragments' = [fragments EXCEPT ![s] = f]
    BY <1>7, ParsedFragment
  <2>2. fragments' \in [Sources -> Fragment \cup {Nothing, Failed}]
    BY <2>1 DEF TypeOK
  <2> QED
    BY <1>7, <2>2 DEF ParseSource, TypeOK, filesVars, hashVars, bounds
<1>8. ASSUME NEW s \in Sources, HarvestParse(s) PROVE TypeOK'
  BY <1>8 DEF HarvestParse, TypeOK, filesVars, hashVars, bounds, Scanning
<1>9. CASE StoreFragment
  <2>1. current \in Sources /\ prints[current] # Nothing /\ fragments[current] \notin {Nothing, Failed}
    BY <1>9 DEF StoreFragment, Accounted, TypeOK
  <2>2. snapshots' \in [Sources -> Snapshot \cup {Nothing}]
    BY <1>9, <2>1, StoredType DEF StoreFragment, TypeOK
  <2>3. late' \in Nat
    BY <1>9 DEF StoreFragment, TypeOK
  <2> QED
    BY <1>9, <2>2, <2>3 DEF StoreFragment, TypeOK, hashVars, bounds, Scanning
<1>10. CASE Merge
  BY <1>10 DEF Merge, TypeOK, filesVars, hashVars, parseVars, bounds, Scanning
<1>11. CASE UpdateManifest
  BY <1>11 DEF UpdateManifest, TypeOK, hashVars, parseVars, bounds, Scanning
<1>12. CASE CancelledHashing \/ CancelledParsing \/ ParseRaises \/ ManifestMalformed
            \/ EndRaises \/ Report \/ Crash
  BY <1>12, LeaveInv DEF CancelledHashing, CancelledParsing, ParseRaises, ManifestMalformed,
     EndRaises, Report, Crash, Ended
<1>13. CASE Cancel
  <2>1. cancel' \in BOOLEAN
    BY <1>13, Zenon DEF Cancel
  <2> QED
    BY <1>13, <2>1 DEF Cancel, TypeOK, filesVars, hashVars, parseVars, bounds
<1>14. ASSUME NEW s \in Sources, EditSource(s) PROVE TypeOK'
  BY <1>14 DEF EditSource, TypeOK, hashVars, parseVars
<1>15. CASE DamageManifest
  BY <1>15 DEF DamageManifest, TypeOK, hashVars, parseVars
<1>16. CASE UNCHANGED vars
  BY <1>16 DEF vars, TypeOK, filesVars, hashVars, parseVars, bounds
<1> QED
  BY <1>1, <1>2, <1>3, <1>4, <1>5, <1>6, <1>7, <1>8, <1>9, <1>10, <1>11, <1>12, <1>13,
     <1>14, <1>15, <1>16 DEF Next, Coordinator, Fingerprinting, Parsing, Finishing,
     HashPool, ParsePool, Environment

(* What was being harvested, what has been and what is left to do agree    *)
(* after every step.                                                       *)
LEMMA AccountedStep == ScanInv /\ [Next]_vars => Accounted'
<1> SUFFICES ASSUME ScanInv, [Next]_vars PROVE Accounted'
  OBVIOUS
<1> USE DEF ScanInv
<1>0. PICK N \in Nat : Sources = 1..N
  BY SourceNumbers
<1>1. CASE StartScan
  <2>1. \A s \in selected' : ~(s < next')
    BY <1>0, <1>1, ScanAssumption DEF StartScan
  <2> QED
    BY <1>1, <2>1 DEF StartScan, Accounted
<1>2. ASSUME NEW s \in Sources, HashSource(s) PROVE Accounted'
  <2>1. PICK p \in {disk[s], Failed} : prints' = [prints EXCEPT ![s] = p]
    BY <1>2 DEF HashSource
  <2>2. p # Nothing
    BY <2>1, ScanAssumption DEF TypeOK
  <2>3. \A t \in Sources : prints[t] # Nothing => prints'[t] # Nothing
    BY <2>1, <2>2 DEF TypeOK
  <2> QED
    BY <1>2, <2>3 DEF HashSource, Accounted, TypeOK, parseVars
<1>3. CASE SkipDisabled
  BY <1>3 DEF SkipDisabled, Accounted, TypeOK, parseVars
<1>4. CASE AwaitPrint
  BY <1>4 DEF AwaitPrint, Accounted, hashVars, parseVars
<1>5. CASE HarvestPrint
  <2>1. PICK cached \in {Loadable(next, prints[next]), Nothing} :
          /\ reusable' = [reusable EXCEPT ![next] = cached]
          /\ toParse' = IF cached = Nothing THEN toParse \cup {next} ELSE toParse
    BY <1>5 DEF HarvestPrint
  <2>2. next \in Sources /\ prints[next] # Nothing
    BY <1>5 DEF HarvestPrint, Hashed
  <2>3. phase' = "checking" /\ parsed' = {} /\ fragments' = fragments /\ prints' = prints
        /\ selected' = selected /\ next' = next + 1 /\ toParse \subseteq toParse'
    BY <1>5, <2>1 DEF HarvestPrint, Accounted, parseVars
  <2>4. ASSUME NEW t \in selected', t < next'
        PROVE  t \in toParse' \/ reusable'[t] # Nothing
    <3>1. CASE t = next
      BY <3>1, <2>1, <2>2 DEF TypeOK
    <3>2. CASE t # next
      <4>1. t \in Sources /\ t < next
        BY <1>0, <3>2, <2>3, <2>4 DEF TypeOK
      <4>2. t \in toParse \/ reusable[t] # Nothing
        BY <4>1, <1>5, <2>3, <2>4 DEF Accounted, HarvestPrint
      <4> QED
        BY <4>1, <4>2, <3>2, <2>1, <2>3 DEF TypeOK
    <3> QED
      BY <3>1, <3>2
  <2>5. \A t \in toParse' : prints'[t] # Nothing
    BY <2>1, <2>2, <2>3 DEF Accounted
  <2> QED
    BY <2>3, <2>4, <2>5 DEF Accounted
<1>6. CASE SubmitParses
  <2>1. \A s \in selected : s < next
    BY <1>0, <1>6 DEF SubmitParses, TypeOK
  <2> QED
    BY <1>6, <2>1 DEF SubmitParses, Accounted, hashVars, parseVars
<1>7. ASSUME NEW s \in Sources, ParseSource(s) PROVE Accounted'
  <2>1. PICK f \in Fragment \cup {Failed} : fragments' = [fragments EXCEPT ![s] = f]
    BY <1>7, ParsedFragment
  <2>2. s \notin parsed
    BY <1>7, ScanAssumption DEF ParseSource, Running, ParseEnded, Accounted
  <2>3. \A t \in parsed : fragments'[t] = fragments[t]
    BY <2>1, <2>2 DEF TypeOK
  <2> QED
    BY <1>7, <2>3 DEF ParseSource, Accounted, hashVars
<1>8. ASSUME NEW s \in Sources, HarvestParse(s) PROVE Accounted'
  BY <1>8 DEF HarvestParse, ParseEnded, Accounted, hashVars
<1>9. CASE StoreFragment
  BY <1>9 DEF StoreFragment, Accounted, hashVars
<1>10. CASE Merge
  BY <1>10 DEF Merge, Accounted, hashVars, parseVars
<1>11. CASE UpdateManifest
  BY <1>11 DEF UpdateManifest, Accounted, hashVars, parseVars
<1>12. CASE CancelledHashing \/ CancelledParsing \/ ParseRaises \/ ManifestMalformed
            \/ EndRaises \/ Report \/ Crash
  BY <1>12, LeaveInv DEF CancelledHashing, CancelledParsing, ParseRaises, ManifestMalformed,
     EndRaises, Report, Crash, Ended
<1>13. CASE Cancel
  BY <1>13 DEF Cancel, Accounted, hashVars, parseVars
<1>14. ASSUME NEW s \in Sources, EditSource(s) PROVE Accounted'
  BY <1>14 DEF EditSource, Accounted, hashVars, parseVars
<1>15. CASE DamageManifest
  BY <1>15 DEF DamageManifest, Accounted, hashVars, parseVars
<1>16. CASE UNCHANGED vars
  BY <1>16 DEF vars, Accounted, hashVars, parseVars
<1> QED
  BY <1>1, <1>2, <1>3, <1>4, <1>5, <1>6, <1>7, <1>8, <1>9, <1>10, <1>11, <1>12, <1>13,
     <1>14, <1>15, <1>16 DEF Next, Coordinator, Fingerprinting, Parsing, Finishing,
     HashPool, ParsePool, Environment

(* After a cancel the coordinator harvests what it is already waiting for  *)
(* or storing, and nothing else.                                           *)
LEMMA LateStep == ScanInv /\ [Next]_vars => LateInv'
<1> SUFFICES ASSUME ScanInv, [Next]_vars PROVE LateInv'
  OBVIOUS
<1> USE DEF ScanInv, LateInv, CancelBounded
<1>1. CASE StartScan
  BY <1>1 DEF StartScan
<1>2. CASE HashPool \/ ParsePool \/ SkipDisabled \/ AwaitPrint \/ SubmitParses
  BY <1>2 DEF HashPool, ParsePool, HashSource, ParseSource, SkipDisabled, AwaitPrint, SubmitParses
<1>3. CASE HarvestPrint \/ StoreFragment
  BY <1>3 DEF HarvestPrint, StoreFragment, TypeOK
<1>4. ASSUME NEW s \in Sources, HarvestParse(s) PROVE LateInv'
  BY <1>4 DEF HarvestParse
<1>5. CASE Merge \/ UpdateManifest
  BY <1>5 DEF Merge, UpdateManifest
<1>6. CASE CancelledHashing \/ CancelledParsing \/ ParseRaises \/ ManifestMalformed
            \/ EndRaises \/ Report \/ Crash
  BY <1>6, LeaveInv DEF CancelledHashing, CancelledParsing, ParseRaises, ManifestMalformed,
     EndRaises, Report, Crash, Ended
<1>7. CASE Cancel
  BY <1>7 DEF Cancel
<1>8. ASSUME NEW s \in Sources, EditSource(s) PROVE LateInv'
  BY <1>8 DEF EditSource
<1>9. CASE DamageManifest
  BY <1>9 DEF DamageManifest
<1>10. CASE UNCHANGED vars
  BY <1>10 DEF vars
<1> QED
  BY <1>1, <1>2, <1>3, <1>4, <1>5, <1>6, <1>7, <1>8, <1>9, <1>10 DEF Next, Coordinator,
     Fingerprinting, Parsing, Finishing, HashPool, ParsePool, Environment

------------------------------------------------------------------------------
LEMMA InvStep == ScanInv /\ [Next]_vars => ScanInv'
  BY TypeStep, AccountedStep, LateStep DEF ScanInv

(* ScanPipeline keeps its types, whatever is edited, raises or dies.       *)
THEOREM TypeCorrect == Spec => []TypeOK
<1>1. Init => ScanInv
  BY InitInv
<1>2. ScanInv => TypeOK
  BY DEF ScanInv
<1> QED
  BY <1>1, <1>2, InvStep, PTL DEF Spec

(* A cancelled scan takes at most one more source.                         *)
THEOREM CancelIsBounded == Spec => []CancelBounded
<1>1. Init => ScanInv
  BY InitInv
<1>2. ScanInv => CancelBounded
  BY DEF ScanInv, LateInv
<1> QED
  BY <1>1, <1>2, InvStep, PTL DEF Spec

------------------------------------------------------------------------------
(* While nothing changes under a scan, leaving it keeps ColdInv: only the  *)
(* files outlive it.                                                       *)
LEMMA LeaveCold ==
  ASSUME ColdInv, NEW o \in Ended, Leave(o)
  PROVE  ColdInv'
<1>1. SnapshotsSound'
  BY DEF ColdInv, SnapshotsSound, Leave, filesVars
<1>2. PrintsFresh' /\ FragmentsFresh' /\ ResultCold'
  BY DEF PrintsFresh, FragmentsFresh, ResultCold, Leave, Ended, Scanning
<1>3. ReusePrinted'
  BY DEF ColdInv, ReusePrinted, Leave, hashVars
<1> QED
  BY <1>1, <1>2, <1>3 DEF ColdInv

(* A step that changes no file, future or result, and does not turn to the *)
(* manifest or start a scan, keeps ColdInv.                                *)
LEMMA MoveCold ==
  ASSUME ColdInv, phase' \in Scanning => phase \in Scanning,
         phase' \in {"manifest", "reporting"} => phase \in {"manifest", "reporting"},
         UNCHANGED <<disk, snapshots, prints, reusable, fragments, selected, result>>
  PROVE  ColdInv'
  BY DEF ColdInv, SnapshotsSound, PrintsFresh, ReusePrinted, FragmentsFresh, ResultCold

(* The files, the futures and the result agree with the disk after every   *)
(* step, as long as nothing changes under a scan.                          *)
LEMMA ColdStep == Quiet /\ ScanInv /\ ColdInv /\ [Next]_vars => ColdInv'
<1> SUFFICES ASSUME Quiet, ScanInv, ColdInv, [Next]_vars PROVE ColdInv'
  OBVIOUS
<1> USE DEF ScanInv
<1>1. CASE StartScan
  <2>1. /\ \A s \in Sources : prints'[s] = Nothing /\ reusable'[s] = Nothing /\ fragments'[s] = Nothing
        /\ phase' = "checking" /\ snapshots' = snapshots
    BY <1>1 DEF StartScan, filesVars
  <2> QED
    BY <2>1 DEF ColdInv, SnapshotsSound, PrintsFresh, ReusePrinted, FragmentsFresh, ResultCold
<1>2. ASSUME NEW s \in Sources, HashSource(s) PROVE ColdInv'
  <2>1. PICK p \in {disk[s], Failed} : prints' = [prints EXCEPT ![s] = p]
    BY <1>2 DEF HashSource
  <2>2. prints[s] = Nothing
    BY <1>2 DEF HashSource, Running, Hashed
  <2>3. UNCHANGED <<disk, snapshots, phase, reusable, fragments, selected, result>>
    BY <1>2 DEF HashSource, filesVars, parseVars
  <2>4. PrintsFresh'
    BY <2>1, <2>3 DEF ColdInv, PrintsFresh, TypeOK
  <2>5. ReusePrinted'
    BY <2>1, <2>2, <2>3 DEF ColdInv, ReusePrinted, TypeOK
  <2> QED
    BY <2>3, <2>4, <2>5 DEF ColdInv, SnapshotsSound, FragmentsFresh, ResultCold
<1>3. CASE SkipDisabled \/ AwaitPrint \/ SubmitParses \/ Cancel \/ UpdateManifest
  BY <1>3, MoveCold DEF SkipDisabled, AwaitPrint, SubmitParses, Cancel, UpdateManifest,
     filesVars, hashVars, parseVars, Scanning
<1>4. CASE HarvestPrint
  <2>1. PICK cached \in {Loadable(next, prints[next]), Nothing} :
          reusable' = [reusable EXCEPT ![next] = cached]
    BY <1>4 DEF HarvestPrint
  <2>2. next \in Sources /\ prints[next] # Nothing /\ phase = "waiting"
    BY <1>4 DEF HarvestPrint, Hashed
  <2>3. UNCHANGED <<disk, snapshots, prints, fragments, selected, result>> /\ phase' = "checking"
    BY <1>4 DEF HarvestPrint, filesVars, parseVars
  <2>4. cached # Nothing => /\ prints[next] \notin {Nothing, Failed}
                            /\ cached = Cold!ParseOf(next, prints[next])
    BY <2>1, <2>2 DEF Loadable, ColdInv, SnapshotsSound
  <2>5. ReusePrinted'
    BY <2>1, <2>2, <2>3, <2>4 DEF ColdInv, ReusePrinted, TypeOK
  <2> QED
    BY <2>2, <2>3, <2>5 DEF ColdInv, SnapshotsSound, PrintsFresh, FragmentsFresh, ResultCold, Scanning
<1>5. ASSUME NEW s \in Sources, ParseSource(s) PROVE ColdInv'
  <2>1. PICK f \in Fragment \cup {Failed} :
          /\ fragments' = [fragments EXCEPT ![s] = f]
          /\ f # Failed => f = Cold!ParseOf(s, disk[s])
    BY <1>5, ParsedFragment
  <2>2. UNCHANGED <<disk, snapshots, phase, prints, reusable, selected, result>>
    BY <1>5 DEF ParseSource, filesVars, hashVars
  <2>3. FragmentsFresh'
    BY <2>1, <2>2 DEF ColdInv, FragmentsFresh, TypeOK
  <2> QED
    BY <2>2, <2>3 DEF ColdInv, SnapshotsSound, PrintsFresh, ReusePrinted, ResultCold
<1>6. ASSUME NEW s \in Sources, HarvestParse(s) PROVE ColdInv'
  BY <1>6, MoveCold DEF HarvestParse, filesVars, hashVars, Scanning
<1>7. CASE StoreFragment
  <2>1. current \in Sources /\ prints[current] # Nothing /\ fragments[current] \notin {Nothing, Failed}
        /\ phase = "storing"
    BY <1>7 DEF StoreFragment, Accounted, TypeOK
  <2>2. prints[current] # Failed =>
          fragments[current] = Cold!ParseOf(current, prints[current])
    BY <2>1 DEF ColdInv, PrintsFresh, FragmentsFresh, Scanning
  <2>3. snapshots' \in {Stored(current), snapshots}
    BY <1>7 DEF StoreFragment
  <2>4. SnapshotsSound'
    <3>1. CASE snapshots' = snapshots
      BY <3>1 DEF ColdInv, SnapshotsSound
    <3>2. CASE snapshots' # snapshots
      <4>1. prints[current] # Failed
            /\ snapshots' = [snapshots EXCEPT ![current] =
                               [print |-> prints[current], fragment |-> fragments[current]]]
        BY <2>3, <3>2 DEF Stored
      <4> QED
        BY <2>1, <2>2, <4>1 DEF ColdInv, SnapshotsSound, TypeOK
    <3> QED
      BY <3>1, <3>2
  <2>5. UNCHANGED <<disk, prints, reusable, fragments, selected, result>>
        /\ phase' \in {"merging", "parsing"}
    BY <1>7 DEF StoreFragment, hashVars
  <2> QED
    BY <2>1, <2>4, <2>5 DEF ColdInv, PrintsFresh, ReusePrinted, FragmentsFresh, ResultCold, Scanning
<1>8. CASE Merge
  <2>1. UNCHANGED <<disk, snapshots, prints, reusable, fragments, selected>>
        /\ phase = "merging" /\ phase' = "manifest"
    BY <1>8 DEF Merge, filesVars, hashVars, parseVars
  <2>2. ASSUME NEW s \in selected PROVE FragmentOf(s) = Cold!ParseOf(s, disk[s])
    <3>1. s \in Sources
      BY DEF TypeOK
    <3>2. CASE reusable[s] # Nothing
      BY <2>1, <3>1, <3>2 DEF FragmentOf, ColdInv, ReusePrinted, PrintsFresh, Scanning
    <3>3. CASE reusable[s] = Nothing
      <4>1. fragments[s] \notin {Nothing, Failed}
        BY <2>1, <3>3 DEF Accounted
      <4> QED
        BY <2>1, <3>1, <3>3, <4>1 DEF FragmentOf, ColdInv, FragmentsFresh, Scanning
    <3> QED
      BY <3>2, <3>3
  <2>3. [s \in selected |-> FragmentOf(s)] = [s \in selected |-> Cold!ParseOf(s, disk[s])]
    BY <2>2
  <2>4. result' = Cold!InSourceOrder([s \in selected |-> Cold!ParseOf(s, disk[s])])
    BY <1>8, <2>3 DEF Merge, Merged
  <2>5. ResultCold'
    BY <2>1, <2>4 DEF ResultCold
  <2> QED
    BY <2>1, <2>5 DEF ColdInv, SnapshotsSound, PrintsFresh, ReusePrinted, FragmentsFresh, Scanning
<1>9. CASE CancelledHashing \/ CancelledParsing \/ ParseRaises \/ ManifestMalformed
            \/ EndRaises \/ Report \/ Crash
  BY <1>9, LeaveCold DEF CancelledHashing, CancelledParsing, ParseRaises, ManifestMalformed,
     EndRaises, Report, Crash, Ended
<1>10. ASSUME NEW s \in Sources, EditSource(s) PROVE ColdInv'
  <2>1. phase \notin Scanning /\ phase' = phase
        /\ UNCHANGED <<snapshots, prints, reusable, fragments, selected, result>>
    BY <1>10 DEF EditSource, Quiet, hashVars, parseVars
  <2> QED
    BY <2>1 DEF ColdInv, SnapshotsSound, PrintsFresh, ReusePrinted, FragmentsFresh, ResultCold, Scanning
<1>11. CASE DamageManifest
  BY <1>11, MoveCold DEF DamageManifest, hashVars, parseVars
<1>12. CASE UNCHANGED vars
  BY <1>12, MoveCold DEF vars, filesVars, hashVars, parseVars
<1> QED
  BY <1>1, <1>2, <1>3, <1>4, <1>5, <1>6, <1>7, <1>8, <1>9, <1>10, <1>11, <1>12 DEF Next,
     Coordinator, Fingerprinting, Parsing, Finishing, HashPool, ParsePool, Environment

(* A snapshot is reused only for the content it was parsed from.           *)
THEOREM ReuseExact == ASSUME Quiet PROVE Spec => []ReuseIsExact
<1>1. Init => ScanInv /\ ColdInv
  BY InitInv
<1>2. ScanInv /\ ColdInv /\ [Next]_vars => (ScanInv /\ ColdInv)'
  BY InvStep, ColdStep
<1>3. ColdInv => ReuseIsExact
  BY DEF ColdInv, ReusePrinted, ReuseIsExact
<1> QED
  BY <1>1, <1>2, <1>3, PTL DEF Spec

------------------------------------------------------------------------------
(* The refinement: every step of the pipeline is a step of ColdScan or     *)
(* does not show.                                                          *)
LEMMA ColdRefinesStep ==
  Quiet /\ ScanInv /\ ColdInv /\ [Next]_vars => [Cold!ColdNext]_(Cold!coldVars)
<1> SUFFICES ASSUME Quiet, ScanInv, ColdInv, [Next]_vars
             PROVE  [Cold!ColdNext]_(Cold!coldVars)
  OBVIOUS
<1> USE DEF Cold!coldVars
<1>1. CASE StartScan
  <2>1. /\ phase \notin Scanning /\ phase' \in Scanning
        /\ selected' \in Selections /\ disk' = disk /\ phase' # "done"
    BY <1>1 DEF StartScan, Ended, Scanning, filesVars
  <2>2. phase # "scanning"
    BY <1>1 DEF StartScan, Ended
  <2>3. Cold!Begin
    BY <2>1, <2>2 DEF Cold!Begin
  <2> QED
    BY <2>3 DEF Cold!ColdNext
<1>2. CASE \/ SkipDisabled \/ AwaitPrint \/ HarvestPrint \/ SubmitParses \/ StoreFragment
           \/ Merge \/ UpdateManifest \/ Cancel
           \/ \E s \in Sources : HashSource(s) \/ ParseSource(s) \/ HarvestParse(s)
  <2>1. phase \in Scanning /\ phase' \in Scanning /\ disk' = disk /\ selected' = selected
    BY <1>2 DEF SkipDisabled, AwaitPrint, HarvestPrint, SubmitParses, StoreFragment, Merge,
       UpdateManifest, Cancel, HashSource, ParseSource, HarvestParse, filesVars, Scanning
  <2>2. phase # "done" /\ phase' # "done"
    BY <2>1 DEF Scanning
  <2> QED
    BY <2>1, <2>2
<1>3. CASE CancelledHashing \/ CancelledParsing \/ ParseRaises \/ ManifestMalformed
            \/ EndRaises \/ Crash
  <2>1. /\ phase \in Scanning /\ phase' \in {"idle", "cancelled", "failed"}
        /\ disk' = disk /\ selected' = selected
    BY <1>3 DEF CancelledHashing, CancelledParsing, ParseRaises, ManifestMalformed, EndRaises,
       Crash, Leave, filesVars, Scanning
  <2>2. phase # "done" /\ phase' # "done" /\ phase' \notin Scanning
    BY <2>1 DEF Scanning
  <2>3. Cold!GiveUp
    BY <2>1, <2>2 DEF Cold!GiveUp
  <2> QED
    BY <2>3 DEF Cold!ColdNext
<1>4. CASE Report
  <2>1. /\ phase = "reporting" /\ phase' = "done"
        /\ disk' = disk /\ selected' = selected /\ result' = result
    BY <1>4 DEF Report, Leave, filesVars
  <2>2. phase \in Scanning /\ phase' \notin Scanning
    BY <2>1 DEF Scanning
  <2>3. result' = Cold!InSourceOrder([s \in selected |-> Cold!ParseOf(s, disk[s])])
    BY <2>1 DEF ColdInv, ResultCold
  <2>4. Cold!Complete
    BY <2>1, <2>2, <2>3 DEF Cold!Complete
  <2> QED
    BY <2>4 DEF Cold!ColdNext
<1>5. ASSUME NEW s \in Sources, EditSource(s) PROVE [Cold!ColdNext]_(Cold!coldVars)
  <2>1. /\ phase \notin Scanning /\ phase # "scanning"
        /\ phase' = phase /\ selected' = selected /\ result' = result
    BY <1>5 DEF EditSource, Quiet, TypeOK, ScanInv, Ended
  <2>2. \E t \in Sources, c \in Contents : disk' = [disk EXCEPT ![t] = c]
    BY <1>5 DEF EditSource
  <2>3. Cold!Edit
    BY <2>1, <2>2 DEF Cold!Edit
  <2> QED
    BY <2>3 DEF Cold!ColdNext
<1>6. CASE DamageManifest
  BY <1>6 DEF DamageManifest
<1>7. CASE UNCHANGED vars
  BY <1>7 DEF vars, filesVars
<1> QED
  BY <1>1, <1>2, <1>3, <1>4, <1>5, <1>6, <1>7 DEF Next, Coordinator, Fingerprinting,
     Parsing, Finishing, HashPool, ParsePool, Environment

(* A scan that completes returns what parsing every selected source would: *)
(* snapshots, pools and completion order do not show.                      *)
THEOREM ScanIsCold == ASSUME Quiet PROVE Spec => ImplementsColdScan
<1>1. Init => ScanInv /\ ColdInv /\ Cold!ColdInit
  BY InitInv DEF Init, Cold!ColdInit, Scanning
<1>2. ScanInv /\ ColdInv /\ [Next]_vars => (ScanInv /\ ColdInv)'
  BY InvStep, ColdStep
<1>3. ScanInv /\ ColdInv /\ [Next]_vars => [Cold!ColdNext]_(Cold!coldVars)
  BY ColdRefinesStep
<1> QED
  BY <1>1, <1>2, <1>3, PTL DEF Spec, ImplementsColdScan, Cold!ColdSpec
===============================================================================
