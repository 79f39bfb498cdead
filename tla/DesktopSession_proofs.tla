------------------------- MODULE DesktopSession_proofs -------------------------
(* Proofs about DesktopSession, for any set of operations and controls.    *)
EXTENDS DesktopSession, FiniteSetTheorems, TLAPS

(* The number of requests made so far is a natural number.                 *)
LEMMA RequestNumber == Cardinality({p \in Ops : op[p].st # "idle"}) \in Nat
<1>1. IsFiniteSet({p \in Ops : op[p].st # "idle"})
  BY SessionAssumption, FS_Subset
<1> QED
  BY <1>1, FS_CardinalityType

(* What the actions do to the record of one operation keeps its type.      *)
LEMMA OpTypeUpdates ==
  ASSUME NEW r \in OpType, NEW c \in AllControls, NEW t \in Nat, NEW v \in Nat,
         NEW n \in Nat, NEW b \in BOOLEAN, NEW f \in BOOLEAN
  PROVE  /\ [r EXCEPT !.st = "running", !.control = c, !.token = t, !.base = v,
                      !.seq = n, !.dialog = b] \in OpType
         /\ [r EXCEPT !.dialog = FALSE, !.stopped = TRUE] \in OpType
         /\ [r EXCEPT !.moved = TRUE] \in OpType
         /\ [r EXCEPT !.st = "posted", !.outcome = "ok"] \in OpType
         /\ [r EXCEPT !.st = "posted", !.outcome = "failed"] \in OpType
         /\ [r EXCEPT !.st = "delivered", !.outcome = "none", !.shown = b, !.boxed = f] \in OpType
         /\ [r EXCEPT !.st = "done", !.dialog = FALSE] \in OpType
  BY DEF OpType

(* Updating one operation keeps the type of the whole table.               *)
LEMMA TableUpdate ==
  ASSUME op \in [Ops -> OpType], NEW o \in Ops, NEW r \in OpType
  PROVE  [op EXCEPT ![o] = r] \in [Ops -> OpType]
  OBVIOUS

(* setEnabled keeps the types of the buttons.                              *)
LEMMA SetEnabledType ==
  ASSUME UiType, NEW c \in AllControls, NEW b \in BOOLEAN, SetEnabled(c, b)
  PROVE  enabled' \in [Controls -> BOOLEAN] /\ scanButton' \in BOOLEAN
<1>1. CASE c = ScanButton
  BY <1>1 DEF UiType, SetEnabled
<1>2. CASE c # ScanButton
  BY <1>2 DEF UiType, SetEnabled, AllControls
<1> QED
  BY <1>1, <1>2

LEMMA RunType ==
  ASSUME OpsType, UiType, NEW o \in Ops, NEW c \in AllControls, Run(o, c)
  PROVE  OpsType' /\ enabled' \in [Controls -> BOOLEAN] /\ scanButton' \in BOOLEAN
<1> DEFINE n == Cardinality({p \in Ops : op[p].st # "idle"})
           b == c \in Cancellable
<1>1. token' \in [AllControls -> Nat]
  BY DEF OpsType, Run
<1>2. enabled' \in [Controls -> BOOLEAN] /\ scanButton' \in BOOLEAN
  BY SetEnabledType DEF Run, DisableControl
<1>3. op[o] \in OpType /\ token[c] + 1 \in Nat /\ registry \in Nat /\ n \in Nat /\ b \in BOOLEAN
  BY RequestNumber DEF OpsType, UiType
<1>4. op' = [op EXCEPT ![o] = [op[o] EXCEPT !.st = "running", !.control = c,
                !.token = token[c] + 1, !.base = registry, !.seq = n, !.dialog = b]]
  BY DEF Run, OpsType
<1> HIDE DEF n, b
<1>5. op' \in [Ops -> OpType]
  BY <1>3, <1>4, OpTypeUpdates, TableUpdate DEF OpsType
<1> QED
  BY <1>1, <1>2, <1>5 DEF OpsType

LEMMA InitType == Init => TypeOK
<1> SUFFICES ASSUME Init PROVE TypeOK
  OBVIOUS
<1>1. OpsType
  BY DEF Init, OpsType, OpType, AllControls
<1>2. enabled \in [Controls -> BOOLEAN]
  BY DEF Init
<1>3. /\ discarded \in BOOLEAN /\ cancelEvent \in BOOLEAN /\ scanDialog \in BOOLEAN
      /\ autoPending \in BOOLEAN /\ scanButton \in BOOLEAN
      /\ closing \in BOOLEAN /\ closed \in BOOLEAN
  BY Zenon DEF Init
<1>4. /\ scan = "none" /\ scanOutcome = "none"
      /\ scans \in Nat /\ registry \in Nat /\ errorBoxes \in Nat
  BY DEF Init
<1> QED
  BY <1>1, <1>2, <1>3, <1>4 DEF TypeOK, ScanType, UiType

LEMMA BeginScanType ==
  ASSUME ScanType, BeginScan, autoPending' \in BOOLEAN PROVE ScanType'
<1>1. scan' = "working" /\ scanOutcome' = "none" /\ scans' \in Nat
  BY DEF ScanType, BeginScan
<1>2. discarded' \in BOOLEAN /\ cancelEvent' \in BOOLEAN /\ scanDialog' \in BOOLEAN
  BY Zenon DEF BeginScan
<1> QED
  BY <1>1, <1>2 DEF ScanType

LEMMA ScanTypeStep == TypeOK /\ [Next]_vars => ScanType'
<1> SUFFICES ASSUME TypeOK, [Next]_vars PROVE ScanType'
  OBVIOUS
<1> USE DEF TypeOK, ScanType, scanVars
<1>1. CASE StartScan
  BY <1>1, BeginScanType DEF StartScan
<1>2. CASE CancelScan
  BY <1>2 DEF CancelScan, DiscardScan
<1>3. CASE DismissError
  BY <1>3 DEF DismissError
<1>4. CASE RequestClose
  BY <1>4 DEF RequestClose, DiscardScan
<1>5. ASSUME NEW o \in Ops, DropMods(o) \/ StopWaiting(o) PROVE ScanType'
  BY <1>5 DEF DropMods, StopWaiting
<1>6. ASSUME NEW o \in Ops, NEW c \in Controls, Request(o, c) PROVE ScanType'
  BY <1>6 DEF Request
<1>7. CASE AutoScan
  <2>1. autoPending' \in BOOLEAN
    BY <1>7, Zenon DEF AutoScan
  <2> QED
    BY <1>7, <2>1, BeginScanType DEF AutoScan
<1>8. CASE AutoScanSkipped
  BY <1>8 DEF AutoScanSkipped
<1>9. CASE ScanProgressed
  BY <1>9 DEF ScanProgressed
<1>10. CASE ScanWorker
  BY <1>10 DEF ScanWorker, ScanWorkerEnds
<1>11. CASE ScanDelivered
  BY <1>11 DEF ScanDelivered
<1>12. CASE ScanFinished
  BY <1>12 DEF ScanFinished
<1>13. ASSUME NEW o \in Ops, OpStep(o) PROVE ScanType'
  BY <1>13 DEF OpStep, ReadRegistry, OpWorker, OpWorkerEnds, OpDelivered, OpFinished
<1>14. CASE UNCHANGED vars
  BY <1>14 DEF vars
<1> QED
  BY <1>1, <1>2, <1>3, <1>4, <1>5, <1>6, <1>7, <1>8, <1>9, <1>10, <1>11, <1>12,
     <1>13, <1>14 DEF Next, UserStep, TimerStep, ScanStep
LEMMA OpsTypeStep == TypeOK /\ [Next]_vars => OpsType'
<1> SUFFICES ASSUME TypeOK, [Next]_vars PROVE OpsType'
  OBVIOUS
<1> USE DEF TypeOK
<1>0. UNCHANGED opVars => OpsType'
  BY DEF OpsType, opVars
<1>1. CASE StartScan \/ CancelScan \/ DismissError \/ RequestClose
  BY <1>0, <1>1 DEF StartScan, BeginScan, CancelScan, DismissError, RequestClose
<1>2. ASSUME NEW o \in Ops, DropMods(o) PROVE OpsType'
  BY <1>2, RunType DEF DropMods, AllControls
<1>3. ASSUME NEW o \in Ops, StopWaiting(o) PROVE OpsType'
  <2>1. op[o] \in OpType /\ op[o].control \in AllControls /\ op[o].token \in Nat
    BY DEF OpsType, OpType
  <2>2. op' \in [Ops -> OpType]
    BY <1>3, <2>1, OpTypeUpdates, TableUpdate DEF OpsType, StopWaiting
  <2>3. token' \in [AllControls -> Nat]
    BY <1>3, <2>1 DEF OpsType, StopWaiting, DropResult
  <2> QED
    BY <2>2, <2>3 DEF OpsType
<1>4. ASSUME NEW o \in Ops, NEW c \in Controls, Request(o, c) PROVE OpsType'
  BY <1>4, RunType DEF Request, AllControls
<1>5. CASE TimerStep \/ ScanStep
  BY <1>0, <1>5 DEF TimerStep, AutoScan, AutoScanSkipped, BeginScan, ScanStep, ScanProgressed,
     ScanWorker, ScanWorkerEnds, ScanDelivered, ScanFinished
<1>6. ASSUME NEW o \in Ops, ReadRegistry(o) PROVE OpsType'
  <2>1. op' = [op EXCEPT ![o] = [op[o] EXCEPT !.moved = TRUE]] /\ UNCHANGED token
    BY <1>6 DEF ReadRegistry
  <2>2. op[o] \in OpType
    BY DEF OpsType
  <2>3. [op[o] EXCEPT !.moved = TRUE] \in OpType
    BY <2>2 DEF OpType
  <2> QED
    BY <2>1, <2>3, TableUpdate DEF OpsType
<1>7. ASSUME NEW o \in Ops, OpWorker(o) PROVE OpsType'
  <2>1. PICK r \in {"ok", "failed"} : OpWorkerEnds(o, r)
    BY <1>7 DEF OpWorker
  <2>2. op[o] \in OpType
    BY DEF OpsType
  <2>3. [op[o] EXCEPT !.st = "posted", !.outcome = r] \in OpType
    BY <2>2 DEF OpType
  <2> QED
    BY <2>1, <2>3, TableUpdate DEF OpsType, OpWorkerEnds
<1>8. ASSUME NEW o \in Ops, OpDelivered(o) PROVE OpsType'
  <2> DEFINE adopted == op[o].outcome = "ok" /\ token[op[o].control] = op[o].token
             failed == op[o].outcome = "failed"
  <2>1. /\ op' = [op EXCEPT ![o] = [op[o] EXCEPT !.st = "delivered", !.outcome = "none",
                                       !.shown = adopted, !.boxed = failed]]
        /\ UNCHANGED token
    BY <1>8 DEF OpDelivered
  <2>2. op[o] \in OpType /\ adopted \in BOOLEAN /\ failed \in BOOLEAN
    BY DEF OpsType
  <2> HIDE DEF adopted, failed
  <2>3. [op[o] EXCEPT !.st = "delivered", !.outcome = "none",
                      !.shown = adopted, !.boxed = failed] \in OpType
    BY <2>2 DEF OpType
  <2> QED
    BY <2>1, <2>3, TableUpdate DEF OpsType
<1>9. ASSUME NEW o \in Ops, OpFinished(o) PROVE OpsType'
  <2>1. op[o] \in OpType /\ op[o].control \in AllControls
    BY DEF OpsType, OpType
  <2>2. op' \in [Ops -> OpType]
    BY <1>9, <2>1, OpTypeUpdates, TableUpdate DEF OpsType, OpFinished
  <2>3. token' \in [AllControls -> Nat]
    BY <1>9, <2>1 DEF OpsType, OpFinished, DropResult
  <2> QED
    BY <2>2, <2>3 DEF OpsType
<1>10. CASE UNCHANGED vars
  BY <1>0, <1>10 DEF vars
<1> QED
  BY <1>1, <1>2, <1>3, <1>4, <1>5, <1>6, <1>7, <1>8, <1>9, <1>10
     DEF Next, UserStep, OpStep

LEMMA UiTypeStep == TypeOK /\ [Next]_vars => UiType'
<1> SUFFICES ASSUME TypeOK, [Next]_vars PROVE UiType'
  OBVIOUS
<1> USE DEF TypeOK
<1>0. UNCHANGED <<uiVars, registry, closing, closed>> => UiType'
  BY DEF UiType, uiVars
<1>1. CASE StartScan \/ AutoScan
  <2>1. BeginScan
    BY <1>1 DEF StartScan, AutoScan
  <2>2. scanButton' \in BOOLEAN
    BY <2>1, Zenon DEF BeginScan
  <2> QED
    BY <2>1, <2>2 DEF BeginScan, UiType
<1>2. CASE CancelScan \/ AutoScanSkipped
  BY <1>0, <1>2 DEF CancelScan, AutoScanSkipped
<1>3. CASE DismissError
  BY <1>3 DEF DismissError, UiType
<1>4. CASE RequestClose
  <2>1. UNCHANGED <<uiVars, registry>> /\ closing' \in BOOLEAN /\ closed' \in BOOLEAN
    BY <1>4, Zenon DEF RequestClose, UiType
  <2> QED
    BY <2>1 DEF UiType, uiVars
<1>5. ASSUME NEW o \in Ops, DropMods(o) PROVE UiType'
  BY <1>5, RunType DEF DropMods, AllControls, UiType
<1>6. ASSUME NEW o \in Ops, StopWaiting(o) \/ ReadRegistry(o) \/ OpWorker(o) PROVE UiType'
  BY <1>0, <1>6 DEF StopWaiting, ReadRegistry, OpWorker, OpWorkerEnds
<1>7. ASSUME NEW o \in Ops, NEW c \in Controls, Request(o, c) PROVE UiType'
  BY <1>7, RunType DEF Request, AllControls, UiType
<1>8. CASE ScanProgressed \/ ScanWorker
  BY <1>0, <1>8 DEF ScanProgressed, ScanWorker, ScanWorkerEnds
<1>9. CASE ScanDelivered
  <2>1. PopulateSecondary => enabled' \in [Controls -> BOOLEAN]
    BY DEF PopulateSecondary, UiType
  <2>2. registry' \in Nat /\ enabled' \in [Controls -> BOOLEAN]
    BY <1>9, <2>1 DEF ScanDelivered, UiType
  <2>3. errorBoxes' \in Nat
    BY <1>9 DEF ScanDelivered, UiType
  <2> QED
    BY <1>9, <2>2, <2>3 DEF ScanDelivered, UiType
<1>10. ASSUME NEW s, NEW table, MaybeClose(s, table) PROVE closed' \in BOOLEAN
  BY <1>10, Zenon DEF MaybeClose
<1>11. CASE ScanFinished
  <2>1. scanButton' \in BOOLEAN
    BY <1>11, Zenon DEF ScanFinished
  <2>2. closed' \in BOOLEAN
    BY <1>10, <1>11, Zenon DEF ScanFinished
  <2> QED
    BY <1>11, <2>1, <2>2 DEF ScanFinished, UiType
<1>12. ASSUME NEW o \in Ops, OpDelivered(o) PROVE UiType'
  <2>1. PopulateSecondary => enabled' \in [Controls -> BOOLEAN]
    BY DEF PopulateSecondary, UiType
  <2>2. registry' \in Nat /\ enabled' \in [Controls -> BOOLEAN]
    BY <1>12, <2>1 DEF OpDelivered, UiType
  <2>3. errorBoxes' \in Nat
    BY <1>12 DEF OpDelivered, UiType
  <2> QED
    BY <1>12, <2>2, <2>3 DEF OpDelivered, UiType
<1>13. ASSUME NEW o \in Ops, OpFinished(o) PROVE UiType'
  <2> DEFINE b == registry # 0 \/ op[o].control \in Standalone
  <2>1. b \in BOOLEAN /\ op[o].control \in AllControls
    BY DEF OpsType, OpType
  <2>2. SetEnabled(op[o].control, b)
    BY <1>13, Zenon DEF OpFinished, Reenable
  <2> HIDE DEF b
  <2>3. enabled' \in [Controls -> BOOLEAN] /\ scanButton' \in BOOLEAN
    BY <2>1, <2>2, SetEnabledType
  <2>4. closed' \in BOOLEAN
    BY <1>10, <1>13, Zenon DEF OpFinished
  <2> QED
    BY <1>13, <2>3, <2>4 DEF OpFinished, UiType
<1>14. CASE UNCHANGED vars
  BY <1>0, <1>14 DEF vars
<1> QED
  BY <1>1, <1>2, <1>3, <1>4, <1>5, <1>6, <1>7, <1>8, <1>9, <1>11, <1>12, <1>13, <1>14
     DEF Next, UserStep, TimerStep, ScanStep, OpStep

(* Every thread record, button and counter keeps its type in every         *)
(* session, for any number of operations and controls (TypeOK).            *)
THEOREM TypeCorrect == Spec => []TypeOK
<1>1. TypeOK /\ [Next]_vars => TypeOK'
  BY ScanTypeStep, OpsTypeStep, UiTypeStep DEF TypeOK
<1> QED
  BY InitType, <1>1, PTL DEF Spec

-------------------------------------------------------------------------------
(* The registry's lock *)

LEMMA WriterInit == Init => WriterInv
  BY DEF Init, WriterInv, ScanButtonIsWriterLock, SingleWriter, MergeNeedsRegistry,
     MergeUpToDate, MergeExcludesCheckedReaders, WriterInFlight, Merges, LiveOps, Live

(* A step that touches neither the locks nor the threads changes nothing.  *)
LEMMA WriterFrame ==
  ASSUME WriterInv, UNCHANGED <<scanButton, registry>>, LiveOps' = LiveOps,
         scan' # "none" <=> scan # "none",
         \A o \in LiveOps : /\ op'[o].control = op[o].control
                            /\ op'[o].base = op[o].base
                            /\ op'[o].st = "delivered" <=> op[o].st = "delivered"
  PROVE  WriterInv'
<1>1. Merges' = Merges
  BY DEF Merges
<1>2. WriterInFlight' <=> WriterInFlight
  BY <1>1 DEF WriterInFlight
<1>3. ScanButtonIsWriterLock' /\ SingleWriter' /\ MergeNeedsRegistry'
  BY <1>1, <1>2 DEF WriterInv, ScanButtonIsWriterLock, SingleWriter, MergeNeedsRegistry
<1>4. MergeUpToDate'
  BY <1>1 DEF WriterInv, MergeUpToDate, Merges, LiveOps, Live
<1>5. MergeExcludesCheckedReaders'
  BY <1>1 DEF WriterInv, MergeExcludesCheckedReaders
<1> QED
  BY <1>3, <1>4, <1>5 DEF WriterInv

(* A scan starts only under an enabled button: no merge is in flight.      *)
LEMMA WriterBeginScan == ASSUME WriterInv, BeginScan, Merges = {} PROVE WriterInv'
<1>1. Merges' = {} /\ LiveOps' = LiveOps /\ scan' # "none"
  BY DEF BeginScan, opVars, Merges, LiveOps
<1>2. scanButton' = FALSE
  BY DEF BeginScan
<1> QED
  BY <1>1, <1>2 DEF WriterInv, ScanButtonIsWriterLock, SingleWriter, MergeNeedsRegistry,
     MergeUpToDate, MergeExcludesCheckedReaders, WriterInFlight

(* _run adds one live thread and touches no other.                         *)
LEMMA RunLive ==
  ASSUME TypeOK, NEW o \in Ops, NEW c \in AllControls, Run(o, c)
  PROVE  /\ LiveOps' = LiveOps \cup {o} /\ o \notin LiveOps
         /\ op'[o].control = c /\ op'[o].base = registry
         /\ \A p \in Ops \ {o} : op'[p] = op[p]
  BY DEF TypeOK, OpsType, OpType, Run, LiveOps, Live

(* A merge starts with no thread live, so it excludes everything else.     *)
LEMMA WriterDropMods ==
  ASSUME TypeOK, WriterInv, NEW o \in Ops, DropMods(o) PROVE WriterInv'
<1>1. /\ LiveOps = {} /\ scan' = "none" /\ registry' # 0 /\ registry' = registry
  BY DEF DropMods, scanVars
<1>2. /\ LiveOps' = {o} /\ op'[o].control = ScanButton /\ op'[o].base = registry
  BY <1>1, RunLive DEF DropMods, AllControls
<1>3. scanButton' = FALSE
  BY DEF DropMods, Run, DisableControl, SetEnabled
<1>4. Merges' = {o}
  BY <1>2 DEF Merges
<1> QED
  BY <1>1, <1>2, <1>3, <1>4, SessionAssumption
     DEF WriterInv, ScanButtonIsWriterLock, SingleWriter, MergeNeedsRegistry,
         MergeUpToDate, MergeExcludesCheckedReaders, WriterInFlight

(* A requested operation is no merge, and no Checked one joins a merge.    *)
LEMMA WriterRequest ==
  ASSUME TypeOK, WriterInv, NEW o \in Ops, NEW c \in Controls, Request(o, c) PROVE WriterInv'
<1>1. /\ scan' = scan /\ registry' = registry
  BY DEF Request, scanVars
<1>2. scanButton' = scanButton
  BY SessionAssumption DEF Request, Run, DisableControl, SetEnabled
<1>3. /\ LiveOps' = LiveOps \cup {o} /\ op'[o].control = c
      /\ \A p \in LiveOps : op'[p] = op[p]
  BY RunLive DEF Request, AllControls, LiveOps
<1>4. Merges' = Merges
  BY <1>3, SessionAssumption DEF Merges
<1>5. ScanButtonIsWriterLock' /\ SingleWriter' /\ MergeNeedsRegistry'
  BY <1>1, <1>2, <1>4 DEF WriterInv, ScanButtonIsWriterLock, SingleWriter,
     MergeNeedsRegistry, WriterInFlight
<1>6. MergeUpToDate'
  BY <1>1, <1>3, <1>4 DEF WriterInv, MergeUpToDate, Merges
<1>7. c \in Checked => Merges = {}
  BY DEF Request, RegistryWriteInProgress, WriterInv, ScanButtonIsWriterLock, WriterInFlight
<1>8. MergeExcludesCheckedReaders'
  BY <1>3, <1>4, <1>7 DEF WriterInv, MergeExcludesCheckedReaders
<1> QED
  BY <1>5, <1>6, <1>8 DEF WriterInv

(* An adopted scan changes the registry, but never under a merge.          *)
LEMMA WriterScanDelivered == ASSUME TypeOK, WriterInv, ScanDelivered PROVE WriterInv'
<1>1. /\ Merges = {} /\ Merges' = {} /\ scan' # "none" /\ scan # "none"
      /\ scanButton' = scanButton
  BY DEF ScanDelivered, WriterInv, SingleWriter, Merges, LiveOps, opVars
<1> QED
  BY <1>1 DEF WriterInv, ScanButtonIsWriterLock, SingleWriter, MergeNeedsRegistry,
     MergeUpToDate, MergeExcludesCheckedReaders, WriterInFlight

LEMMA WriterScanFinished == ASSUME WriterInv, ScanFinished PROVE WriterInv'
<1>1. /\ Merges = {} /\ Merges' = {} /\ scan' = "none"
  BY DEF ScanFinished, WriterInv, SingleWriter, Merges, LiveOps, opVars
<1>2. scanButton' = TRUE
  BY DEF ScanFinished
<1> QED
  BY <1>1, <1>2 DEF WriterInv, ScanButtonIsWriterLock, SingleWriter, MergeNeedsRegistry,
     MergeUpToDate, MergeExcludesCheckedReaders, WriterInFlight

(* A delivered merge replaces the registry; it was the only one.           *)
LEMMA WriterOpDelivered ==
  ASSUME TypeOK, WriterInv, NEW o \in Ops, OpDelivered(o) PROVE WriterInv'
<1>1. /\ LiveOps' = LiveOps /\ o \in LiveOps /\ scan' = scan /\ scanButton' = scanButton
      /\ op'[o].st = "delivered" /\ op'[o].control = op[o].control
      /\ \A p \in Ops \ {o} : op'[p] = op[p]
  BY DEF TypeOK, OpsType, OpType, OpDelivered, LiveOps, Live, scanVars
<1>2. Merges' = Merges
  BY <1>1 DEF Merges, LiveOps
<1>3. registry' = registry \/ (registry' = registry + 1 /\ op[o].control = ScanButton)
  BY DEF OpDelivered
<1>4. registry # 0 => registry' # 0
  BY <1>3 DEF TypeOK, UiType
<1>5. ScanButtonIsWriterLock' /\ SingleWriter' /\ MergeNeedsRegistry'
  BY <1>1, <1>2, <1>4 DEF WriterInv, ScanButtonIsWriterLock, SingleWriter,
     MergeNeedsRegistry, WriterInFlight
<1>6. MergeUpToDate'
  <2>1. CASE registry' = registry
    BY <1>1, <1>2, <2>1 DEF WriterInv, MergeUpToDate, Merges, LiveOps
  <2>2. CASE op[o].control = ScanButton
    BY <1>1, <1>2, <2>2 DEF WriterInv, SingleWriter, MergeUpToDate, Merges
  <2> QED
    BY <1>3, <2>1, <2>2
<1>7. MergeExcludesCheckedReaders'
  BY <1>1, <1>2 DEF WriterInv, MergeExcludesCheckedReaders, LiveOps
<1> QED
  BY <1>5, <1>6, <1>7 DEF WriterInv

(* A finished merge gives the button back: it was the only writer.         *)
LEMMA WriterOpFinished ==
  ASSUME TypeOK, WriterInv, NEW o \in Ops, OpFinished(o) PROVE WriterInv'
<1>1. /\ LiveOps' = LiveOps \ {o} /\ o \in LiveOps /\ scan' = scan /\ registry' = registry
      /\ \A p \in Ops \ {o} : op'[p] = op[p]
  BY DEF TypeOK, OpsType, OpType, OpFinished, LiveOps, Live, scanVars
<1>2. Merges' = Merges \ {o}
  BY <1>1 DEF Merges, LiveOps
<1>3. MergeNeedsRegistry' /\ MergeUpToDate' /\ MergeExcludesCheckedReaders'
  BY <1>1, <1>2 DEF WriterInv, MergeNeedsRegistry, MergeUpToDate, MergeExcludesCheckedReaders,
     Merges, LiveOps
<1>4. SingleWriter'
  BY <1>1, <1>2 DEF WriterInv, SingleWriter
<1>5. ScanButtonIsWriterLock'
  <2>1. CASE op[o].control = ScanButton
    <3>1. o \in Merges /\ Merges' = {} /\ scan' = "none" /\ registry # 0
      BY <1>1, <1>2, <2>1 DEF WriterInv, SingleWriter, MergeNeedsRegistry, Merges
    <3>2. scanButton' = (registry # 0 \/ op[o].control \in Standalone)
      BY <2>1 DEF OpFinished, Reenable, SetEnabled
    <3> QED
      BY <3>1, <3>2 DEF ScanButtonIsWriterLock, WriterInFlight
  <2>2. CASE op[o].control # ScanButton
    <3>1. Merges' = Merges /\ scanButton' = scanButton
      BY <1>2, <2>2 DEF Merges, OpFinished, Reenable, SetEnabled
    <3> QED
      BY <1>1, <3>1 DEF WriterInv, ScanButtonIsWriterLock, WriterInFlight
  <2> QED
    BY <2>1, <2>2
<1> QED
  BY <1>3, <1>4, <1>5 DEF WriterInv

LEMMA WriterStep == TypeOK /\ WriterInv /\ [Next]_vars => WriterInv'
<1> SUFFICES ASSUME TypeOK, WriterInv, [Next]_vars PROVE WriterInv'
  OBVIOUS
<1>0. UNCHANGED <<op, scanButton, registry>> /\ (scan' # "none" <=> scan # "none") => WriterInv'
  <2> SUFFICES ASSUME UNCHANGED <<op, scanButton, registry>>, scan' # "none" <=> scan # "none"
               PROVE  WriterInv'
    OBVIOUS
  <2>1. LiveOps' = LiveOps
    BY DEF LiveOps
  <2> QED
    BY <2>1, WriterFrame
<1>1. CASE StartScan
  <2>1. Merges = {}
    BY <1>1 DEF StartScan, WriterInv, ScanButtonIsWriterLock, WriterInFlight
  <2> QED
    BY <1>1, <2>1, WriterBeginScan DEF StartScan
<1>2. CASE AutoScan
  <2>1. Merges = {}
    BY <1>2 DEF AutoScan, WriterInv, MergeNeedsRegistry
  <2> QED
    BY <1>2, <2>1, WriterBeginScan DEF AutoScan
<1>3. CASE CancelScan \/ DismissError \/ RequestClose \/ AutoScanSkipped
  BY <1>0, <1>3 DEF CancelScan, DismissError, RequestClose, AutoScanSkipped,
     scanVars, opVars, uiVars
<1>4. CASE ScanProgressed \/ ScanWorker
  BY <1>0, <1>4 DEF ScanProgressed, ScanWorker, ScanWorkerEnds, opVars, uiVars
<1>5. ASSUME NEW o \in Ops, StopWaiting(o) \/ ReadRegistry(o) \/ OpWorker(o) PROVE WriterInv'
  <2> DEFINE Kept == \A p \in Ops : /\ op'[p].control = op[p].control
                                    /\ op'[p].base = op[p].base
                                    /\ \/ op'[p].st = op[p].st
                                       \/ op[p].st = "running" /\ op'[p].st = "posted"
  <2>1. UNCHANGED <<scan, scanButton, registry>>
    BY <1>5 DEF StopWaiting, ReadRegistry, OpWorker, OpWorkerEnds, scanVars, uiVars
  <2>2. CASE StopWaiting(o)
    <3>1. Kept
      BY <2>2 DEF StopWaiting, TypeOK, OpsType, OpType
    <3> QED
      BY <2>1, <3>1, WriterFrame DEF LiveOps, Live
  <2>3. CASE ReadRegistry(o)
    <3>1. Kept
      BY <2>3 DEF ReadRegistry, TypeOK, OpsType, OpType
    <3> QED
      BY <2>1, <3>1, WriterFrame DEF LiveOps, Live
  <2>4. CASE OpWorker(o)
    <3>1. Kept
      BY <2>4 DEF OpWorker, OpWorkerEnds, TypeOK, OpsType, OpType
    <3> QED
      BY <2>1, <3>1, WriterFrame DEF LiveOps, Live
  <2> QED
    BY <1>5, <2>2, <2>3, <2>4
<1>6. CASE UNCHANGED vars
  BY <1>0, <1>6 DEF vars, scanVars, opVars, uiVars
<1> QED
  BY <1>1, <1>2, <1>3, <1>4, <1>5, <1>6, WriterDropMods, WriterRequest, WriterScanDelivered,
     WriterScanFinished, WriterOpDelivered, WriterOpFinished
     DEF Next, UserStep, TimerStep, ScanStep, OpStep

(* scan_button is enabled exactly when no writer is in flight, for any     *)
(* number of threads and any order of their completions                    *)
(* (_registry_write_in_progress, main_window.py:402).                      *)
THEOREM WriterInvariant == Spec => []WriterInv
<1>1. TypeOK /\ TypeOK' /\ WriterInv /\ [Next]_vars => WriterInv'
  BY WriterStep
<1> QED
  BY WriterInit, TypeCorrect, <1>1, PTL DEF Spec

(* The enabled state of scan_button is a lock on the registry, and a scan  *)
(* and a merge, or two merges, are never in flight together.               *)
THEOREM RegistryLocked == Spec => [](ScanButtonIsWriterLock /\ SingleWriter)
<1>1. WriterInv => ScanButtonIsWriterLock /\ SingleWriter
  BY DEF WriterInv
<1> QED
  BY WriterInvariant, <1>1, PTL

(* A merge is computed from the result it replaces: no completed scan is   *)
(* ever undone by one (_incorporate_dropped_mods).                         *)
THEOREM MergesAreUpToDate == Spec => []MergeUpToDate
<1>1. WriterInv => MergeUpToDate
  BY DEF WriterInv
<1> QED
  BY WriterInvariant, <1>1, PTL

(* No merge runs beside an operation whose handler asked first             *)
(* (_registry_write_in_progress, dropEvent).                               *)
THEOREM MergesExcludeReaders == Spec => []MergeExcludesCheckedReaders
<1>1. WriterInv => MergeExcludesCheckedReaders
  BY DEF WriterInv
<1> QED
  BY WriterInvariant, <1>1, PTL

(* No thread is live once the window has closed, whichever thread ended    *)
(* last and whoever asked (closeEvent, _maybe_close_after_background_work).*)
THEOREM ClosedWindowIsIdle == Spec => []CloseWaitsForThreads
<1> USE DEF CloseWaitsForThreads
<1>1. Init => CloseWaitsForThreads
  BY DEF Init
<1>2. CloseWaitsForThreads /\ [Next]_vars => CloseWaitsForThreads'
  <2> SUFFICES ASSUME CloseWaitsForThreads, [Next]_vars PROVE CloseWaitsForThreads'
    OBVIOUS
  <2>0. UNCHANGED <<op, closed>> /\ (scan = "none" => scan' = "none") => CloseWaitsForThreads'
    BY DEF LiveOps
  <2>1. CASE StartScan \/ AutoScan
    BY <2>1 DEF StartScan, AutoScan, BeginScan, WindowReachable
  <2>2. CASE CancelScan \/ DismissError \/ AutoScanSkipped \/ ScanProgressed
    BY <2>0, <2>2 DEF CancelScan, DismissError, AutoScanSkipped, ScanProgressed, opVars, scanVars
  <2>3. CASE RequestClose
    BY <2>3 DEF RequestClose, WindowReachable, LiveOps, opVars
  <2>4. ASSUME NEW o \in Ops, DropMods(o) PROVE CloseWaitsForThreads'
    BY <2>4 DEF DropMods, WindowReachable
  <2>5. ASSUME NEW o \in Ops, NEW c \in Controls, Request(o, c) PROVE CloseWaitsForThreads'
    BY <2>5 DEF Request, WindowReachable
  <2>6. ASSUME NEW o \in Ops, StopWaiting(o) PROVE CloseWaitsForThreads'
    <3>1. /\ closed' = closed /\ scan' = scan
          /\ op' = [op EXCEPT ![o] = [op[o] EXCEPT !.dialog = FALSE, !.stopped = TRUE]]
      BY <2>6 DEF StopWaiting, scanVars
    <3>2. \A p \in Ops : op'[p].st \in Live => op[p].st \in Live
      BY <3>1
    <3> QED
      BY <3>1, <3>2 DEF LiveOps
  <2>7. ASSUME NEW o \in Ops, ReadRegistry(o) \/ OpWorker(o) \/ OpDelivered(o)
        PROVE  CloseWaitsForThreads'
    <3>1. closed' = closed /\ scan' = scan /\ o \in LiveOps
      BY <2>7 DEF ReadRegistry, OpWorker, OpWorkerEnds, OpDelivered, scanVars, LiveOps, Live
    <3> QED
      BY <3>1
  <2>8. CASE ScanWorker \/ ScanDelivered
    BY <2>8 DEF ScanWorker, ScanWorkerEnds, ScanDelivered
  <2>9. CASE ScanFinished
    BY <2>9 DEF ScanFinished, MaybeClose, LiveOps, opVars
  <2>10. ASSUME NEW o \in Ops, OpFinished(o) PROVE CloseWaitsForThreads'
    BY <2>10 DEF OpFinished, MaybeClose, LiveOps, scanVars
  <2>11. CASE UNCHANGED vars
    BY <2>0, <2>11 DEF vars, scanVars, opVars
  <2> QED
    BY <2>1, <2>2, <2>3, <2>4, <2>5, <2>6, <2>7, <2>8, <2>9, <2>10, <2>11
       DEF Next, UserStep, TimerStep, ScanStep, OpStep
<1> QED
  BY <1>1, <1>2, PTL DEF Spec

-------------------------------------------------------------------------------
(* The refinement of SessionRegistry *)

LEMMA RefinesInit == Init => Registry!RegInit
  BY DEF Init, Registry!RegInit, WriterAtWork, PendingMerges, Merges, LiveOps, Live

LEMMA RefinesBegin ==
  ASSUME NEW w \in {"scan", "merge"}, WriterAtWork = None, WriterAtWork' = w,
         w = "merge" => registry > 0, registry' = registry
  PROVE  Registry!RegNext
  BY DEF Registry!RegNext, Registry!Begin, Registry!Writers

LEMMA RefinesEnd ==
  ASSUME WriterAtWork # None, WriterAtWork' = None,
         registry' = registry \/ registry' = registry + 1
  PROVE  Registry!RegNext
  BY DEF Registry!RegNext, Registry!Publish, Registry!Abandon

LEMMA RefinesStutter ==
  ASSUME scan' = scan \/ {scan, scan'} \subseteq {"working", "posted"}
                      \/ {scan, scan'} \subseteq {"none", "delivered"},
         registry' = registry, PendingMerges' = PendingMerges
  PROVE  UNCHANGED Registry!regVars
  BY DEF Registry!regVars, WriterAtWork

LEMMA PendingFrame ==
  ASSUME \A p \in Ops : op[p].control = ScanButton \/ op'[p].control = ScanButton
            => /\ op'[p].control = op[p].control
               /\ op'[p].st \in {"running", "posted"} <=> op[p].st \in {"running", "posted"}
  PROVE  PendingMerges' = PendingMerges
  BY DEF PendingMerges, Merges, LiveOps, Live

LEMMA RefinesStep ==
  ASSUME TypeOK, WriterInv, [Next]_vars PROVE [Registry!RegNext]_(Registry!regVars)
<1> USE DEF TypeOK
<1>0. UNCHANGED op => PendingMerges' = PendingMerges
  BY PendingFrame
<1>1. ASSUME BeginScan, Merges = {} PROVE Registry!RegNext
  <2>1. WriterAtWork = None
    BY <1>1 DEF WriterAtWork, BeginScan, PendingMerges
  <2>2. WriterAtWork' = "scan" /\ registry' = registry
    BY <1>1 DEF WriterAtWork, BeginScan
  <2> QED
    BY <2>1, <2>2, RefinesBegin
<1>2. CASE StartScan
  BY <1>1, <1>2 DEF StartScan, WriterInv, ScanButtonIsWriterLock, WriterInFlight
<1>3. CASE AutoScan
  BY <1>1, <1>3 DEF AutoScan, WriterInv, MergeNeedsRegistry
<1>4. CASE CancelScan \/ DismissError \/ RequestClose \/ AutoScanSkipped \/ ScanProgressed
  BY <1>0, <1>4, RefinesStutter DEF CancelScan, DismissError, RequestClose, AutoScanSkipped,
     ScanProgressed, scanVars, opVars
<1>5. ASSUME NEW o \in Ops, DropMods(o) PROVE Registry!RegNext
  <2>1. /\ scan = "none" /\ scan' = "none" /\ LiveOps = {} /\ registry # 0
        /\ registry' = registry /\ op'[o].st = "running" /\ op'[o].control = ScanButton
    BY <1>5 DEF DropMods, Run, scanVars, OpsType, OpType
  <2>2. o \in PendingMerges' /\ PendingMerges = {}
    BY <2>1 DEF PendingMerges, Merges, LiveOps, Live
  <2>3. registry > 0
    BY <2>1 DEF UiType
  <2> QED
    BY <2>1, <2>2, <2>3, RefinesBegin DEF WriterAtWork
<1>6. ASSUME NEW o \in Ops, NEW c \in Controls, Request(o, c) PROVE UNCHANGED Registry!regVars
  <2>1. /\ op[o].st = "idle" /\ op'[o].control = c
        /\ \A p \in Ops \ {o} : op'[p] = op[p]
    BY <1>6 DEF Request, Run, OpsType, OpType
  <2>2. PendingMerges' = PendingMerges
    BY <2>1, SessionAssumption DEF PendingMerges, Merges, LiveOps, Live
  <2> QED
    BY <1>6, <2>2, RefinesStutter DEF Request, scanVars
<1>7. ASSUME NEW o \in Ops, StopWaiting(o) PROVE UNCHANGED Registry!regVars
  <2>1. \A p \in Ops : op'[p].control = op[p].control /\ op'[p].st = op[p].st
    BY <1>7 DEF StopWaiting, OpsType, OpType
  <2> QED
    BY <1>7, <2>1, PendingFrame, RefinesStutter DEF StopWaiting, scanVars
<1>8. ASSUME NEW o \in Ops, ReadRegistry(o) PROVE UNCHANGED Registry!regVars
  <2>1. \A p \in Ops : op'[p].control = op[p].control /\ op'[p].st = op[p].st
    BY <1>8 DEF ReadRegistry, OpsType, OpType
  <2> QED
    BY <1>8, <2>1, PendingFrame, RefinesStutter DEF ReadRegistry, scanVars
<1>9. ASSUME NEW o \in Ops, OpWorker(o) PROVE UNCHANGED Registry!regVars
  <2>1. \A p \in Ops : /\ op'[p].control = op[p].control
                      /\ \/ op'[p].st = op[p].st
                         \/ op[p].st = "running" /\ op'[p].st = "posted"
    BY <1>9 DEF OpWorker, OpWorkerEnds, OpsType, OpType
  <2> QED
    BY <1>9, <2>1, PendingFrame, RefinesStutter DEF OpWorker, OpWorkerEnds, scanVars
<1>10. CASE ScanWorker
  BY <1>0, <1>10, RefinesStutter DEF ScanWorker, ScanWorkerEnds, opVars
<1>11. CASE ScanDelivered
  <2>1. /\ PendingMerges = {} /\ PendingMerges' = {} /\ scan = "posted" /\ scan' = "delivered"
        /\ registry' = registry \/ registry' = registry + 1
    BY <1>0, <1>11 DEF ScanDelivered, opVars, WriterInv, SingleWriter, PendingMerges
  <2> QED
    BY <2>1, RefinesEnd, SessionAssumption DEF WriterAtWork
<1>12. CASE ScanFinished
  BY <1>0, <1>12, RefinesStutter DEF ScanFinished, opVars
<1>13. ASSUME NEW o \in Ops, OpDelivered(o) PROVE [Registry!RegNext]_(Registry!regVars)
  <2>1. /\ op[o].st = "posted" /\ op'[o].st = "delivered" /\ op'[o].control = op[o].control
        /\ \A p \in Ops \ {o} : op'[p] = op[p]
        /\ scan' = scan
    BY <1>13 DEF OpDelivered, OpsType, OpType, scanVars
  <2>2. CASE op[o].control = ScanButton
    <3>1. PendingMerges = {o} /\ PendingMerges' = {} /\ scan = "none"
      BY <2>1, <2>2 DEF WriterInv, SingleWriter, PendingMerges, Merges, LiveOps, Live
    <3>2. registry' = registry \/ registry' = registry + 1
      BY <1>13 DEF OpDelivered
    <3> QED
      BY <2>1, <3>1, <3>2, RefinesEnd, SessionAssumption DEF WriterAtWork
  <2>3. CASE op[o].control # ScanButton
    <3>1. registry' = registry
      BY <1>13, <2>3 DEF OpDelivered
    <3> QED
      BY <2>1, <2>3, <3>1, PendingFrame, RefinesStutter
  <2> QED
    BY <2>2, <2>3
<1>14. ASSUME NEW o \in Ops, OpFinished(o) PROVE UNCHANGED Registry!regVars
  <2>1. \A p \in Ops : /\ op'[p].control = op[p].control
                      /\ \/ op'[p].st = op[p].st
                         \/ op[p].st = "delivered" /\ op'[p].st = "done"
    BY <1>14 DEF OpFinished, OpsType, OpType
  <2> QED
    BY <1>14, <2>1, PendingFrame, RefinesStutter DEF OpFinished, scanVars
<1>15. CASE UNCHANGED vars
  BY <1>0, <1>15, RefinesStutter DEF vars, scanVars, opVars
<1> QED
  BY <1>2, <1>3, <1>4, <1>5, <1>6, <1>7, <1>8, <1>9, <1>10, <1>11, <1>12, <1>13, <1>14, <1>15
     DEF Next, UserStep, TimerStep, ScanStep, OpStep

(* The session implements SessionRegistry: the registry is replaced as a   *)
(* whole, by one writer at a time, and by nobody who did not announce it.  *)
THEOREM SessionImplementsRegistry == Spec => ImplementsRegistry
<1>1. TypeOK /\ WriterInv /\ [Next]_vars => [Registry!RegNext]_(Registry!regVars)
  BY RefinesStep
<1> QED
  BY RefinesInit, TypeCorrect, WriterInvariant, <1>1, PTL
     DEF Spec, ImplementsRegistry, Registry!RegSpec

-------------------------------------------------------------------------------
(* The buttons and the cancelled scan *)

LEMMA RecoverFrame ==
  ASSUME ControlsRecover, UNCHANGED <<enabled, registry>>,
         \A o \in LiveOps : op'[o].st \in Live /\ op'[o].control = op[o].control
  PROVE  ControlsRecover'
<1> SUFFICES ASSUME NEW c \in Controls, registry # 0 \/ c \in Standalone, ~enabled[c]
             PROVE  \E o \in LiveOps' : op'[o].control = c
  BY DEF ControlsRecover
<1>1. PICK o \in LiveOps : op[o].control = c
  BY DEF ControlsRecover
<1> QED BY <1>1 DEF LiveOps

(* _run disables the button of the thread it starts. *)
LEMMA RecoverRun ==
  ASSUME TypeOK, ControlsRecover, NEW o \in Ops, NEW c \in AllControls, Run(o, c), registry' = registry
  PROVE  ControlsRecover'
<1>1. /\ LiveOps' = LiveOps \cup {o} /\ o \notin LiveOps /\ op'[o].control = c
      /\ \A p \in LiveOps : op'[p] = op[p]
  BY RunLive DEF LiveOps
<1>2. \A d \in Controls \ {c} : enabled'[d] = enabled[d]
  BY DEF Run, DisableControl, SetEnabled, TypeOK, UiType
<1> SUFFICES ASSUME NEW d \in Controls, registry # 0 \/ d \in Standalone, ~enabled'[d]
             PROVE  \E p \in LiveOps' : op'[p].control = d
  BY DEF ControlsRecover
<1>3. CASE d = c
  BY <1>1, <1>3
<1>4. CASE d # c
  BY <1>1, <1>2, <1>4 DEF ControlsRecover
<1> QED BY <1>3, <1>4

(* An adopted result enables every button that needs one. *)
LEMMA RecoverPopulated ==
  ASSUME TypeOK, ControlsRecover, PopulateSecondary,
         \A o \in LiveOps : op'[o].st \in Live /\ op'[o].control = op[o].control
  PROVE  ControlsRecover'
<1> SUFFICES ASSUME NEW c \in Controls, registry' # 0 \/ c \in Standalone, ~enabled'[c]
             PROVE  \E o \in LiveOps' : op'[o].control = c
  BY DEF ControlsRecover
<1>1. c \in Standalone /\ ~enabled[c]
  BY DEF PopulateSecondary, Secondary
<1>2. PICK o \in LiveOps : op[o].control = c
  BY <1>1 DEF ControlsRecover
<1> QED BY <1>2 DEF LiveOps

LEMMA RecoverOpFinished ==
  ASSUME TypeOK, ControlsRecover, NEW o \in Ops, OpFinished(o) PROVE ControlsRecover'
<1>1. /\ registry' = registry /\ op[o].control \in AllControls
      /\ \A p \in Ops \ {o} : op'[p] = op[p]
  BY DEF TypeOK, OpsType, OpType, OpFinished
<1>2. SetEnabled(op[o].control, registry # 0 \/ op[o].control \in Standalone)
  BY DEF OpFinished, Reenable
<1> SUFFICES ASSUME NEW c \in Controls, registry # 0 \/ c \in Standalone, ~enabled'[c]
             PROVE  \E p \in LiveOps' : op'[p].control = c
  BY <1>1 DEF ControlsRecover
<1>3. op[o].control # c
  BY <1>2, SessionAssumption DEF SetEnabled, TypeOK, UiType
<1>4. enabled'[c] = enabled[c]
  BY <1>2, <1>3 DEF SetEnabled, TypeOK, UiType
<1>5. PICK p \in LiveOps : op[p].control = c
  BY <1>4 DEF ControlsRecover
<1> QED BY <1>1, <1>3, <1>5 DEF LiveOps

LEMMA RecoverStep == TypeOK /\ ControlsRecover /\ [Next]_vars => ControlsRecover'
<1> SUFFICES ASSUME TypeOK, ControlsRecover, [Next]_vars PROVE ControlsRecover'
  OBVIOUS
<1>0. UNCHANGED <<op, enabled, registry>> => ControlsRecover'
  BY RecoverFrame DEF LiveOps
<1>1. CASE StartScan \/ AutoScan \/ CancelScan \/ DismissError \/ RequestClose \/ AutoScanSkipped
  BY <1>0, <1>1 DEF StartScan, AutoScan, BeginScan, CancelScan, DismissError, RequestClose,
     AutoScanSkipped, opVars, uiVars
<1>2. CASE ScanProgressed \/ ScanWorker \/ ScanFinished
  BY <1>0, <1>2 DEF ScanProgressed, ScanWorker, ScanWorkerEnds, ScanFinished, opVars, uiVars
<1>3. ASSUME NEW o \in Ops, DropMods(o) PROVE ControlsRecover'
  BY <1>3, RecoverRun DEF DropMods, AllControls
<1>4. ASSUME NEW o \in Ops, NEW c \in Controls, Request(o, c) PROVE ControlsRecover'
  BY <1>4, RecoverRun DEF Request, AllControls
<1>5. ASSUME NEW o \in Ops, StopWaiting(o) \/ ReadRegistry(o) \/ OpWorker(o) PROVE ControlsRecover'
  <2>1. UNCHANGED <<enabled, registry>>
    BY <1>5 DEF StopWaiting, ReadRegistry, OpWorker, OpWorkerEnds, uiVars
  <2> DEFINE Kept == \A p \in LiveOps : op'[p].st \in Live /\ op'[p].control = op[p].control
  <2> USE DEF LiveOps, Live, TypeOK, OpsType, OpType
  <2>2. StopWaiting(o) => Kept
    BY DEF StopWaiting
  <2>3. ReadRegistry(o) => Kept
    BY DEF ReadRegistry
  <2>4. OpWorker(o) => Kept
    BY DEF OpWorker, OpWorkerEnds
  <2> HIDE DEF Kept, LiveOps
  <2>5. Kept
    BY <1>5, <2>2, <2>3, <2>4
  <2> QED BY <2>1, <2>5, RecoverFrame DEF Kept
<1>6. CASE ScanDelivered
  <2>1. CASE PopulateSecondary
    BY <1>6, <2>1, RecoverPopulated DEF ScanDelivered, opVars, LiveOps
  <2> QED BY <1>0, <1>6, <2>1 DEF ScanDelivered, opVars
<1>7. ASSUME NEW o \in Ops, OpDelivered(o) PROVE ControlsRecover'
  <2>1. \A p \in LiveOps : op'[p].st \in Live /\ op'[p].control = op[p].control
    BY <1>7 DEF OpDelivered, LiveOps, Live, TypeOK, OpsType, OpType
  <2>2. PopulateSecondary \/ UNCHANGED <<enabled, registry>>
    BY <1>7 DEF OpDelivered
  <2> QED BY <2>1, <2>2, RecoverFrame, RecoverPopulated
<1>8. CASE UNCHANGED vars
  BY <1>0, <1>8 DEF vars, opVars, uiVars
<1> QED
  BY <1>1, <1>2, <1>3, <1>4, <1>5, <1>6, <1>7, <1>8, RecoverOpFinished
     DEF Next, UserStep, TimerStep, ScanStep, OpStep

(* No order of completions, discards and rescans leaves a button of a      *)
(* loaded session dead (_finish_thread, _populate_secondary).              *)
THEOREM ButtonsComeBack == Spec => []ControlsRecover
<1>1. Init => ControlsRecover
  BY DEF Init, ControlsRecover
<1> QED
  BY <1>1, RecoverStep, TypeCorrect, PTL DEF Spec

(* _scan_discarded and the cancel event are set and cleared together, and  *)
(* so a scan is adopted exactly if it succeeds and was not cancelled.      *)
THEOREM ScansAreAdopted == Spec => ScanAdoptedUnlessCancelled
<1> DEFINE Together == discarded = cancelEvent
<1>1. Init => Together
  BY DEF Init
<1>2. Together /\ [Next]_vars => Together'
  <2> SUFFICES ASSUME Together, [Next]_vars PROVE Together'
    OBVIOUS
  <2>1. CASE StartScan \/ AutoScan
    BY <2>1 DEF StartScan, AutoScan, BeginScan
  <2>2. CASE CancelScan \/ RequestClose
    BY <2>2 DEF CancelScan, RequestClose, DiscardScan
  <2>3. CASE DismissError \/ AutoScanSkipped \/ ScanProgressed \/ ScanWorker \/ ScanDelivered \/ ScanFinished
    BY <2>3 DEF DismissError, AutoScanSkipped, ScanProgressed, ScanWorker, ScanWorkerEnds, ScanDelivered,
       ScanFinished, scanVars
  <2>4. ASSUME NEW o \in Ops, NEW c \in Controls, DropMods(o) \/ StopWaiting(o) \/ Request(o, c) PROVE Together'
    BY <2>4 DEF DropMods, StopWaiting, Request, scanVars
  <2>5. ASSUME NEW o \in Ops, DropMods(o) \/ StopWaiting(o) \/ OpStep(o) PROVE Together'
    BY <2>5 DEF DropMods, StopWaiting, OpStep, ReadRegistry, OpWorker, OpWorkerEnds, OpDelivered, OpFinished, scanVars
  <2>6. CASE UNCHANGED vars
    BY <2>6 DEF vars, scanVars
  <2> QED
    BY <2>1, <2>2, <2>3, <2>4, <2>5, <2>6 DEF Next, UserStep, TimerStep, ScanStep
<1> DEFINE Adopts == scan = "posted" /\ scan' = "delivered"
                       => (registry' # registry <=> scanOutcome = "ok" /\ ~cancelEvent)
<1>3. TypeOK /\ Together /\ [Next]_vars => Adopts
  <2> SUFFICES ASSUME TypeOK, Together, [Next]_vars, scan = "posted", scan' = "delivered"
               PROVE  registry' # registry <=> scanOutcome = "ok" /\ ~cancelEvent
    OBVIOUS
  <2>1. ScanDelivered
    BY DEF Next, UserStep, TimerStep, ScanStep, OpStep, StartScan, AutoScan, BeginScan, CancelScan, DismissError,
       RequestClose, AutoScanSkipped, ScanProgressed, ScanWorker, ScanWorkerEnds,
       ScanFinished, DropMods, Request, StopWaiting, ReadRegistry, OpWorker, OpWorkerEnds, OpDelivered,
       OpFinished, vars, scanVars
  <2> QED BY <2>1 DEF ScanDelivered, TypeOK, UiType
<1>4. TypeOK /\ Together /\ [Next]_vars => [Adopts]_vars
  BY <1>3
<1> HIDE DEF Together
<1> QED
  BY <1>1, <1>2, <1>4, TypeCorrect, PTL DEF Spec, ScanAdoptedUnlessCancelled

-------------------------------------------------------------------------------
(* Which results are awaited *)

LEMMA AwaitInit == Init => AwaitInv
  BY DEF Init, AwaitInv, IdleIsUntouched, NumberedInOrder, TokensDiffer, CurrentIsAwaited, Requests

LEMMA RequestsCounted == IsFiniteSet(Requests) /\ Cardinality(Requests) \in Nat
<1>1. IsFiniteSet(Requests)
  BY SessionAssumption, FS_Subset DEF Requests
<1> QED BY <1>1, FS_CardinalityType

(* A step that neither starts a thread nor moves a token. *)
LEMMA AwaitFrame ==
  ASSUME AwaitInv, UNCHANGED token,
         \A o \in Ops : /\ op'[o].st = "idle" <=> op[o].st = "idle"
                        /\ op'[o].st \in {"running", "posted"} => op[o].st \in {"running", "posted"}
                        /\ op'[o].control = op[o].control /\ op'[o].token = op[o].token /\ op'[o].seq = op[o].seq
                        /\ op'[o].stopped = op[o].stopped /\ (op'[o].dialog => op[o].dialog)
  PROVE  AwaitInv'
<1>1. Requests' = Requests
  BY DEF Requests
<1>2. \A o \in Ops : Superseded(o)' <=> Superseded(o)
  BY DEF Superseded
<1>3. IdleIsUntouched' /\ NumberedInOrder' /\ TokensDiffer'
  BY <1>1 DEF AwaitInv, IdleIsUntouched, NumberedInOrder, TokensDiffer, Requests
<1>4. CurrentIsAwaited'
  BY <1>2 DEF AwaitInv, CurrentIsAwaited
<1> QED BY <1>3, <1>4 DEF AwaitInv

(* A new request takes the next number and the next token of its button. *)
LEMMA AwaitRun ==
  ASSUME TypeOK, AwaitInv, NEW o \in Ops, NEW c \in AllControls, Run(o, c) PROVE AwaitInv'
<1> DEFINE n == Cardinality(Requests)
<1>1. /\ op[o].st = "idle" /\ op'[o].st = "running" /\ op'[o].control = c
      /\ op'[o].token = token[c] + 1 /\ op'[o].seq = n /\ op'[o].stopped = op[o].stopped
  BY DEF Run, TypeOK, OpsType, OpType, Requests
<1>2. /\ \A p \in Ops \ {o} : op'[p] = op[p]
      /\ token'[c] = token[c] + 1 /\ \A d \in AllControls \ {c} : token'[d] = token[d]
  BY DEF Run, TypeOK, OpsType
<1>3. Requests' = Requests \cup {o} /\ o \notin Requests
  BY <1>1, <1>2 DEF Requests
<1>4. n \in Nat /\ Cardinality(Requests') = n + 1
  BY <1>3, RequestsCounted, FS_AddElement
<1>5. \A p \in Ops : op[p].control \in AllControls /\ op[p].token \in Nat /\ op[p].seq \in Nat /\ token[op[p].control] \in Nat
  BY DEF TypeOK, OpsType, OpType
<1>6. token[c] \in Nat
  BY DEF TypeOK, OpsType
<1> HIDE DEF n
<1>7. \A p \in Requests : op'[p] = op[p] /\ op[p].seq < n /\ op[p].token <= token[op[p].control]
  BY <1>2, <1>3 DEF AwaitInv, NumberedInOrder, Requests, n
<1>8. IdleIsUntouched'
  BY <1>2, <1>3 DEF AwaitInv, IdleIsUntouched
<1>9. NumberedInOrder'
  <2>1. \A p \in Requests : op'[p].seq < n + 1 /\ op'[p].token <= token'[op'[p].control]
    <3> SUFFICES ASSUME NEW p \in Requests
                 PROVE  op[p].seq < n + 1 /\ op[p].token <= token'[op[p].control]
      BY <1>7
    <3>1. token'[op[p].control] \in {token[op[p].control], token[op[p].control] + 1}
      BY <1>2, <1>5 DEF Requests
    <3> QED BY <1>4, <1>5, <1>7, <3>1 DEF Requests
  <2>2. op'[o].seq < n + 1 /\ op'[o].token <= token'[op'[o].control]
    BY <1>1, <1>2, <1>4, <1>6
  <2> QED BY <1>3, <1>4, <2>1, <2>2 DEF NumberedInOrder
<1>10. \A p \in Requests : op[p].control = c => op[p].token < token[c] + 1
  BY <1>5, <1>6, <1>7 DEF Requests
<1>11. TokensDiffer'
  <2> SUFFICES ASSUME NEW p \in Requests \cup {o}, NEW q \in Requests \cup {o}, p # q, op'[p].control = op'[q].control
               PROVE  op'[p].token # op'[q].token
    BY <1>3 DEF TokensDiffer
  <2>1. CASE p \in Requests /\ q \in Requests
    BY <1>7, <2>1 DEF AwaitInv, TokensDiffer
  <2>2. CASE p = o \/ q = o
    BY <1>1, <1>5, <1>6, <1>7, <1>10, <2>2 DEF Requests
  <2> QED BY <2>1, <2>2
<1>12. CurrentIsAwaited'
  <2> SUFFICES ASSUME NEW p \in Ops, op'[p].st \in {"running", "posted"}
               PROVE  token'[op'[p].control] = op'[p].token <=> ~op'[p].stopped /\ ~Superseded(p)'
    BY DEF CurrentIsAwaited
  <2>1. CASE p = o
    <3>1. ~op'[o].stopped
      BY <1>1, <1>3 DEF AwaitInv, IdleIsUntouched
    <3>2. ~Superseded(o)'
      <4> SUFFICES ASSUME NEW q \in Ops, op'[q].st # "idle", op'[q].seq > op'[o].seq PROVE FALSE
        BY DEF Superseded
      <4>1. q \in Requests \/ q = o
        BY <1>3 DEF Requests
      <4> QED BY <1>1, <1>4, <1>5, <1>7, <4>1
    <3> QED BY <1>1, <1>2, <2>1, <3>1, <3>2
  <2>2. CASE p # o /\ op[p].control = c
    <3>1. p \in Requests /\ op'[p] = op[p]
      BY <1>2, <2>2 DEF Requests
    <3>2. token'[c] # op[p].token
      BY <1>2, <1>5, <1>6, <1>10, <2>2, <3>1
    <3>3. Superseded(p)'
      BY <1>1, <1>4, <1>5, <1>7, <2>2, <3>1 DEF Superseded
    <3> QED BY <2>2, <3>1, <3>2, <3>3
  <2>3. CASE p # o /\ op[p].control # c
    <3>1. op'[p] = op[p] /\ token'[op[p].control] = token[op[p].control]
      BY <1>2, <1>5, <2>3
    <3>2. Superseded(p)' <=> Superseded(p)
      <4>1. Superseded(p)' <=> \E q \in Ops \ {o} : op'[q].st # "idle" /\ op'[q].control = op'[p].control /\ op'[q].seq > op'[p].seq
        BY <1>1, <2>3, <3>1 DEF Superseded
      <4>2. Superseded(p) <=> \E q \in Ops \ {o} : op[q].st # "idle" /\ op[q].control = op[p].control /\ op[q].seq > op[p].seq
        BY <1>1 DEF Superseded
      <4> QED BY <1>2, <3>1, <4>1, <4>2
    <3> QED BY <3>1, <3>2 DEF AwaitInv, CurrentIsAwaited
  <2> QED BY <2>1, <2>2, <2>3
<1> QED BY <1>8, <1>9, <1>11, <1>12 DEF AwaitInv

(* Dropping a result moves only the token that its request holds: what it  *)
(* takes from its own request it takes from no other.                      *)
LEMMA AwaitDrop ==
  ASSUME TypeOK, AwaitInv, NEW o \in Requests, DropResult(o),
         \A p \in Ops : /\ op'[p].control = op[p].control /\ op'[p].token = op[p].token /\ op'[p].seq = op[p].seq
                        /\ op'[p].st = "idle" <=> op[p].st = "idle"
                        /\ op'[p].dialog => op[p].dialog,
         \A p \in Ops \ {o} : op'[p].st = op[p].st /\ op'[p].stopped = op[p].stopped,
         op'[o].st \in {"running", "posted"} => op'[o].stopped
  PROVE  AwaitInv'
<1>1. Requests' = Requests
  BY DEF Requests
<1>2. \A p \in Ops : Superseded(p)' <=> Superseded(p)
  BY DEF Superseded
<1>3. \A p \in Ops : op[p].control \in AllControls /\ op[p].token \in Nat /\ token[op[p].control] \in Nat
  BY DEF TypeOK, OpsType, OpType
<1>4. o \in Ops
  BY DEF Requests
<1>5. \A p \in Requests : op[p].token <= token[op[p].control]
  BY DEF AwaitInv, NumberedInOrder
<1>6. \A d \in AllControls : \/ token'[d] = token[d]
                             \/ d = op[o].control /\ token[d] = op[o].token /\ token'[d] = token[d] + 1
  BY <1>3, <1>4 DEF DropResult, TypeOK, OpsType
<1>7. token[op[o].control] = op[o].token => token'[op[o].control] = token[op[o].control] + 1
  BY <1>3, <1>4 DEF DropResult, TypeOK, OpsType
<1>8. IdleIsUntouched' /\ TokensDiffer'
  BY <1>1 DEF AwaitInv, IdleIsUntouched, TokensDiffer, Requests
<1>9. NumberedInOrder'
  <2> SUFFICES ASSUME NEW p \in Requests
               PROVE  op'[p].seq < Cardinality(Requests) /\ op'[p].token <= token'[op'[p].control]
    BY <1>1 DEF NumberedInOrder
  <2>1. token'[op[p].control] \in {token[op[p].control], token[op[p].control] + 1}
    BY <1>3, <1>6 DEF Requests
  <2>2. op[p].token <= token'[op[p].control]
    BY <1>3, <1>5, <2>1 DEF Requests
  <2> QED BY <2>2 DEF AwaitInv, NumberedInOrder, Requests
<1>10. CurrentIsAwaited'
  <2> SUFFICES ASSUME NEW p \in Ops, op'[p].st \in {"running", "posted"}
               PROVE  token'[op[p].control] = op[p].token <=> ~op'[p].stopped /\ ~Superseded(p)
    BY <1>2 DEF CurrentIsAwaited
  <2>1. CASE p = o
    <3>1. token'[op[o].control] # op[o].token
      BY <1>3, <1>4, <1>6, <1>7
    <3> QED BY <2>1, <3>1
  <2>2. CASE p # o
    <3>1. p \in Requests /\ op'[p].stopped = op[p].stopped /\ op[p].st \in {"running", "posted"}
      BY <2>2 DEF Requests
    <3>2. token'[op[p].control] = op[p].token <=> token[op[p].control] = op[p].token
      <4>1. CASE token'[op[p].control] = token[op[p].control]
        BY <4>1
      <4>2. CASE op[p].control = op[o].control /\ token[op[p].control] = op[o].token
                 /\ token'[op[p].control] = token[op[p].control] + 1
        <5>1. op[p].token # op[o].token
          BY <2>2, <3>1, <4>2 DEF AwaitInv, TokensDiffer
        <5> QED BY <1>3, <1>5, <3>1, <4>2, <5>1
      <4> QED BY <1>3, <1>6, <4>1, <4>2
    <3> QED BY <3>1, <3>2 DEF AwaitInv, CurrentIsAwaited
  <2> QED BY <2>1, <2>2
<1> QED BY <1>8, <1>9, <1>10 DEF AwaitInv

LEMMA AwaitStep == TypeOK /\ AwaitInv /\ [Next]_vars => AwaitInv'
<1> SUFFICES ASSUME TypeOK, AwaitInv, [Next]_vars PROVE AwaitInv'
  OBVIOUS
<1>0. UNCHANGED <<op, token>> => AwaitInv'
  BY AwaitFrame
<1>1. CASE StartScan \/ AutoScan \/ CancelScan \/ DismissError \/ RequestClose \/ AutoScanSkipped
  BY <1>0, <1>1 DEF StartScan, AutoScan, BeginScan, CancelScan, DismissError, RequestClose,
     AutoScanSkipped, opVars
<1>2. CASE ScanStep
  BY <1>0, <1>2 DEF ScanStep, ScanProgressed, ScanWorker, ScanWorkerEnds, ScanDelivered, ScanFinished, opVars
<1>3. ASSUME NEW o \in Ops, DropMods(o) PROVE AwaitInv'
  BY <1>3, AwaitRun DEF DropMods, AllControls
<1>4. ASSUME NEW o \in Ops, NEW c \in Controls, Request(o, c) PROVE AwaitInv'
  BY <1>4, AwaitRun DEF Request, AllControls
<1>5. ASSUME NEW o \in Ops, StopWaiting(o) PROVE AwaitInv'
  <2>1. o \in Requests
    BY <1>5 DEF StopWaiting, AwaitInv, IdleIsUntouched
  <2>2. op' = [op EXCEPT ![o] = [op[o] EXCEPT !.dialog = FALSE, !.stopped = TRUE]] /\ DropResult(o)
    BY <1>5 DEF StopWaiting
  <2>3. /\ op'[o].stopped /\ op'[o].st = op[o].st /\ ~op'[o].dialog
        /\ op'[o].control = op[o].control /\ op'[o].token = op[o].token /\ op'[o].seq = op[o].seq
        /\ \A p \in Ops \ {o} : op'[p] = op[p]
    BY <2>2 DEF TypeOK, OpsType, OpType
  <2> QED BY <2>1, <2>2, <2>3, AwaitDrop
<1>6. ASSUME NEW o \in Ops, ReadRegistry(o) PROVE AwaitInv'
  BY <1>6, AwaitFrame DEF ReadRegistry, TypeOK, OpsType, OpType
<1>7. ASSUME NEW o \in Ops, OpWorker(o) PROVE AwaitInv'
  BY <1>7, AwaitFrame DEF OpWorker, OpWorkerEnds, TypeOK, OpsType, OpType
<1>8. ASSUME NEW o \in Ops, OpDelivered(o) PROVE AwaitInv'
  BY <1>8, AwaitFrame DEF OpDelivered, TypeOK, OpsType, OpType
<1>9. ASSUME NEW o \in Ops, OpFinished(o) PROVE AwaitInv'
  <2>1. /\ op' = [op EXCEPT ![o] = [op[o] EXCEPT !.st = "done", !.dialog = FALSE]]
        /\ op[o].st = "delivered" /\ (DropResult(o) \/ UNCHANGED token)
    BY <1>9 DEF OpFinished
  <2>2. /\ op'[o].stopped = op[o].stopped /\ op'[o].st = "done" /\ ~op'[o].dialog
        /\ op'[o].control = op[o].control /\ op'[o].token = op[o].token /\ op'[o].seq = op[o].seq
        /\ \A p \in Ops \ {o} : op'[p] = op[p]
    BY <2>1 DEF TypeOK, OpsType, OpType
  <2>3. CASE DropResult(o)
    BY <2>1, <2>2, <2>3, AwaitDrop DEF Requests
  <2>4. CASE UNCHANGED token
    BY <2>1, <2>2, <2>4, AwaitFrame
  <2> QED BY <2>1, <2>3, <2>4
<1>10. CASE UNCHANGED vars
  BY <1>0, <1>10 DEF vars, opVars
<1> QED
  BY <1>1, <1>2, <1>3, <1>4, <1>5, <1>6, <1>7, <1>8, <1>9, <1>10 DEF Next, UserStep, TimerStep, OpStep

(* For any number of requests, a result reaches the window exactly when it *)
(* answers the latest request of its button and nobody stopped waiting for *)
(* it (_complete_operation and the three places that move a token).        *)
THEOREM AwaitedIsShown == Spec => ShownExactlyWhenAwaited
<1> DEFINE Shown == \A o \in Ops : op[o].st = "posted" /\ op'[o].st = "delivered" /\ op[o].outcome = "ok"
                        => (op'[o].shown <=> ~op[o].stopped /\ ~Superseded(o))
<1>1. Spec => []AwaitInv
  BY AwaitInit, AwaitStep, TypeCorrect, PTL DEF Spec
<1>2. TypeOK /\ AwaitInv /\ [Next]_vars => [Shown]_vars
  <2> SUFFICES ASSUME TypeOK, AwaitInv, [Next]_vars, NEW o \in Ops,
                      op[o].st = "posted", op'[o].st = "delivered", op[o].outcome = "ok"
               PROVE  op'[o].shown <=> ~op[o].stopped /\ ~Superseded(o)
    OBVIOUS
  <2>1. OpDelivered(o)
    <3>1. op'[o] # op[o] /\ op'[o].st \notin {"idle", "running", "posted", "done"}
      OBVIOUS
    <3>2. UNCHANGED op \/ \E p \in Ops, c \in AllControls :
              Run(p, c) \/ StopWaiting(p) \/ ReadRegistry(p) \/ OpWorker(p) \/ OpDelivered(p) \/ OpFinished(p)
      BY DEF Next, UserStep, TimerStep, ScanStep, OpStep, StartScan, AutoScan, BeginScan, CancelScan, DismissError,
         RequestClose, AutoScanSkipped, ScanProgressed, ScanWorker, ScanWorkerEnds, ScanDelivered,
         ScanFinished, DropMods, Request, vars, opVars, AllControls
    <3>3. PICK p \in Ops, c \in AllControls :
              Run(p, c) \/ StopWaiting(p) \/ ReadRegistry(p) \/ OpWorker(p) \/ OpDelivered(p) \/ OpFinished(p)
      BY <3>1, <3>2
    <3>4. op \in [Ops -> OpType] /\ op[p] \in OpType
      BY DEF TypeOK, OpsType
    <3>5. \E r : op' = [op EXCEPT ![p] = r]
      BY <3>3 DEF Run, StopWaiting, ReadRegistry, OpWorker, OpWorkerEnds, OpDelivered, OpFinished
    <3>6. p = o
      BY <3>1, <3>4, <3>5
    <3>7. ~Run(o, c) /\ ~OpWorker(o) /\ ~OpFinished(o)
      BY <3>1, <3>4, <3>6 DEF Run, OpWorker, OpWorkerEnds, OpFinished, OpType
    <3>8. ~StopWaiting(o) /\ ~ReadRegistry(o)
      BY <3>1, <3>4, <3>6 DEF StopWaiting, ReadRegistry, OpType
    <3> QED BY <3>3, <3>6, <3>7, <3>8
  <2>2. op'[o].shown = (token[op[o].control] = op[o].token)
    BY <2>1 DEF OpDelivered, TypeOK, OpsType, OpType
  <2> QED BY <2>2 DEF AwaitInv, CurrentIsAwaited
<1> HIDE DEF Shown
<1>3. Spec => [][Shown]_vars
  BY <1>1, <1>2, TypeCorrect, PTL DEF Spec
<1> QED BY <1>3 DEF ShownExactlyWhenAwaited, Shown
===============================================================================
