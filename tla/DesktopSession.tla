---------------------------- MODULE DesktopSession ----------------------------
(***************************************************************************)
(* The desktop window's session: one scan thread, any number of backend    *)
(* operations started through MainWindow._run, and the scan result and     *)
(* registry they share (gui/main_window.py, gui/window_scan.py).           *)
(*                                                                         *)
(* Slots run on the GUI thread, one at a time, but modal dialogs run a     *)
(* nested event loop, so completions are delivered while a dialog is open  *)
(* and only the user is held up by it.  A worker posts its terminal signal *)
(* first and its thread's `finished` later, so `finished` of a thread is   *)
(* delivered after its terminal signal.  No other order is assumed.        *)
(***************************************************************************)
EXTENDS Naturals, FiniteSets

CONSTANTS
    Ops,          \* operation threads the session may start (bounds _run calls)
    Controls,     \* the buttons that run an operation through _run
    Checked,      \* those whose handler asks _registry_write_in_progress first
    Cancellable,  \* those that pass cancellable=True
    Standalone,   \* those that need no registry (release_verify_button)
    ScanButton,   \* scan_button, also the control of an incremental merge
    MaxScans,     \* bound on the scans of one session
    None

ASSUME SessionAssumption ==
    /\ IsFiniteSet(Ops)
    /\ Checked \subseteq Controls
    /\ Cancellable \subseteq Controls
    /\ Standalone \subseteq Controls
    /\ Checked \cap Standalone = {}
    /\ ScanButton \notin Controls
    /\ MaxScans \in Nat
    /\ None \notin {"scan", "merge"}

VARIABLES
    scan,         \* _scan_thread: "none", "working", "posted" or "delivered"
    scanOutcome,  \* its posted terminal signal, until that is delivered
    discarded,    \* _scan_discarded
    cancelEvent,  \* _scan_cancel_event.is_set()
    scanDialog,   \* is the modal "Cancel Scan" dialog visible?
    scans,        \* scans started so far
    autoPending,  \* the launch timer of _maybe_auto_scan has not fired
    scanButton,   \* scan_button.isEnabled()
    enabled,      \* isEnabled() of every other control
    registry,     \* _scan_result and _registry: 0 is None, else a version
    op,           \* the threads of _threads, by operation
    token,        \* _operation_tokens
    errorBoxes,   \* open modal error boxes of _operation_failed
    closing,      \* _closing_requested
    closed        \* the window has accepted a close event

scanVars == <<scan, scanOutcome, discarded, cancelEvent, scanDialog, scans, autoPending>>
opVars   == <<op, token>>
uiVars   == <<scanButton, enabled, errorBoxes>>
vars     == <<scanVars, opVars, uiVars, registry, closing, closed>>

AllControls == Controls \cup {ScanButton}
Secondary   == Controls \ Standalone    \* the buttons _populate_secondary enables
Live        == {"running", "posted", "delivered"}

OpType == [st      : {"idle", "running", "posted", "delivered", "done"},
           control : AllControls,
           token   : Nat,
           seq     : Nat,            \* history: requests made before this one
           base    : Nat,            \* registry when the operation was requested
           outcome : {"none", "ok", "failed"},
           dialog  : BOOLEAN,        \* its modal "Stop Waiting" dialog is visible
           moved   : BOOLEAN,        \* it has read a registry other than base
           stopped : BOOLEAN,        \* history: the user stopped waiting for it
           shown   : BOOLEAN,        \* history: its result reached the window
           boxed   : BOOLEAN]        \* history: its failure opened an error box

ScanType ==
    /\ scan \in {"none", "working", "posted", "delivered"}
    /\ scanOutcome \in {"none", "ok", "failed", "cancelled"}
    /\ discarded \in BOOLEAN /\ cancelEvent \in BOOLEAN /\ scanDialog \in BOOLEAN
    /\ scans \in Nat /\ autoPending \in BOOLEAN

OpsType == op \in [Ops -> OpType] /\ token \in [AllControls -> Nat]

UiType ==
    /\ scanButton \in BOOLEAN
    /\ enabled \in [Controls -> BOOLEAN]
    /\ registry \in Nat
    /\ errorBoxes \in Nat
    /\ closing \in BOOLEAN /\ closed \in BOOLEAN

(* The window never shows a negative number of boxes, and every thread,    *)
(* button and counter has its type.                                        *)
TypeOK == ScanType /\ OpsType /\ UiType

LiveOps == {o \in Ops : op[o].st \in Live}
Merges  == {o \in LiveOps : op[o].control = ScanButton}

Init ==
    /\ scan = "none" /\ scanOutcome = "none" /\ discarded = FALSE
    /\ cancelEvent = FALSE /\ scanDialog = FALSE /\ scans = 0
    /\ autoPending \in BOOLEAN
    /\ scanButton = TRUE
    /\ enabled = [c \in Controls |-> c \in Standalone]
    /\ registry = 0
    /\ op = [o \in Ops |-> [st |-> "idle", control |-> ScanButton, token |-> 0,
                            seq |-> 0, base |-> 0, outcome |-> "none", dialog |-> FALSE,
                            moved |-> FALSE, stopped |-> FALSE, shown |-> FALSE,
                            boxed |-> FALSE]]
    /\ token = [c \in AllControls |-> 0]
    /\ errorBoxes = 0
    /\ closing = FALSE /\ closed = FALSE

-------------------------------------------------------------------------------
(* What the user can reach: a visible modal dialog or an open error box    *)
(* blocks the window; an error box blocks the progress dialogs as well.    *)
WindowReachable == /\ ~closed
                   /\ errorBoxes = 0
                   /\ ~scanDialog
                   /\ \A o \in Ops : ~op[o].dialog

RegistryWriteInProgress == scan # "none" \/ ~scanButton

(* QPushButton.setEnabled, for scan_button and for every other control. *)
SetEnabled(c, on) ==
    IF c = ScanButton
      THEN scanButton' = on /\ UNCHANGED enabled
      ELSE enabled' = [enabled EXCEPT ![c] = on] /\ UNCHANGED scanButton

DisableControl(c) == SetEnabled(c, FALSE)

(* MainWindow._run(..., control), for the free thread o. *)
Run(o, c) ==
    /\ op[o].st = "idle"
    /\ token' = [token EXCEPT ![c] = @ + 1]
    /\ op' = [op EXCEPT ![o] = [@ EXCEPT !.st = "running", !.control = c,
                                         !.token = token[c] + 1, !.base = registry,
                                         !.seq = Cardinality({p \in Ops : op[p].st # "idle"}),
                                         !.dialog = c \in Cancellable]]
    /\ DisableControl(c)

(* _discard_operation_result moves the token on, unless a later request of *)
(* the same button has done so already. Mutant: it always does.            *)
DropAnyResult(o) == token' = [token EXCEPT ![op[o].control] = @ + 1]
DropResult(o) == token' = IF token[op[o].control] = op[o].token
                          THEN [token EXCEPT ![op[o].control] = @ + 1] ELSE token

(* The end of _finish_thread. Mutant: only the latest request re-enables.  *)
ReenableLatest(o) == SetEnabled(op[o].control, token[op[o].control] = op[o].token)
Reenable(o) == SetEnabled(op[o].control, registry # 0 \/ op[o].control \in Standalone)

(* _populate_secondary enables its buttons whatever runs under them. *)
PopulateSecondary == enabled' = [c \in Controls |-> c \in Secondary \/ enabled[c]]

(* _maybe_close_after_background_work, with the threads left by this step. *)
(* Mutants: it asks only for the scan, or before the thread is discarded.  *)
CloseAfterScan(scanAfter, opAfter) == closed' = (closed \/ (closing /\ scanAfter = "none"))
CloseTooEarly(scanAfter, opAfter) ==
    closed' = (closed \/ (closing /\ scan = "none" /\ LiveOps = {}))
MaybeClose(scanAfter, opAfter) ==
    closed' = (\/ closed
               \/ /\ closing
                  /\ scanAfter = "none"
                  /\ \A o \in Ops : opAfter[o].st \notin Live)

-------------------------------------------------------------------------------
(* Requests of the user *)

BeginScan ==
    /\ scans < MaxScans
    /\ scan = "none"
    /\ scan' = "working" /\ scanOutcome' = "none"
    /\ discarded' = FALSE /\ cancelEvent' = FALSE
    /\ scanDialog' = TRUE
    /\ scans' = scans + 1
    /\ scanButton' = FALSE
    /\ UNCHANGED <<opVars, enabled, errorBoxes, registry, closing, closed>>

(* Mutant: only the scan thread is asked for, not the button. *)
StartScanAnyway == WindowReachable /\ BeginScan /\ UNCHANGED autoPending
StartScan == /\ WindowReachable
             /\ scanButton
             /\ BeginScan
             /\ UNCHANGED autoPending

(* The launch timer: it scans when nothing was scanned and nothing scans. *)
AutoScan == /\ autoPending /\ ~closed
            /\ scan = "none" /\ registry = 0
            /\ autoPending' = FALSE
            /\ BeginScan

AutoScanSkipped == /\ autoPending /\ ~closed
                   /\ scan # "none" \/ registry # 0
                   /\ autoPending' = FALSE
                   /\ UNCHANGED <<scan, scanOutcome, discarded, cancelEvent, scanDialog, scans,
                                  opVars, uiVars, registry, closing, closed>>

(* _discard_scan does nothing without a scan thread. Mutant: it only asks  *)
(* the scanner to stop.                                                    *)
OnlyCancel == cancelEvent' = (cancelEvent \/ scan # "none") /\ UNCHANGED discarded
DiscardScan == IF scan = "none"
               THEN UNCHANGED <<discarded, cancelEvent>>
               ELSE discarded' = TRUE /\ cancelEvent' = TRUE

(* "Cancel Scan", in the dialog or, once that is hidden, in Settings. *)
CancelScan ==
    /\ scan # "none" /\ ~discarded
    /\ errorBoxes = 0
    /\ scanDialog \/ WindowReachable
    /\ DiscardScan
    /\ scanDialog' = FALSE
    /\ UNCHANGED <<scan, scanOutcome, scans, autoPending, opVars, uiVars, registry, closing, closed>>

Request(o, c) ==
    /\ WindowReachable
    /\ enabled[c]
    /\ c \in Standalone \/ registry # 0
    /\ c \in Checked => ~RegistryWriteInProgress
    /\ Run(o, c)
    /\ UNCHANGED <<scanVars, errorBoxes, registry, closing, closed>>

(* dropEvent, when it merges at once instead of asking for a rescan.       *)
DropMods(o) ==
    /\ WindowReachable
    /\ registry # 0
    /\ scan = "none" /\ scanButton
    /\ LiveOps = {}
    /\ Run(o, ScanButton)
    /\ UNCHANGED <<scanVars, errorBoxes, registry, closing, closed>>

(* "Stop Waiting": _discard_operation_result, and Qt hides the dialog. *)
StopWaiting(o) ==
    /\ op[o].dialog
    /\ errorBoxes = 0
    /\ DropResult(o)
    /\ op' = [op EXCEPT ![o] = [@ EXCEPT !.dialog = FALSE, !.stopped = TRUE]]
    /\ UNCHANGED <<scanVars, uiVars, registry, closing, closed>>

DismissError == /\ errorBoxes > 0
                /\ errorBoxes' = errorBoxes - 1
                /\ UNCHANGED <<scanVars, opVars, scanButton, enabled, registry, closing, closed>>

(* closeEvent: with live threads the close is only noted, and the first    *)
(* such request cancels the scan.                                          *)
RequestClose ==
    /\ WindowReachable
    /\ IF scan # "none" \/ LiveOps # {}
         THEN /\ ~closing
              /\ closing' = TRUE
              /\ DiscardScan
              /\ UNCHANGED closed
         ELSE /\ closed' = TRUE
              /\ UNCHANGED <<closing, discarded, cancelEvent>>
    /\ UNCHANGED <<scan, scanOutcome, scanDialog, scans, autoPending, opVars, uiVars, registry>>

-------------------------------------------------------------------------------
(* Worker threads *)

(* Once every source is parsed the progress value reaches its maximum and  *)
(* Qt resets and hides the scan dialog, though the scan goes on.           *)
ScanProgressed ==
    /\ scan = "working" /\ scanDialog /\ ~discarded
    /\ scanDialog' = FALSE
    /\ UNCHANGED <<scan, scanOutcome, discarded, cancelEvent, scans, autoPending,
                   opVars, uiVars, registry, closing, closed>>

(* ScanWorker.run emits one terminal signal. A cancel that arrives after   *)
(* the scanner's last check does not stop it.                              *)
ScanWorkerEnds(outcome) ==
    /\ scan = "working"
    /\ outcome = "cancelled" => cancelEvent
    /\ scan' = "posted" /\ scanOutcome' = outcome
    /\ UNCHANGED <<discarded, cancelEvent, scanDialog, scans, autoPending,
                   opVars, uiVars, registry, closing, closed>>

(* An operation reads self._registry whenever its lambda gets to it; the   *)
(* merge works on the result captured when it was requested.               *)
ReadRegistry(o) ==
    /\ op[o].st = "running"
    /\ op[o].control \in Secondary
    /\ registry # op[o].base /\ ~op[o].moved
    /\ op' = [op EXCEPT ![o].moved = TRUE]
    /\ UNCHANGED <<scanVars, token, uiVars, registry, closing, closed>>

OpWorkerEnds(o, outcome) ==
    /\ op[o].st = "running"
    /\ op' = [op EXCEPT ![o] = [@ EXCEPT !.st = "posted", !.outcome = outcome]]
    /\ UNCHANGED <<scanVars, token, uiVars, registry, closing, closed>>

-------------------------------------------------------------------------------
(* Slots on the GUI thread *)

(* _scan_complete, _operation_failed, or nothing for `cancelled`. *)
ScanDelivered ==
    /\ scan = "posted" /\ ~closed
    /\ scan' = "delivered"
    /\ IF scanOutcome = "ok" /\ ~discarded
         THEN registry' = registry + 1 /\ PopulateSecondary
         ELSE UNCHANGED <<registry, enabled>>
    /\ errorBoxes' = IF scanOutcome = "failed" THEN errorBoxes + 1 ELSE errorBoxes
    /\ scanOutcome' = "none"
    /\ UNCHANGED <<discarded, cancelEvent, scanDialog, scans, autoPending,
                   opVars, scanButton, closing, closed>>

(* _scan_finished. Closing its dialog emits `canceled` once more, but      *)
(* _scan_thread is None by then and _discard_scan returns at once.         *)
(* Mutant: only an adopted scan gives the button back.                     *)
ScanFinishedAdopted ==
    /\ scan = "delivered" /\ ~closed
    /\ scan' = "none"
    /\ scanButton' = ~discarded
    /\ scanDialog' = FALSE
    /\ MaybeClose("none", op)
    /\ UNCHANGED <<scanOutcome, discarded, cancelEvent, scans, autoPending,
                   opVars, enabled, errorBoxes, registry, closing>>
ScanFinished ==
    /\ scan = "delivered" /\ ~closed
    /\ scan' = "none"
    /\ scanButton' = TRUE
    /\ scanDialog' = FALSE
    /\ MaybeClose("none", op)
    /\ UNCHANGED <<scanOutcome, discarded, cancelEvent, scans, autoPending,
                   opVars, enabled, errorBoxes, registry, closing>>

(* _complete_operation is gated by the token; _operation_failed is not. *)
OpDelivered(o) ==
    LET c == op[o].control
        current == token[c] = op[o].token
        adopted == op[o].outcome = "ok" /\ current
        failed == op[o].outcome = "failed"
    IN  /\ op[o].st = "posted" /\ ~closed
        /\ op' = [op EXCEPT ![o] = [@ EXCEPT !.st = "delivered", !.outcome = "none",
                                             !.shown = adopted, !.boxed = failed]]
        /\ IF adopted /\ c = ScanButton
             THEN registry' = registry + 1 /\ PopulateSecondary
             ELSE UNCHANGED <<registry, enabled>>
        /\ errorBoxes' = IF failed THEN errorBoxes + 1 ELSE errorBoxes
        /\ UNCHANGED <<scanVars, token, scanButton, closing, closed>>

(* _finish_thread. Closing the progress dialog of a cancellable operation  *)
(* emits `canceled`, so _discard_operation_result runs here as well.       *)
OpFinished(o) ==
    LET opAfter == [op EXCEPT ![o] = [@ EXCEPT !.st = "done", !.dialog = FALSE]]
    IN  /\ op[o].st = "delivered" /\ ~closed
        /\ op' = opAfter
        /\ IF op[o].control \in Cancellable THEN DropResult(o) ELSE UNCHANGED token
        /\ Reenable(o)
        /\ MaybeClose(scan, opAfter)
        /\ UNCHANGED <<scanVars, errorBoxes, registry, closing>>

-------------------------------------------------------------------------------
ScanWorker == \E outcome \in {"ok", "failed", "cancelled"} : ScanWorkerEnds(outcome)
OpWorker(o) == \E outcome \in {"ok", "failed"} : OpWorkerEnds(o, outcome)

UserStep ==
    \/ StartScan \/ CancelScan \/ DismissError \/ RequestClose
    \/ \E o \in Ops : DropMods(o) \/ StopWaiting(o) \/ (\E c \in Controls : Request(o, c))

TimerStep  == AutoScan \/ AutoScanSkipped
ScanStep   == ScanProgressed \/ ScanWorker \/ ScanDelivered \/ ScanFinished
OpStep(o)  == ReadRegistry(o) \/ OpWorker(o) \/ OpDelivered(o) \/ OpFinished(o)

Next == UserStep \/ TimerStep \/ ScanStep \/ \E o \in Ops : OpStep(o)

Spec == Init /\ [][Next]_vars

(* Worker threads end and the event loop delivers what they posted. The    *)
(* user is never obliged to act.                                           *)
Fairness == /\ WF_vars(ScanWorker) /\ WF_vars(ScanDelivered) /\ WF_vars(ScanFinished)
            /\ \A o \in Ops : /\ WF_vars(OpWorker(o))
                              /\ WF_vars(OpDelivered(o))
                              /\ WF_vars(OpFinished(o))

FairSpec == Spec /\ Fairness

-------------------------------------------------------------------------------
(* Safety *)

WriterInFlight == scan # "none" \/ Merges # {}

(* scan_button doubles as the lock of the registry: it is enabled exactly  *)
(* when neither a scan nor a merge is in flight, although the scan, the    *)
(* merge and _finish_thread each switch it on their own                    *)
(* (_registry_write_in_progress, main_window.py:402).                      *)
ScanButtonIsWriterLock == scanButton <=> ~WriterInFlight

(* A scan and a merge are never in flight together, nor are two merges:    *)
(* the later to finish would overwrite what the other adopted.             *)
SingleWriter == /\ scan # "none" => Merges = {}
                /\ \A o, p \in Merges : o = p

(* An undelivered merge was computed from the result it is about to        *)
(* replace (_incorporate_dropped_mods captures it at the request), so      *)
(* adopting it never undoes a scan that completed in between.              *)
MergeUpToDate ==
    \A o \in Merges : op[o].st \in {"running", "posted"} => op[o].base = registry

(* A merge never runs beside an operation that asked                       *)
(* _registry_write_in_progress: the handlers decline during a merge, and   *)
(* dropEvent declines to merge while anything is in flight.                *)
MergeExcludesCheckedReaders ==
    Merges # {} => \A o \in LiveOps : op[o].control \notin Checked

(* The inductive invariant behind the four properties above: a merge also  *)
(* needs a registry, else _finish_thread would leave scan_button disabled. *)
MergeNeedsRegistry == Merges # {} => registry # 0

WriterInv == /\ ScanButtonIsWriterLock
             /\ SingleWriter
             /\ MergeNeedsRegistry
             /\ MergeUpToDate
             /\ MergeExcludesCheckedReaders

(* A button of a loaded session that is disabled has its operation still   *)
(* in flight: no order of completions, discards and rescans leaves a       *)
(* control dead (_finish_thread, _populate_secondary).                     *)
ControlsRecover ==
    \A c \in Controls :
        (registry # 0 \/ c \in Standalone) /\ ~enabled[c]
            => \E o \in LiveOps : op[o].control = c

(* The window never goes away under a live QThread (closeEvent).           *)
CloseWaitsForThreads == closed => scan = "none" /\ LiveOps = {}

Superseded(o) == \E p \in Ops : /\ op[p].st # "idle"
                                /\ op[p].control = op[o].control
                                /\ op[p].seq > op[o].seq

(* A result reaches the window exactly when it answers the latest request  *)
(* of its button and the user has not stopped waiting for it: the token    *)
(* bumps of _run, of "Stop Waiting" and of the dialog that closes itself   *)
(* neither let a stale result through nor swallow an awaited one.          *)
ShownExactlyWhenAwaited ==
    [][\A o \in Ops :
         op[o].st = "posted" /\ op'[o].st = "delivered" /\ op[o].outcome = "ok"
            => (op'[o].shown <=> ~op[o].stopped /\ ~Superseded(o))]_vars

(* The invariant behind it: a token is current as long as its result is    *)
(* awaited, because requests are numbered as their tokens are and no two   *)
(* requests of one button share a token.                                   *)
Requests == {o \in Ops : op[o].st # "idle"}
IdleIsUntouched == \A o \in Ops \ Requests : ~op[o].stopped /\ ~op[o].dialog
NumberedInOrder == \A o \in Requests : /\ op[o].seq < Cardinality(Requests)
                                      /\ op[o].token <= token[op[o].control]
TokensDiffer    == \A o, p \in Requests :
                       o # p /\ op[o].control = op[p].control => op[o].token # op[p].token
CurrentIsAwaited ==
    \A o \in Ops : op[o].st \in {"running", "posted"} =>
        (token[op[o].control] = op[o].token <=> ~op[o].stopped /\ ~Superseded(o))
AwaitInv == IdleIsUntouched /\ NumberedInOrder /\ TokensDiffer /\ CurrentIsAwaited

(* A completed scan is adopted unless this very scan was cancelled: the    *)
(* flag of an earlier cancelled scan is not carried over, and a late       *)
(* result of a cancelled one is dropped (_discard_scan, _scan_complete).   *)
ScanAdoptedUnlessCancelled ==
    [][scan = "posted" /\ scan' = "delivered"
          => (registry' # registry <=> scanOutcome = "ok" /\ ~cancelEvent)]_vars

(* "Backend tasks are immutable snapshots" (main_window.py:353): what an   *)
(* operation shows was computed from the registry it was requested on.     *)
TaskIsSnapshot == \A o \in Ops : op[o].shown => ~op[o].moved

(* "A user who stopped waiting for an operation also opted out of its      *)
(* eventual error dialog" (main_window.py:389).                            *)
StoppedWaitingNoErrorBox == \A o \in Ops : op[o].stopped => ~op[o].boxed

(* The session replaces its registry as SessionRegistry promises: a writer *)
(* is at work from its request until its result is adopted or dropped.     *)
PendingMerges == {o \in Merges : op[o].st \in {"running", "posted"}}

WriterAtWork == IF scan \in {"working", "posted"} THEN "scan"
                ELSE IF PendingMerges # {} THEN "merge" ELSE None

Registry == INSTANCE SessionRegistry WITH version <- registry, writer <- WriterAtWork

ImplementsRegistry == Registry!RegSpec

-------------------------------------------------------------------------------
(* Liveness *)

(* A started scan ends and gives scan_button back, cancelled, failed or    *)
(* not, and whatever dialogs are open meanwhile.                           *)
ScanEnds == scan # "none" ~> scanButton

(* A close the user asked for while threads were live is carried out by    *)
(* whichever thread ends last, without a second request.                   *)
CloseCompletes == closing ~> closed

===============================================================================
