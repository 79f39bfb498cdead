----------------------------- MODULE SaveWorkshop -----------------------------
(***************************************************************************)
(* The save workshop tab (gui/save_workshop.py) over the operation threads *)
(* of MainWindow._run: choose a save and have it inspected, enter values,  *)
(* have an edit plan reviewed, write it as a copy.  A plan stays in force  *)
(* until anything it depends on is changed, and only a plan in force can   *)
(* be written.  Inspections and reviews hold the user up with a modal      *)
(* "Stop Waiting" dialog; a write does not, so that the user goes on while *)
(* it runs.                                                                *)
(***************************************************************************)
EXTENDS Naturals

CONSTANTS
    Tasks,       \* operation threads (bounds those that live at once)
    Saves,       \* the directories that can be chosen
    Requests,    \* what can be entered as the new values
    MaxRuns,     \* bound on the operations started
    MaxChanges,  \* bound on the changes that put a plan out of force
    None         \* no save, no table, nothing entered, no plan

ASSUME WorkshopAssumption ==
    /\ MaxRuns \in Nat /\ MaxChanges \in Nat
    /\ None \notin Saves \cup Requests

Buttons     == {"choose", "review", "write"}
Cancellable == {"choose", "review"}

\* A reviewed plan; it is writable when every change is ACCEPTED.
ReviewedPlan == [save : Saves, request : Requests, opted : BOOLEAN, writable : BOOLEAN]
\* What the "Plan and verify" tab shows.
View  == [kind : {"notice"}] \cup [kind : {"plan"}, plan : ReviewedPlan] \cup [kind : {"report"}, seq : Nat]
Task  == [st : {"idle", "running", "posted", "delivered"}, button : Buttons, token : Nat, epoch : Nat,
          plan : ReviewedPlan \cup {None},           \* what is reviewed (writable unknown) or written
          outcome : {"none", "good", "bad", "failed"},
          dialog : BOOLEAN,                  \* its "Stop Waiting" dialog is visible
          seq : Nat]                         \* history: operations begun before it

VARIABLES
    selected,   \* selected_save
    table,      \* the save whose resources the table lists
    typed,      \* the new values entered there
    opted,      \* allow_capacity.isChecked()
    inForce,    \* _current_plan
    epoch,      \* _epoch
    view,
    enabled,    \* isEnabled() of the buttons
    output,     \* is an output directory set?
    task, token, errorBoxes,
    runs, lastWrite    \* operations begun, and the last write of them (bound, history)

screen  == <<selected, table, typed, opted>>
threads == <<task, token, errorBoxes, runs, lastWrite>>
tabVars    == <<screen, inForce, epoch, view, enabled, output, threads>>

Notice == [kind |-> "notice"]
Live   == {t \in Tasks : task[t].st # "idle"}

TabInit ==
    /\ selected = None /\ table = None /\ typed = None /\ opted = FALSE
    /\ inForce = None /\ epoch = 0 /\ view = Notice
    /\ enabled = [b \in Buttons |-> b = "choose"]
    /\ output \in BOOLEAN
    /\ task = [t \in Tasks |-> [st |-> "idle", button |-> "choose", token |-> 0, epoch |-> 0, plan |-> None,
                                outcome |-> "none", dialog |-> FALSE, seq |-> 0]]
    /\ token = [b \in Buttons |-> 0]
    /\ errorBoxes = 0 /\ runs = 0 /\ lastWrite = 0

------------------------------------------------------------------------------
\* A visible modal dialog or an error box keeps the user from the tab.
Reachable == errorBoxes = 0 /\ \A t \in Tasks : ~task[t].dialog

\* _writable_plan and _refresh_write_button, for the plan p.
Writable(p) == p # None /\ p.writable /\ output

\* A bug: the plan is marked as not current but stays in force.
InvalidateView(on) ==
    /\ epoch' = epoch + 1 /\ epoch < MaxChanges
    /\ view' = Notice
    /\ enabled' = [on EXCEPT !["write"] = Writable(inForce)]
    /\ UNCHANGED inForce

\* _invalidate_plan, with the other buttons as in on.
Invalidate(on) ==
    /\ epoch' = epoch + 1 /\ epoch < MaxChanges
    /\ inForce' = None
    /\ view' = Notice
    /\ enabled' = [on EXCEPT !["write"] = FALSE]

\* A bug: a write can be stopped waiting for, like everything else.
RunCancellable(t, b, e, p) ==
    /\ task[t].st = "idle" /\ runs < MaxRuns
    /\ runs' = runs + 1
    /\ token' = [token EXCEPT ![b] = @ + 1]
    /\ task' = [task EXCEPT ![t] = [st |-> "running", button |-> b, token |-> token[b] + 1, epoch |-> e, plan |-> p,
                                    outcome |-> "none", dialog |-> TRUE, seq |-> runs + 1]]
    /\ lastWrite' = IF b = "write" THEN runs + 1 ELSE lastWrite
    /\ UNCHANGED errorBoxes

\* MainWindow._run under button b, which it disables.
Run(t, b, e, p) ==
    /\ task[t].st = "idle" /\ runs < MaxRuns
    /\ runs' = runs + 1
    /\ token' = [token EXCEPT ![b] = @ + 1]
    /\ task' = [task EXCEPT ![t] = [st |-> "running", button |-> b, token |-> token[b] + 1, epoch |-> e, plan |-> p,
                                    outcome |-> "none", dialog |-> b \in Cancellable, seq |-> runs + 1]]
    /\ lastWrite' = IF b = "write" THEN runs + 1 ELSE lastWrite
    /\ UNCHANGED errorBoxes

------------------------------------------------------------------------------
(* The user.                                                               *)

ChooseSave(t, s) ==
    /\ Reachable /\ enabled["choose"]
    /\ selected' = s /\ table' = None /\ typed' = None
    /\ Invalidate([enabled EXCEPT !["choose"] = FALSE, !["review"] = FALSE])
    /\ Run(t, "choose", epoch + 1, None)
    /\ UNCHANGED <<opted, output>>

EnterValues(r) ==
    /\ Reachable /\ table # None
    /\ typed' = r
    /\ Invalidate(enabled)
    /\ UNCHANGED <<selected, table, opted, output, threads>>

ToggleCapacity ==
    /\ Reachable
    /\ opted' = ~opted
    /\ Invalidate(enabled)
    /\ UNCHANGED <<selected, table, typed, output, threads>>

\* Switching the workshop off and on again.
HideWorkshop ==
    /\ Reachable
    /\ Invalidate(enabled)
    /\ UNCHANGED <<screen, output, threads>>

\* The directory is a field of another tab: nothing here hears of it.
SetOutput ==
    /\ Reachable
    /\ output' = ~output
    /\ UNCHANGED <<screen, inForce, epoch, view, enabled, threads>>

Review(t) ==
    /\ Reachable /\ enabled["review"]
    /\ selected # None /\ typed \in Requests
    /\ Run(t, "review", epoch, [save |-> selected, request |-> typed, opted |-> opted, writable |-> FALSE])
    /\ enabled' = [enabled EXCEPT !["review"] = FALSE]
    /\ UNCHANGED <<screen, inForce, epoch, view, output>>

\* No save, or nothing entered that can be planned.
ReviewDeclined ==
    /\ Reachable /\ enabled["review"]
    /\ selected = None \/ typed \notin Requests
    /\ view' = Notice
    /\ UNCHANGED <<screen, inForce, epoch, enabled, output, threads>>

WriteCopy(t) ==
    /\ Reachable /\ enabled["write"]
    /\ Writable(inForce)
    /\ Run(t, "write", epoch, inForce)
    /\ enabled' = [enabled EXCEPT !["write"] = FALSE]
    /\ UNCHANGED <<screen, inForce, epoch, view, output>>

WriteDeclined ==
    /\ Reachable /\ enabled["write"]
    /\ ~Writable(inForce)
    /\ view' = Notice
    /\ UNCHANGED <<screen, inForce, epoch, enabled, output, threads>>

\* _discard_operation_result: the result is no longer awaited.
Dropped(t) == [token EXCEPT ![task[t].button] = IF @ = task[t].token THEN @ + 1 ELSE @]

StopWaiting(t) ==
    /\ errorBoxes = 0 /\ task[t].dialog
    /\ token' = Dropped(t)
    /\ task' = [task EXCEPT ![t].dialog = FALSE]
    /\ UNCHANGED <<screen, inForce, epoch, view, enabled, output, errorBoxes, runs, lastWrite>>

DismissError ==
    /\ errorBoxes > 0
    /\ errorBoxes' = errorBoxes - 1
    /\ UNCHANGED <<screen, inForce, epoch, view, enabled, output, task, token, runs, lastWrite>>

------------------------------------------------------------------------------
(* The threads.                                                            *)

\* SaveWorker.run.  Good is a readable save with resources, a plan of which
\* every change is accepted, a copy that is WRITTEN.
WorkerEnds(t) ==
    /\ task[t].st = "running"
    /\ \E o \in {"good", "bad", "failed"} : task' = [task EXCEPT ![t].st = "posted", ![t].outcome = o]
    /\ UNCHANGED <<screen, inForce, epoch, view, enabled, output, token, errorBoxes, runs, lastWrite>>

Awaited(t) == token[task[t].button] = task[t].token

ShowInspection(t) ==
    /\ table' = IF task[t].outcome = "good" THEN selected ELSE None
    /\ typed' = None
    /\ enabled' = [enabled EXCEPT !["review"] = task[t].outcome = "good"]
    /\ UNCHANGED <<selected, opted, inForce, view>>

ShowPlan(t) ==
    LET p == [task[t].plan EXCEPT !.writable = task[t].outcome = "good"] IN
    /\ inForce' = p
    /\ view' = [kind |-> "plan", plan |-> p]
    /\ enabled' = [enabled EXCEPT !["write"] = Writable(p)]
    /\ UNCHANGED screen

\* Whatever plan is in force, not only the one that was written.
ShowReport(t) ==
    /\ inForce' = None
    /\ view' = [kind |-> "report", seq |-> task[t].seq]
    /\ enabled' = [enabled EXCEPT !["write"] = FALSE]
    /\ UNCHANGED screen

\* _complete_operation and the completions; those of an inspection and of a
\* review look at the epoch as well.
Delivered(t) ==
    /\ task[t].st = "posted" /\ task[t].outcome # "failed"
    /\ task' = [task EXCEPT ![t].st = "delivered"]
    /\ \/ ~Awaited(t)                                                       /\ UNCHANGED <<screen, inForce, view, enabled>>
       \/ Awaited(t) /\ task[t].button = "write"                             /\ ShowReport(t)
       \/ Awaited(t) /\ task[t].button # "write" /\ task[t].epoch # epoch    /\ UNCHANGED <<screen, inForce, view, enabled>>
       \/ Awaited(t) /\ task[t].button = "choose" /\ task[t].epoch = epoch   /\ ShowInspection(t)
       \/ Awaited(t) /\ task[t].button = "review" /\ task[t].epoch = epoch   /\ ShowPlan(t)
    /\ UNCHANGED <<epoch, output, token, errorBoxes, runs, lastWrite>>

\* _operation_failed, awaited or not.
Failed(t) ==
    /\ task[t].st = "posted" /\ task[t].outcome = "failed"
    /\ task' = [task EXCEPT ![t].st = "delivered"]
    /\ errorBoxes' = errorBoxes + 1
    /\ UNCHANGED <<screen, inForce, epoch, view, enabled, output, token, runs, lastWrite>>

\* _finish_thread: the dialog closes, which drops the result once more, and
\* the button is enabled, but for the write button, which never is here.
Finished(t) ==
    /\ task[t].st = "delivered"
    /\ task' = [task EXCEPT ![t].st = "idle", ![t].dialog = FALSE]
    /\ token' = IF task[t].button \in Cancellable THEN Dropped(t) ELSE token
    /\ enabled' = [enabled EXCEPT ![task[t].button] = task[t].button # "write"]
    /\ UNCHANGED <<screen, inForce, epoch, view, output, errorBoxes, runs, lastWrite>>

------------------------------------------------------------------------------
User(t) == \/ \E s \in Saves : ChooseSave(t, s)
           \/ Review(t) \/ WriteCopy(t) \/ StopWaiting(t)
Thread(t) == WorkerEnds(t) \/ Delivered(t) \/ Failed(t) \/ Finished(t)

TabNext ==
    \/ \E t \in Tasks : User(t) \/ Thread(t)
    \/ \E r \in Requests \cup {None} : EnterValues(r)
    \/ ToggleCapacity \/ HideWorkshop \/ SetOutput \/ ReviewDeclined \/ WriteDeclined \/ DismissError

TabSpec == TabInit /\ [][TabNext]_tabVars

------------------------------------------------------------------------------
(* Properties.                                                             *)

TabTypeOK ==
    /\ selected \in Saves \cup {None} /\ table \in Saves \cup {None}
    /\ typed \in Requests \cup {None} /\ opted \in BOOLEAN
    /\ inForce \in ReviewedPlan \cup {None} /\ epoch \in Nat /\ view \in View
    /\ enabled \in [Buttons -> BOOLEAN] /\ output \in BOOLEAN
    /\ task \in [Tasks -> Task] /\ token \in [Buttons -> Nat]
    /\ errorBoxes \in Nat /\ runs \in Nat /\ lastWrite \in Nat

\* The plan in force is of the save, the values and the opt-in on the screen,
\* whatever was stopped, answered late or changed meanwhile; a plan that is
\* shown is the plan in force, the write button is enabled only over one, and
\* the table is the chosen save's: the user never looks at one thing and
\* writes another.
PlanIsOfScreen ==
    /\ inForce # None => inForce.save = selected /\ inForce.request = typed /\ inForce.opted = opted
    /\ view.kind = "plan" => inForce = view.plan
    /\ enabled["write"] => inForce # None /\ inForce.writable
    /\ table # None => table = selected

\* The result of a write reaches the user exactly when no other write was
\* begun before it was delivered.
ReportedUnlessWritingAgain ==
    [][\A t \in Tasks :
         task[t].button = "write" /\ task[t].st = "posted" /\ task[t].outcome # "failed" /\ task'[t].st = "delivered"
            => (view' = [kind |-> "report", seq |-> task[t].seq] <=> task[t].seq = lastWrite)]_tabVars

\* The invariant behind PlanIsOfScreen.  A result of an inspection or a review
\* that is still awaited has its dialog on the screen, there is one dialog at
\* most, and under a dialog the user changes nothing: so what comes back is of
\* the screen that asked for it, whatever the epoch says.
Asked(t) == task[t].st \in {"running", "posted"}
AwaitedHasDialog == \A t \in Tasks : Asked(t) /\ task[t].button \in Cancellable /\ Awaited(t) => task[t].dialog
OneDialog ==
    /\ \A t, u \in Tasks : task[t].dialog /\ task[u].dialog => t = u
    /\ \A t \in Tasks : task[t].dialog => task[t].st # "idle" /\ task[t].button \in Cancellable
DialogIsOfScreen ==
    \A t \in Tasks : Asked(t) /\ task[t].dialog =>
        IF task[t].button = "choose" THEN inForce = None
        ELSE /\ task[t].plan.save = selected /\ task[t].plan.request = typed /\ task[t].plan.opted = opted
TokensDiffer ==
    /\ \A t \in Live : task[t].token <= token[task[t].button]
    /\ \A t, u \in Live : t # u /\ task[t].button = task[u].button => task[t].token # task[u].token
ReviewsHavePlans == \A t \in Live : task[t].button = "review" => task[t].plan \in ReviewedPlan
TabInv == TabTypeOK /\ ReviewsHavePlans /\ TokensDiffer /\ OneDialog /\ AwaitedHasDialog /\ DialogIsOfScreen /\ PlanIsOfScreen

\* The one behind ReportedUnlessWritingAgain: nothing drops the result of a
\* write but a later write.
NumbersDiffer ==
    /\ lastWrite <= runs
    /\ \A t \in Live : task[t].seq <= runs
    /\ \A t, u \in Live : t # u => task[t].seq # task[u].seq
LastIsAwaited  == \A t \in Live : task[t].button = "write" => (Awaited(t) <=> task[t].seq = lastWrite)
ReportIsOver == view.kind = "report" => view.seq <= runs /\ \A t \in Tasks : Asked(t) => task[t].seq # view.seq
WriteInv == NumbersDiffer /\ LastIsAwaited /\ ReportIsOver
===============================================================================
