---------------------------- MODULE RetrofitLibrary ----------------------------
(***************************************************************************)
(* The local library of editable retrofits (output/retrofit_library.py)    *)
(* and the compatibility mod it is published to.  The GUI thread saves,    *)
(* copies, restores and publishes, one operation at a time, asking before  *)
(* it replaces; a worker thread of _run populates the library with         *)
(* generated fits (output/writer.py).  Each file is replaced atomically,   *)
(* but an operation is several steps, and the other thread, a failure or   *)
(* a crash may come between any two.                                       *)
(***************************************************************************)
EXTENDS Naturals

CONSTANTS
    Ids,          \* variant ids
    UserIds,      \* the ids the user saves and copies under
    PopulateIds,  \* the ids of the generated starter fits
    Texts,        \* what a variant file may hold
    Generated,    \* the text populate generates for each of PopulateIds
    Nothing       \* no file

ASSUME LibraryAssumption ==
    /\ UserIds \subseteq Ids /\ PopulateIds \subseteq Ids
    /\ Generated \in [PopulateIds -> Texts]
    /\ Nothing \notin Texts

VARIABLES
    file,        \* editable_retrofits/<id>.variant
    history,     \* editable_retrofits/.history/<id>/, by content
    published,   \* the compatibility mod's data/variants/<id>.variant
    oldPublished,\* its .history
    modInfo,     \* its mod_info.json: "none", "ours" or "foreign"
    gui,         \* the operation the GUI thread is in
    populate,    \* where the populate worker is
    todo,        \* the fits it has yet to write
    raced,       \* (history) the threads whose file the other wrote since they looked at it
    claimed      \* ids whose publication was reported as done (history)

libraryVars == <<file, history>>
modVars     == <<published, oldPublished, modInfo>>
vars        == <<libraryVars, modVars, gui, populate, todo, raced, claimed>>

GuiOps   == {"none", "save", "copy", "restore", "publish"}
GuiSteps == {"idle", "check", "ask", "backup", "preserve", "write", "modinfo"}
Gui == [op : GuiOps, at : GuiSteps, id : Ids, text : Texts \cup {Nothing},
        kept : Texts \cup {Nothing}, replace : BOOLEAN]
Populate == [at : {"idle", "choosing", "writing"}, id : Ids]

Init ==
    /\ file = [v \in Ids |-> Nothing]
    /\ history = [v \in Ids |-> {}]
    /\ published = [v \in Ids |-> Nothing]
    /\ oldPublished = [v \in Ids |-> {}]
    /\ modInfo \in {"none", "foreign"}
    /\ gui \in {g \in Gui : g.op = "none" /\ g.at = "idle" /\ g.text = Nothing
                              /\ g.kept = Nothing /\ ~g.replace}
    /\ populate \in {p \in Populate : p.at = "idle"}
    /\ todo = {}
    /\ raced = {}
    /\ claimed = {}

------------------------------------------------------------------------------
(* The GUI thread.  Every operation starts when none is under way.         *)

Start(op, at, v, t) ==
    /\ gui.at = "idle"
    /\ gui' = [op |-> op, at |-> at, id |-> v, text |-> t, kept |-> Nothing, replace |-> FALSE]
    /\ UNCHANGED <<libraryVars, modVars, populate, todo, raced, claimed>>

\* Save the fit on the canvas, or copy a scanned variant, under an id.  Copy
\* looks for the target itself and asks first; save is told by an exception.
StartSave == \E v \in UserIds, t \in Texts : Start("save", "check", v, t)
StartCopy == \E v \in UserIds, t \in Texts :
                Start("copy", IF file[v] # Nothing THEN "ask" ELSE "check", v, t)

\* Restore a version the user picked from the history, after confirming.
StartRestore == \E v \in Ids : \E t \in history[v] : Start("restore", "backup", v, t)

\* Publish a selected local copy: it is loaded and read first.
StartPublish == \E v \in Ids : file[v] # Nothing /\ Start("publish", "check", v, file[v])

Goto(at) ==
    /\ gui' = [gui EXCEPT !.at = at]
    /\ UNCHANGED <<libraryVars, modVars, populate, todo, raced, claimed>>

\* The operation is over, and what it knew is gone.
Rested == [gui EXCEPT !.op = "none", !.at = "idle", !.text = Nothing, !.kept = Nothing, !.replace = FALSE]
Rests == gui' = Rested /\ raced' = raced \ {"gui"}
Stop  == Rests /\ UNCHANGED <<libraryVars, modVars, populate, todo, claimed>>

\* The file the operation would replace, and its history.
Target == IF gui.op = "publish" THEN published[gui.id] ELSE file[gui.id]

\* save_editable_variant and publish_editable_retrofit raise FileExistsError,
\* whose handler asks; copy_existing_retrofit just returns.
Check ==
    /\ gui.at = "check"
    /\ gui.op = "publish" => Target # gui.text
    /\ \/ ~gui.replace /\ Target # Nothing /\ (IF gui.op = "copy" THEN Stop ELSE Goto("ask"))
       \/ ~gui.replace /\ Target = Nothing /\ Goto("write")
       \/ gui.replace /\ Goto("backup")

\* The published file already has these contents: done, says publish.
AlreadyPublished ==
    /\ gui.at = "check" /\ gui.op = "publish" /\ Target = gui.text
    /\ Rests
    /\ claimed' = claimed \cup {gui.id}
    /\ UNCHANGED <<libraryVars, modVars, populate, todo>>

AnswerYes == /\ gui.at = "ask"
             /\ gui' = [gui EXCEPT !.at = "check", !.replace = TRUE]
             /\ UNCHANGED <<libraryVars, modVars, populate, todo, raced, claimed>>

AnswerNo == gui.at = "ask" /\ Stop

\* _backup_local_copy reads the target, if there is one, and then writes what
\* it read under its digest.
Backup ==
    /\ gui.at = "backup"
    /\ gui' = [gui EXCEPT !.at = IF Target = Nothing THEN "write" ELSE "preserve",
                          !.kept = Target]
    /\ UNCHANGED <<libraryVars, modVars, populate, todo, raced, claimed>>

\* A bug: the new text is preserved, not the old one.
PreserveNew ==
    /\ gui.at = "preserve"
    /\ gui' = [gui EXCEPT !.at = "write"]
    /\ IF gui.op = "publish"
       THEN /\ oldPublished' = [oldPublished EXCEPT ![gui.id] = @ \cup {gui.kept}]
            /\ UNCHANGED <<history, published, modInfo>>
       ELSE /\ history' = [history EXCEPT ![gui.id] = @ \cup {gui.text}]
            /\ UNCHANGED modVars
    /\ UNCHANGED <<file, populate, todo, raced, claimed>>

Preserve ==
    /\ gui.at = "preserve"
    /\ gui' = [gui EXCEPT !.at = "write"]
    /\ IF gui.op = "publish"
       THEN /\ oldPublished' = [oldPublished EXCEPT ![gui.id] = @ \cup {gui.kept}]
            /\ UNCHANGED <<history, published, modInfo>>
       ELSE /\ history' = [history EXCEPT ![gui.id] = @ \cup {gui.kept}]
            /\ UNCHANGED modVars
    /\ UNCHANGED <<file, populate, todo, raced, claimed>>

Write ==
    /\ gui.at = "write" /\ gui.op # "publish"
    /\ file' = [file EXCEPT ![gui.id] = gui.text]
    /\ gui' = Rested
    /\ raced' = IF populate.at = "writing" /\ populate.id = gui.id THEN {"worker"} ELSE raced \ {"gui"}
    /\ UNCHANGED <<history, modVars, populate, todo, claimed>>

WritePublished ==
    /\ gui.at = "write" /\ gui.op = "publish"
    /\ published' = [published EXCEPT ![gui.id] = gui.text]
    /\ gui' = [gui EXCEPT !.at = "modinfo"]
    /\ UNCHANGED <<libraryVars, oldPublished, modInfo, populate, todo, raced, claimed>>

\* The manifest is written last, and a foreign one is refused only then.
WriteModInfo ==
    /\ gui.at = "modinfo"
    /\ modInfo # "foreign"
    /\ modInfo' = "ours"
    /\ claimed' = claimed \cup {gui.id}
    /\ Rests
    /\ UNCHANGED <<libraryVars, published, oldPublished, populate, todo>>

\* An illegal fit, an unreadable source, a foreign manifest or a failing
\* write ends the operation where it is.
Fail ==
    /\ gui.at \in {"preserve", "write", "modinfo"}
    /\ Stop

------------------------------------------------------------------------------
(* The populate worker: populate_variations_if_missing, write_variant.     *)

\* It runs for a hull without scanned variants; one run at a time.
StartPopulate ==
    /\ populate.at = "idle"
    /\ populate' = [populate EXCEPT !.at = "choosing"]
    /\ todo' = PopulateIds
    /\ UNCHANGED <<libraryVars, modVars, gui, raced, claimed>>

\* The next profile's fit: skipped when it is illegal or already there,
\* written when no file is in the way.
PopulateSkips(v) ==
    /\ populate.at = "choosing" /\ v \in todo
    /\ todo' = todo \ {v}
    /\ UNCHANGED <<libraryVars, modVars, gui, populate, raced, claimed>>

\* A bug: whatever file is there is written over.
PopulateOverwrites(v) ==
    /\ populate.at = "choosing" /\ v \in todo
    /\ populate' = [at |-> "writing", id |-> v]
    /\ UNCHANGED <<libraryVars, modVars, gui, todo, raced, claimed>>

PopulateFinds(v) ==
    /\ populate.at = "choosing" /\ v \in todo
    /\ file[v] = Nothing
    /\ populate' = [at |-> "writing", id |-> v]
    /\ UNCHANGED <<libraryVars, modVars, gui, todo, raced, claimed>>

\* OutputCollisionError ends the run, as does a write that fails.
PopulateEnds ==
    /\ \/ populate.at = "choosing" /\ todo = {}
       \/ populate.at = "choosing" /\ \E v \in todo : file[v] \notin {Nothing, Generated[v]}
       \/ populate.at = "writing"
    /\ populate' = [populate EXCEPT !.at = "idle"]
    /\ todo' = {}
    /\ raced' = raced \ {"worker"}
    /\ UNCHANGED <<libraryVars, modVars, gui, claimed>>

PopulateWrites ==
    /\ populate.at = "writing"
    /\ file' = [file EXCEPT ![populate.id] = Generated[populate.id]]
    /\ populate' = [populate EXCEPT !.at = "choosing"]
    /\ todo' = todo \ {populate.id}
    /\ raced' = IF gui.at \in {"preserve", "write"} /\ gui.op # "publish" /\ gui.id = populate.id
                THEN {"gui"} ELSE raced \ {"worker"}
    /\ UNCHANGED <<history, modVars, gui, claimed>>

Crash ==
    /\ gui' = Rested
    /\ populate' = [populate EXCEPT !.at = "idle"]
    /\ todo' = {}
    /\ raced' = {}
    /\ UNCHANGED <<libraryVars, modVars, claimed>>

------------------------------------------------------------------------------
UserStarts == StartSave \/ StartCopy \/ StartRestore \/ StartPublish \/ AnswerYes \/ AnswerNo
GuiStep    == Check \/ AlreadyPublished \/ Backup \/ Preserve \/ Write \/ WritePublished
              \/ WriteModInfo \/ Fail
Worker     == \/ StartPopulate \/ PopulateEnds \/ PopulateWrites
              \/ \E v \in PopulateIds : PopulateSkips(v) \/ PopulateFinds(v)

Next == UserStarts \/ GuiStep \/ Worker \/ Crash

Spec == Init /\ [][Next]_vars

------------------------------------------------------------------------------
(* Properties.                                                             *)

TypeOK ==
    /\ file \in [Ids -> Texts \cup {Nothing}]
    /\ history \in [Ids -> SUBSET Texts]
    /\ published \in [Ids -> Texts \cup {Nothing}]
    /\ oldPublished \in [Ids -> SUBSET Texts]
    /\ modInfo \in {"none", "ours", "foreign"}
    /\ gui \in Gui
    /\ populate \in Populate
    /\ todo \subseteq PopulateIds
    /\ raced \subseteq {"gui", "worker"}
    /\ claimed \subseteq Ids

\* A write about to land on what the other thread wrote after this one looked: the user's
\* operation on a generated fit, which populate can make again, or the worker on what the user wrote.
GuiRaced ==
    "gui" \in raced /\ gui.op # "publish" /\ gui.id \in PopulateIds /\ file[gui.id] = Generated[gui.id]
RacedFor(v) ==
    \/ gui.at = "write" /\ gui.id = v /\ GuiRaced
    \/ populate.at = "writing" /\ populate.id = v /\ "worker" \in raced

\* Whatever is replaced, in the library or in the published mod, can be restored, also when the
\* operation fails half-way or the process dies: it is in the history before it is gone, or it was
\* written between the look and the write of the thread that replaces it, by the other.
NothingLost ==
    [][\A v \in Ids :
         /\ file[v] \notin {file'[v], Nothing} => file[v] \in history'[v] \/ RacedFor(v)
         /\ published[v] \notin {published'[v], Nothing} => published[v] \in oldPublished'[v]]_vars

\* retrofit_library.py:123 and the worker's own look: what is replaced without the user's consent is
\* only what the other thread wrote between a look that found no file and the write.  So a save that
\* was not confirmed replaces a generated fit and nothing else, and the worker only what the user
\* wrote while it was at that very fit.
OnlyConfirmedReplaces ==
    [][\A v \in Ids :
         \/ file[v] \in {file'[v], Nothing}
         \/ gui.at = "write" /\ gui.id = v /\ (gui.replace \/ gui.op = "restore")
         \/ RacedFor(v)]_vars

\* A publication that is reported as done leaves a mod the game can load:
\* the variant with the program's own manifest.
PublishedIsLoadable == claimed # {} => modInfo = "ours"

------------------------------------------------------------------------------
(* The inductive invariant of the two action properties.                   *)

\* There is a text to write to the history, and a fit for the worker to write.
Keeping == /\ gui.at = "preserve" => gui.kept # Nothing
           /\ populate.at = "writing" => populate.id \in PopulateIds

\* What is read for the history is what the target still holds, and it is in
\* the history when the target is about to be written, unless the worker came between.
TargetKept ==
    /\ gui.at = "preserve" => gui.kept = Target \/ GuiRaced
    /\ gui.at = "write" =>
         \/ Target = Nothing
         \/ Target \in IF gui.op = "publish" THEN oldPublished[gui.id] ELSE history[gui.id]
         \/ GuiRaced

\* An operation the user was not asked about found no file, and there is none but the worker's.
AskedOrAbsent ==
    /\ gui.at \in {"backup", "preserve"} => gui.replace \/ gui.op = "restore"
    /\ gui.at = "write" /\ gui.op # "publish" =>
         gui.replace \/ gui.op = "restore" \/ file[gui.id] = Nothing \/ GuiRaced

\* The worker found no file, and there is none but the user's.
WorkerFoundNone == populate.at = "writing" => file[populate.id] = Nothing \/ "worker" \in raced

TypeInv    == TypeOK /\ Keeping
LibraryInv == TypeInv /\ TargetKept /\ AskedOrAbsent /\ WorkerFoundNone
===============================================================================
