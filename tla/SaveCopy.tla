------------------------------- MODULE SaveCopy -------------------------------
(***************************************************************************)
(* Writing an edited copy of a save (campaign/writer.py) and verifying it  *)
(* (campaign/verify.py).  A plan remembers the hashes of the save's two    *)
(* known files and the value to write; a job writes the copy to a new      *)
(* directory named for the plan, file by file, verifies it, marks it with  *)
(* the expectation file and, from the desktop, verifies it once more; one  *)
(* that fails on the way is removed, file by file as well.  Meanwhile the  *)
(* game may rewrite the save, other jobs may write, reads, writes and      *)
(* removals may fail, and the process may die.                             *)
(***************************************************************************)
EXTENDS Naturals, Sequences

CONSTANTS
    Jobs,       \* the writes that are asked for
    Files,      \* the names in the save's folder, in order
    Versions,   \* what a file may hold; of campaign.xml, what surrounds the value
    Values,     \* what the planned value may be
    MaxEdits,   \* bound on the game's changes to the save
    Nothing,    \* no file, no directory
    Torn        \* a file that is begun, with a part of its text at most

FileNames == {Files[i] : i \in 1..Len(Files)}

\* campaign.xml is the bytes outside the planned span, and the value in it.
Campaign == [base : Versions, value : Values]
Content(f) == IF f = "campaign.xml" THEN Campaign ELSE Versions
Contents == Versions \cup Campaign

\* What a plan keeps: inspect_save's hashes and the new value.
Plan == [campaign : Campaign, descriptor : Versions, value : Values]

Reads == {"campaign.xml", "descriptor.xml"}   \* the files inspect_save hashes
MayHold(f) == Content(f) \cup (IF f \in Reads THEN {} ELSE {Nothing})   \* others come and go
Holds(folder, p) == folder["campaign.xml"] = p.campaign /\ folder["descriptor.xml"] = p.descriptor
Edited(c, p) == [c EXCEPT !.value = p.value]

VARIABLES
    save,      \* the original's files
    copies,    \* save_workshop/<name of the plan>/: its files, mark and maker
    plan,      \* each job's plan
    at,        \* where each job is
    next,      \* the file it comes to next
    entries,   \* the files it copies
    raw,       \* the campaign.xml it has read
    hashes,    \* file_hashes(source), as far as they are taken; Nothing of no file
    same,      \* has every file hashed again so far agreed?
    edits      \* changes the game has made (bound)

original == <<save, edits>>
vars == <<save, copies, plan, at, next, entries, raw, hashes, same, edits>>

\* The mark is the expectation file: not there, begun, or written and closed.
Dir == [files : [FileNames -> Contents \cup {Nothing, Torn}],
        mark : {"none", "begun", "whole"}, maker : Jobs]
Unmade == [f \in FileNames |-> Nothing]

ASSUME SaveAssumption ==
    /\ Files \in Seq(STRING)
    /\ {"campaign.xml", "descriptor.xml"} \subseteq FileNames
    /\ \A i, k \in 1..Len(Files) : Files[i] = Files[k] => i = k
    /\ MaxEdits \in Nat
    /\ Nothing \notin Contents \cup Plan \cup Dir
    /\ Torn \notin Contents \cup {Nothing}

\* Where a job is between making its directory and being done with it.
Making     == {"copy", "rehash", "compare", "mark", "note"}
Marked     == {"again", "recompare", "verified", "failed_reverification"}
Discarding == {"discard", "reject"}     \* after an exception; after a comparison

Working  == {"inspect", "read", "hash", "make", "again", "recompare"} \cup Making \cup Discarding
Outcomes == {"refused", "failed", "failed_verification", "verified", "failed_reverification",
             "died", "cut_short"}       \* cut_short: died while it removed its copy

Init ==
    /\ save \in {g \in [FileNames -> Contents \cup {Nothing}] : \A f \in FileNames : g[f] \in MayHold(f)}
    /\ copies = [p \in Plan |-> Nothing]
    /\ plan = [j \in Jobs |-> Nothing]
    /\ at = [j \in Jobs |-> "idle"]
    /\ next = [j \in Jobs |-> 1]
    /\ entries = [j \in Jobs |-> {}]
    /\ raw = [j \in Jobs |-> Nothing]
    /\ hashes = [j \in Jobs |-> <<>>]
    /\ same = [j \in Jobs |-> TRUE]
    /\ edits = 0

------------------------------------------------------------------------------
Go(j, l) == at' = [at EXCEPT ![j] = l]
Restart(j, l) == Go(j, l) /\ next' = [next EXCEPT ![j] = 1]

\* Sweep over the files in order: one file a step, then on to l.
Sweep(j, l) == IF next[j] < Len(Files) THEN next' = [next EXCEPT ![j] = @ + 1] /\ UNCHANGED at
                                       ELSE Restart(j, l)

\* A plan whose change is accepted, reviewed on the save as it is, and its
\* write begun.  A value that is already there leaves nothing to write.
Start(j) ==
    /\ at[j] = "idle"
    /\ \E v \in Values \ {save["campaign.xml"].value} :
         plan' = [plan EXCEPT ![j] = [campaign |-> save["campaign.xml"],
                                      descriptor |-> save["descriptor.xml"], value |-> v]]
    /\ Go(j, "inspect")
    /\ UNCHANGED <<original, copies, next, entries, raw, hashes, same>>

\* The save must still be what was planned on: both files, and then, once
\* the folder is listed, the campaign.xml that is kept for patching.
Inspect(j) ==
    /\ at[j] = "inspect"
    /\ Go(j, IF Holds(save, plan[j]) THEN "read" ELSE "refused")
    /\ UNCHANGED <<original, copies, plan, next, entries, raw, hashes, same>>

ReadCampaign(j) ==
    /\ at[j] = "read"
    /\ entries' = [entries EXCEPT ![j] = {f \in FileNames : save[f] # Nothing}]
    /\ raw' = [raw EXCEPT ![j] = save["campaign.xml"]]
    /\ Go(j, IF save["campaign.xml"] = plan[j].campaign THEN "hash" ELSE "refused")
    /\ UNCHANGED <<original, copies, plan, next, hashes, same>>

\* file_hashes(source): one file after the other.
HashFile(j) ==
    /\ at[j] = "hash"
    /\ hashes' = [hashes EXCEPT ![j] = Append(@, save[Files[next[j]]])]
    /\ Sweep(j, "make")
    /\ UNCHANGED <<original, copies, plan, entries, raw, same>>

\* A subfolder, a link, an unreadable file, no room for the directory: refused
\* before anything is made.
Refuse(j) ==
    /\ at[j] \in {"inspect", "read", "hash", "make"}
    /\ Restart(j, "refused")
    /\ UNCHANGED <<original, copies, plan, entries, raw, hashes, same>>

\* A bug: mkdir(exist_ok=True).
MakeDirAnyway(j) ==
    /\ at[j] = "make"
    /\ copies' = [copies EXCEPT ![plan[j]] = [files |-> Unmade, mark |-> "none", maker |-> j]]
    /\ Go(j, "copy")
    /\ UNCHANGED <<original, plan, next, entries, raw, hashes, same>>

\* target.mkdir(), which never takes a directory that is there.
MakeDir(j) ==
    /\ at[j] = "make"
    /\ IF copies[plan[j]] = Nothing
       THEN /\ copies' = [copies EXCEPT ![plan[j]] = [files |-> Unmade, mark |-> "none", maker |-> j]]
            /\ Go(j, "copy")
       ELSE Go(j, "refused") /\ UNCHANGED copies
    /\ UNCHANGED <<original, plan, next, entries, raw, hashes, same>>

OpenFile(j) ==
    /\ at[j] = "copy"
    /\ Files[next[j]] \in entries[j]
    /\ copies[plan[j]].files[Files[next[j]]] = Nothing
    /\ copies' = [copies EXCEPT ![plan[j]].files[Files[next[j]]] = Torn]
    /\ UNCHANGED <<original, plan, at, next, entries, raw, hashes, same>>

\* The text of the file; of a name that was not listed there is nothing to
\* copy, and a file that is gone from the save cannot be.
CopyFile(j) ==
    /\ at[j] = "copy"
    /\ LET f == Files[next[j]] IN
       \/ f \notin entries[j] /\ UNCHANGED copies
       \/ /\ copies[plan[j]].files[f] = Torn
          /\ save[f] # Nothing
          /\ copies' = [copies EXCEPT ![plan[j]].files[f] =
                          IF f = "campaign.xml" THEN Edited(raw[j], plan[j]) ELSE save[f]]
    /\ Sweep(j, "rehash")
    /\ UNCHANGED <<original, plan, entries, raw, hashes, same>>

------------------------------------------------------------------------------
(* verify_copy: hash the original again, then compare.                     *)

Rehash(j) ==
    /\ at[j] = "rehash"
    /\ same' = [same EXCEPT ![j] = @ /\ save[Files[next[j]]] = hashes[j][next[j]]]
    /\ Sweep(j, "compare")
    /\ UNCHANGED <<original, copies, plan, entries, raw, hashes>>

\* The copy's campaign.xml against the original's, as it is now: the same
\* outside the span, the planned value within.
SpansOnly(j) ==
    copies[plan[j]].files["campaign.xml"] = Edited(save["campaign.xml"], plan[j])

\* The same names in both folders, the mark aside.
NamesAgree(j) ==
    \A f \in FileNames : (copies[plan[j]].files[f] = Nothing) = (save[f] = Nothing)

\* A bug: the copy's other files are not compared.
OthersUnseen(j) == TRUE

\* Every file that was hashed, but campaign.xml, is in the copy as it was.
OthersEqual(j) ==
    \A i \in 1..Len(Files) :
       Files[i] # "campaign.xml" /\ hashes[j][i] # Nothing => copies[plan[j]].files[Files[i]] = hashes[j][i]

Compare(j) ==
    /\ at[j] = "compare"
    /\ Go(j, IF same[j] /\ NamesAgree(j) /\ SpansOnly(j) /\ OthersEqual(j) THEN "mark" ELSE "reject")
    /\ UNCHANGED <<original, copies, plan, next, entries, raw, hashes, same>>

------------------------------------------------------------------------------
(* The expectation file is created, then written.                          *)

\* A bug: the mark is made as soon as the directory is.
OpenMarkEarly(j) ==
    /\ at[j] \in {"copy", "mark"}
    /\ copies' = [copies EXCEPT ![plan[j]].mark = "begun"]
    /\ IF at[j] = "mark" THEN Go(j, "note") ELSE UNCHANGED at
    /\ UNCHANGED <<original, plan, next, entries, raw, hashes, same>>

OpenMark(j) ==
    /\ at[j] = "mark"
    /\ copies' = [copies EXCEPT ![plan[j]].mark = "begun"]
    /\ Go(j, "note")
    /\ UNCHANGED <<original, plan, next, entries, raw, hashes, same>>

\* With its text on disk the copy is written.
WriteMark(j) ==
    /\ at[j] = "note"
    /\ copies' = [copies EXCEPT ![plan[j]].mark = "whole"]
    /\ same' = [same EXCEPT ![j] = TRUE]
    /\ Go(j, "again")
    /\ UNCHANGED <<original, plan, next, entries, raw, hashes>>

\* Any exception on the way.
Fail(j) ==
    /\ at[j] \in Making
    /\ Restart(j, "discard")
    /\ UNCHANGED <<original, copies, plan, entries, raw, hashes, same>>

------------------------------------------------------------------------------
(* _discard_copy: the entries of the copy are removed in whatever order    *)
(* the directory lists them, and then the directory.  An error on the way  *)
(* ends it without a word, and what is left stays.                         *)

RemoveFile(j) ==
    /\ at[j] \in Discarding
    /\ \E f \in FileNames :
         /\ copies[plan[j]].files[f] # Nothing
         /\ copies' = [copies EXCEPT ![plan[j]].files[f] = Nothing]
    /\ UNCHANGED <<original, plan, at, next, entries, raw, hashes, same>>

RemoveMark(j) ==
    /\ at[j] \in Discarding
    /\ copies[plan[j]].mark # "none"
    /\ copies' = [copies EXCEPT ![plan[j]].mark = "none"]
    /\ UNCHANGED <<original, plan, at, next, entries, raw, hashes, same>>

EndRemoval(j) ==
    /\ at[j] \in Discarding
    /\ \/ UNCHANGED copies
       \/ /\ copies[plan[j]].files = Unmade /\ copies[plan[j]].mark = "none"
          /\ copies' = [copies EXCEPT ![plan[j]] = Nothing]
    /\ Go(j, IF at[j] = "discard" THEN "failed" ELSE "failed_verification")
    /\ UNCHANGED <<original, plan, next, entries, raw, hashes, same>>

------------------------------------------------------------------------------
(* run_save_verify_copy: verify_copy again, against the plan's hashes.     *)

\* The original's files, all of them, against the two the plan has hashes of.
RehashAgain(j) ==
    /\ at[j] = "again"
    /\ LET f == Files[next[j]] IN
       same' = [same EXCEPT ![j] =
                  @ /\ save[f] = CASE f = "campaign.xml" -> plan[j].campaign
                                   [] f = "descriptor.xml" -> plan[j].descriptor
                                   [] OTHER -> Nothing]
    /\ Sweep(j, "recompare")
    /\ UNCHANGED <<original, copies, plan, entries, raw, hashes>>

\* A bug: the mark is taken for the verification.
CompareMark(j) ==
    /\ at[j] = "recompare"
    /\ Go(j, IF copies[plan[j]].mark = "whole" THEN "verified" ELSE "failed_reverification")
    /\ UNCHANGED <<original, copies, plan, next, entries, raw, hashes, same>>

CompareAgain(j) ==
    /\ at[j] = "recompare"
    /\ Go(j, IF /\ same[j] /\ NamesAgree(j) /\ SpansOnly(j)
                /\ copies[plan[j]].files["descriptor.xml"] = plan[j].descriptor
             THEN "verified" ELSE "failed_reverification")
    /\ UNCHANGED <<original, copies, plan, next, entries, raw, hashes, same>>

\* An exception now leaves the copy where it is.
FailAgain(j) ==
    /\ at[j] \in {"again", "recompare"}
    /\ Restart(j, "failed")
    /\ UNCHANGED <<original, copies, plan, entries, raw, hashes, same>>

------------------------------------------------------------------------------
\* The process dies, and every job with it.
Crash ==
    /\ \E j \in Jobs : at[j] \in Working
    /\ at' = [j \in Jobs |-> CASE at[j] \in Discarding -> "cut_short"
                            [] at[j] \in Working \ Discarding -> "died"
                            [] OTHER -> at[j]]
    /\ next' = [j \in Jobs |-> 1]
    /\ UNCHANGED <<original, copies, plan, entries, raw, hashes, same>>

\* The game writes one of the save's files, or adds or removes one that the
\* readers do not know.
GameWrites(f) ==
    /\ edits < MaxEdits
    /\ edits' = edits + 1
    /\ \E c \in MayHold(f) \ {save[f]} : save' = [save EXCEPT ![f] = c]
    /\ UNCHANGED <<copies, plan, at, next, entries, raw, hashes, same>>

JobStep(j) ==
    \/ Start(j) \/ Inspect(j) \/ ReadCampaign(j) \/ HashFile(j) \/ Refuse(j)
    \/ MakeDir(j) \/ OpenFile(j) \/ CopyFile(j) \/ Rehash(j) \/ Compare(j)
    \/ OpenMark(j) \/ WriteMark(j) \/ Fail(j)
    \/ RemoveFile(j) \/ RemoveMark(j) \/ EndRemoval(j)
    \/ RehashAgain(j) \/ CompareAgain(j) \/ FailAgain(j)

Next == \/ \E j \in Jobs : JobStep(j)
        \/ Crash
        \/ \E f \in FileNames : GameWrites(f)

Spec == Init /\ [][Next]_vars

------------------------------------------------------------------------------
(* Properties.                                                             *)

TypeOK ==
    /\ save \in [FileNames -> Contents \cup {Nothing}]
    /\ \A f \in FileNames : save[f] \in MayHold(f)
    /\ copies \in [Plan -> Dir \cup {Nothing}]
    /\ plan \in [Jobs -> Plan \cup {Nothing}]
    /\ at \in [Jobs -> {"idle"} \cup Working \cup Outcomes]
    /\ next \in [Jobs -> 1..Len(Files)]
    /\ entries \in [Jobs -> SUBSET FileNames]
    /\ raw \in [Jobs -> Campaign \cup {Nothing}]
    /\ hashes \in [Jobs -> Seq(Contents \cup {Nothing})]
    /\ same \in [Jobs -> BOOLEAN]
    /\ edits \in 0..MaxEdits

\* The campaign.xml of a directory is the planned one: the plan's own, with
\* the planned value and no other change.
PlannedCampaign(p) == copies[p].files["campaign.xml"] = Edited(p.campaign, p)

\* From the moment its comparison succeeds a copy holds the planned
\* campaign.xml, and every other file as the original had it when it was
\* hashed, whatever the game does to the save and whoever else writes; and
\* what is reported as written has its expectation file, to the end.
WrittenIsPlanned ==
    \A j \in Jobs :
       at[j] \in {"mark", "note", "again", "recompare", "verified", "failed_reverification"} =>
          /\ copies[plan[j]] # Nothing
          /\ at[j] \in {"mark", "note"} \/ copies[plan[j]].mark = "whole"
          /\ PlannedCampaign(plan[j])
          /\ \A i \in 1..Len(Files) :
                \/ Files[i] = "campaign.xml" \/ hashes[j][i] = Nothing
                \/ copies[plan[j]].files[Files[i]] = hashes[j][i]

\* The removal of a copy whose mark was created and not written was given up,
\* or was cut short, before it came to the mark.
HalfRemoved(p) ==
    copies[p].mark = "begun" /\ at[copies[p].maker] \in {"discard", "failed", "cut_short"}

\* The expectation file marks a whole, planned copy, wherever a write failed,
\* was removed or died: a directory that has it holds the planned campaign.xml
\* and every file that was hashed of the save.  Files may be missing, though
\* never another's text there, only next to a mark that was itself left
\* unwritten, and when that copy's removal stopped midway.
MarkedIsWhole ==
    \A p \in Plan : copies[p] # Nothing /\ copies[p].mark # "none" =>
       \A i \in 1..Len(Files) :
          LET file == copies[p].files[Files[i]]
              kept == hashes[copies[p].maker][i]
          IN \/ Files[i] = "campaign.xml" /\ PlannedCampaign(p)
             \/ Files[i] # "campaign.xml" /\ kept \in {Nothing, file}
             \/ file = Nothing /\ HalfRemoved(p)

\* A copy that is verified again is of the save that was reviewed, descriptor
\* included: a game that saved between the review and the write is found out.
VerifiedIsReviewed ==
    \A j \in Jobs :
       at[j] = "verified" => Holds(copies[plan[j]].files, [plan[j] EXCEPT !.campaign.value = plan[j].value])

\* A directory is touched only by the job that made it, and no longer once it
\* is written: nothing is ever overwritten or removed by another.
MakerOnly ==
    [][\A p \in Plan :
         copies[p] # Nothing /\ copies'[p] # copies[p] =>
            /\ plan[copies[p].maker] = p
            /\ at[copies[p].maker] \in {"copy", "rehash", "compare", "mark", "note", "discard", "reject"}
            /\ at'[copies[p].maker] # "refused"]_vars

\* A written copy of a save that nothing has changed verifies again.
ReverifyAgrees == edits = 0 => \A j \in Jobs : at[j] # "failed_reverification"

------------------------------------------------------------------------------
(* The inductive invariant: what each job may rely on, where it is, and    *)
(* what the maker of a directory has behind it.                            *)

Hashing == {"make"} \cup Making \cup Marked

\* Its plan, what it has listed and read, and the hashes it has taken.
Prepared(j) ==
    /\ at[j] # "idle" => plan[j] \in Plan
    /\ at[j] \in {"idle", "inspect", "read"} => hashes[j] = <<>> /\ next[j] = 1
    /\ at[j] = "hash" => Len(hashes[j]) = next[j] - 1
    /\ at[j] \in Hashing => Len(hashes[j]) = Len(Files)
    /\ at[j] \in {"hash"} \cup Hashing => raw[j] = plan[j].campaign /\ Reads \subseteq entries[j]
    /\ at[j] = "make" => next[j] = 1

\* The directory is its own, and holds what the job has done so far.
OwnCopy(j) ==
    at[j] \in Making \cup Marked \cup Discarding =>
       /\ copies[plan[j]] # Nothing
       /\ copies[plan[j]].maker = j
       /\ copies[plan[j]].mark = "whole" => at[j] \in Marked
       /\ at[j] \in Marked => copies[plan[j]].mark = "whole"
       /\ copies[plan[j]].mark = "begun" => at[j] \in {"note", "discard"}
       /\ at[j] \notin Discarding =>
            \A i \in 1..Len(Files) :
               Files[i] = "campaign.xml" /\ (at[j] = "copy" => i < next[j]) => PlannedCampaign(plan[j])
       /\ at[j] \in {"mark", "note"} \cup Marked => OthersEqual(j)
       /\ at[j] = "verified" => copies[plan[j]].files["descriptor.xml"] = plan[j].descriptor

\* The maker's plan and hashes are settled, and stay as they are.
MakerKnown(p) ==
    copies[p] # Nothing =>
       /\ plan[copies[p].maker] = p
       /\ at[copies[p].maker] \notin {"idle", "inspect", "read", "hash", "make"}

CopyInv == /\ TypeOK /\ MarkedIsWhole
           /\ \A j \in Jobs : Prepared(j) /\ OwnCopy(j)
           /\ \A p \in Plan : MakerKnown(p)
===============================================================================
