-------------------------- MODULE SaveWorkshop_proofs --------------------------
(* Proofs about the save workshop.  About SaveCopy, for any folder of      *)
(* files, number of writes and changes by the game; then about the tab of  *)
(* SaveWorkshop, for any saves and values, number of threads, operations   *)
(* and changes.                                                            *)
EXTENDS SaveCopy, SaveWorkshop, TLAPS

LEMMA FileFacts ==
  /\ Len(Files) \in Nat \ {0}
  /\ \A i \in 1..Len(Files) : Files[i] \in FileNames
  /\ \A f \in FileNames : \E i \in 1..Len(Files) : Files[i] = f
  /\ "campaign.xml" \in FileNames /\ "descriptor.xml" \in FileNames
BY SaveAssumption DEF FileNames

(* What the original holds is a file, or nothing where the readers do not look. *)
LEMMA SaveFacts ==
  ASSUME TypeOK
  PROVE  /\ \A f \in FileNames : save[f] \in Contents \cup {Nothing}
         /\ save["campaign.xml"] \in Campaign
         /\ save["descriptor.xml"] \in Versions
<1>1. /\ save["campaign.xml"] \in MayHold("campaign.xml")
      /\ save["descriptor.xml"] \in MayHold("descriptor.xml")
  BY FileFacts DEF TypeOK
<1>2. \A f \in FileNames : save[f] \in Contents \cup {Nothing}
  BY DEF TypeOK
<1> QED
  BY <1>1, <1>2 DEF MayHold, Content, Reads

LEMMA EditedType ==
  ASSUME NEW c \in Campaign, NEW p \in Plan
  PROVE  Edited(c, p) \in Campaign
BY DEF Edited, Campaign, Plan

(* Directories stay directories under what the writer does to them.        *)
LEMMA DirFacts ==
  ASSUME NEW d \in Dir
  PROVE  /\ d # Nothing
         /\ d.files \in [FileNames -> Contents \cup {Nothing, Torn}]
         /\ d.mark \in {"none", "begun", "whole"}
         /\ d.maker \in Jobs
BY SaveAssumption DEF Dir

LEMMA NewDir ==
  ASSUME NEW j \in Jobs, NEW d, d = [files |-> Unmade, mark |-> "none", maker |-> j]
  PROVE  d \in Dir /\ d.files = Unmade /\ d.mark = "none" /\ d.maker = j
<1>1. Unmade \in [FileNames -> Contents \cup {Nothing, Torn}]
  BY DEF Unmade
<1> QED
  BY <1>1 DEF Dir

LEMMA FileChange ==
  ASSUME NEW d \in Dir, NEW f \in FileNames, NEW c \in Contents \cup {Nothing, Torn},
         NEW e, e = [d EXCEPT !.files[f] = c]
  PROVE  /\ e \in Dir
         /\ e.files = [d.files EXCEPT ![f] = c]
         /\ e.mark = d.mark /\ e.maker = d.maker
BY DEF Dir

LEMMA MarkChange ==
  ASSUME NEW d \in Dir, NEW m \in {"none", "begun", "whole"}, NEW e, e = [d EXCEPT !.mark = m]
  PROVE  /\ e \in Dir
         /\ e.files = d.files /\ e.mark = m /\ e.maker = d.maker
BY DEF Dir

(* A step of a sweep moves to the next file or on.                         *)
LEMMA SweepFacts ==
  ASSUME TypeOK, NEW j \in Jobs, NEW l \in {"make", "rehash", "compare", "recompare"}, Sweep(j, l)
  PROVE  /\ at' \in [Jobs -> {"idle"} \cup Working \cup Outcomes]
         /\ next' \in [Jobs -> 1..Len(Files)]
         /\ \/ next[j] < Len(Files) /\ next'[j] = next[j] + 1 /\ at'[j] = at[j]
            \/ next[j] = Len(Files) /\ next'[j] = 1 /\ at'[j] = l
         /\ \A k \in Jobs \ {j} : at'[k] = at[k] /\ next'[k] = next[k]
<1>1. /\ Len(Files) \in Nat \ {0}
      /\ next \in [Jobs -> 1..Len(Files)]
      /\ at \in [Jobs -> {"idle"} \cup Working \cup Outcomes]
  BY FileFacts DEF TypeOK
<1>2. CASE next[j] < Len(Files)
  <2>1. next' = [next EXCEPT ![j] = @ + 1] /\ at' = at
    BY <1>2 DEF Sweep
  <2> QED
    BY <1>1, <1>2, <2>1
<1>3. CASE ~(next[j] < Len(Files))
  <2>1. next' = [next EXCEPT ![j] = 1] /\ at' = [at EXCEPT ![j] = l]
    BY <1>3 DEF Sweep, Restart, Go
  <2> QED
    BY <1>1, <1>3, <2>1 DEF Working, Making
<1> QED
  BY <1>2, <1>3

(* Moving on, with or without a look back at the first file.               *)
LEMMA GoFacts ==
  ASSUME TypeOK, NEW j \in Jobs, NEW l \in {"idle"} \cup Working \cup Outcomes,
         \/ Go(j, l) /\ next' = next
         \/ Restart(j, l)
  PROVE  /\ at' \in [Jobs -> {"idle"} \cup Working \cup Outcomes]
         /\ next' \in [Jobs -> 1..Len(Files)]
         /\ at'[j] = l
         /\ \A k \in Jobs \ {j} : at'[k] = at[k] /\ next'[k] = next[k]
<1>1. 1 \in 1..Len(Files)
  BY FileFacts
<1> QED
  BY <1>1 DEF Go, Restart, TypeOK

(* Each step by where it takes its job, which of the job's own variables   *)
(* it may change, and when it touches a directory.                         *)
Before == {"idle", "inspect", "read", "hash", "make"}

Course(j) ==
  /\ at' \in [Jobs -> {"idle"} \cup Working \cup Outcomes]
  /\ next' \in [Jobs -> 1..Len(Files)]
  /\ \A k \in Jobs \ {j} : at'[k] = at[k] /\ next'[k] = next[k]

Moves(j) ==
  \/ at[j] = "idle" /\ at'[j] = "inspect"
  \/ at[j] = "inspect" /\ at'[j] \in {"read", "refused"}
  \/ at[j] = "read" /\ at'[j] \in {"hash", "refused"}
  \/ at[j] = "hash" /\ at'[j] \in {"hash", "make", "refused"}
  \/ at[j] = "make" /\ at'[j] \in {"copy", "refused"}
  \/ at[j] = "copy" /\ at'[j] \in {"copy", "rehash", "discard"}
  \/ at[j] = "rehash" /\ at'[j] \in {"rehash", "compare", "discard"}
  \/ at[j] = "compare" /\ at'[j] \in {"mark", "reject", "discard"}
  \/ at[j] = "mark" /\ at'[j] \in {"note", "discard"}
  \/ at[j] = "note" /\ at'[j] \in {"again", "discard"}
  \/ at[j] = "discard" /\ at'[j] \in {"discard", "failed"}
  \/ at[j] = "reject" /\ at'[j] \in {"reject", "failed_verification"}
  \/ at[j] = "again" /\ at'[j] \in {"again", "recompare", "failed"}
  \/ at[j] = "recompare" /\ at'[j] \in {"verified", "failed_reverification", "failed"}

LEMMA StepMoves ==
  ASSUME TypeOK, NEW j \in Jobs, JobStep(j)
  PROVE  Course(j) /\ Moves(j)
<1>1. CASE Start(j)
  BY <1>1, GoFacts DEF Start, Course, Moves, Working
<1>2. CASE Inspect(j)
  <2>1. PICK l \in {"read", "refused"} : Go(j, l) /\ next' = next /\ at[j] = "inspect"
    BY <1>2 DEF Inspect
  <2> QED
    BY <2>1, GoFacts DEF Course, Moves, Working, Outcomes
<1>3. CASE ReadCampaign(j)
  <2>1. PICK l \in {"hash", "refused"} : Go(j, l) /\ next' = next /\ at[j] = "read"
    BY <1>3 DEF ReadCampaign
  <2> QED
    BY <2>1, GoFacts DEF Course, Moves, Working, Outcomes
<1>4. CASE HashFile(j)
  BY <1>4, SweepFacts DEF HashFile, Course, Moves
<1>5. CASE Refuse(j)
  BY <1>5, GoFacts DEF Refuse, Course, Moves, Outcomes
<1>6. CASE MakeDir(j)
  <2>1. PICK l \in {"copy", "refused"} : Go(j, l) /\ next' = next /\ at[j] = "make"
    BY <1>6 DEF MakeDir
  <2> QED
    BY <2>1, GoFacts DEF Course, Moves, Working, Making, Outcomes
<1>7. CASE OpenFile(j)
  BY <1>7 DEF OpenFile, Course, Moves, TypeOK
<1>8. CASE CopyFile(j)
  BY <1>8, SweepFacts DEF CopyFile, Course, Moves
<1>9. CASE Rehash(j)
  BY <1>9, SweepFacts DEF Rehash, Course, Moves
<1>10. CASE Compare(j)
  <2>1. PICK l \in {"mark", "reject"} : Go(j, l) /\ next' = next /\ at[j] = "compare"
    BY <1>10 DEF Compare
  <2> QED
    BY <2>1, GoFacts DEF Course, Moves, Working, Making, Discarding
<1>11. CASE OpenMark(j) \/ WriteMark(j)
  BY <1>11, GoFacts DEF OpenMark, WriteMark, Course, Moves, Working, Making
<1>12. CASE Fail(j)
  BY <1>12, GoFacts DEF Fail, Course, Moves, Working, Making, Discarding
<1>13. CASE RemoveFile(j) \/ RemoveMark(j)
  BY <1>13 DEF RemoveFile, RemoveMark, Course, Moves, TypeOK, Discarding
<1>14. CASE EndRemoval(j)
  <2>1. PICK l \in {"failed", "failed_verification"} :
           /\ Go(j, l) /\ next' = next
           /\ \/ at[j] = "discard" /\ l = "failed"
              \/ at[j] = "reject" /\ l = "failed_verification"
    BY <1>14 DEF EndRemoval, Discarding
  <2> QED
    BY <2>1, GoFacts DEF Course, Moves, Outcomes
<1>15. CASE RehashAgain(j)
  BY <1>15, SweepFacts DEF RehashAgain, Course, Moves
<1>16. CASE CompareAgain(j)
  <2>1. PICK l \in {"verified", "failed_reverification"} : Go(j, l) /\ next' = next /\ at[j] = "recompare"
    BY <1>16 DEF CompareAgain
  <2> QED
    BY <2>1, GoFacts DEF Course, Moves, Outcomes
<1>17. CASE FailAgain(j)
  BY <1>17, GoFacts DEF FailAgain, Course, Moves, Outcomes
<1> QED
  BY <1>1, <1>2, <1>3, <1>4, <1>5, <1>6, <1>7, <1>8, <1>9, <1>10, <1>11, <1>12, <1>13, <1>14, <1>15,
     <1>16, <1>17 DEF JobStep

(* A directory that a step touches is the job's own, and no other variable *)
(* of a job that has one is touched.                                       *)
LEMMA StepIsOwn ==
  ASSUME TypeOK, NEW j \in Jobs, JobStep(j)
  PROVE  /\ \A k \in Jobs \ {j} : /\ plan'[k] = plan[k] /\ entries'[k] = entries[k]
                                  /\ raw'[k] = raw[k] /\ hashes'[k] = hashes[k]
         /\ \A p \in Plan : copies'[p] # copies[p] => p = plan[j] /\ at[j] \in {"make"} \cup Making \cup Discarding
         /\ at[j] = "make" => copies' = copies \/ copies[plan[j]] = Nothing
         /\ at[j] \notin Before => /\ plan'[j] = plan[j] /\ entries'[j] = entries[j]
                                   /\ raw'[j] = raw[j] /\ hashes'[j] = hashes[j]
<1>1. CASE Start(j)
  <2>1. PICK v : plan' = [plan EXCEPT ![j] = v]
    BY <1>1 DEF Start
  <2> QED
    BY <1>1, <2>1 DEF Start, TypeOK, Before
<1>2. CASE Inspect(j) \/ Refuse(j) \/ Rehash(j) \/ Compare(j) \/ Fail(j) \/ RehashAgain(j) \/ CompareAgain(j) \/ FailAgain(j)
  <2>1. UNCHANGED <<copies, plan, entries, raw, hashes>>
    BY <1>2 DEF Inspect, Refuse, Rehash, Compare, Fail, RehashAgain, CompareAgain, FailAgain
  <2> QED
    BY <2>1
<1>3. CASE ReadCampaign(j)
  BY <1>3 DEF ReadCampaign, TypeOK, Before
<1>4. CASE HashFile(j)
  BY <1>4 DEF HashFile, TypeOK, Before
<1>5. CASE MakeDir(j) \/ OpenFile(j) \/ CopyFile(j) \/ OpenMark(j) \/ WriteMark(j) \/ RemoveFile(j) \/ RemoveMark(j)
           \/ EndRemoval(j)
  <2>1. UNCHANGED <<plan, entries, raw, hashes>>
    BY <1>5 DEF MakeDir, OpenFile, CopyFile, OpenMark, WriteMark, RemoveFile, RemoveMark, EndRemoval
  <2>2. \/ copies' = copies
        \/ \E e : copies' = [copies EXCEPT ![plan[j]] = e]
    BY <1>5 DEF MakeDir, OpenFile, CopyFile, OpenMark, WriteMark, RemoveFile, RemoveMark, EndRemoval
  <2>3. /\ at[j] \in {"make"} \cup Making \cup Discarding
        /\ at[j] = "make" => copies' = copies \/ copies[plan[j]] = Nothing
    BY <1>5 DEF MakeDir, OpenFile, CopyFile, OpenMark, WriteMark, RemoveFile, RemoveMark, EndRemoval, Making, Discarding
  <2> QED
    BY <2>1, <2>2, <2>3 DEF TypeOK
<1> QED
  BY <1>1, <1>2, <1>3, <1>4, <1>5 DEF JobStep

(* OwnCopy by what it speaks of: the place l of job j, the file n it comes *)
(* to, its plan p and hashes h, and its directory d.                       *)
OwnIs(j, l, n, p, h, d) ==
  l \in Making \cup Marked \cup Discarding =>
     /\ d # Nothing /\ d.maker = j
     /\ d.mark = "whole" => l \in Marked
     /\ l \in Marked => d.mark = "whole"
     /\ d.mark = "begun" => l \in {"note", "discard"}
     /\ l \notin Discarding =>
          \A i \in 1..Len(Files) :
             Files[i] = "campaign.xml" /\ (l = "copy" => i < n) => d.files["campaign.xml"] = Edited(p.campaign, p)
     /\ l \in {"mark", "note"} \cup Marked =>
          \A i \in 1..Len(Files) : Files[i] # "campaign.xml" /\ h[i] # Nothing => d.files[Files[i]] = h[i]
     /\ l = "verified" => d.files["descriptor.xml"] = p.descriptor

LEMMA OwnMeans ==
  ASSUME NEW j \in Jobs
  PROVE  /\ OwnCopy(j) <=> OwnIs(j, at[j], next[j], plan[j], hashes[j], copies[plan[j]])
         /\ OwnCopy(j)' <=> OwnIs(j, at'[j], next'[j], plan'[j], hashes'[j], copies'[plan'[j]])
<1>1. OwnCopy(j) <=> OwnIs(j, at[j], next[j], plan[j], hashes[j], copies[plan[j]])
  BY DEF OwnCopy, OwnIs, OthersEqual, PlannedCampaign
<1>2. OwnCopy(j)' <=> OwnIs(j, at'[j], next'[j], plan'[j], hashes'[j], copies'[plan'[j]])
  BY DEF OwnCopy, OwnIs, OthersEqual, PlannedCampaign
<1> QED
  BY <1>1, <1>2

(* So the other jobs keep what they rely on.                               *)
LEMMA OthersKeep ==
  ASSUME CopyInv, NEW j \in Jobs, JobStep(j), NEW k \in Jobs \ {j}
  PROVE  Prepared(k)' /\ OwnCopy(k)'
<1>0. TypeOK
  BY DEF CopyInv
<1>1. /\ plan'[k] = plan[k] /\ at'[k] = at[k] /\ next'[k] = next[k] /\ entries'[k] = entries[k]
      /\ raw'[k] = raw[k] /\ hashes'[k] = hashes[k]
  BY <1>0, StepIsOwn, StepMoves DEF Course
<1>2. Prepared(k)'
  BY <1>1 DEF CopyInv, Prepared
<1>3. CASE at[k] \in Making \cup Marked \cup Discarding
  <2>1. /\ plan[k] \in Plan
        /\ copies[plan[k]] # Nothing /\ copies[plan[k]].maker = k
    BY <1>3 DEF CopyInv, OwnCopy, Prepared, Making, Marked, Discarding
  <2>2. at[j] \in Making \cup Discarding => plan[j] # plan[k]
    BY <2>1 DEF CopyInv, OwnCopy
  <2>3. copies'[plan[k]] = copies[plan[k]]
    BY <1>0, <2>1, <2>2, StepIsOwn
  <2>4. OwnIs(k, at[k], next[k], plan[k], hashes[k], copies[plan[k]])
    BY OwnMeans DEF CopyInv
  <2>5. OwnIs(k, at'[k], next'[k], plan'[k], hashes'[k], copies'[plan'[k]])
    BY ONLY <1>1, <2>3, <2>4
  <2> QED
    BY <1>2, <2>5, OwnMeans
<1>4. CASE at[k] \notin Making \cup Marked \cup Discarding
  BY <1>1, <1>2, <1>4 DEF OwnCopy
<1> QED
  BY <1>2, <1>3, <1>4

(* What a job that has a directory finds in it.                            *)
LEMMA OwnDir ==
  ASSUME CopyInv, NEW j \in Jobs, at[j] \in Making \cup Marked \cup Discarding
  PROVE  /\ plan[j] \in Plan /\ copies[plan[j]] \in Dir
         /\ copies[plan[j]].maker = j
         /\ raw[j] \in Campaign \/ at[j] \in Discarding
<1>1. /\ plan[j] \in Plan /\ copies[plan[j]] # Nothing /\ copies[plan[j]].maker = j
  BY DEF CopyInv, Prepared, OwnCopy, Making, Marked, Discarding
<1>2. copies[plan[j]] \in Dir
  BY <1>1 DEF CopyInv, TypeOK
<1>3. at[j] \in Making \cup Marked => raw[j] \in Campaign
  BY <1>1 DEF CopyInv, Prepared, Hashing, Plan
<1> QED
  BY <1>1, <1>2, <1>3

(* Each touch of a directory, as one change of the directory.              *)
FileBecomes(j, f, c) ==
  \E e \in Dir : e = [copies[plan[j]] EXCEPT !.files[f] = c] /\ copies' = [copies EXCEPT ![plan[j]] = e]
MarkBecomes(j, m) ==
  \E e \in Dir : e = [copies[plan[j]] EXCEPT !.mark = m] /\ copies' = [copies EXCEPT ![plan[j]] = e]

LEMMA FileTouched ==
  ASSUME CopyInv, NEW j \in Jobs, at[j] \in Making \cup Discarding,
         NEW f \in FileNames, NEW c \in Contents \cup {Nothing, Torn},
         copies' = [copies EXCEPT ![plan[j]].files[f] = c]
  PROVE  FileBecomes(j, f, c)
<1>1. plan[j] \in Plan /\ copies[plan[j]] \in Dir
  BY OwnDir
<1>2. PICK e : e = [copies[plan[j]] EXCEPT !.files[f] = c]
  OBVIOUS
<1>3. e \in Dir
  BY <1>1, <1>2, FileChange
<1>4. copies' = [copies EXCEPT ![plan[j]] = e]
  BY <1>1, <1>2 DEF CopyInv, TypeOK
<1> QED
  BY <1>2, <1>3, <1>4 DEF FileBecomes

LEMMA MarkTouched ==
  ASSUME CopyInv, NEW j \in Jobs, at[j] \in Making \cup Discarding,
         NEW m \in {"none", "begun", "whole"},
         copies' = [copies EXCEPT ![plan[j]].mark = m]
  PROVE  MarkBecomes(j, m)
<1>1. plan[j] \in Plan /\ copies[plan[j]] \in Dir
  BY OwnDir
<1>2. PICK e : e = [copies[plan[j]] EXCEPT !.mark = m]
  OBVIOUS
<1>3. e \in Dir
  BY <1>1, <1>2, MarkChange
<1>4. copies' = [copies EXCEPT ![plan[j]] = e]
  BY <1>1, <1>2 DEF CopyInv, TypeOK
<1> QED
  BY <1>2, <1>3, <1>4 DEF MarkBecomes

(* The text of a file as it is copied.                                     *)
CopyOf(j, f) == IF f = "campaign.xml" THEN Edited(raw[j], plan[j]) ELSE save[f]

LEMMA Touches ==
  ASSUME CopyInv, NEW j \in Jobs
  PROVE  /\ OpenFile(j) => FileBecomes(j, Files[next[j]], Torn) /\ copies[plan[j]].files[Files[next[j]]] = Nothing
         /\ CopyFile(j) =>
              \/ copies' = copies /\ Files[next[j]] \notin entries[j]
              \/ CopyOf(j, Files[next[j]]) \in Contents /\ FileBecomes(j, Files[next[j]], CopyOf(j, Files[next[j]]))
         /\ OpenMark(j) => MarkBecomes(j, "begun")
         /\ WriteMark(j) => MarkBecomes(j, "whole")
         /\ RemoveFile(j) => \E f \in FileNames : FileBecomes(j, f, Nothing)
         /\ RemoveMark(j) => MarkBecomes(j, "none")
<1>0. TypeOK
  BY DEF CopyInv
<1>1. Files[next[j]] \in FileNames
  BY <1>0, FileFacts DEF TypeOK
<1>2. ASSUME OpenFile(j)
      PROVE  FileBecomes(j, Files[next[j]], Torn) /\ copies[plan[j]].files[Files[next[j]]] = Nothing
  BY <1>1, <1>2, FileTouched DEF OpenFile, Making
<1>3. ASSUME CopyFile(j), ~(copies' = copies /\ Files[next[j]] \notin entries[j])
      PROVE  CopyOf(j, Files[next[j]]) \in Contents /\ FileBecomes(j, Files[next[j]], CopyOf(j, Files[next[j]]))
  <2>1. PICK f : f = Files[next[j]]
    OBVIOUS
  <2>2. at[j] = "copy" /\ save[f] # Nothing
    BY <1>3, <2>1 DEF CopyFile
  <2>3. CopyOf(j, f) \in Contents
    <3>1. raw[j] \in Campaign /\ plan[j] \in Plan
      BY <2>2, OwnDir DEF Making, Discarding
    <3>2. save[f] \in Contents
      BY <1>0, <1>1, <2>1, <2>2, SaveFacts
    <3>3. Edited(raw[j], plan[j]) \in Campaign
      BY <3>1, EditedType
    <3> QED
      BY <3>2, <3>3 DEF Contents, CopyOf
  <2>4. copies' = [copies EXCEPT ![plan[j]].files[f] = CopyOf(j, f)]
    BY <1>3, <2>1 DEF CopyFile, CopyOf
  <2>5. PICK c \in Contents : c = CopyOf(j, f)
    BY <2>3
  <2>6. FileBecomes(j, f, c)
    BY <1>1, <2>1, <2>2, <2>4, <2>5, FileTouched DEF Making
  <2> QED
    BY <2>1, <2>3, <2>5, <2>6
<1>4. ASSUME RemoveFile(j) PROVE \E f \in FileNames : FileBecomes(j, f, Nothing)
  <2>1. PICK f \in FileNames : copies' = [copies EXCEPT ![plan[j]].files[f] = Nothing]
    BY <1>4 DEF RemoveFile
  <2> QED
    BY <1>4, <2>1, FileTouched DEF RemoveFile
<1>5. /\ OpenMark(j) => MarkBecomes(j, "begun")
      /\ WriteMark(j) => MarkBecomes(j, "whole")
      /\ RemoveMark(j) => MarkBecomes(j, "none")
  BY MarkTouched DEF OpenMark, WriteMark, RemoveMark, Making
<1> QED
  BY <1>2, <1>3, <1>4, <1>5

LEMMA TypeStep == CopyInv /\ [Next]_vars => TypeOK'
<1> SUFFICES ASSUME CopyInv, [Next]_vars PROVE TypeOK'
  OBVIOUS
<1>0. TypeOK
  BY DEF CopyInv
<1>1. ASSUME NEW j \in Jobs, JobStep(j) PROVE TypeOK'
  <2>0. at[j] # "idle" => plan[j] \in Plan
    BY <1>1 DEF CopyInv, Prepared
  <2>1. /\ at' \in [Jobs -> {"idle"} \cup Working \cup Outcomes]
        /\ next' \in [Jobs -> 1..Len(Files)]
    BY <1>0, <1>1, StepMoves DEF Course
  <2>2. UNCHANGED original
    BY <1>1 DEF JobStep, Start, Inspect, ReadCampaign, HashFile, Refuse, MakeDir, OpenFile, CopyFile, Rehash,
       Compare, OpenMark, WriteMark, Fail, RemoveFile, RemoveMark, EndRemoval, RehashAgain, CompareAgain, FailAgain
  <2> DEFINE Rest == /\ copies' \in [Plan -> Dir \cup {Nothing}]
                     /\ plan' \in [Jobs -> Plan \cup {Nothing}]
                     /\ entries' \in [Jobs -> SUBSET FileNames]
                     /\ raw' \in [Jobs -> Campaign \cup {Nothing}]
                     /\ hashes' \in [Jobs -> Seq(Contents \cup {Nothing})]
                     /\ same' \in [Jobs -> BOOLEAN]
  <2>3. CASE Start(j)
    <3>1. PICK v \in Values :
            plan' = [plan EXCEPT ![j] = [campaign |-> save["campaign.xml"],
                                         descriptor |-> save["descriptor.xml"], value |-> v]]
      BY <2>3 DEF Start
    <3>2. plan' \in [Jobs -> Plan \cup {Nothing}]
      BY <1>0, <3>1, SaveFacts DEF TypeOK, Plan
    <3>3. Rest
      BY <1>0, <2>3, <3>2 DEF Start, TypeOK
    <3> QED
      BY <1>0, <2>1, <2>2, <3>3 DEF TypeOK, original
  <2>4. CASE Inspect(j) \/ Refuse(j) \/ Compare(j) \/ Fail(j) \/ CompareAgain(j) \/ FailAgain(j)
    <3>1. UNCHANGED <<copies, plan, entries, raw, hashes, same>>
      BY <2>4 DEF Inspect, Refuse, Compare, Fail, CompareAgain, FailAgain
    <3> QED
      BY <1>0, <2>1, <2>2, <3>1 DEF TypeOK, original
  <2>5. CASE ReadCampaign(j)
    <3>1. raw' \in [Jobs -> Campaign \cup {Nothing}]
      BY <1>0, <2>5, SaveFacts DEF ReadCampaign, TypeOK
    <3>2. entries' \in [Jobs -> SUBSET FileNames]
      BY <1>0, <2>5 DEF ReadCampaign, TypeOK
    <3> QED
      BY <1>0, <2>1, <2>2, <2>5, <3>1, <3>2 DEF ReadCampaign, TypeOK, original
  <2>6. CASE HashFile(j)
    <3>1. Files[next[j]] \in FileNames
      BY <1>0, FileFacts DEF TypeOK
    <3>2. save[Files[next[j]]] \in Contents \cup {Nothing}
      BY <1>0, <3>1, SaveFacts
    <3>3. hashes' \in [Jobs -> Seq(Contents \cup {Nothing})]
      BY <1>0, <2>6, <3>2 DEF HashFile, TypeOK
    <3> QED
      BY <1>0, <2>1, <2>2, <2>6, <3>3 DEF HashFile, TypeOK, original
  <2>7. CASE MakeDir(j)
    <3>1. PICK e : e = [files |-> Unmade, mark |-> "none", maker |-> j]
      OBVIOUS
    <3>2. e \in Dir
      BY <3>1, NewDir
    <3>3. copies' = copies \/ copies' = [copies EXCEPT ![plan[j]] = e]
      BY <2>7, <3>1 DEF MakeDir
    <3>4. copies' \in [Plan -> Dir \cup {Nothing}]
      BY <1>0, <3>2, <3>3 DEF TypeOK
    <3>5. UNCHANGED <<plan, entries, raw, hashes, same>>
      BY <2>7 DEF MakeDir
    <3> QED
      BY <1>0, <2>1, <2>2, <3>4, <3>5 DEF TypeOK, original
  <2>8. CASE OpenFile(j) \/ CopyFile(j) \/ OpenMark(j) \/ WriteMark(j) \/ RemoveFile(j) \/ RemoveMark(j)
    <3>1. copies' = copies \/ \E e \in Dir : copies' = [copies EXCEPT ![plan[j]] = e]
      BY <2>8, Touches DEF FileBecomes, MarkBecomes
    <3>2. copies' \in [Plan -> Dir \cup {Nothing}]
      BY <1>0, <3>1 DEF TypeOK
    <3>3. UNCHANGED <<plan, entries, raw, hashes>>
      BY <2>8 DEF OpenFile, CopyFile, OpenMark, WriteMark, RemoveFile, RemoveMark
    <3>4. same' = same \/ same' = [same EXCEPT ![j] = TRUE]
      BY <2>8 DEF OpenFile, CopyFile, OpenMark, WriteMark, RemoveFile, RemoveMark
    <3>5. same' \in [Jobs -> BOOLEAN]
      BY <1>0, <3>4, Zenon DEF TypeOK
    <3> QED
      BY <1>0, <2>1, <2>2, <3>2, <3>3, <3>5 DEF TypeOK, original
  <2>9. CASE EndRemoval(j)
    <3>1. copies' = copies \/ copies' = [copies EXCEPT ![plan[j]] = Nothing]
      BY <2>9 DEF EndRemoval
    <3>2. copies' \in [Plan -> Dir \cup {Nothing}]
      BY <1>0, <3>1 DEF TypeOK
    <3> QED
      BY <1>0, <2>1, <2>2, <2>9, <3>2 DEF EndRemoval, TypeOK, original
  <2>10. CASE Rehash(j) \/ RehashAgain(j)
    <3>1. same' \in [Jobs -> BOOLEAN]
      BY <1>0, <2>10, Zenon DEF Rehash, RehashAgain, TypeOK
    <3>2. UNCHANGED <<copies, plan, entries, raw, hashes>>
      BY <2>10 DEF Rehash, RehashAgain
    <3> QED
      BY <1>0, <2>1, <2>2, <3>1, <3>2 DEF TypeOK, original
  <2> QED
    BY <1>1, <2>3, <2>4, <2>5, <2>6, <2>7, <2>8, <2>9, <2>10 DEF JobStep
<1>2. CASE Crash
  <2>1. at' \in [Jobs -> {"idle"} \cup Working \cup Outcomes]
    BY <1>0, <1>2 DEF Crash, TypeOK, Outcomes
  <2>2. next' \in [Jobs -> 1..Len(Files)]
    BY <1>2, FileFacts DEF Crash
  <2> QED
    BY <1>0, <1>2, <2>1, <2>2 DEF Crash, TypeOK, original
<1>3. ASSUME NEW f \in FileNames, GameWrites(f) PROVE TypeOK'
  <2>1. PICK c \in MayHold(f) : save' = [save EXCEPT ![f] = c]
    BY <1>3 DEF GameWrites
  <2>2. /\ save' \in [FileNames -> Contents \cup {Nothing}]
        /\ \A g \in FileNames : save'[g] \in MayHold(g)
    BY <1>0, <2>1 DEF TypeOK, MayHold, Content, Contents
  <2>3. edits' \in 0..MaxEdits
    BY <1>0, <1>3, SaveAssumption DEF GameWrites, TypeOK
  <2> QED
    BY <1>0, <1>3, <2>2, <2>3 DEF GameWrites, TypeOK
<1>4. CASE UNCHANGED vars
  BY <1>0, <1>4 DEF vars, TypeOK
<1> QED
  BY <1>1, <1>2, <1>3, <1>4 DEF Next

(* A step of a job keeps what it relies on itself.                         *)
LEMMA PreparedStep ==
  ASSUME CopyInv, NEW j \in Jobs, JobStep(j)
  PROVE  Prepared(j)'
<1>0. TypeOK /\ Prepared(j) /\ OwnCopy(j)
  BY DEF CopyInv
<1>1. CASE Start(j)
  <2>1. plan'[j] \in Plan
    <3>1. PICK v \in Values :
            plan' = [plan EXCEPT ![j] = [campaign |-> save["campaign.xml"],
                                         descriptor |-> save["descriptor.xml"], value |-> v]]
      BY <1>1 DEF Start
    <3> QED
      BY <1>0, <3>1, SaveFacts DEF TypeOK, Plan
  <2>2. at'[j] = "inspect"
    BY <1>0, <1>1 DEF Start, Go, TypeOK
  <2> QED
    BY <1>0, <1>1, <2>1, <2>2 DEF Start, Prepared, Hashing, Making, Marked
<1>2. CASE Inspect(j)
  <2>1. /\ at[j] = "inspect" /\ at'[j] \in {"read", "refused"}
        /\ UNCHANGED <<plan, next, entries, raw, hashes>>
    BY <1>0, <1>2 DEF Inspect, Go, TypeOK
  <2> QED
    BY <1>0, <2>1 DEF Prepared, Hashing, Making, Marked
<1>3. CASE ReadCampaign(j)
  <2>1. /\ at[j] = "read" /\ raw'[j] = save["campaign.xml"]
        /\ \/ at'[j] = "hash" /\ save["campaign.xml"] = plan[j].campaign
           \/ at'[j] = "refused"
    BY <1>0, <1>3 DEF ReadCampaign, Go, TypeOK
  <2>2. Reads \subseteq entries'[j]
    <3>1. save["campaign.xml"] # Nothing /\ save["descriptor.xml"] # Nothing
      BY <1>0, SaveFacts, SaveAssumption DEF Contents
    <3>2. entries'[j] = {f \in FileNames : save[f] # Nothing}
      BY <1>0, <1>3 DEF ReadCampaign, TypeOK
    <3> QED
      BY <3>1, <3>2, FileFacts DEF Reads
  <2> QED
    BY <1>0, <1>3, <2>1, <2>2 DEF ReadCampaign, Prepared, Hashing, Making, Marked
<1>4. CASE HashFile(j)
  <2>1. /\ Len(hashes'[j]) = Len(hashes[j]) + 1
        /\ at[j] = "hash"
    BY <1>0, <1>4 DEF HashFile, TypeOK
  <2>2. next[j] \in Nat /\ Len(Files) \in Nat
    BY <1>0, FileFacts DEF TypeOK
  <2>3. /\ plan' = plan /\ raw' = raw /\ entries' = entries
        /\ \/ at'[j] = "hash" /\ next'[j] = next[j] + 1
           \/ at'[j] = "make" /\ next'[j] = 1 /\ next[j] = Len(Files)
    BY <1>0, <1>4, <2>1, SweepFacts DEF HashFile
  <2>4. Len(hashes[j]) = next[j] - 1 /\ plan[j] \in Plan /\ raw[j] = plan[j].campaign /\ Reads \subseteq entries[j]
    BY <1>0, <2>1 DEF Prepared
  <2>5. Len(hashes'[j]) = next[j]
    BY <2>1, <2>2, <2>4
  <2> QED
    BY <2>2, <2>3, <2>4, <2>5 DEF Prepared, Hashing, Making, Marked
<1>5. CASE Refuse(j)
  <2>1. at[j] # "idle" /\ at'[j] = "refused" /\ plan' = plan
    BY <1>0, <1>5, GoFacts DEF Refuse, Outcomes
  <2> QED
    BY <1>0, <2>1 DEF Prepared, Hashing, Making, Marked
<1>6. CASE at[j] \in {"make"} \cup Making \cup Marked \cup Discarding /\ ~Refuse(j)
  <2>1. UNCHANGED <<plan, entries, raw, hashes>>
    BY <1>6 DEF JobStep, Start, Inspect, ReadCampaign, HashFile, MakeDir, OpenFile, CopyFile, Rehash,
       Compare, OpenMark, WriteMark, Fail, RemoveFile, RemoveMark, EndRemoval, RehashAgain, CompareAgain, FailAgain,
       Making, Marked, Discarding
  <2>2. at[j] # "idle" /\ at'[j] \notin {"idle", "inspect", "read", "hash", "make"}
    BY <1>0, <1>6, StepMoves DEF Moves, Making, Marked, Discarding
  <2>3. at'[j] \in Hashing => at[j] \in Hashing
    BY <1>0, <1>6, <2>2, StepMoves DEF Moves, Hashing, Making, Marked, Discarding
  <2> QED
    BY <1>0, <2>1, <2>2, <2>3 DEF Prepared
<1>7. Start(j) \/ Inspect(j) \/ ReadCampaign(j) \/ HashFile(j) \/ Refuse(j)
        \/ at[j] \in {"make"} \cup Making \cup Marked \cup Discarding
  BY DEF JobStep, MakeDir, OpenFile, CopyFile, Rehash, Compare, OpenMark, WriteMark, Fail, RemoveFile, RemoveMark,
     EndRemoval, RehashAgain, CompareAgain, FailAgain, Making, Marked, Discarding
<1> QED
  BY <1>1, <1>2, <1>3, <1>4, <1>5, <1>6, <1>7

LEMMA OwnCopyStep ==
  ASSUME CopyInv, NEW j \in Jobs, JobStep(j)
  PROVE  OwnCopy(j)'
<1>0. TypeOK /\ Prepared(j)
  BY DEF CopyInv
<1> DEFINE Own  == OwnIs(j, at[j], next[j], plan[j], hashes[j], copies[plan[j]])
           Own2 == OwnIs(j, at'[j], next'[j], plan'[j], hashes'[j], copies'[plan'[j]])
<1>1. Own
  BY OwnMeans DEF CopyInv
<1>12. Own2 => OwnCopy(j)'
  BY OwnMeans
<1>2. CASE at'[j] \notin Making \cup Marked \cup Discarding
  <2>1. Own2
    BY <1>2 DEF OwnIs
  <2> QED
    BY <1>12, <2>1
<1>3. CASE MakeDir(j) /\ at'[j] \in Making \cup Marked \cup Discarding
  <2>1. PICK e : e = [files |-> Unmade, mark |-> "none", maker |-> j]
    OBVIOUS
  <2>2. e # Nothing /\ e.mark = "none" /\ e.maker = j
    BY <2>1, NewDir, DirFacts
  <2>3. /\ at'[j] = "copy" /\ plan' = plan /\ hashes' = hashes /\ next' = next /\ next[j] = 1
        /\ plan[j] \in Plan
        /\ copies' = [copies EXCEPT ![plan[j]] = e]
    <3>1. at[j] = "make" /\ plan' = plan /\ hashes' = hashes /\ next' = next
      BY <1>3 DEF MakeDir
    <3>2. at'[j] = "copy"
      BY <1>0, <1>3, <3>1, StepMoves DEF Moves, Making, Marked, Discarding
    <3>3. copies' = [copies EXCEPT ![plan[j]] = e]
      <4>1. ~Go(j, "refused")
        BY <1>0, <3>2 DEF Go, TypeOK
      <4> QED
        BY <1>3, <2>1, <4>1 DEF MakeDir
    <3> QED
      BY <1>0, <3>1, <3>2, <3>3 DEF Prepared
  <2>4. copies'[plan'[j]] = e
    BY <1>0, <2>3 DEF TypeOK
  <2>5. \A i \in 1..Len(Files) : ~(i < next'[j])
    BY <2>3, FileFacts
  <2>6. Own2
    BY <2>2, <2>3, <2>4, <2>5 DEF OwnIs, Making, Marked, Discarding
  <2> QED
    BY <1>12, <2>6
<1>4. CASE OpenFile(j)
  <2>1. /\ at[j] = "copy" /\ at' = at /\ next' = next /\ plan' = plan /\ hashes' = hashes
        /\ FileBecomes(j, Files[next[j]], Torn)
    BY <1>4, Touches DEF OpenFile
  <2>2. PICK e \in Dir : e = [copies[plan[j]] EXCEPT !.files[Files[next[j]]] = Torn]
                         /\ copies' = [copies EXCEPT ![plan[j]] = e]
    BY <2>1 DEF FileBecomes
  <2>3. plan[j] \in Plan /\ copies[plan[j]] \in Dir
    BY <2>1, OwnDir DEF Making
  <2>4. next[j] \in 1..Len(Files) /\ Files[next[j]] \in FileNames
    BY <1>0, FileFacts DEF TypeOK
  <2>5. e.files = [copies[plan[j]].files EXCEPT ![Files[next[j]]] = Torn]
        /\ e.mark = copies[plan[j]].mark /\ e.maker = copies[plan[j]].maker
    BY <2>2, <2>3, <2>4, FileChange
  <2>6. copies'[plan'[j]] = e /\ e # Nothing
    BY <1>0, <2>1, <2>2, <2>3, DirFacts DEF TypeOK
  <2>7. copies[plan[j]].files \in [FileNames -> Contents \cup {Nothing, Torn}]
    BY <2>3, DirFacts
  <2>8. ASSUME NEW i \in 1..Len(Files), Files[i] = "campaign.xml", i < next[j]
        PROVE  e.files["campaign.xml"] = Edited(plan[j].campaign, plan[j])
    <3>1. Files[next[j]] # "campaign.xml"
      BY <2>4, <2>8, SaveAssumption
    <3>2. copies[plan[j]].files["campaign.xml"] = Edited(plan[j].campaign, plan[j])
      BY <1>1, <2>1, <2>8 DEF OwnIs, Making, Discarding
    <3> QED
      BY <2>5, <2>7, <3>1, <3>2, FileFacts
  <2>9. Own2
    BY <1>1, <2>1, <2>5, <2>6, <2>8 DEF OwnIs, Making, Marked, Discarding
  <2> QED
    BY <1>12, <2>9
<1>5. CASE CopyFile(j)
  <2>1. /\ at[j] = "copy" /\ plan' = plan /\ hashes' = hashes
        /\ \/ next[j] < Len(Files) /\ next'[j] = next[j] + 1 /\ at'[j] = "copy"
           \/ next[j] = Len(Files) /\ at'[j] = "rehash"
    BY <1>0, <1>5, SweepFacts DEF CopyFile
  <2>2. plan[j] \in Plan /\ copies[plan[j]] \in Dir /\ raw[j] = plan[j].campaign /\ Reads \subseteq entries[j]
    BY <1>0, <2>1, OwnDir DEF Prepared, Hashing, Making
  <2>3. next[j] \in 1..Len(Files) /\ Files[next[j]] \in FileNames
    BY <1>0, FileFacts DEF TypeOK
  <2>4. \A i \in 1..Len(Files) : (at'[j] = "copy" => i < next'[j]) => i <= next[j]
    BY <2>1, <2>3, FileFacts
  <2>5. ASSUME NEW d \in Dir, copies'[plan[j]] = d, d.maker = j, d.mark = copies[plan[j]].mark,
               Files[next[j]] = "campaign.xml" => d.files["campaign.xml"] = Edited(plan[j].campaign, plan[j]),
               Files[next[j]] # "campaign.xml" => d.files["campaign.xml"] = copies[plan[j]].files["campaign.xml"]
        PROVE  OwnCopy(j)'
    <3>1. ASSUME NEW i \in 1..Len(Files), Files[i] = "campaign.xml", i <= next[j]
          PROVE  d.files["campaign.xml"] = Edited(plan[j].campaign, plan[j])
      <4>1. CASE i = next[j]
        BY <2>5, <3>1, <4>1
      <4>2. CASE i # next[j]
        <5>1. i < next[j] /\ Files[next[j]] # "campaign.xml"
          BY <2>3, <3>1, <4>2, SaveAssumption
        <5>2. copies[plan[j]].files["campaign.xml"] = Edited(plan[j].campaign, plan[j])
          BY <1>1, <2>1, <3>1, <5>1 DEF OwnIs, Making, Discarding
        <5> QED
          BY <2>5, <5>1, <5>2
      <4> QED
        BY <4>1, <4>2
    <3>2. d # Nothing /\ d.mark # "whole" /\ d.mark # "begun"
      BY <1>1, <2>1, <2>5, DirFacts DEF OwnIs, Making, Marked
    <3>3. \A i \in 1..Len(Files) : Files[i] = "campaign.xml" /\ (at'[j] = "copy" => i < next'[j])
             => d.files["campaign.xml"] = Edited(plan[j].campaign, plan[j])
      BY <2>4, <3>1
    <3>4. at'[j] \in {"copy", "rehash"} /\ plan'[j] = plan[j] /\ copies'[plan'[j]] = d
      BY <2>1, <2>5
    <3>5. Own2
      BY <2>5, <3>2, <3>3, <3>4 DEF OwnIs, Making, Marked, Discarding
    <3> QED
      BY <1>12, <3>5
  <2>6. copies[plan[j]].maker = j
    BY <2>1, OwnDir DEF Making
  <2>7. CASE copies' = copies /\ Files[next[j]] \notin entries[j]
    <3>1. Files[next[j]] # "campaign.xml"
      BY <2>2, <2>7 DEF Reads
    <3> QED
      BY <2>2, <2>5, <2>6, <2>7, <3>1
  <2>8. CASE CopyOf(j, Files[next[j]]) \in Contents /\ FileBecomes(j, Files[next[j]], CopyOf(j, Files[next[j]]))
    <3>1. PICK c \in Contents : c = CopyOf(j, Files[next[j]])
      BY <2>8
    <3>2. PICK e \in Dir : e = [copies[plan[j]] EXCEPT !.files[Files[next[j]]] = c]
                           /\ copies' = [copies EXCEPT ![plan[j]] = e]
      BY <2>8, <3>1 DEF FileBecomes
    <3>3. e.files = [copies[plan[j]].files EXCEPT ![Files[next[j]]] = c]
          /\ e.mark = copies[plan[j]].mark /\ e.maker = copies[plan[j]].maker
      BY <2>2, <2>3, <3>2, FileChange
    <3>4. copies[plan[j]].files \in [FileNames -> Contents \cup {Nothing, Torn}]
      BY <2>2, DirFacts
    <3>5. copies'[plan[j]] = e
      BY <1>0, <2>2, <3>2 DEF TypeOK
    <3>6. Files[next[j]] = "campaign.xml" => e.files["campaign.xml"] = Edited(plan[j].campaign, plan[j])
      BY <2>2, <2>3, <3>1, <3>3, <3>4 DEF CopyOf
    <3>7. Files[next[j]] # "campaign.xml" => e.files["campaign.xml"] = copies[plan[j]].files["campaign.xml"]
      BY <2>3, <3>3, <3>4, FileFacts
    <3> QED
      BY <2>5, <2>6, <3>3, <3>5, <3>6, <3>7
  <2> QED
    BY <1>5, <2>7, <2>8, Touches
<1>6. CASE Rehash(j) \/ RehashAgain(j) \/ Fail(j)
  <2>1. /\ UNCHANGED <<copies, plan, hashes>>
        /\ \/ at[j] = "rehash" /\ at'[j] \in {"rehash", "compare"}
           \/ at[j] = "again" /\ at'[j] \in {"again", "recompare"}
           \/ at[j] \in Making /\ at'[j] = "discard"
    <3>1. CASE Rehash(j)
      BY <1>0, <3>1, SweepFacts DEF Rehash
    <3>2. CASE RehashAgain(j)
      BY <1>0, <3>2, SweepFacts DEF RehashAgain
    <3>3. CASE Fail(j)
      BY <1>0, <3>3, GoFacts DEF Fail, Working, Discarding
    <3> QED
      BY <1>6, <3>1, <3>2, <3>3
  <2>2. Own2
    BY <1>1, <2>1 DEF OwnIs, Making, Marked, Discarding
  <2> QED
    BY <2>2, <1>12
<1>7. CASE Compare(j)
  <2>1. /\ at[j] = "compare" /\ UNCHANGED <<copies, plan, hashes>>
        /\ \/ at'[j] = "mark" /\ OthersEqual(j)
           \/ at'[j] = "reject"
    BY <1>0, <1>7 DEF Compare, Go, TypeOK
  <2>2. Own2
    BY <1>1, <2>1 DEF OwnIs, OthersEqual, Making, Marked, Discarding
  <2> QED
    BY <2>2, <1>12
<1>8. CASE OpenMark(j) \/ WriteMark(j)
  <2>1. PICK m \in {"begun", "whole"} :
           /\ \/ m = "begun" /\ at[j] = "mark" /\ at'[j] = "note"
              \/ m = "whole" /\ at[j] = "note" /\ at'[j] = "again"
           /\ UNCHANGED <<plan, hashes>>
           /\ MarkBecomes(j, m)
    <3>1. OpenMark(j) => at'[j] = "note"
      BY <1>0 DEF OpenMark, Go, TypeOK
    <3>2. WriteMark(j) => at'[j] = "again"
      BY <1>0 DEF WriteMark, Go, TypeOK
    <3> QED
      BY <1>8, <3>1, <3>2, Touches DEF OpenMark, WriteMark
  <2>2. PICK e \in Dir : e = [copies[plan[j]] EXCEPT !.mark = m] /\ copies' = [copies EXCEPT ![plan[j]] = e]
    BY <2>1 DEF MarkBecomes
  <2>3. plan[j] \in Plan /\ copies[plan[j]] \in Dir
    BY <2>1, OwnDir DEF Making
  <2>4. e.files = copies[plan[j]].files /\ e.mark = m /\ e.maker = copies[plan[j]].maker
    BY <2>2, <2>3, MarkChange
  <2>5. copies'[plan'[j]] = e /\ e # Nothing
    BY <1>0, <2>1, <2>2, <2>3, DirFacts DEF TypeOK
  <2>6. Own2
    BY <1>1, <2>1, <2>4, <2>5 DEF OwnIs, Making, Marked, Discarding
  <2> QED
    BY <2>6, <1>12
<1>9. CASE RemoveFile(j) \/ RemoveMark(j)
  <2>1. at[j] \in Discarding /\ UNCHANGED <<at, plan, hashes>>
    BY <1>9 DEF RemoveFile, RemoveMark
  <2>2. plan[j] \in Plan /\ copies[plan[j]] \in Dir
    BY <2>1, OwnDir
  <2>3. PICK e \in Dir :
          /\ copies' = [copies EXCEPT ![plan[j]] = e]
          /\ e.maker = copies[plan[j]].maker /\ e.mark \in {copies[plan[j]].mark, "none"}
    <3>1. CASE RemoveFile(j)
      <4>1. PICK f \in FileNames : FileBecomes(j, f, Nothing)
        BY <3>1, Touches
      <4>2. PICK e \in Dir : e = [copies[plan[j]] EXCEPT !.files[f] = Nothing]
                             /\ copies' = [copies EXCEPT ![plan[j]] = e]
        BY <4>1 DEF FileBecomes
      <4>3. e.mark = copies[plan[j]].mark /\ e.maker = copies[plan[j]].maker
        BY <2>2, <4>2, FileChange
      <4> QED
        BY <4>2, <4>3
    <3>2. CASE RemoveMark(j)
      <4>1. MarkBecomes(j, "none")
        BY <3>2, Touches
      <4>2. PICK e \in Dir : e = [copies[plan[j]] EXCEPT !.mark = "none"]
                             /\ copies' = [copies EXCEPT ![plan[j]] = e]
        BY <4>1 DEF MarkBecomes
      <4>3. e.mark = "none" /\ e.maker = copies[plan[j]].maker
        BY <2>2, <4>2, MarkChange
      <4> QED
        BY <4>2, <4>3
    <3> QED
      BY <1>9, <3>1, <3>2
  <2>4. copies'[plan'[j]] = e /\ e # Nothing
    BY <1>0, <2>1, <2>2, <2>3, DirFacts DEF TypeOK
  <2>5. Own2
    BY <1>1, <2>1, <2>3, <2>4 DEF OwnIs, Making, Marked, Discarding
  <2> QED
    BY <2>5, <1>12
<1>10. CASE CompareAgain(j)
  <2>1. /\ at[j] = "recompare" /\ UNCHANGED <<copies, plan, hashes>>
        /\ \/ at'[j] = "verified" /\ copies[plan[j]].files["descriptor.xml"] = plan[j].descriptor
           \/ at'[j] = "failed_reverification"
    BY <1>0, <1>10 DEF CompareAgain, Go, TypeOK
  <2>2. Own2
    BY <1>1, <2>1 DEF OwnIs, Making, Marked, Discarding
  <2> QED
    BY <2>2, <1>12
<1>11. Start(j) \/ Inspect(j) \/ ReadCampaign(j) \/ HashFile(j) \/ Refuse(j) \/ FailAgain(j) \/ EndRemoval(j)
         => at'[j] \notin Making \cup Marked \cup Discarding
  <2>1. Refuse(j) => at'[j] = "refused"
    BY <1>0, GoFacts DEF Refuse, Outcomes
  <2>2. FailAgain(j) => at'[j] = "failed"
    BY <1>0, GoFacts DEF FailAgain, Outcomes
  <2>3. EndRemoval(j) => at'[j] \in {"failed", "failed_verification"}
    BY <1>0 DEF EndRemoval, Go, TypeOK
  <2>4. Start(j) \/ Inspect(j) \/ ReadCampaign(j) \/ HashFile(j)
          => at'[j] \in {"inspect", "read", "hash", "make", "refused"}
    <3>1. Start(j) \/ Inspect(j) \/ ReadCampaign(j) \/ HashFile(j) => at[j] \in {"idle", "inspect", "read", "hash"}
      BY DEF Start, Inspect, ReadCampaign, HashFile
    <3> QED
      BY <1>0, <3>1, StepMoves DEF Moves
  <2> QED
    BY <2>1, <2>2, <2>3, <2>4 DEF Making, Marked, Discarding
<1> QED
  BY <1>2, <1>3, <1>4, <1>5, <1>6, <1>7, <1>8, <1>9, <1>10, <1>11, <1>12 DEF JobStep

(* MarkedIsWhole by what it speaks of: the plan p of a directory d, and    *)
(* the place l and hashes h of its maker.                                  *)
MarkIs(p, l, h, d) ==
  d # Nothing /\ d.mark # "none" =>
     \A i \in 1..Len(Files) :
        \/ Files[i] = "campaign.xml" /\ d.files["campaign.xml"] = Edited(p.campaign, p)
        \/ Files[i] # "campaign.xml" /\ h[i] \in {Nothing, d.files[Files[i]]}
        \/ d.files[Files[i]] = Nothing /\ d.mark = "begun" /\ l \in {"discard", "failed", "cut_short"}

LEMMA MarkMeans ==
  /\ MarkedIsWhole <=> \A p \in Plan : MarkIs(p, at[copies[p].maker], hashes[copies[p].maker], copies[p])
  /\ MarkedIsWhole' <=> \A p \in Plan : MarkIs(p, at'[copies'[p].maker], hashes'[copies'[p].maker], copies'[p])
<1>1. MarkedIsWhole <=> \A p \in Plan : MarkIs(p, at[copies[p].maker], hashes[copies[p].maker], copies[p])
  BY DEF MarkedIsWhole, MarkIs, PlannedCampaign, HalfRemoved
<1>2. MarkedIsWhole' <=> \A p \in Plan : MarkIs(p, at'[copies'[p].maker], hashes'[copies'[p].maker], copies'[p])
  BY DEF MarkedIsWhole, MarkIs, PlannedCampaign, HalfRemoved
<1> QED
  BY <1>1, <1>2

(* A directory that is marked is whole: its mark is created after the      *)
(* comparison, and only its maker's removal touches it then, whose end     *)
(* leaves the maker where HalfRemoved says.                                *)
LEMMA DirStep ==
  ASSUME CopyInv, NEW j \in Jobs, JobStep(j), NEW p \in Plan
  PROVE  /\ MarkIs(p, at'[copies'[p].maker], hashes'[copies'[p].maker], copies'[p])
         /\ MakerKnown(p)'
<1>0. TypeOK /\ MakerKnown(p)
  BY DEF CopyInv
<1>1. MarkIs(p, at[copies[p].maker], hashes[copies[p].maker], copies[p])
  BY MarkMeans DEF CopyInv
<1>2. CASE copies'[p] = Nothing
  BY <1>2 DEF MarkIs, MakerKnown
<1>3. CASE copies'[p] # Nothing /\ copies'[p] = copies[p]
  <2>1. PICK k : k = copies[p].maker
    OBVIOUS
  <2>2. k \in Jobs
    <3>1. copies[p] \in Dir
      BY <1>0, <1>3 DEF TypeOK
    <3> QED
      BY <2>1, <3>1, DirFacts
  <2>3. plan[k] = p /\ at[k] \notin Before
    BY <1>0, <1>3, <2>1 DEF MakerKnown, Before
  <2>4. plan'[k] = p /\ hashes'[k] = hashes[k]
    BY <1>0, <2>2, <2>3, StepIsOwn
  <2>5. /\ at'[k] \notin Before
        /\ at[k] \in {"discard", "failed", "cut_short"} => at'[k] \in {"discard", "failed", "cut_short"}
    <3>1. CASE k = j
      BY <1>0, <2>3, <3>1, StepMoves DEF Moves, Before
    <3>2. CASE k # j
      BY <1>0, <2>2, <2>3, <3>2, StepMoves DEF Course
    <3> QED
      BY <3>1, <3>2
  <2>6. copies'[p].maker = k
    BY <1>3, <2>1
  <2>7. MarkIs(p, at[k], hashes[k], copies[p])
    BY <1>1, <2>1
  <2>8. MarkIs(p, at'[k], hashes[k], copies[p])
    BY <2>5, <2>7 DEF MarkIs
  <2>9. MarkIs(p, at'[copies'[p].maker], hashes'[copies'[p].maker], copies'[p])
    BY <1>3, <2>4, <2>6, <2>8
  <2>10. MakerKnown(p)'
    BY <2>4, <2>5, <2>6 DEF MakerKnown, Before
  <2> QED
    BY <2>9, <2>10
<1>4. CASE copies'[p] # Nothing /\ copies'[p] # copies[p]
  <2>1. p = plan[j] /\ at[j] \in {"make"} \cup Making \cup Discarding
    BY <1>0, <1>4, StepIsOwn
  <2>2. plan'[j] = p /\ hashes'[j] = hashes[j]
    BY <2>1 DEF JobStep, Start, Inspect, ReadCampaign, HashFile, Refuse, MakeDir, OpenFile, CopyFile, Rehash,
       Compare, OpenMark, WriteMark, Fail, RemoveFile, RemoveMark, EndRemoval, RehashAgain, CompareAgain, FailAgain,
       Making, Discarding
  <2>3. at'[j] \in Making \cup Marked \cup Discarding
    <3>1. ~EndRemoval(j)
      <4>1. EndRemoval(j) => copies' = copies \/ copies' = [copies EXCEPT ![p] = Nothing]
        BY <2>1 DEF EndRemoval
      <4> QED
        BY <1>0, <1>4, <4>1 DEF TypeOK
    <3>2. at'[j] # "refused"
      <4>1. at[j] = "make" /\ at'[j] = "refused" => copies' = copies
        <5>1. MakeDir(j) /\ ~Go(j, "copy") => copies' = copies
          BY DEF MakeDir
        <5>2. Go(j, "copy") => at'[j] = "copy"
          BY <1>0 DEF Go, TypeOK
        <5>3. at[j] = "make" => MakeDir(j) \/ Refuse(j)
          BY DEF JobStep, Start, Inspect, ReadCampaign, HashFile, OpenFile, CopyFile, Rehash, Compare, OpenMark,
             WriteMark, Fail, RemoveFile, RemoveMark, EndRemoval, RehashAgain, CompareAgain, FailAgain,
             Making, Discarding
        <5> QED
          BY <5>1, <5>2, <5>3 DEF Refuse
      <4> QED
        BY <1>0, <1>4, <2>1, <4>1, StepMoves DEF Moves, Making, Discarding
    <3>3. at'[j] \notin {"failed", "failed_verification"}
      <4>1. at[j] \in Discarding => RemoveFile(j) \/ RemoveMark(j)
        BY <3>1 DEF JobStep, Start, Inspect, ReadCampaign, HashFile, Refuse, MakeDir, OpenFile, CopyFile, Rehash,
           Compare, OpenMark, WriteMark, Fail, RehashAgain, CompareAgain, FailAgain, Making, Discarding
      <4>2. at[j] \in Discarding => at' = at
        BY <4>1 DEF RemoveFile, RemoveMark
      <4> QED
        BY <1>0, <2>1, <4>2, StepMoves DEF Moves, Making, Discarding
    <3> QED
      BY <1>0, <2>1, <3>2, <3>3, StepMoves DEF Moves, Making, Marked, Discarding
  <2>4. OwnIs(j, at'[j], next'[j], p, hashes'[j], copies'[p])
    BY <2>2, OwnCopyStep, OwnMeans
  <2>5. copies'[p].maker = j
    BY <2>3, <2>4 DEF OwnIs
  <2>6. MakerKnown(p)'
    BY <2>2, <2>3, <2>5 DEF MakerKnown, Making, Marked, Discarding
  <2>7. MarkIs(p, at'[j], hashes'[j], copies'[p])
    <3>1. CASE at'[j] \in {"note"} \cup Marked
      BY <2>4, <3>1 DEF OwnIs, MarkIs, Making, Marked, Discarding
    <3>2. CASE at'[j] \in (Making \cup Discarding) \ {"note", "discard"}
      <4>1. copies'[p] \in Dir
        BY <1>4, TypeStep DEF TypeOK, Next
      <4>2. copies'[p].mark = "none"
        BY <2>4, <3>2, <4>1, DirFacts DEF OwnIs, Making, Marked, Discarding
      <4> QED
        BY <4>2 DEF MarkIs
    <3>3. CASE at'[j] = "discard"
      <4>1. OpenFile(j) => at'[j] = "copy"
        BY DEF OpenFile
      <4>2. CopyFile(j) => at'[j] \in {"copy", "rehash"}
        BY <1>0, SweepFacts DEF CopyFile
      <4>3. MakeDir(j) \/ OpenMark(j) \/ WriteMark(j) => at'[j] \in {"copy", "refused", "note", "again"}
        BY <1>0 DEF MakeDir, OpenMark, WriteMark, Go, TypeOK
      <4>4. EndRemoval(j) => at'[j] \in {"failed", "failed_verification"}
        BY <1>0 DEF EndRemoval, Go, TypeOK
      <4>5. RemoveFile(j) \/ RemoveMark(j)
        BY <1>4, <3>3, <4>1, <4>2, <4>3, <4>4 DEF JobStep, Start, Inspect, ReadCampaign, HashFile, Refuse, Rehash,
           Compare, Fail, RehashAgain, CompareAgain, FailAgain
      <4>6. at[j] = "discard"
        BY <3>3, <4>5 DEF RemoveFile, RemoveMark
      <4>7. copies[p] \in Dir /\ copies[p].maker = j
        BY <2>1, <4>6, OwnDir DEF Discarding
      <4>8. CASE RemoveMark(j)
        <5>1. PICK e \in Dir : e = [copies[p] EXCEPT !.mark = "none"] /\ copies' = [copies EXCEPT ![p] = e]
          BY <2>1, <4>8, Touches DEF MarkBecomes
        <5>2. e.mark = "none" /\ copies'[p] = e
          BY <1>0, <4>7, <5>1, MarkChange DEF TypeOK
        <5> QED
          BY <5>2 DEF MarkIs
      <4>9. CASE RemoveFile(j)
        <5>1. PICK f \in FileNames : FileBecomes(j, f, Nothing)
          BY <4>9, Touches
        <5>2. PICK e \in Dir : e = [copies[p] EXCEPT !.files[f] = Nothing] /\ copies' = [copies EXCEPT ![p] = e]
          BY <2>1, <5>1 DEF FileBecomes
        <5>3. /\ e.files = [copies[p].files EXCEPT ![f] = Nothing]
              /\ e.mark = copies[p].mark
          BY <4>7, <5>2, FileChange
        <5>4. copies'[p] = e
          BY <1>0, <5>2 DEF TypeOK
        <5>5. copies[p].files \in [FileNames -> Contents \cup {Nothing, Torn}] /\ copies[p] # Nothing
              /\ copies[p].mark \in {"none", "begun", "whole"}
          BY <4>7, DirFacts
        <5>6. e.mark # "whole"
          BY <2>4, <3>3, <5>4 DEF OwnIs, Marked, Discarding
        <5>7. MarkIs(p, "discard", hashes[j], copies[p])
          BY <1>1, <4>6, <4>7
        <5>8. MarkIs(p, "discard", hashes[j], e)
          <6> SUFFICES ASSUME e.mark # "none", NEW i \in 1..Len(Files)
                       PROVE  \/ Files[i] = "campaign.xml" /\ e.files["campaign.xml"] = Edited(p.campaign, p)
                              \/ Files[i] # "campaign.xml" /\ hashes[j][i] \in {Nothing, e.files[Files[i]]}
                              \/ e.files[Files[i]] = Nothing /\ e.mark = "begun"
            BY DEF MarkIs
          <6>1. Files[i] \in FileNames
            BY FileFacts
          <6>2. CASE Files[i] = f
            BY <5>3, <5>5, <5>6, <6>1, <6>2
          <6>3. CASE Files[i] # f
            <7>1. e.files[Files[i]] = copies[p].files[Files[i]]
              BY <5>3, <5>5, <6>1, <6>3
            <7> QED
              BY <5>3, <5>5, <5>7, <7>1 DEF MarkIs
          <6> QED
            BY <6>2, <6>3
        <5> QED
          BY <2>2, <3>3, <5>4, <5>8
      <4> QED
        BY <4>5, <4>8, <4>9
    <3> QED
      BY <2>3, <3>1, <3>2, <3>3 DEF Making, Marked, Discarding
  <2> QED
    BY <2>5, <2>6, <2>7
<1> QED
  BY <1>2, <1>3, <1>4

LEMMA InitInv == Init => CopyInv
<1> SUFFICES ASSUME Init PROVE CopyInv
  OBVIOUS
<1>1. TypeOK
  BY SaveAssumption, FileFacts DEF Init, TypeOK
<1>2. MarkedIsWhole
  BY DEF Init, MarkedIsWhole
<1>3. \A j \in Jobs : Prepared(j) /\ OwnCopy(j)
  BY DEF Init, Prepared, OwnCopy, Hashing, Making, Marked, Discarding
<1>4. \A p \in Plan : MakerKnown(p)
  BY DEF Init, MakerKnown
<1> QED
  BY <1>1, <1>2, <1>3, <1>4 DEF CopyInv

LEMMA InvStep == CopyInv /\ [Next]_vars => CopyInv'
<1> SUFFICES ASSUME CopyInv, [Next]_vars PROVE CopyInv'
  OBVIOUS
<1>0. TypeOK'
  BY TypeStep
<1>1. ASSUME NEW j \in Jobs, JobStep(j) PROVE CopyInv'
  <2>1. \A k \in Jobs : Prepared(k)' /\ OwnCopy(k)'
    BY <1>1, PreparedStep, OwnCopyStep, OthersKeep
  <2>2. \A p \in Plan : /\ MarkIs(p, at'[copies'[p].maker], hashes'[copies'[p].maker], copies'[p])
                        /\ MakerKnown(p)'
    BY <1>1, DirStep
  <2>3. MarkedIsWhole'
    BY <2>2, MarkMeans
  <2> QED
    BY <1>0, <2>1, <2>2, <2>3 DEF CopyInv
<1>2. CASE Crash
  <2>1. /\ UNCHANGED <<copies, plan, entries, raw, hashes>>
        /\ \A j \in Jobs :
             \/ at'[j] = at[j] /\ at[j] \notin Working
             \/ at[j] \in Discarding /\ at'[j] = "cut_short"
             \/ at[j] \in Working \ Discarding /\ at'[j] = "died"
    BY <1>2 DEF Crash, CopyInv, TypeOK
  <2>2. ASSUME NEW p \in Plan
        PROVE  /\ MarkIs(p, at'[copies'[p].maker], hashes'[copies'[p].maker], copies'[p])
               /\ MakerKnown(p)'
    <3>1. CASE copies[p] = Nothing
      BY <2>1, <3>1 DEF MarkIs, MakerKnown
    <3>2. CASE copies[p] # Nothing
      <4>1. PICK k : k = copies[p].maker
        OBVIOUS
      <4>2. k \in Jobs
        BY <3>2, <4>1, DirFacts DEF CopyInv, TypeOK
      <4>3. MakerKnown(p) /\ MarkIs(p, at[k], hashes[k], copies[p])
        BY <4>1, MarkMeans DEF CopyInv
      <4>4. MarkIs(p, at'[k], hashes[k], copies[p])
        <5>1. at[k] \in {"discard", "failed", "cut_short"} => at'[k] \in {"discard", "failed", "cut_short"}
          BY <2>1, <4>2 DEF Working, Making, Discarding
        <5> QED
          BY <4>3, <5>1 DEF MarkIs
      <4>5. at'[k] \notin {"idle", "inspect", "read", "hash", "make"}
        BY <2>1, <3>2, <4>1, <4>2, <4>3 DEF MakerKnown
      <4>6. MakerKnown(p)'
        BY <2>1, <4>1, <4>3, <4>5 DEF MakerKnown
      <4> QED
        BY <2>1, <4>1, <4>4, <4>6
    <3> QED
      BY <3>1, <3>2
  <2>3. ASSUME NEW j \in Jobs PROVE Prepared(j)' /\ OwnCopy(j)'
    <3>1. CASE at'[j] = at[j] /\ at[j] \notin Working
      <4>1. Prepared(j)'
        <5>1. next'[j] = 1
          BY <1>2 DEF Crash
        <5>2. at[j] \notin {"inspect", "read", "hash", "make"}
          BY <3>1 DEF Working
        <5>3. Prepared(j)
          BY DEF CopyInv
        <5> QED
          BY <2>1, <3>1, <5>1, <5>2, <5>3 DEF Prepared, Hashing, Making, Marked
      <4>2. OwnIs(j, at[j], next[j], plan[j], hashes[j], copies[plan[j]])
        BY OwnMeans DEF CopyInv
      <4>3. OwnIs(j, at'[j], next'[j], plan'[j], hashes'[j], copies'[plan'[j]])
        BY <2>1, <3>1, <4>2 DEF OwnIs, Making, Marked, Discarding, Working
      <4> QED
        BY <4>1, <4>3, OwnMeans
    <3>2. CASE at[j] \in Working /\ at'[j] \in {"died", "cut_short"}
      BY <2>1, <3>2 DEF CopyInv, Prepared, OwnCopy, Working, Hashing, Making, Marked, Discarding
    <3> QED
      BY <2>1, <3>1, <3>2 DEF Working
  <2>4. MarkedIsWhole'
    BY <2>2, MarkMeans
  <2> QED
    BY <1>0, <2>2, <2>3, <2>4 DEF CopyInv
<1>3. CASE (\E f \in FileNames : GameWrites(f)) \/ UNCHANGED vars
  <2>1. UNCHANGED <<copies, plan, at, next, entries, raw, hashes>>
    BY <1>3 DEF GameWrites, vars
  <2>2. MarkedIsWhole'
    BY <2>1, MarkMeans DEF CopyInv
  <2>3. \A j \in Jobs : Prepared(j)'
    BY <2>1 DEF CopyInv, Prepared
  <2>4. \A j \in Jobs : OwnCopy(j)'
    BY <2>1, OwnMeans DEF CopyInv
  <2>5. \A p \in Plan : MakerKnown(p)'
    BY <2>1 DEF CopyInv, MakerKnown
  <2> QED
    BY <1>0, <2>2, <2>3, <2>4, <2>5 DEF CopyInv
<1> QED
  BY <1>1, <1>2, <1>3 DEF Next

LEMMA CopyInvariant == Spec => []CopyInv
BY InitInv, InvStep, PTL DEF Spec

(* The writer's state keeps its type.                                      *)
THEOREM TypeCorrect == Spec => []TypeOK
<1>1. CopyInv => TypeOK
  BY DEF CopyInv
<1> QED
  BY <1>1, CopyInvariant, PTL

(* What a comparison has accepted, and what is reported as written, is     *)
(* what was planned, for any folder of files, any number of writes and any *)
(* changes by the game.                                                    *)
THEOREM WritesWhatWasPlanned == Spec => []WrittenIsPlanned
<1>1. CopyInv => WrittenIsPlanned
  <2> SUFFICES ASSUME CopyInv, NEW j \in Jobs, at[j] \in {"mark", "note"} \cup Marked
               PROVE  /\ copies[plan[j]] # Nothing
                      /\ at[j] \in {"mark", "note"} \/ copies[plan[j]].mark = "whole"
                      /\ PlannedCampaign(plan[j])
                      /\ \A i \in 1..Len(Files) :
                            \/ Files[i] = "campaign.xml" \/ hashes[j][i] = Nothing
                            \/ copies[plan[j]].files[Files[i]] = hashes[j][i]
    BY DEF WrittenIsPlanned, Marked
  <2>1. OwnIs(j, at[j], next[j], plan[j], hashes[j], copies[plan[j]])
    BY OwnMeans DEF CopyInv
  <2>2. at[j] \in Making \cup Marked \cup Discarding /\ at[j] \notin Discarding /\ at[j] # "copy"
    BY DEF Making, Marked, Discarding
  <2>3. PICK i \in 1..Len(Files) : Files[i] = "campaign.xml"
    BY FileFacts
  <2>4. PlannedCampaign(plan[j])
    BY <2>1, <2>2, <2>3 DEF OwnIs, PlannedCampaign
  <2> QED
    BY <2>1, <2>2, <2>4 DEF OwnIs
<1> QED
  BY <1>1, CopyInvariant, PTL

(* A directory with the expectation file is a whole and planned copy,      *)
(* wherever a write failed or died, but for what the removal of a copy     *)
(* whose expectation file was never finished took away before it stopped.  *)
THEOREM MarksOnlyWhole == Spec => []MarkedIsWhole
<1>1. CopyInv => MarkedIsWhole
  BY DEF CopyInv
<1> QED
  BY <1>1, CopyInvariant, PTL

(* A copy that verifies again is of the save that was reviewed.            *)
THEOREM VerifiesWhatWasReviewed == Spec => []VerifiedIsReviewed
<1>1. CopyInv => VerifiedIsReviewed
  <2> SUFFICES ASSUME CopyInv, NEW j \in Jobs, at[j] = "verified"
               PROVE  Holds(copies[plan[j]].files, [plan[j] EXCEPT !.campaign.value = plan[j].value])
    BY DEF VerifiedIsReviewed
  <2>1. OwnIs(j, at[j], next[j], plan[j], hashes[j], copies[plan[j]])
    BY OwnMeans DEF CopyInv
  <2>2. plan[j] \in Plan
    BY DEF CopyInv, Prepared
  <2>3. PICK i \in 1..Len(Files) : Files[i] = "campaign.xml"
    BY FileFacts
  <2>4. /\ copies[plan[j]].files["campaign.xml"] = [plan[j].campaign EXCEPT !.value = plan[j].value]
        /\ copies[plan[j]].files["descriptor.xml"] = plan[j].descriptor
    BY <2>1, <2>3 DEF OwnIs, Edited, Making, Marked, Discarding
  <2> QED
    BY <2>2, <2>4 DEF Holds, Plan
<1> QED
  BY <1>1, CopyInvariant, PTL

(* No write touches another's directory, and none that is finished.        *)
THEOREM OnlyTheMakerWrites == Spec => MakerOnly
<1>1. CopyInv /\ [Next]_vars =>
        [\A p \in Plan :
           copies[p] # Nothing /\ copies'[p] # copies[p] =>
              /\ plan[copies[p].maker] = p
              /\ at[copies[p].maker] \in {"copy", "rehash", "compare", "mark", "note", "discard", "reject"}
              /\ at'[copies[p].maker] # "refused"]_vars
  <2> SUFFICES ASSUME CopyInv, Next, NEW p \in Plan, copies[p] # Nothing, copies'[p] # copies[p]
               PROVE  /\ plan[copies[p].maker] = p
                      /\ at[copies[p].maker] \in {"copy", "rehash", "compare", "mark", "note", "discard", "reject"}
                      /\ at'[copies[p].maker] # "refused"
    OBVIOUS
  <2>0. TypeOK
    BY DEF CopyInv
  <2>1. PICK j \in Jobs : JobStep(j)
    BY DEF Next, Crash, GameWrites
  <2>2. p = plan[j] /\ at[j] \in Making \cup Discarding
    BY <2>0, <2>1, StepIsOwn
  <2>3. copies[p].maker = j
    BY <2>2 DEF CopyInv, OwnCopy
  <2>4. at'[j] # "refused"
    BY <2>0, <2>1, <2>2, StepMoves DEF Moves, Making, Discarding
  <2> QED
    BY <2>2, <2>3, <2>4 DEF Making, Discarding
<1> QED
  BY <1>1, CopyInvariant, PTL DEF Spec, MakerOnly

------------------------------------------------------------------------------
(* The tab: what a step does to threads and tokens.                        *)

(* _run starts one thread under the next token of its button.              *)
LEMMA RunStarts ==
  ASSUME TabTypeOK, NEW t \in Tasks, NEW b \in Buttons, NEW e \in Nat, NEW p \in ReviewedPlan \cup {None}, Run(t, b, e, p)
  PROVE  /\ task[t].st = "idle" /\ t \notin Live /\ Live' = Live \cup {t}
         /\ task'[t] = [st |-> "running", button |-> b, token |-> token[b] + 1, epoch |-> e, plan |-> p,
                        outcome |-> "none", dialog |-> b \in Cancellable, seq |-> runs + 1]
         /\ \A u \in Tasks \ {t} : task'[u] = task[u]
         /\ token'[b] = token[b] + 1 /\ \A c \in Buttons \ {b} : token'[c] = token[c]
         /\ runs' = runs + 1 /\ runs' \in Nat /\ lastWrite' = IF b = "write" THEN runs + 1 ELSE lastWrite
         /\ task' \in [Tasks -> Task] /\ token' \in [Buttons -> Nat]
<1> DEFINE r == [st |-> "running", button |-> b, token |-> token[b] + 1, epoch |-> e, plan |-> p,
                 outcome |-> "none", dialog |-> b \in Cancellable, seq |-> runs + 1]
<1>1. /\ task[t].st = "idle" /\ task' = [task EXCEPT ![t] = r] /\ token' = [token EXCEPT ![b] = token[b] + 1]
      /\ runs' = runs + 1 /\ lastWrite' = IF b = "write" THEN runs + 1 ELSE lastWrite
  BY DEF Run
<1>2. token \in [Buttons -> Nat] /\ runs \in Nat /\ task \in [Tasks -> Task]
  BY DEF TabTypeOK
<1>3. (b \in Cancellable) \in BOOLEAN
  OBVIOUS
<1>4. r \in Task
  BY <1>2, <1>3 DEF Task
<1>5. r.st = "running"
  OBVIOUS
<1> HIDE DEF r
<1>6. task'[t] = r /\ \A u \in Tasks \ {t} : task'[u] = task[u]
  BY <1>1, <1>2
<1>7. Live' = Live \cup {t} /\ t \notin Live
  BY <1>1, <1>5, <1>6 DEF Live
<1>8. task' \in [Tasks -> Task] /\ token' \in [Buttons -> Nat]
  BY <1>1, <1>2, <1>4
<1> QED BY <1>1, <1>2, <1>6, <1>7, <1>8 DEF r

(* What happens to a thread once it runs, and to the token of its button.  *)
Moved(t) ==
    /\ task[t].st # "idle"
    /\ \A u \in Tasks \ {t} : task'[u] = task[u]
    /\ task'[t].button = task[t].button /\ task'[t].token = task[t].token /\ task'[t].seq = task[t].seq
    /\ task'[t].plan = task[t].plan /\ task'[t].epoch = task[t].epoch
    /\ task'[t].dialog => task[t].dialog /\ task'[t].st # "idle"
    /\ Asked(t)' => Asked(t)
    /\ \/ token' = token
       \/ /\ token' = Dropped(t)
          /\ task[t].button \in Cancellable /\ ~task'[t].dialog
    /\ (task'[t].dialog = task[t].dialog) \/ ~Asked(t)' \/ token' = Dropped(t)
    /\ task' \in [Tasks -> Task]
    /\ UNCHANGED <<runs, lastWrite>>

LEMMA ThreadMoves ==
  ASSUME TabTypeOK, OneDialog, NEW t \in Tasks,
         StopWaiting(t) \/ WorkerEnds(t) \/ Delivered(t) \/ Failed(t) \/ Finished(t)
  PROVE  Moved(t)
<1> USE DEF Moved, Asked
<1>1. task \in [Tasks -> Task] /\ task[t] \in Task
  BY DEF TabTypeOK
<1>2. CASE StopWaiting(t)
  <2>1. task[t].st # "idle" /\ task[t].button \in Cancellable
    BY <1>2 DEF StopWaiting, OneDialog
  <2>2. task' = [task EXCEPT ![t] = [task[t] EXCEPT !.dialog = FALSE]] /\ token' = Dropped(t) /\ UNCHANGED <<runs, lastWrite>>
    BY <1>2 DEF StopWaiting
  <2>3. [task[t] EXCEPT !.dialog = FALSE] \in Task
    BY <1>1 DEF Task
  <2>4. /\ task' \in [Tasks -> Task] /\ \A u \in Tasks \ {t} : task'[u] = task[u]
        /\ task'[t] = [task[t] EXCEPT !.dialog = FALSE]
    BY <1>1, <2>2, <2>3
  <2>5. /\ ~task'[t].dialog /\ task'[t].st = task[t].st
        /\ task'[t].button = task[t].button /\ task'[t].token = task[t].token /\ task'[t].seq = task[t].seq
        /\ task'[t].plan = task[t].plan /\ task'[t].epoch = task[t].epoch
    BY <1>1, <2>4 DEF Task
  <2>6. Asked(t)' => Asked(t)
    BY <2>5
  <2> QED BY <2>1, <2>2, <2>4, <2>5, <2>6, Zenon
<1>3. CASE WorkerEnds(t)
  <2>1. PICK o \in {"good", "bad", "failed"} : task' = [task EXCEPT ![t] = [task[t] EXCEPT !.st = "posted", !.outcome = o]]
    BY <1>1, <1>3 DEF WorkerEnds
  <2>2. [task[t] EXCEPT !.st = "posted", !.outcome = o] \in Task
    BY <1>1 DEF Task
  <2>3. task[t].st = "running" /\ UNCHANGED <<token, runs, lastWrite>>
    BY <1>3 DEF WorkerEnds
  <2>4. /\ task' \in [Tasks -> Task] /\ \A u \in Tasks \ {t} : task'[u] = task[u]
        /\ task'[t] = [task[t] EXCEPT !.st = "posted", !.outcome = o]
    BY <1>1, <2>1, <2>2
  <2>5. /\ task'[t].st = "posted" /\ task'[t].dialog = task[t].dialog
        /\ task'[t].button = task[t].button /\ task'[t].token = task[t].token /\ task'[t].seq = task[t].seq
        /\ task'[t].plan = task[t].plan /\ task'[t].epoch = task[t].epoch
    BY <1>1, <2>4 DEF Task
  <2>6. Asked(t)' => Asked(t)
    BY <2>3
  <2>7. task[t].st # "idle"
    BY <2>3
  <2> QED BY <2>3, <2>4, <2>5, <2>6, <2>7, Zenon
<1>4. CASE Delivered(t) \/ Failed(t)
  <2>1. task' = [task EXCEPT ![t] = [task[t] EXCEPT !.st = "delivered"]] /\ task[t].st = "posted"
    BY <1>4 DEF Delivered, Failed
  <2>2. UNCHANGED <<token, runs, lastWrite>>
    BY <1>4 DEF Delivered, Failed
  <2>3. [task[t] EXCEPT !.st = "delivered"] \in Task
    BY <1>1 DEF Task
  <2> QED BY <1>1, <2>1, <2>2, <2>3 DEF Task
<1>5. CASE Finished(t)
  <2>1. /\ task' = [task EXCEPT ![t] = [task[t] EXCEPT !.st = "idle", !.dialog = FALSE]]
        /\ task[t].st = "delivered" /\ UNCHANGED <<runs, lastWrite>>
    BY <1>1, <1>5 DEF Finished
  <2>2. token' = token \/ (token' = Dropped(t) /\ task[t].button \in Cancellable)
    BY <1>5 DEF Finished
  <2>3. [task[t] EXCEPT !.st = "idle", !.dialog = FALSE] \in Task
    BY <1>1 DEF Task
  <2> QED BY <1>1, <2>1, <2>2, <2>3 DEF Task
<1> QED BY <1>2, <1>3, <1>4, <1>5

(* A dropped token is the dropped request's own: it was no other's.        *)
LEMMA DropFacts ==
  ASSUME TabTypeOK, TokensDiffer, NEW t \in Tasks, Moved(t)
  PROVE  /\ token' \in [Buttons -> Nat]
         /\ \A c \in Buttons : token'[c] = token[c] \/ token'[c] = token[c] + 1
         /\ \A u \in Live \ {t} : Awaited(u)' <=> Awaited(u)
         /\ Awaited(t)' => Awaited(t) /\ token' # Dropped(t)
<1>1. /\ task \in [Tasks -> Task] /\ token \in [Buttons -> Nat]
      /\ \A u \in Tasks : task[u].button \in Buttons /\ task[u].token \in Nat /\ token[task[u].button] \in Nat
  BY DEF TabTypeOK, Task
<1>2. /\ t \in Live /\ task'[t].button = task[t].button /\ task'[t].token = task[t].token
      /\ \A u \in Tasks \ {t} : task'[u] = task[u]
  BY DEF Moved, Live
<1>3. CASE token' = Dropped(t)
  <2>1. /\ token' \in [Buttons -> Nat]
        /\ \A c \in Buttons : token'[c] = token[c] \/ token'[c] = token[c] + 1
    BY <1>1, <1>3 DEF Dropped
  <2>2. token'[task[t].button] # task[t].token
    BY <1>1, <1>3 DEF Dropped
  <2>3. ASSUME NEW u \in Live \ {t} PROVE token'[task[u].button] = task[u].token <=> token[task[u].button] = task[u].token
    <3>1. u \in Tasks /\ u \in Live /\ task[u].token <= token[task[u].button]
      BY <2>3 DEF TokensDiffer, Live
    <3>2. CASE token'[task[u].button] = token[task[u].button]
      BY <3>2
    <3>3. CASE token'[task[u].button] # token[task[u].button]
      <4>1. task[u].button = task[t].button /\ token[task[t].button] = task[t].token
            /\ token'[task[u].button] = token[task[u].button] + 1
        BY <1>1, <1>3, <3>1, <3>3 DEF Dropped
      <4>2. task[u].token # task[t].token
        BY <1>2, <2>3, <4>1 DEF TokensDiffer
      <4> QED BY <1>1, <3>1, <4>1, <4>2
    <3> QED BY <3>2, <3>3
  <2> QED BY <1>1, <1>2, <2>1, <2>2, <2>3 DEF Awaited, Live
<1>4. CASE token' # Dropped(t)
  <2>1. token' = token
    BY <1>4 DEF Moved
  <2> QED BY <1>1, <1>2, <1>4, <2>1 DEF Awaited, Live
<1> QED BY <1>3, <1>4

(* What a delivered result does to the tab.                                *)
LEMMA DeliveredShows ==
  ASSUME TabTypeOK, NEW t \in Tasks, Delivered(t)
  PROVE  /\ \/ UNCHANGED <<screen, inForce, view, enabled>>
            \/ Awaited(t) /\ task[t].button = "write" /\ ShowReport(t)
            \/ Awaited(t) /\ task[t].button = "choose" /\ ShowInspection(t)
            \/ Awaited(t) /\ task[t].button = "review" /\ ShowPlan(t)
         /\ task[t].button = "write" => IF Awaited(t) THEN ShowReport(t) ELSE UNCHANGED <<screen, inForce, view, enabled>>
         /\ task[t].st = "posted" /\ ~Asked(t)' /\ UNCHANGED <<epoch, output, errorBoxes>>
<1>1. task[t].button \in {"choose", "review", "write"} /\ task[t] \in Task /\ task \in [Tasks -> Task]
  BY DEF TabTypeOK, Task, Buttons
<1>2. task[t].st = "posted" /\ ~Asked(t)' /\ UNCHANGED <<epoch, output, errorBoxes>>
  BY <1>1 DEF Delivered, Asked, Task
<1>3. \/ ~Awaited(t) /\ UNCHANGED <<screen, inForce, view, enabled>>
      \/ Awaited(t) /\ task[t].button = "write" /\ ShowReport(t)
      \/ Awaited(t) /\ task[t].button # "write" /\ task[t].epoch # epoch /\ UNCHANGED <<screen, inForce, view, enabled>>
      \/ Awaited(t) /\ task[t].button = "choose" /\ task[t].epoch = epoch /\ ShowInspection(t)
      \/ Awaited(t) /\ task[t].button = "review" /\ task[t].epoch = epoch /\ ShowPlan(t)
  BY DEF Delivered
<1> QED BY <1>2, <1>3, Zenon

ThreadTypes ==
    /\ task \in [Tasks -> Task] /\ token \in [Buttons -> Nat]
    /\ errorBoxes \in Nat /\ runs \in Nat /\ lastWrite \in Nat
ScreenTypes ==
    /\ selected \in Saves \cup {None} /\ table \in Saves \cup {None}
    /\ typed \in Requests \cup {None} /\ opted \in BOOLEAN
    /\ inForce \in ReviewedPlan \cup {None} /\ epoch \in Nat /\ view \in View
    /\ enabled \in [Buttons -> BOOLEAN] /\ output \in BOOLEAN

LEMMA NoticeIsShown == Notice \in View
BY DEF Notice, View

LEMMA InvalidateTypes ==
  ASSUME TabTypeOK, NEW on \in [Buttons -> BOOLEAN], Invalidate(on)
  PROVE  inForce' \in ReviewedPlan \cup {None} /\ epoch' \in Nat /\ view' \in View /\ enabled' \in [Buttons -> BOOLEAN]
<1>1. inForce' = None /\ epoch' = epoch + 1 /\ view' = Notice /\ enabled' = [on EXCEPT !["write"] = FALSE]
  BY DEF Invalidate
<1>2. epoch \in Nat
  BY DEF TabTypeOK
<1>3. enabled' \in [Buttons -> BOOLEAN]
  BY <1>1
<1> QED BY <1>1, <1>2, <1>3, NoticeIsShown

LEMMA RunTypes ==
  ASSUME TabTypeOK, NEW t \in Tasks, NEW b \in Buttons, NEW e \in Nat, NEW p \in ReviewedPlan \cup {None}, Run(t, b, e, p)
  PROVE  ThreadTypes'
<1>1. errorBoxes' = errorBoxes /\ errorBoxes \in Nat /\ lastWrite \in Nat /\ runs \in Nat
  BY DEF Run, TabTypeOK
<1>2. lastWrite' \in Nat
  <2>1. lastWrite' = IF b = "write" THEN runs + 1 ELSE lastWrite
    BY DEF Run
  <2> QED BY <1>1, <2>1
<1> QED BY <1>1, <1>2, RunStarts DEF ThreadTypes

(* The plan that Review has made is of the screen.                         *)
LEMMA ReviewAsks ==
  ASSUME TabTypeOK, selected # None, typed \in Requests
  PROVE  [save |-> selected, request |-> typed, opted |-> opted, writable |-> FALSE] \in ReviewedPlan
BY DEF TabTypeOK, ReviewedPlan

LEMMA TabTypeStep ==
  ASSUME TabTypeOK, ReviewsHavePlans, OneDialog, TokensDiffer, [TabNext]_tabVars PROVE TabTypeOK'
<1>b. "choose" \in Buttons /\ "review" \in Buttons /\ "write" \in Buttons
  BY DEF Buttons
<1>c. ThreadTypes /\ ScreenTypes /\ (ThreadTypes' /\ ScreenTypes' => TabTypeOK')
  BY DEF TabTypeOK, ThreadTypes, ScreenTypes
<1>d. UNCHANGED threads => ThreadTypes'
  BY <1>c DEF ThreadTypes, threads
<1>e. UNCHANGED <<screen, inForce, epoch, view, enabled, output>> => ScreenTypes'
  BY <1>c DEF ScreenTypes, screen
<1>1. ASSUME NEW t \in Tasks, NEW s \in Saves, ChooseSave(t, s) PROVE TabTypeOK'
  <2>1. Run(t, "choose", epoch + 1, None) /\ errorBoxes' = errorBoxes
    BY <1>1 DEF ChooseSave, Run
  <2>2. ThreadTypes'
    BY <1>b, <1>c, <2>1, RunTypes DEF ScreenTypes
  <2>3. [enabled EXCEPT !["choose"] = FALSE, !["review"] = FALSE] \in [Buttons -> BOOLEAN]
    BY <1>c DEF ScreenTypes
  <2>4. ScreenTypes'
    BY <1>1, <1>c, <2>3, InvalidateTypes DEF ChooseSave, ScreenTypes
  <2> QED BY <1>c, <2>2, <2>4
<1>2. ASSUME NEW r \in Requests \cup {None}, EnterValues(r) PROVE TabTypeOK'
  BY <1>2, <1>c, <1>d, InvalidateTypes DEF EnterValues, ScreenTypes
<1>3. CASE ToggleCapacity
  BY <1>3, <1>c, <1>d, InvalidateTypes DEF ToggleCapacity, ScreenTypes
<1>4. CASE HideWorkshop
  BY <1>4, <1>c, <1>d, InvalidateTypes DEF HideWorkshop, ScreenTypes, screen
<1>5. CASE SetOutput \/ ReviewDeclined \/ WriteDeclined
  BY <1>5, <1>c, <1>d, NoticeIsShown DEF SetOutput, ReviewDeclined, WriteDeclined, ScreenTypes, screen
<1>6. CASE DismissError
  BY <1>6, <1>c, <1>e DEF DismissError, ThreadTypes
<1>7. ASSUME NEW t \in Tasks, Review(t) PROVE TabTypeOK'
  <2> DEFINE p == [save |-> selected, request |-> typed, opted |-> opted, writable |-> FALSE]
  <2>1. Run(t, "review", epoch, p) /\ errorBoxes' = errorBoxes
    BY <1>7 DEF Review, Run
  <2>2. p \in ReviewedPlan
    BY <1>7, ReviewAsks DEF Review
  <2> HIDE DEF p
  <2>3. ThreadTypes'
    BY <1>b, <1>c, <2>1, <2>2, RunTypes DEF ScreenTypes
  <2>4. ScreenTypes'
    BY <1>7, <1>c DEF Review, ScreenTypes, screen
  <2> QED BY <1>c, <2>3, <2>4
<1>8. ASSUME NEW t \in Tasks, WriteCopy(t) PROVE TabTypeOK'
  <2>1. Run(t, "write", epoch, inForce) /\ errorBoxes' = errorBoxes
    BY <1>8 DEF WriteCopy, Run
  <2>2. ThreadTypes'
    BY <1>b, <1>c, <2>1, RunTypes DEF ScreenTypes
  <2>3. ScreenTypes'
    BY <1>8, <1>c DEF WriteCopy, ScreenTypes, screen
  <2> QED BY <1>c, <2>2, <2>3
<1>9. ASSUME NEW t \in Tasks, StopWaiting(t) \/ Thread(t) PROVE ThreadTypes'
  <2>1. Moved(t)
    BY <1>9, ThreadMoves DEF Thread
  <2>2. errorBoxes' \in Nat
    <3>1. errorBoxes' = errorBoxes \/ errorBoxes' = errorBoxes + 1
      BY <1>9 DEF Thread, StopWaiting, WorkerEnds, Delivered, Failed, Finished
    <3> QED BY <1>c, <3>1 DEF ThreadTypes
  <2> QED BY <1>c, <2>1, <2>2, DropFacts DEF Moved, ThreadTypes
<1>10. ASSUME NEW t \in Tasks, StopWaiting(t) \/ WorkerEnds(t) \/ Failed(t) PROVE ScreenTypes'
  BY <1>10, <1>e DEF StopWaiting, WorkerEnds, Failed
<1>11. ASSUME NEW t \in Tasks, Finished(t) PROVE ScreenTypes'
  BY <1>11, <1>c DEF Finished, ScreenTypes, screen
<1>12. ASSUME NEW t \in Tasks, Delivered(t) PROVE ScreenTypes'
  <2>1. UNCHANGED <<epoch, output>> /\ task[t].seq \in Nat
    BY <1>12, <1>c, DeliveredShows DEF ThreadTypes, Task
  <2>2. CASE UNCHANGED <<screen, inForce, view, enabled>>
    BY <1>c, <2>1, <2>2 DEF ScreenTypes, screen
  <2>3. CASE ShowReport(t)
    BY <1>c, <2>1, <2>3 DEF ShowReport, ScreenTypes, screen, View
  <2>4. CASE ShowInspection(t)
    BY <1>c, <2>1, <2>4 DEF ShowInspection, ScreenTypes
  <2>5. CASE task[t].button = "review" /\ ShowPlan(t)
    <3> DEFINE p == [task[t].plan EXCEPT !.writable = task[t].outcome = "good"]
    <3>1. task[t].plan \in ReviewedPlan
      BY <1>12, <2>5 DEF ReviewsHavePlans, Live, Delivered
    <3>2. p \in ReviewedPlan
      BY <3>1 DEF ReviewedPlan
    <3>3. inForce' = p /\ view' = [kind |-> "plan", plan |-> p] /\ enabled' = [enabled EXCEPT !["write"] = Writable(p)]
          /\ UNCHANGED screen
      BY <2>5 DEF ShowPlan
    <3> HIDE DEF p
    <3>4. p.writable \in BOOLEAN /\ Writable(p) \in BOOLEAN
      BY <3>2 DEF ReviewedPlan, Writable
    <3> QED BY <1>c, <2>1, <3>2, <3>3, <3>4 DEF ScreenTypes, screen, View
  <2> QED BY <1>12, <2>2, <2>3, <2>4, <2>5, DeliveredShows
<1>13. CASE UNCHANGED tabVars
  BY <1>13, <1>c, <1>d, <1>e DEF tabVars
<1> QED
  BY <1>c, <1>1, <1>2, <1>3, <1>4, <1>5, <1>6, <1>7, <1>8, <1>9, <1>10, <1>11, <1>12, <1>13 DEF TabNext, User, Thread

(* The parts of the invariant that are about threads alone: they survive a *)
(* thread that is started where no dialog is open, and one that moves.     *)
ThreadInv == ReviewsHavePlans /\ TokensDiffer /\ OneDialog /\ AwaitedHasDialog

LEMMA TaskFacts ==
  ASSUME TabTypeOK
  PROVE  \A t \in Tasks : task[t] \in Task /\ task[t].button \in Buttons /\ task[t].token \in Nat /\ task[t].seq \in Nat
                          /\ token[task[t].button] \in Nat
BY DEF TabTypeOK, Task

LEMMA RunFields ==
  ASSUME TabTypeOK, NEW t \in Tasks, NEW b \in Buttons, NEW e \in Nat, NEW p \in ReviewedPlan \cup {None}, Run(t, b, e, p)
  PROVE  /\ task'[t].st = "running" /\ task'[t].button = b /\ task'[t].token = token[b] + 1 /\ task'[t].plan = p
         /\ task'[t].seq = runs + 1
         /\ task'[t].dialog <=> (b \in Cancellable)
         /\ Live' = Live \cup {t} /\ t \notin Live /\ \A u \in Tasks \ {t} : task'[u] = task[u]
         /\ token'[b] = token[b] + 1 /\ \A c \in Buttons \ {b} : token'[c] = token[c]
<1> DEFINE d == b \in Cancellable
<1>1. task'[t] = [st |-> "running", button |-> b, token |-> token[b] + 1, epoch |-> e, plan |-> p,
                  outcome |-> "none", dialog |-> d, seq |-> runs + 1]
  BY RunStarts
<1> HIDE DEF d
<1>2. /\ task'[t].st = "running" /\ task'[t].button = b /\ task'[t].token = token[b] + 1 /\ task'[t].plan = p
      /\ task'[t].seq = runs + 1
  BY <1>1
<1>3. task'[t].dialog = d
  BY <1>1
<1>4. task'[t].dialog <=> b \in Cancellable
  BY <1>3 DEF d
<1> QED BY <1>2, <1>4, RunStarts

LEMMA RunKeeps ==
  ASSUME TabTypeOK, ThreadInv, Reachable, NEW t \in Tasks, NEW b \in Buttons, NEW e \in Nat, NEW p \in ReviewedPlan \cup {None},
         Run(t, b, e, p), b = "review" => p \in ReviewedPlan
  PROVE  ThreadInv'
<1>1. /\ task'[t].st = "running" /\ task'[t].button = b /\ task'[t].token = token[b] + 1 /\ task'[t].plan = p
      /\ task'[t].dialog <=> (b \in Cancellable)
      /\ Live' = Live \cup {t} /\ t \notin Live /\ \A u \in Tasks \ {t} : task'[u] = task[u]
      /\ token'[b] = token[b] + 1 /\ \A c \in Buttons \ {b} : token'[c] = token[c]
  BY RunFields
<1>2. \A u \in Tasks : ~task[u].dialog
  BY DEF Reachable
<1>3. token[b] \in Nat
  BY DEF TabTypeOK
<1>4. \A u \in Live : u \in Tasks /\ u # t /\ task'[u] = task[u]
  BY <1>1 DEF Live
<1>5. ReviewsHavePlans'
  BY <1>1, <1>4 DEF ThreadInv, ReviewsHavePlans
<1>6. \A u \in Live : task[u].button = b => task[u].token < token[b] + 1
  BY <1>3, <1>4, TaskFacts DEF ThreadInv, TokensDiffer
<1>7. TokensDiffer'
  <2>1. ASSUME NEW u \in Live' PROVE task'[u].token <= token'[task'[u].button]
    <3>1. CASE u = t
      BY <1>1, <1>3, <3>1
    <3>2. CASE u \in Live
      <4>1. task[u].token <= token[task[u].button] /\ task[u].button \in Buttons
        BY <1>4, <3>2, TaskFacts DEF ThreadInv, TokensDiffer
      <4> QED BY <1>1, <1>3, <1>4, <1>6, <3>2, <4>1, TaskFacts
    <3> QED BY <1>1, <2>1, <3>1, <3>2
  <2>2. ASSUME NEW u \in Live', NEW v \in Live', u # v, task'[u].button = task'[v].button
        PROVE  task'[u].token # task'[v].token
    <3>1. CASE u \in Live /\ v \in Live
      BY <1>4, <2>2, <3>1 DEF ThreadInv, TokensDiffer
    <3>2. CASE u = t /\ v \in Live
      BY <1>1, <1>3, <1>4, <1>6, <2>2, <3>2, TaskFacts
    <3>3. CASE v = t /\ u \in Live
      BY <1>1, <1>3, <1>4, <1>6, <2>2, <3>3, TaskFacts
    <3> QED BY <1>1, <2>2, <3>1, <3>2, <3>3
  <2> QED BY <2>1, <2>2 DEF TokensDiffer
<1>8. OneDialog'
  BY <1>1, <1>2 DEF OneDialog
<1>9. AwaitedHasDialog'
  <2> SUFFICES ASSUME NEW u \in Tasks, u # t, Asked(u), task[u].button \in Cancellable, token'[task[u].button] = task[u].token
               PROVE  FALSE
    BY <1>1 DEF AwaitedHasDialog, Asked, Awaited
  <2>1. u \in Live /\ token[task[u].button] # task[u].token
    BY <1>2 DEF ThreadInv, AwaitedHasDialog, Asked, Awaited, Live
  <2> QED BY <1>1, <1>6, <2>1, TaskFacts
<1> QED BY <1>5, <1>7, <1>8, <1>9 DEF ThreadInv

LEMMA MoveKeeps ==
  ASSUME TabTypeOK, ThreadInv, NEW t \in Tasks, Moved(t) PROVE ThreadInv'
<1>1. /\ t \in Live /\ Live' \subseteq Live
      /\ \A u \in Tasks : /\ task'[u].button = task[u].button /\ task'[u].token = task[u].token
                          /\ task'[u].plan = task[u].plan
                          /\ task'[u].dialog => task[u].dialog
                          /\ Asked(u)' => Asked(u)
  BY DEF Moved, Live, Asked
<1>2. \A c \in Buttons : token'[c] = token[c] \/ token'[c] = token[c] + 1
  BY DropFacts DEF ThreadInv
<1>3. ReviewsHavePlans'
  BY <1>1 DEF ThreadInv, ReviewsHavePlans, Live
<1>4. TokensDiffer'
  <2>1. \A u \in Live : task[u].token <= token'[task[u].button]
    BY <1>2, TaskFacts DEF ThreadInv, TokensDiffer, Live
  <2> QED BY <1>1, <2>1 DEF ThreadInv, TokensDiffer, Live
<1>5. OneDialog'
  <2>1. task'[t].dialog => task'[t].st # "idle"
    BY DEF Moved
  <2> QED BY <1>1, <2>1 DEF ThreadInv, OneDialog, Moved
<1>6. AwaitedHasDialog'
  <2> SUFFICES ASSUME NEW u \in Tasks, Asked(u)', task[u].button \in Cancellable, Awaited(u)' PROVE task'[u].dialog
    BY <1>1 DEF AwaitedHasDialog
  <2>1. CASE u = t
    <3>1. Awaited(t) /\ token' # Dropped(t)
      BY <2>1, DropFacts DEF ThreadInv
    <3>2. task'[t].dialog = task[t].dialog
      BY <2>1, <3>1 DEF Moved
    <3> QED BY <1>1, <2>1, <3>1, <3>2 DEF ThreadInv, AwaitedHasDialog
  <2>2. CASE u # t
    <3>1. u \in Live \ {t} /\ task'[u] = task[u] /\ Asked(u)
      BY <1>1, <2>2 DEF Moved, Live, Asked
    <3>2. Awaited(u)
      BY <3>1, DropFacts DEF ThreadInv
    <3> QED BY <3>1, <3>2 DEF ThreadInv, AwaitedHasDialog
  <2> QED BY <2>1, <2>2
<1> QED BY <1>3, <1>4, <1>5, <1>6 DEF ThreadInv

LEMMA StillKeeps == ASSUME ThreadInv, UNCHANGED <<task, token>> PROVE ThreadInv'
BY DEF ThreadInv, ReviewsHavePlans, TokensDiffer, OneDialog, AwaitedHasDialog, Live, Asked, Awaited

(* A step starts a thread where no dialog is open, moves one, or does      *)
(* nothing to any.                                                         *)
Started(t, b, e, p) ==
    /\ Reachable /\ Run(t, b, e, p)
    /\ b \in Buttons /\ e \in Nat /\ p \in ReviewedPlan \cup {None} /\ (b = "review" => p \in ReviewedPlan)
LEMMA ThreadStep ==
  ASSUME TabTypeOK, ThreadInv, [TabNext]_tabVars
  PROVE  \/ \E t \in Tasks : \E b, e, p : Started(t, b, e, p)
         \/ \E t \in Tasks : Moved(t)
         \/ UNCHANGED <<task, token, runs, lastWrite>>
<1>1. ASSUME NEW t \in Tasks, NEW s \in Saves, ChooseSave(t, s) PROVE Started(t, "choose", epoch + 1, None)
  BY <1>1 DEF ChooseSave, Started, Buttons, TabTypeOK
<1>2. ASSUME NEW t \in Tasks, Review(t)
      PROVE  Started(t, "review", epoch, [save |-> selected, request |-> typed, opted |-> opted, writable |-> FALSE])
  <2>1. [save |-> selected, request |-> typed, opted |-> opted, writable |-> FALSE] \in ReviewedPlan
    BY <1>2, ReviewAsks DEF Review
  <2>2. epoch \in Nat /\ "review" \in Buttons
    BY DEF TabTypeOK, Buttons
  <2> QED BY <1>2, <2>1, <2>2, Zenon DEF Review, Started
<1>3. ASSUME NEW t \in Tasks, WriteCopy(t) PROVE Started(t, "write", epoch, inForce)
  BY <1>3 DEF WriteCopy, Started, Buttons, TabTypeOK
<1>4. ASSUME NEW t \in Tasks, StopWaiting(t) \/ Thread(t) PROVE Moved(t)
  BY <1>4, ThreadMoves DEF Thread, ThreadInv
<1>5. ASSUME NEW r \in Requests \cup {None}, EnterValues(r) PROVE UNCHANGED <<task, token, runs, lastWrite>>
  BY <1>5 DEF EnterValues, threads
<1>6. CASE ToggleCapacity \/ HideWorkshop \/ SetOutput \/ ReviewDeclined \/ WriteDeclined \/ DismissError
  BY <1>6 DEF ToggleCapacity, HideWorkshop, SetOutput, ReviewDeclined, WriteDeclined, DismissError, threads
<1>7. CASE UNCHANGED tabVars
  BY <1>7 DEF tabVars, threads
<1> QED
  BY <1>1, <1>2, <1>3, <1>4, <1>5, <1>6, <1>7, Zenon DEF TabNext, User

LEMMA ThreadInvStep == ASSUME TabTypeOK, ThreadInv, [TabNext]_tabVars PROVE ThreadInv'
BY ThreadStep, RunKeeps, MoveKeeps, StillKeeps DEF Started

(* The screen.  A plan is put out of force before anything it depends on   *)
(* is changed, and nothing is changed while a dialog is open.              *)
ScreenInv == DialogIsOfScreen /\ PlanIsOfScreen

LEMMA InvalidatedPlan ==
  ASSUME NEW on \in [Buttons -> BOOLEAN], Invalidate(on), table' = None \/ table' = selected'
  PROVE  PlanIsOfScreen' /\ inForce' = None
<1>1. inForce' = None /\ view'.kind = "notice" /\ enabled' = [on EXCEPT !["write"] = FALSE]
  BY DEF Invalidate, Notice
<1>2. ~enabled'["write"]
  BY <1>1 DEF Buttons
<1> QED BY <1>1, <1>2 DEF PlanIsOfScreen

LEMMA NobodyAsks == ASSUME Reachable, UNCHANGED task PROVE DialogIsOfScreen'
BY DEF Reachable, DialogIsOfScreen

LEMMA OneAsks ==
  ASSUME TabTypeOK, Reachable, NEW t \in Tasks, NEW b \in Buttons, NEW e \in Nat, NEW p \in ReviewedPlan \cup {None}, Run(t, b, e, p)
  PROVE  \A u \in Tasks : task'[u].dialog => u = t /\ task'[u].button = b /\ task'[u].plan = p /\ b \in Cancellable
BY RunFields DEF Reachable

LEMMA StillOfScreen ==
  ASSUME DialogIsOfScreen, NEW t \in Tasks, Moved(t), UNCHANGED <<selected, typed, opted, inForce>>
  PROVE  DialogIsOfScreen'
<1>1. \A u \in Tasks : /\ task'[u].button = task[u].button /\ task'[u].plan = task[u].plan
                       /\ (task'[u].dialog => task[u].dialog) /\ (Asked(u)' => Asked(u))
  BY DEF Moved, Asked
<1> QED BY <1>1 DEF DialogIsOfScreen

LEMMA ScreenStep ==
  ASSUME TabTypeOK, ThreadInv, ScreenInv, [TabNext]_tabVars PROVE ScreenInv'
<1>a. "choose" \in Buttons /\ "review" \in Buttons /\ "write" \in Buttons /\ "write" \notin Cancellable
  BY DEF Buttons, Cancellable
<1>b. ScreenTypes
  BY DEF TabTypeOK, ScreenTypes
<1>1. ASSUME NEW t \in Tasks, NEW s \in Saves, ChooseSave(t, s) PROVE ScreenInv'
  <2>1. /\ Reachable /\ Run(t, "choose", epoch + 1, None) /\ table' = None
        /\ Invalidate([enabled EXCEPT !["choose"] = FALSE, !["review"] = FALSE])
    BY <1>1 DEF ChooseSave
  <2>2. [enabled EXCEPT !["choose"] = FALSE, !["review"] = FALSE] \in [Buttons -> BOOLEAN]
    BY <1>b DEF ScreenTypes
  <2>4. epoch + 1 \in Nat
    BY <1>b DEF ScreenTypes
  <2>3. PlanIsOfScreen' /\ inForce' = None
    BY <2>1, <2>2, InvalidatedPlan
  <2>5. \A u \in Tasks : task'[u].dialog => task'[u].button = "choose"
    BY <1>a, <2>1, <2>4, OneAsks
  <2> QED BY <2>3, <2>5 DEF DialogIsOfScreen, ScreenInv
<1>2. ASSUME NEW r \in Requests \cup {None}, EnterValues(r) PROVE ScreenInv'
  BY <1>2, <1>b, InvalidatedPlan, NobodyAsks DEF EnterValues, ScreenInv, PlanIsOfScreen, ScreenTypes, threads
<1>3. CASE ToggleCapacity
  BY <1>3, <1>b, InvalidatedPlan, NobodyAsks DEF ToggleCapacity, ScreenInv, PlanIsOfScreen, ScreenTypes, threads
<1>4. CASE HideWorkshop
  BY <1>4, <1>b, InvalidatedPlan, NobodyAsks DEF HideWorkshop, ScreenInv, PlanIsOfScreen, ScreenTypes, threads, screen
<1>5. CASE SetOutput
  BY <1>5, NobodyAsks DEF SetOutput, ScreenInv, PlanIsOfScreen, threads, screen
<1>6. CASE ReviewDeclined \/ WriteDeclined
  <2>1. view'.kind = "notice" /\ Reachable /\ UNCHANGED <<screen, inForce, enabled, threads>>
    BY <1>6 DEF ReviewDeclined, WriteDeclined, Notice
  <2> QED BY <2>1, NobodyAsks DEF ScreenInv, PlanIsOfScreen, threads, screen
<1>7. CASE DismissError
  BY <1>7 DEF DismissError, ScreenInv, PlanIsOfScreen, DialogIsOfScreen, Asked, screen
<1>8. ASSUME NEW t \in Tasks, Review(t) PROVE ScreenInv'
  <2> DEFINE p == [save |-> selected, request |-> typed, opted |-> opted, writable |-> FALSE]
  <2>1. /\ Reachable /\ Run(t, "review", epoch, p) /\ enabled' = [enabled EXCEPT !["review"] = FALSE]
        /\ UNCHANGED <<screen, inForce, view>>
    BY <1>8 DEF Review
  <2>2. p \in ReviewedPlan
    BY <1>8, ReviewAsks DEF Review
  <2>3. p.save = selected /\ p.request = typed /\ p.opted = opted
    OBVIOUS
  <2> HIDE DEF p
  <2>4. \A u \in Tasks : task'[u].dialog => task'[u].button = "review" /\ task'[u].plan = p
    BY <1>a, <1>b, <2>1, <2>2, OneAsks DEF ScreenTypes
  <2>5. DialogIsOfScreen'
    BY <2>1, <2>3, <2>4 DEF DialogIsOfScreen, screen
  <2>6. enabled'["write"] = enabled["write"]
    BY <1>a, <1>b, <2>1 DEF ScreenTypes
  <2> QED BY <2>1, <2>5, <2>6 DEF ScreenInv, PlanIsOfScreen, screen
<1>9. ASSUME NEW t \in Tasks, WriteCopy(t) PROVE ScreenInv'
  <2>1. /\ Reachable /\ Run(t, "write", epoch, inForce) /\ enabled' = [enabled EXCEPT !["write"] = FALSE]
        /\ UNCHANGED <<screen, inForce, view>>
    BY <1>9 DEF WriteCopy
  <2>2. \A u \in Tasks : ~task'[u].dialog
    BY <1>a, <1>b, <2>1, OneAsks DEF ScreenTypes
  <2>3. ~enabled'["write"]
    BY <1>a, <1>b, <2>1 DEF ScreenTypes
  <2> QED BY <2>1, <2>2, <2>3 DEF ScreenInv, PlanIsOfScreen, DialogIsOfScreen, screen
<1>10. ASSUME NEW t \in Tasks, StopWaiting(t) \/ Thread(t) PROVE Moved(t)
  BY <1>10, ThreadMoves DEF Thread, ThreadInv
<1>11. ASSUME NEW t \in Tasks, StopWaiting(t) \/ WorkerEnds(t) \/ Failed(t) PROVE ScreenInv'
  <2>1. UNCHANGED <<screen, inForce, view, enabled>>
    BY <1>11 DEF StopWaiting, WorkerEnds, Failed
  <2>2. Moved(t)
    BY <1>10, <1>11 DEF Thread
  <2> QED BY <2>1, <2>2, StillOfScreen DEF ScreenInv, PlanIsOfScreen, screen
<1>12. ASSUME NEW t \in Tasks, Finished(t) PROVE ScreenInv'
  <2>1. UNCHANGED <<screen, inForce, view>> /\ enabled' = [enabled EXCEPT ![task[t].button] = task[t].button # "write"]
    BY <1>12 DEF Finished
  <2>2. enabled'["write"] => enabled["write"]
    BY <1>a, <1>b, <2>1 DEF ScreenTypes
  <2>3. Moved(t)
    BY <1>10, <1>12 DEF Thread
  <2> QED BY <2>1, <2>2, <2>3, StillOfScreen DEF ScreenInv, PlanIsOfScreen, screen
<1>13. ASSUME NEW t \in Tasks, Delivered(t) PROVE ScreenInv'
  <2>1. Moved(t) /\ ~Asked(t)' /\ task[t].st = "posted"
    BY <1>10, <1>13, DeliveredShows DEF Thread
  <2>2. ASSUME Awaited(t), task[t].button \in Cancellable PROVE task[t].dialog /\ DialogIsOfScreen'
    <3>1. task[t].dialog
      BY <2>1, <2>2 DEF ThreadInv, AwaitedHasDialog, Asked
    <3>2. \A u \in Tasks \ {t} : ~task'[u].dialog
      BY <2>1, <3>1 DEF ThreadInv, OneDialog, Moved
    <3> QED BY <2>1, <3>1, <3>2 DEF DialogIsOfScreen
  <2>3. CASE UNCHANGED <<screen, inForce, view, enabled>>
    BY <2>1, <2>3, StillOfScreen DEF ScreenInv, PlanIsOfScreen, screen
  <2>4. CASE ShowReport(t)
    <3>1. inForce' = None /\ view'.kind = "report" /\ ~enabled'["write"] /\ UNCHANGED screen
      BY <1>a, <1>b, <2>4 DEF ShowReport, ScreenTypes
    <3>2. \A u \in Tasks : /\ task'[u].button = task[u].button /\ task'[u].plan = task[u].plan
                           /\ (task'[u].dialog => task[u].dialog) /\ (Asked(u)' => Asked(u))
      BY <2>1 DEF Moved, Asked
    <3>3. DialogIsOfScreen'
      BY <3>1, <3>2 DEF ScreenInv, DialogIsOfScreen, screen
    <3> QED BY <3>1, <3>3 DEF ScreenInv, PlanIsOfScreen, screen
  <2>5. CASE Awaited(t) /\ task[t].button = "choose" /\ ShowInspection(t)
    <3>1. DialogIsOfScreen' /\ inForce = None
      BY <2>1, <2>2, <2>5 DEF ScreenInv, DialogIsOfScreen, Cancellable, Asked
    <3>2. /\ table' \in {selected, None} /\ UNCHANGED <<selected, opted, inForce, view>>
          /\ enabled' = [enabled EXCEPT !["review"] = task[t].outcome = "good"]
      BY <2>5 DEF ShowInspection
    <3>3. enabled'["write"] = enabled["write"]
      BY <1>a, <1>b, <3>2 DEF ScreenTypes
    <3> QED BY <3>1, <3>2, <3>3 DEF ScreenInv, PlanIsOfScreen
  <2>6. CASE Awaited(t) /\ task[t].button = "review" /\ ShowPlan(t)
    <3> DEFINE p == [task[t].plan EXCEPT !.writable = task[t].outcome = "good"]
    <3>1. task[t].plan \in ReviewedPlan
      BY <2>1, <2>6 DEF ThreadInv, ReviewsHavePlans, Live
    <3>2. task[t].plan.save = selected /\ task[t].plan.request = typed /\ task[t].plan.opted = opted /\ DialogIsOfScreen'
      BY <2>1, <2>2, <2>6 DEF ScreenInv, DialogIsOfScreen, Cancellable, Asked
    <3>3. p.save = selected /\ p.request = typed /\ p.opted = opted
      BY <3>1, <3>2 DEF ReviewedPlan
    <3>4. /\ inForce' = p /\ view' = [kind |-> "plan", plan |-> p] /\ enabled' = [enabled EXCEPT !["write"] = Writable(p)]
          /\ UNCHANGED screen
      BY <2>6 DEF ShowPlan
    <3> HIDE DEF p
    <3>5. enabled'["write"] = Writable(p)
      BY <1>a, <1>b, <3>4 DEF ScreenTypes
    <3>6. enabled'["write"] => p # None /\ p.writable
      BY <3>5 DEF Writable
    <3>7. view'.kind = "plan" /\ view'.plan = p
      BY <3>4
    <3> QED BY <3>2, <3>3, <3>4, <3>6, <3>7 DEF ScreenInv, PlanIsOfScreen, screen
  <2> QED BY <1>13, <2>3, <2>4, <2>5, <2>6, DeliveredShows
<1>14. CASE UNCHANGED tabVars
  BY <1>14 DEF tabVars, threads, screen, ScreenInv, PlanIsOfScreen, DialogIsOfScreen, Asked
<1> QED
  BY <1>1, <1>2, <1>3, <1>4, <1>5, <1>6, <1>7, <1>8, <1>9, <1>11, <1>12, <1>13, <1>14 DEF TabNext, User, Thread

(* The whole invariant, and the two theorems it gives.                     *)
LEMMA TabStarts == ASSUME TabInit PROVE TabInv
<1>1. Notice \in View /\ "choose" \in Buttons
  BY NoticeIsShown DEF Buttons
<1>2. /\ \A t \in Tasks : task[t] = [st |-> "idle", button |-> "choose", token |-> 0, epoch |-> 0, plan |-> None,
                                     outcome |-> "none", dialog |-> FALSE, seq |-> 0]
      /\ inForce = None /\ table = None /\ view.kind = "notice" /\ ~enabled["write"]
  BY DEF TabInit, Notice, Buttons
<1>3. Live = {} /\ \A t \in Tasks : ~Asked(t) /\ ~task[t].dialog
  BY <1>2 DEF Live, Asked
<1>4. task \in [Tasks -> Task]
  BY <1>1 DEF TabInit, Task
<1>5. TabTypeOK
  BY <1>1, <1>4 DEF TabInit, TabTypeOK
<1>6. ReviewsHavePlans /\ TokensDiffer /\ OneDialog /\ AwaitedHasDialog /\ DialogIsOfScreen
  BY <1>3 DEF ReviewsHavePlans, TokensDiffer, OneDialog, AwaitedHasDialog, DialogIsOfScreen
<1>7. PlanIsOfScreen
  BY <1>2 DEF PlanIsOfScreen
<1> QED BY <1>5, <1>6, <1>7 DEF TabInv

LEMMA TabInvStep == ASSUME TabInv, [TabNext]_tabVars PROVE TabInv'
<1>1. TabTypeOK /\ ThreadInv /\ ScreenInv
  BY DEF TabInv, ThreadInv, ScreenInv
<1>2. TabTypeOK' /\ ThreadInv' /\ ScreenInv'
  BY <1>1, TabTypeStep, ThreadInvStep, ScreenStep DEF ThreadInv
<1> QED BY <1>2 DEF TabInv, ThreadInv, ScreenInv

LEMMA TabInvariant == TabSpec => []TabInv
<1>1. TabInit => TabInv
  BY TabStarts
<1>2. TabInv /\ [TabNext]_tabVars => TabInv'
  BY TabInvStep
<1> QED BY <1>1, <1>2, PTL DEF TabSpec

(* The variables of the tab have their types.                              *)
THEOREM TabTypeCorrect == TabSpec => []TabTypeOK
<1>1. TabInv => TabTypeOK
  BY DEF TabInv
<1> QED BY <1>1, TabInvariant, PTL

(* The plan in force is of what is on the screen, for any number of        *)
(* threads, saves, changes and operations.                                 *)
THEOREM PlansAreOfScreen == TabSpec => []PlanIsOfScreen
<1>1. TabInv => PlanIsOfScreen
  BY DEF TabInv
<1> QED BY <1>1, TabInvariant, PTL

(* What becomes of the result of a write: the threads are numbered in the  *)
(* order they were started, and only the last write is awaited.            *)
LEMMA WriteStarts == ASSUME TabInit PROVE WriteInv
<1>1. view.kind # "report" /\ lastWrite = 0 /\ runs = 0
  BY DEF TabInit, Notice
<1>2. Live = {}
  BY DEF TabInit, Live
<1> QED BY <1>1, <1>2 DEF WriteInv, NumbersDiffer, LastIsAwaited, ReportIsOver

LEMMA NumbersStep == ASSUME TabTypeOK, ThreadInv, NumbersDiffer, [TabNext]_tabVars PROVE NumbersDiffer'
<1>a. runs \in Nat /\ lastWrite \in Nat
  BY DEF TabTypeOK
<1>1. ASSUME NEW t \in Tasks, NEW b, NEW e, NEW p, Started(t, b, e, p) PROVE NumbersDiffer'
  <2>1. /\ t \notin Live /\ Live' = Live \cup {t} /\ task'[t].seq = runs + 1 /\ \A u \in Live : task'[u] = task[u]
        /\ runs' = runs + 1 /\ lastWrite' = IF b = "write" THEN runs + 1 ELSE lastWrite
    BY <1>1, RunFields DEF Started, Run, Live
  <2>2. \A u \in Live : task[u].seq <= runs /\ task[u].seq \in Nat
    BY TaskFacts DEF NumbersDiffer, Live
  <2>3. \A u \in Live : task[u].seq # runs + 1 /\ task[u].seq <= runs + 1
    BY <1>a, <2>2
  <2>4. lastWrite' <= runs'
    BY <1>a, <2>1 DEF NumbersDiffer
  <2> QED BY <1>a, <2>1, <2>3, <2>4 DEF NumbersDiffer
<1>2. ASSUME NEW t \in Tasks, Moved(t) PROVE NumbersDiffer'
  <2>1. Live' \subseteq Live /\ \A u \in Tasks : task'[u].seq = task[u].seq
    BY <1>2 DEF Moved, Live
  <2> QED BY <1>2, <2>1 DEF NumbersDiffer, Moved, Live
<1>3. CASE UNCHANGED <<task, token, runs, lastWrite>>
  BY <1>3 DEF NumbersDiffer, Live
<1> QED BY <1>1, <1>2, <1>3, ThreadStep

LEMMA LastStep == ASSUME TabTypeOK, ThreadInv, NumbersDiffer, LastIsAwaited, [TabNext]_tabVars PROVE LastIsAwaited'
<1>a. runs \in Nat /\ lastWrite \in Nat
  BY DEF TabTypeOK
<1>1. ASSUME NEW t \in Tasks, NEW b, NEW e, NEW p, Started(t, b, e, p) PROVE LastIsAwaited'
  <2>1. /\ t \notin Live /\ Live' = Live \cup {t} /\ task'[t].seq = runs + 1 /\ \A u \in Live : task'[u] = task[u]
        /\ runs' = runs + 1 /\ lastWrite' = IF b = "write" THEN runs + 1 ELSE lastWrite
        /\ token'[b] = token[b] + 1 /\ \A c \in Buttons \ {b} : token'[c] = token[c]
    BY <1>1, RunFields DEF Started, Run, Live
  <2>2. task'[t].button = b /\ task'[t].token = token[b] + 1
    BY <1>1, RunFields DEF Started
  <2>3. \A u \in Live : /\ task[u].seq <= runs /\ task[u].seq \in Nat /\ task[u].token <= token[task[u].button]
                        /\ task[u].token \in Nat /\ token[task[u].button] \in Nat /\ task[u].button \in Buttons
    BY TaskFacts DEF NumbersDiffer, ThreadInv, TokensDiffer, Live
  <2>4. ASSUME NEW u \in Live, task[u].button = "write"
        PROVE  token'["write"] = task[u].token <=> task[u].seq = lastWrite'
    <3>1. CASE b = "write"
      <4>1. task[u].seq # runs + 1 /\ task[u].token # token["write"] + 1
        BY <1>a, <2>3, <2>4
      <4> QED BY <2>1, <3>1, <4>1
    <3>2. CASE b # "write"
      <4>1. token'["write"] = token["write"] /\ lastWrite' = lastWrite
        BY <2>1, <3>2 DEF Buttons
      <4> QED BY <2>4, <4>1 DEF LastIsAwaited, Awaited
    <3> QED BY <3>1, <3>2
  <2>5. task'[t].button = "write" => Awaited(t)' /\ task'[t].seq = lastWrite'
    BY <2>1, <2>2 DEF Awaited
  <2> QED BY <2>1, <2>4, <2>5 DEF LastIsAwaited, Awaited
<1>2. ASSUME NEW t \in Tasks, Moved(t) PROVE LastIsAwaited'
  <2>1. /\ Live' \subseteq Live /\ lastWrite' = lastWrite
        /\ \A u \in Tasks : task'[u].seq = task[u].seq /\ task'[u].button = task[u].button /\ task'[u].token = task[u].token
    BY <1>2 DEF Moved, Live
  <2>2. token'["write"] = token["write"]
    <3>1. CASE token' = token
      BY <3>1
    <3>2. CASE token' = Dropped(t) /\ task[t].button \in Cancellable
      BY <3>2 DEF Dropped, Cancellable, TabTypeOK, Buttons
    <3> QED BY <1>2, <3>1, <3>2 DEF Moved
  <2> QED BY <2>1, <2>2 DEF LastIsAwaited, Awaited, Live
<1>3. CASE UNCHANGED <<task, token, runs, lastWrite>>
  BY <1>3 DEF LastIsAwaited, Live, Awaited
<1> QED BY <1>1, <1>2, <1>3, ThreadStep

(* A report that is shown is of an operation that is over.                 *)
LEMMA ReportStep == ASSUME TabTypeOK, ThreadInv, NumbersDiffer, ReportIsOver, [TabNext]_tabVars PROVE ReportIsOver'
<1>a. runs \in Nat /\ \A u \in Tasks : task[u].seq \in Nat
  BY TaskFacts DEF TabTypeOK
<1>1. ASSUME NEW t \in Tasks, Delivered(t), ShowReport(t) PROVE ReportIsOver'
  <2>1. Moved(t) /\ ~Asked(t)' /\ t \in Live
    BY <1>1, ThreadMoves, DeliveredShows DEF ThreadInv, Live
  <2>2. view' = [kind |-> "report", seq |-> task[t].seq] /\ runs' = runs
    BY <1>1, <2>1 DEF ShowReport, Moved
  <2>3. ASSUME NEW u \in Tasks, Asked(u)' PROVE task'[u].seq # task[t].seq
    <3>1. u # t /\ task'[u] = task[u] /\ u \in Live
      BY <2>1, <2>3 DEF Moved, Live, Asked
    <3> QED BY <2>1, <3>1 DEF NumbersDiffer
  <2> QED BY <2>1, <2>2, <2>3 DEF ReportIsOver, NumbersDiffer
<1>2. view'.kind # "report" => ReportIsOver'
  BY DEF ReportIsOver
<1>3. ASSUME UNCHANGED view PROVE ReportIsOver'
  <2> SUFFICES ASSUME view.kind = "report" PROVE ReportIsOver'
    BY <1>3 DEF ReportIsOver
  <2>1. view.seq \in Nat
    BY DEF TabTypeOK, View
  <2>2. view.seq <= runs /\ \A u \in Tasks : Asked(u) => task[u].seq # view.seq
    BY DEF ReportIsOver
  <2>3. ASSUME NEW t \in Tasks, NEW b, NEW e, NEW p, Started(t, b, e, p) PROVE ReportIsOver'
    <3>1. /\ task'[t].seq = runs + 1 /\ \A u \in Tasks \ {t} : task'[u] = task[u]
          /\ runs' = runs + 1
      BY <2>3, RunFields DEF Started, Run
    <3>2. view.seq # runs + 1 /\ view.seq <= runs + 1
      BY <1>a, <2>1, <2>2
    <3>3. \A u \in Tasks : Asked(u)' => task'[u].seq # view.seq
      BY <2>2, <3>1, <3>2 DEF Asked
    <3> QED BY <1>3, <3>1, <3>2, <3>3 DEF ReportIsOver
  <2>4. ASSUME NEW t \in Tasks, Moved(t) PROVE ReportIsOver'
    <3>1. runs' = runs /\ \A u \in Tasks : (Asked(u)' => Asked(u)) /\ task'[u].seq = task[u].seq
      BY <2>4 DEF Moved, Asked
    <3> QED BY <1>3, <2>2, <3>1 DEF ReportIsOver
  <2>5. CASE UNCHANGED <<task, token, runs, lastWrite>>
    BY <1>3, <2>2, <2>5 DEF ReportIsOver, Asked
  <2> QED BY <2>3, <2>4, <2>5, ThreadStep
<1>4. ASSUME NEW t \in Tasks, Delivered(t) PROVE ShowReport(t) \/ UNCHANGED view \/ view'.kind = "plan"
  <2>1. ShowInspection(t) => UNCHANGED view
    BY DEF ShowInspection
  <2>2. ShowPlan(t) => view'.kind = "plan"
    BY DEF ShowPlan
  <2> QED BY <1>4, <2>1, <2>2, DeliveredShows
<1>5. ASSUME NEW t \in Tasks, User(t) \/ WorkerEnds(t) \/ Failed(t) \/ Finished(t) PROVE UNCHANGED view \/ view' = Notice
  BY <1>5 DEF User, ChooseSave, Invalidate, Review, WriteCopy, StopWaiting, WorkerEnds, Failed, Finished
<1>6. ASSUME NEW r \in Requests \cup {None}, EnterValues(r) PROVE view' = Notice
  BY <1>6 DEF EnterValues, Invalidate
<1>7. CASE ToggleCapacity \/ HideWorkshop \/ SetOutput \/ ReviewDeclined \/ WriteDeclined \/ DismissError
  BY <1>2, <1>3, <1>7 DEF ToggleCapacity, HideWorkshop, Invalidate, SetOutput, ReviewDeclined, WriteDeclined, DismissError, Notice
<1>8. CASE UNCHANGED tabVars
  BY <1>3, <1>8 DEF tabVars
<1>9. Notice.kind # "report"
  BY DEF Notice
<1>10. CASE UNCHANGED view \/ view' = Notice \/ view'.kind = "plan"
  BY <1>2, <1>3, <1>9, <1>10
<1> QED BY <1>1, <1>4, <1>5, <1>6, <1>7, <1>8, <1>10 DEF TabNext, Thread

LEMMA WriteInvariant == TabSpec => []WriteInv
<1>1. TabInit => WriteInv
  BY WriteStarts
<1>2. TabInv /\ WriteInv /\ [TabNext]_tabVars => WriteInv'
  <2> SUFFICES ASSUME TabInv, WriteInv, [TabNext]_tabVars PROVE WriteInv'
    OBVIOUS
  <2>1. TabTypeOK /\ ThreadInv
    BY DEF TabInv, ThreadInv
  <2> QED BY <2>1, NumbersStep, LastStep, ReportStep DEF WriteInv
<1> QED BY <1>1, <1>2, TabInvariant, PTL DEF TabSpec

(* The result of a write is shown exactly when no other write was begun    *)
(* before it came.                                                         *)
THEOREM WritesAreReported == TabSpec => ReportedUnlessWritingAgain
<1> DEFINE Reported(t) ==
      task[t].button = "write" /\ task[t].st = "posted" /\ task[t].outcome # "failed" /\ task'[t].st = "delivered"
         => (view' = [kind |-> "report", seq |-> task[t].seq] <=> task[t].seq = lastWrite)
<1>1. TabInv /\ WriteInv /\ [TabNext]_tabVars => [\A t \in Tasks : Reported(t)]_tabVars
  <2> SUFFICES ASSUME TabInv, WriteInv, TabNext, NEW t \in Tasks, task[t].button = "write", task[t].st = "posted",
                      task[t].outcome # "failed", task'[t].st = "delivered"
               PROVE  view' = [kind |-> "report", seq |-> task[t].seq] <=> task[t].seq = lastWrite
    OBVIOUS
  <2>1. TabTypeOK /\ ThreadInv /\ OneDialog /\ [TabNext]_tabVars
    BY DEF TabInv, ThreadInv
  <2>2. Delivered(t)
    <3>1. ASSUME NEW u \in Tasks, NEW b, NEW e, NEW p, Started(u, b, e, p) PROVE FALSE
      BY <2>1, <3>1, RunFields DEF Started, Run
    <3>2. task' # task
      OBVIOUS
    <3>3. PICK u \in Tasks : StopWaiting(u) \/ Thread(u) \/ (\E s \in Saves : ChooseSave(u, s)) \/ Review(u) \/ WriteCopy(u)
      BY <3>2 DEF TabNext, User, EnterValues, ToggleCapacity, HideWorkshop, SetOutput, ReviewDeclined, WriteDeclined,
                  DismissError, threads
    <3>4. StopWaiting(u) \/ Thread(u)
      <4>1. Started(u, "choose", epoch + 1, None) \/ Started(u, "write", epoch, inForce) \/ Review(u) \/ StopWaiting(u) \/ Thread(u)
        BY <2>1, <3>3 DEF ChooseSave, WriteCopy, Started, Buttons, TabTypeOK
      <4>2. ~Review(u)
        <5> DEFINE q == [save |-> selected, request |-> typed, opted |-> opted, writable |-> FALSE]
        <5>1. SUFFICES ASSUME Review(u) PROVE FALSE
          OBVIOUS
        <5>2. q \in ReviewedPlan /\ epoch \in Nat /\ "review" \in Buttons
          BY <2>1, <5>1, ReviewAsks DEF Review, TabTypeOK, Buttons
        <5> HIDE DEF q
        <5>3. Started(u, "review", epoch, q)
          BY <5>1, <5>2 DEF Started, Review, q
        <5> QED BY <3>1, <5>3
      <4> QED BY <3>1, <4>1, <4>2
    <3>5. Moved(u)
      BY <2>1, <3>4, ThreadMoves DEF Thread
    <3>6. u = t
      BY <3>5 DEF Moved
    <3>7. ~StopWaiting(t) /\ ~WorkerEnds(t) /\ ~Failed(t) /\ ~Finished(t)
      BY <2>1 DEF StopWaiting, WorkerEnds, Failed, Finished, TabTypeOK, Task
    <3> QED BY <3>4, <3>6, <3>7 DEF Thread
  <2>3. t \in Live /\ Asked(t)
    BY DEF Live, Asked
  <2>4. Awaited(t) <=> task[t].seq = lastWrite
    BY <2>3 DEF WriteInv, LastIsAwaited
  <2>5. CASE Awaited(t)
    BY <2>1, <2>2, <2>4, <2>5, DeliveredShows DEF ShowReport
  <2>6. CASE ~Awaited(t)
    <3>1. view' = view
      BY <2>1, <2>2, <2>6, DeliveredShows
    <3>2. view # [kind |-> "report", seq |-> task[t].seq]
      BY <2>3 DEF WriteInv, ReportIsOver
    <3> QED BY <2>4, <2>6, <3>1, <3>2
  <2> QED BY <2>5, <2>6
<1>2. TabSpec => [][\A t \in Tasks : Reported(t)]_tabVars
  BY <1>1, TabInvariant, WriteInvariant, PTL DEF TabSpec
<1> QED BY <1>2 DEF ReportedUnlessWritingAgain
===============================================================================
