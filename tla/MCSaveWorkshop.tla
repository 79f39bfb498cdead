--------------------------- MODULE MCSaveWorkshop ---------------------------
(* Two parts of the save workshop that share no state; a behaviour is about    *)
(* one of them.  The tab, with two saves, one set of new values and two        *)
(* operations at once.  And writes of a save with the two files that the       *)
(* readers know and, or not, a backup file: two writes, of one plan or of two, *)
(* and a game that changes one file, or one write and two changes.             *)
EXTENDS SaveWorkshop, SaveCopy, FiniteSets, TLC

CONSTANTS t1, t2, s1, s2, r1, few, many

MCFilesBak == <<"campaign.xml", "campaign.xml.bak", "descriptor.xml">>
MCValues == {few, many}

\* Operation threads and writes share their names, as do saves and versions of
\* a file: one symmetry serves both.
MCTasks == {t1, t2}
MCSaves == {s1, s2}
MCRequests == {r1}
Symmetry == Permutations(MCTasks) \cup Permutations(MCSaves) \cup Permutations(MCValues)
------------------------------------------------------------------------------
VARIABLE machine
\* The bound on the writes that begin and the game's changes together.
MaxHappenings == 3
Happenings == Cardinality({j \in Jobs : at[j] # "idle"}) + edits
\* Nothing is there to copy where the behaviour is not about copying.
NoCopying ==
    /\ save = <<>> /\ copies = [p \in Plan |-> Nothing] /\ plan = [j \in Jobs |-> Nothing]
    /\ at = [j \in Jobs |-> "idle"] /\ next = [j \in Jobs |-> 1] /\ raw = [j \in Jobs |-> Nothing]
    /\ entries = [j \in Jobs |-> {}]
    /\ hashes = [j \in Jobs |-> <<>>] /\ same = [j \in Jobs |-> TRUE] /\ edits = 0
MCInit ==
    /\ machine \in {"tab", "copy"}
    /\ TabInit
    /\ IF machine = "copy" THEN Init ELSE NoCopying
    /\ machine # "tab" => ~output
MCNext ==
    /\ UNCHANGED machine
    /\ \/ machine = "tab" /\ TabNext /\ UNCHANGED vars
       \/ machine = "copy" /\ Next /\ Happenings' <= MaxHappenings /\ UNCHANGED tabVars
MCSpec == MCInit /\ [][MCNext]_<<tabVars, vars, machine>>
===============================================================================
