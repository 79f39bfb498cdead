------------------------------ MODULE MCSaveCopy ------------------------------
(* A write of a save with the two files that the readers know and, or not, *)
(* a backup file beside them.                                              *)
EXTENDS SaveCopy, TLC

CONSTANTS j1, old, new, few, many

MCJobs == {j1}
MCFilesBak == <<"campaign.xml", "campaign.xml.bak", "descriptor.xml">>
MCVersions == {old, new}
MCValues == {few, many}
Symmetry == Permutations(MCJobs) \cup Permutations(MCVersions) \cup Permutations(MCValues)
===============================================================================
