---------------------------- MODULE MCScanPipeline ----------------------------
(* Two sources: the game's data and a mod, which may be disabled; each     *)
(* source is in one of two states.                                         *)
EXTENDS ScanPipeline

CONSTANTS c1, c2

MCSources == 1..2
MCContents == {c1, c2}
MCSelections == {{1, 2}, {1}}
===============================================================================
