--------------------------- MODULE SessionRegistry ---------------------------
(***************************************************************************)
(* What the desktop session promises about the scan result and registry    *)
(* it shares between its operations: they are replaced as a whole, by one  *)
(* writer at a time, and a writer that publishes nothing leaves them as    *)
(* they were.  A writer is a full scan or the incorporation of dropped     *)
(* mods, which needs a registry to merge into.  DesktopSession implements  *)
(* this module.                                                            *)
(***************************************************************************)
EXTENDS Naturals

CONSTANT None    \* no writer is at work

VARIABLES version,    \* how often the registry has been replaced, 0: no scan yet
          writer      \* None, or the writer at work

regVars == <<version, writer>>

Writers == {"scan", "merge"}

RegInit == version = 0 /\ writer = None

Begin(w) == /\ writer = None
            /\ w = "merge" => version > 0
            /\ writer' = w
            /\ UNCHANGED version

Publish == /\ writer # None
           /\ version' = version + 1
           /\ writer' = None

Abandon == /\ writer # None
           /\ writer' = None
           /\ UNCHANGED version

RegNext == (\E w \in Writers : Begin(w)) \/ Publish \/ Abandon

RegSpec == RegInit /\ [][RegNext]_regVars
==============================================================================
