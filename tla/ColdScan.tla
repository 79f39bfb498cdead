------------------------------- MODULE ColdScan -------------------------------
(***************************************************************************)
(* What a scan promises: a scan that completes returns what parsing every  *)
(* selected source from the disk, in source order, would return.  Nothing  *)
(* of snapshots, fingerprints, worker pools or completion order shows, and *)
(* a scan that is cancelled, fails or dies with its process returns        *)
(* nothing.  ScanPipeline implements this module.                          *)
(***************************************************************************)
EXTENDS Naturals, FiniteSets

CONSTANTS Sources,      \* 1..n, in discovery order; 1 is the game's own data
          Contents,     \* what the files of a source may hold
          Selections    \* the sets of sources a scan may be asked to read

VARIABLES disk,         \* what each source holds now
          status,       \* "idle", "scanning", "done", "cancelled" or "failed"
          chosen,       \* the sources of the current or last scan
          answer        \* what the last scan returned

coldVars == <<disk, status, chosen, answer>>

\* The records of one source, as parsing all of its files gives them.
ParseOf(s, c) == [source |-> s, content |-> c, complete |-> TRUE]

\* The n-th source of S.
Nth(S, n) == CHOOSE s \in S : Cardinality({t \in S : t <= s}) = n

\* The entries of f, a function of sources, in source order.
InSourceOrder(f) ==
    [n \in 1..Cardinality(DOMAIN f) |-> f[Nth(DOMAIN f, n)]]

ColdInit == /\ disk \in [Sources -> Contents]
            /\ status = "idle"
            /\ chosen = {}
            /\ answer = <<>>

Edit == /\ status # "scanning"
        /\ \E s \in Sources, c \in Contents : disk' = [disk EXCEPT ![s] = c]
        /\ UNCHANGED <<status, chosen, answer>>

Begin == /\ status # "scanning"
         /\ status' = "scanning"
         /\ chosen' \in Selections
         /\ answer' = <<>>
         /\ UNCHANGED disk

Complete == /\ status = "scanning"
            /\ status' = "done"
            /\ answer' = InSourceOrder([s \in chosen |-> ParseOf(s, disk[s])])
            /\ UNCHANGED <<disk, chosen>>

GiveUp == /\ status = "scanning"
          /\ status' \in {"idle", "cancelled", "failed"}
          /\ UNCHANGED <<disk, chosen, answer>>

ColdNext == Edit \/ Begin \/ Complete \/ GiveUp

ColdSpec == ColdInit /\ [][ColdNext]_coldVars
===============================================================================
