--------------------------- MODULE MCDesktopSession ---------------------------
(* A small session: a refit button that asks before it starts, a scenario  *)
(* run that does not ask and can be stopped waiting for, and the archive   *)
(* verifier, which needs no registry.                                      *)
EXTENDS DesktopSession, TLC

CONSTANTS o1, o2, o3, refit, scenario, verify

MCOps == {o1, o2, o3}
MCOps2 == {o1, o2}
MCControls == {refit, scenario}
MCControlsAll == {refit, scenario, verify}
MCChecked == {refit}
MCCancellable == {scenario}
MCStandalone == {verify}
Symmetry == Permutations(MCOps)
===============================================================================
