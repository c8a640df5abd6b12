---------------------------- MODULE MCXrayManager ----------------------------
(* Values of the constants of XrayManager for TLC.                          *)
EXTENDS XrayManager, TLC

Symmetry == Permutations(Handlers) \cup Permutations(Cores)
==============================================================================
