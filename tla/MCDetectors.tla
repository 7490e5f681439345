---------------------------- MODULE MCDetectors ----------------------------
(***************************************************************************)
(* Small instances of Detectors; what happened to one event is not told    *)
(* from what happened to another.                                          *)
(***************************************************************************)
EXTENDS Detectors, TLC

CONSTANTS e1, e2, pool, token, aave, dollar, wallet, command

Symmetry == Permutations(Events)
=============================================================================
