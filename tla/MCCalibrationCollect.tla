-------------------------- MODULE MCCalibrationCollect --------------------------
(* A release of two trials, and room for three attempts at them.  The cap   *)
(* holds two ceilings and a half.                                           *)
EXTENDS CalibrationCollect, TLC

CONSTANTS c1, c2, c3

MCAttempts == {c1, c2, c3}
MCSymmetry == Permutations(MCAttempts)
MCFreshOrOne == {0, 1}
MCFresh == {0}
MCTwo == {2}
=============================================================================
