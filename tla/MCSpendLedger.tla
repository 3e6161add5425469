---------------------------- MODULE MCSpendLedger ----------------------------
(* Three comparator calls on a cap that two and a half of them would fit.   *)
EXTENDS SpendLedger, TLC

CONSTANTS c1, c2, c3

MCAttempts == {c1, c2, c3}
MCSymmetry == Permutations(MCAttempts)
=============================================================================
