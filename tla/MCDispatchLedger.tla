--------------------------- MODULE MCDispatchLedger ---------------------------
(* Three processes on one result root, the third configured for another     *)
(* suite; two logical arms.                                                 *)
EXTENDS DispatchLedger

CONSTANTS p1, p2, p3, a1, a2, own, foreign

MCProcs    == {p1, p2, p3}
MCArms     == {a1, a2}
MCBindings == {own, foreign}
MCBinding  == [p \in MCProcs |-> IF p = p3 THEN foreign ELSE own]
=============================================================================
