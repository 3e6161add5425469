---------------------------- MODULE MCCleanupPoison ----------------------------
(* Two providers, each of a binding of its own; two launches.                *)
EXTENDS CleanupPoison

CONSTANTS p1, p2, u1, u2, own_binding, other_binding

MCProviders == {p1, p2}
MCUnits == {u1, u2}
MCBindings == {own_binding, other_binding}
MCBindingOf == [p \in MCProviders |-> IF p = p2 THEN other_binding ELSE own_binding]
=============================================================================
