------------------------------ MODULE MCCodexTurn ------------------------------
(* One skill, and three buckets of which the client has room for two.        *)
EXTENDS CodexTurn

CONSTANTS s1, b1, b2, b3

MCSkills == {s1}
MCBuckets == {b1, b2, b3}
=============================================================================
