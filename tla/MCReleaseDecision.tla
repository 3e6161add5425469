--------------------------- MODULE MCReleaseDecision ---------------------------
(* One case in all its ways; releases with and without a comparator.       *)
EXTENDS HoldoutRelease, MCAuthority

\* The corpus supports both criteria; the case has no typed basis for c2.
MCUnsupported == {c2}

Run(split, mode, cells, cases, cap, authority, bound) ==
  [split |-> split, mode |-> mode, cells |-> cells, cases |-> cases, cap |-> cap,
   authority |-> authority, odd |-> bound, simple |-> cases > 1]

MCPlans ==
  {Run("train", "judged", 1, 1, cap, TRUE, 2) : cap \in {3, 6}}
  \cup {Run("holdout", "judged", 1, 8, cap, TRUE, 1) : cap \in {24, 48}}
  \cup {Run("holdout", "objective_only", 2, 8, 0, TRUE, 1),
        Run("holdout", "objective_only", 1, 8, 0, TRUE, 1),
        Run("holdout", "objective_only", 1, 8, 0, FALSE, 0),
        Run("holdout", "verifier_only", 1, 8, 0, TRUE, 0)}
  \cup {Run("train", "verifier_only", 2, 1, 0, TRUE, 1)}
  \cup {Run("holdout", "judged", 1, 7, 42, TRUE, 0)}
=============================================================================
