---------------------------- MODULE HoldoutRelease ----------------------------
(***************************************************************************)
(* ReleaseDecision with the comparator it relies on: a run whose pairs are  *)
(* judged is admitted with a runtime that ComparatorAuthority has loaded.   *)
(* From then on it works with its own snapshot of the profile; what becomes *)
(* of the files no longer matters to it, and the model forgets them.        *)
(***************************************************************************)
EXTENDS ReleaseDecision, ComparatorAuthority

VARIABLE earned   \* history: what is known of the comparator of the run

allVars == <<vars, authVars, earned>>

HoldoutInit == Init /\ AuthInit /\ earned = FALSE

Prepare == step = "selecting" /\ AuthNext /\ UNCHANGED <<vars, earned>>

\* A holdout needs production authority and live calibration, another run calibration.
Calibrated(split) == IF split = "holdout" THEN LiveCalibration ELSE DiagnosticCalibration

Forget ==
  /\ docs' = None /\ releases' = None /\ registry' = None /\ lock' = None
  /\ evidence' = None /\ certification' = None /\ reader' = None /\ runtime' = None
  /\ locks' = {} /\ refused' = {} /\ edits' = 0

\* The files matter to judged runs only; others are admitted before anything happens to them.
Admit ==
  /\ Select
  /\ IF Judging' THEN Calibrated(plan'.split) ELSE AuthInit
  /\ earned' = (/\ Judging' /\ runtime.certified
                /\ runtime.evidence.header.corpus = runtime.docs.corpus
                /\ EarnedBy[runtime.docs.corpus][runtime.evidence.judge])
  /\ Forget

\* m1 is the model of the certification: an answer of another is not read.
Continue ==
  /\ step # "selecting" /\ Next
  /\ \A o \in Orders : trial'[o].model \in {"none", "m1"}
  /\ UNCHANGED <<authVars, earned>>

HoldoutNext == Prepare \/ Admit \/ Continue

HoldoutSpec == HoldoutInit /\ [][HoldoutNext]_allVars

\* No pair is shown to a comparator that has not deserved it: whatever is edited, locked,
\* collected and certified meanwhile, the trials that a judged run relies on are those of
\* its own corpus, and say the same in both orders and what is right of every hard pair.
ComparatorIsEarned == Judging /\ step \notin {"selecting", "refused"} => earned
=============================================================================
