------------------------------- MODULE MCCorpora -------------------------------
(* Small corpora of ten pairs, two of each outcome, one of them repeated.    *)
EXTENDS Calibration

CONSTANTS c1, c2, q1

MCCriteria == {c1, c2}
MCRequirements == {q1}

MCContract ==
  [performance |-> {c2}, qualitative |-> {}, policies |-> Policies, pairs |-> 10, each |-> 2,
   sentinels |-> 1, probes |-> 2, bothSides |-> 1, oneSided |-> 3, authority |-> "resolver"]

\* The same, but c2 is a matter of taste, and as seldom decided as in the packaged corpus.
MCContractThin == [MCContract EXCEPT !.performance = {}, !.qualitative = {c2}]

\* In so few pairs one is a tenth of the patches: 90 where the packaged release has 95.
MCAcceptance ==
  [outcome |-> 80, kappa |-> 80, eligibility |-> 90, requirement |-> 90, violations |-> 90,
   criterion |-> 80]

Says(a, b, x, y) ==
  [checks |-> [s \in Sides |-> [q \in Requirements |-> IF s = "A" THEN a ELSE b]],
   criteria |-> IF x = "none" THEN NoCriteria ELSE [c \in Criteria |-> IF c = c1 THEN x ELSE y]]

OK(x, y) == Says("satisfied", "satisfied", x, y)

Author(who, says) == [by |-> who, checks |-> says.checks, criteria |-> says.criteria]

Pair(says, sentinel, hard, longer) ==
  [sentinel |-> sentinel, critical |-> hard, hard |-> hard, longer |-> longer,
   size |-> [s \in Sides |-> IF s = longer THEN 2 ELSE 1],
   based |-> IF says.criteria = NoCriteria \/ says.criteria[c2] = "tie" THEN {} ELSE {c2},
   reviewer_a |-> Author("author", says), reviewer_b |-> Author("reader", says),
   re_review |-> Author("reader", says), resolution |-> Author("resolver", says),
   scoring_gold |-> Author("resolver", says)]

PairNames == {"a1", "a2", "b1", "b2", "t1", "t2", "x1", "x2", "u1", "u2"}

\* One-sided in both criteria; b2 is decided by c2.
GoodCorpus ==
  [p \in PairNames |->
    CASE p = "a1" -> Pair(Says("satisfied", "violated", "none", "none"), TRUE, TRUE, "A")
      [] p = "a2" -> Pair(OK("A", "tie"), FALSE, FALSE, "none")
      [] p = "b1" -> Pair(Says("violated", "satisfied", "none", "none"), TRUE, TRUE, "none")
      [] p = "b2" -> Pair(OK("tie", "B"), FALSE, FALSE, "none")
      [] p = "t1" -> Pair(OK("tie", "tie"), TRUE, FALSE, "B")
      [] p = "t2" -> Pair(OK("tie", "tie"), FALSE, FALSE, "none")
      [] p = "x1" -> Pair(OK("A", "B"), TRUE, FALSE, "none")
      [] p = "x2" -> Pair(OK("A", "B"), FALSE, FALSE, "none")
      [] p = "u1" -> Pair(Says("violated", "violated", "none", "none"), TRUE, FALSE, "none")
      [] OTHER    -> Pair(Says("violated", "unknown", "none", "none"), FALSE, FALSE, "none")]

\* a2 and b2 have changed sides, by all reviews.
OtherCorpus ==
  [GoodCorpus EXCEPT !["a2"] = Pair(OK("tie", "B"), FALSE, FALSE, "none"),
                     !["b2"] = Pair(OK("A", "tie"), FALSE, FALSE, "none")]

\* One pair waits for its reviews.
OpenCorpus ==
  [GoodCorpus EXCEPT !["t2"].resolution = NoLabels, !["t2"].scoring_gold = NoLabels,
                     !["t2"].reviewer_b = NoLabels, !["t2"].re_review = NoLabels]

\* c2 is decided in the two trade-offs only.
ThinCorpus == [GoodCorpus EXCEPT !["b2"] = Pair(OK("B", "tie"), FALSE, FALSE, "none")]
=============================================================================
