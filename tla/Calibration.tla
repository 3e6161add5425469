------------------------------ MODULE Calibration ------------------------------
(***************************************************************************)
(* How a comparator is calibrated, as the pure functions of                 *)
(* comparator_calibration/calibration.py: the corpus of pairs with its      *)
(* reviews (validate_manifest, _label_set), what it supports                *)
(* (criterion_support), and the scores and gates of a comparator's trials   *)
(* (evaluate_evidence).  ComparatorAuthority says when they are applied.    *)
(*                                                                         *)
(* A corpus is a function from pairs to what is known of them.  Labels are  *)
(* statuses and criteria in canonical sides; the decisions and violations   *)
(* that a document repeats follow from them.  Texts are left out; a patch   *)
(* is its size, and 0 if it does not apply or changes nothing.  Rates are   *)
(* in percent.                                                              *)
(***************************************************************************)
EXTENDS Judgement, FiniteSetsExt

CONSTANTS
  Contract,      \* the semantic contract: see ContractType
  Acceptance     \* minimal rates of a release: see AcceptanceType

Policies == {"tie-only", "decisive", "typed"}

\* A semantic contract: criteria that need a typed basis in the contract of a pair, the
\* policies a rubric may have, sizes of a corpus, and what makes a criterion decisive.
ContractType ==
  [performance : SUBSET Criteria, qualitative : SUBSET Criteria, policies : SUBSET Policies,
   pairs       : Nat,
   each        : Nat,       \* pairs of each outcome
   sentinels   : Nat,       \* of them, those that are repeated
   probes      : Nat,       \* pairs where one patch is longer for a reason, or for none
   bothSides   : Nat,       \* decisive labels on either side, for a criterion that has both
   oneSided    : Nat,       \* decisive labels of a criterion that has one side only
   authority   : STRING]    \* who resolves the reviews

AcceptanceType ==
  [outcome : 0..100, kappa : 0..100, eligibility : 0..100, requirement : 0..100,
   violations : 0..100, criterion : 0..100]

Outcomes == {"A", "B", "tie", "tradeoff", "unqualified"}

\* The counts of a contract agree, and each side needs a label.
ContractValid ==
  /\ Count(Contract.performance) <= 1
  /\ Contract.pairs = Contract.each * Count(Outcomes)
  /\ Contract.each > 0 /\ Contract.sentinels <= Contract.each
  /\ Contract.bothSides > 0 /\ Contract.oneSided > 0

ASSUME ContractAssumption ==
  Contract \in ContractType /\ Acceptance \in AcceptanceType /\ ContractValid

\* A rubric has a policy for each criterion; only performance needs a typed basis.
RubricValid(rubric) ==
  /\ \A c \in Criteria : rubric[c] \in Contract.policies
  /\ {c \in Criteria : rubric[c] = "typed"} = Contract.performance

-----------------------------------------------------------------------------
(* The corpus *)

NoLabels == [by |-> "nobody"]

\* What labels say; criteria count only if both patches qualify.
LabelDecision(labels) ==
  LET criteria == IF BothQualify(labels.checks) THEN labels.criteria ELSE NoCriteria
  IN  [checks |-> labels.checks, criteria |-> criteria, eligibility |-> Eligibility(labels.checks),
       violations |-> [s \in Sides |-> {q \in Requirements : labels.checks[s][q] = "violated"}],
       outcome |-> DeriveOutcome(Eligibility(labels.checks), criteria)]

\* Criteria that are decided although the pair has no typed basis for them.
WithoutBasis(pair, criteria) ==
  {c \in (Contract.performance \cup Contract.qualitative) \ pair.based :
     criteria # NoCriteria /\ criteria[c] # "tie"}

\* Two patches that qualify are compared.  Labels that score compare no others, and name
\* no winner without its basis.
ValidLabels(pair, labels, scores) ==
  /\ BothQualify(labels.checks) => labels.criteria # NoCriteria
  /\ scores => /\ labels.criteria # NoCriteria => BothQualify(labels.checks)
               /\ WithoutBasis(pair, labels.criteria) = {}

\* _same_semantic_labels: the statuses of reviews tell violated requirements only.
SameLabels(left, right) ==
  LET l == LabelDecision(left)  r == LabelDecision(right)
  IN  /\ l.eligibility = r.eligibility /\ l.violations = r.violations
      /\ left.criteria = right.criteria

Repetitions(pair) == IF pair.sentinel THEN 3 ELSE 1

\* Both patches apply and change something.
PatchesApply(pair) == \A s \in Sides : pair.size[s] > 0

\* A probe for length names the longer patch; a basis is for a criterion that needs one.
ValidPair(pair) ==
  /\ PatchesApply(pair)
  /\ pair.longer \in Sides => pair.size[pair.longer] > pair.size[SwapWinner(pair.longer)]
  /\ pair.based \subseteq Contract.performance \cup Contract.qualitative

Reviewed(pair) ==
  pair.reviewer_b # NoLabels /\ pair.re_review # NoLabels /\ pair.scoring_gold # NoLabels

Resolved(pair) == Reviewed(pair) /\ pair.resolution # NoLabels

\* Two more reviews by others than the author, and a resolution by the authority,
\* which the gold expands and does not change.
ValidReviews(pair) ==
  /\ ValidLabels(pair, pair.reviewer_a, FALSE)
  /\ ~Reviewed(pair) => pair.resolution = NoLabels
  /\ Reviewed(pair) =>
       \A review \in {pair.reviewer_b, pair.re_review} :
         review.by # pair.reviewer_a.by /\ ValidLabels(pair, review, FALSE)
  /\ Resolved(pair) =>
       /\ ValidLabels(pair, pair.resolution, FALSE)
       /\ ValidLabels(pair, pair.scoring_gold, TRUE)
       /\ pair.resolution.by = Contract.authority /\ pair.scoring_gold.by = Contract.authority
       /\ SameLabels(pair.resolution, pair.scoring_gold)

AdjudicationComplete(corpus) == \A p \in DOMAIN corpus : Resolved(corpus[p])

\* As many pairs and sentinels of every outcome as the contract says, by the author and
\* in the end by the gold; probes for length on both sides.
ValidCoverage(corpus) ==
  LET of(pairs, labels(_), o) == Count({p \in pairs : LabelDecision(labels(p)).outcome = o})
      sentinels == {p \in DOMAIN corpus : corpus[p].sentinel}
      probes    == {p \in DOMAIN corpus : corpus[p].longer \in Sides}
      balanced(labels(_)) == \A o \in Outcomes : /\ of(DOMAIN corpus, labels, o) = Contract.each
                                                 /\ of(sentinels, labels, o) = Contract.sentinels
      author(p) == corpus[p].reviewer_a
      gold(p)   == corpus[p].scoring_gold
  IN  /\ Count(probes) >= Contract.probes
      /\ Contract.probes > 0 => {corpus[p].longer : p \in probes} = Sides
      /\ balanced(author)
      /\ AdjudicationComplete(corpus) => balanced(gold)

ValidCorpus(corpus) ==
  /\ Count(DOMAIN corpus) = Contract.pairs
  /\ \A p \in DOMAIN corpus : ValidPair(corpus[p]) /\ ValidReviews(corpus[p])
  /\ ValidCoverage(corpus)

\* The criteria whose winners the corpus shows the comparator to be able to tell.
Supported(corpus) ==
  LET compared == {p \in DOMAIN corpus : corpus[p].resolution # NoLabels
                                           /\ corpus[p].resolution.criteria # NoCriteria}
      count(c, w) == Count({p \in compared : corpus[p].resolution.criteria[c] = w})
  IN  {c \in Criteria :
         IF count(c, "A") > 0 /\ count(c, "B") > 0
           THEN \A s \in Sides : count(c, s) >= Contract.bothSides
           ELSE count(c, "A") + count(c, "B") >= Contract.oneSided}

-----------------------------------------------------------------------------
(* The trials.  Answers are given by trial key, in the labels of the presentation. *)

\* expected_trial_keys: every pair in every repetition, in both presentations.
TrialKeys(corpus) ==
  UNION {{<<p, r, o>> : r \in 1..Repetitions(corpus[p]), o \in Orders} : p \in DOMAIN corpus}

\* A winner without a basis in the contract of the pair is noted, not refused.
TrialDecision(corpus, answers, p, r, o) ==
  LET answer == answers[<<p, r, o>>]
  IN  [ValidateResponse(answer, o) EXCEPT
        !.unsupported = WithoutBasis(corpus[p], Canonical(answer, o).criteria)]

Inconclusive == [outcome |-> "inconclusive"]

\* What both presentations say, in every field.
PerRepetition(corpus, answers) ==
  [p \in DOMAIN corpus |-> [r \in 1..Repetitions(corpus[p]) |->
     LET ab == TrialDecision(corpus, answers, p, r, "AB")
     IN  IF ab = TrialDecision(corpus, answers, p, r, "BA") THEN ab ELSE Inconclusive]]

\* What all repetitions say.
Observed(repetitions) ==
  IF \A r \in DOMAIN repetitions : repetitions[r] = repetitions[1]
    THEN repetitions[1] ELSE Inconclusive

-----------------------------------------------------------------------------
(* Rates.  Expected and observed are functions on the same items. *)

\* The mean of the classes' recalls is a rate, over a common denominator.
BalancedAccuracyAtLeast(percent, expected, observed) ==
  LET classes == {expected[x] : x \in DOMAIN expected}
      size(c) == Count({x \in DOMAIN expected : expected[x] = c})
      hits(c) == Count({x \in DOMAIN expected : expected[x] = c /\ observed[x] = c})
      common  == FoldSet(LAMBDA c, product : size(c) * product, 1, classes)
  IN  100 * MapThenSumSet(LAMBDA c : hits(c) * (common \div size(c)), classes)
        >= percent * Count(classes) * common

\* Agreement beyond chance; both sides times the square of the number of items.
KappaAtLeast(percent, expected, observed) ==
  LET total  == Count(DOMAIN expected)
      agreed == Count({x \in DOMAIN expected : expected[x] = observed[x]})
      labels == {expected[x] : x \in DOMAIN expected} \cup {observed[x] : x \in DOMAIN observed}
      of(f, l) == Count({x \in DOMAIN f : f[x] = l})
      chance == MapThenSumSet(LAMBDA l : of(expected, l) * of(observed, l), labels)
  IN  IF chance = total * total THEN agreed = total \/ percent = 0
      ELSE 100 * (agreed * total - chance) >= percent * (total * total - chance)

RateAtLeast(percent, hits, items) == 100 * Count(hits) >= percent * Count(items)

-----------------------------------------------------------------------------
(* evaluate_evidence: scores and gates *)

Scored(corpus) == {p \in DOMAIN corpus : corpus[p].scoring_gold # NoLabels}

\* The rates of outcomes, eligibility, statuses, violations and criteria, by gold and by
\* what was observed.
RatesMet(corpus, gold, seen) ==
  LET scored == DOMAIN gold
      told   == {p \in scored : seen[p] # Inconclusive}
      sides  == scored \X Sides
      checks == sides \X Requirements
      compared == {p \in scored : gold[p].criteria # NoCriteria}
      winner(p, c) == IF p \in told /\ seen[p].criteria # NoCriteria THEN seen[p].criteria[c]
                      ELSE "inconclusive"
      outcomes(of) == [p \in scored |-> of[p].outcome]
      right(field) == {x \in told \X Sides : seen[x[1]][field][x[2]] = gold[x[1]][field][x[2]]}
  IN  [outcome      |-> BalancedAccuracyAtLeast(Acceptance.outcome, outcomes(gold), outcomes(seen)),
       kappa        |-> KappaAtLeast(Acceptance.kappa, outcomes(gold), outcomes(seen)),
       eligibility  |-> RateAtLeast(Acceptance.eligibility, right("eligibility"), sides),
       violations   |-> RateAtLeast(Acceptance.violations, right("violations"), sides),
       requirement  |-> RateAtLeast(Acceptance.requirement,
                          {x \in (told \X Sides) \X Requirements :
                             seen[x[1][1]].checks[x[1][2]][x[2]] = gold[x[1][1]].checks[x[1][2]][x[2]]},
                          checks),
       criterion    |-> \A c \in Criteria :
                          BalancedAccuracyAtLeast(Acceptance.criterion,
                            [p \in compared |-> gold[p].criteria[c]],
                            [p \in compared |-> winner(p, c)])]

\* Faults that no rate makes up for: presentations or repetitions that differ, a pair that
\* is critical or has a hard constraint and is not exactly met, a longer patch that
\* misleads, a winner without a basis.
FaultsOf(corpus, gold, seen, rep) ==
  LET scored == DOMAIN gold
      hard   == {p \in scored : corpus[p].critical \/ corpus[p].hard}
      exact(p) == /\ seen[p] # Inconclusive
                  /\ \A f \in {"eligibility", "violations", "checks"} : seen[p][f] = gold[p][f]
      missed == {p \in scored : seen[p].outcome # gold[p].outcome}
  IN  [order       |-> {p \in DOMAIN corpus : \E r \in DOMAIN rep[p] : rep[p][r] = Inconclusive},
       stability   |-> {p \in DOMAIN corpus : corpus[p].sentinel /\ Observed(rep[p]) = Inconclusive},
       hardOutcome |-> hard \cap missed,
       hardExact   |-> {p \in hard : ~exact(p)},
       length      |-> {p \in missed : corpus[p].longer \in Sides},
       basis       |-> {p \in scored : seen[p] # Inconclusive /\ seen[p].unsupported # {}}]

\* Mutant of Passed: rates and hard pairs, but presentations may differ.
PassedUnordered(corpus, answers) ==
  LET rep  == PerRepetition(corpus, answers)
      gold == [p \in Scored(corpus) |-> LabelDecision(corpus[p].scoring_gold)]
      seen == [p \in Scored(corpus) |-> Observed(rep[p])]
      faults == FaultsOf(corpus, gold, seen, rep)
  IN  /\ AdjudicationComplete(corpus)
      /\ \A g \in DOMAIN RatesMet(corpus, gold, seen) : RatesMet(corpus, gold, seen)[g]
      /\ \A g \in DOMAIN faults \ {"order", "stability"} : faults[g] = {}

\* The gates that depend on the answers, all of which a comparator must pass.
Passed(corpus, answers) ==
  LET rep  == PerRepetition(corpus, answers)
      gold == [p \in Scored(corpus) |-> LabelDecision(corpus[p].scoring_gold)]
      seen == [p \in Scored(corpus) |-> Observed(rep[p])]
      rates  == RatesMet(corpus, gold, seen)
      faults == FaultsOf(corpus, gold, seen, rep)
  IN  /\ AdjudicationComplete(corpus)
      /\ \A g \in DOMAIN rates : rates[g]
      /\ \A g \in DOMAIN faults : faults[g] = {}

-----------------------------------------------------------------------------
(* What the answers say, read off the presentations themselves *)

RoleOf(side) == IF side = "A" THEN "control" ELSE "treatment"

\* In every trial of a pair the comparator saw of each patch exactly what the gold says,
\* and preferred a patch just when the gold does.
MeetsGold(corpus, answers, p) ==
  LET gold == LabelDecision(corpus[p].scoring_gold)
  IN  \A r \in 1..Repetitions(corpus[p]), o \in Orders, s \in Sides :
        LET answer == answers[<<p, r, o>>]
        IN  /\ answer.checks[ShownAs(RoleOf(s), o)] = gold.checks[s]
            /\ Prefers(answer, o, RoleOf(s)) <=> gold.outcome = s

\* The two presentations of a pair say the same of each patch and criterion, every time.
SaysTheSame(corpus, answers, p) ==
  \A r \in 1..Repetitions(corpus[p]), s \in Sides :
    LET ab == answers[<<p, r, "AB">>]  ba == answers[<<p, r, "BA">>]
        shown(o) == ShownAs(RoleOf(s), o)
    IN  /\ ab.checks[shown("AB")] = ba.checks[shown("BA")]
        /\ (ab.criteria = NoCriteria) = (ba.criteria = NoCriteria)
        /\ ab.criteria # NoCriteria =>
             \A c \in Criteria : ab.criteria[c] = shown("AB") <=> ba.criteria[c] = shown("BA")

\* The comparator has earned what a certification says of it.
Earned(corpus, answers) ==
  /\ \A p \in DOMAIN corpus : Resolved(corpus[p]) /\ SaysTheSame(corpus, answers, p)
  /\ \A p \in DOMAIN corpus : corpus[p].critical \/ corpus[p].hard => MeetsGold(corpus, answers, p)
=============================================================================
