---------------------------- MODULE ReleaseDecision ----------------------------
(***************************************************************************)
(* From the arms of a pair to the release: _run_pair, _compare_blind,       *)
(* _comparator_cost_accounting and _aggregate of skivolve/runner.py.        *)
(*                                                                         *)
(* A cell is one comparison with its cases of one skill; a case is run in   *)
(* three pairs.  Both arms of a pair are over when its decision begins      *)
(* (ArmPair says how); if both pass, two comparator trials run at the same  *)
(* time, one for each order of presentation, on the account of the          *)
(* comparison.  A finished case becomes a case result and is counted in its *)
(* cell.  The code computes all this at the end, from the list of pairs; a  *)
(* case result depends on its own pairs only, and cells share nothing but   *)
(* gates and accounts, so that the model folds them in as they end.         *)
(*                                                                         *)
(* What a plan may spend and the rules of a selection are checked before    *)
(* the first pair.  Each pair of the matrix is run once: the gate that says *)
(* so, and the one for repeated task content, which a plan excludes, hold   *)
(* here by the loop.  Arms and comparator keep to the merit of the case     *)
(* except for a bounded number of deviations.                               *)
(***************************************************************************)
EXTENDS Judgement, Sequences, Combinatorics, FiniteSetsExt

CONSTANTS
  Plans,       \* what may be run: see PlanType
  MinCases,    \* cases a skill needs in a holdout, informative cases a release needs
  PerCall      \* what one comparator call may cost

Roles  == {"control", "treatment"}
Merits == Roles \cup {"even"}
Modes  == {"judged", "verifier_only", "objective_only"}

PlanType ==
  [split     : {"holdout", "train"},
   mode      : Modes,
   cells     : Nat \ {0},     \* comparisons; a selection without any is refused
   cases     : Nat \ {0},     \* of the one skill, likewise
   cap       : Nat,           \* what the comparator may cost, per comparison
   authority : BOOLEAN,       \* generator, comparator or policy, and plan bindings
   odd       : Nat,           \* bound on deviations
   simple    : BOOLEAN]       \* deviations are the simple ones only

ASSUME PlansAssumption == Plans \subseteq PlanType /\ {MinCases, PerCall} \subseteq Nat

VARIABLES
  plan,
  step,       \* where the run is
  cell,       \* the cell it is at
  merit,      \* which patch of the case is better, by the rules of the deviations
  arms,       \* the arms of the pair
  trial,      \* its comparator trials, by order
  done,       \* the pairs of the case that are over
  tally,      \* cases of the cell, by winner
  blemishes,  \* gates some case of the run fails
  models, judges,  \* actual model sets of agents and comparator
  account,    \* costs: committed in the cell's ledger, known, unknown, reservations open
  verdicts,   \* the cells that are over: authorised by the code, and by the tally
  report,
  bills,      \* history: what the calls have cost
  spoiled,    \* history: something that a release does not forgive
  odd

pairVars == <<merit, arms, trial, done>>
runVars  == <<plan, cell, tally, blemishes, verdicts, report>>
history  == <<bills, spoiled>>
vars     == <<step, pairVars, runVars, models, judges, account, history, odd>>

NoArm    == [status |-> "none", passed |-> FALSE, cost |-> "none"]
NoTrial  == [at |-> "ready", answer |-> NoCriteria, model |-> "none"]
NoReport == [passed |-> FALSE, authorized |-> FALSE, total |-> "none", known |-> 0]

Init ==
  /\ plan = CHOOSE p \in Plans : TRUE
  /\ step = "selecting" /\ cell = 1 /\ merit = "treatment"
  /\ arms = [r \in Roles |-> NoArm] /\ trial = [o \in Orders |-> NoTrial] /\ done = <<>>
  /\ tally = [w \in Merits |-> 0] /\ blemishes = {}
  /\ models = {} /\ judges = {}
  /\ account = [committed |-> 0, known |-> 0, unknown |-> 0, open |-> 0]
  /\ verdicts = <<>> /\ report = NoReport
  /\ bills = 0 /\ spoiled = FALSE /\ odd = 0

Judging == plan.mode = "judged"

\* Something other than the merit of the case decides; deviations are counted.
\* In long runs it is a simple one: one arm, or an answer that is the same throughout.
Deviations(number) == odd' = odd + number /\ odd' <= plan.odd

Once(deviates) == IF deviates THEN 1 ELSE 0

-----------------------------------------------------------------------------
(* Before the first pair *)

\* A holdout has all its comparisons and enough cases; a judged diagnostic run one.
Selectable ==
  IF plan.split = "holdout" THEN plan.cases >= MinCases
  ELSE Judging => plan.cells = 1

PairRuns == 3 * plan.cases

\* Mutant of MaximumCalls: one call for a pair.
MaximumCallsHalf == PairRuns

MaximumCalls == PairRuns * 2

\* The calls of a comparison, each at its most expensive, stay within its cap.
WithinCap == MaximumCalls * PerCall <= plan.cap

Select ==
  /\ step = "selecting" /\ plan' \in Plans
  /\ step' = IF Selectable' /\ (Judging => WithinCap)' THEN "case" ELSE "refused"
  /\ UNCHANGED <<pairVars, cell, tally, blemishes, verdicts, report, models, judges, account,
                 history, odd>>

-----------------------------------------------------------------------------
(* The arms *)

\* An arm that passes its verifier passes every critical assertion: a payload that
\* says otherwise is refused, and the arm has failed.
ArmResults ==
  [status : {"completed"}, passed : BOOLEAN, cost : {"known", "unknown"}]
  \cup [status : {"failed"}, passed : {FALSE}, cost : {"known", "unknown", "none"}]

Passing(r) == [status |-> "completed", passed |-> r, cost |-> "known"]

\* What arms do unless they deviate: both pass, or the better one alone.  In long
\* runs the comparator finds the better patch, if there is one.
Expected ==
  LET both  == [r \in Roles |-> Passing(TRUE)]
      alone == IF merit = "even" THEN both ELSE [r \in Roles |-> Passing(r = merit)]
  IN  IF ~plan.simple THEN {both, alone} ELSE IF Judging THEN {both} ELSE {alone}

PairResults == [Roles -> ArmResults]

\* One arm at most goes wrong.
SimpleResults == {result \in PairResults : \E r \in Roles : result[r] = Passing(TRUE)}

\* Cases of a cell are interchangeable: those of equal merit come together.
Rank == [treatment |-> 1, control |-> 2, even |-> 3]

StartCase ==
  /\ step = "case"
  /\ merit' \in Merits /\ Rank[merit] <= Rank[merit']
  /\ step' = "pair"
  /\ UNCHANGED <<arms, trial, done, runVars, models, judges, account, history, odd>>

\* Both arms are over: their provider costs are known, or count as unknown if an
\* agent was called; the models of those that answered are noted, and if one did not.
RunArms ==
  /\ step = "pair"
  /\ \E result \in IF plan.simple THEN SimpleResults ELSE PairResults,
        model \in {"m1", "m2"}, alike \in BOOLEAN :
       /\ Deviations(Once(result \notin Expected) + Once(model # "m1") + Once(~alike))
       /\ arms' = [r \in Roles |-> result[r]]
       /\ LET answered == {r \in Roles : result[r].status = "completed" \/ result[r].cost = "known"}
          IN  models' = models \cup (IF answered = {} THEN {} ELSE {model})
                               \cup (IF answered = Roles THEN {} ELSE {"missing"})
       /\ LET costing(c) == Count({r \in Roles : result[r].cost = c})
          IN  /\ account' = [account EXCEPT !.known = @ + costing("known"),
                                            !.unknown = @ + costing("unknown")]
              /\ bills' = bills + costing("known") + costing("unknown")
       /\ step' = IF alike /\ \A r \in Roles : result[r].status = "completed"
                    THEN "armed" ELSE "broken"
       /\ spoiled' = (spoiled \/ step' = "broken" \/ ~result["treatment"].passed)
  /\ UNCHANGED <<merit, trial, done, runVars, judges>>

-----------------------------------------------------------------------------
(* The comparator trials *)

\* The winner of a pair that needs no comparator, or "judge".
ObjectiveWinner ==
  LET passing == {r \in Roles : arms[r].passed}
  IN  IF Count(passing) = 1 THEN CHOOSE r \in passing : TRUE
      ELSE CASE plan.mode = "objective_only" -> "tie"
             [] plan.mode # "objective_only" /\ passing = {} -> "unqualified"
             [] plan.mode = "verifier_only" /\ passing = Roles -> "tie"
             [] plan.mode = "judged" /\ passing = Roles -> "judge"

\* The pair is shown to the comparator; a patch that cannot be shown ends it.
ShowPair ==
  /\ step = "armed" /\ ObjectiveWinner = "judge"
  /\ \E representable \in BOOLEAN :
       /\ Deviations(Once(~representable))
       /\ step' = IF representable THEN "judging" ELSE "broken"
       /\ spoiled' = (spoiled \/ ~representable)
  /\ UNCHANGED <<pairVars, runVars, models, judges, account, bills>>

At(o, from, to) ==
  /\ step = "judging" /\ trial[o].at = from
  /\ trial' = [trial EXCEPT ![o].at = to]

\* A call whose most expensive outcome the account does not cover is not made.
Reserve(o) ==
  /\ IF account.committed + PerCall <= plan.cap
       THEN /\ At(o, "ready", "reserved")
            /\ account' = [account EXCEPT !.committed = @ + PerCall, !.open = @ + 1]
       ELSE /\ At(o, "ready", "refused") /\ UNCHANGED account
  /\ UNCHANGED <<step, merit, arms, done, runVars, models, judges, history, odd>>

\* The authority changed, or another error before the reservation: nothing is spent.
FailBefore(o) ==
  /\ At(o, "ready", "failed")
  /\ Deviations(1) /\ spoiled' = TRUE
  /\ UNCHANGED <<step, merit, arms, done, runVars, models, judges, account, bills>>

\* The answers that follow the merit of a case.
HonestAnswers ==
  [better \in Merits |-> [o \in Orders |->
    {a \in Answers :
      /\ \A s \in Sides, q \in Requirements : a.checks[s][q] = "satisfied"
      /\ \A c \in Criteria : a.criteria[c] = IF better = "even" \/ c \in Unsupported THEN "tie"
                                              ELSE ShownAs(better, o)}]]

SimpleAnswers == UNION {HonestAnswers[m][o] : m \in Merits, o \in Orders}

\* The call succeeds, costs what it may cost or less, and is reconciled.
Reconcile(o) ==
  /\ step = "judging" /\ trial[o].at = "reserved"
  /\ \E answer \in IF plan.simple THEN SimpleAnswers ELSE Answers,
        model \in {"m1", "m2"}, cost \in {0, PerCall} :
       /\ Deviations(Once(answer \notin HonestAnswers[merit][o]) + Once(model # "m1") + Once(cost # PerCall))
       /\ trial' = [trial EXCEPT ![o] = [at |-> "reconciled", answer |-> answer, model |-> model]]
       /\ account' = [account EXCEPT !.committed = @ - PerCall + cost,
                                     !.known = @ + cost, !.open = @ - 1]
       /\ bills' = bills + cost
  /\ UNCHANGED <<step, merit, arms, done, runVars, models, judges, spoiled>>

\* The call fails, or its answer cannot be read: its full price is forfeit, unless
\* that cannot be recorded either, and then the reservation stays open.
Forfeit(o) ==
  /\ At(o, "reserved", "failed")
  /\ \E recorded \in BOOLEAN :
       account' = [account EXCEPT !.unknown = IF recorded THEN @ + 1 ELSE @,
                                  !.open = IF recorded THEN @ - 1 ELSE @]
  /\ bills' = bills + 1
  /\ Deviations(1) /\ spoiled' = TRUE
  /\ UNCHANGED <<step, merit, arms, done, runVars, models, judges>>

Decision(o) == ValidateResponse(trial[o].answer, o)

\* Refused after it was paid for: a winner nothing supports, evidence that does not
\* fit, a changed authority, an artifact that cannot be written.
Accept(o) ==
  /\ \E accepted \in BOOLEAN :
       /\ At(o, "reconciled", IF accepted THEN "accepted" ELSE "failed")
       /\ accepted => Admissible(Decision(o))
       /\ Deviations(Once(~accepted /\ Admissible(Decision(o))))
       /\ spoiled' = (spoiled \/ ~accepted)
  /\ UNCHANGED <<step, merit, arms, done, runVars, models, judges, account, bills>>

-----------------------------------------------------------------------------
(* The decision of the pair *)

PairResult(winner, completed, bias) ==
  [winner |-> winner, completed |-> completed, bias |-> bias,
   passed |-> arms["treatment"].status = "completed" /\ arms["treatment"].passed]

Broken == PairResult("inconclusive", FALSE, FALSE)

BothAccepted == \A o \in Orders : trial[o].at = "accepted"

\* Both trials must say the same in every field.
JudgedResult ==
  IF ~BothAccepted THEN Broken
  ELSE IF Decision("AB") # Decision("BA") THEN PairResult("inconclusive", FALSE, TRUE)
  ELSE PairResult(MapOutcome(Decision("AB").outcome), TRUE, FALSE)

\* The two answers say the same of each patch and of each criterion.
Mirrored ==
  /\ \A r \in Roles : trial["AB"].answer.checks[ShownAs(r, "AB")]
                        = trial["BA"].answer.checks[ShownAs(r, "BA")]
  /\ (trial["AB"].answer.criteria = NoCriteria) = (trial["BA"].answer.criteria = NoCriteria)
  /\ trial["AB"].answer.criteria # NoCriteria =>
       \A c \in Criteria, r \in Roles :
          (trial["AB"].answer.criteria[c] = ShownAs(r, "AB"))
            = (trial["BA"].answer.criteria[c] = ShownAs(r, "BA"))

EndPair(result) ==
  /\ done' = Append(done, result)
  /\ step' = "decided"

\* The trials of a pair are kept, with their models, only if both were accepted.
Decide ==
  /\ \/ /\ step = "broken" /\ EndPair(Broken) /\ UNCHANGED spoiled
     \/ /\ step = "armed" /\ ObjectiveWinner # "judge"
        /\ EndPair(PairResult(ObjectiveWinner, TRUE, FALSE)) /\ UNCHANGED spoiled
     \/ /\ step = "judging"
        /\ \A o \in Orders : trial[o].at \in {"accepted", "failed", "refused"}
        /\ EndPair(JudgedResult)
        /\ spoiled' = (spoiled \/ (BothAccepted /\ ~Mirrored))
  /\ judges' = judges \cup (IF step = "judging" /\ BothAccepted
                              THEN {trial[o].model : o \in Orders} ELSE {})
  /\ UNCHANGED <<merit, arms, trial, runVars, models, account, bills, odd>>

NextPair ==
  /\ step = "decided" /\ Len(done) < 3
  /\ step' = "pair"
  /\ arms' = [r \in Roles |-> NoArm] /\ trial' = [o \in Orders |-> NoTrial]
  /\ UNCHANGED <<merit, done, runVars, models, judges, account, history, odd>>

-----------------------------------------------------------------------------
(* Case results and cells *)

Winner(pairs) ==
  LET count(w) == Count({i \in DOMAIN pairs : pairs[i].winner = w})
      majority == {pairs[i].winner : i \in {j \in DOMAIN pairs : count(pairs[j].winner) >= 2}}
      complete == \A i \in DOMAIN pairs : pairs[i].completed
  IN  IF complete /\ Count(majority) = 1 THEN CHOOSE w \in majority : TRUE ELSE "inconclusive"

\* Mutant of CaseBlemishes: one good repetition is enough for the treatment.
CaseBlemishesLenient(pairs) ==
  LET complete == \A i \in DOMAIN pairs : pairs[i].completed
  IN  (IF complete THEN {} ELSE {"incomplete"})
      \cup (IF \E i \in DOMAIN pairs : pairs[i].passed THEN {} ELSE {"unstable"})

\* The gates a case fails: infrastructure, the treatment's three repetitions, order.
\* An arm that passes has its critical assertions: see ArmResults.
CaseBlemishes(pairs) ==
  LET complete == \A i \in DOMAIN pairs : pairs[i].completed
      stable   == complete /\ \A i \in DOMAIN pairs : pairs[i].passed
      ordered  == complete /\ \A i \in DOMAIN pairs : ~pairs[i].bias
  IN  (IF complete THEN {} ELSE {"incomplete"}) \cup (IF stable THEN {} ELSE {"unstable"})
      \cup (IF ordered THEN {} ELSE {"disordered"})

EndCase ==
  /\ step = "decided" /\ Len(done) = 3
  /\ LET w == Winner(done) IN
       tally' = [tally EXCEPT ![IF w \in Roles THEN w ELSE "even"] = @ + 1]
  /\ blemishes' = blemishes \cup CaseBlemishes(done)
  /\ done' = <<>> /\ arms' = [r \in Roles |-> NoArm] /\ trial' = [o \in Orders |-> NoTrial]
  /\ step' = IF MapThenSumSet(LAMBDA w : tally'[w], Merits) < plan.cases THEN "case" ELSE "cell"
  /\ UNCHANGED <<plan, cell, merit, verdicts, report, models, judges, account, history, odd>>

\* 2^n times the probability of at least so many wins in n cases.
SignTest(wins, losses) ==
  MapThenSumSet(LAMBDA v : choose(wins + losses, v), wins..(wins + losses))

\* The cell's share; that its cases are without blemish is asked of all cells by Gates.
HoldoutAuthorized ==
  LET wins == tally["treatment"]  losses == tally["control"]
  IN  /\ plan.split = "holdout"
      /\ wins + losses >= MinCases
      /\ 20 * SignTest(wins, losses) <= 2 ^ (wins + losses)

\* The same by counting the ways in which a fair coin does as well.
FairlyWon ==
  LET n == tally["treatment"] + tally["control"]
      asGood == {S \in SUBSET (1..n) : Count(S) >= tally["treatment"]}
  IN  n >= MinCases /\ 20 * Count(asGood) <= 2 ^ n

EndCell ==
  /\ step = "cell"
  /\ verdicts' = Append(verdicts, [authorized |-> HoldoutAuthorized, fair |-> FairlyWon])
  /\ tally' = [w \in Merits |-> 0]
  /\ account' = [account EXCEPT !.committed = 0] /\ merit' = "treatment"
  /\ IF cell < plan.cells THEN cell' = cell + 1 /\ step' = "case"
                          ELSE cell' = cell /\ step' = "report"
  /\ UNCHANGED <<plan, blemishes, report, arms, trial, done, models, judges, history, odd>>

-----------------------------------------------------------------------------
(* _aggregate *)

\* Mutant of Total: calls that were forfeited cost nothing.
TotalKnown == "known"

\* The total is known only if every cost is.
Total == IF account.unknown > 0 THEN "unknown" ELSE "known"

Gates ==
  [infrastructure |-> "incomplete" \notin blemishes,
   stability      |-> "unstable" \notin blemishes,
   generator      |-> Count(models) = 1 /\ "missing" \notin models,
   comparator     |-> ~Judging \/ Count(judges) <= 1,
   order          |-> ~Judging \/ "disordered" \notin blemishes,
   protocol       |-> plan.split = "holdout" => plan.authority]

FinalReleaseAuthorized ==
  /\ plan.split = "holdout"
  /\ plan.mode # "verifier_only"
  /\ plan.authority
  /\ \A i \in 1..plan.cells : verdicts[i].authorized
  /\ \A g \in DOMAIN Gates : Gates[g]

\* A diagnostic run passes by its gates; one without comparator by the first three.
RunPassed ==
  CASE plan.split = "holdout" -> FinalReleaseAuthorized
    [] plan.split # "holdout" /\ ~Judging
         -> Gates["infrastructure"] /\ Gates["stability"] /\ Gates["generator"]
    [] OTHER -> \A g \in DOMAIN Gates : Gates[g]

\* A journal with an open reservation, and with it the run, has no report.
Aggregate ==
  /\ step = "report"
  /\ IF account.open > 0
       THEN step' = "refused" /\ UNCHANGED report
       ELSE /\ step' = "reported"
            /\ report' = [passed |-> RunPassed, authorized |-> FinalReleaseAuthorized,
                          total |-> Total, known |-> account.known]
  /\ UNCHANGED <<plan, cell, tally, blemishes, verdicts, pairVars, models, judges, account,
                 history, odd>>

Next ==
  \/ Select \/ StartCase \/ RunArms \/ ShowPair
  \/ \E o \in Orders : Reserve(o) \/ FailBefore(o) \/ Reconcile(o) \/ Forfeit(o) \/ Accept(o)
  \/ Decide \/ NextPair \/ EndCase \/ EndCell \/ Aggregate

Spec == Init /\ [][Next]_vars

-----------------------------------------------------------------------------
(* Properties *)

\* A patch that wins by the comparator won in both presentations: in each answer, as
\* it was given, it qualifies, and the other does not or is ahead in nothing.
WinnerIsPreferredTwice ==
  step = "decided" /\ done[Len(done)].winner \in Roles /\ (\E o \in Orders : trial[o].at # "ready")
    => \A o \in Orders : Prefers(trial[o].answer, o, done[Len(done)].winner)

\* A release is authorised only if, in every cell, a fair coin would do as well as the
\* treatment in at most one run of twenty, over enough informative cases, and if in no
\* pair of the run an arm, a trial or a presentation order went wrong.
AuthorizedIsWon ==
  report.authorized =>
    /\ \A i \in 1..plan.cells : verdicts[i].fair
    /\ ~spoiled /\ plan.authority /\ Count(models) = 1

\* A total that is reported as known is what all calls have cost, with those whose
\* pair has failed.
TotalIsTheBill == report.total = "known" => report.known = bills

\* A run whose plan was admitted is never refused a comparator call for want of budget.
PlanCoversCalls == \A o \in Orders : trial[o].at # "refused"
=============================================================================
