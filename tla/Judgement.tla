------------------------------- MODULE Judgement -------------------------------
(***************************************************************************)
(* How skivolve reads a comparator's answer: validate_response and          *)
(* derive_outcome of comparator_calibration/calibration.py, and what        *)
(* run_transport and the provider refuse after it.  The comparator is shown *)
(* the two patches as A and B, once in each order, and answers in the       *)
(* labels it was shown; a decision is in canonical labels, where A is the   *)
(* control and B the treatment.                                             *)
(*                                                                         *)
(* An answer has a status for every requirement of the contract, and, if    *)
(* both patches are eligible, a winner for every criterion.  Quotes and     *)
(* other evidence are left out: an answer whose evidence is refused is one  *)
(* that cannot be read, and so is one whose admissibility differs from its  *)
(* own statuses.                                                            *)
(***************************************************************************)
EXTENDS Naturals, FiniteSets

CONSTANTS
  Requirements,   \* of the case's contract
  Criteria,       \* of the semantic contract
  Unsupported     \* criteria without a basis in the contract or support in the release

ASSUME CriteriaAssumption == Unsupported \subseteq Criteria

Sides    == {"A", "B"}
Orders   == {"AB", "BA"}
Statuses == {"satisfied", "violated", "unknown"}
Winners  == {"A", "B", "tie"}

NoCriteria == <<>>

Count(S) == Cardinality(S)

DeriveEligibility(checks) ==
  IF \E q \in Requirements : checks[q] = "violated" THEN "ineligible"
  ELSE IF \E q \in Requirements : checks[q] = "unknown" THEN "unknown"
  ELSE "eligible"

Eligibility(checks) == [s \in Sides |-> DeriveEligibility(checks[s])]

BothQualify(checks) == \A s \in Sides : DeriveEligibility(checks[s]) = "eligible"

\* The answers that can be read: criteria are compared if and only if both qualify.
Answers ==
  LET statuses == [Sides -> [Requirements -> Statuses]]
  IN  [checks : {c \in statuses : BothQualify(c)}, criteria : [Criteria -> Winners]]
      \cup [checks : {c \in statuses : ~BothQualify(c)}, criteria : {NoCriteria}]

SwapWinner(w) == CASE w = "A" -> "B" [] w = "B" -> "A" [] OTHER -> "tie"

\* Mutant of Canonical: the criteria keep the labels of the presentation.
CanonicalChecksOnly(answer, order) ==
  IF order = "AB" THEN answer
  ELSE [answer EXCEPT !.checks = [s \in Sides |-> @[SwapWinner(s)]]]

\* From the labels of the presentation to canonical ones.
Canonical(answer, order) ==
  IF order = "AB" THEN answer
  ELSE [checks   |-> [s \in Sides |-> answer.checks[SwapWinner(s)]],
        criteria |-> IF answer.criteria = NoCriteria THEN NoCriteria
                     ELSE [c \in Criteria |-> SwapWinner(answer.criteria[c])]]

\* Eligibility first; only between two eligible patches, Pareto comparison.
DeriveOutcome(eligibility, criteria) ==
  LET sole(s) == eligibility[s] = "eligible" /\ eligibility[SwapWinner(s)] = "ineligible"
      won(s)  == \E c \in Criteria : criteria[c] = s
  IN  IF \E s \in Sides : sole(s) THEN CHOOSE s \in Sides : sole(s)
      ELSE IF \E s \in Sides : eligibility[s] # "eligible" THEN "unqualified"
      ELSE CASE won("A") /\ won("B") -> "tradeoff"
             [] won("A") /\ ~won("B") -> "A"
             [] won("B") /\ ~won("A") -> "B"
             [] OTHER -> "tie"

\* The full normalised decision, which is what two trials are compared by.
ValidateResponse(answer, order) ==
  LET c == Canonical(answer, order)
      e == Eligibility(c.checks)
  IN  [checks |-> c.checks, criteria |-> c.criteria, eligibility |-> e,
       violations |-> [s \in Sides |-> {q \in Requirements : c.checks[s][q] = "violated"}],
       unsupported |-> {k \in Unsupported : c.criteria # NoCriteria /\ c.criteria[k] # "tie"},
       outcome |-> DeriveOutcome(e, c.criteria)]

\* A criterion that nothing supports must be tied.
Admissible(decision) == decision.unsupported = {}

MapOutcome(outcome) ==
  CASE outcome = "A" -> "control" [] outcome = "B" -> "treatment" [] OTHER -> outcome

-----------------------------------------------------------------------------
(* What an answer says of one patch, read off the presentation itself *)

\* The label under which a patch was shown: the control is A in order AB.
ShownAs(role, order) == IF (role = "control") = (order = "AB") THEN "A" ELSE "B"

\* The answer prefers one patch: it alone is known to qualify and the other not to,
\* or both qualify and it is ahead in some criterion and behind in none.
Prefers(answer, order, role) ==
  LET mine   == ShownAs(role, order)
      other  == CHOOSE s \in Sides : s # mine
      met(s) == \A q \in Requirements : answer.checks[s][q] = "satisfied"
      broke(s) == \E q \in Requirements : answer.checks[s][q] = "violated"
  IN  /\ met(mine)
      /\ \/ broke(other)
         \/ /\ met(other)
            /\ \A c \in Criteria : answer.criteria[c] # other
            /\ \E c \in Criteria : answer.criteria[c] = mine
=============================================================================
