-------------------------- MODULE HoldoutReleaseProofs --------------------------
(* The safety of ReleaseDecision and of its composition with the comparator's *)
(* authority, for any plans, criteria, prices and deviations.                 *)
EXTENDS HoldoutRelease, FiniteSetTheorems, WellFoundedInduction, TLAPS

-----------------------------------------------------------------------------
(* The run: the inductive invariant *)

\* Within a pair, and where there is none.
InPair == {"armed", "broken", "judging", "decided"}
Steps  == {"selecting", "refused", "case", "pair", "cell", "report", "reported"} \cup InPair

Ats == {"ready", "reserved", "refused", "reconciled", "accepted", "failed"}

WinnerNames == Roles \cup {"tie", "unqualified", "tradeoff", "inconclusive"}

PairKind == [winner : WinnerNames, completed : BOOLEAN, bias : BOOLEAN, passed : BOOLEAN]

ArmKind == [status : {"none", "completed", "failed"}, passed : BOOLEAN,
            cost : {"none", "known", "unknown"}]

TrialKind == [at : Ats, answer : Answers \cup {NoCriteria}, model : {"none", "m1", "m2"}]

AccountKind == [committed : Int, known : Nat, unknown : Nat, open : Nat]

\* Where the calls of both orders are.
Both(at) == Once(trial["AB"].at = at) + Once(trial["BA"].at = at)

RunTypeOK ==
  /\ step \in Steps /\ cell \in Nat \ {0}
  /\ step \notin {"selecting", "refused"} => plan \in Plans
  /\ merit \in Merits
  /\ arms \in [Roles -> ArmKind]
  /\ trial \in [Orders -> TrialKind]
  /\ done \in Seq(PairKind)
  /\ tally \in [Merits -> Nat]
  /\ blemishes \subseteq {"incomplete", "unstable", "disordered"}
  /\ account \in AccountKind
  /\ bills \in Nat /\ spoiled \in BOOLEAN

\* How many pairs are over at which step, and where a trial can have begun.
PlaceInv ==
  /\ step \in {"selecting", "refused", "case", "cell", "report", "reported"} => done = <<>>
  /\ step \in {"pair", "armed", "broken", "judging"} => Len(done) < 3
  /\ step = "decided" => Len(done) \in 1..3
  /\ step \notin {"judging", "decided"} => Both("ready") = 2
  /\ \A o \in Orders : trial[o].at \in {"reconciled", "accepted"} => trial[o].answer \in Answers
  /\ step = "decided" => Both("reserved") = 0
  /\ step = "judging" => Judging

\* The cases of the cell that are over.
Cases == tally["treatment"] + tally["control"] + tally["even"]

\* The calls that the cell has begun, of six for each case.
Begun ==
  6 * Cases + (IF step = "decided" THEN 2 * (Len(done) - 1) ELSE 2 * Len(done))
            + (2 - Both("ready"))

\* Every call has its price set aside, and there is room for all that can still come.
BudgetInv ==
  /\ step \notin {"selecting", "refused"} /\ Judging => WithinCap
  /\ step \in {"case", "pair"} \cup InPair => Cases < plan.cases
  /\ step \in {"case", "pair"} \cup InPair => account.committed <= PerCall * Begun
  /\ step = "selecting" => account.committed = 0 /\ Cases = 0
  /\ PlanCoversCalls

\* What is not in the known costs is in a reservation that stays open, or counted.
BillInv ==
  /\ account.open >= Both("reserved")
  /\ account.unknown = 0 /\ bills # account.known => account.open > Both("reserved")
  /\ step # "reported" => report = NoReport
  /\ step = "reported" => TotalIsTheBill

\* The judged winner of a pair has its two answers.
WinInv == WinnerIsPreferredTwice

\* What went wrong is a blemish, or will be one: in a pair that is over, or in this one.
Blemished == blemishes \cap {"incomplete", "unstable"} # {} \/ (Judging /\ "disordered" \in blemishes)
PairSpoils(pair) == ~pair.completed \/ ~pair.passed \/ (Judging /\ pair.bias)
WillSpoil ==
  \/ step = "broken"
  \/ step \in {"armed", "judging"} /\ ~arms["treatment"].passed
  \/ step = "judging" /\ \E o \in Orders : trial[o].at = "failed"

PairsSpoil == \E i \in DOMAIN done : PairSpoils(done[i])

SpoilInv ==
  /\ spoiled => Blemished \/ PairsSpoil \/ WillSpoil
  /\ step = "selecting" => ~spoiled

ReleasedInv ==
  /\ step # "reported" => ~report.authorized
  /\ report.authorized =>
       /\ \A i \in 1..plan.cells : verdicts[i].authorized
       /\ ~spoiled /\ plan.authority /\ Count(models) = 1

RunInv == RunTypeOK /\ PlaceInv /\ BudgetInv /\ BillInv /\ WinInv /\ SpoilInv /\ ReleasedInv

-----------------------------------------------------------------------------
(* Sums over the three outcomes of a case *)

Picked(s) == CHOOSE w \in s : TRUE

Summed(g, f) ==
  g = [s \in SUBSET Merits |-> IF s = {} THEN 0 ELSE f[Picked(s)] + g[s \ {Picked(s)}]]

\* The three outcomes that a tally counts.
LEMMA MeritNames == Merits = {"treatment", "control", "even"}
  BY DEF Merits, Roles

\* A member is picked.
LEMMA PickedIn == ASSUME NEW s, s # {} PROVE Picked(s) \in s
  BY DEF Picked

\* A function that sums up subsets adds up all three.
LEMMA SummedAll ==
  ASSUME NEW f \in [Merits -> Nat], NEW g, Summed(g, f)
  PROVE  g[Merits] = f["treatment"] + f["control"] + f["even"]
<1>1. \A s \in SUBSET Merits : g[s] = IF s = {} THEN 0 ELSE f[Picked(s)] + g[s \ {Picked(s)}]
  BY DEF Summed
<1>2. /\ f["treatment"] \in Nat /\ f["control"] \in Nat /\ f["even"] \in Nat
      /\ \A w \in Merits : f[w] \in Nat
  BY MeritNames
<1>3. g[{}] = 0
  BY <1>1
<1>4. ASSUME NEW w \in Merits PROVE g[{w}] = f[w]
  <2>1. Picked({w}) = w /\ {w} \ {w} = {} /\ {w} \in SUBSET Merits
    BY PickedIn
  <2>2. g[{w}] = f[w] + g[{}]
    BY <1>1, <2>1
  <2>3. QED
    BY <1>2, <1>3, <2>2
<1>5. ASSUME NEW w \in Merits, NEW v \in Merits, w # v PROVE g[{w, v}] = f[w] + f[v]
  <2>1. Picked({w, v}) \in {w, v} /\ {w, v} \in SUBSET Merits
    BY PickedIn
  <2>2. {w, v} \ {w} = {v} /\ {w, v} \ {v} = {w}
    BY <1>5
  <2>3. g[{w, v}] = f[Picked({w, v})] + g[{w, v} \ {Picked({w, v})}]
    BY <1>1, <2>1
  <2>4. CASE Picked({w, v}) = w
    BY <1>4, <2>2, <2>3, <2>4
  <2>5. CASE Picked({w, v}) = v
    <3>1. g[{w, v}] = f[v] + f[w]
      BY <1>4, <2>2, <2>3, <2>5
    <3>2. QED
      BY <1>2, <3>1
  <2>6. QED
    BY <2>1, <2>4, <2>5
<1>6. Merits # {} /\ Picked(Merits) \in Merits /\ Merits \in SUBSET Merits
  BY PickedIn, MeritNames
<1>7. g[Merits] = f[Picked(Merits)] + g[Merits \ {Picked(Merits)}]
  BY <1>1, <1>6
<1>8. CASE Picked(Merits) = "treatment"
  <2>1. Merits \ {"treatment"} = {"control", "even"}
    BY MeritNames
  <2>2. g[{"control", "even"}] = f["control"] + f["even"]
    BY <1>5, MeritNames
  <2>3. g[Merits] = f["treatment"] + g[{"control", "even"}]
    BY <1>7, <1>8, <2>1
  <2>4. QED
    BY <1>2, <2>2, <2>3
<1>9. CASE Picked(Merits) = "control"
  <2>1. Merits \ {"control"} = {"treatment", "even"}
    BY MeritNames
  <2>2. g[{"treatment", "even"}] = f["treatment"] + f["even"]
    BY <1>5, MeritNames
  <2>3. g[Merits] = f["control"] + g[{"treatment", "even"}]
    BY <1>7, <1>9, <2>1
  <2>4. QED
    BY <1>2, <2>2, <2>3
<1>10. CASE Picked(Merits) = "even"
  <2>1. Merits \ {"even"} = {"treatment", "control"}
    BY MeritNames
  <2>2. g[{"treatment", "control"}] = f["treatment"] + f["control"]
    BY <1>5, MeritNames
  <2>3. g[Merits] = f["even"] + g[{"treatment", "control"}]
    BY <1>7, <1>10, <2>1
  <2>4. QED
    BY <1>2, <2>2, <2>3
<1>11. QED
  BY <1>6, <1>8, <1>9, <1>10, MeritNames

\* There is such a function.
LEMMA SummedIs ==
  ASSUME NEW f \in [Merits -> Nat]
  PROVE  \E g : Summed(g, f)
<1> DEFINE part(s, w) == IF w \in s THEN f[w] ELSE 0
           g == [s \in SUBSET Merits |->
                   part(s, "treatment") + part(s, "control") + part(s, "even")]
<1>1. /\ f["treatment"] \in Nat /\ f["control"] \in Nat /\ f["even"] \in Nat
  BY MeritNames
<1>2. ASSUME NEW s \in SUBSET Merits
      PROVE  g[s] = IF s = {} THEN 0 ELSE f[Picked(s)] + g[s \ {Picked(s)}]
  <2>1. CASE s = {}
    BY <2>1
  <2>2. CASE s # {}
    <3>1. Picked(s) \in s /\ s \ {Picked(s)} \in SUBSET Merits
      BY <2>2, PickedIn
    <3>2. PICK w \in Merits : w = Picked(s)
      BY <3>1
    <3>3. g[s] = f[w] + g[s \ {w}]
      <4>1. CASE w = "treatment"
        BY <1>1, <3>1, <3>2, <4>1
      <4>2. CASE w = "control"
        BY <1>1, <3>1, <3>2, <4>2
      <4>3. CASE w = "even"
        BY <1>1, <3>1, <3>2, <4>3
      <4>4. QED
        BY <4>1, <4>2, <4>3, MeritNames
    <3>4. QED
      BY <2>2, <3>2, <3>3
  <2>3. QED
    BY <2>1, <2>2
<1> HIDE DEF g
<1>3. g = [s \in SUBSET Merits |-> IF s = {} THEN 0 ELSE f[Picked(s)] + g[s \ {Picked(s)}]]
  <2>1. g = [s \in SUBSET Merits |-> g[s]]
    BY DEF g
  <2>2. QED
    BY <1>2, <2>1
<1>4. QED
  BY <1>3 DEF Summed

\* The cases that are over, as the code counts them.
LEMMA TotalOfThree ==
  ASSUME NEW f \in [Merits -> Nat]
  PROVE  MapThenSumSet(LAMBDA w : f[w], Merits) = f["treatment"] + f["control"] + f["even"]
<1> DEFINE g == CHOOSE g : Summed(g, f)
<1>1. Summed(g, f)
  BY SummedIs
<1>2. MapThenSumSet(LAMBDA w : f[w], Merits) = g[Merits]
  BY DEF MapThenSumSet, MapThenFoldSet, Summed, Picked
<1> HIDE DEF g
<1>3. QED
  BY <1>1, <1>2, SummedAll

-----------------------------------------------------------------------------
(* Preliminaries *)

\* Multiplication by a price is monotone.
LEMMA TimesGrows ==
  ASSUME NEW a \in Nat, NEW m \in Nat, NEW n \in Nat, m <= n PROVE a * m <= a * n
<1>1. PICK k \in Nat : n = m + k
  BY n - m \in Nat
<1>2. a * n = a * m + a * k
  BY <1>1
<1>3. a * k \in Nat /\ a * m \in Nat
  OBVIOUS
<1>4. QED
  BY <1>2, <1>3

\* One more call, at its price.
LEMMA TimesOne == ASSUME NEW a \in Nat, NEW m \in Nat PROVE a * (m + 1) = a * m + a
  OBVIOUS

\* The fields of a plan and the types of the bounds.
LEMMA PlanParts ==
  ASSUME plan \in Plans
  PROVE  /\ plan.mode \in Modes /\ plan.cells \in Nat \ {0} /\ plan.cases \in Nat \ {0}
         /\ plan.cap \in Nat /\ PerCall \in Nat
  BY PlansAssumption DEF PlanType

\* An account is its four numbers.
LEMMA AccountIs ==
  ASSUME NEW a \in AccountKind
  PROVE  /\ a = [committed |-> a.committed, known |-> a.known, unknown |-> a.unknown, open |-> a.open]
         /\ a.committed \in Int /\ a.known \in Nat /\ a.unknown \in Nat /\ a.open \in Nat
  BY DEF AccountKind

\* An account made of typed parts is one.
LEMMA AccountMade ==
  ASSUME NEW c \in Int, NEW k \in Nat, NEW u \in Nat, NEW p \in Nat, NEW a,
         a = [committed |-> c, known |-> k, unknown |-> u, open |-> p]
  PROVE  a \in AccountKind /\ a.committed = c /\ a.known = k /\ a.unknown = u /\ a.open = p
  BY DEF AccountKind

\* How many of both calls are where, before and after one of them moves.
LEMMA BothMoves ==
  ASSUME NEW o \in Orders, NEW t, trial \in [Orders -> TrialKind],
         trial' = [trial EXCEPT ![o] = t]
  PROVE  /\ Both("ready")' = Both("ready") - Once(trial[o].at = "ready") + Once(t.at = "ready")
         /\ Both("reserved")' =
              Both("reserved") - Once(trial[o].at = "reserved") + Once(t.at = "reserved")
<1>1. CASE o = "AB"
  <2>1. trial'["AB"] = t /\ trial'["BA"] = trial["BA"]
    BY <1>1 DEF Orders
  <2>2. QED
    BY <1>1, <2>1 DEF Both, Once
<1>2. CASE o = "BA"
  <2>1. trial'["BA"] = t /\ trial'["AB"] = trial["AB"]
    BY <1>2 DEF Orders
  <2>2. QED
    BY <1>2, <2>1 DEF Both, Once
<1>3. QED
  BY <1>1, <1>2 DEF Orders

\* How much the cell has begun.
LEMMA BegunIs ==
  ASSUME RunTypeOK, PlaceInv
  PROVE  Cases \in Nat /\ Begun \in Nat
<1>1. tally["treatment"] \in Nat /\ tally["control"] \in Nat /\ tally["even"] \in Nat
  BY MeritNames DEF RunTypeOK
<1>2. Cases \in Nat
  BY <1>1 DEF Cases
<1>3. Len(done) \in Nat /\ (step = "decided" => Len(done) \in 1..3)
  BY DEF RunTypeOK, PlaceInv
<1>4. PICK k \in Nat : k = IF step = "decided" THEN 2 * (Len(done) - 1) ELSE 2 * Len(done)
  <2>1. CASE step = "decided"
    <3>1. 2 * (Len(done) - 1) \in Nat
      BY <1>3, <2>1
    <3>2. QED
      BY <2>1, <3>1
  <2>2. CASE step # "decided"
    <3>1. 2 * Len(done) \in Nat
      BY <1>3
    <3>2. QED
      BY <2>2, <3>1
  <2>3. QED
    BY <2>1, <2>2
<1>5. Both("ready") \in 0..2
  BY DEF Both, Once
<1>6. Begun = 6 * Cases + k + (2 - Both("ready"))
  BY <1>4 DEF Begun
<1>7. QED
  BY <1>2, <1>5, <1>6

-----------------------------------------------------------------------------
(* The comparator trials *)

\* A trial that moves on, while both patches are judged.
LEMMA TrialKeeps ==
  ASSUME RunInv, NEW o \in Orders, NEW t \in TrialKind, step = "judging",
         trial[o].at \in {"ready", "reserved", "reconciled"}, trial' = [trial EXCEPT ![o] = t],
         t.at \notin {"ready", "refused"}, t.at \in {"reconciled", "accepted"} => t.answer \in Answers,
         UNCHANGED <<step, merit, arms, done, plan, cell, tally, blemishes, verdicts, report, models>>,
         account' \in AccountKind, bills' \in Nat,
         account'.committed <= account.committed + (IF trial[o].at = "ready" THEN PerCall ELSE 0),
         account'.open >= Both("reserved")',
         account'.unknown = 0 /\ bills' # account'.known => account'.open > Both("reserved")',
         spoiled' \in BOOLEAN, spoiled' => spoiled \/ t.at = "failed"
  PROVE  RunInv'
<1>1. RunTypeOK /\ PlaceInv /\ BudgetInv /\ BillInv /\ SpoilInv /\ ReleasedInv
  BY DEF RunInv
<1>2. /\ trial \in [Orders -> TrialKind]
      /\ done \in Seq(PairKind) /\ account.committed \in Int /\ plan \in Plans
  BY <1>1 DEF RunTypeOK, AccountKind
<1>3. RunTypeOK'
  BY <1>1, <1>2 DEF RunTypeOK, TrialKind
<1>4. PlaceInv'
  BY <1>1, <1>2 DEF PlaceInv, Judging
<1>5. BudgetInv'
  <2>1. Both("ready")' = Both("ready") - Once(trial[o].at = "ready")
    <3>1. Once(t.at = "ready") = 0
      BY DEF Once
    <3>2. Both("ready") \in 0..2
      BY DEF Both, Once
    <3>3. Once(trial[o].at = "ready") \in 0..1
      BY DEF Once
    <3>4. Both("ready")' = Both("ready") - Once(trial[o].at = "ready") + Once(t.at = "ready")
      BY <1>2, BothMoves
    <3>5. QED
      BY <3>1, <3>2, <3>3, <3>4
  <2>2. Cases' = Cases
    BY DEF Cases
  <2>3. Begun' = Begun + Once(trial[o].at = "ready")
    <3>1. /\ Cases \in Nat /\ Len(done) \in Nat /\ Both("ready") \in 0..2
          /\ Once(trial[o].at = "ready") \in 0..1
      BY <1>1, <1>2, BegunIs DEF Both, Once
    <3>2. Begun = 6 * Cases + 2 * Len(done) + (2 - Both("ready"))
      BY DEF Begun
    <3>3. Begun' = 6 * Cases + 2 * Len(done) + (2 - (Both("ready") - Once(trial[o].at = "ready")))
      BY <2>1, <2>2 DEF Begun
    <3>4. QED
      BY <3>1, <3>2, <3>3
  <2>4. account'.committed <= PerCall * Begun'
    <3>1. PerCall \in Nat /\ Begun \in Nat /\ account.committed <= PerCall * Begun
      BY <1>1, <1>2, PlanParts, BegunIs DEF BudgetInv, InPair
    <3>2. PerCall * (Begun + 1) = PerCall * Begun + PerCall /\ PerCall * Begun \in Nat
      BY <3>1, TimesOne
    <3>3. account'.committed \in Int
      BY DEF AccountKind
    <3>4. CASE trial[o].at = "ready"
      <4>1. Begun' = Begun + 1
        BY <2>3, <3>4 DEF Once
      <4>2. account'.committed <= account.committed + PerCall
        BY <3>4
      <4>3. QED
        BY <1>2, <3>1, <3>2, <3>3, <4>1, <4>2
    <3>5. CASE trial[o].at # "ready"
      <4>1. Begun' = Begun
        BY <2>3, <3>1, <3>5 DEF Once
      <4>2. account'.committed <= account.committed
        BY <1>2, <3>5
      <4>3. QED
        BY <1>2, <3>1, <3>2, <3>3, <4>1, <4>2
    <3>6. QED
      BY <3>4, <3>5
  <2>5. PlanCoversCalls'
    BY <1>1, <1>2 DEF BudgetInv, PlanCoversCalls
  <2>6. WithinCap' <=> WithinCap
    BY DEF WithinCap, MaximumCalls, PairRuns
  <2>7. QED
    BY <1>1, <2>2, <2>4, <2>5, <2>6 DEF BudgetInv, InPair, Judging
<1>6. BillInv'
  BY <1>1 DEF BillInv
<1>7. WinInv'
  BY DEF WinInv, WinnerIsPreferredTwice
<1>8. SpoilInv'
  <2>1. (Blemished' <=> Blemished) /\ (PairsSpoil' <=> PairsSpoil)
    BY DEF Blemished, PairsSpoil, PairSpoils, Judging
  <2>2. WillSpoil => WillSpoil'
    BY <1>2 DEF WillSpoil
  <2>3. t.at = "failed" => WillSpoil'
    BY <1>2 DEF WillSpoil
  <2>4. QED
    BY <1>1, <2>1, <2>2, <2>3 DEF SpoilInv
<1>9. ReleasedInv'
  BY <1>1 DEF ReleasedInv
<1>10. QED
  BY <1>3, <1>4, <1>5, <1>6, <1>7, <1>8, <1>9 DEF RunInv

\* A call is only begun where the cap has room for it: fewer have been begun than the six
\* for each case that the selection has multiplied.
LEMMA RoomForCalls ==
  ASSUME RunInv, step = "judging", NEW o \in Orders, trial[o].at = "ready"
  PROVE  account.committed + PerCall <= plan.cap
<1>1. RunTypeOK /\ PlaceInv /\ BudgetInv
  BY DEF RunInv
<1>2. plan \in Plans /\ plan.cases \in Nat /\ plan.cap \in Nat /\ PerCall \in Nat /\ Judging
  BY <1>1, PlanParts DEF RunTypeOK, PlaceInv
<1>3. Cases \in Nat /\ Begun \in Nat /\ Len(done) \in Nat /\ account.committed \in Int
  BY <1>1, BegunIs DEF RunTypeOK, AccountKind
<1>4. Both("ready") \in 1..2
  BY DEF Both, Once, Orders
<1>5. Cases < plan.cases /\ Len(done) < 3
  BY <1>1 DEF BudgetInv, PlaceInv, InPair
<1>6. Begun = 6 * Cases + 2 * Len(done) + (2 - Both("ready"))
  BY DEF Begun
<1>7. Begun + 1 <= 6 * plan.cases
  BY <1>2, <1>3, <1>4, <1>5, <1>6
<1>8. PerCall * (Begun + 1) <= PerCall * (6 * plan.cases)
  <2>1. Begun + 1 \in Nat /\ 6 * plan.cases \in Nat
    BY <1>2, <1>3
  <2>2. QED
    BY <1>2, <1>7, <2>1, TimesGrows
<1>9. PerCall * (Begun + 1) = PerCall * Begun + PerCall /\ PerCall * Begun \in Nat
  BY <1>2, <1>3, TimesOne
<1>10. account.committed <= PerCall * Begun
  BY <1>1 DEF BudgetInv, InPair
<1>11. (3 * plan.cases * 2) * PerCall <= plan.cap
  BY <1>1, <1>2 DEF BudgetInv, InPair, WithinCap, MaximumCalls, PairRuns
<1>12. (3 * plan.cases * 2) * PerCall = PerCall * (6 * plan.cases) /\ PerCall * (6 * plan.cases) \in Nat
  BY <1>2
<1>13. PICK begun \in Nat, most \in Nat : begun = PerCall * Begun /\ most = PerCall * (6 * plan.cases)
  BY <1>9, <1>12
<1>14. account.committed <= begun /\ begun + PerCall <= most /\ most <= plan.cap
  BY <1>8, <1>9, <1>10, <1>11, <1>12, <1>13
<1>15. QED
  BY <1>2, <1>3, <1>14

\* A trial that only moves, from one place to another.
LEMMA AtIs ==
  ASSUME RunTypeOK, NEW o \in Orders, NEW from, NEW to \in Ats, At(o, from, to)
  PROVE  \E t \in TrialKind :
           /\ step = "judging" /\ trial[o].at = from /\ trial' = [trial EXCEPT ![o] = t]
           /\ t.at = to /\ t.answer = trial[o].answer
<1>1. trial \in [Orders -> TrialKind]
  BY DEF RunTypeOK
<1>2. trial[o] \in TrialKind
  BY <1>1
<1>3. PICK t \in TrialKind : t = [trial[o] EXCEPT !.at = to]
  BY <1>2 DEF TrialKind
<1>4. t.at = to /\ t.answer = trial[o].answer
  BY <1>2, <1>3 DEF TrialKind
<1>5. QED
  BY <1>3, <1>4 DEF At

\* The price of a call is set aside.
LEMMA ReserveKeeps == ASSUME RunInv, NEW o \in Orders, Reserve(o) PROVE RunInv'
<1>1. RunTypeOK /\ BillInv
  BY DEF RunInv
<1>2. /\ account \in AccountKind /\ bills \in Nat
      /\ account.committed \in Int /\ account.known \in Nat /\ account.unknown \in Nat /\ account.open \in Nat
      /\ trial \in [Orders -> TrialKind] /\ plan \in Plans \cup {plan} /\ spoiled \in BOOLEAN
  BY <1>1 DEF RunTypeOK, AccountKind
<1>3. step = "judging" /\ trial[o].at = "ready"
  BY DEF Reserve, At
<1>4. account.committed + PerCall <= plan.cap
  BY <1>3, RoomForCalls
<1>5. /\ At(o, "ready", "reserved")
      /\ account' = [account EXCEPT !.committed = account.committed + PerCall,
                                    !.open = account.open + 1]
  BY <1>4 DEF Reserve
<1>6. PICK t \in TrialKind :
        trial' = [trial EXCEPT ![o] = t] /\ t.at = "reserved" /\ t.answer = trial[o].answer
  BY <1>1, <1>5, AtIs DEF Ats
<1>7. PerCall \in Nat
  BY PlansAssumption
<1>8. /\ account' \in AccountKind
      /\ account'.committed = account.committed + PerCall /\ account'.open = account.open + 1
      /\ account'.unknown = account.unknown /\ account'.known = account.known
  <2>1. account.committed + PerCall \in Int /\ account.open + 1 \in Nat
    BY <1>2, <1>7, AccountIs
  <2>2. account' = [committed |-> account.committed + PerCall, known |-> account.known,
                    unknown |-> account.unknown, open |-> account.open + 1]
    BY <1>2, <1>5 DEF AccountKind
  <2>3. QED
    BY <1>2, <2>1, <2>2, AccountIs, AccountMade
<1>9. Both("reserved")' = Both("reserved") + 1
  <2>1. Both("reserved") \in 0..2
    BY DEF Both, Once
  <2>2. Both("reserved")' = Both("reserved") - Once(trial[o].at = "reserved") + Once(t.at = "reserved")
    BY <1>2, <1>6, BothMoves
  <2>3. QED
    BY <1>3, <1>6, <2>1, <2>2 DEF Once
<1>10. Both("reserved") \in 0..2 /\ account.open \in Nat
  BY <1>2 DEF Both, Once
<1>11. account'.open >= Both("reserved")'
  BY <1>1, <1>8, <1>9, <1>10 DEF BillInv
<1>12. /\ UNCHANGED <<step, merit, arms, done, plan, cell, tally, blemishes, verdicts, report, models>>
       /\ UNCHANGED <<bills, spoiled>>
  BY DEF Reserve, runVars, history
<1>13. account'.unknown = 0 /\ bills' # account'.known => account'.open > Both("reserved")'
  BY <1>1, <1>8, <1>9, <1>10, <1>12 DEF BillInv
<1>14. account'.committed <= account.committed + PerCall
  BY <1>2, <1>7, <1>8
<1>15. QED
  BY <1>2, <1>3, <1>6, <1>8, <1>11, <1>12, <1>13, <1>14, TrialKeeps

\* It fails before anything is spent.
LEMMA FailBeforeKeeps == ASSUME RunInv, NEW o \in Orders, FailBefore(o) PROVE RunInv'
<1>1. RunTypeOK /\ BillInv
  BY DEF RunInv
<1>2. /\ account \in AccountKind /\ bills \in Nat
      /\ account.committed \in Int /\ account.known \in Nat /\ account.unknown \in Nat /\ account.open \in Nat
      /\ trial \in [Orders -> TrialKind] /\ PerCall \in Nat
  BY <1>1, PlansAssumption DEF RunTypeOK, AccountKind
<1>3. PICK t \in TrialKind :
        /\ step = "judging" /\ trial[o].at = "ready" /\ trial' = [trial EXCEPT ![o] = t]
        /\ t.at = "failed"
  BY <1>1, AtIs DEF FailBefore, Ats
<1>4. /\ UNCHANGED <<step, merit, arms, done, plan, cell, tally, blemishes, verdicts, report, models>>
      /\ UNCHANGED <<bills, account>> /\ spoiled' = TRUE
  BY DEF FailBefore, runVars
<1>5. Both("reserved")' = Both("reserved")
  <2>1. Both("reserved") \in 0..2
    BY DEF Both, Once
  <2>2. Both("reserved")' = Both("reserved") - Once(trial[o].at = "reserved") + Once(t.at = "reserved")
    BY <1>2, <1>3, BothMoves
  <2>3. QED
    BY <1>3, <2>1, <2>2 DEF Once
<1>6. account'.committed <= account.committed + PerCall
  BY <1>2, <1>4
<1>7. /\ account'.open >= Both("reserved")'
      /\ account'.unknown = 0 /\ bills' # account'.known => account'.open > Both("reserved")'
  BY <1>1, <1>4, <1>5 DEF BillInv
<1>8. QED
  BY <1>2, <1>3, <1>4, <1>6, <1>7, TrialKeeps

\* It is answered and paid for.
LEMMA ReconcileKeeps == ASSUME RunInv, NEW o \in Orders, Reconcile(o) PROVE RunInv'
<1>1. RunTypeOK /\ BillInv
  BY DEF RunInv
<1>2. /\ account \in AccountKind /\ bills \in Nat
      /\ account.committed \in Int /\ account.known \in Nat /\ account.unknown \in Nat /\ account.open \in Nat
      /\ trial \in [Orders -> TrialKind] /\ PerCall \in Nat /\ spoiled \in BOOLEAN
  BY <1>1, PlansAssumption DEF RunTypeOK, AccountKind
<1>3. PICK answer \in Answers, model \in {"m1", "m2"}, cost \in {0, PerCall} :
        /\ trial' = [trial EXCEPT ![o] = [at |-> "reconciled", answer |-> answer, model |-> model]]
        /\ account' = [account EXCEPT !.committed = account.committed - PerCall + cost,
                                      !.known = account.known + cost, !.open = account.open - 1]
        /\ bills' = bills + cost
  <2>1. \A m \in Merits, q \in Orders : HonestAnswers[m][q] \subseteq Answers
    BY DEF HonestAnswers
  <2>2. SimpleAnswers \subseteq Answers
    BY <2>1 DEF SimpleAnswers
  <2>3. PICK answer \in IF plan.simple THEN SimpleAnswers ELSE Answers,
             model \in {"m1", "m2"}, cost \in {0, PerCall} :
          /\ trial' = [trial EXCEPT ![o] = [at |-> "reconciled", answer |-> answer, model |-> model]]
          /\ account' = [account EXCEPT !.committed = account.committed - PerCall + cost,
                                        !.known = account.known + cost, !.open = account.open - 1]
          /\ bills' = bills + cost
    BY DEF Reconcile
  <2>4. answer \in Answers
    BY <2>2, <2>3
  <2>5. QED
    BY <2>3, <2>4
<1>4. step = "judging" /\ trial[o].at = "reserved"
  BY DEF Reconcile
<1>5. PICK t \in TrialKind :
        trial' = [trial EXCEPT ![o] = t] /\ t.at = "reconciled" /\ t.answer = answer
  <2>1. "reconciled" \in Ats
    BY DEF Ats
  <2>2. [at |-> "reconciled", answer |-> answer, model |-> model] \in TrialKind
    BY <2>1 DEF TrialKind
  <2>3. QED
    BY <1>3, <2>2
<1>6. cost \in Nat /\ cost <= PerCall
  BY <1>2
<1>7. Both("reserved") \in 1..2 /\ Both("reserved")' = Both("reserved") - 1
  <2>1. Both("reserved") \in 1..2
    BY <1>4 DEF Both, Once, Orders
  <2>2. Both("reserved")' = Both("reserved") - Once(trial[o].at = "reserved") + Once(t.at = "reserved")
    BY <1>2, <1>5, BothMoves
  <2>3. QED
    BY <1>4, <1>5, <2>1, <2>2 DEF Once
<1>8. account.open >= Both("reserved") /\ account.open - 1 \in Nat
  BY <1>1, <1>2, <1>7 DEF BillInv
<1>9. /\ account'.committed = account.committed - PerCall + cost /\ account'.open = account.open - 1
      /\ account'.known = account.known + cost /\ account'.unknown = account.unknown
      /\ account' \in AccountKind
  <2>1. account.committed - PerCall + cost \in Int /\ account.known + cost \in Nat
    BY <1>2, <1>6, AccountIs
  <2>2. account' = [committed |-> account.committed - PerCall + cost, known |-> account.known + cost,
                    unknown |-> account.unknown, open |-> account.open - 1]
    BY <1>2, <1>3 DEF AccountKind
  <2>3. QED
    BY <1>2, <1>8, <2>1, <2>2, AccountIs, AccountMade
<1>10. account'.committed <= account.committed /\ bills' \in Nat
  BY <1>2, <1>3, <1>6, <1>9
<1>11. account'.open >= Both("reserved")'
  BY <1>2, <1>7, <1>8, <1>9
<1>12. account'.unknown = 0 /\ bills' # account'.known => account'.open > Both("reserved")'
  BY <1>1, <1>2, <1>3, <1>6, <1>7, <1>8, <1>9 DEF BillInv
<1>13. /\ UNCHANGED <<step, merit, arms, done, plan, cell, tally, blemishes, verdicts, report, models>>
       /\ UNCHANGED spoiled
  BY DEF Reconcile, runVars
<1>14. account'.committed <= account.committed + (IF trial[o].at = "ready" THEN PerCall ELSE 0)
  BY <1>2, <1>4, <1>9, <1>10
<1>15. QED
  BY <1>2, <1>4, <1>5, <1>9, <1>10, <1>11, <1>12, <1>13, <1>14, TrialKeeps

\* It fails, and its price is forfeit.
LEMMA ForfeitKeeps == ASSUME RunInv, NEW o \in Orders, Forfeit(o) PROVE RunInv'
<1>1. RunTypeOK /\ BillInv
  BY DEF RunInv
<1>2. /\ account \in AccountKind /\ bills \in Nat
      /\ account.committed \in Int /\ account.known \in Nat /\ account.unknown \in Nat /\ account.open \in Nat
      /\ trial \in [Orders -> TrialKind] /\ PerCall \in Nat
  BY <1>1, PlansAssumption DEF RunTypeOK, AccountKind
<1>3. PICK t \in TrialKind :
        /\ step = "judging" /\ trial[o].at = "reserved" /\ trial' = [trial EXCEPT ![o] = t]
        /\ t.at = "failed"
  BY <1>1, AtIs DEF Forfeit, Ats
<1>4. PICK recorded \in BOOLEAN :
        account' = [account EXCEPT !.unknown = IF recorded THEN account.unknown + 1 ELSE account.unknown,
                                   !.open = IF recorded THEN account.open - 1 ELSE account.open]
  BY DEF Forfeit
<1>5. /\ UNCHANGED <<step, merit, arms, done, plan, cell, tally, blemishes, verdicts, report, models>>
      /\ bills' = bills + 1 /\ spoiled' = TRUE
  BY DEF Forfeit, runVars
<1>6. Both("reserved") \in 1..2 /\ Both("reserved")' = Both("reserved") - 1
  <2>1. Both("reserved") \in 1..2
    BY <1>3 DEF Both, Once, Orders
  <2>2. Both("reserved")' = Both("reserved") - Once(trial[o].at = "reserved") + Once(t.at = "reserved")
    BY <1>2, <1>3, BothMoves
  <2>3. QED
    BY <1>3, <2>1, <2>2 DEF Once
<1>7. account.open >= Both("reserved") /\ account.open - 1 \in Nat
  BY <1>1, <1>2, <1>6 DEF BillInv
<1>8. /\ account'.committed = account.committed /\ account'.known = account.known
      /\ account' \in AccountKind
      /\ account'.open = IF recorded THEN account.open - 1 ELSE account.open
      /\ account'.unknown = IF recorded THEN account.unknown + 1 ELSE account.unknown
  <2>1. PICK u \in Nat, p \in Nat : /\ u = IF recorded THEN account.unknown + 1 ELSE account.unknown
                                    /\ p = IF recorded THEN account.open - 1 ELSE account.open
    BY <1>2, <1>7, AccountIs
  <2>2. account' = [committed |-> account.committed, known |-> account.known, unknown |-> u, open |-> p]
    BY <1>2, <1>4, <2>1 DEF AccountKind
  <2>3. QED
    BY <1>2, <2>1, <2>2, AccountIs, AccountMade
<1>9. /\ account'.open >= Both("reserved")'
      /\ account'.unknown = 0 => account'.open > Both("reserved")'
  BY <1>2, <1>6, <1>7, <1>8
<1>10. bills' \in Nat /\ account'.committed <= account.committed + 0
  BY <1>2, <1>5, <1>8
<1>11. QED
  BY <1>2, <1>3, <1>5, <1>8, <1>9, <1>10, TrialKeeps

\* The answer is accepted, or refused after it was paid for.
LEMMA AcceptKeeps == ASSUME RunInv, NEW o \in Orders, Accept(o) PROVE RunInv'
<1>1. RunTypeOK /\ PlaceInv /\ BillInv
  BY DEF RunInv
<1>2. /\ account \in AccountKind /\ bills \in Nat
      /\ account.committed \in Int /\ account.known \in Nat /\ account.unknown \in Nat /\ account.open \in Nat
      /\ trial \in [Orders -> TrialKind] /\ PerCall \in Nat /\ spoiled \in BOOLEAN
  BY <1>1, PlansAssumption DEF RunTypeOK, AccountKind
<1>3. PICK accepted \in BOOLEAN :
        /\ At(o, "reconciled", IF accepted THEN "accepted" ELSE "failed")
        /\ spoiled' = (spoiled \/ ~accepted)
  BY DEF Accept
<1>4. PICK to \in {"accepted", "failed"} :
        to = (IF accepted THEN "accepted" ELSE "failed") /\ At(o, "reconciled", to)
  BY <1>3
<1>5. to \in Ats
  BY DEF Ats
<1>6. PICK t \in TrialKind :
        /\ step = "judging" /\ trial[o].at = "reconciled" /\ trial' = [trial EXCEPT ![o] = t]
        /\ t.at = to /\ t.answer = trial[o].answer
  BY <1>1, <1>4, <1>5, AtIs
<1>7. t.answer \in Answers
  BY <1>1, <1>6 DEF PlaceInv
<1>8. /\ UNCHANGED <<step, merit, arms, done, plan, cell, tally, blemishes, verdicts, report, models>>
      /\ UNCHANGED <<account, bills>>
  BY DEF Accept, runVars
<1>9. Both("reserved")' = Both("reserved")
  <2>1. Both("reserved") \in 0..2
    BY DEF Both, Once
  <2>2. Both("reserved")' = Both("reserved") - Once(trial[o].at = "reserved") + Once(t.at = "reserved")
    BY <1>2, <1>6, BothMoves
  <2>3. QED
    BY <1>6, <2>1, <2>2 DEF Once
<1>10. /\ account'.open >= Both("reserved")'
       /\ account'.unknown = 0 /\ bills' # account'.known => account'.open > Both("reserved")'
  BY <1>1, <1>8, <1>9 DEF BillInv
<1>11. spoiled' \in BOOLEAN /\ (spoiled' => spoiled \/ t.at = "failed")
  <2>1. CASE accepted
    BY <1>2, <1>3, <2>1
  <2>2. CASE ~accepted
    BY <1>3, <1>4, <1>6, <2>2
  <2>3. QED
    BY <2>1, <2>2
<1>12. account'.committed <= account.committed + 0
  BY <1>2, <1>8
<1>13. QED
  BY <1>2, <1>6, <1>7, <1>8, <1>10, <1>11, <1>12, TrialKeeps

-----------------------------------------------------------------------------
(* What an answer says *)

\* The label of a patch in canonical form.
Canon(role) == IF role = "control" THEN "A" ELSE "B"

\* An answer has its checks and its criteria, if both patches qualify or else none.
LEMMA AnswerIs ==
  ASSUME NEW a \in Answers
  PROVE  /\ a.checks \in [Sides -> [Requirements -> Statuses]]
         /\ a.criteria = NoCriteria \/ a.criteria \in [Criteria -> Winners]
         /\ BothQualify(a.checks) => a.criteria \in [Criteria -> Winners]
  BY DEF Answers

\* The canonical form says of a patch what the answer says under its label.
LEMMA CanonicalIs ==
  ASSUME NEW a \in Answers, NEW o \in Orders
  PROVE  /\ \A r \in Roles : Canonical(a, o).checks[Canon(r)] = a.checks[ShownAs(r, o)]
         /\ a.criteria = NoCriteria => Canonical(a, o).criteria = NoCriteria
         /\ a.criteria # NoCriteria =>
              \A c \in Criteria, r \in Roles :
                 Canonical(a, o).criteria[c] = Canon(r) <=> a.criteria[c] = ShownAs(r, o)
<1>1. /\ a.checks \in [Sides -> [Requirements -> Statuses]]
      /\ a.criteria = NoCriteria \/ a.criteria \in [Criteria -> Winners]
  BY AnswerIs
<1>2. CASE o = "AB"
  <2>1. Canonical(a, o) = a
    BY <1>2 DEF Canonical
  <2>2. \A r \in Roles : ShownAs(r, o) = Canon(r)
    BY <1>2 DEF ShownAs, Canon, Roles
  <2>3. QED
    BY <2>1, <2>2
<1>3. CASE o = "BA"
  <2>1. /\ Canonical(a, o).checks = [s \in Sides |-> a.checks[SwapWinner(s)]]
        /\ Canonical(a, o).criteria =
             IF a.criteria = NoCriteria THEN NoCriteria
             ELSE [c \in Criteria |-> SwapWinner(a.criteria[c])]
    BY <1>3 DEF Canonical
  <2>2. \A r \in Roles : /\ Canon(r) \in Sides /\ ShownAs(r, o) = SwapWinner(Canon(r))
                         /\ \A w \in Winners : SwapWinner(w) = Canon(r) <=> w = ShownAs(r, o)
    <3>1. ASSUME NEW r \in Roles, NEW w \in Winners
          PROVE  /\ Canon(r) \in Sides /\ ShownAs(r, o) = SwapWinner(Canon(r))
                 /\ SwapWinner(w) = Canon(r) <=> w = ShownAs(r, o)
      <4>1. CASE r = "control"
        BY <1>3, <4>1 DEF ShownAs, Canon, SwapWinner, Sides, Winners
      <4>2. CASE r = "treatment"
        BY <1>3, <4>2 DEF ShownAs, Canon, SwapWinner, Sides, Winners
      <4>3. QED
        BY <4>1, <4>2 DEF Roles
    <3>2. "tie" \in Winners
      BY DEF Winners
    <3>3. QED
      BY <3>1, <3>2
  <2>3. \A r \in Roles : Canonical(a, o).checks[Canon(r)] = a.checks[ShownAs(r, o)]
    BY <2>1, <2>2
  <2>4. ASSUME a.criteria # NoCriteria, NEW c \in Criteria, NEW r \in Roles
        PROVE  Canonical(a, o).criteria[c] = Canon(r) <=> a.criteria[c] = ShownAs(r, o)
    <3>1. a.criteria[c] \in Winners
      BY <1>1, <2>4
    <3>2. Canonical(a, o).criteria[c] = SwapWinner(a.criteria[c])
      BY <2>1, <2>4
    <3>3. QED
      BY <2>2, <3>1, <3>2
  <2>5. QED
    BY <2>1, <2>3, <2>4
<1>4. QED
  BY <1>2, <1>3 DEF Orders

\* What eligibility means.
LEMMA EligibilityIs ==
  ASSUME NEW checks \in [Requirements -> Statuses]
  PROVE  /\ DeriveEligibility(checks) = "eligible" => \A q \in Requirements : checks[q] = "satisfied"
         /\ DeriveEligibility(checks) = "ineligible" => \E q \in Requirements : checks[q] = "violated"
         /\ (\A q \in Requirements : checks[q] = "satisfied") => DeriveEligibility(checks) = "eligible"
<1>1. \A q \in Requirements : checks[q] \in {"satisfied", "violated", "unknown"}
  BY DEF Statuses
<1>2. QED
  BY <1>1 DEF DeriveEligibility

\* An outcome is one of five, and a side only wins as the only qualified one, or ahead.
LEMMA OutcomeIs ==
  ASSUME NEW e, NEW criteria
  PROVE  /\ DeriveOutcome(e, criteria) \in {"A", "B", "unqualified", "tradeoff", "tie"}
         /\ \A r \in Roles : DeriveOutcome(e, criteria) = Canon(r) =>
              \/ e[Canon(r)] = "eligible" /\ e[SwapWinner(Canon(r))] = "ineligible"
              \/ /\ \A s \in Sides : e[s] = "eligible"
                 /\ \E c \in Criteria : criteria[c] = Canon(r)
                 /\ \A c \in Criteria : criteria[c] # SwapWinner(Canon(r))
<1> DEFINE Sole(s) == e[s] = "eligible" /\ e[SwapWinner(s)] = "ineligible"
           Won(s)  == \E c \in Criteria : criteria[c] = s
           Rest    == CASE Won("A") /\ Won("B") -> "tradeoff"
                        [] Won("A") /\ ~Won("B") -> "A"
                        [] Won("B") /\ ~Won("A") -> "B"
                        [] OTHER -> "tie"
<1>1. SwapWinner("A") = "B" /\ SwapWinner("B") = "A" /\ Sides = {"A", "B"}
  BY DEF SwapWinner, Sides
<1>2. \A r \in Roles : Canon(r) \in {"A", "B"}
  BY DEF Canon
<1>3. CASE \E s \in Sides : Sole(s)
  <2>1. DeriveOutcome(e, criteria) = CHOOSE s \in Sides : Sole(s)
    BY <1>3 DEF DeriveOutcome
  <2>2. DeriveOutcome(e, criteria) \in Sides /\ Sole(DeriveOutcome(e, criteria))
    BY <1>3, <2>1
  <2>3. QED
    BY <1>1, <2>2
<1>4. CASE (\A s \in Sides : ~Sole(s)) /\ \E s \in Sides : e[s] # "eligible"
  <2>1. DeriveOutcome(e, criteria) = "unqualified"
    BY <1>4 DEF DeriveOutcome
  <2>2. QED
    BY <1>2, <2>1
<1>5. CASE (\A s \in Sides : ~Sole(s)) /\ \A s \in Sides : e[s] = "eligible"
  <2>1. DeriveOutcome(e, criteria) = Rest
    BY <1>5 DEF DeriveOutcome
  <2> HIDE DEF Won
  <2>2. /\ Rest \in {"A", "B", "tradeoff", "tie"}
        /\ (Rest = "A" => Won("A") /\ ~Won("B")) /\ (Rest = "B" => Won("B") /\ ~Won("A"))
    BY DEF Rest
  <2> HIDE DEF Rest
  <2>3. \A r \in Roles : Rest = Canon(r) => Won(Canon(r)) /\ ~Won(SwapWinner(Canon(r)))
    BY <1>1, <1>2, <2>2
  <2>4. QED
    BY <1>5, <2>1, <2>2, <2>3 DEF Won
<1>6. QED
  BY <1>3, <1>4, <1>5

\* A side that alone qualifies, or that alone is ahead where both do, is the outcome.
LEMMA OutcomeOf ==
  ASSUME NEW e, NEW criteria, NEW r \in Roles, NEW t \in Roles, t # r,
         e[Canon(r)] = "eligible",
         \/ e[Canon(t)] = "ineligible"
         \/ /\ e[Canon(t)] = "eligible"
            /\ \E c \in Criteria : criteria[c] = Canon(r)
            /\ \A c \in Criteria : criteria[c] # Canon(t)
  PROVE  DeriveOutcome(e, criteria) = Canon(r)
<1> DEFINE Sole(s) == e[s] = "eligible" /\ e[SwapWinner(s)] = "ineligible"
           Won(s)  == \E c \in Criteria : criteria[c] = s
           Rest    == CASE Won("A") /\ Won("B") -> "tradeoff"
                        [] Won("A") /\ ~Won("B") -> "A"
                        [] Won("B") /\ ~Won("A") -> "B"
                        [] OTHER -> "tie"
<1>1. /\ SwapWinner(Canon(r)) = Canon(t) /\ SwapWinner(Canon(t)) = Canon(r)
      /\ Sides = {Canon(r), Canon(t)} /\ Canon(r) \in {"A", "B"} /\ Canon(t) \in {"A", "B"}
      /\ Canon(r) # Canon(t)
  BY DEF SwapWinner, Sides, Canon, Roles
<1>2. CASE e[Canon(t)] = "ineligible"
  <2>1. Sole(Canon(r)) /\ ~Sole(Canon(t))
    BY <1>1, <1>2
  <2>2. DeriveOutcome(e, criteria) = CHOOSE s \in Sides : Sole(s)
    BY <1>1, <2>1 DEF DeriveOutcome
  <2> HIDE DEF Sole
  <2>3. DeriveOutcome(e, criteria) \in Sides /\ Sole(DeriveOutcome(e, criteria))
    BY <1>1, <2>1, <2>2
  <2>4. QED
    BY <1>1, <2>1, <2>3
<1>3. CASE /\ e[Canon(t)] = "eligible"
           /\ \E c \in Criteria : criteria[c] = Canon(r)
           /\ \A c \in Criteria : criteria[c] # Canon(t)
  <2>1. (\A s \in Sides : ~Sole(s)) /\ \A s \in Sides : e[s] = "eligible"
    BY <1>1, <1>3
  <2>2. DeriveOutcome(e, criteria) = Rest
    BY <2>1 DEF DeriveOutcome
  <2>3. Won(Canon(r)) /\ ~Won(Canon(t))
    BY <1>3
  <2> HIDE DEF Won
  <2>4. Rest = Canon(r)
    BY <1>1, <2>3 DEF Rest
  <2>5. QED
    BY <2>2, <2>4
<1>4. QED
  BY <1>2, <1>3

\* A role that the outcome names is the one that the answer prefers.
LEMMA OutcomeIsPreference ==
  ASSUME NEW a \in Answers, NEW o \in Orders, NEW r \in Roles,
         MapOutcome(ValidateResponse(a, o).outcome) = r
  PROVE  Prefers(a, o, r)
<1> DEFINE c == Canonical(a, o)
           e == Eligibility(c.checks)
           mine == ShownAs(r, o)
           other == CHOOSE s \in Sides : s # mine
<1>1. ValidateResponse(a, o).outcome = DeriveOutcome(e, c.criteria)
  BY DEF ValidateResponse
<1>2. DeriveOutcome(e, c.criteria) = Canon(r)
  <2>1. DeriveOutcome(e, c.criteria) \in {"A", "B", "unqualified", "tradeoff", "tie"}
    BY OutcomeIs
  <2>2. QED
    BY <1>1, <2>1 DEF MapOutcome, Canon, Roles
<1>3. PICK t \in Roles : t # r
  BY DEF Roles
<1>4. SwapWinner(Canon(r)) = Canon(t) /\ other = ShownAs(t, o) /\ Sides = {Canon(r), Canon(t)}
  <2>1. mine \in Sides /\ ShownAs(t, o) \in Sides /\ mine # ShownAs(t, o)
    BY <1>3 DEF ShownAs, Sides, Roles
  <2>2. other \in Sides /\ other # mine
    BY <2>1
  <2>3. other = ShownAs(t, o)
    BY <2>1, <2>2 DEF Sides
  <2>4. SwapWinner(Canon(r)) = Canon(t) /\ Sides = {Canon(r), Canon(t)}
    BY <1>3 DEF SwapWinner, Canon, Roles, Sides
  <2>5. QED
    BY <2>3, <2>4
<1>5. a.checks \in [Sides -> [Requirements -> Statuses]] /\ mine \in Sides /\ other \in Sides
  BY AnswerIs, <1>4 DEF ShownAs, Sides
<1>6. /\ e[Canon(r)] = DeriveEligibility(a.checks[mine])
      /\ e[Canon(t)] = DeriveEligibility(a.checks[other])
  <2>1. \A s \in Sides : e[s] = DeriveEligibility(c.checks[s])
    BY DEF Eligibility
  <2>2. c.checks[Canon(r)] = a.checks[mine] /\ c.checks[Canon(t)] = a.checks[other]
    <3>1. \A p \in Roles : c.checks[Canon(p)] = a.checks[ShownAs(p, o)]
      BY CanonicalIs
    <3>2. QED
      BY <1>4, <3>1
  <2>3. Canon(r) \in Sides /\ Canon(t) \in Sides
    BY <1>4
  <2>4. QED
    BY <2>1, <2>2, <2>3
<1> HIDE DEF e
<1>7. /\ DeriveEligibility(a.checks[mine]) = "eligible"
           => \A q \in Requirements : a.checks[mine][q] = "satisfied"
      /\ DeriveEligibility(a.checks[other]) = "eligible"
           => \A q \in Requirements : a.checks[other][q] = "satisfied"
      /\ DeriveEligibility(a.checks[other]) = "ineligible"
           => \E q \in Requirements : a.checks[other][q] = "violated"
  <2>1. a.checks[mine] \in [Requirements -> Statuses] /\ a.checks[other] \in [Requirements -> Statuses]
    BY <1>5
  <2>2. QED
    BY <2>1, EligibilityIs
<1>8. \/ e[Canon(r)] = "eligible" /\ e[SwapWinner(Canon(r))] = "ineligible"
      \/ /\ \A s \in Sides : e[s] = "eligible"
         /\ \E k \in Criteria : c.criteria[k] = Canon(r)
         /\ \A k \in Criteria : c.criteria[k] # SwapWinner(Canon(r))
  BY <1>2, OutcomeIs
<1>9. CASE e[Canon(r)] = "eligible" /\ e[SwapWinner(Canon(r))] = "ineligible"
  BY <1>4, <1>6, <1>7, <1>9 DEF Prefers
<1>10. CASE /\ \A s \in Sides : e[s] = "eligible"
            /\ \E k \in Criteria : c.criteria[k] = Canon(r)
            /\ \A k \in Criteria : c.criteria[k] # SwapWinner(Canon(r))
  <2>1. e[Canon(r)] = "eligible" /\ e[Canon(t)] = "eligible"
    BY <1>4, <1>10
  <2>2. BothQualify(a.checks)
    <3>1. \A s \in Sides : s = mine \/ s = other
      BY <1>5, <1>4 DEF Sides
    <3>2. QED
      BY <1>6, <2>1, <3>1 DEF BothQualify
  <2>3. a.criteria # NoCriteria
    <3>1. a.criteria \in [Criteria -> Winners] /\ \E k \in Criteria : TRUE
      BY <1>10, <2>2, AnswerIs
    <3>2. DOMAIN a.criteria = Criteria /\ DOMAIN NoCriteria = {}
      BY <3>1 DEF NoCriteria
    <3>3. QED
      BY <3>1, <3>2
  <2>4. \A k \in Criteria : /\ c.criteria[k] = Canon(r) <=> a.criteria[k] = mine
                            /\ c.criteria[k] = Canon(t) <=> a.criteria[k] = other
    <3>1. \A k \in Criteria, p \in Roles : c.criteria[k] = Canon(p) <=> a.criteria[k] = ShownAs(p, o)
      BY <2>3, CanonicalIs
    <3>2. QED
      BY <1>4, <3>1
  <2>5. /\ \A k \in Criteria : a.criteria[k] # other
        /\ \E k \in Criteria : a.criteria[k] = mine
    BY <1>4, <1>10, <2>4
  <2>6. QED
    BY <1>6, <1>7, <2>1, <2>5 DEF Prefers
<1>11. QED
  BY <1>8, <1>9, <1>10

\* Two answers that are the same in canonical labels say the same of both patches.
LEMMA SameCanonical ==
  ASSUME NEW a \in Answers, NEW b \in Answers,
         Canonical(a, "AB").checks = Canonical(b, "BA").checks,
         Canonical(a, "AB").criteria = Canonical(b, "BA").criteria
  PROVE  /\ \A r \in Roles : a.checks[ShownAs(r, "AB")] = b.checks[ShownAs(r, "BA")]
         /\ (a.criteria = NoCriteria) = (b.criteria = NoCriteria)
         /\ a.criteria # NoCriteria =>
              \A c \in Criteria, r \in Roles :
                 (a.criteria[c] = ShownAs(r, "AB")) = (b.criteria[c] = ShownAs(r, "BA"))
<1>1. /\ Canonical(a, "AB").checks = Canonical(b, "BA").checks
      /\ Canonical(a, "AB").criteria = Canonical(b, "BA").criteria
  OBVIOUS
<1>2. "AB" \in Orders /\ "BA" \in Orders
  BY DEF Orders
<1>3. \A r \in Roles : a.checks[ShownAs(r, "AB")] = b.checks[ShownAs(r, "BA")]
  BY <1>1, <1>2, CanonicalIs
<1>4. a.criteria = NoCriteria <=> b.criteria = NoCriteria
  <2>1. /\ a.criteria = NoCriteria \/ a.criteria \in [Criteria -> Winners]
        /\ b.criteria = NoCriteria \/ b.criteria \in [Criteria -> Winners]
    BY AnswerIs
  <2>2. /\ Canonical(a, "AB").criteria = a.criteria
        /\ Canonical(b, "BA").criteria = IF b.criteria = NoCriteria THEN NoCriteria
                                         ELSE [c \in Criteria |-> SwapWinner(b.criteria[c])]
    BY DEF Canonical
  <2>3. CASE b.criteria = NoCriteria
    BY <1>1, <2>2, <2>3
  <2>4. CASE b.criteria # NoCriteria
    <3>1. a.criteria = [c \in Criteria |-> SwapWinner(b.criteria[c])]
      BY <1>1, <2>2, <2>4
    <3>2. SUFFICES ASSUME a.criteria = NoCriteria PROVE FALSE
      BY <2>4
    <3>3. DOMAIN a.criteria = Criteria /\ DOMAIN NoCriteria = {}
      BY <3>1 DEF NoCriteria
    <3>4. Criteria = {}
      BY <3>2, <3>3
    <3>5. b.criteria = [c \in Criteria |-> b.criteria[c]]
      BY <2>1, <2>4
    <3>6. b.criteria = a.criteria
      BY <3>1, <3>4, <3>5
    <3>7. QED
      BY <2>4, <3>2, <3>6
  <2>5. QED
    BY <2>3, <2>4
<1>5. ASSUME a.criteria # NoCriteria, NEW c \in Criteria, NEW r \in Roles
      PROVE  (a.criteria[c] = ShownAs(r, "AB")) = (b.criteria[c] = ShownAs(r, "BA"))
  <2>1. Canonical(a, "AB").criteria[c] = Canon(r) <=> a.criteria[c] = ShownAs(r, "AB")
    BY <1>2, <1>5, CanonicalIs
  <2>2. Canonical(b, "BA").criteria[c] = Canon(r) <=> b.criteria[c] = ShownAs(r, "BA")
    BY <1>2, <1>4, <1>5, CanonicalIs
  <2>3. QED
    BY <1>1, <2>1, <2>2
<1>6. QED
  BY <1>3, <1>4, <1>5

\* So do those of two decisions that agree in every field.
LEMMA AgreementIsMirrored ==
  ASSUME NEW a \in Answers, NEW b \in Answers,
         ValidateResponse(a, "AB") = ValidateResponse(b, "BA")
  PROVE  /\ \A r \in Roles : a.checks[ShownAs(r, "AB")] = b.checks[ShownAs(r, "BA")]
         /\ (a.criteria = NoCriteria) = (b.criteria = NoCriteria)
         /\ a.criteria # NoCriteria =>
              \A c \in Criteria, r \in Roles :
                 (a.criteria[c] = ShownAs(r, "AB")) = (b.criteria[c] = ShownAs(r, "BA"))
<1>1. /\ ValidateResponse(a, "AB").checks = Canonical(a, "AB").checks
      /\ ValidateResponse(a, "AB").criteria = Canonical(a, "AB").criteria
      /\ ValidateResponse(b, "BA").checks = Canonical(b, "BA").checks
      /\ ValidateResponse(b, "BA").criteria = Canonical(b, "BA").criteria
  BY DEF ValidateResponse
<1>2. QED
  BY <1>1, SameCanonical

-----------------------------------------------------------------------------
(* The run, step by step *)

\* At the beginning.
LEMMA InitKeeps == ASSUME Init PROVE RunInv
<1>1. /\ step = "selecting" /\ cell = 1 /\ merit = "treatment"
      /\ arms = [r \in Roles |-> NoArm] /\ trial = [o \in Orders |-> NoTrial] /\ done = <<>>
      /\ tally = [w \in Merits |-> 0] /\ blemishes = {}
      /\ account = [committed |-> 0, known |-> 0, unknown |-> 0, open |-> 0]
      /\ report = NoReport /\ bills = 0 /\ spoiled = FALSE
  BY DEF Init
<1>2. Both("ready") = 2 /\ Both("reserved") = 0
  BY <1>1 DEF Both, Once, Orders, NoTrial
<1>3. RunTypeOK
  <2>1. account \in AccountKind
    BY <1>1 DEF AccountKind
  <2>2. arms \in [Roles -> ArmKind]
    BY <1>1 DEF ArmKind, NoArm
  <2>3. trial \in [Orders -> TrialKind]
    <3>1. NoTrial \in TrialKind
      BY DEF TrialKind, NoTrial, Ats
    <3>2. QED
      BY <1>1, <3>1
  <2>4. tally \in [Merits -> Nat] /\ merit \in Merits
    BY <1>1, MeritNames
  <2>5. step \in Steps /\ done \in Seq(PairKind)
    BY <1>1 DEF Steps
  <2>6. QED
    <3>1. /\ step = "selecting" /\ cell \in Nat \ {0}
          /\ blemishes \subseteq {"incomplete", "unstable", "disordered"}
          /\ bills \in Nat
      BY <1>1
    <3>2. spoiled \in BOOLEAN
      <4>1. spoiled = FALSE
        BY Zenon DEF Init
      <4>2. QED
        BY <4>1, Zenon
    <3>3. QED
      BY <2>1, <2>2, <2>3, <2>4, <2>5, <3>1, <3>2 DEF RunTypeOK
<1>4. PlaceInv
  <2>1. \A o \in Orders : trial[o].at = "ready"
    BY <1>1 DEF NoTrial
  <2>2. QED
    BY <1>1, <1>2, <2>1 DEF PlaceInv
<1>5. BudgetInv
  <2>1. Cases = 0
    BY <1>1, MeritNames DEF Cases
  <2>2. PlanCoversCalls
    BY <1>1 DEF PlanCoversCalls, NoTrial
  <2>3. QED
    BY <1>1, <2>1, <2>2 DEF BudgetInv, InPair
<1>6. BillInv
  BY <1>1, <1>2 DEF BillInv
<1>7. WinInv
  BY <1>1 DEF WinInv, WinnerIsPreferredTwice
<1>8. SpoilInv /\ ReleasedInv
  BY <1>1 DEF SpoilInv, ReleasedInv, NoReport
<1>9. QED
  BY <1>3, <1>4, <1>5, <1>6, <1>7, <1>8 DEF RunInv

\* A plan is selected, or refused.
LEMMA SelectKeeps == ASSUME RunInv, Select PROVE RunInv'
<1>1. RunTypeOK /\ PlaceInv /\ BudgetInv /\ BillInv /\ SpoilInv /\ ReleasedInv
  BY DEF RunInv
<1>2. /\ step = "selecting" /\ plan' \in Plans
      /\ step' = IF Selectable' /\ (Judging => WithinCap)' THEN "case" ELSE "refused"
      /\ UNCHANGED <<merit, arms, trial, done, cell, tally, blemishes, verdicts, report, models>>
      /\ UNCHANGED <<account, bills, spoiled>>
  BY DEF Select, pairVars, history
<1>3. step' \in {"case", "refused"} /\ (step' = "case" /\ Judging' => WithinCap')
  BY <1>2
<1>4. RunTypeOK'
  BY <1>1, <1>2, <1>3 DEF RunTypeOK, Steps
<1>5. /\ Both("ready") = 2 /\ Both("ready")' = Both("ready") /\ Both("reserved")' = Both("reserved")
      /\ done = <<>>
  BY <1>1, <1>2 DEF PlaceInv, Both
<1>6. PlaceInv'
  BY <1>1, <1>2, <1>3, <1>5 DEF PlaceInv
<1>7. BudgetInv'
  <2>1. Cases' = 0 /\ account'.committed = 0 /\ PerCall \in Nat
    BY <1>1, <1>2, PlansAssumption DEF BudgetInv, Cases
  <2>2. Cases' < plan'.cases
    BY <1>2, <2>1, PlansAssumption DEF PlanType
  <2>3. Begun' = 0
    <3>1. Begun' = 6 * Cases' + 2 * Len(done') + (2 - Both("ready")')
      BY <1>3 DEF Begun
    <3>2. QED
      BY <1>2, <1>5, <2>1, <3>1
  <2>4. PlanCoversCalls'
    BY <1>1, <1>2 DEF BudgetInv, PlanCoversCalls
  <2>5. account'.committed <= PerCall * Begun'
    BY <2>1, <2>3
  <2>6. QED
    BY <1>3, <2>1, <2>2, <2>4, <2>5 DEF BudgetInv, InPair
<1>8. BillInv'
  BY <1>1, <1>2, <1>3, <1>5 DEF BillInv
<1>9. WinInv' /\ SpoilInv' /\ ReleasedInv'
  BY <1>1, <1>2, <1>3 DEF WinInv, WinnerIsPreferredTwice, SpoilInv, ReleasedInv
<1>10. QED
  BY <1>4, <1>6, <1>7, <1>8, <1>9 DEF RunInv

\* What is still spoiled if neither the pairs that are over nor what spoils a case changes.
LEMMA StillSpoils ==
  ASSUME UNCHANGED <<plan, blemishes, done>>, Blemished \/ PairsSpoil
  PROVE  Blemished' \/ PairsSpoil'
  BY DEF Blemished, PairsSpoil, PairSpoils, Judging

\* A case begins.
LEMMA StartCaseKeeps == ASSUME RunInv, StartCase PROVE RunInv'
<1>1. RunTypeOK /\ PlaceInv /\ BudgetInv /\ BillInv /\ SpoilInv /\ ReleasedInv
  BY DEF RunInv
<1>2. /\ step = "case" /\ step' = "pair" /\ merit' \in Merits
      /\ UNCHANGED <<plan, arms, trial, done, cell, tally, blemishes, verdicts, report, models>>
      /\ UNCHANGED <<account, bills, spoiled>>
  BY DEF StartCase, runVars, history
<1>3. RunTypeOK'
  BY <1>1, <1>2 DEF RunTypeOK, Steps
<1>4. Both("ready")' = Both("ready") /\ Both("reserved")' = Both("reserved") /\ Both("ready") = 2
  BY <1>1, <1>2 DEF Both, PlaceInv
<1>5. PlaceInv'
  BY <1>1, <1>2, <1>4 DEF PlaceInv
<1>6. BudgetInv'
  <2>1. Cases' = Cases /\ (WithinCap' <=> WithinCap) /\ (Judging' <=> Judging)
    BY <1>2 DEF Cases, WithinCap, MaximumCalls, PairRuns, Judging
  <2>2. Begun' = Begun
    BY <1>2, <1>4, <2>1 DEF Begun
  <2>3. QED
    BY <1>1, <1>2, <2>1, <2>2 DEF BudgetInv, PlanCoversCalls, InPair
<1>7. BillInv'
  BY <1>1, <1>2, <1>4 DEF BillInv
<1>8. WinInv' /\ ReleasedInv'
  BY <1>1, <1>2 DEF WinInv, WinnerIsPreferredTwice, ReleasedInv
<1>9. SpoilInv'
  BY <1>1, <1>2, StillSpoils DEF SpoilInv, WillSpoil
<1>10. QED
  BY <1>3, <1>5, <1>6, <1>7, <1>8, <1>9 DEF RunInv

\* Both arms are over.
LEMMA RunArmsKeeps == ASSUME RunInv, RunArms PROVE RunInv'
<1>1. RunTypeOK /\ PlaceInv /\ BudgetInv /\ BillInv /\ SpoilInv /\ ReleasedInv
  BY DEF RunInv
<1>2. PICK result \in PairResults, alike \in BOOLEAN :
        /\ arms' = [r \in Roles |-> result[r]]
        /\ LET costing(c) == Count({r \in Roles : result[r].cost = c})
           IN  /\ account' = [account EXCEPT !.known = account.known + costing("known"),
                                             !.unknown = account.unknown + costing("unknown")]
               /\ bills' = bills + costing("known") + costing("unknown")
        /\ step' = IF alike /\ \A r \in Roles : result[r].status = "completed"
                     THEN "armed" ELSE "broken"
        /\ spoiled' = (spoiled \/ step' = "broken" \/ ~result["treatment"].passed)
  <2>1. SimpleResults \subseteq PairResults
    BY DEF SimpleResults
  <2>2. PICK result \in IF plan.simple THEN SimpleResults ELSE PairResults, alike \in BOOLEAN :
          /\ arms' = [r \in Roles |-> result[r]]
          /\ LET costing(c) == Count({r \in Roles : result[r].cost = c})
             IN  /\ account' = [account EXCEPT !.known = account.known + costing("known"),
                                               !.unknown = account.unknown + costing("unknown")]
                 /\ bills' = bills + costing("known") + costing("unknown")
          /\ step' = IF alike /\ \A r \in Roles : result[r].status = "completed"
                       THEN "armed" ELSE "broken"
          /\ spoiled' = (spoiled \/ step' = "broken" \/ ~result["treatment"].passed)
    BY DEF RunArms
  <2>3. result \in PairResults
    BY <2>1, <2>2
  <2>4. QED
    BY <2>2, <2>3
<1>3. /\ step = "pair" /\ step' \in {"armed", "broken"}
      /\ UNCHANGED <<plan, merit, trial, done, cell, tally, blemishes, verdicts, report>>
  BY <1>2 DEF RunArms, runVars
<1>4. PICK k \in Nat, u \in Nat : /\ k = Count({r \in Roles : result[r].cost = "known"})
                                  /\ u = Count({r \in Roles : result[r].cost = "unknown"})
  <2>1. IsFiniteSet(Roles)
    <3>1. Roles = {"control"} \cup {"treatment"}
      BY DEF Roles
    <3>2. QED
      BY <3>1, FS_Singleton, FS_Union
  <2>2. \A s : s \subseteq Roles => Count(s) \in Nat
    BY <2>1, FS_Subset, FS_CardinalityType DEF Count
  <2>3. QED
    BY <2>2
<1>5. /\ account' = [account EXCEPT !.known = account.known + k, !.unknown = account.unknown + u]
      /\ bills' = bills + k + u
  BY <1>2, <1>4
<1>6. /\ account \in AccountKind /\ bills \in Nat /\ spoiled \in BOOLEAN
      /\ account.committed \in Int /\ account.known \in Nat /\ account.unknown \in Nat /\ account.open \in Nat
  BY <1>1 DEF RunTypeOK, AccountKind
<1>7. /\ account' \in AccountKind /\ account'.committed = account.committed
      /\ account'.known = account.known + k /\ account'.unknown = account.unknown + u
      /\ account'.open = account.open
  <2>1. account.known + k \in Nat /\ account.unknown + u \in Nat
    BY <1>4, <1>6
  <2>2. account' = [committed |-> account.committed, known |-> account.known + k,
                    unknown |-> account.unknown + u, open |-> account.open]
    BY <1>5, <1>6 DEF AccountKind
  <2>3. QED
    BY <1>6, <2>1, <2>2, AccountMade, AccountIs
<1>8. arms' \in [Roles -> ArmKind] /\ arms'["treatment"] = result["treatment"]
  <2>1. \A r \in Roles : result[r] \in ArmResults
    BY <1>2 DEF PairResults
  <2>2. ArmResults \subseteq ArmKind
    BY DEF ArmResults, ArmKind
  <2>3. QED
    BY <1>2, <2>1, <2>2 DEF Roles
<1>9. spoiled' \in BOOLEAN /\ bills' \in Nat
  BY <1>2, <1>4, <1>5, <1>6
<1>10. RunTypeOK'
  BY <1>1, <1>3, <1>7, <1>8, <1>9 DEF RunTypeOK, Steps, InPair
<1>11. Both("ready")' = Both("ready") /\ Both("reserved")' = Both("reserved") /\ Both("ready") = 2
  BY <1>1, <1>3 DEF Both, PlaceInv
<1>12. PlaceInv'
  BY <1>1, <1>3, <1>11 DEF PlaceInv
<1>13. BudgetInv'
  <2>1. Cases' = Cases /\ (WithinCap' <=> WithinCap) /\ (Judging' <=> Judging)
    BY <1>3 DEF Cases, WithinCap, MaximumCalls, PairRuns, Judging
  <2>2. Begun' = Begun
    BY <1>3, <1>11, <2>1 DEF Begun
  <2>3. QED
    BY <1>1, <1>3, <1>7, <2>1, <2>2 DEF BudgetInv, PlanCoversCalls, InPair
<1>14. BillInv'
  <2>1. account'.unknown = 0 => account.unknown = 0 /\ u = 0
    BY <1>4, <1>6, <1>7
  <2>2. u = 0 /\ bills' # account'.known => bills # account.known
    BY <1>4, <1>5, <1>6, <1>7
  <2>3. QED
    BY <1>1, <1>3, <1>7, <1>11, <2>1, <2>2 DEF BillInv
<1>15. WinInv' /\ ReleasedInv'
  BY <1>1, <1>3 DEF WinInv, WinnerIsPreferredTwice, ReleasedInv
<1>16. SpoilInv'
  <2>1. CASE spoiled
    BY <1>1, <1>3, <2>1, StillSpoils DEF SpoilInv, WillSpoil
  <2>2. CASE ~spoiled
    BY <1>2, <1>3, <1>8, <2>2 DEF SpoilInv, WillSpoil
  <2>3. QED
    BY <2>1, <2>2
<1>17. QED
  BY <1>10, <1>12, <1>13, <1>14, <1>15, <1>16 DEF RunInv

\* What decides a pair without a comparator, and when the comparator is asked.
LEMMA ObjectiveWinnerIs ==
  ASSUME RunTypeOK, plan \in Plans
  PROVE  /\ ObjectiveWinner \in Roles \cup {"tie", "unqualified", "judge"}
         /\ ObjectiveWinner = "judge" => Judging
<1> DEFINE passing == {r \in Roles : arms[r].passed}
<1>1. plan.mode \in {"judged", "verifier_only", "objective_only"}
  BY PlanParts DEF Modes
<1>2. passing \in {{}, {"control"}, {"treatment"}, Roles}
  BY DEF Roles
<1>3. Count(passing) = 1 <=> \E r : passing = {r}
  <2>1. IsFiniteSet(passing)
    <3>1. Roles = {"control"} \cup {"treatment"}
      BY DEF Roles
    <3>2. IsFiniteSet(Roles)
      BY <3>1, FS_Singleton, FS_Union
    <3>3. QED
      BY <3>2, FS_Subset
  <2>2. QED
    BY <2>1, FS_Singleton DEF Count
<1>4. CASE Count(passing) = 1
  <2>1. PICK r \in Roles : passing = {r}
    BY <1>3, <1>4
  <2>2. ObjectiveWinner = CHOOSE w \in {r} : TRUE
    BY <1>4, <2>1 DEF ObjectiveWinner
  <2>3. ObjectiveWinner = r
    BY <2>2
  <2>4. QED
    BY <2>1, <2>3 DEF Roles
<1>5. CASE Count(passing) # 1
  <2>1. passing = {} \/ passing = Roles
    BY <1>2, <1>3, <1>5
  <2>2. Roles # {}
    BY DEF Roles
  <2>3. ObjectiveWinner =
          CASE plan.mode = "objective_only" -> "tie"
            [] plan.mode # "objective_only" /\ passing = {} -> "unqualified"
            [] plan.mode = "verifier_only" /\ passing = Roles -> "tie"
            [] plan.mode = "judged" /\ passing = Roles -> "judge"
    BY <1>5 DEF ObjectiveWinner
  <2> HIDE DEF passing
  <2>4. CASE plan.mode = "objective_only"
    BY <2>3, <2>4
  <2>5. CASE plan.mode # "objective_only" /\ passing = {}
    BY <2>2, <2>3, <2>5
  <2>6. CASE plan.mode = "verifier_only" /\ passing = Roles
    BY <2>2, <2>3, <2>6
  <2>7. CASE plan.mode = "judged" /\ passing = Roles
    BY <2>2, <2>3, <2>7 DEF Judging
  <2>8. QED
    BY <1>1, <2>1, <2>4, <2>5, <2>6, <2>7
<1>6. QED
  BY <1>4, <1>5

\* The pair is shown, or cannot be.
LEMMA ShowPairKeeps == ASSUME RunInv, ShowPair PROVE RunInv'
<1>1. RunTypeOK /\ PlaceInv /\ BudgetInv /\ BillInv /\ SpoilInv /\ ReleasedInv
  BY DEF RunInv
<1>2. PICK representable \in BOOLEAN :
        /\ step' = IF representable THEN "judging" ELSE "broken"
        /\ spoiled' = (spoiled \/ ~representable)
  BY DEF ShowPair
<1>3. /\ step = "armed" /\ ObjectiveWinner = "judge" /\ step' \in {"judging", "broken"}
      /\ UNCHANGED <<plan, merit, arms, trial, done, cell, tally, blemishes, verdicts, report, models>>
      /\ UNCHANGED <<account, bills>>
  BY <1>2 DEF ShowPair, pairVars, runVars
<1>4. Judging
  BY <1>1, <1>3, ObjectiveWinnerIs DEF RunTypeOK
<1>5. spoiled' \in BOOLEAN
  BY <1>1, <1>2 DEF RunTypeOK
<1>6. RunTypeOK'
  BY <1>1, <1>3, <1>5 DEF RunTypeOK, Steps, InPair
<1>7. Both("ready")' = Both("ready") /\ Both("reserved")' = Both("reserved")
  BY <1>3 DEF Both
<1>8. PlaceInv'
  BY <1>1, <1>3, <1>4, <1>7 DEF PlaceInv, Judging
<1>9. BudgetInv'
  <2>1. Cases' = Cases /\ (WithinCap' <=> WithinCap) /\ (Judging' <=> Judging)
    BY <1>3 DEF Cases, WithinCap, MaximumCalls, PairRuns, Judging
  <2>2. Begun' = Begun
    BY <1>3, <1>7, <2>1 DEF Begun
  <2>3. QED
    BY <1>1, <1>3, <2>1, <2>2 DEF BudgetInv, PlanCoversCalls, InPair
<1>10. BillInv'
  BY <1>1, <1>3, <1>7 DEF BillInv
<1>11. WinInv' /\ ReleasedInv'
  BY <1>1, <1>3 DEF WinInv, WinnerIsPreferredTwice, ReleasedInv
<1>12. SpoilInv'
  <2>1. CASE spoiled
    BY <1>1, <1>3, <2>1, StillSpoils DEF SpoilInv, WillSpoil
  <2>2. CASE ~spoiled
    BY <1>2, <1>3, <2>2 DEF SpoilInv, WillSpoil
  <2>3. QED
    BY <2>1, <2>2
<1>13. QED
  BY <1>6, <1>8, <1>9, <1>10, <1>11, <1>12 DEF RunInv

\* The next pair begins.
LEMMA NextPairKeeps == ASSUME RunInv, NextPair PROVE RunInv'
<1>1. RunTypeOK /\ PlaceInv /\ BudgetInv /\ BillInv /\ SpoilInv /\ ReleasedInv
  BY DEF RunInv
<1>2. /\ step = "decided" /\ Len(done) < 3 /\ step' = "pair"
      /\ arms' = [r \in Roles |-> NoArm] /\ trial' = [o \in Orders |-> NoTrial]
      /\ UNCHANGED <<plan, merit, done, cell, tally, blemishes, verdicts, report, models>>
      /\ UNCHANGED <<account, bills, spoiled>>
  BY DEF NextPair, runVars, history
<1>3. arms' \in [Roles -> ArmKind] /\ trial' \in [Orders -> TrialKind]
  <2>1. NoTrial \in TrialKind /\ NoArm \in ArmKind
    BY DEF TrialKind, NoTrial, Ats, NoArm, ArmKind
  <2>2. QED
    BY <1>2, <2>1
<1>4. \A o \in Orders : trial'[o].at = "ready"
  BY <1>2 DEF NoTrial
<1>5. Both("ready")' = 2 /\ Both("reserved")' = 0
  BY <1>4 DEF Both, Once, Orders
<1>6. RunTypeOK'
  BY <1>1, <1>2, <1>3 DEF RunTypeOK, Steps
<1>7. PlaceInv'
  BY <1>1, <1>2, <1>4, <1>5 DEF PlaceInv
<1>8. BudgetInv'
  <2>1. Cases' = Cases /\ (WithinCap' <=> WithinCap) /\ (Judging' <=> Judging)
    BY <1>2 DEF Cases, WithinCap, MaximumCalls, PairRuns, Judging
  <2>2. Begun \in Nat /\ Begun' \in Nat /\ Begun <= Begun'
    <3>1. Cases \in Nat /\ Begun \in Nat /\ Len(done) \in 1..3 /\ Both("ready") \in 0..2
      BY <1>1, <1>2, BegunIs DEF PlaceInv, Both, Once
    <3>2. Begun = 6 * Cases + 2 * (Len(done) - 1) + (2 - Both("ready"))
      BY <1>2 DEF Begun
    <3>3. Begun' = 6 * Cases + 2 * Len(done) + (2 - 2)
      BY <1>2, <1>5, <2>1 DEF Begun
    <3>4. QED
      BY <3>1, <3>2, <3>3
  <2>3. PerCall * Begun <= PerCall * Begun' /\ PerCall * Begun \in Nat /\ PerCall * Begun' \in Nat
    BY <2>2, TimesGrows, PlansAssumption
  <2>4. account.committed \in Int /\ account.committed <= PerCall * Begun
    BY <1>1, <1>2 DEF BudgetInv, InPair, RunTypeOK, AccountKind
  <2>5. account'.committed <= PerCall * Begun'
    BY <1>2, <2>3, <2>4
  <2>6. PlanCoversCalls'
    BY <1>4 DEF PlanCoversCalls
  <2>7. QED
    BY <1>1, <1>2, <2>1, <2>5, <2>6 DEF BudgetInv, InPair
<1>9. BillInv'
  <2>1. Both("reserved") = 0 /\ account.open \in Nat
    BY <1>1, <1>2 DEF PlaceInv, RunTypeOK, AccountKind
  <2>2. QED
    BY <1>1, <1>2, <1>5, <2>1 DEF BillInv
<1>10. WinInv' /\ ReleasedInv'
  BY <1>1, <1>2 DEF WinInv, WinnerIsPreferredTwice, ReleasedInv
<1>11. SpoilInv'
  BY <1>1, <1>2, StillSpoils DEF SpoilInv, WillSpoil
<1>12. QED
  BY <1>6, <1>7, <1>8, <1>9, <1>10, <1>11 DEF RunInv

\* A cell is over.
LEMMA EndCellKeeps == ASSUME RunInv, EndCell PROVE RunInv'
<1>1. RunTypeOK /\ PlaceInv /\ BudgetInv /\ BillInv /\ SpoilInv /\ ReleasedInv
  BY DEF RunInv
<1>2. /\ step = "cell" /\ tally' = [w \in Merits |-> 0] /\ merit' = "treatment"
      /\ account' = [account EXCEPT !.committed = 0]
      /\ \/ cell' = cell + 1 /\ step' = "case"
         \/ cell' = cell /\ step' = "report"
      /\ UNCHANGED <<plan, blemishes, report, arms, trial, done, models, bills, spoiled>>
  BY DEF EndCell, history
<1>3. /\ account \in AccountKind /\ account.known \in Nat /\ account.unknown \in Nat
      /\ account.open \in Nat
  BY <1>1 DEF RunTypeOK, AccountKind
<1>4. /\ account' \in AccountKind /\ account'.committed = 0 /\ account'.known = account.known
      /\ account'.unknown = account.unknown /\ account'.open = account.open
  <2>1. account' = [committed |-> 0, known |-> account.known,
                    unknown |-> account.unknown, open |-> account.open]
    BY <1>2, <1>3 DEF AccountKind
  <2>2. QED
    BY <1>3, <2>1, AccountMade
<1>5. tally' \in [Merits -> Nat] /\ merit' \in Merits
  BY <1>2, MeritNames
<1>6. cell' \in Nat \ {0} /\ step' \in {"case", "report"}
  BY <1>1, <1>2 DEF RunTypeOK
<1>7. RunTypeOK'
  BY <1>1, <1>2, <1>4, <1>5, <1>6 DEF RunTypeOK, Steps
<1>8. Both("ready")' = Both("ready") /\ Both("reserved")' = Both("reserved") /\ Both("ready") = 2
  BY <1>1, <1>2 DEF Both, PlaceInv
<1>9. PlaceInv'
  BY <1>1, <1>2, <1>6, <1>8 DEF PlaceInv
<1>10. BudgetInv'
  <2>1. (WithinCap' <=> WithinCap) /\ (Judging' <=> Judging)
    BY <1>2 DEF WithinCap, MaximumCalls, PairRuns, Judging
  <2>2. Cases' = 0
    BY <1>2, MeritNames DEF Cases
  <2>3. plan \in Plans /\ plan.cases \in Nat \ {0} /\ PerCall \in Nat
    BY <1>1, <1>2, PlanParts DEF RunTypeOK
  <2>4. Begun' = 0
    <3>1. Begun' = 6 * Cases' + 2 * Len(done') + (2 - Both("ready")')
      BY <1>6 DEF Begun
    <3>2. done' = <<>>
      BY <1>1, <1>2 DEF PlaceInv
    <3>3. QED
      BY <1>8, <2>2, <3>1, <3>2
  <2>5. account'.committed <= PerCall * Begun'
    BY <1>4, <2>3, <2>4
  <2>6. plan' = plan /\ Cases' < plan'.cases
    BY <1>2, <2>2, <2>3
  <2>7. PlanCoversCalls'
    BY <1>1, <1>2 DEF BudgetInv, PlanCoversCalls
  <2>8. WithinCap \/ ~Judging
    BY <1>1, <1>2 DEF BudgetInv
  <2>9. QED
    BY <1>6, <2>1, <2>5, <2>6, <2>7, <2>8 DEF BudgetInv
<1>11. BillInv'
  BY <1>1, <1>2, <1>4, <1>6, <1>8 DEF BillInv
<1>12. WinInv' /\ ReleasedInv'
  BY <1>1, <1>2, <1>6 DEF WinInv, WinnerIsPreferredTwice, ReleasedInv
<1>13. SpoilInv'
  BY <1>1, <1>2, <1>6, StillSpoils DEF SpoilInv, WillSpoil
<1>14. QED
  BY <1>7, <1>9, <1>10, <1>11, <1>12, <1>13 DEF RunInv

\* A result has the winner, the completeness and the bias that it was made with.
LEMMA PairResultIs ==
  ASSUME RunTypeOK, NEW w \in WinnerNames, NEW c \in BOOLEAN, NEW b \in BOOLEAN
  PROVE  /\ PairResult(w, c, b) \in PairKind
         /\ PairResult(w, c, b).winner = w /\ PairResult(w, c, b).completed = c
         /\ PairResult(w, c, b).bias = b
         /\ ~arms["treatment"].passed => ~PairResult(w, c, b).passed
<1>1. arms["treatment"] \in ArmKind
  BY DEF RunTypeOK, Roles
<1>2. arms["treatment"].passed \in BOOLEAN
  BY <1>1 DEF ArmKind
<1>3. PICK p \in BOOLEAN : p = (arms["treatment"].status = "completed" /\ arms["treatment"].passed)
  BY <1>2
<1>4. PairResult(w, c, b) = [winner |-> w, completed |-> c, bias |-> b, passed |-> p]
  BY <1>3 DEF PairResult
<1>5. ~arms["treatment"].passed => ~p
  BY <1>3
<1>6. QED
  BY <1>4, <1>5 DEF PairKind

\* What both trials say of a pair.
LEMMA JudgedResultIs ==
  ASSUME RunInv, step = "judging"
  PROVE  /\ JudgedResult \in PairKind
         /\ JudgedResult.winner \in Roles =>
              \A o \in Orders : Prefers(trial[o].answer, o, JudgedResult.winner)
         /\ WillSpoil \/ (BothAccepted /\ ~Mirrored) => PairSpoils(JudgedResult)
<1>1. RunTypeOK /\ PlaceInv /\ Judging
  BY DEF RunInv, PlaceInv
<1>2. WillSpoil => ~arms["treatment"].passed \/ ~BothAccepted
  BY DEF WillSpoil, BothAccepted
<1>3. CASE ~BothAccepted
  <2>1. JudgedResult = PairResult("inconclusive", FALSE, FALSE)
    BY <1>3 DEF JudgedResult, Broken
  <2>2. "inconclusive" \in WinnerNames /\ "inconclusive" \notin Roles
    BY DEF WinnerNames, Roles
  <2>3. /\ PairResult("inconclusive", FALSE, FALSE) \in PairKind
        /\ PairResult("inconclusive", FALSE, FALSE).winner = "inconclusive"
        /\ ~PairResult("inconclusive", FALSE, FALSE).completed
    BY <1>1, <2>2, PairResultIs
  <2>4. QED
    BY <2>1, <2>2, <2>3 DEF PairSpoils
<1>4. CASE BothAccepted
  <2>1. \A o \in Orders : trial[o].answer \in Answers
    BY <1>1, <1>4 DEF PlaceInv, BothAccepted
  <2>2. "AB" \in Orders /\ "BA" \in Orders /\ Orders = {"AB", "BA"}
    BY DEF Orders
  <2>3. PICK a \in Answers, b \in Answers : a = trial["AB"].answer /\ b = trial["BA"].answer
    BY <2>1, <2>2
  <2>4. Decision("AB") = ValidateResponse(a, "AB") /\ Decision("BA") = ValidateResponse(b, "BA")
    BY <2>3 DEF Decision
  <2>5. CASE Decision("AB") # Decision("BA")
    <3>1. JudgedResult = PairResult("inconclusive", FALSE, TRUE)
      BY <1>4, <2>5 DEF JudgedResult
    <3>2. "inconclusive" \in WinnerNames /\ "inconclusive" \notin Roles
      BY DEF WinnerNames, Roles
    <3>3. /\ PairResult("inconclusive", FALSE, TRUE) \in PairKind
          /\ PairResult("inconclusive", FALSE, TRUE).winner = "inconclusive"
          /\ ~PairResult("inconclusive", FALSE, TRUE).completed
      BY <1>1, <3>2, PairResultIs
    <3>4. QED
      BY <3>1, <3>2, <3>3 DEF PairSpoils
  <2>6. CASE Decision("AB") = Decision("BA")
    <3> DEFINE w == MapOutcome(Decision("AB").outcome)
    <3>1. JudgedResult = PairResult(w, TRUE, FALSE)
      BY <1>4, <2>6 DEF JudgedResult
    <3>2. w \in WinnerNames
      <4>1. PICK e, criteria : Decision("AB").outcome = DeriveOutcome(e, criteria)
        BY <2>4 DEF ValidateResponse
      <4>2. DeriveOutcome(e, criteria) \in {"A", "B", "unqualified", "tradeoff", "tie"}
        BY OutcomeIs
      <4>3. QED
        BY <4>1, <4>2 DEF MapOutcome, WinnerNames, Roles
    <3>3. w = MapOutcome(ValidateResponse(a, "AB").outcome) /\ w = MapOutcome(ValidateResponse(b, "BA").outcome)
      BY <2>4, <2>6
    <3> HIDE DEF w
    <3>4. /\ PairResult(w, TRUE, FALSE) \in PairKind
          /\ PairResult(w, TRUE, FALSE).winner = w
          /\ ~arms["treatment"].passed => ~PairResult(w, TRUE, FALSE).passed
      BY <1>1, <3>2, PairResultIs
    <3>5. w \in Roles => Prefers(a, "AB", w) /\ Prefers(b, "BA", w)
      BY <2>2, <3>3, OutcomeIsPreference
    <3>6. Mirrored
      <4>1. ValidateResponse(a, "AB") = ValidateResponse(b, "BA")
        BY <2>4, <2>6
      <4>2. /\ \A r \in Roles : a.checks[ShownAs(r, "AB")] = b.checks[ShownAs(r, "BA")]
            /\ (a.criteria = NoCriteria) = (b.criteria = NoCriteria)
            /\ a.criteria # NoCriteria =>
                 \A c \in Criteria, r \in Roles :
                    (a.criteria[c] = ShownAs(r, "AB")) = (b.criteria[c] = ShownAs(r, "BA"))
        BY <4>1, AgreementIsMirrored
      <4>3. QED
        BY <2>3, <4>2 DEF Mirrored
    <3>7. QED
      BY <1>2, <1>4, <2>2, <2>3, <3>1, <3>4, <3>5, <3>6 DEF PairSpoils
  <2>7. QED
    BY <2>5, <2>6
<1>5. QED
  BY <1>3, <1>4

\* A pair is decided.
LEMMA DecideKeeps == ASSUME RunInv, Decide PROVE RunInv'
<1>1. RunTypeOK /\ PlaceInv /\ BudgetInv /\ BillInv /\ SpoilInv /\ ReleasedInv
  BY DEF RunInv
<1>2. /\ step \in {"broken", "armed", "judging"} /\ step' = "decided"
      /\ UNCHANGED <<plan, merit, arms, trial, cell, tally, blemishes, verdicts, report, models>>
      /\ UNCHANGED <<account, bills>>
  BY DEF Decide, EndPair, runVars
<1>3. plan \in Plans /\ done \in Seq(PairKind) /\ spoiled \in BOOLEAN
  BY <1>1, <1>2 DEF RunTypeOK
<1>4. PICK result \in PairKind :
        /\ done' = Append(done, result)
        /\ result.winner \in Roles /\ (\E o \in Orders : trial[o].at # "ready") =>
             \A o \in Orders : Prefers(trial[o].answer, o, result.winner)
        /\ spoiled' \in BOOLEAN
        /\ WillSpoil \/ (spoiled' /\ ~spoiled) => PairSpoils(result)
        /\ step = "judging" => \A o \in Orders : trial[o].at \in {"accepted", "failed", "refused"}
  <2>1. step \in {"broken", "armed"} => \A o \in Orders : trial[o].at = "ready"
    <3>1. step \in {"broken", "armed"} => Both("ready") = 2
      BY <1>1 DEF PlaceInv
    <3>2. QED
      BY <3>1 DEF Both, Once, Orders
  <2>2. CASE step = "broken"
    <3>1. done' = Append(done, Broken) /\ spoiled' = spoiled
      BY <2>2 DEF Decide, EndPair
    <3>2. "inconclusive" \in WinnerNames /\ "inconclusive" \notin Roles
      BY DEF WinnerNames, Roles
    <3>3. Broken \in PairKind /\ Broken.winner = "inconclusive" /\ ~Broken.completed
      BY <1>1, <3>2, PairResultIs DEF Broken
    <3>4. QED
      BY <1>3, <2>2, <3>1, <3>2, <3>3 DEF PairSpoils
  <2>3. CASE step = "armed"
    <3> DEFINE result == PairResult(ObjectiveWinner, TRUE, FALSE)
    <3>1. ObjectiveWinner # "judge" /\ done' = Append(done, result) /\ spoiled' = spoiled
      BY <2>3 DEF Decide, EndPair
    <3>2. ObjectiveWinner \in WinnerNames
      BY <1>1, <1>3, <3>1, ObjectiveWinnerIs DEF WinnerNames
    <3>3. result \in PairKind /\ (~arms["treatment"].passed => ~result.passed)
      BY <1>1, <3>2, PairResultIs
    <3>4. WillSpoil => ~arms["treatment"].passed
      BY <2>3 DEF WillSpoil
    <3> HIDE DEF result
    <3>5. QED
      BY <1>3, <2>1, <2>3, <3>1, <3>3, <3>4 DEF PairSpoils
  <2>4. CASE step = "judging"
    <3>1. /\ done' = Append(done, JudgedResult)
          /\ spoiled' = (spoiled \/ (BothAccepted /\ ~Mirrored))
          /\ \A o \in Orders : trial[o].at \in {"accepted", "failed", "refused"}
      BY <2>4 DEF Decide, EndPair
    <3>2. /\ JudgedResult \in PairKind
          /\ JudgedResult.winner \in Roles =>
               \A o \in Orders : Prefers(trial[o].answer, o, JudgedResult.winner)
          /\ WillSpoil \/ (BothAccepted /\ ~Mirrored) => PairSpoils(JudgedResult)
      BY <2>4, JudgedResultIs
    <3>3. QED
      BY <1>3, <3>1, <3>2
  <2>5. QED
    BY <1>2, <2>2, <2>3, <2>4
<1>5. Len(done) \in Nat /\ Len(done) < 3 /\ Len(done') = Len(done) + 1 /\ done'[Len(done')] = result
  BY <1>1, <1>2, <1>3, <1>4 DEF PlaceInv
<1>6. RunTypeOK'
  BY <1>1, <1>2, <1>3, <1>4 DEF RunTypeOK, Steps, InPair
<1>7. Both("ready")' = Both("ready") /\ Both("reserved")' = Both("reserved")
  BY <1>2 DEF Both
<1>8. PlaceInv'
  <2>1. Both("reserved") = 0
    <3>1. CASE step = "judging"
      <4>1. \A o \in Orders : trial[o].at # "reserved"
        BY <1>4, <3>1
      <4>2. QED
        BY <4>1 DEF Both, Once, Orders
    <3>2. CASE step # "judging"
      <4>1. Both("ready") = 2
        BY <1>1, <1>2, <3>2 DEF PlaceInv
      <4>2. \A o \in Orders : trial[o].at = "ready"
        BY <4>1 DEF Both, Once, Orders
      <4>3. QED
        BY <4>2 DEF Both, Once, Orders
    <3>3. QED
      BY <3>1, <3>2
  <2>2. QED
    BY <1>1, <1>2, <1>5, <1>7, <2>1 DEF PlaceInv
<1>9. BudgetInv'
  <2>1. Cases' = Cases /\ (WithinCap' <=> WithinCap) /\ (Judging' <=> Judging)
    BY <1>2 DEF Cases, WithinCap, MaximumCalls, PairRuns, Judging
  <2>2. Begun' = Begun
    <3>1. Begun = 6 * Cases + 2 * Len(done) + (2 - Both("ready"))
      BY <1>2 DEF Begun
    <3>2. Begun' = 6 * Cases + 2 * (Len(done') - 1) + (2 - Both("ready"))
      BY <1>2, <1>7, <2>1 DEF Begun
    <3>3. Len(done') - 1 = Len(done)
      BY <1>5
    <3>4. QED
      BY <3>1, <3>2, <3>3
  <2>3. PlanCoversCalls'
    BY <1>1, <1>2 DEF BudgetInv, PlanCoversCalls
  <2>4. QED
    BY <1>1, <1>2, <2>1, <2>2, <2>3 DEF BudgetInv, InPair
<1>10. BillInv'
  BY <1>1, <1>2, <1>7 DEF BillInv
<1>11. WinInv'
  BY <1>2, <1>4, <1>5 DEF WinInv, WinnerIsPreferredTwice
<1>12. ReleasedInv'
  BY <1>1, <1>2 DEF ReleasedInv
<1>13. SpoilInv'
  <2>1. Blemished' <=> Blemished
    BY <1>2 DEF Blemished, Judging
  <2>2. PairsSpoil => PairsSpoil'
    <3>1. ASSUME NEW i \in DOMAIN done PROVE i \in DOMAIN done' /\ done'[i] = done[i]
      BY <1>3, <1>4
    <3>2. QED
      BY <1>2, <3>1 DEF PairsSpoil, PairSpoils, Judging
  <2>3. PairSpoils(result) => PairsSpoil'
    <3>1. Len(done') \in DOMAIN done'
      BY <1>3, <1>4
    <3>2. QED
      BY <1>2, <1>5, <3>1 DEF PairsSpoil, PairSpoils, Judging
  <2>4. CASE spoiled
    BY <1>1, <1>2, <1>4, <2>1, <2>2, <2>3, <2>4 DEF SpoilInv
  <2>5. CASE ~spoiled
    BY <1>2, <1>4, <2>3, <2>5 DEF SpoilInv
  <2>6. QED
    BY <1>2, <2>4, <2>5 DEF SpoilInv
<1>14. QED
  BY <1>6, <1>8, <1>9, <1>10, <1>11, <1>12, <1>13 DEF RunInv

\* A case is over and counted.
LEMMA EndCaseKeeps == ASSUME RunInv, EndCase PROVE RunInv'
<1>1. RunTypeOK /\ PlaceInv /\ BudgetInv /\ BillInv /\ SpoilInv /\ ReleasedInv
  BY DEF RunInv
<1>2. PICK w \in Merits : tally' = [tally EXCEPT ![w] = tally[w] + 1]
  BY MeritNames DEF EndCase, Roles
<1>3. /\ step = "decided" /\ Len(done) = 3 /\ done' = <<>>
      /\ blemishes' = blemishes \cup CaseBlemishes(done)
      /\ arms' = [r \in Roles |-> NoArm] /\ trial' = [o \in Orders |-> NoTrial]
      /\ step' = IF MapThenSumSet(LAMBDA m : tally'[m], Merits) < plan.cases THEN "case" ELSE "cell"
      /\ UNCHANGED <<plan, cell, merit, verdicts, report, models>>
      /\ UNCHANGED <<account, bills, spoiled>>
  BY DEF EndCase, history
<1>4. step' \in {"case", "cell"} /\ plan \in Plans
  BY <1>1, <1>3 DEF RunTypeOK
<1>5. arms' \in [Roles -> ArmKind] /\ trial' \in [Orders -> TrialKind]
  <2>1. NoTrial \in TrialKind /\ NoArm \in ArmKind
    BY DEF TrialKind, NoTrial, Ats, NoArm, ArmKind
  <2>2. QED
    BY <1>3, <2>1
<1>6. \A o \in Orders : trial'[o].at = "ready"
  BY <1>3 DEF NoTrial
<1>7. Both("ready")' = 2 /\ Both("reserved")' = 0
  BY <1>6 DEF Both, Once, Orders
<1>8. PICK f \in [Merits -> Nat] : /\ f = tally'
                                   /\ f["treatment"] + f["control"] + f["even"] = Cases + 1
  <2>1. tally \in [Merits -> Nat]
    BY <1>1 DEF RunTypeOK
  <2>2. /\ tally["treatment"] \in Nat /\ tally["control"] \in Nat /\ tally["even"] \in Nat
        /\ tally[w] \in Nat
    BY <2>1, MeritNames
  <2>3. tally' \in [Merits -> Nat]
    BY <1>2, <2>1, <2>2
  <2>4. tally'["treatment"] + tally'["control"] + tally'["even"] = Cases + 1
    <3>1. CASE w = "treatment"
      BY <1>2, <2>1, <2>2, <3>1, MeritNames DEF Cases
    <3>2. CASE w = "control"
      BY <1>2, <2>1, <2>2, <3>2, MeritNames DEF Cases
    <3>3. CASE w = "even"
      BY <1>2, <2>1, <2>2, <3>3, MeritNames DEF Cases
    <3>4. QED
      BY <3>1, <3>2, <3>3, MeritNames
  <2>5. QED
    BY <2>3, <2>4
<1>9. Cases' = Cases + 1
  BY <1>8 DEF Cases
<1>10. step' = "case" => Cases' < plan.cases
  <2>1. MapThenSumSet(LAMBDA m : f[m], Merits) = f["treatment"] + f["control"] + f["even"]
    BY TotalOfThree
  <2>2. step' = IF MapThenSumSet(LAMBDA m : f[m], Merits) < plan.cases THEN "case" ELSE "cell"
    BY <1>3, <1>8
  <2>3. QED
    BY <1>8, <1>9, <2>1, <2>2
<1>11. RunTypeOK'
  <2>1. CaseBlemishes(done) \subseteq {"incomplete", "unstable", "disordered"}
    BY DEF CaseBlemishes
  <2>2. tally' \in [Merits -> Nat] /\ done' \in Seq(PairKind)
    BY <1>3, <1>8
  <2>3. QED
    BY <1>1, <1>3, <1>4, <1>5, <2>1, <2>2 DEF RunTypeOK, Steps
<1>12. PlaceInv'
  BY <1>3, <1>4, <1>6, <1>7 DEF PlaceInv
<1>13. BudgetInv'
  <2>1. (WithinCap' <=> WithinCap) /\ (Judging' <=> Judging)
    BY <1>3 DEF WithinCap, MaximumCalls, PairRuns, Judging
  <2>2. Begun \in Nat /\ Begun' \in Nat /\ Begun <= Begun'
    <3>1. Cases \in Nat /\ Begun \in Nat /\ Both("ready") \in 0..2
      BY <1>1, BegunIs DEF Both, Once
    <3>2. Begun = 6 * Cases + 2 * (3 - 1) + (2 - Both("ready"))
      BY <1>3 DEF Begun
    <3>3. Begun' = 6 * (Cases + 1)
      <4>1. Begun' = 6 * Cases' + 2 * Len(done') + (2 - Both("ready")')
        BY <1>4 DEF Begun
      <4>2. Len(done') = 0
        BY <1>3
      <4>3. QED
        BY <1>7, <1>9, <3>1, <4>1, <4>2
    <3>4. QED
      BY <3>1, <3>2, <3>3
  <2>3. PerCall * Begun <= PerCall * Begun' /\ PerCall * Begun \in Nat /\ PerCall * Begun' \in Nat
    BY <2>2, TimesGrows, PlansAssumption
  <2>4. account.committed \in Int /\ account.committed <= PerCall * Begun
    BY <1>1, <1>3 DEF BudgetInv, InPair, RunTypeOK, AccountKind
  <2>5. account'.committed <= PerCall * Begun'
    BY <1>3, <2>3, <2>4
  <2>6. PlanCoversCalls'
    BY <1>6 DEF PlanCoversCalls
  <2>7. WithinCap \/ ~Judging
    BY <1>1, <1>3 DEF BudgetInv
  <2>8. step' \in {"case", "pair"} \cup InPair => Cases' < plan'.cases
    BY <1>3, <1>4, <1>10 DEF InPair
  <2>9. QED
    BY <1>4, <2>1, <2>5, <2>6, <2>7, <2>8 DEF BudgetInv
<1>14. BillInv'
  <2>1. Both("reserved") = 0 /\ account.open \in Nat
    BY <1>1, <1>3 DEF PlaceInv, RunTypeOK, AccountKind
  <2>2. QED
    BY <1>1, <1>3, <1>4, <1>7, <2>1 DEF BillInv
<1>15. WinInv' /\ ReleasedInv'
  BY <1>1, <1>3, <1>4 DEF WinInv, WinnerIsPreferredTwice, ReleasedInv
<1>16. SpoilInv'
  <2>1. Blemished => Blemished'
    BY <1>3 DEF Blemished, Judging
  <2>2. PairsSpoil => Blemished'
    <3>1. SUFFICES ASSUME NEW i \in DOMAIN done, PairSpoils(done[i]) PROVE Blemished'
      BY DEF PairsSpoil
    <3>2. \/ "incomplete" \in CaseBlemishes(done) \/ "unstable" \in CaseBlemishes(done)
          \/ Judging /\ "disordered" \in CaseBlemishes(done)
      BY <3>1 DEF PairSpoils, CaseBlemishes
    <3>3. QED
      BY <1>3, <3>2 DEF Blemished, Judging
  <2>3. ~WillSpoil
    BY <1>3 DEF WillSpoil
  <2>4. QED
    BY <1>1, <1>3, <1>4, <2>1, <2>2, <2>3 DEF SpoilInv
<1>17. QED
  BY <1>11, <1>12, <1>13, <1>14, <1>15, <1>16 DEF RunInv

\* The run is reported, or refused because a reservation is still open.
LEMMA AggregateKeeps == ASSUME RunInv, Aggregate PROVE RunInv'
<1>1. RunTypeOK /\ PlaceInv /\ BudgetInv /\ BillInv /\ SpoilInv /\ ReleasedInv
  BY DEF RunInv
<1>2. /\ step = "report" /\ step' \in {"refused", "reported"}
      /\ step' = "refused" => report' = report
      /\ step' = "reported" =>
           /\ ~(account.open > 0)
           /\ report' = [passed |-> RunPassed, authorized |-> FinalReleaseAuthorized,
                         total |-> Total, known |-> account.known]
      /\ UNCHANGED <<plan, merit, arms, trial, done, cell, tally, blemishes, verdicts, models>>
      /\ UNCHANGED <<account, bills, spoiled>>
  BY DEF Aggregate, pairVars, history
<1>3. RunTypeOK'
  BY <1>1, <1>2 DEF RunTypeOK, Steps
<1>4. Both("ready")' = Both("ready") /\ Both("reserved")' = Both("reserved") /\ Both("ready") = 2
  BY <1>1, <1>2 DEF Both, PlaceInv
<1>5. PlaceInv'
  BY <1>1, <1>2, <1>4 DEF PlaceInv
<1>6. BudgetInv'
  BY <1>1, <1>2 DEF BudgetInv, PlanCoversCalls, InPair, WithinCap, MaximumCalls, PairRuns, Judging
<1>7. BillInv'
  <2>1. step' = "reported" => TotalIsTheBill'
    <3>1. SUFFICES ASSUME step' = "reported", report'.total = "known"
                   PROVE  report'.known = bills'
      BY DEF TotalIsTheBill
    <3>2. report'.total = Total /\ report'.known = account.known /\ account.open = 0
      BY <1>1, <1>2, <3>1 DEF RunTypeOK, AccountKind
    <3>3. account.unknown = 0
      BY <1>1, <3>1, <3>2 DEF Total, RunTypeOK, AccountKind
    <3>4. Both("reserved") \in 0..2
      BY DEF Both, Once
    <3>5. QED
      BY <1>1, <1>2, <3>2, <3>3, <3>4 DEF BillInv
  <2>2. QED
    BY <1>1, <1>2, <1>4, <2>1 DEF BillInv
<1>8. WinInv'
  BY <1>2 DEF WinInv, WinnerIsPreferredTwice
<1>9. SpoilInv'
  BY <1>1, <1>2, StillSpoils DEF SpoilInv, WillSpoil
<1>10. ReleasedInv'
  <2>1. CASE step' = "refused"
    BY <1>1, <1>2, <2>1 DEF ReleasedInv
  <2>2. CASE step' = "reported"
    <3>1. report'.authorized <=> FinalReleaseAuthorized
      BY <1>2, <2>2
    <3>2. SUFFICES ASSUME FinalReleaseAuthorized
                   PROVE  /\ \A i \in 1..plan.cells : verdicts[i].authorized
                          /\ ~spoiled /\ plan.authority /\ Count(models) = 1
      BY <1>2, <2>2, <3>1 DEF ReleasedInv
    <3>3. /\ Gates["infrastructure"] /\ Gates["stability"] /\ Gates["generator"] /\ Gates["order"]
          /\ \A i \in 1..plan.cells : verdicts[i].authorized
          /\ plan.authority
      BY <3>2 DEF FinalReleaseAuthorized, Gates
    <3>4. /\ "incomplete" \notin blemishes /\ "unstable" \notin blemishes
          /\ Count(models) = 1 /\ (~Judging \/ "disordered" \notin blemishes)
      BY <3>3 DEF Gates
    <3>5. ~Blemished
      BY <3>4 DEF Blemished
    <3>6. ~PairsSpoil /\ ~WillSpoil
      BY <1>1, <1>2 DEF PairsSpoil, WillSpoil, PlaceInv
    <3>7. QED
      BY <1>1, <3>3, <3>4, <3>5, <3>6 DEF SpoilInv
  <2>3. QED
    BY <1>2, <2>1, <2>2
<1>11. QED
  BY <1>3, <1>5, <1>6, <1>7, <1>8, <1>9, <1>10 DEF RunInv

\* The run keeps its invariant, for any plans and prices.
THEOREM RunInvariance == Spec => []RunInv
<1>1. Init => RunInv
  BY InitKeeps
<1>2. ASSUME RunInv, [Next]_vars PROVE RunInv'
  <2>1. CASE Select
    BY <1>2, <2>1, SelectKeeps
  <2>2. CASE StartCase
    BY <1>2, <2>2, StartCaseKeeps
  <2>3. CASE RunArms
    BY <1>2, <2>3, RunArmsKeeps
  <2>4. CASE ShowPair
    BY <1>2, <2>4, ShowPairKeeps
  <2>5. CASE \E o \in Orders : Reserve(o) \/ FailBefore(o) \/ Reconcile(o) \/ Forfeit(o) \/ Accept(o)
    BY <1>2, <2>5, ReserveKeeps, FailBeforeKeeps, ReconcileKeeps, ForfeitKeeps, AcceptKeeps
  <2>6. CASE Decide
    BY <1>2, <2>6, DecideKeeps
  <2>7. CASE NextPair
    BY <1>2, <2>7, NextPairKeeps
  <2>8. CASE EndCase
    BY <1>2, <2>8, EndCaseKeeps
  <2>9. CASE EndCell
    BY <1>2, <2>9, EndCellKeeps
  <2>10. CASE Aggregate
    BY <1>2, <2>10, AggregateKeeps
  <2>11. CASE UNCHANGED vars
    <3>1. UNCHANGED <<step, plan, merit, arms, trial, done, cell, tally, blemishes, verdicts, report,
                      models, account, bills, spoiled>>
      BY <2>11 DEF vars, pairVars, runVars, history
    <3>2. RunTypeOK' /\ PlaceInv'
      BY <1>2, <3>1 DEF RunInv, RunTypeOK, PlaceInv, Both, Judging
    <3>3. BudgetInv' /\ BillInv'
      BY <1>2, <3>1 DEF RunInv, BudgetInv, BillInv, Judging, WithinCap, MaximumCalls, PairRuns, Cases,
                        Begun, Both, PlanCoversCalls, TotalIsTheBill
    <3>4. WinInv' /\ SpoilInv' /\ ReleasedInv'
      BY <1>2, <3>1 DEF RunInv, WinInv, WinnerIsPreferredTwice, SpoilInv, Blemished, PairsSpoil,
                        PairSpoils, WillSpoil, Judging, ReleasedInv
    <3>5. QED
      BY <3>2, <3>3, <3>4 DEF RunInv
  <2>12. QED
    BY <1>2, <2>1, <2>2, <2>3, <2>4, <2>5, <2>6, <2>7, <2>8, <2>9, <2>10, <2>11 DEF Next
<1>3. QED
  BY <1>1, <1>2, PTL DEF Spec

-----------------------------------------------------------------------------
(* What follows, with or without the comparator's authority *)

\* A run that the authority admits is a run: loading and calibration only restrict it.
THEOREM AdmittedRunIsARun == HoldoutSpec => Spec
<1>1. HoldoutInit => Init
  BY DEF HoldoutInit
<1>2. ASSUME [HoldoutNext]_allVars PROVE [Next]_vars
  <2>1. CASE Prepare
    BY <2>1 DEF Prepare
  <2>2. CASE Admit
    BY <2>2 DEF Admit, Next
  <2>3. CASE Continue
    BY <2>3 DEF Continue
  <2>4. CASE UNCHANGED allVars
    BY <2>4 DEF allVars
  <2>5. QED
    BY <1>2, <2>1, <2>2, <2>3, <2>4 DEF HoldoutNext
<1>3. QED
  BY <1>1, <1>2, PTL DEF HoldoutSpec, Spec

\* A patch that wins by the comparator won in both presentations, for any criteria,
\* requirements and answers.
THEOREM WinnerWonTwice == HoldoutSpec => []WinnerIsPreferredTwice
<1>1. RunInv => WinnerIsPreferredTwice
  BY DEF RunInv, WinInv
<1>2. QED
  BY <1>1, RunInvariance, AdmittedRunIsARun, PTL

\* A total that is reported as known is what all calls have cost, whatever they cost and
\* however they ended.
THEOREM TotalIsPaid == HoldoutSpec => []TotalIsTheBill
<1>1. RunInv => TotalIsTheBill
  <2>1. NoReport.total = "none"
    BY DEF NoReport
  <2>2. QED
    BY <2>1 DEF RunInv, BillInv, TotalIsTheBill
<1>2. QED
  BY <1>1, RunInvariance, AdmittedRunIsARun, PTL

\* A run whose plan was admitted is never refused a comparator call, for any plan and price.
THEOREM NoCallIsRefused == HoldoutSpec => []PlanCoversCalls
<1>1. RunInv => PlanCoversCalls
  BY DEF RunInv, BudgetInv
<1>2. QED
  BY <1>1, RunInvariance, AdmittedRunIsARun, PTL

-----------------------------------------------------------------------------
(* The sign test.  What a recursive definition computes is shown by its least *)
(* counterexample: a set of numbers that is not empty has a least element.    *)

\* A nonempty set of numbers has a least element.
LEMMA Least ==
  ASSUME NEW T, T \subseteq Nat, T # {}
  PROVE  \E n \in T : \A m \in T : n <= m
<1> DEFINE R == OpToRel(<, Nat)
<1>1. IsWellFoundedOn(R, Nat)
  BY NatLessThanWellFounded
<1>2. \A m \in T, n \in T : m < n => <<m, n>> \in R
  BY DEF OpToRel
<1> HIDE DEF R
<1>3. \E n \in T : \A m \in T : ~(<<m, n>> \in R)
  BY <1>1, WFMin
<1>4. PICK n \in T : \A m \in T : ~(<<m, n>> \in R)
  BY <1>3
<1>5. ASSUME NEW m \in T PROVE n <= m
  <2>1. m \in Nat /\ n \in Nat /\ ~(m < n)
    BY <1>2, <1>4
  <2> QED  BY <2>1
<1> QED  BY <1>5

Positive == Nat \ {0}

\* A product of numbers that are not zero is not zero.
LEMMA ProductIsPositive ==
  ASSUME NEW a \in Positive, NEW b \in Positive
  PROVE  a * b \in Positive
<1>1. a \in Int /\ b \in Int /\ a > 0 /\ b > 0
  BY DEF Positive
<1>2. a * b \in Int /\ a * b > 0
  BY <1>1
<1> QED  BY <1>2 DEF Positive

\* A table of factorials, right up to a number.
Filled(h, n) == \A m \in 0..n : h[m] = IF m = 0 THEN 1 ELSE m * h[m - 1]

Table == [Nat -> Positive]

\* There is such a table for every number.
LEMMA TableExists == \A n \in Nat : \E h \in Table : Filled(h, n)
<1> DEFINE Bad == {n \in Nat : ~\E h \in Table : Filled(h, n)}
<1>1. SUFFICES ASSUME Bad # {} PROVE FALSE
  OBVIOUS
<1>2. PICK n \in Bad : \A m \in Bad : n <= m
  BY <1>1, Least
<1>3. n \in Nat /\ ~\E h \in Table : Filled(h, n)
  OBVIOUS
<1>4. CASE n = 0
  <2> DEFINE h == [m \in Nat |-> 1]
  <2>1. h \in Table
    BY DEF Table, Positive
  <2>2. Filled(h, n)
    BY <1>4 DEF Filled
  <2> QED  BY <1>3, <2>1, <2>2
<1>5. CASE n # 0
  <2>1. n - 1 \in Nat /\ n - 1 < n /\ n - 1 \notin Bad
    BY <1>2, <1>3, <1>5
  <2>2. PICK h \in Table : Filled(h, n - 1)
    BY <2>1
  <2> DEFINE g == [m \in Nat |-> IF m = n THEN n * h[n - 1] ELSE h[m]]
  <2>3. g \in Table
    <3>1. n \in Positive /\ h[n - 1] \in Positive
      BY <1>3, <1>5, <2>1 DEF Table, Positive
    <3>2. n * h[n - 1] \in Positive
      BY <3>1, ProductIsPositive
    <3>3. \A m \in Nat : h[m] \in Positive
      BY DEF Table
    <3> QED  BY <3>2, <3>3 DEF Table
  <2>4. ASSUME NEW m \in 0..n PROVE g[m] = IF m = 0 THEN 1 ELSE m * g[m - 1]
    <3>1. CASE m = n
      <4>1. g[m] = n * h[n - 1] /\ g[n - 1] = h[n - 1]
        BY <1>3, <2>1, <3>1
      <4> QED  BY <1>5, <3>1, <4>1
    <3>2. CASE m # n
      <4>1. m \in 0..(n - 1) /\ m \in Nat /\ m - 1 # n /\ (m # 0 => m - 1 \in Nat)
        BY <1>3, <3>2
      <4>2. g[m] = h[m] /\ (m # 0 => g[m - 1] = h[m - 1])
        BY <3>2, <4>1
      <4> HIDE DEF g
      <4> QED  BY <2>2, <4>1, <4>2 DEF Filled
    <3> QED  BY <3>1, <3>2
  <2> HIDE DEF g
  <2> QED  BY <1>3, <2>3, <2>4 DEF Filled
<1> QED  BY <1>4, <1>5

\* Two tables agree as far as both are right.
LEMMA TablesAgree ==
  ASSUME NEW g \in Table, NEW h \in Table, NEW i \in Nat, NEW j \in Nat,
         Filled(g, i), Filled(h, j), NEW n \in Nat, n <= i, n <= j
  PROVE  g[n] = h[n]
<1> DEFINE Bad == {m \in 0..n : g[m] # h[m]}
<1>1. SUFFICES ASSUME Bad # {} PROVE FALSE
  OBVIOUS
<1>2. PICK m \in Bad : \A k \in Bad : m <= k
  <2>1. Bad \subseteq Nat
    OBVIOUS
  <2> HIDE DEF Bad
  <2> QED  BY <1>1, <2>1, Least
<1>3. m \in 0..i /\ m \in 0..j /\ g[m] # h[m] /\ m \in Nat
  OBVIOUS
<1>4. m # 0
  BY <1>3 DEF Filled
<1>5. m - 1 \in 0..n /\ m - 1 < m
  BY <1>4
<1>6. g[m - 1] = h[m - 1]
  BY <1>2, <1>5
<1>7. g[m] = m * g[m - 1] /\ h[m] = m * h[m - 1]
  BY <1>3, <1>4 DEF Filled
<1> QED  BY <1>3, <1>6, <1>7

\* The factorial is defined, and what it is said to be.
LEMMA FactorialIs ==
  /\ factorial \in Table /\ factorial[0] = 1
  /\ \A n \in Positive : factorial[n] = n * factorial[n - 1]
<1> DEFINE Fact(f) == f = [n \in Nat |-> IF n = 0 THEN 1 ELSE n * f[n - 1]]
           Upto(n) == CHOOSE h \in Table : Filled(h, n)
           f == [n \in Nat |-> Upto(n)[n]]
<1>1. \A n \in Nat : Upto(n) \in Table /\ Filled(Upto(n), n)
  BY TableExists
<1> HIDE DEF Upto
<1>2. f \in Table
  BY <1>1 DEF Table
<1>3. ASSUME NEW n \in Nat PROVE f[n] = IF n = 0 THEN 1 ELSE n * f[n - 1]
  <2>1. f[n] = Upto(n)[n] /\ Filled(Upto(n), n) /\ n \in 0..n
    BY <1>1
  <2>2. CASE n = 0
    BY <2>1, <2>2 DEF Filled
  <2>3. CASE n # 0
    <3>1. n - 1 \in Nat /\ n - 1 <= n - 1 /\ n - 1 <= n
      BY <2>3
    <3>2. f[n - 1] = Upto(n - 1)[n - 1]
      BY <3>1
    <3>3. Upto(n)[n - 1] = Upto(n - 1)[n - 1]
      BY <1>1, <3>1, TablesAgree
    <3>4. Upto(n)[n] = n * Upto(n)[n - 1]
      BY <2>1, <2>3 DEF Filled
    <3> QED  BY <2>1, <2>3, <3>2, <3>3, <3>4
  <2> QED  BY <2>2, <2>3
<1>4. Fact(f)
  <2>1. f = [n \in Nat |-> f[n]]
    OBVIOUS
  <2> HIDE DEF f
  <2> QED  BY <1>3, <2>1
<1>5. \E g : Fact(g)
  BY <1>4
<1>6. Fact(factorial)
  BY <1>5 DEF factorial
<1>7. \A n \in Nat : factorial[n] = IF n = 0 THEN 1 ELSE n * factorial[n - 1]
  BY <1>6
<1> DEFINE Bad == {n \in Nat : factorial[n] \notin Positive}
<1>8. Bad = {}
  <2>1. SUFFICES ASSUME Bad # {} PROVE FALSE
    OBVIOUS
  <2>2. PICK n \in Bad : \A m \in Bad : n <= m
    BY <2>1, Least
  <2>3. n # 0
    BY <1>7 DEF Positive
  <2>4. n - 1 \in Nat /\ n - 1 < n /\ n \in Positive
    BY <2>3 DEF Positive
  <2>5. factorial[n - 1] \in Positive
    BY <2>2, <2>4
  <2>6. factorial[n] \in Positive
    BY <1>7, <2>3, <2>4, <2>5, ProductIsPositive
  <2> QED  BY <2>6
<1>9. factorial = [n \in Nat |-> factorial[n]]
  BY <1>6, <1>7
<1> QED  BY <1>7, <1>8, <1>9 DEF Table, Positive

-----------------------------------------------------------------------------
(* The ways in which so many of n cases are won *)

Ways(n, k) == {S \in SUBSET (1..n) : Cardinality(S) = k}

\* There are finitely many, of finite sets.
LEMMA WaysFinite ==
  ASSUME NEW n \in Nat
  PROVE  /\ IsFiniteSet(1..n) /\ Cardinality(1..n) = n /\ IsFiniteSet(SUBSET (1..n))
         /\ \A S \in SUBSET (1..n) : IsFiniteSet(S) /\ Cardinality(S) \in 0..n
         /\ \A k : IsFiniteSet(Ways(n, k)) /\ Cardinality(Ways(n, k)) \in Nat
<1>1. IsFiniteSet(1..n) /\ Cardinality(1..n) = n
  <2>1. Cardinality(1..n) = IF 1 > n THEN 0 ELSE n - 1 + 1
    BY FS_Interval
  <2> QED  BY <2>1, FS_Interval
<1>2. IsFiniteSet(SUBSET (1..n))
  BY <1>1, FS_SUBSET
<1>3. ASSUME NEW S \in SUBSET (1..n)
      PROVE  IsFiniteSet(S) /\ Cardinality(S) \in 0..n
  <2>1. IsFiniteSet(S) /\ Cardinality(S) <= n
    BY <1>1, FS_Subset
  <2>2. Cardinality(S) \in Nat
    BY <2>1, FS_CardinalityType
  <2> QED  BY <2>1, <2>2
<1>4. ASSUME NEW k
      PROVE  IsFiniteSet(Ways(n, k)) /\ Cardinality(Ways(n, k)) \in Nat
  <2>1. Ways(n, k) \in SUBSET (SUBSET (1..n))
    BY DEF Ways
  <2>2. IsFiniteSet(Ways(n, k))
    BY <1>2, <2>1, FS_Subset
  <2> QED  BY <2>2, FS_CardinalityType
<1> QED  BY <1>1, <1>2, <1>3, <1>4

\* None is one way, and all is one.
LEMMA WaysAtTheEnds ==
  ASSUME NEW n \in Nat
  PROVE  Cardinality(Ways(n, 0)) = 1 /\ Cardinality(Ways(n, n)) = 1
<1>1. Ways(n, 0) = {{}}
  <2>1. ASSUME NEW S \in SUBSET (1..n) PROVE Cardinality(S) = 0 <=> S = {}
    BY WaysFinite, FS_EmptySet
  <2> QED  BY <2>1 DEF Ways
<1>2. Ways(n, n) = {1..n}
  <2>1. ASSUME NEW S \in SUBSET (1..n) PROVE Cardinality(S) = n <=> S = 1..n
    <3>1. IsFiniteSet(1..n) /\ Cardinality(1..n) = n
      BY WaysFinite
    <3>2. Cardinality(1..n) = Cardinality(S) => S = 1..n
      BY <3>1, FS_Subset
    <3> QED  BY <3>1, <3>2
  <2>2. 1..n \in SUBSET (1..n)
    OBVIOUS
  <2> QED  BY <2>1, <2>2 DEF Ways
<1> QED  BY <1>1, <1>2, FS_Singleton

\* The last case is lost, or won.
LEMMA Pascal ==
  ASSUME NEW n \in Positive, NEW k \in 1..n
  PROVE  Cardinality(Ways(n, k)) = Cardinality(Ways(n - 1, k)) + Cardinality(Ways(n - 1, k - 1))
<1> DEFINE Lost == Ways(n - 1, k)
           Rest == Ways(n - 1, k - 1)
           Won  == {S \in Ways(n, k) : n \in S}
           f == [S \in Rest |-> S \cup {n}]
<1>1. n \in Nat /\ n - 1 \in Nat /\ k \in Nat /\ 1..n = (1..(n - 1)) \cup {n} /\ n \notin 1..(n - 1)
  BY DEF Positive
<1>2. \A S \in SUBSET (1..n) : IsFiniteSet(S) /\ Cardinality(S) \in Nat
  <2>1. \A S \in SUBSET (1..n) : IsFiniteSet(S) /\ Cardinality(S) \in 0..n
    BY <1>1, WaysFinite
  <2>2. 0..n \subseteq Nat
    OBVIOUS
  <2> QED  BY <2>1, <2>2
<1>3. ASSUME NEW S \in Rest
      PROVE  S \cup {n} \in Won /\ n \notin S
  <2>1. S \in SUBSET (1..(n - 1)) /\ Cardinality(S) = k - 1
    BY DEF Ways
  <2>2. n \notin S /\ S \cup {n} \in SUBSET (1..n) /\ IsFiniteSet(S)
    BY <1>1, <1>2, <2>1
  <2>3. Cardinality(S \cup {n}) = Cardinality(S) + 1
    BY <2>2, FS_AddElement
  <2>4. Cardinality(S \cup {n}) = k
    BY <1>1, <2>1, <2>3
  <2> QED  BY <2>2, <2>4 DEF Ways
<1>4. ASSUME NEW S \in Won
      PROVE  S \ {n} \in Rest /\ (S \ {n}) \cup {n} = S
  <2>1. S \in SUBSET (1..n) /\ Cardinality(S) = k /\ n \in S
    BY DEF Ways
  <2>2. Cardinality(S \ {n}) = Cardinality(S) - 1
    BY <1>2, <2>1, FS_RemoveElement
  <2>3. S \ {n} \in SUBSET (1..(n - 1))
    BY <1>1, <2>1
  <2> QED  BY <2>1, <2>2, <2>3 DEF Ways
<1>5. Cardinality(Won) = Cardinality(Rest)
  <2> HIDE DEF Won, Rest
  <2>1. f \in [Rest -> Won]
    BY <1>3
  <2>2. ASSUME NEW S \in Rest, NEW T \in Rest, f[S] = f[T] PROVE S = T
    <3>1. S \cup {n} = T \cup {n} /\ n \notin S /\ n \notin T
      BY <1>3, <2>2
    <3> QED  BY <3>1
  <2>3. ASSUME NEW T \in Won PROVE \E S \in Rest : f[S] = T
    <3>1. T \ {n} \in Rest /\ f[T \ {n}] = T
      BY <1>4
    <3> QED  BY <3>1
  <2> HIDE DEF f
  <2>4. f \in Bijection(Rest, Won)
    BY <2>1, <2>2, <2>3 DEF Bijection, Injection, Surjection, IsInjective
  <2>5. ExistsBijection(Rest, Won)
    BY <2>4 DEF ExistsBijection
  <2>6. IsFiniteSet(Rest)
    BY <1>1, WaysFinite DEF Rest
  <2> QED  BY <2>5, <2>6, FS_Bijection
<1>6. Ways(n, k) = Lost \cup Won /\ Lost \cap Won = {}
  <2>1. ASSUME NEW S \in Lost PROVE S \in Ways(n, k) /\ S \notin Won
    BY <1>1 DEF Ways
  <2>2. ASSUME NEW S \in Ways(n, k), S \notin Won PROVE S \in Lost
    BY <1>1, <2>2 DEF Ways
  <2>3. Won \subseteq Ways(n, k)
    OBVIOUS
  <2> HIDE DEF Won, Lost
  <2> QED  BY <2>1, <2>2, <2>3
<1>7. IsFiniteSet(Lost) /\ IsFiniteSet(Won) /\ IsFiniteSet(Rest)
  <2>1. IsFiniteSet(Ways(n, k)) /\ Won \in SUBSET Ways(n, k)
    BY <1>1, WaysFinite
  <2>2. IsFiniteSet(Won)
    BY <2>1, FS_Subset
  <2> QED  BY <1>1, <2>2, WaysFinite
<1>8. Cardinality(Lost) \in Nat /\ Cardinality(Rest) \in Nat
  BY <1>1, WaysFinite
<1> HIDE DEF Lost, Rest, Won
<1>9. Cardinality(Lost \cup Won) = Cardinality(Lost) + Cardinality(Won) - Cardinality(Lost \cap Won)
  BY <1>7, FS_Union
<1>10. Cardinality(Lost \cap Won) = 0
  BY <1>6, FS_EmptySet
<1>11. Cardinality(Ways(n, k)) = Cardinality(Lost) + Cardinality(Rest)
  BY <1>5, <1>6, <1>8, <1>9, <1>10
<1> QED  BY <1>11 DEF Lost, Rest

\* Two ways of writing the same product.
LEMMA Products ==
  ASSUME NEW a \in Nat, NEW b \in Nat, NEW k \in Nat, NEW m \in Nat, NEW p \in Nat, NEW q \in Nat,
         NEW F \in Nat, a * ((k * p) * q) = F, b * (p * (m * q)) = F
  PROVE  (a + b) * ((k * p) * (m * q)) = (k + m) * F
<1>1. (a + b) * ((k * p) * (m * q)) = m * (a * ((k * p) * q)) + k * (b * (p * (m * q)))
  OBVIOUS
<1>2. m * (a * ((k * p) * q)) = m * F /\ k * (b * (p * (m * q))) = k * F
  OBVIOUS
<1>3. m * F + k * F = (k + m) * F
  OBVIOUS
<1> QED  BY <1>1, <1>2, <1>3

\* With an order of the won cases and one of the lost, a way is an order of all cases.
LEMMA WaysAndOrders ==
  \A n \in Nat : \A k \in 0..n :
    Cardinality(Ways(n, k)) * (factorial[k] * factorial[n - k]) = factorial[n]
<1> DEFINE Good(n, k) == Cardinality(Ways(n, k)) * (factorial[k] * factorial[n - k]) = factorial[n]
           Bad == {n \in Nat : ~\A k \in 0..n : Good(n, k)}
<1>0. \A n \in Nat : factorial[n] \in Nat
  BY FactorialIs DEF Table, Positive
<1>1. SUFFICES ASSUME Bad # {} PROVE FALSE
  OBVIOUS
<1>2. PICK n \in Bad : \A m \in Bad : n <= m
  BY <1>1, Least
<1>3. n \in Nat
  OBVIOUS
<1>4. ASSUME NEW k \in 0..n PROVE Good(n, k)
  <2>1. CASE k = 0
    <3>1. Cardinality(Ways(n, k)) = 1 /\ factorial[k] = 1 /\ n - k = n /\ factorial[n] \in Nat
      BY <1>0, <1>3, <2>1, WaysAtTheEnds, FactorialIs
    <3> QED  BY <3>1
  <2>2. CASE k = n
    <3>1. Cardinality(Ways(n, k)) = 1 /\ factorial[n - k] = 1 /\ factorial[n] \in Nat
      BY <1>0, <1>3, <2>2, WaysAtTheEnds, FactorialIs
    <3> QED  BY <2>2, <3>1
  <2>3. CASE k # 0 /\ k # n
    <3> DEFINE a == Cardinality(Ways(n - 1, k))
               b == Cardinality(Ways(n - 1, k - 1))
               m == n - k
               p == factorial[k - 1]
               q == factorial[m - 1]
               F == factorial[n - 1]
    <3>1. /\ k \in Positive /\ m \in Positive /\ n \in Positive /\ k \in 1..n
          /\ n - 1 \in Nat /\ k - 1 \in Nat /\ m - 1 \in Nat /\ n - 1 < n
          /\ k \in 0..(n - 1) /\ k - 1 \in 0..(n - 1)
          /\ n - 1 - k = m - 1 /\ n - 1 - (k - 1) = m /\ k + m = n /\ k \in Nat /\ m \in Nat
      BY <1>3, <2>3 DEF Positive
    <3>2. Good(n - 1, k) /\ Good(n - 1, k - 1)
      BY <1>2, <3>1
    <3>3. Cardinality(Ways(n, k)) = a + b
      BY <3>1, Pascal
    <3>4. factorial[k] = k * p /\ factorial[m] = m * q /\ factorial[n] = n * F
      BY <3>1, FactorialIs
    <3>5. a \in Nat /\ b \in Nat /\ p \in Nat /\ q \in Nat /\ F \in Nat
      BY <1>0, <3>1, WaysFinite
    <3>6. a * ((k * p) * q) = F /\ b * (p * (m * q)) = F
      BY <3>1, <3>2, <3>4
    <3> HIDE DEF a, b, m, p, q, F
    <3>7. (a + b) * ((k * p) * (m * q)) = (k + m) * F
      BY <3>1, <3>5, <3>6, Products
    <3> QED  BY <3>1, <3>3, <3>4, <3>7 DEF m
  <2> QED  BY <2>1, <2>2, <2>3
<1> QED  BY <1>4

\* What divides without rest.
LEMMA DividesExactly ==
  ASSUME NEW w \in Nat, NEW d \in Positive
  PROVE  (w * d) \div d = w
<1>1. d \in Nat /\ d > 0
  BY DEF Positive
<1> QED  BY <1>1

\* The library's binomial coefficient counts the ways.
LEMMA ChooseIsWays ==
  ASSUME NEW n \in Nat, NEW k \in 0..n
  PROVE  choose(n, k) = Cardinality(Ways(n, k))
<1> DEFINE d == factorial[k] * factorial[n - k]
<1>1. d \in Positive
  <2>1. factorial[k] \in Positive /\ factorial[n - k] \in Positive
    BY FactorialIs DEF Table
  <2> QED  BY <2>1, ProductIsPositive
<1>2. factorial[n] = Cardinality(Ways(n, k)) * d
  BY WaysAndOrders
<1>3. Cardinality(Ways(n, k)) \in Nat
  BY WaysFinite
<1>4. choose(n, k) = factorial[n] \div d
  BY DEF choose
<1> HIDE DEF d
<1> QED  BY <1>1, <1>2, <1>3, <1>4, DividesExactly

-----------------------------------------------------------------------------
(* The sum of the sign test *)

One(s) == CHOOSE x \in s : TRUE

AddsUp(g, n, W) ==
  g = [s \in SUBSET W |-> IF s = {} THEN 0 ELSE choose(n, One(s)) + g[s \ {One(s)}]]

\* The ways of winning some number of cases of a set.
WaysOf(n, s) == {S \in SUBSET (1..n) : Cardinality(S) \in s}

\* Of the numbers of a set, one is won, or another.
LEMMA WaysSplit ==
  ASSUME NEW n \in Nat, NEW s, NEW x \in s
  PROVE  /\ Cardinality(WaysOf(n, s)) = Cardinality(Ways(n, x)) + Cardinality(WaysOf(n, s \ {x}))
         /\ Cardinality(WaysOf(n, s \ {x})) \in Nat
<1> DEFINE A == Ways(n, x)
           B == WaysOf(n, s \ {x})
<1>1. WaysOf(n, s) = A \cup B /\ A \cap B = {}
  BY DEF Ways, WaysOf
<1>2. IsFiniteSet(A) /\ Cardinality(A) \in Nat
  BY WaysFinite
<1>3. IsFiniteSet(B) /\ Cardinality(B) \in Nat
  <2>1. B \in SUBSET (SUBSET (1..n)) /\ IsFiniteSet(SUBSET (1..n))
    BY WaysFinite DEF WaysOf
  <2>2. IsFiniteSet(B)
    BY <2>1, FS_Subset
  <2> QED  BY <2>2, FS_CardinalityType
<1> HIDE DEF A, B
<1>4. Cardinality(A \cup B) = Cardinality(A) + Cardinality(B) - Cardinality(A \cap B)
  BY <1>2, <1>3, FS_Union
<1>5. Cardinality(A \cap B) = 0
  BY <1>1, FS_EmptySet
<1>6. Cardinality(WaysOf(n, s)) = Cardinality(A) + Cardinality(B)
  BY <1>1, <1>2, <1>3, <1>4, <1>5
<1> QED  BY <1>3, <1>6 DEF A, B

\* None of no numbers.
LEMMA WaysOfNone == \A n \in Nat : Cardinality(WaysOf(n, {})) = 0
  BY FS_EmptySet DEF WaysOf

\* A function that adds up the coefficients is there, and counts the ways.
LEMMA AddsUpIs ==
  ASSUME NEW n \in Nat, NEW W \in SUBSET (0..n)
  PROVE  /\ \E g : AddsUp(g, n, W)
         /\ \A g : AddsUp(g, n, W) => g[W] = Cardinality(WaysOf(n, W))
<1> DEFINE g == [s \in SUBSET W |-> Cardinality(WaysOf(n, s))]
<1>1. \A s : s # {} => One(s) \in s
  BY DEF One
<1>2. ASSUME NEW s \in SUBSET W, s # {}
      PROVE  /\ choose(n, One(s)) = Cardinality(Ways(n, One(s))) /\ s \ {One(s)} \in SUBSET W
             /\ One(s) \in s
  <2>1. One(s) \in 0..n
    BY <1>1, <1>2
  <2> QED  BY <1>1, <1>2, <2>1, ChooseIsWays
<1>3. ASSUME NEW s \in SUBSET W
      PROVE  g[s] = IF s = {} THEN 0 ELSE choose(n, One(s)) + g[s \ {One(s)}]
  <2>1. CASE s = {}
    BY <2>1, WaysOfNone
  <2>2. CASE s # {}
    <3>1. g[s \ {One(s)}] = Cardinality(WaysOf(n, s \ {One(s)}))
      BY <1>2, <2>2
    <3>2. g[s] = Cardinality(WaysOf(n, s))
      OBVIOUS
    <3> DEFINE x == One(s)
    <3>3. x \in s /\ choose(n, x) = Cardinality(Ways(n, x))
      BY <1>2, <2>2
    <3> HIDE DEF g, x
    <3>4. Cardinality(WaysOf(n, s)) = Cardinality(Ways(n, x)) + Cardinality(WaysOf(n, s \ {x}))
      BY <3>3, WaysSplit
    <3>5. g[s] = choose(n, x) + g[s \ {x}]
      BY <3>1, <3>2, <3>3, <3>4 DEF x
    <3> QED  BY <2>2, <3>5 DEF x
  <2> QED  BY <2>1, <2>2
<1>4. AddsUp(g, n, W)
  <2>1. g = [s \in SUBSET W |-> g[s]]
    OBVIOUS
  <2> HIDE DEF g
  <2> QED  BY <1>3, <2>1 DEF AddsUp
<1>5. ASSUME NEW h, AddsUp(h, n, W)
      PROVE  h[W] = Cardinality(WaysOf(n, W))
  <2> DEFINE Bad == {i \in Nat : \E s \in SUBSET W : Cardinality(s) = i /\ h[s] # g[s]}
  <2>1. \A s \in SUBSET W : h[s] = IF s = {} THEN 0 ELSE choose(n, One(s)) + h[s \ {One(s)}]
    BY <1>5 DEF AddsUp
  <2>2. \A s \in SUBSET W : IsFiniteSet(s) /\ Cardinality(s) \in Nat
    <3>1. IsFiniteSet(0..n)
      BY FS_Interval
    <3> QED  BY <3>1, FS_Subset, FS_CardinalityType
  <2>3. Bad = {}
    <3>1. SUFFICES ASSUME Bad # {} PROVE FALSE
      OBVIOUS
    <3>2. PICK i \in Bad : \A j \in Bad : i <= j
      <4>1. Bad \subseteq Nat
        OBVIOUS
      <4> HIDE DEF Bad
      <4> QED  BY <3>1, <4>1, Least
    <3>3. PICK s \in SUBSET W : Cardinality(s) = i /\ h[s] # g[s]
      OBVIOUS
    <3>4. s # {}
      <4>1. s = {} => h[s] = 0 /\ g[s] = 0
        BY <2>1, <1>3
      <4> HIDE DEF g
      <4> QED  BY <3>3, <4>1
    <3> DEFINE t == s \ {One(s)}
    <3>5. t \in SUBSET W /\ One(s) \in s
      BY <1>2, <3>4
    <3>6. Cardinality(t) = i - 1 /\ i \in Nat /\ i - 1 < i
      BY <2>2, <3>3, <3>5, FS_RemoveElement
    <3>7. Cardinality(t) \in Nat
      BY <2>2, <3>5
    <3> HIDE DEF t, g
    <3>8. h[t] = g[t]
      BY <3>2, <3>5, <3>6, <3>7
    <3>9. h[s] = choose(n, One(s)) + h[t] /\ g[s] = choose(n, One(s)) + g[t]
      BY <1>3, <2>1, <3>4 DEF t
    <3> QED  BY <3>3, <3>8, <3>9
  <2>4. Cardinality(W) \in Nat /\ W \in SUBSET W
    BY <2>2
  <2> HIDE DEF g
  <2>5. h[W] = g[W]
    BY <2>3, <2>4
  <2> QED  BY <2>5 DEF g
<1> QED  BY <1>4, <1>5

\* The test of the code is a count of what a fair coin does as well.
LEMMA SignTestCounts ==
  ASSUME NEW wins \in Nat, NEW losses \in Nat
  PROVE  SignTest(wins, losses)
           = Cardinality({S \in SUBSET (1..(wins + losses)) : Cardinality(S) >= wins})
<1> DEFINE n == wins + losses
           W == wins..n
           g == CHOOSE g : AddsUp(g, n, W)
<1>1. n \in Nat /\ W \in SUBSET (0..n)
  OBVIOUS
<1>2. SignTest(wins, losses) = g[W]
  BY DEF SignTest, MapThenSumSet, MapThenFoldSet, AddsUp, One
<1>3. WaysOf(n, W) = {S \in SUBSET (1..n) : Cardinality(S) >= wins}
  <2>1. \A S \in SUBSET (1..n) : Cardinality(S) \in 0..n
    BY <1>1, WaysFinite
  <2>2. \A S \in SUBSET (1..n) : Cardinality(S) \in W <=> Cardinality(S) >= wins
    BY <2>1
  <2> QED  BY <2>2 DEF WaysOf
<1> HIDE DEF n, W
<1>4. AddsUp(g, n, W)
  BY <1>1, AddsUpIs
<1> HIDE DEF g
<1>5. g[W] = Cardinality(WaysOf(n, W))
  BY <1>1, <1>4, AddsUpIs
<1> QED  BY <1>2, <1>3, <1>5 DEF n

\* A cell that is authorised is fairly won.
LEMMA AuthorizedIsFair ==
  ASSUME tally \in [Merits -> Nat], HoldoutAuthorized
  PROVE  FairlyWon
<1> DEFINE wins == tally["treatment"]
           losses == tally["control"]
<1>1. wins \in Nat /\ losses \in Nat
  BY DEF Merits, Roles
<1>2. wins + losses >= MinCases /\ 20 * SignTest(wins, losses) <= 2 ^ (wins + losses)
  BY DEF HoldoutAuthorized
<1> HIDE DEF wins, losses
<1>3. SignTest(wins, losses)
        = Cardinality({S \in SUBSET (1..(wins + losses)) : Cardinality(S) >= wins})
  BY <1>1, SignTestCounts
<1> QED  BY <1>2, <1>3 DEF FairlyWon, Count, wins, losses

-----------------------------------------------------------------------------
(* A release is won *)

\* A verdict on a cell that is authorised is fair.
VerdictKind == {v \in [authorized : BOOLEAN, fair : BOOLEAN] : v.authorized => v.fair}

\* Every cell that is over has its verdict.
VerdictsInv ==
  /\ verdicts \in Seq(VerdictKind)
  /\ step = "selecting" => verdicts = <<>> /\ cell = 1
  /\ step \in {"case", "pair", "cell"} \cup InPair => Len(verdicts) = cell - 1 /\ cell <= plan.cells
  /\ step \in {"report", "reported"} => Len(verdicts) = plan.cells

\* Within a cell the verdicts of the others stay as they are.
LEMMA VerdictsStay ==
  ASSUME VerdictsInv, UNCHANGED <<verdicts, cell, plan>>,
         \/ step \in {"case", "pair", "cell"} \cup InPair /\ step' \in {"case", "pair", "cell"} \cup InPair
         \/ step = "report" /\ step' \in {"reported", "refused"}
         \/ step' = step
  PROVE  VerdictsInv'
  BY DEF VerdictsInv, InPair

\* At the end of a cell its verdict is added.
LEMMA EndCellJudges ==
  ASSUME RunTypeOK, VerdictsInv, EndCell
  PROVE  VerdictsInv'
<1> DEFINE v == [authorized |-> HoldoutAuthorized, fair |-> FairlyWon]
<1>1. /\ step = "cell" /\ verdicts' = Append(verdicts, v) /\ plan' = plan
      /\ \/ cell < plan.cells /\ cell' = cell + 1 /\ step' = "case"
         \/ ~(cell < plan.cells) /\ cell' = cell /\ step' = "report"
  BY DEF EndCell
<1>2. v \in VerdictKind
  <2>1. HoldoutAuthorized \in BOOLEAN /\ FairlyWon \in BOOLEAN
    BY DEF HoldoutAuthorized, FairlyWon
  <2>2. HoldoutAuthorized => FairlyWon
    BY AuthorizedIsFair DEF RunTypeOK
  <2> QED  BY <2>1, <2>2 DEF VerdictKind
<1> HIDE DEF v
<1>3. /\ verdicts \in Seq(VerdictKind) /\ Len(verdicts) = cell - 1 /\ cell <= plan.cells
      /\ cell \in Nat \ {0} /\ plan.cells \in Nat \ {0}
  BY <1>1, PlanParts DEF VerdictsInv, RunTypeOK
<1>4. verdicts' \in Seq(VerdictKind) /\ Len(verdicts') = cell
  BY <1>1, <1>2, <1>3
<1> QED  BY <1>1, <1>3, <1>4 DEF VerdictsInv, InPair

\* Every step keeps them.
LEMMA VerdictsKeep ==
  ASSUME RunTypeOK, VerdictsInv, [Next]_vars
  PROVE  VerdictsInv'
<1>1. CASE Select
  <2>1. /\ step = "selecting" /\ step' \in {"case", "refused"} /\ plan' \in Plans
        /\ UNCHANGED <<cell, verdicts>>
    BY <1>1 DEF Select
  <2>2. plan'.cells \in Nat \ {0}
    BY <2>1, PlansAssumption DEF PlanType
  <2> QED  BY <2>1, <2>2 DEF VerdictsInv, InPair
<1>2. CASE StartCase \/ RunArms \/ ShowPair \/ NextPair
  BY <1>2, VerdictsStay DEF StartCase, RunArms, ShowPair, NextPair, runVars, InPair
<1>3. CASE \E o \in Orders : Reserve(o) \/ FailBefore(o) \/ Reconcile(o) \/ Forfeit(o) \/ Accept(o)
  BY <1>3, VerdictsStay DEF Reserve, FailBefore, Reconcile, Forfeit, Accept, At, runVars, InPair
<1>4. CASE Decide
  BY <1>4, VerdictsStay DEF Decide, EndPair, runVars, InPair
<1>5. CASE EndCase
  BY <1>5, VerdictsStay DEF EndCase, InPair
<1>6. CASE Aggregate
  BY <1>6, VerdictsStay DEF Aggregate, InPair
<1>7. CASE UNCHANGED vars
  BY <1>7, VerdictsStay DEF vars, runVars
<1> QED  BY <1>1, <1>2, <1>3, <1>4, <1>5, <1>6, <1>7, EndCellJudges DEF Next

\* What is reported as authorised is fairly won in every cell.
LEMMA ReleaseIsWon == ASSUME RunInv, VerdictsInv PROVE AuthorizedIsWon
<1>1. SUFFICES ASSUME report.authorized PROVE AuthorizedIsWon
  BY DEF AuthorizedIsWon
<1>2. /\ step = "reported" /\ \A i \in 1..plan.cells : verdicts[i].authorized
      /\ ~spoiled /\ plan.authority /\ Count(models) = 1
  BY <1>1 DEF RunInv, ReleasedInv
<1>3. verdicts \in Seq(VerdictKind) /\ Len(verdicts) = plan.cells
  BY <1>2 DEF VerdictsInv
<1>4. \A i \in 1..plan.cells : verdicts[i] \in VerdictKind
  BY <1>3
<1>5. \A i \in 1..plan.cells : verdicts[i].fair
  BY <1>2, <1>4 DEF VerdictKind
<1> QED  BY <1>2, <1>5 DEF AuthorizedIsWon

\* A release is authorised only if every cell is won by the count of coin tosses, and
\* nothing in the run went wrong, for any number of cells and cases and any bound.
THEOREM ReleasesAreWon == HoldoutSpec => []AuthorizedIsWon
<1>1. Init => VerdictsInv
  <2>1. <<>> \in Seq(VerdictKind)
    OBVIOUS
  <2> QED  BY <2>1 DEF Init, VerdictsInv, InPair
<1>2. RunInv /\ VerdictsInv /\ [Next]_vars => VerdictsInv'
  BY VerdictsKeep DEF RunInv
<1>3. RunInv /\ VerdictsInv => AuthorizedIsWon
  BY ReleaseIsWon
<1>4. Spec => []AuthorizedIsWon
  BY <1>1, <1>2, <1>3, RunInvariance, PTL DEF Spec
<1> QED  BY <1>4, AdmittedRunIsARun, PTL

-----------------------------------------------------------------------------
(* What a comparator that passes has earned *)

\* The outcome names a patch that the answer prefers.
LEMMA PreferenceIsOutcome ==
  ASSUME NEW a \in Answers, NEW o \in Orders, NEW r \in Roles, Prefers(a, o, r)
  PROVE  ValidateResponse(a, o).outcome = Canon(r)
<1> DEFINE c == Canonical(a, o)
           e == Eligibility(c.checks)
           mine == ShownAs(r, o)
           other == CHOOSE s \in Sides : s # mine
<1>1. ValidateResponse(a, o).outcome = DeriveOutcome(e, c.criteria)
  BY DEF ValidateResponse
<1>2. PICK t \in Roles : t # r
  BY DEF Roles
<1>3. /\ SwapWinner(Canon(r)) = Canon(t) /\ SwapWinner(Canon(t)) = Canon(r)
      /\ other = ShownAs(t, o) /\ Sides = {Canon(r), Canon(t)} /\ Canon(r) # Canon(t)
  <2>1. mine \in Sides /\ ShownAs(t, o) \in Sides /\ mine # ShownAs(t, o)
    BY <1>2 DEF ShownAs, Sides, Roles
  <2>2. other \in Sides /\ other # mine
    BY <2>1
  <2>3. other = ShownAs(t, o)
    BY <2>1, <2>2 DEF Sides
  <2>4. /\ SwapWinner(Canon(r)) = Canon(t) /\ SwapWinner(Canon(t)) = Canon(r)
        /\ Sides = {Canon(r), Canon(t)} /\ Canon(r) # Canon(t)
    BY <1>2 DEF SwapWinner, Canon, Roles, Sides
  <2>5. QED
    BY <2>3, <2>4
<1>4. a.checks \in [Sides -> [Requirements -> Statuses]] /\ mine \in Sides /\ other \in Sides
  BY AnswerIs, <1>3 DEF ShownAs, Sides
<1>5. /\ e[Canon(r)] = DeriveEligibility(a.checks[mine])
      /\ e[Canon(t)] = DeriveEligibility(a.checks[other])
  <2>1. \A s \in Sides : e[s] = DeriveEligibility(c.checks[s])
    BY DEF Eligibility
  <2>2. \A p \in Roles : c.checks[Canon(p)] = a.checks[ShownAs(p, o)]
    BY CanonicalIs
  <2>3. Canon(r) \in Sides /\ Canon(t) \in Sides
    BY <1>3
  <2>4. QED
    BY <1>3, <2>1, <2>2, <2>3
<1> HIDE DEF e
<1>6. /\ \A q \in Requirements : a.checks[mine][q] = "satisfied"
      /\ \/ \E q \in Requirements : a.checks[other][q] = "violated"
         \/ /\ \A q \in Requirements : a.checks[other][q] = "satisfied"
            /\ \A k \in Criteria : a.criteria[k] # other
            /\ \E k \in Criteria : a.criteria[k] = mine
  BY DEF Prefers
<1>7. e[Canon(r)] = "eligible"
  <2>1. a.checks[mine] \in [Requirements -> Statuses]
    BY <1>4
  <2>2. QED
    BY <1>5, <1>6, <2>1, EligibilityIs
<1>8. CASE \E q \in Requirements : a.checks[other][q] = "violated"
  <2>1. e[Canon(t)] = "ineligible"
    BY <1>5, <1>8 DEF DeriveEligibility
  <2>2. QED
    BY <1>1, <1>2, <1>3, <1>7, <2>1, OutcomeOf
<1>9. CASE /\ \A q \in Requirements : a.checks[other][q] = "satisfied"
           /\ \A k \in Criteria : a.criteria[k] # other
           /\ \E k \in Criteria : a.criteria[k] = mine
  <2>1. e[Canon(t)] = "eligible"
    <3>1. a.checks[other] \in [Requirements -> Statuses]
      BY <1>4
    <3>2. QED
      BY <1>5, <1>9, <3>1, EligibilityIs
  <2>2. a.criteria # NoCriteria
    <3>1. BothQualify(a.checks)
      <4>1. \A s \in Sides : s = mine \/ s = other
        BY <1>3, <1>4 DEF Sides
      <4>2. QED
        BY <1>5, <1>7, <2>1, <4>1 DEF BothQualify
    <3>2. a.criteria \in [Criteria -> Winners] /\ \E k \in Criteria : TRUE
      BY <1>9, <3>1, AnswerIs
    <3>3. DOMAIN a.criteria = Criteria /\ DOMAIN NoCriteria = {}
      BY <3>2 DEF NoCriteria
    <3>4. QED
      BY <3>2, <3>3
  <2>3. /\ \A k \in Criteria : c.criteria[k] # Canon(t)
        /\ \E k \in Criteria : c.criteria[k] = Canon(r)
    <3>1. \A k \in Criteria, p \in Roles : c.criteria[k] = Canon(p) <=> a.criteria[k] = ShownAs(p, o)
      BY <2>2, CanonicalIs
    <3>2. QED
      BY <1>3, <1>9, <3>1
  <2>4. QED
    BY <1>1, <1>2, <1>3, <1>7, <2>1, <2>3, OutcomeOf
<1>10. QED
  BY <1>6, <1>8, <1>9

\* In the labels of a presentation, an answer is an answer.
LEMMA CanonicalAnswers ==
  ASSUME NEW a \in Answers, NEW o \in Orders
  PROVE  Canonical(a, o) \in Answers
<1>1. /\ a.checks \in [Sides -> [Requirements -> Statuses]]
      /\ \/ BothQualify(a.checks) /\ a.criteria \in [Criteria -> Winners]
         \/ ~BothQualify(a.checks) /\ a.criteria = NoCriteria
  BY DEF Answers
<1>2. CASE o = "AB"
  BY <1>2 DEF Canonical
<1>3. CASE o = "BA"
  <2> DEFINE checks == [s \in Sides |-> a.checks[SwapWinner(s)]]
             swapped == [c \in Criteria |-> SwapWinner(a.criteria[c])]
  <2>1. Canonical(a, o) = [checks |-> checks,
                           criteria |-> IF a.criteria = NoCriteria THEN NoCriteria ELSE swapped]
    BY <1>3 DEF Canonical
  <2>2. \A s \in Sides : SwapWinner(s) \in Sides /\ SwapWinner(SwapWinner(s)) = s
    BY DEF Sides, SwapWinner
  <2>3. checks \in [Sides -> [Requirements -> Statuses]]
    BY <1>1, <2>2
  <2>4. BothQualify(checks) <=> BothQualify(a.checks)
    <3>1. \A s \in Sides : checks[s] = a.checks[SwapWinner(s)] /\ a.checks[s] = checks[SwapWinner(s)]
      BY <2>2
    <3>2. QED
      BY <2>2, <3>1 DEF BothQualify
  <2>5. a.criteria \in [Criteria -> Winners] => swapped \in [Criteria -> Winners]
    BY DEF SwapWinner, Winners
  <2>6. CASE BothQualify(a.checks) /\ a.criteria \in [Criteria -> Winners] /\ a.criteria # NoCriteria
    <3>1. Canonical(a, o) = [checks |-> checks, criteria |-> swapped]
      BY <2>1, <2>6
    <3> HIDE DEF checks, swapped
    <3>2. QED
      BY <2>3, <2>4, <2>5, <2>6, <3>1 DEF Answers
  <2>7. CASE BothQualify(a.checks) /\ a.criteria \in [Criteria -> Winners] /\ a.criteria = NoCriteria
    <3>1. Canonical(a, o) = [checks |-> checks, criteria |-> a.criteria]
      BY <2>1, <2>7
    <3> HIDE DEF checks, swapped
    <3>2. QED
      BY <2>3, <2>4, <2>7, <3>1 DEF Answers
  <2>8. CASE ~BothQualify(a.checks) /\ a.criteria = NoCriteria
    <3>1. Canonical(a, o) = [checks |-> checks, criteria |-> NoCriteria]
      BY <2>1, <2>8
    <3> HIDE DEF checks, swapped
    <3>2. QED
      BY <2>3, <2>4, <2>8, <3>1 DEF Answers
  <2>9. QED
    BY <1>1, <2>6, <2>7, <2>8
<1>4. QED
  BY <1>2, <1>3 DEF Orders

\* What a trial's decision takes from its answer.
LEMMA TrialSays ==
  ASSUME NEW corpus, NEW answers, NEW p, NEW r, NEW o, NEW d,
         d = TrialDecision(corpus, answers, p, r, o)
  PROVE  /\ d.checks = Canonical(answers[<<p, r, o>>], o).checks
         /\ d.criteria = Canonical(answers[<<p, r, o>>], o).criteria
         /\ d.outcome = ValidateResponse(answers[<<p, r, o>>], o).outcome
  BY DEF TrialDecision, ValidateResponse

\* Both presentations agree where a repetition is not inconclusive, in every repetition as
\* in the first where the pair is not.
LEMMA ConclusiveIs ==
  ASSUME NEW corpus, NEW answers, NEW p \in DOMAIN corpus, NEW r \in 1..Repetitions(corpus[p]),
         PerRepetition(corpus, answers)[p][r] # Inconclusive
  PROVE  /\ PerRepetition(corpus, answers)[p][r] = TrialDecision(corpus, answers, p, r, "AB")
         /\ PerRepetition(corpus, answers)[p][r] = TrialDecision(corpus, answers, p, r, "BA")
<1>1. PerRepetition(corpus, answers)[p][r] =
        IF TrialDecision(corpus, answers, p, r, "AB") = TrialDecision(corpus, answers, p, r, "BA")
          THEN TrialDecision(corpus, answers, p, r, "AB") ELSE Inconclusive
  BY DEF PerRepetition
<1>2. QED
  BY <1>1

\* A comparator that passes the gates says the same in both orders of every pair, and of a
\* hard pair what the gold says, for any corpus, contract and acceptance.
LEMMA PassedIsEarned ==
  ASSUME NEW corpus, NEW answers, \A k \in TrialKeys(corpus) : answers[k] \in Answers,
         Passed(corpus, answers)
  PROVE  Earned(corpus, answers)
<1> DEFINE rep  == PerRepetition(corpus, answers)
           gold == [p \in Scored(corpus) |-> LabelDecision(corpus[p].scoring_gold)]
           seen == [p \in Scored(corpus) |-> Observed(rep[p])]
           faults == FaultsOf(corpus, gold, seen, rep)
<1>1. AdjudicationComplete(corpus) /\ \A g \in DOMAIN faults : faults[g] = {}
  BY DEF Passed
<1>2. /\ \A p \in DOMAIN corpus : Resolved(corpus[p])
      /\ Scored(corpus) = DOMAIN corpus
  BY <1>1 DEF AdjudicationComplete, Resolved, Reviewed, Scored
<1> HIDE DEF rep, gold, seen
<1>3. DOMAIN gold = DOMAIN corpus
  BY <1>2 DEF gold
<1>4. faults["order"] = {} /\ faults["hardOutcome"] = {} /\ faults["hardExact"] = {}
  BY <1>1 DEF FaultsOf
<1>5. \A p \in DOMAIN corpus : \A r \in DOMAIN rep[p] : rep[p][r] # Inconclusive
  <2>1. faults["order"] = {p \in DOMAIN corpus : \E r \in DOMAIN rep[p] : rep[p][r] = Inconclusive}
    BY DEF FaultsOf
  <2>2. QED
    BY <1>4, <2>1
<1>6. \A p \in DOMAIN corpus : DOMAIN rep[p] = 1..Repetitions(corpus[p])
  BY DEF rep, PerRepetition
<1>7. \A p \in DOMAIN corpus : \A r \in 1..Repetitions(corpus[p]) :
        /\ rep[p][r] = TrialDecision(corpus, answers, p, r, "AB")
        /\ rep[p][r] = TrialDecision(corpus, answers, p, r, "BA")
  BY <1>5, <1>6, ConclusiveIs DEF rep
<1>8. \A p \in DOMAIN corpus : \A r \in 1..Repetitions(corpus[p]), o \in Orders :
        answers[<<p, r, o>>] \in Answers
  <2>1. \A p \in DOMAIN corpus : \A r \in 1..Repetitions(corpus[p]), o \in Orders :
          <<p, r, o>> \in TrialKeys(corpus)
    BY DEF TrialKeys
  <2>2. QED
    BY <2>1
<1>9. \A s \in Sides : RoleOf(s) \in Roles /\ Canon(RoleOf(s)) = s
  BY DEF Sides, RoleOf, Roles, Canon
<1>10. ASSUME NEW p \in DOMAIN corpus PROVE SaysTheSame(corpus, answers, p)
  <2>1. SUFFICES ASSUME NEW r \in 1..Repetitions(corpus[p]), NEW s \in Sides
        PROVE LET ab == answers[<<p, r, "AB">>]  ba == answers[<<p, r, "BA">>]
                  shown(o) == ShownAs(RoleOf(s), o)
              IN  /\ ab.checks[shown("AB")] = ba.checks[shown("BA")]
                  /\ (ab.criteria = NoCriteria) = (ba.criteria = NoCriteria)
                  /\ ab.criteria # NoCriteria =>
                       \A c \in Criteria : ab.criteria[c] = shown("AB") <=> ba.criteria[c] = shown("BA")
    BY DEF SaysTheSame
  <2>2. PICK a \in Answers, b \in Answers : a = answers[<<p, r, "AB">>] /\ b = answers[<<p, r, "BA">>]
    BY <1>8 DEF Orders
  <2>3. /\ Canonical(a, "AB").checks = Canonical(b, "BA").checks
        /\ Canonical(a, "AB").criteria = Canonical(b, "BA").criteria
    <3>1. rep[p][r].checks = Canonical(a, "AB").checks /\ rep[p][r].criteria = Canonical(a, "AB").criteria
      BY <1>7, <2>2, TrialSays
    <3>2. rep[p][r].checks = Canonical(b, "BA").checks /\ rep[p][r].criteria = Canonical(b, "BA").criteria
      BY <1>7, <2>2, TrialSays
    <3>3. QED
      BY <3>1, <3>2
  <2>4. /\ \A q \in Roles : a.checks[ShownAs(q, "AB")] = b.checks[ShownAs(q, "BA")]
        /\ (a.criteria = NoCriteria) = (b.criteria = NoCriteria)
        /\ a.criteria # NoCriteria =>
             \A c \in Criteria, q \in Roles :
                (a.criteria[c] = ShownAs(q, "AB")) = (b.criteria[c] = ShownAs(q, "BA"))
    BY <2>3, SameCanonical
  <2>5. QED
    BY <1>9, <2>2, <2>4
<1>11. ASSUME NEW p \in DOMAIN corpus, corpus[p].critical \/ corpus[p].hard
       PROVE  MeetsGold(corpus, answers, p)
  <2>1. /\ p \notin faults["hardOutcome"] /\ p \notin faults["hardExact"]
    BY <1>4
  <2>2. seen[p].outcome = gold[p].outcome
    BY <1>3, <1>11, <2>1 DEF FaultsOf
  <2>3. seen[p] # Inconclusive /\ seen[p].checks = gold[p].checks
    BY <1>3, <1>11, <2>1 DEF FaultsOf
  <2>4. gold[p] = LabelDecision(corpus[p].scoring_gold) /\ seen[p] = Observed(rep[p])
    BY <1>2 DEF gold, seen
  <2>5. \A r \in 1..Repetitions(corpus[p]) : rep[p][r] = seen[p]
    BY <1>6, <2>3, <2>4 DEF Observed
  <2>6. SUFFICES ASSUME NEW r \in 1..Repetitions(corpus[p]), NEW o \in Orders, NEW s \in Sides
        PROVE  /\ answers[<<p, r, o>>].checks[ShownAs(RoleOf(s), o)] = gold[p].checks[s]
               /\ Prefers(answers[<<p, r, o>>], o, RoleOf(s)) <=> gold[p].outcome = s
    BY <2>4 DEF MeetsGold
  <2>7. PICK a \in Answers : a = answers[<<p, r, o>>]
    BY <1>8
  <2>8. seen[p] = TrialDecision(corpus, answers, p, r, o)
    BY <1>7, <2>5 DEF Orders
  <2>9. seen[p].checks = Canonical(a, o).checks /\ seen[p].outcome = ValidateResponse(a, o).outcome
    BY <2>7, <2>8, TrialSays
  <2>10. a.checks[ShownAs(RoleOf(s), o)] = gold[p].checks[s]
    <3>1. Canonical(a, o).checks[Canon(RoleOf(s))] = a.checks[ShownAs(RoleOf(s), o)]
      BY <1>9, CanonicalIs
    <3>2. QED
      BY <1>9, <2>3, <2>9, <3>1
  <2>11. Prefers(a, o, RoleOf(s)) <=> gold[p].outcome = s
    <3>1. ASSUME gold[p].outcome = s PROVE Prefers(a, o, RoleOf(s))
      <4>1. ValidateResponse(a, o).outcome = s
        BY <2>2, <2>9, <3>1
      <4>2. MapOutcome(ValidateResponse(a, o).outcome) = RoleOf(s)
        BY <4>1 DEF MapOutcome, RoleOf, Sides
      <4>3. QED
        BY <1>9, <4>2, OutcomeIsPreference
    <3>2. ASSUME Prefers(a, o, RoleOf(s)) PROVE gold[p].outcome = s
      <4>1. ValidateResponse(a, o).outcome = Canon(RoleOf(s))
        BY <1>9, <3>2, PreferenceIsOutcome
      <4>2. QED
        BY <1>9, <2>2, <2>9, <4>1
    <3>3. QED
      BY <3>1, <3>2
  <2>12. QED
    BY <2>7, <2>10, <2>11
<1>12. QED
  BY <1>2, <1>10, <1>11 DEF Earned

\* A verdict on a valid corpus is earned, for any comparator.
LEMMA VerdictIsEarned ==
  ASSUME NEW c \in DOMAIN Corpora, NEW j \in AllJudges, ValidBy[c], Verdict[c][j]
  PROVE  EarnedBy[c][j]
<1> DEFINE corpus == Corpora[c]
           answers == AnswersOf(corpus, j)
           labels(p) == [checks |-> corpus[p].scoring_gold.checks,
                         criteria |-> corpus[p].scoring_gold.criteria]
<1>1. Passed(corpus, answers) /\ ValidCorpus(corpus)
  BY DEF Verdict, ValidBy
<1>2. \A p \in DOMAIN corpus : Resolved(corpus[p])
  BY <1>1 DEF Passed, AdjudicationComplete
<1>3. \A p \in DOMAIN corpus : labels(p) \in Answers
  <2>1. SUFFICES ASSUME NEW p \in DOMAIN corpus PROVE labels(p) \in Answers
    OBVIOUS
  <2> DEFINE gold == corpus[p].scoring_gold
  <2>2. gold # NoLabels
    BY <1>2 DEF Resolved, Reviewed
  <2>3. /\ gold.checks \in [Sides -> [Requirements -> Statuses]]
        /\ gold.criteria \in [Criteria -> Winners] \cup {NoCriteria}
    BY <2>2, LabelsAssumption
  <2>4. ValidReviews(corpus[p])
    BY <1>1 DEF ValidCorpus
  <2>5. ValidLabels(corpus[p], gold, TRUE)
    BY <1>2, <2>4 DEF ValidReviews
  <2>6. BothQualify(gold.checks) <=> gold.criteria # NoCriteria
    BY <2>5 DEF ValidLabels
  <2> HIDE DEF gold
  <2>7. labels(p) = [checks |-> gold.checks, criteria |-> gold.criteria]
    BY DEF gold
  <2>8. QED
    BY <2>3, <2>6, <2>7 DEF Answers
<1>4. ASSUME NEW k \in TrialKeys(corpus) PROVE answers[k] \in Answers
  <2>1. PICK p \in DOMAIN corpus, o \in Orders : k[1] = p /\ k[3] = o
    BY DEF TrialKeys
  <2>2. answers[k] = IF k \in j.at THEN j.says ELSE Canonical(labels(p), o)
    <3>1. corpus[p].scoring_gold # NoLabels
      BY <1>2 DEF Resolved, Reviewed
    <3>2. QED
      BY <2>1, <3>1 DEF AnswersOf
  <2>3. CASE k \in j.at
    <3>1. j # Faithful
      BY <2>3 DEF Faithful
    <3>2. j \in Judges
      BY <3>1 DEF AllJudges
    <3>3. QED
      BY <2>2, <2>3, <3>2, LabelsAssumption
  <2>4. CASE k \notin j.at
    BY <1>3, <2>2, <2>4, CanonicalAnswers
  <2>5. QED
    BY <2>3, <2>4
<1>5. Earned(corpus, answers)
  BY <1>1, <1>4, PassedIsEarned
<1>6. QED
  BY <1>5 DEF EarnedBy

-----------------------------------------------------------------------------
(* The comparator's authority *)

ReleaseKind ==
  [test : BOOLEAN, corpus : DOMAIN Corpora, rubric : DOMAIN Rubrics, harness : Harnesses]

EntryKind == [production : ReleaseKind, test : ReleaseKind]

EvidenceKind ==
  [header : ReleaseKind, judge : AllJudges, models : SUBSET {"m1", "m2"},
   executables : SUBSET {"m1", "m2"}]

CertificationKind == [header : ReleaseKind, evidence : EvidenceKind]

LockKind ==
  [at : {"test", "write production", "write test", "write registry"},
   production : ReleaseKind, test : ReleaseKind]

Contents ==
  (((DOMAIN Corpora) \cup (DOMAIN Rubrics)) \cup Harnesses)
    \cup ((ReleaseKind \cup EntryKind) \cup ((EvidenceKind \cup CertificationKind) \cup {None}))

\* A release that some run of lock_release has computed.
Locked(release) == \E entry \in locks : release \in {entry.production, entry.test}

\* The files have releases and a registry entry of such runs.
FilesInv ==
  /\ docs \in Documents /\ locks \subseteq EntryKind
  /\ releases \in EntryKind /\ Locked(releases.production) /\ Locked(releases.test)
  /\ registry \in locks
  /\ evidence \in EvidenceKind \cup {None}
  /\ certification \in CertificationKind \cup {None}

\* A run of lock_release writes what it has computed.
LockInv ==
  /\ lock \in LockKind \cup {None}
  /\ lock # None /\ lock.at # "test" =>
       [production |-> lock.production, test |-> lock.test] \in locks

\* What was read of a file was once in it.
ReadAs(name, content) ==
  /\ name = "corpus"  => content \in DOMAIN Corpora
  /\ name = "rubric"  => content \in DOMAIN Rubrics
  /\ name = "harness" => content \in Harnesses
  /\ name \in {"release", "production", "test"} => content \in ReleaseKind /\ Locked(content)
  /\ name = "registry" => content \in locks
  /\ name = "evidence" => content \in EvidenceKind \cup {None}

ReaderInv ==
  /\ reader \in [for : Uses, read : Seq(Contents)] \cup {NoReader}
  /\ \A i \in DOMAIN reader.read : ReadAs(OrderOf(reader.for)[i], reader.read[i])

\* What a run has loaded: if it is certified, by a verdict on the corpus it has read.
RuntimeInv ==
  /\ LoadedIsOneLock
  /\ runtime # None =>
       /\ runtime.docs.corpus \in DOMAIN Corpora /\ ValidBy[runtime.docs.corpus]
       /\ runtime.certified =>
            /\ runtime.evidence.judge \in AllJudges
            /\ runtime.evidence.header.corpus = runtime.docs.corpus
            /\ Verdict[runtime.docs.corpus][runtime.evidence.judge]

AuthInv == FilesInv /\ LockInv /\ ReaderInv /\ RuntimeInv

\* A document's parts and the two releases computed of it.
LEMMA ReleaseIs ==
  ASSUME NEW d \in Documents, NEW test \in BOOLEAN
  PROVE  Release(test, d) \in ReleaseKind
<1>1. d.corpus \in DOMAIN Corpora /\ d.rubric \in DOMAIN Rubrics /\ d.harness \in Harnesses
  BY DEF Documents
<1>2. QED
  BY <1>1 DEF Release, ReleaseKind

\* At first everything is as the first run of lock_release left it.
LEMMA AuthInitKeeps == ASSUME AuthInit PROVE AuthInv
<1>1. First \in Documents
  BY AuthorityAssumption
<1>2. Entry(First) \in EntryKind /\ Entry(First).production = Release(FALSE, First)
      /\ Entry(First).test = Release(TRUE, First)
  BY <1>1, ReleaseIs DEF Entry, EntryKind
<1>3. FilesInv
  BY <1>1, <1>2 DEF FilesInv, AuthInit, Locked
<1>4. LockInv /\ RuntimeInv
  BY DEF LockInv, RuntimeInv, LoadedIsOneLock, AuthInit
<1>5. ReaderInv
  <2>1. NoReader.read = <<>>
    BY DEF NoReader
  <2>2. QED
    BY <2>1 DEF ReaderInv, AuthInit
<1>6. QED
  BY <1>3, <1>4, <1>5 DEF AuthInv

\* What was locked stays so, and so does what was read and loaded of it.
LEMMA LockedStays ==
  ASSUME locks \subseteq locks', NEW release, Locked(release)
  PROVE  Locked(release)'
  BY DEF Locked

\* A reader that does not read keeps what it has read.
LEMMA ReaderStays ==
  ASSUME ReaderInv, reader' = reader, locks \subseteq locks'
  PROVE  ReaderInv'
<1>1. \A name, content : ReadAs(name, content) => ReadAs(name, content)'
  BY DEF ReadAs, Locked
<1>2. QED
  BY <1>1 DEF ReaderInv

\* A runtime that is kept stays what one run of lock_release computed.
LEMMA RuntimeStays ==
  ASSUME RuntimeInv, runtime' = runtime, locks \subseteq locks'
  PROVE  RuntimeInv'
  BY DEF RuntimeInv, LoadedIsOneLock

\* How many files there are to read.
LEMMA OrderIs ==
  ASSUME NEW use
  PROVE  Len(OrderOf(use)) \in {6, 8} /\ DOMAIN OrderOf(use) = 1..Len(OrderOf(use))
<1>1. Len(Packaged) = 8 /\ DOMAIN Packaged = 1..8
  BY DEF Packaged
<1>2. Len(Directory) = 6 /\ DOMAIN Directory = 1..6
  BY DEF Directory
<1>3. QED
  BY <1>1, <1>2 DEF OrderOf

\* A file as it is on disk.
LEMMA OnDiskIs ==
  ASSUME FilesInv, NEW use \in Uses, NEW i \in DOMAIN OrderOf(use)
  PROVE  /\ OnDisk(use, OrderOf(use)[i]) \in Contents
         /\ ReadAs(OrderOf(use)[i], OnDisk(use, OrderOf(use)[i]))
<1>1. PICK part \in {"corpus", "rubric", "release", "harness", "certification", "evidence",
                     "registry", "production", "test"} : part = OrderOf(use)[i]
  BY DEF OrderOf, Packaged, Directory
<1>2. DOMAIN docs = {"corpus", "rubric", "harness"} /\ DOMAIN releases = {"production", "test"}
  BY DEF FilesInv, Documents, EntryKind
<1>3. /\ docs.corpus \in DOMAIN Corpora /\ docs.rubric \in DOMAIN Rubrics /\ docs.harness \in Harnesses
  BY DEF FilesInv, Documents
<1>4. /\ releases["production"] \in ReleaseKind /\ Locked(releases["production"])
      /\ releases["test"] \in ReleaseKind /\ Locked(releases["test"])
  BY DEF FilesInv, EntryKind
<1>5. CASE part \in {"corpus", "rubric", "harness"}
  <2>1. OnDisk(use, part) = docs[part]
    BY <1>2, <1>5 DEF OnDisk
  <2>2. QED
    BY <1>1, <1>3, <1>5, <2>1 DEF Contents, ReadAs
<1>6. CASE part = "release"
  <2>1. OnDisk(use, part) = releases[IF Testing(use) THEN "test" ELSE "production"]
    BY <1>2, <1>6 DEF OnDisk
  <2>2. QED
    BY <1>1, <1>4, <1>6, <2>1 DEF Contents, ReadAs
<1>7. CASE part \in {"production", "test"}
  <2>1. OnDisk(use, part) = releases[part]
    BY <1>2, <1>7 DEF OnDisk
  <2>2. QED
    BY <1>1, <1>4, <1>7, <2>1 DEF Contents, ReadAs
<1>8. CASE part = "registry"
  <2>1. OnDisk(use, part) = registry
    BY <1>2, <1>8 DEF OnDisk
  <2>2. registry \in locks /\ registry \in EntryKind
    BY DEF FilesInv
  <2>3. QED
    BY <1>1, <1>8, <2>1, <2>2 DEF Contents, ReadAs
<1>9. CASE part = "certification"
  <2>1. OnDisk(use, part) = certification
    BY <1>2, <1>9 DEF OnDisk
  <2>2. certification \in CertificationKind \cup {None}
    BY DEF FilesInv
  <2>3. QED
    BY <1>1, <1>9, <2>1, <2>2 DEF Contents, ReadAs
<1>10. CASE part = "evidence"
  <2>1. OnDisk(use, part) = evidence
    BY <1>2, <1>10 DEF OnDisk
  <2>2. evidence \in EvidenceKind \cup {None}
    BY DEF FilesInv
  <2>3. QED
    BY <1>1, <1>10, <2>1, <2>2 DEF Contents, ReadAs
<1>11. QED
  BY <1>1, <1>5, <1>6, <1>7, <1>8, <1>9, <1>10

\* The next file is read.
LEMMA ReadNextKeeps == ASSUME ReaderInv, FilesInv, ReadNext PROVE ReaderInv'
<1> DEFINE n == Len(reader.read) + 1
           x == OnDisk(reader.for, OrderOf(reader.for)[n])
<1>1. /\ reader # NoReader /\ Len(reader.read) < Len(OrderOf(reader.for))
      /\ reader' = [reader EXCEPT !.read = Append(reader.read, x)]
      /\ locks' = locks
  BY DEF ReadNext
<1>2. reader \in [for : Uses, read : Seq(Contents)]
  BY <1>1 DEF ReaderInv
<1>3. PICK use \in Uses, s \in Seq(Contents) : use = reader.for /\ s = reader.read
  BY <1>2
<1>4. n \in DOMAIN OrderOf(use)
  <2>1. Len(s) \in Nat /\ Len(s) + 1 <= Len(OrderOf(use))
    <3>1. Len(OrderOf(use)) \in {6, 8} /\ Len(s) \in Nat
      BY OrderIs
    <3>2. QED
      BY <1>1, <1>3, <3>1
  <2>2. DOMAIN OrderOf(use) = 1..Len(OrderOf(use)) /\ Len(OrderOf(use)) \in {6, 8}
    BY OrderIs
  <2>3. QED
    BY <1>3, <2>1, <2>2
<1>5. x \in Contents /\ ReadAs(OrderOf(use)[n], x)
  BY <1>3, <1>4, OnDiskIs
<1> HIDE DEF x
<1>6. reader' = [for |-> use, read |-> Append(s, x)] /\ n = Len(s) + 1
  BY <1>1, <1>2, <1>3
<1>7. reader'.for = use /\ reader'.read = Append(s, x)
  BY <1>6
<1>8. Append(s, x) \in Seq(Contents)
  BY <1>5
<1>9. \A i \in DOMAIN Append(s, x) : ReadAs(OrderOf(use)[i], Append(s, x)[i])
  <2>1. SUFFICES ASSUME NEW i \in DOMAIN Append(s, x) PROVE ReadAs(OrderOf(use)[i], Append(s, x)[i])
    OBVIOUS
  <2>2. CASE i = n
    <3>1. Append(s, x)[i] = x
      BY <1>6, <2>2
    <3>2. QED
      BY <1>5, <2>2, <3>1
  <2>3. CASE i # n
    <3>1. i \in DOMAIN s /\ Append(s, x)[i] = s[i]
      BY <1>6, <2>3
    <3>2. QED
      BY <1>3, <3>1 DEF ReaderInv
  <2>4. QED
    BY <2>2, <2>3
<1>10. locks' = locks
  BY <1>1
<1>11. \A i \in DOMAIN reader'.read : ReadAs(OrderOf(reader'.for)[i], reader'.read[i])
  BY <1>7, <1>9
<1>12. reader' \in [for : Uses, read : Seq(Contents)]
  BY <1>6, <1>8
<1>13. QED
  BY <1>10, <1>11, <1>12 DEF ReaderInv, ReadAs, Locked

\* A part that was read, once all were.
LEMMA PartIs ==
  ASSUME ReaderInv, AllRead,
         NEW name \in {"corpus", "rubric", "harness", "evidence"}
                        \cup (IF Registered(reader.for) THEN {"registry", "production", "test"}
                                                        ELSE {"release"})
  PROVE  ReadAs(name, Part(name))
<1>1. reader \in [for : Uses, read : Seq(Contents)] /\ Len(reader.read) = Len(OrderOf(reader.for))
  BY DEF ReaderInv, AllRead
<1>2. PICK use \in Uses, s \in Seq(Contents) : use = reader.for /\ s = reader.read
  BY <1>1
<1>3. \E i \in DOMAIN OrderOf(use) : OrderOf(use)[i] = name
  <2>1. CASE Registered(use)
    <3>1. OrderOf(use) = Packaged
      BY <2>1 DEF OrderOf
    <3>2. /\ DOMAIN Packaged = 1..8 /\ Packaged[1] = "registry" /\ Packaged[2] = "corpus"
          /\ Packaged[3] = "production" /\ Packaged[4] = "rubric" /\ Packaged[5] = "test"
          /\ Packaged[6] = "harness" /\ Packaged[8] = "evidence"
      BY DEF Packaged
    <3>3. name \in {"corpus", "rubric", "harness", "evidence", "registry", "production", "test"}
      BY <1>2, <2>1
    <3>4. QED
      BY <3>1, <3>2, <3>3
  <2>2. CASE ~Registered(use)
    <3>1. OrderOf(use) = Directory
      BY <2>2 DEF OrderOf
    <3>2. /\ DOMAIN Directory = 1..6 /\ Directory[1] = "corpus" /\ Directory[2] = "rubric"
          /\ Directory[3] = "release" /\ Directory[4] = "harness" /\ Directory[6] = "evidence"
      BY DEF Directory
    <3>3. name \in {"corpus", "rubric", "harness", "evidence", "release"}
      BY <1>2, <2>2
    <3>4. QED
      BY <3>1, <3>2, <3>3
  <2>3. QED
    BY <2>1, <2>2
<1>4. DOMAIN OrderOf(use) = DOMAIN s
  <2>1. DOMAIN OrderOf(use) = 1..Len(OrderOf(use))
    BY OrderIs
  <2>2. QED
    BY <1>1, <1>2, <2>1
<1>5. PICK i \in DOMAIN s : i = (CHOOSE n \in DOMAIN s : OrderOf(use)[n] = name) /\ OrderOf(use)[i] = name
  BY <1>3, <1>4
<1>6. Part(name) = s[i]
  BY <1>2, <1>5 DEF Part
<1>7. QED
  BY <1>2, <1>5, <1>6 DEF ReaderInv


\* What a process has read when it goes to work: documents, a release of theirs, evidence.
LEMMA ReadyIs ==
  ASSUME ReaderInv, NEW use \in Uses, Ready(use)
  PROVE  /\ ReadDocs \in Documents
         /\ ReadRelease \in ReleaseKind /\ ReadRelease = Release(ReadRelease.test, ReadDocs)
         /\ Locked(ReadRelease) /\ ValidBy[ReadDocs.corpus]
         /\ Part("evidence") \in EvidenceKind \cup {None}
         /\ Registered(use) => \E entry \in locks :
              /\ ReadRelease \in {entry.production, entry.test}
              /\ \A r \in {entry.production, entry.test} :
                   r.corpus = ReadDocs.corpus /\ r.rubric = ReadDocs.rubric
<1>1. AllRead /\ reader.for = use /\ Loads
  BY DEF Ready
<1>2. /\ Part("corpus") \in DOMAIN Corpora /\ Part("rubric") \in DOMAIN Rubrics
      /\ Part("harness") \in Harnesses /\ Part("evidence") \in EvidenceKind \cup {None}
  <2>1. ReadAs("corpus", Part("corpus")) /\ ReadAs("rubric", Part("rubric"))
    BY <1>1, PartIs
  <2>2. ReadAs("harness", Part("harness")) /\ ReadAs("evidence", Part("evidence"))
    BY <1>1, PartIs
  <2>3. QED
    BY <2>1, <2>2 DEF ReadAs
<1>3. ReadDocs \in Documents /\ ReadDocs.corpus = Part("corpus") /\ ReadDocs.rubric = Part("rubric")
  BY <1>2 DEF ReadDocs, Documents
<1>4. /\ ~Registered(use) => Part("release") \in ReleaseKind /\ Locked(Part("release"))
      /\ Registered(use) => /\ Part("production") \in ReleaseKind /\ Locked(Part("production"))
                            /\ Part("test") \in ReleaseKind /\ Locked(Part("test"))
                            /\ Part("registry") \in locks
  <2>1. CASE Registered(use)
    <3>1. ReadAs("registry", Part("registry"))
      BY <1>1, <2>1, PartIs
    <3>2. ReadAs("production", Part("production"))
      BY <1>1, <2>1, PartIs
    <3>3. ReadAs("test", Part("test"))
      BY <1>1, <2>1, PartIs
    <3>4. QED
      BY <2>1, <3>1, <3>2, <3>3 DEF ReadAs
  <2>2. CASE ~Registered(use)
    <3>1. ReadAs("release", Part("release"))
      BY <1>1, <2>2, PartIs
    <3>2. QED
      BY <2>2, <3>1 DEF ReadAs
  <2>3. QED
    BY <2>1, <2>2
<1>5. /\ ~Registered(use) => ReadRelease = Part("release")
      /\ Registered(use) => ReadRelease \in {Part("production"), Part("test")}
  <2>1. use # "run" /\ use # "run test" <=> ~Registered(use)
    BY DEF Registered
  <2>2. CASE use = "run"
    BY <1>1, <2>1, <2>2 DEF ReadRelease
  <2>3. CASE use = "run test"
    BY <1>1, <2>1, <2>3 DEF ReadRelease
  <2>4. CASE ~Registered(use)
    BY <1>1, <2>1, <2>4 DEF ReadRelease
  <2>5. QED
    BY <2>1, <2>2, <2>3, <2>4
<1>6. ReadRelease \in ReleaseKind /\ Locked(ReadRelease)
  BY <1>4, <1>5
<1>7. ValidRelease(ReadRelease, ReadDocs)
  BY <1>1 DEF Loads
<1>8. ReadRelease = Release(ReadRelease.test, ReadDocs) /\ ValidBy[ReadDocs.corpus]
  <2>1. PICK r \in ReleaseKind, d \in Documents : r = ReadRelease /\ d = ReadDocs
    BY <1>3, <1>6
  <2>2. /\ r.corpus = d.corpus /\ r.rubric = d.rubric /\ r.harness = d.harness
        /\ ValidBy[d.corpus]
    BY <1>7, <2>1 DEF ValidRelease, Bindings
  <2>3. r = [test |-> r.test, corpus |-> r.corpus, rubric |-> r.rubric, harness |-> r.harness]
    BY DEF ReleaseKind
  <2>4. QED
    BY <2>1, <2>2, <2>3 DEF Release
<1>9. ASSUME Registered(use)
      PROVE  \E entry \in locks :
               /\ ReadRelease \in {entry.production, entry.test}
               /\ \A r \in {entry.production, entry.test} :
                    r.corpus = ReadDocs.corpus /\ r.rubric = ReadDocs.rubric
  <2>1. ResolvesProfile
    BY <1>1, <1>9 DEF Loads
  <2>2. PICK entry : entry = Part("registry")
    OBVIOUS
  <2>3. PICK p, t : p = Part("production") /\ t = Part("test")
    OBVIOUS
  <2>4. /\ entry = [production |-> p, test |-> t]
        /\ \A r \in {p, t} : r.corpus = Part("corpus") /\ r.rubric = Part("rubric")
    BY <2>1, <2>2, <2>3 DEF ResolvesProfile, InRegistry
  <2>5. entry.production = p /\ entry.test = t
    BY <2>4
  <2>6. entry \in locks /\ ReadRelease \in {p, t}
    BY <1>4, <1>5, <1>9, <2>2, <2>3
  <2>7. QED
    BY <1>3, <2>4, <2>5, <2>6
<1>10. QED
  BY <1>2, <1>3, <1>6, <1>8, <1>9

\* Lock_release computes two releases of documents that may have changed in between.
LEMMA LockReleaseKeeps ==
  ASSUME AuthInv, LockProduction \/ LockTest \/ WriteRelease \/ WriteRegistry \/ LockEnds
  PROVE  AuthInv'
<1>1. FilesInv /\ LockInv /\ ReaderInv /\ RuntimeInv
  BY DEF AuthInv
<1>2. docs \in Documents /\ locks \subseteq EntryKind /\ releases \in EntryKind
  BY <1>1 DEF FilesInv
<1>3. Release(FALSE, docs) \in ReleaseKind /\ Release(TRUE, docs) \in ReleaseKind
  BY <1>2, ReleaseIs
<1>4. CASE LockProduction
  <2>1. /\ lock' = [at |-> "test", production |-> Release(FALSE, docs), test |-> Release(FALSE, docs)]
        /\ UNCHANGED <<docs, releases, registry, evidence, certification, reader, runtime, locks>>
    BY <1>4 DEF LockProduction, files
  <2>2. lock' \in LockKind /\ lock'.at = "test"
    BY <1>3, <2>1 DEF LockKind
  <2>3. LockInv' /\ FilesInv'
    BY <1>1, <2>1, <2>2 DEF LockInv, FilesInv, Locked
  <2>4. QED
    BY <1>1, <2>1, <2>3, ReaderStays, RuntimeStays DEF AuthInv
<1>5. CASE LockTest
  <2>1. /\ lock # None /\ lock' = [lock EXCEPT !.at = "write production", !.test = Release(TRUE, docs)]
        /\ locks' = locks \cup {[production |-> lock'.production, test |-> lock'.test]}
        /\ UNCHANGED <<docs, releases, registry, evidence, certification, reader, runtime>>
    BY <1>5 DEF LockTest, LockAt, files
  <2>2. lock \in LockKind
    BY <1>1, <2>1 DEF LockInv
  <2>3. PICK l \in LockKind : l = lock'
    BY <1>3, <2>1, <2>2 DEF LockKind
  <2>4. [production |-> l.production, test |-> l.test] \in EntryKind
    BY DEF LockKind, EntryKind
  <2>5. locks' = locks \cup {[production |-> l.production, test |-> l.test]}
    BY <2>1, <2>3
  <2>6. locks' \subseteq EntryKind /\ locks \subseteq locks'
    BY <1>2, <2>4, <2>5
  <2>7. LockInv'
    BY <2>3, <2>5 DEF LockInv
  <2>8. FilesInv'
    BY <1>1, <2>1, <2>6 DEF FilesInv, Locked
  <2>9. QED
    BY <1>1, <2>1, <2>6, <2>7, <2>8, ReaderStays, RuntimeStays DEF AuthInv
<1>6. CASE WriteRelease
  <2>1. /\ lock # None /\ lock.at \in {"write production", "write test"}
        /\ \/ /\ releases' = [releases EXCEPT !.production = lock.production]
              /\ lock' = [lock EXCEPT !.at = "write test"]
           \/ /\ releases' = [releases EXCEPT !.test = lock.test]
              /\ lock' = [lock EXCEPT !.at = "write registry"]
        /\ UNCHANGED <<docs, registry, evidence, certification, reader, runtime, locks>>
    BY <1>6 DEF WriteRelease, LockAt
  <2>2. PICK l \in LockKind : l = lock
    BY <1>1, <2>1 DEF LockInv
  <2>3. PICK entry \in locks : entry = [production |-> l.production, test |-> l.test]
    BY <1>1, <2>1, <2>2 DEF LockInv
  <2>4. /\ l.production \in ReleaseKind /\ Locked(l.production)
        /\ l.test \in ReleaseKind /\ Locked(l.test)
    BY <2>3 DEF LockKind, Locked
  <2>5. /\ releases' \in EntryKind /\ releases'.production \in {releases.production, l.production}
        /\ releases'.test \in {releases.test, l.test}
    BY <1>2, <2>1, <2>2, <2>4 DEF EntryKind
  <2>6. FilesInv'
    <3>1. PICK e \in EntryKind : e = releases'
      BY <2>5
    <3>2. Locked(e.production) /\ Locked(e.test)
      BY <1>1, <2>4, <2>5, <3>1 DEF FilesInv
    <3>3. QED
      BY <1>1, <2>1, <3>1, <3>2 DEF FilesInv, Locked
  <2>7. LockInv'
    <3>1. PICK k \in LockKind : k = lock' /\ k.production = l.production /\ k.test = l.test
      BY <2>1, <2>2 DEF LockKind
    <3>2. QED
      BY <2>1, <2>3, <3>1 DEF LockInv
  <2>8. QED
    BY <1>1, <2>1, <2>6, <2>7, ReaderStays, RuntimeStays DEF AuthInv
<1>7. CASE WriteRegistry
  <2>1. /\ lock # None /\ lock.at = "write registry" /\ lock' = None
        /\ registry' = [production |-> lock.production, test |-> lock.test]
        /\ UNCHANGED <<docs, releases, evidence, certification, reader, runtime, locks>>
    BY <1>7 DEF WriteRegistry, LockAt
  <2>2. registry' \in locks
    BY <1>1, <2>1 DEF LockInv
  <2>3. FilesInv' /\ LockInv'
    BY <1>1, <2>1, <2>2 DEF FilesInv, LockInv, Locked
  <2>4. QED
    BY <1>1, <2>1, <2>3, ReaderStays, RuntimeStays DEF AuthInv
<1>8. CASE LockEnds
  <2>1. /\ lock' = None
        /\ UNCHANGED <<docs, releases, registry, evidence, certification, reader, runtime, locks>>
    BY <1>8 DEF LockEnds, files
  <2>2. FilesInv' /\ LockInv'
    BY <1>1, <2>1 DEF FilesInv, LockInv, Locked
  <2>3. QED
    BY <1>1, <2>1, <2>2, ReaderStays, RuntimeStays DEF AuthInv
<1>9. QED
  BY <1>4, <1>5, <1>6, <1>7, <1>8

\* Documents are edited, evidence is discarded, files are read.
LEMMA FilesKeep ==
  ASSUME AuthInv, Rewrite \/ Discard \/ StartReader \/ ReadNext \/ GiveUpReading \/ RunOver
  PROVE  AuthInv'
<1>1. FilesInv /\ LockInv /\ ReaderInv /\ RuntimeInv
  BY DEF AuthInv
<1>2. UNCHANGED <<releases, registry, certification, lock, locks>>
  BY DEF Rewrite, Discard, StartReader, ReadNext, GiveUpReading, RunOver, files
<1>3. /\ docs' = docs \/ docs' \in Documents
      /\ evidence' = evidence \/ evidence' = None
  BY DEF Rewrite, Discard, StartReader, ReadNext, GiveUpReading, RunOver, files
<1>4. FilesInv' /\ LockInv'
  BY <1>1, <1>2, <1>3 DEF FilesInv, LockInv, Locked
<1>5. RuntimeInv'
  <2>1. runtime' = runtime \/ runtime' = None
    BY DEF Rewrite, Discard, StartReader, ReadNext, GiveUpReading, RunOver
  <2>2. CASE runtime' = runtime
    BY <1>1, <1>2, <2>2, RuntimeStays
  <2>3. CASE runtime' = None
    BY <2>3 DEF RuntimeInv, LoadedIsOneLock
  <2>4. QED
    BY <2>1, <2>2, <2>3
<1>6. ReaderInv'
  <2>1. CASE ReadNext
    BY <1>1, <2>1, ReadNextKeeps
  <2>2. CASE StartReader
    <3>1. PICK use \in Uses : reader' = [for |-> use, read |-> <<>>]
      BY <2>2 DEF StartReader
    <3>2. reader' \in [for : Uses, read : Seq(Contents)] /\ reader'.read = <<>>
      BY <3>1
    <3>3. QED
      BY <3>2 DEF ReaderInv
  <2>3. CASE reader' = NoReader
    <3>1. reader'.read = <<>>
      BY <2>3 DEF NoReader
    <3>2. QED
      BY <2>3, <3>1 DEF ReaderInv
  <2>4. CASE reader' = reader
    BY <1>1, <1>2, <2>4, ReaderStays
  <2>5. QED
    BY <2>1, <2>2, <2>3, <2>4 DEF Rewrite, Discard, GiveUpReading, RunOver
<1>7. QED
  BY <1>4, <1>5, <1>6 DEF AuthInv

\* Evidence is collected, certified and loaded.
LEMMA RuntimesKeep == ASSUME AuthInv, Collect \/ Certify \/ Load PROVE AuthInv'
<1>1. FilesInv /\ LockInv /\ ReaderInv /\ RuntimeInv
  BY DEF AuthInv
<1>2. UNCHANGED <<docs, releases, registry, lock, locks>> /\ reader' = NoReader
  BY DEF Collect, Certify, Load, files, Ready
<1>3. PICK use \in Uses : Ready(use)
  BY DEF Collect, Certify, Load, Uses
<1>4. LockInv' /\ ReaderInv'
  <2>1. reader'.read = <<>>
    BY <1>2 DEF NoReader
  <2>2. QED
    BY <1>1, <1>2, <2>1 DEF LockInv, ReaderInv
<1>5. PICK d \in Documents, r \in ReleaseKind :
        d = ReadDocs /\ r = ReadRelease /\ r = Release(r.test, d) /\ Locked(r) /\ ValidBy[d.corpus]
  BY <1>1, <1>3, ReadyIs
<1>6. CASE Collect
  <2>1. evidence' = evidence \/ evidence' \in EvidenceKind
    <3>1. CASE evidence # None
      BY <1>6, <3>1 DEF Collect
    <3>2. CASE evidence = None
      <4>1. PICK judge \in AllJudges, named \in {{"m1"}, {"m1", "m2"}},
                 executables \in {{"m1"}, {"m1", "m2"}} :
              \/ evidence' = [header |-> ReadRelease, judge |-> judge, models |-> named,
                              executables |-> executables]
              \/ evidence' = evidence
        BY <1>6, <3>2 DEF Collect
      <4>2. [header |-> r, judge |-> judge, models |-> named, executables |-> executables]
              \in EvidenceKind
        BY DEF EvidenceKind
      <4>3. QED
        BY <1>5, <4>1, <4>2
    <3>3. QED
      BY <3>1, <3>2
  <2>2. certification' = certification /\ runtime' = runtime
    BY <1>6 DEF Collect
  <2>3. FilesInv'
    BY <1>1, <1>2, <2>1, <2>2 DEF FilesInv, Locked
  <2>4. QED
    BY <1>1, <1>2, <1>4, <2>2, <2>3, RuntimeStays DEF AuthInv
<1>7. CASE Certify
  <2>1. certification' = certification \/ certification' \in CertificationKind
    <3>1. CASE EvidencePasses(ReadRelease, evidence)
      <4>1. certification' = [header |-> r, evidence |-> evidence]
        BY <1>5, <1>7, <3>1 DEF Certify
      <4>2. evidence \in EvidenceKind
        BY <1>1, <3>1 DEF EvidencePasses, OfRelease, FilesInv
      <4>3. QED
        BY <4>1, <4>2 DEF CertificationKind
    <3>2. CASE ~EvidencePasses(ReadRelease, evidence)
      BY <1>7, <3>2 DEF Certify
    <3>3. QED
      BY <3>1, <3>2
  <2>2. evidence' = evidence /\ runtime' = runtime
    BY <1>7 DEF Certify
  <2>3. FilesInv'
    BY <1>1, <1>2, <2>1, <2>2 DEF FilesInv, Locked
  <2>4. QED
    BY <1>1, <1>2, <1>4, <2>2, <2>3, RuntimeStays DEF AuthInv
<1>8. CASE Load
  <2>1. PICK holds, e : /\ holds = CertificationHolds(ReadRelease, Part("certification"), Part("evidence"))
                        /\ e = Part("evidence")
    OBVIOUS
  <2>2. PICK ev : ev = IF holds THEN e ELSE None
    OBVIOUS
  <2>3. runtime' = [registered |-> Registered(use), release |-> r, docs |-> d, certified |-> holds,
                    evidence |-> ev]
    <3>1. reader.for = use
      BY <1>3 DEF Ready
    <3>2. QED
      BY <1>5, <1>8, <2>1, <2>2, <3>1 DEF Load
  <2>4. /\ runtime'.registered = Registered(use) /\ runtime'.release = r /\ runtime'.docs = d
        /\ runtime'.certified = holds /\ runtime'.evidence = ev
    BY <2>3
  <2>5. r.corpus = d.corpus
    BY <1>5 DEF Release
  <2>6. holds => /\ ev = e /\ e \in EvidenceKind /\ e.header = r /\ Verdict[r.corpus][e.judge]
    <3>1. e \in EvidenceKind \cup {None}
      BY <1>1, <1>3, <2>1, ReadyIs
    <3>2. QED
      BY <1>5, <2>1, <2>2, <3>1 DEF CertificationHolds, EvidencePasses, OfRelease
  <2>7. LoadedIsOneLock'
    <3>1. PICK entry \in locks : /\ r \in {entry.production, entry.test}
                                 /\ Registered(use) => \A q \in {entry.production, entry.test} :
                                      q.corpus = d.corpus /\ q.rubric = d.rubric
      <4>1. CASE Registered(use)
        BY <1>1, <1>3, <1>5, <4>1, ReadyIs
      <4>2. CASE ~Registered(use)
        BY <1>5, <4>2 DEF Locked
      <4>3. QED
        BY <4>1, <4>2
    <3>2. QED
      BY <1>2, <1>5, <2>4, <3>1 DEF LoadedIsOneLock
  <2>8. RuntimeInv'
    <3>1. d.corpus \in DOMAIN Corpora /\ ValidBy[d.corpus]
      BY <1>5 DEF Documents
    <3>2. holds => /\ ev.judge \in AllJudges /\ ev.header.corpus = d.corpus
                   /\ Verdict[d.corpus][ev.judge]
      BY <2>5, <2>6 DEF EvidenceKind
    <3>3. QED
      BY <2>4, <2>7, <3>1, <3>2 DEF RuntimeInv
  <2>9. FilesInv'
    <3>1. UNCHANGED <<evidence, certification>>
      BY <1>8 DEF Load, files
    <3>2. QED
      BY <1>1, <1>2, <3>1 DEF FilesInv, Locked
  <2>10. QED
    BY <1>4, <2>8, <2>9 DEF AuthInv
<1>9. QED
  BY <1>6, <1>7, <1>8

\* No step of editors, lock_release, readers, collectors and certifiers breaks it.
LEMMA AuthNextKeeps == ASSUME AuthInv, AuthNext PROVE AuthInv'
  BY LockReleaseKeeps, FilesKeep, RuntimesKeep DEF AuthNext


\* Nor does a step of something else.
LEMMA AuthStutterKeeps == ASSUME AuthInv, UNCHANGED authVars PROVE AuthInv'
<1>1. UNCHANGED <<docs, releases, registry, evidence, certification, lock, reader, runtime, locks>>
  BY DEF authVars, files
<1>2. FilesInv' /\ LockInv'
  BY <1>1 DEF AuthInv, FilesInv, LockInv, Locked
<1>3. ReaderInv' /\ RuntimeInv'
  BY <1>1, ReaderStays, RuntimeStays DEF AuthInv
<1>4. QED
  BY <1>2, <1>3 DEF AuthInv

\* What is read and loaded was locked, whoever edits, locks, collects and certifies meanwhile.
THEOREM AuthorityInvariance == AuthSpec => []AuthInv
<1>1. AuthInit => AuthInv
  BY AuthInitKeeps
<1>2. AuthInv /\ [AuthNext]_authVars => AuthInv'
  BY AuthNextKeeps, AuthStutterKeeps
<1>3. QED
  BY <1>1, <1>2, PTL DEF AuthSpec

\* A runtime has one release of its own documents, and both of one lock if it is registered,
\* for any documents and any number of edits.
THEOREM LoadedWasLocked == AuthSpec => []LoadedIsOneLock
<1>1. AuthInv => LoadedIsOneLock
  BY DEF AuthInv, RuntimeInv
<1>2. QED
  BY <1>1, AuthorityInvariance, PTL

-----------------------------------------------------------------------------
(* A run and the comparator it was admitted with *)

\* The files are looked at until the run is admitted; what it has then it keeps.
HoldoutInv ==
  /\ step = "selecting" => AuthInv
  /\ step # "selecting" => runtime = None
  /\ ComparatorIsEarned

\* An admitted run keeps its plan, and is not selected or refused again.
LEMMA RunStays ==
  ASSUME step # "selecting", Next
  PROVE  step # "refused" /\ step' # "selecting" /\ plan' = plan
<1>1. CASE StartCase
  BY <1>1 DEF StartCase, runVars
<1>2. CASE RunArms
  BY <1>2 DEF RunArms, runVars
<1>3. CASE ShowPair
  BY <1>3 DEF ShowPair, runVars
<1>4. ASSUME NEW o \in Orders, Reserve(o) \/ FailBefore(o) \/ Reconcile(o) \/ Forfeit(o) \/ Accept(o)
      PROVE  step = "judging" /\ step' = step /\ plan' = plan
  <2>1. CASE Reserve(o)
    BY <2>1 DEF Reserve, At, runVars
  <2>2. CASE FailBefore(o)
    BY <2>2 DEF FailBefore, At, runVars
  <2>3. CASE Reconcile(o)
    BY <2>3 DEF Reconcile, runVars
  <2>4. CASE Forfeit(o)
    BY <2>4 DEF Forfeit, At, runVars
  <2>5. CASE Accept(o)
    BY <2>5 DEF Accept, At, runVars
  <2>6. QED
    BY <1>4, <2>1, <2>2, <2>3, <2>4, <2>5
<1>5. CASE Decide
  BY <1>5 DEF Decide, EndPair, runVars
<1>6. CASE NextPair
  BY <1>6 DEF NextPair, runVars
<1>7. CASE EndCase
  BY <1>7 DEF EndCase
<1>8. CASE EndCell
  BY <1>8 DEF EndCell
<1>9. CASE Aggregate
  BY <1>9 DEF Aggregate
<1>10. CASE Select
  BY <1>10 DEF Select
<1>11. QED
  BY <1>1, <1>2, <1>3, <1>4, <1>5, <1>6, <1>7, <1>8, <1>9, <1>10 DEF Next

\* A runtime with which a judged run is admitted has an earned certification.
LEMMA CalibratedIsEarned ==
  ASSUME AuthInv, runtime # None, runtime.certified
  PROVE  /\ runtime.evidence.header.corpus = runtime.docs.corpus
         /\ EarnedBy[runtime.docs.corpus][runtime.evidence.judge]
<1>1. /\ runtime.docs.corpus \in DOMAIN Corpora /\ ValidBy[runtime.docs.corpus]
      /\ runtime.evidence.judge \in AllJudges
      /\ runtime.evidence.header.corpus = runtime.docs.corpus
      /\ Verdict[runtime.docs.corpus][runtime.evidence.judge]
  BY DEF AuthInv, RuntimeInv
<1>2. QED
  BY <1>1, VerdictIsEarned

\* Admission checks the calibration of what was loaded.
LEMMA AdmitKeeps == ASSUME HoldoutInv, Admit PROVE HoldoutInv'
<1>1. step = "selecting" /\ step' # "selecting" /\ runtime' = None
  BY DEF Admit, Select, Forget
<1>2. ASSUME Judging' PROVE earned'
  <2>1. Calibrated(plan'.split)
    BY <1>2 DEF Admit
  <2>2. runtime # None /\ runtime.certified
    BY <2>1 DEF Calibrated, LiveCalibration, ProductionAuthority, DiagnosticCalibration
  <2>3. /\ runtime.evidence.header.corpus = runtime.docs.corpus
        /\ EarnedBy[runtime.docs.corpus][runtime.evidence.judge]
    BY <1>1, <2>2, CalibratedIsEarned DEF HoldoutInv
  <2>4. QED
    BY <1>2, <2>2, <2>3 DEF Admit
<1>3. ComparatorIsEarned'
  BY <1>2 DEF ComparatorIsEarned
<1>4. QED
  BY <1>1, <1>3 DEF HoldoutInv

\* The comparator of a run is earned and what it was loaded from was locked.
THEOREM HoldoutInvariance == HoldoutSpec => []HoldoutInv
<1>1. HoldoutInit => HoldoutInv
  BY AuthInitKeeps DEF HoldoutInit, Init, HoldoutInv, ComparatorIsEarned
<1>2. ASSUME HoldoutInv, [HoldoutNext]_allVars PROVE HoldoutInv'
  <2>1. CASE Prepare
    <3>1. step = "selecting" /\ step' = step
      BY <2>1 DEF Prepare, vars
    <3>2. AuthInv'
      BY <1>2, <2>1, <3>1, AuthNextKeeps DEF HoldoutInv, Prepare
    <3>3. QED
      BY <3>1, <3>2 DEF HoldoutInv, ComparatorIsEarned
  <2>2. CASE Admit
    BY <1>2, <2>2, AdmitKeeps
  <2>3. CASE Continue
    <3>1. step # "selecting" /\ Next /\ runtime' = runtime /\ earned' = earned
      BY <2>3 DEF Continue, authVars
    <3>2. step # "refused" /\ step' # "selecting" /\ plan' = plan
      BY <3>1, RunStays
    <3>3. Judging' <=> Judging
      BY <3>2 DEF Judging
    <3>4. ComparatorIsEarned'
      BY <1>2, <3>1, <3>2, <3>3 DEF HoldoutInv, ComparatorIsEarned
    <3>5. QED
      BY <1>2, <3>1, <3>2, <3>4 DEF HoldoutInv
  <2>4. CASE UNCHANGED allVars
    <3>1. UNCHANGED <<step, plan, earned, runtime>> /\ UNCHANGED authVars
      BY <2>4 DEF allVars, vars, runVars, authVars
    <3>2. ComparatorIsEarned' /\ (step' # "selecting" => runtime' = None)
      BY <1>2, <3>1 DEF HoldoutInv, ComparatorIsEarned, Judging
    <3>3. step' = "selecting" => AuthInv'
      BY <1>2, <3>1, AuthStutterKeeps DEF HoldoutInv
    <3>4. QED
      BY <3>2, <3>3 DEF HoldoutInv
  <2>5. QED
    BY <1>2, <2>1, <2>2, <2>3, <2>4 DEF HoldoutNext
<1>3. QED
  BY <1>1, <1>2, PTL DEF HoldoutSpec

\* No pair is shown to a comparator that has not deserved it, for any corpora, rubrics,
\* comparators, plans and number of edits.
THEOREM JudgedByEarned == HoldoutSpec => []ComparatorIsEarned
<1>1. HoldoutInv => ComparatorIsEarned
  BY DEF HoldoutInv
<1>2. QED
  BY <1>1, HoldoutInvariance, PTL

\* The same of the runtimes that are loaded before a run is admitted.
THEOREM AdmittedWasLocked == HoldoutSpec => []LoadedIsOneLock
<1>1. HoldoutInv => LoadedIsOneLock
  BY DEF HoldoutInv, AuthInv, RuntimeInv, LoadedIsOneLock
<1>2. QED
  BY <1>1, HoldoutInvariance, PTL
===============================================================================
