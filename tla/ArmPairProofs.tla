----------------------------- MODULE ArmPairProofs -----------------------------
(* The safety of ArmPair for every number of pairs and every set of         *)
(* providers: no unpaired provider call, overlapping windows, results that  *)
(* agree with the journal, and no run that goes on after it is damaged.     *)
EXTENDS ArmPair, TLAPS

-----------------------------------------------------------------------------
(* The inductive invariant *)

\* Where an arm is: before the first meeting, between the two, past the second, or
\* on its way out.
Before  == {"mkdir", "prepare", "plan", "arrive1", "wait1"}
Between == {"stamp", "arrive2", "wait2"}
Inside  == {"enter", "account", "answer", "returned", "validate", "complete", "finally", "verify"}
Leaving == {"handler", "failing", "done", "raised"}
Places  == Before \cup Between \cup Inside \cup Leaving \cup {"alone"}

Arm == [pc : Places, err : {"none", "other", "journal"},
        journal : {"none", "planned", "dispatched", "completed"},
        synced : BOOLEAN, dispatched : BOOLEAN, entered : BOOLEAN,
        started : Nat, finished : Nat]

Logical == Pairs \X Roles

\* Every variable has its type.
TypeOK ==
  /\ provider \in {"claude", "codex", "fake"}
  /\ run \in [pair : Pairs, state : {"pair", "arms", "audit", "published", "failed"}]
  /\ first \in Roles
  /\ barrier \in [state : {"filling", "draining", "broken"}, count : {0, 1}]
  /\ clock \in Nat
  /\ arm \in [Roles -> Arm]
  /\ phase \in [Logical -> {"none", "planned", "dispatched", "completed", "failed"}]
  /\ broken \in BOOLEAN /\ unaccounted \in BOOLEAN
  /\ transmitted \in [Logical -> BOOLEAN]
  /\ report \in [Logical -> {"none", "completed", "error"}]

Waiting(r) == arm[r].pc \in {"wait1", "wait2"}

\* What the place of a concurrent arm says about it.
PlaceInv ==
  \A r \in Roles :
    /\ arm[r].pc # "alone"
    /\ arm[r].pc \in Before \cup Between => ~arm[r].synced
    /\ arm[r].pc \in Inside => arm[r].synced
    /\ arm[r].entered <=> (arm[r].synced /\ arm[r].pc # "enter")

\* What the barrier says about the two arms together: while it fills, they have passed the
\* same meetings, unless one is on its way out; while it drains, one waits and the
\* other has just left; once it is broken nobody passes the second meeting.
Filling ==
  /\ \A r, q \in Roles : arm[r].pc \in Between => arm[q].pc \in Between
  /\ \A r, q \in Roles : arm[r].synced => arm[q].synced
  /\ \A r, q \in Roles : Waiting(r) /\ Waiting(q) => r = q
  /\ barrier.count = 1 <=> \E r \in Roles : Waiting(r)

Draining ==
  \E r, q \in Roles :
    /\ r # q
    /\ \/ arm[r].pc = "wait1" /\ arm[q].pc \in {"stamp", "arrive2"}
       \/ arm[r].pc = "wait2" /\ arm[q].synced

MeetingInv ==
  /\ barrier.state = "filling" => Filling
  /\ barrier.state = "draining" => Draining
  /\ barrier.state = "broken" => \A r \in Roles : ~arm[r].synced

\* A window ends after both have begun.
WindowInv ==
  \A r \in Roles :
    /\ arm[r].started <= clock
    /\ ~arm[r].synced => arm[r].finished = 0
    /\ arm[r].finished # 0 => \A q \in Roles : arm[q].started <= arm[r].finished
    /\ arm[r].pc = "verify" => arm[r].finished # 0
    /\ report[Here(r)] = "completed" => arm[r].finished # 0

\* What an arm x says about the phase p of its attempt, whether its prompt was sent (s), and
\* its reported status t.
Accounts(x, p, s, t) ==
  /\ x.pc \in {"mkdir", "prepare", "plan"} => x.journal = "none" /\ p = "none" /\ ~s
  /\ x.pc \in {"arrive1", "wait1", "alone"} \cup Between \cup Inside => x.journal # "none"
  /\ x.pc \in {"answer", "returned", "validate", "complete"} => s
  /\ x.journal = "completed" => p = "completed" /\ s
  /\ x.pc = "verify" => x.journal = "completed"
  /\ x.pc = "finally" /\ x.err = "none" => x.journal = "completed"
  /\ /\ x.journal = "none"
     /\ x.pc = "failing" \/ (x.pc = "handler" /\ x.err # "journal")
     => p = "none" /\ ~s
  /\ t # "none" => x.pc = "done"

JournalInv ==
  \A r \in Roles : Accounts(arm[r], phase[Here(r)], transmitted[Here(r)], report[Here(r)])

\* Nothing is known of arms the run has not come to.
Later(a) == a[1] > run.pair \/ (a[1] = run.pair /\ run.state = "pair")

FutureInv ==
  \A a \in Logical : Later(a) =>
    phase[a] = "none" /\ ~transmitted[a] /\ report[a] = "none"

IInv ==
  /\ TypeOK
  /\ run.state = "arms" /\ Concurrent => PlaceInv /\ MeetingInv /\ WindowInv
  /\ run.state = "arms" => JournalInv
  /\ FutureInv /\ ReportedIsSettled /\ DispatchedBeforePrompt

-----------------------------------------------------------------------------
(* Types *)

\* An arm of the pair the run is at is a logical arm.
LEMMA HereType == ASSUME TypeOK, NEW r \in Roles PROVE Here(r) \in Logical
  BY DEF TypeOK, Here, Logical

\* An arm that has done nothing has its type.
LEMMA FreshType == Fresh \in Arm /\ [r \in Roles |-> Fresh] \in [Roles -> Arm]
  BY DEF Fresh, Arm, Places, Before

\* The variables have their types initially.
LEMMA InitType == Init => TypeOK
<1> SUFFICES ASSUME Init PROVE TypeOK
  OBVIOUS
<1>1. 1 \in Pairs
  BY PairsAssumption DEF Pairs
<1>2. arm \in [Roles -> Arm]
  BY FreshType DEF Init
<1>3. provider \in {"claude", "codex", "fake"}
  BY ProvidersAssumption DEF Init
<1>4. /\ phase \in [Logical -> {"none", "planned", "dispatched", "completed", "failed"}]
      /\ transmitted \in [Logical -> BOOLEAN]
      /\ report \in [Logical -> {"none", "completed", "error"}]
  BY DEF Init, Logical
<1>5. /\ run \in [pair : Pairs, state : {"pair", "arms", "audit", "published", "failed"}]
      /\ barrier \in [state : {"filling", "draining", "broken"}, count : {0, 1}]
  BY <1>1 DEF Init
<1>6. first \in Roles /\ clock \in Nat /\ broken \in BOOLEAN /\ unaccounted \in BOOLEAN
  BY DEF Init, Roles
<1>7. QED
  BY <1>2, <1>3, <1>4, <1>5, <1>6 DEF TypeOK

\* An accepted or refused call moves the phase of one arm along, or nothing.
LEMMA LedgerStep ==
  ASSUME TypeOK, NEW a \in Logical, NEW e \in DOMAIN Required, Accept(a, e) \/ Refuse(a, e)
  PROVE  /\ \/ phase' = phase
            \/ phase[a] = Required[e] /\ phase' = [phase EXCEPT ![a] = Reached[e]]
         /\ phase' \in [Logical -> {"none", "planned", "dispatched", "completed", "failed"}]
         /\ broken' \in BOOLEAN /\ unaccounted' \in BOOLEAN
         /\ Accept(a, e) => phase'[a] = Reached[e]
<1>1. \/ phase' = phase
      \/ phase[a] = Required[e] /\ phase' = [phase EXCEPT ![a] = Reached[e]]
  BY DEF Accept, Refuse, Admits
<1>2. Reached[e] \in {"none", "planned", "dispatched", "completed", "failed"}
  BY DEF Required, Reached
<1>3. phase' \in [Logical -> {"none", "planned", "dispatched", "completed", "failed"}]
  BY <1>1, <1>2 DEF TypeOK
<1>4. broken' \in BOOLEAN /\ unaccounted' \in BOOLEAN
  BY DEF Accept, Refuse, TypeOK
<1>5. Accept(a, e) => phase'[a] = Reached[e]
  BY DEF Accept, TypeOK
<1>6. QED
  BY <1>1, <1>3, <1>4, <1>5

-----------------------------------------------------------------------------
(* What the actions do to an arm *)

\* The places, one by one.
LEMMA AllPlaces ==
  Places = {"mkdir", "prepare", "plan", "arrive1", "wait1", "stamp", "arrive2", "wait2", "enter",
            "account", "answer", "returned", "validate", "complete", "finally", "verify",
            "handler", "failing", "done", "raised", "alone"}
  BY DEF Places, Before, Between, Inside, Leaving

\* The local states of the arms have their types.
Arms == arm \in [Roles -> Arm]

\* Arm r becomes x, the other stays as it is.
Becomes(r, x) ==
  x \in Arm /\ arm'[r] = x /\ arm' \in [Roles -> Arm] /\ \A q \in Roles : q # r => arm'[q] = arm[q]

\* Setting one arm to a value of its type makes it that value and leaves the other.
LEMMA ArmSet ==
  ASSUME Arms, NEW r \in Roles, NEW x \in Arm, arm' = [arm EXCEPT ![r] = x]
  PROVE  Becomes(r, x)
  BY DEF Arms, Becomes

\* Goto changes the place of one arm and nothing else of it.
LEMMA GotoIs ==
  ASSUME Arms, NEW r \in Roles, NEW pc \in Places, Goto(r, pc)
  PROVE  Becomes(r, [arm[r] EXCEPT !.pc = pc])
<1> DEFINE x == [arm[r] EXCEPT !.pc = pc]
<1>1. x \in Arm
  BY DEF Arms, Arm
<1>2. arm' = [arm EXCEPT ![r] = x]
  BY DEF Goto
<1> HIDE DEF x
<1>3. Becomes(r, x)
  BY <1>1, <1>2, ArmSet
<1>4. QED
  BY <1>3 DEF x

\* Throw changes the place and the error of one arm.
LEMMA ThrowIs ==
  ASSUME Arms, NEW r \in Roles, NEW pc \in Places, NEW err \in {"none", "other", "journal"},
         Throw(r, pc, err)
  PROVE  Becomes(r, [arm[r] EXCEPT !.pc = pc, !.err = err])
<1> DEFINE x == [arm[r] EXCEPT !.pc = pc, !.err = err]
<1>1. x \in Arm
  BY DEF Arms, Arm
<1>2. arm' = [arm EXCEPT ![r] = x]
  BY DEF Throw
<1> HIDE DEF x
<1>3. Becomes(r, x)
  BY <1>1, <1>2, ArmSet
<1>4. QED
  BY <1>3 DEF x

\* An arm that has met the other one.
LEMMA PassedIs ==
  ASSUME Arms, NEW r \in Roles, NEW pc \in {"arrive1", "wait1", "arrive2", "wait2"}, Passed(r, pc)
  PROVE  Becomes(r, [arm[r] EXCEPT !.pc = Past[pc], !.synced = (pc \in {"arrive2", "wait2"})])
<1> DEFINE x == [arm[r] EXCEPT !.pc = Past[pc], !.synced = (pc \in {"arrive2", "wait2"})]
<1>1. /\ Past[pc] \in Places /\ (Past[pc] = "enter") \in BOOLEAN
      /\ (Past[pc] = "enter") = (pc \in {"arrive2", "wait2"})
  BY AllPlaces DEF Past
<1>2. x \in Arm
  BY <1>1 DEF Arms, Arm
<1>3. arm' = [arm EXCEPT ![r] = x]
  BY <1>1 DEF Passed
<1> HIDE DEF x
<1>4. Becomes(r, x)
  BY <1>2, <1>3, ArmSet
<1>5. QED
  BY <1>4 DEF x
\* An arm that is planned goes to the barrier, or on alone.
LEMMA PlannedIs ==
  ASSUME Arms, NEW r \in Roles,
         arm' = [arm EXCEPT ![r].journal = "planned",
                            ![r].pc = IF Concurrent THEN "arrive1" ELSE "alone"]
  PROVE  Becomes(r, [arm[r] EXCEPT !.journal = "planned", !.pc = IF Concurrent THEN "arrive1" ELSE "alone"])
<1> DEFINE x == [arm[r] EXCEPT !.journal = "planned", !.pc = IF Concurrent THEN "arrive1" ELSE "alone"]
<1>1. (IF Concurrent THEN "arrive1" ELSE "alone") \in Places
  BY AllPlaces
<1>2. x \in Arm
  BY <1>1 DEF Arms, Arm
<1>3. arm' = [arm EXCEPT ![r] = x]
  OBVIOUS
<1> HIDE DEF x
<1>4. Becomes(r, x)
  BY <1>2, <1>3, ArmSet
<1>5. QED
  BY <1>4 DEF x

\* The start of the window.
LEMMA StampIs ==
  ASSUME Arms, NEW r \in Roles, clock \in Nat, Stamp(r)
  PROVE  Becomes(r, [arm[r] EXCEPT !.started = clock + 1, !.synced = ~Concurrent, !.pc = IF Concurrent THEN "arrive2" ELSE "enter"])
<1> DEFINE x == [arm[r] EXCEPT !.started = clock + 1, !.synced = ~Concurrent, !.pc = IF Concurrent THEN "arrive2" ELSE "enter"]
<1>1. /\ (IF Concurrent THEN "arrive2" ELSE "enter") \in Places
      /\ (~Concurrent) \in BOOLEAN /\ clock + 1 \in Nat
  BY AllPlaces DEF Concurrent
<1>2. x \in Arm
  BY <1>1 DEF Arms, Arm
<1>3. arm' = [arm EXCEPT ![r] = x]
  BY DEF Stamp
<1> HIDE DEF x
<1>4. Becomes(r, x)
  BY <1>2, <1>3, ArmSet
<1>5. QED
  BY <1>4 DEF x

\* The provider is called, up to the dispatch callback.
LEMMA EnterIs ==
  ASSUME Arms, NEW r \in Roles, NEW err \in {"none", "other"},
         arm' = [arm EXCEPT ![r].entered = TRUE, ![r].err = err,
                            ![r].pc = IF err = "other" THEN "finally"
                                      ELSE IF provider = "fake" THEN "answer"
                                      ELSE "account"]
  PROVE  Becomes(r, [arm[r] EXCEPT !.entered = TRUE, !.err = err, !.pc = IF err = "other" THEN "finally"
                                             ELSE IF provider = "fake" THEN "answer"
                                             ELSE "account"])
<1> DEFINE x == [arm[r] EXCEPT !.entered = TRUE, !.err = err, !.pc = IF err = "other" THEN "finally"
                                             ELSE IF provider = "fake" THEN "answer"
                                             ELSE "account"]
<1>1. /\ {"finally", "answer", "account"} \subseteq Places
      /\ TRUE \in BOOLEAN
  BY AllPlaces
<1>2. x \in Arm
  BY <1>1 DEF Arms, Arm
<1>3. arm' = [arm EXCEPT ![r] = x]
  OBVIOUS
<1> HIDE DEF x
<1>4. Becomes(r, x)
  BY <1>2, <1>3, ArmSet
<1>5. QED
  BY <1>4 DEF x

\* The dispatch is accounted from the callback.
LEMMA DispatchedIs ==
  ASSUME Arms, NEW r \in Roles,
         arm' = [arm EXCEPT ![r].dispatched = TRUE, ![r].pc = "answer"]
  PROVE  Becomes(r, [arm[r] EXCEPT !.dispatched = TRUE, !.pc = "answer"])
<1> DEFINE x == [arm[r] EXCEPT !.dispatched = TRUE, !.pc = "answer"]
<1>1. "answer" \in Places
  BY AllPlaces
<1>2. x \in Arm
  BY <1>1 DEF Arms, Arm
<1>3. arm' = [arm EXCEPT ![r] = x]
  OBVIOUS
<1> HIDE DEF x
<1>4. Becomes(r, x)
  BY <1>2, <1>3, ArmSet
<1>5. QED
  BY <1>4 DEF x

\* The dispatch has been accounted by the callback.
LEMMA LateIs ==
  ASSUME Arms, NEW r \in Roles,
         arm' = [arm EXCEPT ![r].journal = "dispatched", ![r].pc = "validate"]
  PROVE  Becomes(r, [arm[r] EXCEPT !.journal = "dispatched", !.pc = "validate"])
<1> DEFINE x == [arm[r] EXCEPT !.journal = "dispatched", !.pc = "validate"]
<1>1. "validate" \in Places
  BY AllPlaces
<1>2. x \in Arm
  BY <1>1 DEF Arms, Arm
<1>3. arm' = [arm EXCEPT ![r] = x]
  OBVIOUS
<1> HIDE DEF x
<1>4. Becomes(r, x)
  BY <1>2, <1>3, ArmSet
<1>5. QED
  BY <1>4 DEF x

\* The dispatch is accounted after the return.
LEMMA LateDispatchIs ==
  ASSUME Arms, NEW r \in Roles,
         arm' = [arm EXCEPT ![r].journal = "dispatched", ![r].dispatched = TRUE,
                            ![r].pc = "validate"]
  PROVE  Becomes(r, [arm[r] EXCEPT !.journal = "dispatched", !.dispatched = TRUE, !.pc = "validate"])
<1> DEFINE x == [arm[r] EXCEPT !.journal = "dispatched", !.dispatched = TRUE, !.pc = "validate"]
<1>1. "validate" \in Places
  BY AllPlaces
<1>2. x \in Arm
  BY <1>1 DEF Arms, Arm
<1>3. arm' = [arm EXCEPT ![r] = x]
  OBVIOUS
<1> HIDE DEF x
<1>4. Becomes(r, x)
  BY <1>2, <1>3, ArmSet
<1>5. QED
  BY <1>4 DEF x

\* The attempt is completed in the journal.
LEMMA CompletedIs ==
  ASSUME Arms, NEW r \in Roles,
         arm' = [arm EXCEPT ![r].journal = "completed", ![r].pc = "finally"]
  PROVE  Becomes(r, [arm[r] EXCEPT !.journal = "completed", !.pc = "finally"])
<1> DEFINE x == [arm[r] EXCEPT !.journal = "completed", !.pc = "finally"]
<1>1. "finally" \in Places
  BY AllPlaces
<1>2. x \in Arm
  BY <1>1 DEF Arms, Arm
<1>3. arm' = [arm EXCEPT ![r] = x]
  OBVIOUS
<1> HIDE DEF x
<1>4. Becomes(r, x)
  BY <1>2, <1>3, ArmSet
<1>5. QED
  BY <1>4 DEF x

\* The end of the window, with the exception that is on its way.
LEMMA FinallyIs ==
  ASSUME Arms, NEW r \in Roles, NEW err \in {"none", "other", "journal"}, clock' \in Nat,
         arm' = [arm EXCEPT ![r].finished = clock', ![r].err = err,
                            ![r].pc = IF err = "none" THEN "verify" ELSE "handler"]
  PROVE  Becomes(r, [arm[r] EXCEPT !.finished = clock', !.err = err, !.pc = IF err = "none" THEN "verify" ELSE "handler"])
<1> DEFINE x == [arm[r] EXCEPT !.finished = clock', !.err = err, !.pc = IF err = "none" THEN "verify" ELSE "handler"]
<1>1. {"verify", "handler"} \subseteq Places
  BY AllPlaces
<1>2. x \in Arm
  BY <1>1 DEF Arms, Arm
<1>3. arm' = [arm EXCEPT ![r] = x]
  OBVIOUS
<1> HIDE DEF x
<1>4. Becomes(r, x)
  BY <1>2, <1>3, ArmSet
<1>5. QED
  BY <1>4 DEF x

\* A step to another place, with or without an exception, is one of a single arm.
LEMMA GoesOrThrows ==
  ASSUME Arms, NEW r \in Roles,
         \/ \E pc \in Places : Goto(r, pc)
         \/ \E pc \in Places, err \in {"none", "other", "journal"} : Throw(r, pc, err)
  PROVE  \E x : Becomes(r, x)
<1>1. ASSUME NEW pc \in Places, Goto(r, pc) PROVE \E x : Becomes(r, x)
  BY <1>1, GotoIs
<1>2. ASSUME NEW pc \in Places, NEW err \in {"none", "other", "journal"}, Throw(r, pc, err)
      PROVE  \E x : Becomes(r, x)
  BY <1>2, ThrowIs
<1>3. QED
  BY <1>1, <1>2

\* A step of one arm leaves the other one alone.
LEMMA OneArm ==
  ASSUME TypeOK, NEW r \in Roles, ArmStep(r)
  PROVE  \E x : Becomes(r, x)
<1> USE AllPlaces
<1>a. Arms /\ clock \in Nat /\ arm[r].err \in {"none", "other", "journal"}
  BY DEF TypeOK, Arms, Arm
<1>1. CASE MakeDirectories(r)
  BY <1>a, <1>1, GotoIs DEF MakeDirectories
<1>2. CASE Prepare(r)
  <2>1. Goto(r, "plan") \/ Throw(r, "handler", "other")
    BY <1>2 DEF Prepare
  <2>2. QED
    BY <1>a, <2>1, GoesOrThrows
<1>3. CASE Plan(r)
  <2>1. CASE Throw(r, "handler", "journal")
    BY <1>a, <2>1, GoesOrThrows
  <2>2. CASE arm' = [arm EXCEPT ![r].journal = "planned",
                                ![r].pc = IF Concurrent THEN "arrive1" ELSE "alone"]
    BY <1>a, <2>2, PlannedIs
  <2>3. QED
    BY <1>3, <2>1, <2>2 DEF Plan
<1>4. CASE Arrive(r)
  <2>1. PICK pc \in {"arrive1", "arrive2"} :
          Throw(r, "handler", "other") \/ Goto(r, Wait[pc]) \/ Passed(r, pc)
    BY <1>4 DEF Arrive, Wait
  <2>2. Wait[pc] \in Places
    BY DEF Wait
  <2>3. CASE Throw(r, "handler", "other")
    BY <1>a, <2>3, ThrowIs
  <2>4. CASE Goto(r, Wait[pc])
    BY <1>a, <2>2, <2>4, GotoIs
  <2>5. CASE Passed(r, pc)
    BY <1>a, <2>5, PassedIs
  <2>6. QED
    BY <2>1, <2>3, <2>4, <2>5
<1>5. CASE Wake(r)
  <2>1. PICK pc \in {"wait1", "wait2"} : Throw(r, "handler", "other") \/ Passed(r, pc)
    BY <1>5 DEF Wake
  <2>2. CASE Throw(r, "handler", "other")
    BY <1>a, <2>2, GoesOrThrows
  <2>3. CASE Passed(r, pc)
    BY <1>a, <2>3, PassedIs
  <2>4. QED
    BY <2>1, <2>2, <2>3
<1>6. CASE TimeOut(r)
  BY <1>a, <1>6, ThrowIs DEF TimeOut
<1>7. CASE Stamp(r)
  BY <1>a, <1>7, StampIs
<1>8. CASE Enter(r)
  <2>1. PICK err \in {"none", "other"} :
          arm' = [arm EXCEPT ![r].entered = TRUE, ![r].err = err,
                             ![r].pc = IF err = "other" THEN "finally"
                                       ELSE IF provider = "fake" THEN "answer"
                                       ELSE "account"]
    BY <1>8 DEF Enter
  <2>2. QED
    BY <1>a, <2>1, EnterIs
<1>9. CASE Account(r)
  <2>1. CASE Throw(r, "finally", IF provider = "codex" THEN "other" ELSE "journal")
    BY <1>a, <2>1, GoesOrThrows
  <2>2. CASE arm' = [arm EXCEPT ![r].dispatched = TRUE, ![r].pc = "answer"]
    BY <1>a, <2>2, DispatchedIs
  <2>3. QED
    BY <1>9, <2>1, <2>2 DEF Account
<1>10. CASE Answer(r)
  <2>1. Goto(r, "returned") \/ Throw(r, "finally", "other")
    BY <1>10 DEF Answer
  <2>2. QED
    BY <1>a, <2>1, GoesOrThrows
<1>11. CASE AccountLate(r)
  <2>1. CASE Throw(r, "finally", "journal")
    BY <1>a, <2>1, GoesOrThrows
  <2>2. CASE arm' = [arm EXCEPT ![r].journal = "dispatched", ![r].pc = "validate"]
    BY <1>a, <2>2, LateIs
  <2>3. CASE arm' = [arm EXCEPT ![r].journal = "dispatched", ![r].dispatched = TRUE,
                                ![r].pc = "validate"]
    BY <1>a, <2>3, LateDispatchIs
  <2>4. QED
    BY <1>11, <2>1, <2>2, <2>3 DEF AccountLate
<1>12. CASE Validate(r)
  <2>1. Goto(r, "complete") \/ Throw(r, "finally", "other")
    BY <1>12 DEF Validate
  <2>2. QED
    BY <1>a, <2>1, GoesOrThrows
<1>13. CASE Complete(r)
  <2>1. CASE Throw(r, "finally", "journal")
    BY <1>a, <2>1, GoesOrThrows
  <2>2. CASE arm' = [arm EXCEPT ![r].journal = "completed", ![r].pc = "finally"]
    BY <1>a, <2>2, CompletedIs
  <2>3. QED
    BY <1>13, <2>1, <2>2 DEF Complete
<1>14. CASE Finally(r)
  <2>1. PICK err \in {arm[r].err, "other"} :
          arm' = [arm EXCEPT ![r].finished = clock', ![r].err = err,
                             ![r].pc = IF err = "none" THEN "verify" ELSE "handler"]
    BY <1>14 DEF Finally
  <2>2. err \in {"none", "other", "journal"} /\ clock' \in Nat
    BY <1>a, <1>14 DEF Finally
  <2>3. QED
    BY <1>a, <2>1, <2>2, FinallyIs
<1>15. CASE Verify(r)
  <2>1. CASE Goto(r, "done")
    BY <1>a, <2>1, GotoIs
  <2>2. CASE Throw(r, "handler", "other")
    BY <1>a, <2>2, ThrowIs
  <2>3. QED
    BY <1>15, <2>1, <2>2 DEF Verify
<1>16. CASE Abort(r)
  BY <1>a, <1>16, GotoIs DEF Abort
<1>17. CASE AccountFailure(r)
  <2>1. PICK pc \in {"done", "raised"} : Goto(r, pc)
    BY <1>17 DEF AccountFailure, ReportError
  <2>2. QED
    BY <1>a, <2>1, GotoIs
<1>18. QED
  BY <1>1, <1>2, <1>3, <1>4, <1>5, <1>6, <1>7, <1>8, <1>9, <1>10, <1>11, <1>12, <1>13, <1>14,
     <1>15, <1>16, <1>17 DEF ArmStep

\* What a step of an arm does to what is not its own.
LEMMA ArmFrame ==
  ASSUME TypeOK, NEW r \in Roles, ArmStep(r)
  PROVE  /\ UNCHANGED <<provider, run, first>> /\ run.state = "arms"
         /\ barrier' \in [state : {"filling", "draining", "broken"}, count : {0, 1}]
         /\ clock' \in Nat
         /\ \/ report' = report
            \/ \E s \in {"completed", "error"} : report' = [report EXCEPT ![Here(r)] = s]
         /\ \/ transmitted' = transmitted
            \/ transmitted' = [transmitted EXCEPT ![Here(r)] = TRUE]
         /\ \/ ledger' = ledger
            \/ \E e \in DOMAIN Required : Accept(Here(r), e) \/ Refuse(Here(r), e)
<1> DEFINE Ledger == \/ ledger' = ledger
                     \/ \E e \in DOMAIN Required : Accept(Here(r), e) \/ Refuse(Here(r), e)
           Barrier == barrier' \in [state : {"filling", "draining", "broken"}, count : {0, 1}]
           Report == \/ report' = report
                     \/ \E s \in {"completed", "error"} : report' = [report EXCEPT ![Here(r)] = s]
           Sent == \/ transmitted' = transmitted
                   \/ transmitted' = [transmitted EXCEPT ![Here(r)] = TRUE]
           Rest == UNCHANGED <<provider, run, first>> /\ run.state = "arms" /\ clock' \in Nat
<1>a. clock \in Nat /\ barrier \in [state : {"filling", "draining", "broken"}, count : {0, 1}]
  BY DEF TypeOK
<1>b. DOMAIN Required = {"plan", "dispatch", "complete", "fail_observed", "fail_unobserved"}
  BY DEF Required
<1>c. FailEvent(r) \in DOMAIN Required
  BY DEF FailEvent, Required
<1>1. CASE MakeDirectories(r) \/ Prepare(r) \/ Answer(r) \/ Validate(r) \/ Verify(r)
  BY <1>a, <1>1 DEF MakeDirectories, Prepare, Answer, Validate, Verify, At
<1>2. CASE Plan(r) \/ AccountLate(r) \/ Complete(r)
  <2>1. Ledger
    BY <1>b, <1>2 DEF Plan, AccountLate, Complete
  <2>2. Barrier /\ Report /\ Sent /\ Rest
    BY <1>a, <1>2 DEF Plan, AccountLate, Complete, At
  <2>3. QED
    BY <2>1, <2>2
<1>3. CASE Arrive(r) \/ Wake(r) \/ TimeOut(r) \/ Abort(r)
  <2>1. Barrier
    BY <1>a, <1>3 DEF Arrive, Wake, TimeOut, Abort, Break
  <2>2. Ledger /\ Report /\ Sent /\ Rest
    BY <1>a, <1>3 DEF Arrive, Wake, TimeOut, Abort, At
  <2>3. QED
    BY <2>1, <2>2
<1>4. CASE Stamp(r) \/ Finally(r) \/ Enter(r)
  BY <1>a, <1>4 DEF Stamp, Finally, Enter, Transmit, At
<1>5. CASE Account(r)
  <2>1. Ledger
    BY <1>b, <1>5 DEF Account
  <2>2. Barrier /\ Report /\ Sent /\ Rest
    BY <1>a, <1>5 DEF Account, Transmit, At
  <2>3. QED
    BY <2>1, <2>2
<1>6. CASE AccountFailure(r)
  <2>1. Ledger
    BY <1>c, <1>6 DEF AccountFailure
  <2>2. Barrier /\ Report /\ Sent /\ Rest
    BY <1>a, <1>6 DEF AccountFailure, ReportError, At
  <2>3. QED
    BY <2>1, <2>2
<1>7. QED
  BY <1>1, <1>2, <1>3, <1>4, <1>5, <1>6 DEF ArmStep

\* Every step keeps the types.
LEMMA TypeStep == TypeOK /\ [Next]_vars => TypeOK'
<1> SUFFICES ASSUME TypeOK, [Next]_vars PROVE TypeOK'
  OBVIOUS
<1>1. ASSUME NEW r \in Roles, ArmStep(r) PROVE TypeOK'
  <2>1. arm' \in [Roles -> Arm]
    BY <1>1, OneArm DEF Becomes
  <2>2. /\ phase' \in [Logical -> {"none", "planned", "dispatched", "completed", "failed"}]
        /\ broken' \in BOOLEAN /\ unaccounted' \in BOOLEAN
    <3>1. CASE ledger' = ledger
      BY <3>1 DEF TypeOK, ledger
    <3>2. CASE \E e \in DOMAIN Required : Accept(Here(r), e) \/ Refuse(Here(r), e)
      BY <3>2, HereType, LedgerStep
    <3>3. QED
      BY <1>1, <3>1, <3>2, ArmFrame
  <2>3. transmitted' \in [Logical -> BOOLEAN]
    <3>1. transmitted \in [Logical -> BOOLEAN]
      BY DEF TypeOK
    <3>2. QED
      BY <1>1, <3>1, ArmFrame
  <2>4. report' \in [Logical -> {"none", "completed", "error"}]
    <3>1. report \in [Logical -> {"none", "completed", "error"}]
      BY DEF TypeOK
    <3>2. QED
      BY <1>1, <3>1, ArmFrame
  <2>5. /\ UNCHANGED <<provider, run, first>> /\ clock' \in Nat
        /\ barrier' \in [state : {"filling", "draining", "broken"}, count : {0, 1}]
    BY <1>1, ArmFrame
  <2>6. QED
    BY <2>1, <2>2, <2>3, <2>4, <2>5 DEF TypeOK
<1>2. CASE BeginPair
  <2>1. arm' \in [Roles -> Arm]
    BY <1>2, FreshType DEF BeginPair
  <2>2. /\ run' \in [pair : Pairs, state : {"pair", "arms", "audit", "published", "failed"}]
        /\ barrier' \in [state : {"filling", "draining", "broken"}, count : {0, 1}]
    BY <1>2 DEF BeginPair, TypeOK
  <2>3. QED
    BY <1>2, <2>1, <2>2 DEF BeginPair, TypeOK, ledger
<1>3. CASE PairFails \/ EndPair \/ Publish
  <2>1. run.pair < NPairs => run.pair + 1 \in Pairs
    BY PairsAssumption DEF TypeOK, Pairs
  <2>2. run' \in [pair : Pairs, state : {"pair", "arms", "audit", "published", "failed"}]
    BY <1>3, <2>1 DEF PairFails, EndPair, Publish, TypeOK
  <2>3. UNCHANGED <<provider, first, barrier, clock, arm, ledger, transmitted, report>>
    BY <1>3 DEF PairFails, EndPair, Publish
  <2>4. QED
    BY <2>2, <2>3 DEF TypeOK, ledger
<1>4. CASE UNCHANGED vars
  BY <1>4 DEF vars, ledger, TypeOK
<1>5. QED
  BY <1>1, <1>2, <1>3, <1>4 DEF Next, RunStep, Over

-----------------------------------------------------------------------------
(* The two meetings *)

\* Two roles: an arm and the other one.
LEMMA TwoRoles ==
  ASSUME NEW r \in Roles
  PROVE  \E q \in Roles : q # r /\ Roles = {r, q}
  BY DEF Roles

\* An arm that moves on its own, meeting nobody.
OnItsOwn(a, b) ==
  /\ {a, b} \cap {"wait1", "wait2", "alone"} = {}
  /\ a \in Between <=> b \in Between
  /\ b \in Before => a \in Before
  /\ b \in Inside => a \in Inside

\* An arm that moves on its own leaves the two as they met.
LEMMA MovesAlone ==
  ASSUME TypeOK, PlaceInv, MeetingInv, NEW r \in Roles, NEW x, Becomes(r, x),
         x.synced = arm[r].synced, x.entered <=> (x.synced /\ x.pc # "enter"),
         OnItsOwn(arm[r].pc, x.pc),
         barrier' = barrier
  PROVE  PlaceInv' /\ MeetingInv'
<1>1. PICK q \in Roles : q # r /\ Roles = {r, q}
  BY TwoRoles
<1>2. arm'[r] = x /\ arm'[q] = arm[q]
  BY <1>1 DEF Becomes
<1>3. PlaceInv'
  <2>1. x.pc # "alone"
    BY DEF OnItsOwn
  <2>2. x.pc \in Before \cup Between => ~x.synced
    BY DEF PlaceInv, OnItsOwn
  <2>3. x.pc \in Inside => x.synced
    BY DEF PlaceInv, OnItsOwn
  <2>4. QED
    BY <1>1, <1>2, <2>1, <2>2, <2>3 DEF PlaceInv
<1>4. ~Waiting(r) /\ ~Waiting(r)' /\ (Waiting(q)' <=> Waiting(q))
  BY <1>2 DEF Waiting, OnItsOwn
<1>5. ASSUME Filling PROVE Filling'
  <2>1. \A a, b \in Roles : arm'[a].pc \in Between => arm'[b].pc \in Between
    BY <1>1, <1>2, <1>5 DEF Filling, OnItsOwn
  <2>2. \A a, b \in Roles : arm'[a].synced => arm'[b].synced
    BY <1>1, <1>2, <1>5 DEF Filling
  <2>3. \A a, b \in Roles : Waiting(a)' /\ Waiting(b)' => a = b
    BY <1>1, <1>4
  <2>4. barrier'.count = 1 <=> \E a \in Roles : Waiting(a)'
    BY <1>1, <1>4, <1>5 DEF Filling
  <2>5. QED
    BY <2>1, <2>2, <2>3, <2>4 DEF Filling
<1>6. ASSUME Draining PROVE Draining'
  <2>1. \/ arm[q].pc = "wait1" /\ arm[r].pc \in {"stamp", "arrive2"}
        \/ arm[q].pc = "wait2" /\ arm[r].synced
    BY <1>1, <1>4, <1>6 DEF Draining, Waiting
  <2>2. \/ arm'[q].pc = "wait1" /\ arm'[r].pc \in {"stamp", "arrive2"}
        \/ arm'[q].pc = "wait2" /\ arm'[r].synced
    BY <1>2, <2>1 DEF OnItsOwn, Between
  <2>3. QED
    BY <1>1, <2>2 DEF Draining
<1>7. (\A a \in Roles : ~arm[a].synced) => \A a \in Roles : ~arm'[a].synced
  BY <1>1, <1>2
<1>8. MeetingInv'
  BY <1>5, <1>6, <1>7 DEF MeetingInv
<1>9. QED
  BY <1>3, <1>8

\* An arm that leaves without having passed the second meeting, and the barrier is broken.
LEMMA Leaves ==
  ASSUME TypeOK, PlaceInv, NEW r \in Roles, NEW x, Becomes(r, x),
         \A a \in Roles : ~arm[a].synced,
         arm[r].pc # "alone", x.pc \in Leaving, ~x.synced, x.entered = arm[r].entered,
         barrier'.state = "broken"
  PROVE  PlaceInv' /\ MeetingInv'
<1>1. PICK q \in Roles : q # r /\ Roles = {r, q}
  BY TwoRoles
<1>2. arm'[r] = x /\ arm'[q] = arm[q]
  BY <1>1 DEF Becomes
<1>3. ~x.entered
  BY DEF PlaceInv
<1>4. PlaceInv'
  BY <1>1, <1>2, <1>3 DEF PlaceInv, Before, Between, Inside, Leaving
<1>5. MeetingInv'
  BY <1>1, <1>2 DEF MeetingInv
<1>6. QED
  BY <1>4, <1>5

\* A timeout at the barrier breaks it while nobody is past the second meeting.
LEMMA TimeOutMeets ==
  ASSUME TypeOK, PlaceInv, MeetingInv, NEW r \in Roles, TimeOut(r)
  PROVE  PlaceInv' /\ MeetingInv'
<1> DEFINE x == [arm[r] EXCEPT !.pc = "handler", !.err = "other"]
<1>1. Becomes(r, x)
  BY AllPlaces, ThrowIs DEF TimeOut, TypeOK, Arms
<1>2. x.pc = "handler" /\ x.synced = arm[r].synced /\ x.entered = arm[r].entered
  BY DEF TypeOK, Arm
<1> HIDE DEF x
<1>3. ~arm[r].synced /\ arm[r].pc # "alone"
  BY DEF TimeOut, PlaceInv, Before, Between
<1>4. \A a \in Roles : ~arm[a].synced
  BY <1>3 DEF TimeOut, MeetingInv, Filling
<1>5. barrier'.state = "broken"
  BY DEF TimeOut
<1>6. QED
  BY <1>1, <1>2, <1>3, <1>4, <1>5, Leaves DEF Leaving

\* An arm that breaks the barrier is not past the second meeting, so neither is the other.
LEMMA AbortMeets ==
  ASSUME TypeOK, Concurrent, PlaceInv, MeetingInv, NEW r \in Roles, Abort(r)
  PROVE  PlaceInv' /\ MeetingInv'
<1>1. PICK pc \in {"raised", "failing"} : Goto(r, pc)
  BY DEF Abort
<1> DEFINE x == [arm[r] EXCEPT !.pc = pc]
<1>2. Becomes(r, x)
  BY <1>1, AllPlaces, GotoIs DEF TypeOK, Arms
<1>3. x.pc = pc /\ x.synced = arm[r].synced /\ x.entered = arm[r].entered
  BY DEF TypeOK, Arm
<1> HIDE DEF x
<1>4. arm[r].pc = "handler"
  BY DEF Abort, At
<1>5. CASE arm[r].synced
  <2>1. barrier' = barrier
    BY <1>5 DEF Abort
  <2>2. x.entered <=> (x.synced /\ x.pc # "enter")
    BY <1>3, <1>4 DEF PlaceInv
  <2>3. OnItsOwn(arm[r].pc, x.pc)
    BY <1>3, <1>4 DEF OnItsOwn, Before, Between, Inside
  <2>4. QED
    BY <1>2, <1>3, <2>1, <2>2, <2>3, MovesAlone
<1>6. CASE ~arm[r].synced
  <2>1. PICK q \in Roles : q # r /\ Roles = {r, q}
    BY TwoRoles
  <2>2. ~Draining
    BY <1>4, <1>6, <2>1 DEF Draining
  <2>3. ~arm[q].synced
    BY <1>6, <2>2 DEF MeetingInv, Filling, TypeOK
  <2>4. barrier'.state = "broken"
    BY <1>6 DEF Abort, Break, TypeOK
  <2>5. QED
    BY <1>2, <1>3, <1>4, <1>6, <2>1, <2>3, <2>4, Leaves DEF Leaving
<1>7. QED
  BY <1>5, <1>6

\* Arriving first: the other arm has passed as many meetings, or is leaving.
LEMMA Waits ==
  ASSUME TypeOK, PlaceInv, Filling, NEW r \in Roles, NEW pc \in {"arrive1", "arrive2"},
         arm[r].pc = pc, barrier.count = 0, Goto(r, Wait[pc]),
         barrier' = [barrier EXCEPT !.count = 1], barrier.state = "filling"
  PROVE  PlaceInv' /\ MeetingInv'
<1> DEFINE x == [arm[r] EXCEPT !.pc = Wait[pc]]
<1>1. Wait[pc] \in {"wait1", "wait2"} /\ (Wait[pc] \in Between <=> pc \in Between)
  BY DEF Wait, Between
<1>2. Becomes(r, x)
  BY <1>1, AllPlaces, GotoIs DEF TypeOK, Arms
<1>3. x.pc = Wait[pc] /\ x.synced = arm[r].synced /\ x.entered = arm[r].entered
  BY DEF TypeOK, Arm
<1> HIDE DEF x
<1>4. PICK q \in Roles : q # r /\ Roles = {r, q}
  BY TwoRoles
<1>5. arm'[r] = x /\ arm'[q] = arm[q]
  BY <1>2, <1>4 DEF Becomes
<1>6. ~Waiting(q) /\ ~Waiting(q)' /\ Waiting(r)'
  BY <1>1, <1>3, <1>5 DEF Filling, Waiting
<1>7. ~arm[r].synced /\ ~x.synced /\ ~x.entered
  BY <1>3 DEF PlaceInv, Before, Between
<1>8. PlaceInv'
  BY <1>1, <1>3, <1>4, <1>5, <1>7 DEF PlaceInv, Before, Between, Inside
<1>9. barrier'.state = "filling" /\ barrier'.count = 1
  BY DEF TypeOK
<1>10. Filling'
  <2>1. \A a, b \in Roles : arm'[a].pc \in Between => arm'[b].pc \in Between
    BY <1>1, <1>3, <1>4, <1>5 DEF Filling
  <2>2. \A a, b \in Roles : arm'[a].synced => arm'[b].synced
    BY <1>3, <1>4, <1>5 DEF Filling
  <2>3. \A a, b \in Roles : Waiting(a)' /\ Waiting(b)' => a = b
    BY <1>4, <1>6
  <2>4. QED
    BY <1>6, <1>9, <2>1, <2>2, <2>3 DEF Filling
<1>11. QED
  BY <1>8, <1>9, <1>10 DEF MeetingInv

\* Arriving second: the other arm waits at the same meeting.
LEMMA Opens ==
  ASSUME TypeOK, PlaceInv, Filling, NEW r \in Roles, NEW pc \in {"arrive1", "arrive2"},
         arm[r].pc = pc, barrier.count # 0, Passed(r, pc),
         barrier' = [barrier EXCEPT !.state = "draining"]
  PROVE  PlaceInv' /\ MeetingInv'
<1> DEFINE x == [arm[r] EXCEPT !.pc = Past[pc], !.synced = (pc \in {"arrive2", "wait2"})]
<1>1. Becomes(r, x)
  BY PassedIs DEF TypeOK, Arms
<1>2. /\ x.pc = Past[pc] /\ x.entered = arm[r].entered
      /\ x.synced <=> pc = "arrive2"
  <2>1. arm[r] \in Arm
    BY DEF TypeOK
  <2>2. x.pc = Past[pc] /\ x.entered = arm[r].entered
    BY <2>1 DEF Arm
  <2>3. x.synced = (pc \in {"arrive2", "wait2"})
    BY <2>1 DEF Arm
  <2>4. QED
    BY <2>2, <2>3
<1> HIDE DEF x
<1>3. PICK q \in Roles : q # r /\ Roles = {r, q}
  BY TwoRoles
<1>4. arm'[r] = x /\ arm'[q] = arm[q]
  BY <1>1, <1>3 DEF Becomes
<1>5. Waiting(q)
  BY <1>3 DEF Filling, Waiting, TypeOK
<1>6. ~arm[r].synced /\ ~arm[r].entered
  BY DEF PlaceInv, Before, Between
<1>7. \/ pc = "arrive1" /\ x.pc = "stamp" /\ arm[q].pc = "wait1"
      \/ pc = "arrive2" /\ x.pc = "enter" /\ arm[q].pc = "wait2"
  BY <1>2, <1>3, <1>5 DEF Waiting, Filling, Between, Past
<1>8. PlaceInv'
  BY <1>2, <1>3, <1>4, <1>6, <1>7 DEF PlaceInv, Before, Between, Inside
<1>9. Draining'
  BY <1>2, <1>3, <1>4, <1>7 DEF Draining
<1>10. barrier'.state = "draining"
  BY DEF TypeOK
<1>11. QED
  BY <1>8, <1>9, <1>10 DEF MeetingInv

\* Arriving: the first arm waits, the second opens the barrier.
LEMMA ArriveMeets ==
  ASSUME TypeOK, PlaceInv, MeetingInv, NEW r \in Roles, Arrive(r)
  PROVE  PlaceInv' /\ MeetingInv'
<1>1. PICK pc \in {"arrive1", "arrive2"} :
        /\ arm[r].pc = pc /\ barrier.state # "draining"
        /\ \/ barrier.state = "broken" /\ Throw(r, "handler", "other") /\ UNCHANGED barrier
           \/ /\ barrier.state # "broken" /\ barrier.count = 0
              /\ barrier' = [barrier EXCEPT !.count = 1] /\ Goto(r, Wait[pc])
           \/ /\ barrier.state # "broken" /\ barrier.count # 0
              /\ barrier' = [barrier EXCEPT !.state = "draining"] /\ Passed(r, pc)
  BY DEF Arrive, At, Wait
<1>2. CASE barrier.state = "broken"
  <2> DEFINE x == [arm[r] EXCEPT !.pc = "handler", !.err = "other"]
  <2>1. Becomes(r, x)
    BY <1>1, <1>2, AllPlaces, ThrowIs DEF TypeOK, Arms
  <2>2. x.pc = "handler" /\ x.synced = arm[r].synced /\ x.entered = arm[r].entered
    BY DEF TypeOK, Arm
  <2> HIDE DEF x
  <2>3. (\A a \in Roles : ~arm[a].synced) /\ barrier'.state = "broken" /\ arm[r].pc # "alone"
    BY <1>1, <1>2 DEF MeetingInv
  <2>4. QED
    BY <2>1, <2>2, <2>3, Leaves DEF Leaving
<1>3. CASE barrier.state = "filling"
  <2>1. Filling
    BY <1>3 DEF MeetingInv
  <2>2. QED
    BY <1>1, <1>3, <2>1, Waits, Opens
<1>4. QED
  BY <1>1, <1>2, <1>3 DEF TypeOK

\* Waking up: the other arm has left the same meeting.
LEMMA WakeMeets ==
  ASSUME TypeOK, PlaceInv, MeetingInv, NEW r \in Roles, Wake(r)
  PROVE  PlaceInv' /\ MeetingInv'
<1>1. PICK pc \in {"wait1", "wait2"} :
        /\ arm[r].pc = pc
        /\ \/ /\ barrier.state = "draining" /\ barrier' = [state |-> "filling", count |-> 0]
              /\ Passed(r, pc)
           \/ /\ barrier.state = "broken" /\ barrier' = [barrier EXCEPT !.count = 0]
              /\ Throw(r, "handler", "other")
  BY DEF Wake, At
<1>2. CASE barrier.state = "broken"
  <2> DEFINE x == [arm[r] EXCEPT !.pc = "handler", !.err = "other"]
  <2>1. Becomes(r, x)
    BY <1>1, <1>2, AllPlaces, ThrowIs DEF TypeOK, Arms
  <2>2. x.pc = "handler" /\ x.synced = arm[r].synced /\ x.entered = arm[r].entered
    BY DEF TypeOK, Arm
  <2> HIDE DEF x
  <2>3. (\A a \in Roles : ~arm[a].synced) /\ barrier'.state = "broken" /\ arm[r].pc # "alone"
    BY <1>1, <1>2 DEF MeetingInv, TypeOK
  <2>4. QED
    BY <2>1, <2>2, <2>3, Leaves DEF Leaving
<1>3. CASE barrier.state = "draining"
  <2> DEFINE x == [arm[r] EXCEPT !.pc = Past[pc], !.synced = (pc \in {"arrive2", "wait2"})]
  <2>1. Becomes(r, x)
    BY <1>1, <1>3, PassedIs DEF TypeOK, Arms
  <2>2. /\ x.pc = Past[pc] /\ x.entered = arm[r].entered
        /\ x.synced <=> pc = "wait2"
    <3>1. arm[r] \in Arm
      BY DEF TypeOK
    <3>2. x.pc = Past[pc] /\ x.entered = arm[r].entered
      BY <3>1 DEF Arm
    <3>3. x.synced = (pc \in {"arrive2", "wait2"})
      BY <3>1 DEF Arm
    <3>4. QED
      BY <3>2, <3>3
  <2> HIDE DEF x
  <2>3. PICK q \in Roles : q # r /\ Roles = {r, q}
    BY TwoRoles
  <2>4. arm'[r] = x /\ arm'[q] = arm[q]
    BY <2>1, <2>3 DEF Becomes
  <2>5. ~arm[r].synced /\ ~arm[r].entered
    BY <1>1 DEF PlaceInv, Before, Between
  <2>6. Draining
    BY <1>3 DEF MeetingInv
  <2>7. \/ pc = "wait1" /\ x.pc = "stamp" /\ arm[q].pc \in {"stamp", "arrive2"}
        \/ pc = "wait2" /\ x.pc = "enter" /\ arm[q].synced
    BY <1>1, <2>2, <2>3, <2>5, <2>6 DEF Draining, Past
  <2>8. arm[q].synced => arm[q].pc \notin Before \cup Between
    BY <2>3 DEF PlaceInv
  <2>9. ~Waiting(q)' /\ ~Waiting(r)' /\ (arm[q].pc \in Between <=> pc = "wait1")
    BY <2>4, <2>7, <2>8 DEF Waiting, Before, Between
  <2>10. PlaceInv'
    BY <2>2, <2>3, <2>4, <2>5, <2>7 DEF PlaceInv, Before, Between, Inside
  <2>11. arm[q].synced <=> pc = "wait2"
    BY <2>3, <2>7, <2>8 DEF Between
  <2>12. Filling'
    <3>1. \A a, b \in Roles : arm'[a].pc \in Between => arm'[b].pc \in Between
      BY <2>3, <2>4, <2>7, <2>9 DEF Between
    <3>2. \A a, b \in Roles : arm'[a].synced => arm'[b].synced
      BY <2>2, <2>3, <2>4, <2>11
    <3>3. (\A a \in Roles : ~Waiting(a)') /\ barrier'.count = 0
      BY <1>1, <1>3, <2>3, <2>9
    <3>4. QED
      BY <3>1, <3>2, <3>3 DEF Filling
  <2>13. barrier'.state = "filling"
    BY <1>1, <1>3
  <2>14. QED
    BY <2>10, <2>12, <2>13 DEF MeetingInv
<1>4. QED
  BY <1>1, <1>2, <1>3

\* Going on, or throwing, without the other arm.
LEMMA GoesOn ==
  ASSUME TypeOK, PlaceInv, MeetingInv, NEW r \in Roles, NEW x, Becomes(r, x),
         x.synced = arm[r].synced, x.entered = arm[r].entered,
         arm[r].pc # "enter", x.pc # "enter", OnItsOwn(arm[r].pc, x.pc), barrier' = barrier
  PROVE  PlaceInv' /\ MeetingInv'
<1>1. x.entered <=> (x.synced /\ x.pc # "enter")
  BY DEF PlaceInv
<1>2. QED
  BY <1>1, MovesAlone

\* A move of one arm on its own, by Goto.
LEMMA GotoMeets ==
  ASSUME TypeOK, PlaceInv, MeetingInv, NEW r \in Roles, NEW pc \in Places, Goto(r, pc),
         arm[r].pc # "enter", pc # "enter", OnItsOwn(arm[r].pc, pc), barrier' = barrier
  PROVE  PlaceInv' /\ MeetingInv'
<1> DEFINE x == [arm[r] EXCEPT !.pc = pc]
<1>1. Becomes(r, x)
  BY GotoIs DEF TypeOK, Arms
<1>2. x.pc = pc /\ x.synced = arm[r].synced /\ x.entered = arm[r].entered
  BY DEF TypeOK, Arm
<1> HIDE DEF x
<1>3. QED
  BY <1>1, <1>2, GoesOn

\* A move of one arm on its own, by Throw.
LEMMA ThrowMeets ==
  ASSUME TypeOK, PlaceInv, MeetingInv, NEW r \in Roles, NEW pc \in Places,
         NEW err \in {"none", "other", "journal"}, Throw(r, pc, err),
         arm[r].pc # "enter", pc # "enter", OnItsOwn(arm[r].pc, pc), barrier' = barrier
  PROVE  PlaceInv' /\ MeetingInv'
<1> DEFINE x == [arm[r] EXCEPT !.pc = pc, !.err = err]
<1>1. Becomes(r, x)
  BY ThrowIs DEF TypeOK, Arms
<1>2. x.pc = pc /\ x.synced = arm[r].synced /\ x.entered = arm[r].entered
  BY DEF TypeOK, Arm
<1> HIDE DEF x
<1>3. QED
  BY <1>1, <1>2, GoesOn

\* The steps an arm takes without the barrier.
LEMMA OwnMeets ==
  ASSUME TypeOK, Concurrent, PlaceInv, MeetingInv, NEW r \in Roles,
         \/ MakeDirectories(r) \/ Prepare(r) \/ Plan(r) \/ Stamp(r) \/ Enter(r) \/ Account(r)
         \/ Answer(r) \/ AccountLate(r) \/ Validate(r) \/ Complete(r) \/ Finally(r)
         \/ Verify(r) \/ AccountFailure(r)
  PROVE  PlaceInv' /\ MeetingInv'
<1>a. Arms /\ clock \in Nat /\ arm[r] \in Arm
  BY DEF TypeOK, Arms
<1> DEFINE Way(a, b) == /\ a # "enter" /\ b # "enter" /\ b \in Places /\ OnItsOwn(a, b)
<1>b. /\ \A b \in {"prepare", "raised"} : Way("mkdir", b)
      /\ \A b \in {"plan", "handler"} : Way("prepare", b)
      /\ \A b \in {"arrive1", "handler"} : Way("plan", b)
      /\ Way("stamp", "arrive2")
  BY AllPlaces DEF OnItsOwn, Before, Between, Inside
<1>c. /\ \A b \in {"answer", "finally"} : Way("account", b)
      /\ \A b \in {"returned", "finally"} : Way("answer", b)
      /\ \A b \in {"validate", "finally"} : Way("returned", b)
      /\ \A b \in {"complete", "finally"} : Way("validate", b)
      /\ Way("complete", "finally")
  BY AllPlaces DEF OnItsOwn, Before, Between, Inside
<1>d. /\ \A b \in {"verify", "handler"} : Way("finally", b)
      /\ \A b \in {"done", "handler"} : Way("verify", b)
      /\ \A b \in {"done", "raised"} : Way("failing", b)
      /\ \A b \in {"account", "answer", "finally"} : b # "enter" /\ OnItsOwn("enter", b)
  BY AllPlaces DEF OnItsOwn, Before, Between, Inside
<1> HIDE DEF Way
<1>1. CASE MakeDirectories(r)
  <2>1. PICK pc \in {"prepare", "raised"} : Goto(r, pc)
    BY <1>1 DEF MakeDirectories
  <2>2. arm[r].pc = "mkdir" /\ barrier' = barrier
    BY <1>1 DEF MakeDirectories, At
  <2>3. QED
    BY <1>b, <2>1, <2>2, GotoMeets DEF Way
<1>2. CASE Prepare(r)
  <2>1. arm[r].pc = "prepare" /\ barrier' = barrier
    BY <1>2 DEF Prepare, At
  <2>2. CASE Goto(r, "plan")
    BY <1>b, <2>1, <2>2, GotoMeets DEF Way
  <2>3. CASE Throw(r, "handler", "other")
    BY <1>b, <2>1, <2>3, ThrowMeets DEF Way
  <2>4. QED
    BY <1>2, <2>2, <2>3 DEF Prepare
<1>3. CASE Plan(r)
  <2>1. arm[r].pc = "plan" /\ barrier' = barrier
    BY <1>3 DEF Plan, At
  <2>2. CASE Throw(r, "handler", "journal")
    BY <1>b, <2>1, <2>2, ThrowMeets DEF Way
  <2>3. CASE arm' = [arm EXCEPT ![r].journal = "planned",
                                ![r].pc = IF Concurrent THEN "arrive1" ELSE "alone"]
    <3> DEFINE x == [arm[r] EXCEPT !.journal = "planned",
                                   !.pc = IF Concurrent THEN "arrive1" ELSE "alone"]
    <3>1. Becomes(r, x)
      BY <1>a, <2>3, PlannedIs
    <3>2. x.pc = "arrive1" /\ x.synced = arm[r].synced /\ x.entered = arm[r].entered
      BY <1>a DEF Arm
    <3> HIDE DEF x
    <3>3. QED
      BY <1>b, <2>1, <3>1, <3>2, GoesOn DEF Way
  <2>4. QED
    BY <1>3, <2>2, <2>3 DEF Plan
<1>4. CASE Stamp(r)
  <2> DEFINE x == [arm[r] EXCEPT !.started = clock + 1, !.synced = ~Concurrent,
                                 !.pc = IF Concurrent THEN "arrive2" ELSE "enter"]
  <2>1. Becomes(r, x)
    BY <1>a, <1>4, StampIs
  <2>2. x.pc = "arrive2" /\ ~x.synced /\ x.entered = arm[r].entered
    BY <1>a DEF Arm
  <2> HIDE DEF x
  <2>3. arm[r].pc = "stamp" /\ ~arm[r].synced /\ barrier' = barrier
    BY <1>4 DEF Stamp, At, PlaceInv, Between
  <2>4. x.synced = arm[r].synced
    <3>1. x \in Arm
      BY <2>1 DEF Becomes
    <3>2. x.synced \in BOOLEAN /\ arm[r].synced \in BOOLEAN
      BY <1>a, <3>1 DEF Arm
    <3>3. QED
      BY <2>2, <2>3, <3>2
  <2>5. QED
    BY <1>b, <2>1, <2>2, <2>3, <2>4, GoesOn DEF Way
<1>5. CASE Enter(r)
  <2>1. PICK err \in {"none", "other"} :
          arm' = [arm EXCEPT ![r].entered = TRUE, ![r].err = err,
                             ![r].pc = IF err = "other" THEN "finally"
                                       ELSE IF provider = "fake" THEN "answer"
                                       ELSE "account"]
    BY <1>5 DEF Enter
  <2> DEFINE x == [arm[r] EXCEPT !.entered = TRUE, !.err = err,
                                 !.pc = IF err = "other" THEN "finally"
                                        ELSE IF provider = "fake" THEN "answer"
                                        ELSE "account"]
  <2>2. Becomes(r, x)
    BY <1>a, <2>1, EnterIs
  <2>3. x.pc \in {"finally", "answer", "account"} /\ x.synced = arm[r].synced /\ x.entered
    BY <1>a DEF Arm
  <2> HIDE DEF x
  <2>4. arm[r].pc = "enter" /\ barrier' = barrier
    BY <1>5 DEF Enter, At
  <2>5. arm[r].synced
    BY <2>4 DEF PlaceInv, Inside
  <2>6. QED
    BY <1>d, <2>2, <2>3, <2>4, <2>5, MovesAlone
<1>6. CASE Account(r)
  <2>1. arm[r].pc = "account" /\ barrier' = barrier
    BY <1>6 DEF Account, At
  <2>2. CASE Throw(r, "finally", IF provider = "codex" THEN "other" ELSE "journal")
    BY <1>c, <2>1, <2>2, ThrowMeets DEF Way
  <2>3. CASE arm' = [arm EXCEPT ![r].dispatched = TRUE, ![r].pc = "answer"]
    <3> DEFINE x == [arm[r] EXCEPT !.dispatched = TRUE, !.pc = "answer"]
    <3>1. Becomes(r, x)
      BY <1>a, <2>3, DispatchedIs
    <3>2. x.pc = "answer" /\ x.synced = arm[r].synced /\ x.entered = arm[r].entered
      BY <1>a DEF Arm
    <3> HIDE DEF x
    <3>3. QED
      BY <1>c, <2>1, <3>1, <3>2, GoesOn DEF Way
  <2>4. QED
    BY <1>6, <2>2, <2>3 DEF Account
<1>7. CASE Answer(r)
  <2>1. arm[r].pc = "answer" /\ barrier' = barrier
    BY <1>7 DEF Answer, At
  <2>2. CASE Goto(r, "returned")
    BY <1>c, <2>1, <2>2, GotoMeets DEF Way
  <2>3. CASE Throw(r, "finally", "other")
    BY <1>c, <2>1, <2>3, ThrowMeets DEF Way
  <2>4. QED
    BY <1>7, <2>2, <2>3 DEF Answer
<1>8. CASE AccountLate(r)
  <2>1. arm[r].pc = "returned" /\ barrier' = barrier
    BY <1>8 DEF AccountLate, At
  <2>2. CASE Throw(r, "finally", "journal")
    BY <1>c, <2>1, <2>2, ThrowMeets DEF Way
  <2>3. CASE arm' = [arm EXCEPT ![r].journal = "dispatched", ![r].pc = "validate"]
    <3> DEFINE x == [arm[r] EXCEPT !.journal = "dispatched", !.pc = "validate"]
    <3>1. Becomes(r, x)
      BY <1>a, <2>3, LateIs
    <3>2. x.pc = "validate" /\ x.synced = arm[r].synced /\ x.entered = arm[r].entered
      BY <1>a DEF Arm
    <3> HIDE DEF x
    <3>3. QED
      BY <1>c, <2>1, <3>1, <3>2, GoesOn DEF Way
  <2>4. CASE arm' = [arm EXCEPT ![r].journal = "dispatched", ![r].dispatched = TRUE,
                                ![r].pc = "validate"]
    <3> DEFINE x == [arm[r] EXCEPT !.journal = "dispatched", !.dispatched = TRUE,
                                   !.pc = "validate"]
    <3>1. Becomes(r, x)
      BY <1>a, <2>4, LateDispatchIs
    <3>2. x.pc = "validate" /\ x.synced = arm[r].synced /\ x.entered = arm[r].entered
      BY <1>a DEF Arm
    <3> HIDE DEF x
    <3>3. QED
      BY <1>c, <2>1, <3>1, <3>2, GoesOn DEF Way
  <2>5. QED
    BY <1>8, <2>2, <2>3, <2>4 DEF AccountLate
<1>9. CASE Validate(r)
  <2>1. arm[r].pc = "validate" /\ barrier' = barrier
    BY <1>9 DEF Validate, At
  <2>2. CASE Goto(r, "complete")
    BY <1>c, <2>1, <2>2, GotoMeets DEF Way
  <2>3. CASE Throw(r, "finally", "other")
    BY <1>c, <2>1, <2>3, ThrowMeets DEF Way
  <2>4. QED
    BY <1>9, <2>2, <2>3 DEF Validate
<1>10. CASE Complete(r)
  <2>1. arm[r].pc = "complete" /\ barrier' = barrier
    BY <1>10 DEF Complete, At
  <2>2. CASE Throw(r, "finally", "journal")
    BY <1>c, <2>1, <2>2, ThrowMeets DEF Way
  <2>3. CASE arm' = [arm EXCEPT ![r].journal = "completed", ![r].pc = "finally"]
    <3> DEFINE x == [arm[r] EXCEPT !.journal = "completed", !.pc = "finally"]
    <3>1. Becomes(r, x)
      BY <1>a, <2>3, CompletedIs
    <3>2. x.pc = "finally" /\ x.synced = arm[r].synced /\ x.entered = arm[r].entered
      BY <1>a DEF Arm
    <3> HIDE DEF x
    <3>3. QED
      BY <1>c, <2>1, <3>1, <3>2, GoesOn DEF Way
  <2>4. QED
    BY <1>10, <2>2, <2>3 DEF Complete
<1>11. CASE Finally(r)
  <2>1. PICK err \in {arm[r].err, "other"} :
          arm' = [arm EXCEPT ![r].finished = clock', ![r].err = err,
                             ![r].pc = IF err = "none" THEN "verify" ELSE "handler"]
    BY <1>11 DEF Finally
  <2>2. err \in {"none", "other", "journal"} /\ clock' \in Nat
    BY <1>a, <1>11 DEF Finally, Arm
  <2> DEFINE x == [arm[r] EXCEPT !.finished = clock', !.err = err,
                                 !.pc = IF err = "none" THEN "verify" ELSE "handler"]
  <2>3. Becomes(r, x)
    BY <1>a, <2>1, <2>2, FinallyIs
  <2>4. x.pc \in {"verify", "handler"} /\ x.synced = arm[r].synced /\ x.entered = arm[r].entered
    BY <1>a DEF Arm
  <2> HIDE DEF x
  <2>5. arm[r].pc = "finally" /\ barrier' = barrier
    BY <1>11 DEF Finally, At
  <2>6. QED
    BY <1>d, <2>3, <2>4, <2>5, GoesOn DEF Way
<1>12. CASE Verify(r)
  <2>1. arm[r].pc = "verify" /\ barrier' = barrier
    BY <1>12 DEF Verify, At
  <2>2. CASE Goto(r, "done")
    BY <1>d, <2>1, <2>2, GotoMeets DEF Way
  <2>3. CASE Throw(r, "handler", "other")
    BY <1>d, <2>1, <2>3, ThrowMeets DEF Way
  <2>4. QED
    BY <1>12, <2>2, <2>3 DEF Verify
<1>13. CASE AccountFailure(r)
  <2>1. PICK pc \in {"done", "raised"} : Goto(r, pc)
    BY <1>13 DEF AccountFailure, ReportError
  <2>2. arm[r].pc = "failing" /\ barrier' = barrier
    BY <1>13 DEF AccountFailure, At
  <2>3. QED
    BY <1>d, <2>1, <2>2, GotoMeets DEF Way
<1>14. QED
  BY <1>1, <1>2, <1>3, <1>4, <1>5, <1>6, <1>7, <1>8, <1>9, <1>10, <1>11, <1>12, <1>13

\* Every step of an arm of a concurrent pair keeps the two together.
LEMMA MeetingStep ==
  ASSUME TypeOK, Concurrent, PlaceInv, MeetingInv, NEW r \in Roles, ArmStep(r)
  PROVE  PlaceInv' /\ MeetingInv'
  BY OwnMeets, ArriveMeets, WakeMeets, TimeOutMeets, AbortMeets DEF ArmStep

-----------------------------------------------------------------------------
(* The windows *)

\* An arm that neither begins nor ends its window.
Keeps(r, x) ==
  /\ x.started = arm[r].started /\ x.finished = arm[r].finished
  /\ arm[r].synced => x.synced
  /\ x.pc # "verify"

\* Goto touches no window.
LEMMA GotoKeeps ==
  ASSUME Arms, NEW r \in Roles, NEW pc \in Places \ {"verify"}, Goto(r, pc)
  PROVE  \E x : Becomes(r, x) /\ Keeps(r, x)
<1> DEFINE x == [arm[r] EXCEPT !.pc = pc]
<1>1. Becomes(r, x)
  BY GotoIs
<1>2. Keeps(r, x)
  BY DEF Arms, Arm, Keeps
<1> HIDE DEF x
<1>3. QED
  BY <1>1, <1>2

\* Throw touches no window.
LEMMA ThrowKeeps ==
  ASSUME Arms, NEW r \in Roles, NEW pc \in Places \ {"verify"},
         NEW err \in {"none", "other", "journal"}, Throw(r, pc, err)
  PROVE  \E x : Becomes(r, x) /\ Keeps(r, x)
<1> DEFINE x == [arm[r] EXCEPT !.pc = pc, !.err = err]
<1>1. Becomes(r, x)
  BY ThrowIs
<1>2. Keeps(r, x)
  BY DEF Arms, Arm, Keeps
<1> HIDE DEF x
<1>3. QED
  BY <1>1, <1>2

\* Passing a meeting touches no window.
LEMMA PassedKeeps ==
  ASSUME Arms, NEW r \in Roles, NEW pc \in {"arrive1", "wait1", "arrive2", "wait2"}, Passed(r, pc),
         ~arm[r].synced
  PROVE  \E x : Becomes(r, x) /\ Keeps(r, x)
<1> DEFINE x == [arm[r] EXCEPT !.pc = Past[pc], !.synced = (pc \in {"arrive2", "wait2"})]
<1>1. Becomes(r, x)
  BY PassedIs
<1>2. Past[pc] # "verify"
  BY DEF Past
<1>3. x.started = arm[r].started /\ x.finished = arm[r].finished /\ x.pc # "verify"
  BY <1>2 DEF Arms, Arm
<1>4. Keeps(r, x)
  BY <1>3 DEF Keeps
<1> HIDE DEF x
<1>5. QED
  BY <1>1, <1>4

\* Only Stamp and Finally touch a window.
LEMMA MostKeep ==
  ASSUME TypeOK, PlaceInv, NEW r \in Roles, ArmStep(r), ~Stamp(r), ~Finally(r)
  PROVE  \E x : Becomes(r, x) /\ Keeps(r, x)
<1>a. Arms /\ arm[r] \in Arm
  BY DEF TypeOK, Arms
<1>b. {"prepare", "raised", "plan", "handler", "wait1", "wait2", "finally", "returned", "complete",
       "failing", "done"} \subseteq Places \ {"verify"}
  BY AllPlaces
<1>1. CASE MakeDirectories(r)
  <2>1. PICK pc \in {"prepare", "raised"} : Goto(r, pc)
    BY <1>1 DEF MakeDirectories
  <2>2. QED
    BY <1>a, <1>b, <2>1, GotoKeeps
<1>2. CASE Prepare(r)
  <2>1. Goto(r, "plan") \/ Throw(r, "handler", "other")
    BY <1>2 DEF Prepare
  <2>2. QED
    BY <1>a, <1>b, <2>1, GotoKeeps, ThrowKeeps
<1>3. CASE Plan(r)
  <2>1. CASE Throw(r, "handler", "journal")
    BY <1>a, <1>b, <2>1, ThrowKeeps
  <2>2. CASE arm' = [arm EXCEPT ![r].journal = "planned",
                                ![r].pc = IF Concurrent THEN "arrive1" ELSE "alone"]
    <3> DEFINE x == [arm[r] EXCEPT !.journal = "planned",
                                   !.pc = IF Concurrent THEN "arrive1" ELSE "alone"]
    <3>1. Becomes(r, x)
      BY <1>a, <2>2, PlannedIs
    <3>2. Keeps(r, x)
      BY <1>a DEF Keeps, Arm
    <3> HIDE DEF x
    <3>3. QED
      BY <3>1, <3>2
  <2>3. QED
    BY <1>3, <2>1, <2>2 DEF Plan
<1>4. CASE Arrive(r)
  <2>1. PICK pc \in {"arrive1", "arrive2"} :
          /\ arm[r].pc = pc
          /\ Throw(r, "handler", "other") \/ Goto(r, Wait[pc]) \/ Passed(r, pc)
    BY <1>4 DEF Arrive, Wait, At
  <2>2. Wait[pc] \in {"wait1", "wait2"} /\ ~arm[r].synced
    BY <2>1 DEF Wait, PlaceInv, Before, Between
  <2>3. CASE Throw(r, "handler", "other")
    BY <1>a, <1>b, <2>3, ThrowKeeps
  <2>4. CASE Goto(r, Wait[pc])
    BY <1>a, <1>b, <2>2, <2>4, GotoKeeps
  <2>5. CASE Passed(r, pc)
    BY <1>a, <2>2, <2>5, PassedKeeps
  <2>6. QED
    BY <2>1, <2>3, <2>4, <2>5
<1>5. CASE Wake(r)
  <2>1. PICK pc \in {"wait1", "wait2"} :
          arm[r].pc = pc /\ (Throw(r, "handler", "other") \/ Passed(r, pc))
    BY <1>5 DEF Wake, At
  <2>2. ~arm[r].synced
    BY <2>1 DEF PlaceInv, Before, Between
  <2>3. CASE Throw(r, "handler", "other")
    BY <1>a, <1>b, <2>3, ThrowKeeps
  <2>4. CASE Passed(r, pc)
    BY <1>a, <2>2, <2>4, PassedKeeps
  <2>5. QED
    BY <2>1, <2>3, <2>4
<1>6. CASE TimeOut(r)
  BY <1>a, <1>b, <1>6, ThrowKeeps DEF TimeOut
<1>7. CASE Enter(r)
  <2>1. PICK err \in {"none", "other"} :
          arm' = [arm EXCEPT ![r].entered = TRUE, ![r].err = err,
                             ![r].pc = IF err = "other" THEN "finally"
                                       ELSE IF provider = "fake" THEN "answer"
                                       ELSE "account"]
    BY <1>7 DEF Enter
  <2> DEFINE x == [arm[r] EXCEPT !.entered = TRUE, !.err = err,
                                 !.pc = IF err = "other" THEN "finally"
                                        ELSE IF provider = "fake" THEN "answer"
                                        ELSE "account"]
  <2>2. Becomes(r, x)
    BY <1>a, <2>1, EnterIs
  <2>3. Keeps(r, x)
    BY <1>a DEF Keeps, Arm
  <2> HIDE DEF x
  <2>4. QED
    BY <2>2, <2>3
<1>8. CASE Account(r)
  <2>1. CASE Throw(r, "finally", IF provider = "codex" THEN "other" ELSE "journal")
    BY <1>a, <1>b, <2>1, ThrowKeeps
  <2>2. CASE arm' = [arm EXCEPT ![r].dispatched = TRUE, ![r].pc = "answer"]
    <3> DEFINE x == [arm[r] EXCEPT !.dispatched = TRUE, !.pc = "answer"]
    <3>1. Becomes(r, x)
      BY <1>a, <2>2, DispatchedIs
    <3>2. Keeps(r, x)
      BY <1>a DEF Keeps, Arm
    <3> HIDE DEF x
    <3>3. QED
      BY <3>1, <3>2
  <2>3. QED
    BY <1>8, <2>1, <2>2 DEF Account
<1>9. CASE Answer(r) \/ Validate(r)
  <2>1. \/ \E pc \in {"returned", "complete"} : Goto(r, pc)
        \/ Throw(r, "finally", "other")
    BY <1>9 DEF Answer, Validate
  <2>2. QED
    BY <1>a, <1>b, <2>1, GotoKeeps, ThrowKeeps
<1>10. CASE AccountLate(r)
  <2>1. CASE Throw(r, "finally", "journal")
    BY <1>a, <1>b, <2>1, ThrowKeeps
  <2>2. CASE arm' = [arm EXCEPT ![r].journal = "dispatched", ![r].pc = "validate"]
    <3> DEFINE x == [arm[r] EXCEPT !.journal = "dispatched", !.pc = "validate"]
    <3>1. Becomes(r, x)
      BY <1>a, <2>2, LateIs
    <3>2. Keeps(r, x)
      BY <1>a DEF Keeps, Arm
    <3> HIDE DEF x
    <3>3. QED
      BY <3>1, <3>2
  <2>3. CASE arm' = [arm EXCEPT ![r].journal = "dispatched", ![r].dispatched = TRUE,
                                ![r].pc = "validate"]
    <3> DEFINE x == [arm[r] EXCEPT !.journal = "dispatched", !.dispatched = TRUE,
                                   !.pc = "validate"]
    <3>1. Becomes(r, x)
      BY <1>a, <2>3, LateDispatchIs
    <3>2. Keeps(r, x)
      BY <1>a DEF Keeps, Arm
    <3> HIDE DEF x
    <3>3. QED
      BY <3>1, <3>2
  <2>4. QED
    BY <1>10, <2>1, <2>2, <2>3 DEF AccountLate
<1>11. CASE Complete(r)
  <2>1. CASE Throw(r, "finally", "journal")
    BY <1>a, <1>b, <2>1, ThrowKeeps
  <2>2. CASE arm' = [arm EXCEPT ![r].journal = "completed", ![r].pc = "finally"]
    <3> DEFINE x == [arm[r] EXCEPT !.journal = "completed", !.pc = "finally"]
    <3>1. Becomes(r, x)
      BY <1>a, <2>2, CompletedIs
    <3>2. Keeps(r, x)
      BY <1>a DEF Keeps, Arm
    <3> HIDE DEF x
    <3>3. QED
      BY <3>1, <3>2
  <2>3. QED
    BY <1>11, <2>1, <2>2 DEF Complete
<1>12. CASE Verify(r)
  <2>1. Goto(r, "done") \/ Throw(r, "handler", "other")
    BY <1>12 DEF Verify
  <2>2. QED
    BY <1>a, <1>b, <2>1, GotoKeeps, ThrowKeeps
<1>13. CASE Abort(r)
  <2>1. PICK pc \in {"raised", "failing"} : Goto(r, pc)
    BY <1>13 DEF Abort
  <2>2. QED
    BY <1>a, <1>b, <2>1, GotoKeeps
<1>14. CASE AccountFailure(r)
  <2>1. PICK pc \in {"done", "raised"} : Goto(r, pc)
    BY <1>14 DEF AccountFailure, ReportError
  <2>2. QED
    BY <1>a, <1>b, <2>1, GotoKeeps
<1>15. QED
  BY <1>1, <1>2, <1>3, <1>4, <1>5, <1>6, <1>7, <1>8, <1>9, <1>10, <1>11, <1>12, <1>13, <1>14
  DEF ArmStep

\* Only Verify reports a completed arm, only Stamp and Finally read the clock.
LEMMA WhoReports ==
  ASSUME TypeOK, NEW r \in Roles, ArmStep(r)
  PROVE  /\ \/ report' = report \/ report' = [report EXCEPT ![Here(r)] = "error"]
            \/ /\ arm[r].pc = "verify" /\ report' = [report EXCEPT ![Here(r)] = "completed"]
         /\ ~Stamp(r) /\ ~Finally(r) => clock' = clock
<1>1. CASE MakeDirectories(r) \/ Prepare(r) \/ Plan(r) \/ Arrive(r) \/ Wake(r) \/ TimeOut(r)
  BY <1>1 DEF MakeDirectories, Prepare, Plan, Arrive, Wake, TimeOut
<1>2. CASE Enter(r) \/ Account(r) \/ Answer(r) \/ AccountLate(r) \/ Validate(r) \/ Complete(r)
  BY <1>2 DEF Enter, Account, Answer, AccountLate, Validate, Complete
<1>3. CASE Stamp(r) \/ Finally(r)
  BY <1>3 DEF Stamp, Finally
<1>4. CASE Verify(r)
  BY <1>4 DEF Verify, At
<1>5. CASE Abort(r) \/ AccountFailure(r)
  BY <1>5 DEF Abort, AccountFailure, ReportError
<1>6. QED
  BY <1>1, <1>2, <1>3, <1>4, <1>5 DEF ArmStep

\* An arm that reads the start of its window has no peer that ended one.
LEMMA NobodyFinished ==
  ASSUME TypeOK, PlaceInv, MeetingInv, WindowInv, NEW r \in Roles, arm[r].pc = "stamp"
  PROVE  \A q \in Roles : arm[q].finished = 0
<1>1. PICK q \in Roles : q # r /\ Roles = {r, q}
  BY TwoRoles
<1>2. ~arm[r].synced
  BY DEF PlaceInv, Between
<1>3. ~arm[q].synced
  <2>1. CASE barrier.state = "filling"
    BY <1>2, <2>1 DEF MeetingInv, Filling
  <2>2. CASE barrier.state = "draining"
    <3>1. arm[q].pc \in {"wait1", "wait2"}
      BY <1>1, <2>2 DEF MeetingInv, Draining
    <3>2. QED
      BY <3>1 DEF PlaceInv, Before, Between
  <2>3. CASE barrier.state = "broken"
    BY <2>3 DEF MeetingInv
  <2>4. QED
    BY <2>1, <2>2, <2>3 DEF TypeOK
<1>4. QED
  BY <1>1, <1>2, <1>3 DEF WindowInv

\* Every step of an arm of a concurrent pair keeps what is known of the windows.
LEMMA WindowStep ==
  ASSUME TypeOK, Concurrent, PlaceInv, MeetingInv, WindowInv, NEW r \in Roles, ArmStep(r)
  PROVE  WindowInv'
<1>1. PICK q \in Roles : q # r /\ Roles = {r, q}
  BY TwoRoles
<1>2. \A a \in Roles : Here(a)' = Here(a)
  BY ArmFrame DEF Here
<1>3. Here(q) # Here(r) /\ Here(q) \in Logical /\ Here(r) \in Logical
  BY <1>1, HereType DEF Here
<1>4. report'[Here(q)] = report[Here(q)]
  BY <1>3, WhoReports DEF TypeOK
<1>5. report'[Here(r)] = "completed" => report[Here(r)] = "completed" \/ arm[r].pc = "verify"
  BY <1>3, WhoReports DEF TypeOK
<1>6. report'[Here(r)] = "completed" => arm[r].finished # 0
  BY <1>5 DEF WindowInv
<1>7. \A a \in Roles : arm[a].started \in Nat /\ arm[a].finished \in Nat
  BY DEF TypeOK, Arm
<1>8. clock \in Nat /\ Arms /\ arm[r] \in Arm
  BY DEF TypeOK, Arms
<1>9. CASE ~Stamp(r) /\ ~Finally(r)
  <2>1. PICK x : Becomes(r, x) /\ Keeps(r, x)
    BY <1>9, MostKeep
  <2>2. clock' = clock /\ arm'[r] = x /\ arm'[q] = arm[q]
    BY <1>1, <1>9, <2>1, WhoReports DEF Becomes
  <2>3. /\ x.started = arm[r].started /\ x.finished = arm[r].finished /\ x.pc # "verify"
        /\ ~x.synced => ~arm[r].synced
    BY <2>1 DEF Keeps
  <2>4. \A a \in Roles : /\ arm'[a].started = arm[a].started /\ arm'[a].finished = arm[a].finished
                         /\ ~arm'[a].synced => ~arm[a].synced
                         /\ arm'[a].pc = "verify" => arm[a].pc = "verify"
                         /\ report'[Here(a)] = "completed" => arm[a].finished # 0
    BY <1>1, <1>4, <1>6, <2>2, <2>3 DEF WindowInv
  <2>5. QED
    BY <1>2, <2>2, <2>4 DEF WindowInv
<1>10. CASE Stamp(r)
  <2> DEFINE x == [arm[r] EXCEPT !.started = clock + 1, !.synced = ~Concurrent,
                                 !.pc = IF Concurrent THEN "arrive2" ELSE "enter"]
  <2>1. Becomes(r, x)
    BY <1>8, <1>10, StampIs
  <2>2. x.pc = "arrive2" /\ x.started = clock + 1 /\ x.finished = arm[r].finished
    BY <1>8 DEF Arm
  <2> HIDE DEF x
  <2>3. clock' = clock + 1 /\ arm'[r] = x /\ arm'[q] = arm[q]
    BY <1>1, <1>10, <2>1 DEF Becomes, Stamp
  <2>4. arm[r].pc = "stamp"
    BY <1>10 DEF Stamp, At, PlaceInv
  <2>5. \A a \in Roles : arm'[a].finished = 0
    BY <1>1, <2>2, <2>3, <2>4, NobodyFinished
  <2>6. \A a \in Roles : arm'[a].started <= clock'
    BY <1>1, <1>7, <1>8, <2>2, <2>3 DEF WindowInv
  <2>7. arm[r].finished = 0 /\ arm[q].finished = 0
    BY <2>4, NobodyFinished
  <2>8. \A a \in Roles : arm'[a].pc # "verify" /\ report'[Here(a)] # "completed"
    BY <1>1, <1>4, <1>6, <2>2, <2>3, <2>7 DEF WindowInv
  <2>9. QED
    BY <1>2, <2>5, <2>6, <2>8 DEF WindowInv
<1>11. CASE Finally(r)
  <2>1. PICK err \in {arm[r].err, "other"} :
          arm' = [arm EXCEPT ![r].finished = clock', ![r].err = err,
                             ![r].pc = IF err = "none" THEN "verify" ELSE "handler"]
    BY <1>11 DEF Finally
  <2>2. err \in {"none", "other", "journal"} /\ clock' = clock + 1 /\ clock' \in Nat
    BY <1>8, <1>11 DEF Finally, Arm
  <2> DEFINE x == [arm[r] EXCEPT !.finished = clock', !.err = err,
                                 !.pc = IF err = "none" THEN "verify" ELSE "handler"]
  <2>3. Becomes(r, x)
    BY <1>8, <2>1, <2>2, FinallyIs
  <2>4. x.finished = clock' /\ x.started = arm[r].started /\ x.synced = arm[r].synced
    BY <1>8 DEF Arm
  <2> HIDE DEF x
  <2>5. arm'[r] = x /\ arm'[q] = arm[q]
    BY <1>1, <2>3 DEF Becomes
  <2>6. arm[r].synced
    BY <1>11 DEF Finally, At, PlaceInv, Inside
  <2>7. \A a \in Roles : arm'[a].started = arm[a].started /\ arm[a].started <= clock
    BY <1>1, <2>4, <2>5 DEF WindowInv
  <2>8. \A a \in Roles : arm'[a].started <= clock'
    BY <1>7, <1>8, <2>2, <2>7
  <2>9. arm'[r].finished = clock' /\ clock' # 0 /\ arm'[r].synced
    <3>1. clock' # 0
      BY <1>8, <2>2
    <3>2. arm'[r].synced
      BY <2>4, <2>5, <2>6
    <3>3. QED
      BY <2>4, <2>5, <3>1, <3>2
  <2>10. \A a \in Roles : /\ ~arm'[a].synced => arm'[a].finished = 0
                          /\ arm'[a].pc = "verify" => arm'[a].finished # 0
                          /\ report'[Here(a)] = "completed" => arm'[a].finished # 0
    BY <1>1, <1>4, <2>5, <2>9 DEF WindowInv
  <2>11. \A a \in Roles : arm'[a].finished # 0 => \A b \in Roles : arm'[b].started <= arm'[a].finished
    BY <1>1, <2>5, <2>7, <2>8, <2>9 DEF WindowInv
  <2>12. QED
    BY <1>2, <2>8, <2>10, <2>11 DEF WindowInv
<1>12. QED
  BY <1>9, <1>10, <1>11

-----------------------------------------------------------------------------
(* The journal *)

\* A completed attempt stays so, an unplanned one is only ever planned.
LEMMA PhaseMoves ==
  ASSUME TypeOK, NEW r \in Roles, ArmStep(r)
  PROVE  /\ phase[Here(r)] = "completed" => phase'[Here(r)] = "completed"
         /\ phase[Here(r)] \in {"dispatched", "completed", "failed"} =>
              phase'[Here(r)] \in {"dispatched", "completed", "failed"}
         /\ transmitted[Here(r)] => transmitted'[Here(r)]
         /\ \A a \in Logical \ {Here(r)} :
              /\ phase'[a] = phase[a] /\ report'[a] = report[a]
              /\ transmitted'[a] = transmitted[a]
<1>1. Here(r) \in Logical
  BY HereType
<1>2. \/ phase' = phase
      \/ \E e \in DOMAIN Required : /\ phase[Here(r)] = Required[e]
                                    /\ phase' = [phase EXCEPT ![Here(r)] = Reached[e]]
  BY <1>1, ArmFrame, LedgerStep DEF ledger
<1>3. phase \in [Logical -> {"none", "planned", "dispatched", "completed", "failed"}]
  BY DEF TypeOK
<1>4. \A e \in DOMAIN Required :
        /\ Required[e] # "completed"
        /\ Required[e] \in {"dispatched", "completed", "failed"} =>
             Reached[e] \in {"dispatched", "completed", "failed"}
  BY DEF Required, Reached
<1>5. /\ phase[Here(r)] = "completed" => phase'[Here(r)] = "completed"
      /\ phase[Here(r)] \in {"dispatched", "completed", "failed"} =>
           phase'[Here(r)] \in {"dispatched", "completed", "failed"}
      /\ \A a \in Logical \ {Here(r)} : phase'[a] = phase[a]
  BY <1>1, <1>2, <1>3, <1>4
<1>6. \A a \in Logical \ {Here(r)} : report'[a] = report[a]
  <2>1. report \in [Logical -> {"none", "completed", "error"}]
    BY DEF TypeOK
  <2>2. QED
    BY <1>1, <2>1, ArmFrame
<1>7. transmitted \in [Logical -> BOOLEAN]
  BY DEF TypeOK
<1>8. CASE transmitted' = transmitted
  BY <1>5, <1>6, <1>8
<1>9. CASE transmitted' = [transmitted EXCEPT ![Here(r)] = TRUE]
  <2>1. \A a \in Logical \ {Here(r)} : transmitted'[a] = transmitted[a]
    BY <1>7, <1>9
  <2>2. transmitted'[Here(r)]
    BY <1>1, <1>7, <1>9
  <2>3. QED
    BY <1>5, <1>6, <2>1, <2>2
<1>10. QED
  BY <1>8, <1>9, ArmFrame

\* A step of an arm is accounted for if the arm itself accounts for it.
LEMMA OtherAccounts ==
  ASSUME TypeOK, JournalInv, NEW r \in Roles, ArmStep(r), NEW x, Becomes(r, x),
         Accounts(x, phase'[Here(r)], transmitted'[Here(r)], report'[Here(r)])
  PROVE  JournalInv'
<1>1. PICK q \in Roles : q # r /\ Roles = {r, q}
  BY TwoRoles
<1>2. \A a \in Roles : Here(a)' = Here(a) /\ Here(a) \in Logical
  BY ArmFrame, HereType DEF Here
<1>3. Here(q) # Here(r)
  BY <1>1 DEF Here
<1>4. /\ arm'[q] = arm[q] /\ phase'[Here(q)] = phase[Here(q)]
      /\ transmitted'[Here(q)] = transmitted[Here(q)] /\ report'[Here(q)] = report[Here(q)]
  BY <1>1, <1>2, <1>3, PhaseMoves DEF Becomes
<1>5. Accounts(arm'[q], phase'[Here(q)], transmitted'[Here(q)], report'[Here(q)])
  BY <1>1, <1>4 DEF JournalInv
<1>6. Accounts(arm'[r], phase'[Here(r)], transmitted'[Here(r)], report'[Here(r)])
  BY DEF Becomes
<1>7. QED
  BY <1>1, <1>2, <1>5, <1>6 DEF JournalInv

\* An arm that goes on has no result yet.
LEMMA Unreported ==
  ASSUME TypeOK, JournalInv, NEW r \in Roles, ArmStep(r)
  PROVE  report[Here(r)] = "none"
<1>1. arm[r].pc # "done"
  <2>1. CASE \/ MakeDirectories(r) \/ Prepare(r) \/ Plan(r) \/ Arrive(r) \/ Wake(r) \/ TimeOut(r)
             \/ Stamp(r) \/ Enter(r) \/ Account(r)
    BY <2>1 DEF MakeDirectories, Prepare, Plan, Arrive, Wait, Wake, TimeOut, Stamp, Enter, Account, At
  <2>2. CASE \/ Answer(r) \/ AccountLate(r) \/ Validate(r) \/ Complete(r) \/ Finally(r)
             \/ Verify(r) \/ Abort(r) \/ AccountFailure(r)
    BY <2>2 DEF Answer, AccountLate, Validate, Complete, Finally, Verify, Abort, AccountFailure, At
  <2>3. QED
    BY <2>1, <2>2 DEF ArmStep
<1>2. QED
  BY <1>1 DEF JournalInv, Accounts

\* The fields the journal cares about, after Goto.
LEMMA GotoFields ==
  ASSUME Arms, NEW r \in Roles, NEW pc \in Places, Goto(r, pc)
  PROVE  \E x : Becomes(r, x) /\ x.pc = pc /\ x.err = arm[r].err /\ x.journal = arm[r].journal
<1> DEFINE x == [arm[r] EXCEPT !.pc = pc]
<1>1. Becomes(r, x)
  BY GotoIs
<1>2. x.pc = pc /\ x.err = arm[r].err /\ x.journal = arm[r].journal
  BY DEF Arms, Arm
<1> HIDE DEF x
<1>3. QED
  BY <1>1, <1>2

\* The fields the journal cares about, after Throw.
LEMMA ThrowFields ==
  ASSUME Arms, NEW r \in Roles, NEW pc \in Places, NEW err \in {"none", "other", "journal"},
         Throw(r, pc, err)
  PROVE  \E x : Becomes(r, x) /\ x.pc = pc /\ x.err = err /\ x.journal = arm[r].journal
<1> DEFINE x == [arm[r] EXCEPT !.pc = pc, !.err = err]
<1>1. Becomes(r, x)
  BY ThrowIs
<1>2. x.pc = pc /\ x.err = err /\ x.journal = arm[r].journal
  BY DEF Arms, Arm
<1> HIDE DEF x
<1>3. QED
  BY <1>1, <1>2

\* The fields the journal cares about, after a meeting.
LEMMA PassedFields ==
  ASSUME Arms, NEW r \in Roles, NEW pc \in {"arrive1", "wait1", "arrive2", "wait2"}, Passed(r, pc)
  PROVE  \E x : Becomes(r, x) /\ x.pc \in {"stamp", "enter"} /\ x.journal = arm[r].journal
<1> DEFINE x == [arm[r] EXCEPT !.pc = Past[pc], !.synced = (pc \in {"arrive2", "wait2"})]
<1>1. Becomes(r, x)
  BY PassedIs
<1>2. Past[pc] \in {"stamp", "enter"}
  BY DEF Past
<1>3. x.pc = Past[pc] /\ x.journal = arm[r].journal
  BY DEF Arms, Arm
<1> HIDE DEF x
<1>4. QED
  BY <1>1, <1>2, <1>3

\* Before and while the arms meet.
LEMMA EarlyAccounts ==
  ASSUME TypeOK, JournalInv, NEW r \in Roles, ArmStep(r),
         MakeDirectories(r) \/ Prepare(r) \/ Plan(r) \/ Arrive(r) \/ Wake(r) \/ TimeOut(r) \/ Stamp(r)
  PROVE  \E x : Becomes(r, x) /\ Accounts(x, phase'[Here(r)], transmitted'[Here(r)], report'[Here(r)])
<1>a. Arms /\ arm[r] \in Arm /\ clock \in Nat
  BY DEF TypeOK, Arms
<1>b. /\ report[Here(r)] = "none"
      /\ Accounts(arm[r], phase[Here(r)], transmitted[Here(r)], report[Here(r)])
  BY Unreported DEF JournalInv
<1>c. {"prepare", "raised", "plan", "handler", "wait1", "wait2"} \subseteq Places
  BY AllPlaces
<1>d. /\ phase[Here(r)] = "completed" => phase'[Here(r)] = "completed"
      /\ transmitted[Here(r)] => transmitted'[Here(r)]
  BY PhaseMoves
<1>1. CASE MakeDirectories(r)
  <2>1. PICK pc \in {"prepare", "raised"} : Goto(r, pc)
    BY <1>1 DEF MakeDirectories
  <2>2. PICK x : Becomes(r, x) /\ x.pc = pc /\ x.err = arm[r].err /\ x.journal = arm[r].journal
    BY <1>a, <1>c, <2>1, GotoFields
  <2>3. arm[r].pc = "mkdir" /\ UNCHANGED <<phase, transmitted, report>>
    BY <1>1 DEF MakeDirectories, At, ledger
  <2>4. Accounts(x, phase'[Here(r)], transmitted'[Here(r)], report'[Here(r)])
    BY <1>b, <2>2, <2>3 DEF Accounts, Between, Inside
  <2>5. QED
    BY <2>2, <2>4
<1>2. CASE Prepare(r)
  <2>1. arm[r].pc = "prepare" /\ UNCHANGED <<phase, transmitted, report>>
    BY <1>2 DEF Prepare, At, ledger
  <2>2. PICK x : /\ Becomes(r, x) /\ x.journal = arm[r].journal
                 /\ x.pc = "plan" \/ x.pc = "handler"
    BY <1>a, <1>c, <1>2, GotoFields, ThrowFields DEF Prepare
  <2>3. Accounts(x, phase'[Here(r)], transmitted'[Here(r)], report'[Here(r)])
    BY <1>b, <2>1, <2>2 DEF Accounts, Between, Inside
  <2>4. QED
    BY <2>2, <2>3
<1>3. CASE Plan(r)
  <2>1. arm[r].pc = "plan" /\ UNCHANGED <<transmitted, report>>
    BY <1>3 DEF Plan, At
  <2>2. CASE Throw(r, "handler", "journal")
    <3>1. PICK x : /\ Becomes(r, x) /\ x.journal = arm[r].journal
                   /\ x.pc = "handler" /\ x.err = "journal"
      BY <1>a, <1>c, <2>2, ThrowFields
    <3>2. Accounts(x, phase'[Here(r)], transmitted'[Here(r)], report'[Here(r)])
      BY <1>b, <1>d, <2>1, <3>1 DEF Accounts, Between, Inside
    <3>3. QED
      BY <3>1, <3>2
  <2>3. CASE arm' = [arm EXCEPT ![r].journal = "planned",
                                ![r].pc = IF Concurrent THEN "arrive1" ELSE "alone"]
    <3> DEFINE x == [arm[r] EXCEPT !.journal = "planned",
                                   !.pc = IF Concurrent THEN "arrive1" ELSE "alone"]
    <3>1. Becomes(r, x)
      BY <1>a, <2>3, PlannedIs
    <3>2. x.pc \in {"arrive1", "alone"} /\ x.journal = "planned"
      BY <1>a DEF Arm
    <3> HIDE DEF x
    <3>3. Accounts(x, phase'[Here(r)], transmitted'[Here(r)], report'[Here(r)])
      BY <1>b, <2>1, <3>2 DEF Accounts
    <3>4. QED
      BY <3>1, <3>3
  <2>4. QED
    BY <1>3, <2>2, <2>3 DEF Plan
<1>4. ASSUME arm[r].pc \in {"arrive1", "arrive2", "wait1", "wait2", "stamp", "alone"},
             UNCHANGED <<phase, transmitted, report>>, NEW x, Becomes(r, x),
             x.pc \in {"handler", "wait1", "wait2", "stamp", "enter", "arrive2"},
             x.journal = arm[r].journal
      PROVE  \E y : Becomes(r, y) /\ Accounts(y, phase'[Here(r)], transmitted'[Here(r)], report'[Here(r)])
  <2>1. x.journal # "none"
    BY <1>b, <1>4 DEF Accounts, Between
  <2>2. Accounts(x, phase'[Here(r)], transmitted'[Here(r)], report'[Here(r)])
    BY <1>b, <1>4, <2>1 DEF Accounts
  <2>3. QED
    BY <1>4, <2>2
<1>5. CASE Arrive(r)
  <2>1. UNCHANGED <<phase, transmitted, report>>
    BY <1>5 DEF Arrive, ledger
  <2>2. PICK pc \in {"arrive1", "arrive2"} :
          /\ arm[r].pc = pc
          /\ Throw(r, "handler", "other") \/ Goto(r, Wait[pc]) \/ Passed(r, pc)
    BY <1>5 DEF Arrive, Wait, At
  <2>3. Wait[pc] \in {"wait1", "wait2"}
    BY DEF Wait
  <2>4. \E x : /\ Becomes(r, x) /\ x.journal = arm[r].journal
               /\ x.pc \in {"handler", "wait1", "wait2", "stamp", "enter"}
    <3>1. CASE Throw(r, "handler", "other")
      BY <1>a, <1>c, <3>1, ThrowFields
    <3>2. CASE Goto(r, Wait[pc])
      BY <1>a, <1>c, <2>3, <3>2, GotoFields
    <3>3. CASE Passed(r, pc)
      BY <1>a, <3>3, PassedFields
    <3>4. QED
      BY <2>2, <3>1, <3>2, <3>3
  <2>5. QED
    BY <1>4, <2>1, <2>2, <2>4
<1>6. CASE Wake(r) \/ TimeOut(r)
  <2>1. UNCHANGED <<phase, transmitted, report>>
    BY <1>6 DEF Wake, TimeOut, ledger
  <2>2. PICK pc \in {"wait1", "wait2"} :
          arm[r].pc = pc /\ (Throw(r, "handler", "other") \/ Passed(r, pc))
    BY <1>6 DEF Wake, TimeOut, At
  <2>3. \E x : /\ Becomes(r, x) /\ x.journal = arm[r].journal
               /\ x.pc \in {"handler", "stamp", "enter"}
    <3>1. CASE Throw(r, "handler", "other")
      BY <1>a, <1>c, <3>1, ThrowFields
    <3>2. CASE Passed(r, pc)
      BY <1>a, <3>2, PassedFields
    <3>3. QED
      BY <2>2, <3>1, <3>2
  <2>4. QED
    BY <1>4, <2>1, <2>2, <2>3
<1>7. CASE Stamp(r)
  <2>1. UNCHANGED <<phase, transmitted, report>> /\ arm[r].pc \in {"stamp", "alone"}
    BY <1>7 DEF Stamp, ledger, At
  <2> DEFINE x == [arm[r] EXCEPT !.started = clock + 1, !.synced = ~Concurrent,
                                 !.pc = IF Concurrent THEN "arrive2" ELSE "enter"]
  <2>2. Becomes(r, x)
    BY <1>a, <1>7, StampIs
  <2>3. x.pc \in {"arrive2", "enter"} /\ x.journal = arm[r].journal
    BY <1>a DEF Arm
  <2> HIDE DEF x
  <2>4. QED
    BY <1>4, <2>1, <2>2, <2>3
<1>8. QED
  BY <1>1, <1>2, <1>3, <1>5, <1>6, <1>7

\* From the call of the provider to the result.
LEMMA LateAccounts ==
  ASSUME TypeOK, JournalInv, NEW r \in Roles, ArmStep(r),
         \/ Enter(r) \/ Account(r) \/ Answer(r) \/ AccountLate(r) \/ Validate(r) \/ Complete(r)
         \/ Finally(r) \/ Verify(r) \/ Abort(r) \/ AccountFailure(r)
  PROVE  \E x : Becomes(r, x) /\ Accounts(x, phase'[Here(r)], transmitted'[Here(r)], report'[Here(r)])
<1>a. Arms /\ arm[r] \in Arm /\ clock \in Nat /\ arm[r].err \in {"none", "other", "journal"}
  BY DEF TypeOK, Arms, Arm
<1>b. /\ report[Here(r)] = "none"
      /\ Accounts(arm[r], phase[Here(r)], transmitted[Here(r)], report[Here(r)])
  BY Unreported DEF JournalInv
<1>c. {"finally", "returned", "complete", "done", "handler", "failing", "raised"} \subseteq Places
  BY AllPlaces
<1>d. /\ phase[Here(r)] = "completed" => phase'[Here(r)] = "completed"
      /\ transmitted[Here(r)] => transmitted'[Here(r)]
  BY PhaseMoves
<1>e. Here(r) \in Logical /\ transmitted \in [Logical -> BOOLEAN]
  BY HereType DEF TypeOK
<1>f. Transmit(r) => transmitted'[Here(r)]
  BY <1>e DEF Transmit
\* An exception on its way to finally.
<1>1. ASSUME arm[r].pc \in Inside, Throw(r, "finally", "other") \/ Throw(r, "finally", "journal"),
             UNCHANGED report
      PROVE  \E x : Becomes(r, x) /\ Accounts(x, phase'[Here(r)], transmitted'[Here(r)], report'[Here(r)])
  <2>1. PICK x : /\ Becomes(r, x) /\ x.journal = arm[r].journal
                 /\ x.pc = "finally" /\ x.err # "none"
    BY <1>a, <1>c, <1>1, ThrowFields
  <2>2. Accounts(x, phase'[Here(r)], transmitted'[Here(r)], report'[Here(r)])
    BY <1>b, <1>d, <1>1, <2>1 DEF Accounts, Between, Inside
  <2>3. QED
    BY <2>1, <2>2
<1>2. CASE Enter(r)
  <2>1. PICK err \in {"none", "other"} :
          /\ arm' = [arm EXCEPT ![r].entered = TRUE, ![r].err = err,
                                ![r].pc = IF err = "other" THEN "finally"
                                          ELSE IF provider = "fake" THEN "answer"
                                          ELSE "account"]
          /\ Transmit(r) \/ provider = "claude" \/ err = "other"
    BY <1>2 DEF Enter
  <2> DEFINE x == [arm[r] EXCEPT !.entered = TRUE, !.err = err,
                                 !.pc = IF err = "other" THEN "finally"
                                        ELSE IF provider = "fake" THEN "answer"
                                        ELSE "account"]
  <2>2. Becomes(r, x)
    BY <1>a, <2>1, EnterIs
  <2>3. /\ x.journal = arm[r].journal
        /\ \/ x.pc = "finally" /\ x.err = "other"
           \/ x.pc = "answer" /\ provider = "fake" /\ err = "none"
           \/ x.pc = "account"
    BY <1>a DEF Arm
  <2> HIDE DEF x
  <2>4. arm[r].pc = "enter" /\ UNCHANGED <<phase, report>>
    BY <1>2 DEF Enter, At, ledger
  <2>5. x.pc = "answer" => transmitted'[Here(r)]
    BY <1>f, <2>1, <2>3
  <2>6. Accounts(x, phase'[Here(r)], transmitted'[Here(r)], report'[Here(r)])
    BY <1>b, <1>d, <2>3, <2>4, <2>5 DEF Accounts, Between, Inside
  <2>7. QED
    BY <2>2, <2>6
<1>3. CASE Account(r)
  <2>1. arm[r].pc = "account" /\ UNCHANGED report
    BY <1>3 DEF Account, At
  <2>2. CASE Throw(r, "finally", IF provider = "codex" THEN "other" ELSE "journal")
    BY <1>1, <2>1, <2>2 DEF Inside
  <2>3. CASE arm' = [arm EXCEPT ![r].dispatched = TRUE, ![r].pc = "answer"] /\ Transmit(r)
    <3> DEFINE x == [arm[r] EXCEPT !.dispatched = TRUE, !.pc = "answer"]
    <3>1. Becomes(r, x)
      BY <1>a, <2>3, DispatchedIs
    <3>2. x.pc = "answer" /\ x.journal = arm[r].journal
      BY <1>a DEF Arm
    <3> HIDE DEF x
    <3>3. Accounts(x, phase'[Here(r)], transmitted'[Here(r)], report'[Here(r)])
      BY <1>b, <1>d, <1>f, <2>1, <2>3, <3>2 DEF Accounts, Between, Inside
    <3>4. QED
      BY <3>1, <3>3
  <2>4. QED
    BY <1>3, <2>2, <2>3 DEF Account
<1>4. CASE Answer(r) \/ Validate(r)
  <2>1. /\ arm[r].pc \in {"answer", "validate"} /\ UNCHANGED <<phase, transmitted, report>>
    BY <1>4 DEF Answer, Validate, At, ledger
  <2>2. CASE Throw(r, "finally", "other")
    BY <1>1, <2>1, <2>2 DEF Inside
  <2>3. CASE \E pc \in {"returned", "complete"} : Goto(r, pc)
    <3>1. PICK x : Becomes(r, x) /\ x.pc \in {"returned", "complete"} /\ x.journal = arm[r].journal
      BY <1>a, <1>c, <2>3, GotoFields
    <3>2. Accounts(x, phase'[Here(r)], transmitted'[Here(r)], report'[Here(r)])
      BY <1>b, <2>1, <3>1 DEF Accounts, Between, Inside
    <3>3. QED
      BY <3>1, <3>2
  <2>4. QED
    BY <1>4, <2>2, <2>3 DEF Answer, Validate
<1>5. CASE AccountLate(r)
  <2>1. arm[r].pc = "returned" /\ UNCHANGED <<transmitted, report>>
    BY <1>5 DEF AccountLate, At
  <2>2. CASE Throw(r, "finally", "journal")
    BY <1>1, <2>1, <2>2 DEF Inside
  <2>3. ASSUME NEW x, Becomes(r, x), x.pc = "validate", x.journal = "dispatched"
        PROVE  Accounts(x, phase'[Here(r)], transmitted'[Here(r)], report'[Here(r)])
    BY <1>b, <2>1, <2>3 DEF Accounts
  <2>4. CASE arm' = [arm EXCEPT ![r].journal = "dispatched", ![r].pc = "validate"]
    <3> DEFINE x == [arm[r] EXCEPT !.journal = "dispatched", !.pc = "validate"]
    <3>1. Becomes(r, x)
      BY <1>a, <2>4, LateIs
    <3>2. x.pc = "validate" /\ x.journal = "dispatched"
      BY <1>a DEF Arm
    <3> HIDE DEF x
    <3>3. QED
      BY <2>3, <3>1, <3>2
  <2>5. CASE arm' = [arm EXCEPT ![r].journal = "dispatched", ![r].dispatched = TRUE,
                                ![r].pc = "validate"]
    <3> DEFINE x == [arm[r] EXCEPT !.journal = "dispatched", !.dispatched = TRUE,
                                   !.pc = "validate"]
    <3>1. Becomes(r, x)
      BY <1>a, <2>5, LateDispatchIs
    <3>2. x.pc = "validate" /\ x.journal = "dispatched"
      BY <1>a DEF Arm
    <3> HIDE DEF x
    <3>3. QED
      BY <2>3, <3>1, <3>2
  <2>6. QED
    BY <1>5, <2>2, <2>4, <2>5 DEF AccountLate
<1>6. CASE Complete(r)
  <2>1. arm[r].pc = "complete" /\ UNCHANGED <<transmitted, report>>
    BY <1>6 DEF Complete, At
  <2>2. CASE Throw(r, "finally", "journal")
    BY <1>1, <2>1, <2>2 DEF Inside
  <2>3. CASE /\ Accept(Here(r), "complete")
             /\ arm' = [arm EXCEPT ![r].journal = "completed", ![r].pc = "finally"]
    <3> DEFINE x == [arm[r] EXCEPT !.journal = "completed", !.pc = "finally"]
    <3>1. Becomes(r, x)
      BY <1>a, <2>3, CompletedIs
    <3>2. x.pc = "finally" /\ x.journal = "completed"
      BY <1>a DEF Arm
    <3> HIDE DEF x
    <3>3. phase'[Here(r)] = "completed"
      <4>1. "complete" \in DOMAIN Required /\ Reached["complete"] = "completed"
        BY DEF Required, Reached
      <4>2. QED
        BY <1>e, <2>3, <4>1, LedgerStep
    <3>4. Accounts(x, phase'[Here(r)], transmitted'[Here(r)], report'[Here(r)])
      BY <1>b, <1>d, <2>1, <3>2, <3>3 DEF Accounts
    <3>5. QED
      BY <3>1, <3>4
  <2>4. QED
    BY <1>6, <2>2, <2>3 DEF Complete
<1>7. CASE Finally(r)
  <2>1. PICK err \in {arm[r].err, "other"} :
          arm' = [arm EXCEPT ![r].finished = clock', ![r].err = err,
                             ![r].pc = IF err = "none" THEN "verify" ELSE "handler"]
    BY <1>7 DEF Finally
  <2>2. err \in {"none", "other", "journal"} /\ clock' \in Nat
    BY <1>a, <1>7 DEF Finally
  <2> DEFINE x == [arm[r] EXCEPT !.finished = clock', !.err = err,
                                 !.pc = IF err = "none" THEN "verify" ELSE "handler"]
  <2>3. Becomes(r, x)
    BY <1>a, <2>1, <2>2, FinallyIs
  <2>4. /\ x.journal = arm[r].journal /\ x.err = err
        /\ x.pc = IF err = "none" THEN "verify" ELSE "handler"
    BY <1>a DEF Arm
  <2> HIDE DEF x
  <2>5. arm[r].pc = "finally" /\ UNCHANGED <<phase, transmitted, report>>
    BY <1>7 DEF Finally, At, ledger
  <2>6. Accounts(x, phase'[Here(r)], transmitted'[Here(r)], report'[Here(r)])
    <3>1. x.journal # "none" /\ (x.pc = "verify" => x.journal = "completed")
      BY <1>b, <2>4, <2>5 DEF Accounts, Inside
    <3>2. x.pc \in {"verify", "handler"}
      BY <2>4
    <3>3. QED
      BY <1>b, <2>4, <2>5, <3>1, <3>2 DEF Accounts
  <2>7. QED
    BY <2>3, <2>6
<1>8. CASE Verify(r)
  <2>1. arm[r].pc = "verify" /\ UNCHANGED <<phase, transmitted>>
    BY <1>8 DEF Verify, At, ledger
  <2>2. CASE Goto(r, "done")
    <3>1. PICK x : Becomes(r, x) /\ x.pc = "done" /\ x.journal = arm[r].journal
      BY <1>a, <1>c, <2>2, GotoFields
    <3>2. Accounts(x, phase'[Here(r)], transmitted'[Here(r)], report'[Here(r)])
      BY <1>b, <2>1, <3>1 DEF Accounts, Between, Inside
    <3>3. QED
      BY <3>1, <3>2
  <2>3. CASE Throw(r, "handler", "other") /\ UNCHANGED report
    <3>1. PICK x : Becomes(r, x) /\ x.pc = "handler" /\ x.journal = arm[r].journal
      BY <1>a, <1>c, <2>3, ThrowFields
    <3>2. x.journal = "completed"
      BY <1>b, <2>1, <3>1 DEF Accounts
    <3>3. Accounts(x, phase'[Here(r)], transmitted'[Here(r)], report'[Here(r)])
      BY <1>b, <2>1, <2>3, <3>1, <3>2 DEF Accounts, Between, Inside
    <3>4. QED
      BY <3>1, <3>3
  <2>4. QED
    BY <1>8, <2>2, <2>3 DEF Verify
<1>9. CASE Abort(r)
  <2>1. PICK pc \in {"raised", "failing"} : /\ Goto(r, pc)
                                            /\ pc = "failing" => arm[r].err # "journal"
    BY <1>9 DEF Abort
  <2>2. arm[r].pc = "handler" /\ UNCHANGED <<phase, transmitted, report>>
    BY <1>9 DEF Abort, At, ledger
  <2>3. PICK x : Becomes(r, x) /\ x.pc = pc /\ x.err = arm[r].err /\ x.journal = arm[r].journal
    BY <1>a, <1>c, <2>1, GotoFields
  <2>4. Accounts(x, phase'[Here(r)], transmitted'[Here(r)], report'[Here(r)])
    BY <1>b, <2>1, <2>2, <2>3 DEF Accounts, Between, Inside
  <2>5. QED
    BY <2>3, <2>4
<1>10. CASE AccountFailure(r)
  <2>1. PICK pc \in {"done", "raised"} : Goto(r, pc) /\ (pc = "raised" => UNCHANGED report)
    BY <1>10 DEF AccountFailure, ReportError
  <2>2. PICK x : Becomes(r, x) /\ x.pc = pc /\ x.journal = arm[r].journal
    BY <1>a, <1>c, <2>1, GotoFields
  <2>3. Accounts(x, phase'[Here(r)], transmitted'[Here(r)], report'[Here(r)])
    BY <1>b, <1>d, <2>1, <2>2 DEF Accounts, Between, Inside
  <2>4. QED
    BY <2>2, <2>3
<1>11. QED
  BY <1>2, <1>3, <1>4, <1>5, <1>6, <1>7, <1>8, <1>9, <1>10

\* Every step of an arm keeps the arms and the journal in agreement.
LEMMA JournalStep ==
  ASSUME TypeOK, JournalInv, NEW r \in Roles, ArmStep(r)
  PROVE  JournalInv'
<1>1. PICK x : Becomes(r, x) /\ Accounts(x, phase'[Here(r)], transmitted'[Here(r)], report'[Here(r)])
  BY EarlyAccounts, LateAccounts DEF ArmStep
<1>2. QED
  BY <1>1, OtherAccounts

-----------------------------------------------------------------------------
(* The results and the prompts *)

\* What is ahead of the run stays untouched by the arms it is at.
LEMMA FutureKept ==
  ASSUME TypeOK, FutureInv, NEW r \in Roles, ArmStep(r)
  PROVE  FutureInv'
<1>1. UNCHANGED run /\ run.state = "arms" /\ run.pair \in Nat
  BY ArmFrame DEF TypeOK, Pairs
<1>2. SUFFICES ASSUME NEW a \in Logical, Later(a)'
               PROVE  phase'[a] = "none" /\ ~transmitted'[a] /\ report'[a] = "none"
  BY DEF FutureInv
<1>3. a[1] > run.pair
  BY <1>1, <1>2 DEF Later
<1>4. a # Here(r)
  BY <1>1, <1>3 DEF Here
<1>5. phase[a] = "none" /\ ~transmitted[a] /\ report[a] = "none"
  BY <1>3 DEF FutureInv, Later
<1>6. QED
  BY <1>4, <1>5, PhaseMoves

\* What ReportedIsSettled says about one attempt.
Settled(t, p, s) ==
  /\ t = "completed" => p = "completed" /\ s
  /\ t = "error"     => p \in {"none", "completed", "failed"} /\ (p = "none" => ~s)

\* A step that leaves the reports alone reports nothing: only Verify and AccountFailure do.
LEMMA WhoSettles ==
  ASSUME TypeOK, NEW r \in Roles, ArmStep(r), report' # report
  PROVE  Verify(r) \/ AccountFailure(r)
<1>1. CASE \/ MakeDirectories(r) \/ Prepare(r) \/ Plan(r) \/ Arrive(r) \/ Wake(r) \/ TimeOut(r)
           \/ Stamp(r) \/ Enter(r) \/ Account(r)
  BY <1>1 DEF MakeDirectories, Prepare, Plan, Arrive, Wake, TimeOut, Stamp, Enter, Account
<1>2. CASE \/ Answer(r) \/ AccountLate(r) \/ Validate(r) \/ Complete(r) \/ Finally(r) \/ Abort(r)
  BY <1>2 DEF Answer, AccountLate, Validate, Complete, Finally, Abort
<1>3. QED
  BY <1>1, <1>2 DEF ArmStep

\* An arm that gets its result settles its attempt in the same step, or has before.
LEMMA SettledHere ==
  ASSUME TypeOK, JournalInv, NEW r \in Roles, ArmStep(r)
  PROVE  Settled(report'[Here(r)], phase'[Here(r)], transmitted'[Here(r)])
<1>a. /\ report[Here(r)] = "none" /\ Here(r) \in Logical
      /\ report \in [Logical -> {"none", "completed", "error"}]
  BY Unreported, HereType DEF TypeOK
<1>b. Accounts(arm[r], phase[Here(r)], transmitted[Here(r)], report[Here(r)])
  BY DEF JournalInv
<1>1. CASE report' = report
  BY <1>1, <1>a DEF Settled
<1>2. CASE Verify(r) /\ report' # report
  <2>1. arm[r].pc = "verify" /\ report'[Here(r)] = "completed"
    BY <1>2, <1>a DEF Verify, At
  <2>2. UNCHANGED <<phase, transmitted>>
    BY <1>2 DEF Verify, ledger
  <2>3. phase[Here(r)] = "completed" /\ transmitted[Here(r)]
    BY <1>b, <2>1 DEF Accounts
  <2>4. QED
    BY <2>1, <2>2, <2>3 DEF Settled
<1>3. CASE AccountFailure(r) /\ report' # report
  <2>1. arm[r].pc = "failing" /\ report'[Here(r)] = "error" /\ UNCHANGED transmitted
    BY <1>3, <1>a DEF AccountFailure, ReportError, At
  <2>2. CASE arm[r].journal \in {"planned", "dispatched"} /\ Accept(Here(r), FailEvent(r))
    <3>1. FailEvent(r) \in DOMAIN Required /\ Reached[FailEvent(r)] = "failed"
      BY DEF FailEvent, Required, Reached
    <3>2. phase'[Here(r)] = "failed"
      BY <1>a, <2>2, <3>1, LedgerStep
    <3>3. QED
      BY <2>1, <3>2 DEF Settled
  <2>3. CASE arm[r].journal \notin {"planned", "dispatched"} /\ UNCHANGED ledger
    <3>1. UNCHANGED phase
      BY <2>3 DEF ledger
    <3>2. arm[r].journal \in {"none", "planned", "dispatched", "completed"}
      BY DEF TypeOK, Arm
    <3>3. CASE arm[r].journal = "completed"
      <4>1. phase[Here(r)] = "completed"
        BY <1>b, <3>3 DEF Accounts
      <4>2. QED
        BY <2>1, <3>1, <4>1 DEF Settled
    <3>4. CASE arm[r].journal = "none"
      <4>1. phase[Here(r)] = "none" /\ ~transmitted[Here(r)]
        BY <1>b, <2>1, <3>4 DEF Accounts
      <4>2. QED
        BY <2>1, <3>1, <4>1 DEF Settled
    <3>5. QED
      BY <2>3, <3>2, <3>3, <3>4
  <2>4. QED
    BY <1>3, <2>2, <2>3 DEF AccountFailure
<1>4. QED
  BY <1>1, <1>2, <1>3, WhoSettles

\* Every result agrees with the journal after a step of an arm.
LEMMA ReportedStep ==
  ASSUME TypeOK, JournalInv, ReportedIsSettled, NEW r \in Roles, ArmStep(r)
  PROVE  ReportedIsSettled'
<1>1. SUFFICES ASSUME NEW a \in Logical
               PROVE  Settled(report'[a], phase'[a], transmitted'[a])
  BY DEF ReportedIsSettled, Settled, Logical
<1>2. CASE a = Here(r)
  BY <1>2, SettledHere
<1>3. CASE a # Here(r)
  <2>1. Settled(report[a], phase[a], transmitted[a])
    BY DEF ReportedIsSettled, Settled, Logical
  <2>2. report'[a] = report[a] /\ phase'[a] = phase[a] /\ transmitted'[a] = transmitted[a]
    BY <1>3, PhaseMoves
  <2>3. QED
    BY <2>1, <2>2
<1>4. QED
  BY <1>2, <1>3

\* The prompt of a Claude arm is sent by the step that makes the journal say so.
LEMMA SentHere ==
  ASSUME TypeOK, NEW r \in Roles, ArmStep(r), provider = "claude", transmitted' # transmitted
  PROVE  phase'[Here(r)] = "dispatched"
<1>1. CASE \/ MakeDirectories(r) \/ Prepare(r) \/ Plan(r) \/ Arrive(r) \/ Wake(r) \/ TimeOut(r)
           \/ Stamp(r) \/ Enter(r)
  BY <1>1 DEF MakeDirectories, Prepare, Plan, Arrive, Wake, TimeOut, Stamp, Enter
<1>2. CASE \/ Answer(r) \/ AccountLate(r) \/ Validate(r) \/ Complete(r) \/ Finally(r) \/ Abort(r)
           \/ Verify(r) \/ AccountFailure(r)
  BY <1>2 DEF Answer, AccountLate, Validate, Complete, Finally, Abort, Verify, AccountFailure
<1>3. CASE Account(r)
  <2>1. Accept(Here(r), "dispatch")
    BY <1>3 DEF Account
  <2>2. "dispatch" \in DOMAIN Required /\ Reached["dispatch"] = "dispatched"
    BY DEF Required, Reached
  <2>3. QED
    BY <2>1, <2>2, HereType, LedgerStep
<1>4. QED
  BY <1>1, <1>2, <1>3 DEF ArmStep

\* No prompt is ahead of the journal after a step of an arm.
LEMMA PromptStep ==
  ASSUME TypeOK, DispatchedBeforePrompt, NEW r \in Roles, ArmStep(r)
  PROVE  DispatchedBeforePrompt'
<1>1. SUFFICES ASSUME NEW a \in Logical, provider' = "claude", transmitted'[a]
               PROVE  phase'[a] \in {"dispatched", "completed", "failed"}
  BY DEF DispatchedBeforePrompt, Logical
<1>2. provider = "claude"
  BY <1>1, ArmFrame
<1>3. CASE transmitted[a]
  <2>1. phase[a] \in {"dispatched", "completed", "failed"}
    BY <1>2, <1>3 DEF DispatchedBeforePrompt, Logical
  <2>2. QED
    BY <2>1, PhaseMoves
<1>4. CASE ~transmitted[a]
  <2>1. a = Here(r)
    BY <1>1, <1>4, PhaseMoves
  <2>2. QED
    BY <1>1, <1>2, <1>4, <2>1, SentHere
<1>5. QED
  BY <1>3, <1>4

-----------------------------------------------------------------------------
(* The invariant, and what follows from it *)

\* Nothing has been recorded of the attempt of an arm.
Untouched(r) ==
  phase[Here(r)] = "none" /\ ~transmitted[Here(r)] /\ report[Here(r)] = "none"

\* Two arms that have done nothing satisfy what the meetings, the windows and the journal
\* ask, as long as their attempts are untouched.
LEMMA FreshArms ==
  ASSUME arm' = [r \in Roles |-> Fresh], barrier' = [state |-> "filling", count |-> 0],
         clock' = 0, \A r \in Roles : Untouched(r)'
  PROVE  PlaceInv' /\ MeetingInv' /\ WindowInv' /\ JournalInv'
<1>1. \A r \in Roles : arm'[r] = Fresh
  OBVIOUS
<1>2. PlaceInv'
  BY <1>1 DEF PlaceInv, Fresh, Before, Between, Inside
<1>3. MeetingInv'
  <2>1. \A r \in Roles : ~Waiting(r)' /\ arm'[r].pc \notin Between /\ ~arm'[r].synced
    BY <1>1 DEF Waiting, Fresh, Between
  <2>2. barrier'.state = "filling" /\ barrier'.count = 0
    OBVIOUS
  <2>3. Filling'
    BY <2>1, <2>2 DEF Filling
  <2>4. QED
    BY <2>2, <2>3 DEF MeetingInv
<1>4. WindowInv'
  BY <1>1 DEF WindowInv, Fresh, Untouched
<1>5. JournalInv'
  <2>1. \A r \in Roles : /\ arm'[r].pc = "mkdir" /\ arm'[r].journal = "none"
                         /\ arm'[r].err = "none"
    BY <1>1 DEF Fresh
  <2>2. QED
    BY <2>1 DEF JournalInv, Accounts, Untouched, Between, Inside
<1>6. QED
  BY <1>2, <1>3, <1>4, <1>5

\* The invariant holds initially.
LEMMA InitInv == Init => IInv
<1> SUFFICES ASSUME Init PROVE IInv
  OBVIOUS
<1>1. TypeOK
  BY InitType
<1>2. run.state = "pair"
  BY DEF Init
<1>3. \A a \in Logical : phase[a] = "none" /\ ~transmitted[a] /\ report[a] = "none"
  BY DEF Init, Logical
<1>4. FutureInv
  BY <1>3 DEF FutureInv
<1>5. ReportedIsSettled /\ DispatchedBeforePrompt
  BY <1>3 DEF ReportedIsSettled, DispatchedBeforePrompt, Logical
<1>6. QED
  BY <1>1, <1>2, <1>4, <1>5 DEF IInv

\* The invariant survives every step of an arm.
LEMMA ArmInv ==
  ASSUME IInv, NEW r \in Roles, ArmStep(r), TypeOK'
  PROVE  IInv'
<1>1. TypeOK /\ FutureInv /\ ReportedIsSettled /\ DispatchedBeforePrompt
  BY DEF IInv
<1>2. UNCHANGED <<provider, run>> /\ run.state = "arms"
  BY <1>1, ArmFrame
<1>3. JournalInv
  BY <1>2 DEF IInv
<1>4. Concurrent => PlaceInv' /\ MeetingInv' /\ WindowInv'
  <2>1. SUFFICES ASSUME Concurrent PROVE PlaceInv' /\ MeetingInv' /\ WindowInv'
    OBVIOUS
  <2>2. PlaceInv /\ MeetingInv /\ WindowInv
    BY <1>2, <2>1 DEF IInv
  <2>3. QED
    BY <1>1, <2>1, <2>2, MeetingStep, WindowStep
<1>5. JournalInv'
  BY <1>1, <1>3, JournalStep
<1>6. FutureInv' /\ ReportedIsSettled' /\ DispatchedBeforePrompt'
  BY <1>1, <1>3, FutureKept, ReportedStep, PromptStep
<1>7. Concurrent' <=> Concurrent
  BY <1>2 DEF Concurrent
<1>8. QED
  BY <1>4, <1>5, <1>6, <1>7 DEF IInv

\* The invariant survives every step of the run between two pairs.
LEMMA RunInv ==
  ASSUME IInv, RunStep, TypeOK'
  PROVE  IInv'
<1>1. /\ TypeOK /\ FutureInv /\ ReportedIsSettled /\ DispatchedBeforePrompt
      /\ run.pair \in Nat /\ run.pair \in Pairs
      /\ run \in [pair : Pairs, state : {"pair", "arms", "audit", "published", "failed"}]
  BY DEF IInv, TypeOK, Pairs
<1>2. UNCHANGED <<provider, phase, transmitted, report>>
  BY DEF RunStep, BeginPair, PairFails, EndPair, Publish, ledger
<1>3. ReportedIsSettled' /\ DispatchedBeforePrompt'
  BY <1>1, <1>2 DEF ReportedIsSettled, DispatchedBeforePrompt
<1>4. \/ run'.pair = run.pair /\ run'.state # "pair"
      \/ run'.pair = run.pair + 1 /\ run'.state = "pair"
  BY <1>1 DEF RunStep, BeginPair, PairFails, EndPair, Publish
<1>5. FutureInv'
  <2>1. SUFFICES ASSUME NEW a \in Logical, Later(a)' PROVE Later(a)
    BY <1>1, <1>2 DEF FutureInv
  <2>2. a[1] \in Nat
    BY DEF Logical, Pairs
  <2>3. QED
    BY <1>1, <1>4, <2>1, <2>2 DEF Later
<1>6. CASE BeginPair
  <2>1. \A r \in Roles : Untouched(r)'
    <3>1. SUFFICES ASSUME NEW r \in Roles PROVE Untouched(r)'
      OBVIOUS
    <3>2. Here(r)' = Here(r) /\ Here(r) \in Logical /\ Here(r)[1] = run.pair
      BY <1>1, <1>6, HereType DEF BeginPair, Here
    <3>3. Later(Here(r))
      BY <1>6, <3>2 DEF BeginPair, Later
    <3>4. QED
      BY <1>1, <1>2, <3>2, <3>3 DEF FutureInv, Untouched
  <2>2. PlaceInv' /\ MeetingInv' /\ WindowInv' /\ JournalInv'
    BY <1>6, <2>1, FreshArms DEF BeginPair
  <2>3. QED
    BY <1>3, <1>5, <2>2 DEF IInv
<1>7. CASE PairFails \/ EndPair \/ Publish
  <2>1. run'.state # "arms"
    BY <1>1, <1>7 DEF PairFails, EndPair, Publish
  <2>2. QED
    BY <1>3, <1>5, <2>1 DEF IInv
<1>8. QED
  BY <1>6, <1>7 DEF RunStep

\* The invariant is inductive.
LEMMA NextInv == IInv /\ [Next]_vars => IInv'
<1> SUFFICES ASSUME IInv, [Next]_vars PROVE IInv'
  OBVIOUS
<1>1. TypeOK'
  BY TypeStep DEF IInv
<1>2. CASE RunStep
  BY <1>1, <1>2, RunInv
<1>3. CASE \E r \in Roles : ArmStep(r)
  BY <1>1, <1>3, ArmInv
<1>4. CASE UNCHANGED vars
  <2>1. /\ UNCHANGED <<provider, run, first, barrier, clock, arm, transmitted, report>>
        /\ UNCHANGED <<phase, broken, unaccounted>>
    BY <1>4 DEF vars, ledger
  <2>2. (PlaceInv /\ MeetingInv /\ WindowInv => PlaceInv' /\ MeetingInv' /\ WindowInv')
    BY <2>1 DEF PlaceInv, MeetingInv, Filling, Draining, Waiting, WindowInv, Here
  <2>3. JournalInv => JournalInv'
    BY <2>1 DEF JournalInv, Accounts, Here
  <2>4. FutureInv' /\ ReportedIsSettled' /\ DispatchedBeforePrompt'
    BY <2>1 DEF IInv, FutureInv, Later, ReportedIsSettled, DispatchedBeforePrompt
  <2>5. Concurrent' <=> Concurrent
    BY <2>1 DEF Concurrent
  <2>6. QED
    BY <1>1, <2>1, <2>2, <2>3, <2>4, <2>5 DEF IInv
<1>5. QED
  BY <1>2, <1>3, <1>4 DEF Next, Over

\* When both arms have ended, nobody waits and nobody is inside: they have passed the
\* second meeting together or neither has.
LEMMA NoneIsAlone == ASSUME IInv PROVE BothOrNeither
<1> SUFFICES ASSUME run.state = "arms", Concurrent, \A r \in Roles : Ended(r)
             PROVE  arm["control"].entered = arm["treatment"].entered
  BY DEF BothOrNeither
<1>1. PlaceInv /\ MeetingInv /\ TypeOK
  BY DEF IInv
<1>2. \A r \in Roles : arm[r].pc \in {"done", "raised"}
  BY DEF Ended
<1>3. \A r \in Roles : arm[r].entered <=> arm[r].synced
  BY <1>1, <1>2 DEF PlaceInv
<1>4. \A r, q \in Roles : arm[r].synced => arm[q].synced
  <2>1. CASE barrier.state = "filling"
    BY <1>1, <2>1 DEF MeetingInv, Filling
  <2>2. CASE barrier.state = "draining"
    BY <1>1, <1>2, <2>2 DEF MeetingInv, Draining
  <2>3. CASE barrier.state = "broken"
    BY <1>1, <2>3 DEF MeetingInv
  <2>4. QED
    BY <1>1, <2>1, <2>2, <2>3 DEF TypeOK
<1>5. "control" \in Roles /\ "treatment" \in Roles
  BY DEF Roles
<1>6. arm["control"].entered \in BOOLEAN /\ arm["treatment"].entered \in BOOLEAN
  BY <1>1, <1>5 DEF TypeOK, Arm
<1>7. arm["control"].entered <=> arm["treatment"].entered
  BY <1>3, <1>4, <1>5
<1>8. QED
  BY <1>6, <1>7

\* A completed arm has read the end of its window after both have begun.
LEMMA WindowsMeet == ASSUME IInv PROVE WindowsOverlap
<1> SUFFICES ASSUME run.state = "arms", Concurrent,
                    \A r \in Roles : report[Here(r)] = "completed",
                    NEW r \in Roles, NEW q \in Roles
             PROVE  arm[r].started <= arm[q].finished
  BY DEF WindowsOverlap
<1>1. WindowInv
  BY DEF IInv
<1>2. QED
  BY <1>1 DEF WindowInv

\* The invariant holds in every reachable state, for any number of pairs and any set of
\* providers.
THEOREM Invariance == Spec => []IInv
<1>1. Init => IInv
  BY InitInv
<1>2. IInv /\ [Next]_vars => IInv'
  BY NextInv
<1>3. QED
  BY <1>1, <1>2, PTL DEF Spec

\* A concurrent pair calls its provider for both arms or for neither.
THEOREM NoUnpairedCall == Spec => []BothOrNeither
<1>1. IInv => BothOrNeither
  BY NoneIsAlone
<1>2. QED
  BY <1>1, Invariance, PTL

\* The windows of two completed concurrent arms overlap.
THEOREM CompletedOverlap == Spec => []WindowsOverlap
<1>1. IInv => WindowsOverlap
  BY WindowsMeet
<1>2. QED
  BY <1>1, Invariance, PTL

\* Every arm with a result is settled in the journal accordingly.
THEOREM ResultsAreSettled == Spec => []ReportedIsSettled
<1>1. IInv => ReportedIsSettled
  BY DEF IInv
<1>2. QED
  BY <1>1, Invariance, PTL

\* Claude reads no prompt that the journal does not show as dispatched.
THEOREM PromptIsJournaled == Spec => []DispatchedBeforePrompt
<1>1. IInv => DispatchedBeforePrompt
  BY DEF IInv
<1>2. QED
  BY <1>1, Invariance, PTL


-----------------------------------------------------------------------------
(* A damaged journal stops the run *)

\* An arm x whose way can only end in an exception that is nobody's to handle, because the
\* journal is lost: it raises the ledger's error, or it has still an attempt to fail.
Doomed(x) ==
  \/ x.pc = "raised"
  \/ x.pc = "handler" /\ x.err = "journal"
  \/ x.pc \in {"finally", "handler"} /\ x.err # "none" /\ x.journal \in {"planned", "dispatched"}
  \/ x.pc = "failing" /\ x.journal \in {"planned", "dispatched"}

\* While the journal is lost an arm is doomed, until the run has failed.
BrokenInv ==
  broken => run.state = "failed" \/ (run.state = "arms" /\ \E r \in Roles : Doomed(arm[r]))


\* Only three steps are left to a doomed arm.
LEMMA DoomedSteps ==
  ASSUME NEW r \in Roles, Doomed(arm[r]), ArmStep(r)
  PROVE  Finally(r) \/ Abort(r) \/ AccountFailure(r)
<1>1. arm[r].pc \in {"raised", "finally", "handler", "failing"}
  BY DEF Doomed
<1>2. ~MakeDirectories(r) /\ ~Prepare(r) /\ ~Plan(r)
  BY <1>1 DEF MakeDirectories, Prepare, Plan, At
<1>3. ~Arrive(r) /\ ~Wake(r) /\ ~TimeOut(r) /\ ~Stamp(r)
  BY <1>1 DEF Arrive, Wait, Wake, TimeOut, Stamp, At
<1>4. ~Enter(r) /\ ~Account(r) /\ ~Answer(r) /\ ~AccountLate(r)
  BY <1>1 DEF Enter, Account, Answer, AccountLate, At
<1>5. ~Validate(r) /\ ~Complete(r) /\ ~Verify(r)
  BY <1>1 DEF Validate, Complete, Verify, At
<1>6. QED
  BY <1>2, <1>3, <1>4, <1>5 DEF ArmStep

\* While the journal is lost a doomed arm stays so: whatever hides the ledger's error, the
\* attempt it left behind cannot be failed.
LEMMA DoomedStays ==
  ASSUME TypeOK, broken, NEW r \in Roles, Doomed(arm[r]), ArmStep(r)
  PROVE  Doomed(arm'[r])
<1>1. Arms /\ clock \in Nat /\ arm[r] \in Arm
  BY DEF TypeOK, Arms
<1>2. CASE Finally(r)
  <2>1. PICK err \in {arm[r].err, "other"} :
          arm' = [arm EXCEPT ![r].finished = clock', ![r].err = err,
                             ![r].pc = IF err = "none" THEN "verify" ELSE "handler"]
    BY <1>2 DEF Finally
  <2>2. arm[r].pc = "finally" /\ clock' \in Nat
    BY <1>1, <1>2 DEF Finally, At
  <2>3. arm[r].err # "none" /\ arm[r].journal \in {"planned", "dispatched"}
    BY <2>2 DEF Doomed
  <2>4. err \in {"none", "other", "journal"} /\ err # "none"
    BY <1>1, <2>1, <2>3 DEF Arm
  <2>5. arm'[r] = [arm[r] EXCEPT !.finished = clock', !.err = err,
                                 !.pc = IF err = "none" THEN "verify" ELSE "handler"]
    BY <1>1, <2>1, <2>2, <2>4, FinallyIs DEF Becomes
  <2>6. arm'[r].pc = "handler" /\ arm'[r].err # "none" /\ arm'[r].journal = arm[r].journal
    BY <1>1, <2>4, <2>5 DEF Arm
  <2>7. QED
    BY <2>3, <2>6 DEF Doomed
<1>3. CASE Abort(r)
  <2>1. PICK pc \in {"raised", "failing"} :
          Goto(r, pc) /\ pc = (IF arm[r].err = "journal" THEN "raised" ELSE "failing")
    BY <1>3 DEF Abort
  <2>2. pc \in Places
    BY AllPlaces
  <2>3. arm'[r] = [arm[r] EXCEPT !.pc = pc]
    BY <1>1, <2>1, <2>2, GotoIs DEF Becomes
  <2>4. arm'[r].pc = pc /\ arm'[r].journal = arm[r].journal
    BY <1>1, <2>3 DEF Arm
  <2>5. arm[r].pc = "handler"
    BY <1>3 DEF Abort, At
  <2>6. QED
    BY <2>1, <2>4, <2>5 DEF Doomed
<1>4. CASE AccountFailure(r)
  <2>1. arm[r].pc = "failing"
    BY <1>4 DEF AccountFailure, At
  <2>2. arm[r].journal \in {"planned", "dispatched"}
    BY <2>1 DEF Doomed
  <2>3. Goto(r, "raised")
    BY <1>4, <2>2 DEF AccountFailure, Accept, Admits
  <2>4. "raised" \in Places
    BY AllPlaces
  <2>5. arm'[r] = [arm[r] EXCEPT !.pc = "raised"]
    BY <1>1, <2>3, <2>4, GotoIs DEF Becomes
  <2>6. arm'[r].pc = "raised"
    BY <1>1, <2>5 DEF Arm
  <2>7. QED
    BY <2>6 DEF Doomed
<1>5. QED
  BY <1>2, <1>3, <1>4, DoomedSteps

\* The refused call that loses the journal dooms the arm that made it.
LEMMA DamageDooms ==
  ASSUME TypeOK, JournalInv, ~broken, NEW r \in Roles, ArmStep(r), broken'
  PROVE  Doomed(arm'[r])
<1>1. Arms /\ arm[r] \in Arm /\ {"handler", "finally", "raised"} \subseteq Places
  BY AllPlaces DEF TypeOK, Arms
<1>2. ~(ledger' = ledger)
  BY DEF ledger
<1>3. \A a, e : ~Accept(a, e)
  BY DEF Accept
<1>4. ASSUME NEW pc \in {"handler", "finally"}, NEW err \in {"other", "journal"},
             Throw(r, pc, err)
      PROVE  /\ arm'[r].pc = pc /\ arm'[r].err = err
             /\ arm'[r].journal = arm[r].journal
  <2>1. pc \in Places /\ err \in {"none", "other", "journal"}
    BY <1>1, <1>4
  <2>2. Becomes(r, [arm[r] EXCEPT !.pc = pc, !.err = err])
    BY <1>1, <1>4, <2>1, ThrowIs
  <2>3. arm'[r] = [arm[r] EXCEPT !.pc = pc, !.err = err]
    BY <2>2 DEF Becomes
  <2>4. QED
    BY <1>1, <2>3 DEF Arm
<1>5. CASE Plan(r)
  <2>1. Throw(r, "handler", "journal")
    BY <1>3, <1>5 DEF Plan
  <2>2. QED
    BY <1>4, <2>1 DEF Doomed
<1>6. CASE Account(r) \/ AccountLate(r) \/ Complete(r)
  <2>1. PICK err \in {"other", "journal"}, e \in {"dispatch", "complete"} :
          Throw(r, "finally", err) /\ Refuse(Here(r), e)
    BY <1>2, <1>3, <1>6 DEF Account, AccountLate, Complete
  <2>2. phase[Here(r)] # "completed"
    <3>1. ~(broken' = broken)
      OBVIOUS
    <3>2. Admits(Here(r), e)
      BY <2>1, <3>1 DEF Refuse
    <3>3. Required[e] # "completed"
      BY <2>1 DEF Required
    <3>4. QED
      BY <3>2, <3>3 DEF Admits
  <2>3. Accounts(arm[r], phase[Here(r)], transmitted[Here(r)], report[Here(r)])
    BY DEF JournalInv
  <2>4. arm[r].pc \in {"account", "returned", "complete"}
    BY <1>6 DEF Account, AccountLate, Complete, At
  <2>5. arm[r].journal # "none" /\ arm[r].journal # "completed"
    BY <2>2, <2>3, <2>4 DEF Accounts, Inside
  <2>6. arm[r].journal \in {"planned", "dispatched"}
    BY <1>1, <2>5 DEF Arm
  <2>7. QED
    BY <1>4, <2>1, <2>6 DEF Doomed
<1>7. CASE AccountFailure(r)
  <2>1. Goto(r, "raised")
    BY <1>2, <1>3, <1>7 DEF AccountFailure
  <2>2. arm'[r] = [arm[r] EXCEPT !.pc = "raised"]
    BY <1>1, <2>1, GotoIs DEF Becomes
  <2>3. QED
    BY <1>1, <2>2 DEF Arm, Doomed
<1>8. Plan(r) \/ Account(r) \/ AccountLate(r) \/ Complete(r) \/ AccountFailure(r)
  <2>1. ~MakeDirectories(r) /\ ~Prepare(r) /\ ~Answer(r) /\ ~Validate(r) /\ ~Verify(r)
    BY <1>2 DEF MakeDirectories, Prepare, Answer, Validate, Verify
  <2>2. ~Arrive(r) /\ ~Wake(r) /\ ~TimeOut(r) /\ ~Stamp(r)
    BY <1>2 DEF Arrive, Wake, TimeOut, Stamp
  <2>3. ~Enter(r) /\ ~Finally(r) /\ ~Abort(r)
    BY <1>2 DEF Enter, Finally, Abort
  <2>4. QED
    BY <2>1, <2>2, <2>3 DEF ArmStep
<1>9. QED
  BY <1>5, <1>6, <1>7, <1>8

\* Every step keeps the invariant: the arms of a pair with a doomed one end with an
\* exception, and that fails the run.
LEMMA BrokenNext == IInv /\ BrokenInv /\ [Next]_vars => BrokenInv'
<1> SUFFICES ASSUME IInv, BrokenInv, [Next]_vars, broken'
             PROVE  run'.state = "failed" \/ (run'.state = "arms" /\ \E r \in Roles : Doomed(arm'[r]))
  BY DEF BrokenInv
<1>1. TypeOK /\ run \in [pair : Pairs, state : {"pair", "arms", "audit", "published", "failed"}]
  BY DEF IInv, TypeOK
<1>2. ASSUME NEW r \in Roles, ArmStep(r)
      PROVE  run'.state = "arms" /\ \E q \in Roles : Doomed(arm'[q])
  <2>1. run' = run /\ run.state = "arms" /\ JournalInv
    BY <1>1, <1>2, ArmFrame DEF IInv
  <2>2. CASE ~broken
    BY <1>1, <1>2, <2>1, <2>2, DamageDooms
  <2>3. CASE broken
    <3>1. PICK q \in Roles : Doomed(arm[q])
      BY <2>1, <2>3 DEF BrokenInv
    <3>2. CASE q = r
      <4>1. Doomed(arm'[r])
        BY <1>1, <1>2, <2>3, <3>1, <3>2, DoomedStays
      <4>2. QED
        BY <2>1, <4>1
    <3>3. CASE q # r
      <4>1. arm'[q] = arm[q]
        BY <1>1, <1>2, <3>3, OneArm DEF Becomes
      <4>2. QED
        BY <2>1, <3>1, <4>1
    <3>4. QED
      BY <3>2, <3>3
  <2>4. QED
    BY <2>1, <2>2, <2>3
<1>3. CASE RunStep
  <2>1. broken
    BY <1>3 DEF RunStep, BeginPair, PairFails, EndPair, Publish, ledger
  <2>2. CASE BeginPair \/ Publish
    BY <1>1, <2>1, <2>2 DEF BrokenInv, BeginPair, Publish
  <2>3. CASE PairFails
    BY <1>1, <2>3 DEF PairFails
  <2>4. CASE EndPair
    <3>1. PICK r \in Roles : Doomed(arm[r])
      BY <2>1, <2>4 DEF BrokenInv, EndPair, PairEnded
    <3>2. \E q \in Roles : arm[q].pc = "raised"
      <4>1. CASE Ended(r)
        BY <3>1, <4>1 DEF Ended, Doomed
      <4>2. CASE ~Ended(r)
        <5>1. ~Concurrent /\ r # first /\ (arm[first].pc = "raised" \/ Ended(Other(first)))
          BY <2>4, <4>2 DEF EndPair, PairEnded
        <5>2. first \in Roles
          BY <1>1 DEF TypeOK
        <5>3. Other(first) = r
          BY <5>1, <5>2 DEF Other, Roles
        <5>4. QED
          BY <4>2, <5>1, <5>2, <5>3
      <4>3. QED
        BY <4>1, <4>2
    <3>3. QED
      BY <1>1, <2>4, <3>2 DEF EndPair
  <2>5. QED
    BY <1>3, <2>2, <2>3, <2>4 DEF RunStep
<1>4. CASE UNCHANGED vars
  BY <1>4 DEF vars, ledger, BrokenInv
<1>5. QED
  BY <1>2, <1>3, <1>4 DEF Next, Over

\* A damaged journal stops the run: no further pair begins and nothing is published,
\* whichever exception hid the ledger's own.
THEOREM BrokenRunStops == Spec => DamageStopsRun
<1> DEFINE Stops == broken => run'.pair = run.pair /\ run'.state # "published"
<1>1. Init => BrokenInv
  BY DEF Init, BrokenInv
<1>2. IInv /\ BrokenInv /\ [Next]_vars => BrokenInv'
  BY BrokenNext
<1>3. IInv /\ BrokenInv /\ BrokenInv' /\ [Next]_vars => Stops
  <2> SUFFICES ASSUME IInv, BrokenInv, BrokenInv', [Next]_vars, broken PROVE Stops
    OBVIOUS
  <2>1. TypeOK /\ run \in [pair : Pairs, state : {"pair", "arms", "audit", "published", "failed"}]
    BY DEF IInv, TypeOK
  <2>2. run.state # "published" /\ run.state # "audit" /\ run.state # "pair"
    BY DEF BrokenInv
  <2>3. CASE RunStep
    <3>1. broken'
      BY <2>3 DEF RunStep, BeginPair, PairFails, EndPair, Publish, ledger
    <3>2. run'.state # "published" /\ run'.state # "pair" /\ run'.state # "audit"
      BY <3>1 DEF BrokenInv
    <3>3. CASE PairFails
      BY <2>1, <3>2, <3>3 DEF PairFails
    <3>4. CASE EndPair
      BY <2>1, <3>2, <3>4 DEF EndPair
    <3>5. ~BeginPair /\ ~Publish
      BY <2>2 DEF BeginPair, Publish
    <3>6. QED
      BY <2>3, <3>3, <3>4, <3>5 DEF RunStep
  <2>4. CASE \E r \in Roles : ArmStep(r)
    BY <2>1, <2>2, <2>4, ArmFrame
  <2>5. CASE UNCHANGED vars
    BY <2>2, <2>5 DEF vars
  <2>6. QED
    BY <2>3, <2>4, <2>5 DEF Next, Over
<1>4. QED
  BY <1>1, <1>2, <1>3, Invariance, PTL DEF Spec, DamageStopsRun
===============================================================================
