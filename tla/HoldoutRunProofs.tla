---------------------------- MODULE HoldoutRunProofs ----------------------------
(* A holdout plan is claimed once and before any call, and what it binds is  *)
(* what its run uses, for every number of runs, roots and edits, and         *)
(* whatever stops a preparation or a run.  Then the two parts of a run that  *)
(* have specifications of their own: the snapshot of a source is that of its *)
(* commit, for any trees and edits; and a verdict was given with what was    *)
(* attested, for any case, agent and program.                                *)
EXTENDS HoldoutRun, SourceSnapshot, VerifierCell, TLAPS

-----------------------------------------------------------------------------
(* Admission: the inductive invariant *)

\* Where a run is that has passed the claim, or had none to make.
Inside == {"admitted", "spending", "recorded", "noted", "running", "called", "closed"}

\* A run of the holdout plan that is past the claim owns a durable record.
RecordHeld ==
  \A r \in Holdout :
    /\ pc[r] = "claiming" => record = r
    /\ pc[r] \in Inside \/ r \in called => record = r /\ durable

\* A run that has planned its arms owns the plan of its root.
PlanHeld ==
  /\ \A r \in Runs : pc[r] \in {"called", "closed"} \/ r \in called => planned[rootOf[r]] = r
  /\ \A x \in Roots : result[x] \in {NoRun, planned[x]}

\* The snapshot keeps the root of a run from being removed.
RootKept ==
  \A r \in Runs : pc[r] \in {"noted", "running", "called", "closed"} \/ r \in called
                    => rootOf[r] \in snap

AdmissionInv == TypeOK /\ RecordHeld /\ PlanHeld /\ RootKept

-----------------------------------------------------------------------------
(* The steps of a run *)

AdmissionStep(r) ==
  \/ Preflight(r) \/ MakeRoot(r) \/ FindEmpty(r)
  \/ Claim(r) \/ SyncClaim(r) \/ ClaimFails(r) \/ RemoveRoot(r)
  \/ LookForSpend(r) \/ MakeSpend(r) \/ Snapshot(r)
  \/ OpenLedger(r) \/ Call(r) \/ CloseLedger(r) \/ Publish(r) \/ Stop(r)

\* Every state the program starts from satisfies the invariant.
LEMMA AdmissionInit == Init => AdmissionInv
<1> SUFFICES ASSUME Init PROVE AdmissionInv
  OBVIOUS
<1>1. TypeOK
  <2>1. pc \in [Runs -> Stages] /\ created \in [Runs -> BOOLEAN]
    BY DEF Init, Stages
  <2>2. {lock, planned, result} \subseteq [Roots -> Runs \cup {NoRun}]
    BY DEF Init
  <2>3. losses \in 0..MaxLosses
    BY LossesAssumption DEF Init
  <2>4. QED
    BY <2>1, <2>2, <2>3 DEF Init, TypeOK
<1>2. RecordHeld
  BY RunsAssumption DEF Init, RecordHeld, Inside
<1>3. PlanHeld
  BY DEF Init, PlanHeld
<1>4. RootKept
  BY DEF Init, RootKept
<1>5. QED
  BY <1>1, <1>2, <1>3, <1>4 DEF AdmissionInv

\* A step of a run keeps the types.
LEMMA StepType ==
  ASSUME TypeOK, NEW r \in Runs, AdmissionStep(r)
  PROVE  TypeOK'
<1> USE DEF Go, Stages, disk
<1>1. CASE Preflight(r)
  BY <1>1 DEF Preflight, TypeOK
<1>2. CASE MakeRoot(r)
  BY <1>2 DEF MakeRoot, TypeOK
<1>3. CASE FindEmpty(r)
  BY <1>3 DEF FindEmpty, TypeOK
<1>4. CASE Claim(r)
  BY <1>4 DEF Claim, TypeOK
<1>5. CASE SyncClaim(r)
  BY <1>5 DEF SyncClaim, TypeOK
<1>6. CASE ClaimFails(r)
  BY <1>6 DEF ClaimFails, TypeOK
<1>7. CASE RemoveRoot(r)
  BY <1>7 DEF RemoveRoot, TypeOK
<1>8. CASE LookForSpend(r)
  BY <1>8 DEF LookForSpend, TypeOK
<1>9. CASE MakeSpend(r)
  BY <1>9 DEF MakeSpend, TypeOK
<1>10. CASE Snapshot(r)
  BY <1>10 DEF Snapshot, TypeOK
<1>11. CASE OpenLedger(r)
  BY <1>11 DEF OpenLedger, TypeOK
<1>12. CASE Call(r)
  BY <1>12 DEF Call, TypeOK
<1>13. CASE CloseLedger(r)
  BY <1>13 DEF CloseLedger, Unlocked, TypeOK
<1>14. CASE Publish(r)
  BY <1>14 DEF Publish, TypeOK
<1>15. CASE Stop(r)
  BY <1>15 DEF Stop, Unlocked, TypeOK
<1>16. QED
  BY <1>1, <1>2, <1>3, <1>4, <1>5, <1>6, <1>7, <1>8, <1>9, <1>10, <1>11, <1>12,
     <1>13, <1>14, <1>15 DEF AdmissionStep

\* A step of a run leaves the record to the run that has it: only a claim writes
\* it, and a claim finds none.
LEMMA StepRecord ==
  ASSUME TypeOK, RecordHeld, NEW r \in Runs, AdmissionStep(r)
  PROVE  RecordHeld'
<1> SUFFICES ASSUME NEW s \in Holdout
             PROVE  /\ (pc[s] = "claiming" => record = s)'
                    /\ (pc[s] \in Inside \/ s \in called => record = s /\ durable)'
  BY DEF RecordHeld
<1>0. /\ s \in Runs /\ NoRun \notin Runs
      /\ pc \in [Runs -> Stages]
      /\ pc[s] = "claiming" => record = s
      /\ pc[s] \in Inside \/ s \in called => record = s /\ durable
  BY RunsAssumption DEF RecordHeld, TypeOK
<1> USE DEF Go, Inside, disk
<1>1. CASE Preflight(r) \/ MakeRoot(r) \/ ClaimFails(r) \/ RemoveRoot(r)
  BY <1>0, <1>1 DEF Preflight, MakeRoot, ClaimFails, RemoveRoot
<1>2. CASE FindEmpty(r)
  BY <1>0, <1>2 DEF FindEmpty
<1>3. CASE Claim(r)
  BY <1>0, <1>3 DEF Claim, Unclaimed
<1>4. CASE SyncClaim(r)
  BY <1>0, <1>4 DEF SyncClaim
<1>5. CASE LookForSpend(r) \/ MakeSpend(r) \/ Snapshot(r)
  BY <1>0, <1>5 DEF LookForSpend, MakeSpend, Snapshot
<1>6. CASE OpenLedger(r) \/ CloseLedger(r) \/ Publish(r) \/ Stop(r)
  BY <1>0, <1>6 DEF OpenLedger, CloseLedger, Publish, Stop
<1>7. CASE Call(r)
  BY <1>0, <1>7 DEF Call
<1>8. QED
  BY <1>1, <1>2, <1>3, <1>4, <1>5, <1>6, <1>7 DEF AdmissionStep

\* A step of a run leaves the plan of a root to the run that has made it.
LEMMA StepPlan ==
  ASSUME TypeOK, PlanHeld, NEW r \in Runs, AdmissionStep(r)
  PROVE  PlanHeld'
<1>0. /\ NoRun \notin Runs
      /\ pc \in [Runs -> Stages] /\ rootOf \in [Runs -> Roots]
      /\ planned \in [Roots -> Runs \cup {NoRun}]
      /\ result \in [Roots -> Runs \cup {NoRun}]
  BY RunsAssumption DEF TypeOK
<1> USE DEF Go, disk
<1>1. CASE Call(r)
  BY <1>0, <1>1 DEF Call, PlanHeld
<1>2. CASE Publish(r)
  <2>1. planned[rootOf[r]] = r
    BY <1>2 DEF Publish, PlanHeld
  <2>2. QED
    BY <1>0, <1>2, <2>1 DEF Publish, PlanHeld
<1>3. CASE Stop(r) \/ CloseLedger(r) \/ OpenLedger(r)
  BY <1>0, <1>3 DEF Stop, CloseLedger, OpenLedger, PlanHeld
<1>4. CASE Preflight(r) \/ MakeRoot(r) \/ FindEmpty(r)
  BY <1>0, <1>4 DEF Preflight, MakeRoot, FindEmpty, PlanHeld
<1>5. CASE Claim(r) \/ SyncClaim(r) \/ ClaimFails(r) \/ RemoveRoot(r)
  BY <1>0, <1>5 DEF Claim, SyncClaim, ClaimFails, RemoveRoot, PlanHeld
<1>6. CASE LookForSpend(r) \/ MakeSpend(r) \/ Snapshot(r)
  BY <1>0, <1>6 DEF LookForSpend, MakeSpend, Snapshot, PlanHeld
<1>7. QED
  BY <1>1, <1>2, <1>3, <1>4, <1>5, <1>6 DEF AdmissionStep

\* A step of a run takes no snapshot away, and a run is in its root only after it
\* has written one.
LEMMA StepRoot ==
  ASSUME TypeOK, RootKept, NEW r \in Runs, AdmissionStep(r)
  PROVE  RootKept'
<1>0. pc \in [Runs -> Stages] /\ rootOf \in [Runs -> Roots]
  BY DEF TypeOK
<1> USE DEF Go, disk
<1>1. CASE Snapshot(r)
  BY <1>0, <1>1 DEF Snapshot, RootKept
<1>2. CASE OpenLedger(r) \/ Call(r) \/ CloseLedger(r) \/ Publish(r) \/ Stop(r)
  BY <1>0, <1>2 DEF OpenLedger, Call, CloseLedger, Publish, Stop, RootKept
<1>3. CASE Preflight(r) \/ MakeRoot(r) \/ FindEmpty(r) \/ LookForSpend(r) \/ MakeSpend(r)
  BY <1>0, <1>3 DEF Preflight, MakeRoot, FindEmpty, LookForSpend, MakeSpend, RootKept
<1>4. CASE Claim(r) \/ SyncClaim(r) \/ ClaimFails(r) \/ RemoveRoot(r)
  BY <1>0, <1>4 DEF Claim, SyncClaim, ClaimFails, RemoveRoot, RootKept
<1>5. QED
  BY <1>1, <1>2, <1>3, <1>4 DEF AdmissionStep

-----------------------------------------------------------------------------
(* Loss of power *)

\* The host's death ends every run; it can take a record only if no run that has
\* called an agent owns it.
LEMMA LossInv == AdmissionInv /\ PowerLoss => AdmissionInv'
<1> SUFFICES ASSUME AdmissionInv, PowerLoss PROVE AdmissionInv'
  OBVIOUS
<1>1. TypeOK'
  <2>1. pc' \in [Runs -> Stages]
    BY DEF PowerLoss, Stages
  <2>2. lock' \in [Roots -> Runs \cup {NoRun}]
    BY DEF PowerLoss
  <2>3. losses' \in 0..MaxLosses
    BY LossesAssumption DEF AdmissionInv, TypeOK, PowerLoss
  <2>4. record' \in Runs \cup {NoRun} /\ durable' \in BOOLEAN
    BY DEF AdmissionInv, TypeOK, PowerLoss
  <2>5. QED
    BY <2>1, <2>2, <2>3, <2>4 DEF AdmissionInv, TypeOK, PowerLoss
<1>2. \A r \in Runs : pc'[r] \in {"new", "over"}
  BY DEF PowerLoss
<1>3. RecordHeld'
  <2>1. \A s \in called \cap Holdout : record = s /\ durable
    BY DEF AdmissionInv, RecordHeld
  <2>2. called' = called
    BY DEF PowerLoss
  <2>3. \A s \in called \cap Holdout : record' = s /\ durable'
    BY <2>1, RunsAssumption DEF PowerLoss
  <2>4. QED
    BY <1>2, <2>2, <2>3, RunsAssumption DEF RecordHeld, Inside
<1>4. PlanHeld'
  BY <1>2 DEF AdmissionInv, PlanHeld, PowerLoss
<1>5. RootKept'
  BY <1>2 DEF AdmissionInv, RootKept, PowerLoss
<1>6. QED
  BY <1>1, <1>3, <1>4, <1>5 DEF AdmissionInv

-----------------------------------------------------------------------------
(* Theorems *)

\* The invariant holds in every state of every behaviour.
THEOREM AdmissionInvariance == Spec => []AdmissionInv
<1>1. AdmissionInv /\ [Next]_vars => AdmissionInv'
  <2> SUFFICES ASSUME AdmissionInv, [Next]_vars PROVE AdmissionInv'
    OBVIOUS
  <2>1. CASE UNCHANGED vars
    BY <2>1 DEF vars, disk, AdmissionInv, TypeOK, RecordHeld, PlanHeld, RootKept
  <2>2. CASE PowerLoss
    BY <2>2, LossInv
  <2>3. ASSUME NEW r \in Runs, AdmissionStep(r) PROVE AdmissionInv'
    BY <2>3, StepType, StepRecord, StepPlan, StepRoot DEF AdmissionInv
  <2>4. QED
    BY <2>1, <2>2, <2>3 DEF Next, AdmissionStep
<1>2. QED
  BY AdmissionInit, <1>1, PTL DEF Spec

\* Every state is well typed; what is in a root, is in a root that exists.
THEOREM TypeCorrect == Spec => []TypeOK
<1>1. AdmissionInv => TypeOK
  BY DEF AdmissionInv
<1>2. QED
  BY AdmissionInvariance, <1>1, PTL

\* No two runs call agents with one holdout plan, however many runs there are.
THEOREM SingleAttempt == Spec => []OneAttempt
<1>1. AdmissionInv => OneAttempt
  BY DEF AdmissionInv, RecordHeld, OneAttempt
<1>2. QED
  BY AdmissionInvariance, <1>1, PTL

\* Whoever has called an agent with the plan has consumed it for good.
THEOREM ConsumptionComesFirst == Spec => []ConsumedBeforeCall
<1>1. AdmissionInv => ConsumedBeforeCall
  BY DEF AdmissionInv, RecordHeld, ConsumedBeforeCall
<1>2. QED
  BY AdmissionInvariance, <1>1, PTL

\* Agents of two runs are never called into one root, and no run publishes over
\* the plan of another.
THEOREM SingleRun == Spec => []OneRunPerRoot
<1>1. AdmissionInv => OneRunPerRoot
  BY DEF AdmissionInv, TypeOK, PlanHeld, OneRunPerRoot
<1>2. QED
  BY AdmissionInvariance, <1>1, PTL

\* The root of a run that has called agents is not cleaned up by another.
THEOREM RootsStay == Spec => []UsedRootStays
<1>1. AdmissionInv => UsedRootStays
  BY DEF AdmissionInv, TypeOK, RootKept, UsedRootStays
<1>2. QED
  BY AdmissionInvariance, <1>1, PTL


-----------------------------------------------------------------------------
(* Binding: the inductive invariant *)

Digests == [Fields -> Nat]

PrepStages == LookAts \cup {"create", "fill", "prove", "returned", "failed", "dead"}

\* From the one at which the plan was bound.
Bound == {"bound", "pair", "read", "arm", "copy_fixture", "source", "copy_source",
          "clean", "send", "verifier", "close", "publish", "over"}

BindTypeOK ==
  /\ kind \in {"worktree", "git_ref"}
  /\ files \in [Items -> Nat] /\ head \in Nat
  /\ plan \in [state : {"absent", "partial", "written", "changed"}, binds : Digests]
  /\ prep \in [at : PrepStages, draft : Digests, seen : Digests]
  /\ eye \in [at : LookAts \cup {"bind"} \cup Bound, seen : Digests]
  /\ used \in [prompt : Nat, fixture : Nat, source : Nat, head : Nat]
  /\ asOf \in Digests

\* Versions only grow: what was seen earlier is not larger than what is seen later.
Grown ==
  /\ head <= files["source"]
  /\ \A f \in Fields : prep.seen[f] <= Version(f) /\ asOf[f] <= Version(f)
                         /\ plan.binds[f] <= asOf[f]
  /\ asOf["prompt"] = asOf["tree_prompt"] /\ asOf["fixture"] = asOf["tree_fixture"]

\* The first preflight of a preparation, and what follows until the plan is written.
Drafting ==
  \/ prep.at \in {"create", "fill"}
  \/ prep.at \in LookAts /\ plan.state = "absent"

\* The file tells the first preflight of a preparation from the second.
PlanFollows ==
  /\ prep.at = "create" => plan.state = "absent"
  /\ prep.at = "fill" => plan.state = "partial"
  /\ prep.at \in LookAts => plan.state # "partial"
  /\ prep.at = "prove" => plan.state \in {"written", "changed"}

\* What the second preflight has looked at when it comes to a stage; the manifest,
\* which it has from the first, is compared as it starts.
LookedAt ==
  [open    |-> {}, start |-> {},
   sources |-> {"manifest"},
   shared  |-> {"manifest", "source"},
   prompt  |-> {"manifest", "source", "shared"},
   tree    |-> {"manifest", "source", "shared", "prompt"},
   fixture |-> Fields \ {"fixture"},
   prove   |-> Fields]

\* The proof looks at everything after the plan was written.
ProofIsLater ==
  prep.at \in LookAts \cup {"prove"} /\ ~Drafting =>
    \A f \in LookedAt[prep.at] : asOf[f] <= prep.seen[f]

CaseFields == {"tree_prompt", "tree_fixture", "verifier", "shared"}

\* What the run knows at each stage, and what its arm has used.
RunIsBound ==
  /\ eye.at \in Bound => ~Drafting /\ plan.binds = eye.seen
  /\ eye.at \in Bound \ {"bound"} => eye.seen["manifest"] = asOf["manifest"]
  /\ eye.at \in Bound \ {"bound", "pair"} => \A f \in CaseFields : eye.seen[f] = asOf[f]
  /\ eye.at = "arm" => asOf["prompt"] <= used.prompt /\ used.prompt <= files["prompt"]
  /\ eye.at \in Bound \ {"bound", "pair", "read", "arm"} => used.prompt = asOf["prompt"]
  /\ eye.at \in {"source", "copy_source", "clean", "send", "verifier"} =>
       asOf["fixture"] <= used.fixture /\ used.fixture <= files["fixture"]
  /\ eye.at \in {"close", "publish", "over"} => used.fixture = asOf["fixture"]
  /\ eye.at \in {"copy_source", "clean"} => kind = "worktree"
  /\ eye.at = "clean" =>
       plan.binds["source"] <= used.source /\ used.source <= files["source"]
  /\ eye.at \in {"send", "verifier", "close", "publish", "over"} =>
       used.source = plan.binds["source"] \/ used.head # plan.binds["source"]

\* Nobody but the run that is over has published into its root.
Unpublished ==
  watched # NoRun =>
    /\ watched \in Runs /\ rootOf[watched] \in Roots
    /\ eye.at # "over" => result[rootOf[watched]] # watched

IInv == BindTypeOK /\ Grown /\ PlanFollows /\ ProofIsLater /\ RunIsBound
          /\ HandedOutIsOneState /\ Unpublished

-----------------------------------------------------------------------------
(* Lemmas *)

\* The looks of a preflight, one by one and in their order.
LEMMA LooksInOrder ==
  /\ LookAts = {"open", "start", "sources", "shared", "prompt", "tree", "fixture"}
  /\ \A last :
       /\ After("open", last) = "start"     /\ After("start", last) = "sources"
       /\ After("sources", last) = "shared" /\ After("shared", last) = "prompt"
       /\ After("prompt", last) = "tree"    /\ After("tree", last) = "fixture"
       /\ After("fixture", last) = last
<1>1. DOMAIN Looks = 1..7 /\ Len(Looks) = 7
  BY DEF Looks
<1>2. /\ Looks[1] = "open" /\ Looks[2] = "start" /\ Looks[3] = "sources"
      /\ Looks[4] = "shared" /\ Looks[5] = "prompt" /\ Looks[6] = "tree"
      /\ Looks[7] = "fixture"
  BY DEF Looks
<1>3. \A k \in 1..7 : k = 1 \/ k = 2 \/ k = 3 \/ k = 4 \/ k = 5 \/ k = 6 \/ k = 7
  OBVIOUS
<1>4. LookAts = {"open", "start", "sources", "shared", "prompt", "tree", "fixture"}
  BY <1>1, <1>2, <1>3 DEF LookAts
<1>5. ASSUME NEW i \in 1..7, NEW last
      PROVE  After(Looks[i], last) = IF i < 7 THEN Looks[i + 1] ELSE last
  <2> DEFINE at == Looks[i]
             k  == CHOOSE n \in DOMAIN Looks : Looks[n] = at
  <2>1. k \in 1..7 /\ Looks[k] = at
    BY <1>1
  <2>2. k = i
    BY <2>1, <1>2, <1>3
  <2>3. After(at, last) = IF k < Len(Looks) THEN Looks[k + 1] ELSE last
    BY DEF After
  <2>4. QED
    BY <2>2, <2>3, <1>1
<1>6. ASSUME NEW last
      PROVE  /\ After(Looks[1], last) = Looks[2] /\ After(Looks[2], last) = Looks[3]
             /\ After(Looks[3], last) = Looks[4] /\ After(Looks[4], last) = Looks[5]
             /\ After(Looks[5], last) = Looks[6] /\ After(Looks[6], last) = Looks[7]
             /\ After(Looks[7], last) = last
  BY <1>5
<1>7. QED
  BY <1>2, <1>4, <1>6

\* The invariant holds initially.
LEMMA InitInv == BindInit => IInv
<1> SUFFICES ASSUME BindInit PROVE IInv
  OBVIOUS
<1>1. "open" \in LookAts
  BY LooksInOrder
<1>2. Unseen \in Digests /\ \A f \in Fields : Unseen[f] = 0
  BY DEF Unseen, Digests
<1>3. BindTypeOK
  <2>1. prep \in [at : PrepStages, draft : Digests, seen : Digests]
    BY <1>1, <1>2 DEF BindInit, Nothing, PrepStages
  <2>2. files \in [Items -> Nat] /\ head \in Nat
    BY DEF BindInit
  <2>3. plan \in [state : {"absent", "partial", "written", "changed"}, binds : Digests]
    BY <1>2 DEF BindInit
  <2>4. eye \in [at : LookAts \cup {"bind"} \cup Bound, seen : Digests]
    BY <1>1, <1>2 DEF BindInit
  <2>5. used \in [prompt : Nat, fixture : Nat, source : Nat, head : Nat] /\ asOf \in Digests
    BY <1>2 DEF BindInit
  <2>6. kind \in {"worktree", "git_ref"}
    BY DEF BindInit
  <2>7. QED
    BY <2>1, <2>2, <2>3, <2>4, <2>5, <2>6 DEF BindTypeOK
<1>4. Grown
  <2>1. \A f \in Fields : Version(f) = 0
    BY DEF BindInit, Version, Fields, Items
  <2>2. \A f \in Fields : prep.seen[f] = 0 /\ asOf[f] = 0 /\ plan.binds[f] = 0
    BY <1>2 DEF BindInit, Nothing
  <2>3. head = 0 /\ files["source"] = 0
    BY DEF BindInit, Items
  <2>4. QED
    BY <2>1, <2>2, <2>3 DEF Grown, Fields, Items
<1>5. PlanFollows /\ ProofIsLater /\ HandedOutIsOneState
  BY <1>1 DEF BindInit, Nothing, PlanFollows, ProofIsLater, HandedOutIsOneState, Drafting
<1>6. RunIsBound
  BY DEF BindInit, RunIsBound, Bound
<1>7. Unpublished
  BY WatchableAssumption, RunsAssumption DEF BindInit, Init, Unpublished
<1>8. QED
  BY <1>3, <1>4, <1>5, <1>6, <1>7 DEF IInv

\* What a version is, field by field.
LEMMA Versions ==
  /\ Version("tree_prompt") = files["prompt"] /\ Version("tree_fixture") = files["fixture"]
  /\ Version("source") = head
  /\ \A f \in {"manifest", "shared", "prompt", "fixture", "verifier"} : Version(f) = files[f]
<1>1. Version("tree_prompt") = files["prompt"]
  BY DEF Version
<1>2. Version("tree_fixture") = files["fixture"]
  BY DEF Version
<1>3. Version("source") = head
  BY DEF Version
<1>4. ASSUME NEW f \in {"manifest", "shared", "prompt", "fixture", "verifier"}
      PROVE  Version(f) = files[f]
  BY DEF Version
<1>5. QED
  BY <1>1, <1>2, <1>3, <1>4

\* The versions after a step, spelled out.
LEMMA VersionsPrimed ==
  /\ Version("tree_prompt")' = files'["prompt"] /\ Version("tree_fixture")' = files'["fixture"]
  /\ Version("source")' = head'
  /\ \A f \in {"manifest", "shared", "prompt", "fixture", "verifier"} : Version(f)' = files'[f]
<1>1. Version("tree_prompt")' = files'["prompt"]
  BY DEF Version
<1>2. Version("tree_fixture")' = files'["fixture"]
  BY DEF Version
<1>3. Version("source")' = head'
  BY DEF Version
<1>4. ASSUME NEW f \in {"manifest", "shared", "prompt", "fixture", "verifier"}
      PROVE  Version(f)' = files'[f]
  BY DEF Version
<1>5. QED
  BY <1>1, <1>2, <1>3, <1>4

\* Every version is a number.
LEMMA VersionType ==
  ASSUME BindTypeOK, NEW f \in Fields
  PROVE  Version(f) \in Nat
BY Versions DEF BindTypeOK, Fields, Items

\* Steps of others, and of the run outside the binding, keep the invariant.
LEMMA StillInv ==
  ASSUME IInv, UNCHANGED binding, watched # NoRun => UNCHANGED <<result, rootOf>>
  PROVE  IInv'
<1> USE DEF IInv
<1>1. UNCHANGED <<watched, kind, files, head, plan, prep, eye, used, asOf>>
  BY DEF binding, suite
<1>2. BindTypeOK'
  BY <1>1 DEF BindTypeOK
<1>3. \A f \in Fields : Version(f)' = Version(f)
  BY <1>1, Versions, VersionsPrimed DEF Fields, Items
<1>4. Grown'
  BY <1>1, <1>3 DEF Grown
<1>5. (PlanFollows /\ ProofIsLater /\ HandedOutIsOneState)'
  BY <1>1 DEF PlanFollows, ProofIsLater, HandedOutIsOneState, Drafting
<1>6. RunIsBound'
  BY <1>1 DEF RunIsBound, Drafting
<1>7. Unpublished'
  BY <1>1 DEF Unpublished
<1>8. QED
  BY <1>2, <1>4, <1>5, <1>6, <1>7

\* Edits and commits make later versions.
LEMMA FilesInv ==
  ASSUME IInv, (\E i \in Items : Edit(i)) \/ CommitSource
  PROVE  IInv'
<1> USE DEF IInv
<1>1. UNCHANGED <<vars, watched, kind, plan, prep, eye, used, asOf>>
  BY DEF Edit, CommitSource
<1>2. files' \in [Items -> Nat] /\ head' \in Nat
  BY DEF Edit, CommitSource, BindTypeOK, Items
<1>3. /\ \A i \in Items : files[i] <= files'[i]
      /\ head <= head' /\ head' <= files'["source"]
  BY DEF Edit, CommitSource, BindTypeOK, Grown, Items
<1>4. BindTypeOK'
  BY <1>1, <1>2 DEF BindTypeOK
<1>5. \A f \in Fields : Version(f) <= Version(f)'
  BY <1>3, Versions, VersionsPrimed DEF Fields, Items
<1>6. Grown'
  <2>1. \A f \in Fields : /\ prep.seen[f] \in Nat /\ asOf[f] \in Nat
                          /\ Version(f) \in Nat /\ Version(f)' \in Nat
    BY <1>4, VersionType, <1>2, VersionsPrimed DEF BindTypeOK, Digests, Fields, Items
  <2>2. \A f \in Fields : prep.seen[f] <= Version(f)' /\ asOf[f] <= Version(f)'
    BY <2>1, <1>5 DEF Grown
  <2>3. QED
    BY <2>2, <1>1, <1>3 DEF Grown
<1>7. (PlanFollows /\ ProofIsLater /\ HandedOutIsOneState)'
  BY <1>1 DEF PlanFollows, ProofIsLater, HandedOutIsOneState, Drafting
<1>8. RunIsBound'
  <2>1. /\ used.prompt \in Nat /\ used.fixture \in Nat /\ used.source \in Nat
        /\ \A i \in Items : files[i] \in Nat /\ files'[i] \in Nat
    BY <1>2 DEF BindTypeOK
  <2>2. /\ used.prompt <= files["prompt"] => used.prompt <= files'["prompt"]
        /\ used.fixture <= files["fixture"] => used.fixture <= files'["fixture"]
        /\ used.source <= files["source"] => used.source <= files'["source"]
    BY <2>1, <1>3 DEF Items
  <2>3. QED
    BY <2>2, <1>1 DEF RunIsBound, Drafting
<1>9. Unpublished'
  BY <1>1 DEF Unpublished, vars, disk
<1>10. QED
  BY <1>4, <1>6, <1>7, <1>8, <1>9

\* An edit of the plan file shows, and nothing that is bound follows it.
LEMMA EditPlanInv ==
  ASSUME IInv, EditPlan
  PROVE  IInv'
<1> USE DEF IInv
<1>1. /\ plan.state = "written" /\ plan'.state = "changed" /\ plan'.binds = plan.binds
      /\ plan' \in [state : {"absent", "partial", "written", "changed"}, binds : Digests]
  BY DEF EditPlan, BindTypeOK
<1>2. UNCHANGED <<vars, watched, kind, files, head, prep, eye, used, asOf>>
  BY DEF EditPlan
<1>3. BindTypeOK'
  BY <1>1, <1>2 DEF BindTypeOK
<1>4. \A f \in Fields : Version(f)' = Version(f)
  BY <1>2, Versions, VersionsPrimed DEF Fields, Items
<1>5. Grown'
  BY <1>1, <1>2, <1>4 DEF Grown
<1>6. Drafting' = Drafting
  BY <1>1, <1>2 DEF Drafting
<1>7. (PlanFollows /\ ProofIsLater /\ HandedOutIsOneState)'
  BY <1>1, <1>2, <1>6 DEF PlanFollows, ProofIsLater, HandedOutIsOneState
<1>8. RunIsBound'
  BY <1>1, <1>2, <1>6 DEF RunIsBound
<1>9. Unpublished'
  BY <1>2 DEF Unpublished, vars, disk
<1>10. QED
  BY <1>3, <1>5, <1>7, <1>8, <1>9

\* A look only adds a version to what was seen.
LEMMA LookTypes ==
  ASSUME BindTypeOK, NEW at \in LookAts, NEW seen \in Digests
  PROVE  /\ Seen(at, seen) \in Digests
         /\ \A f \in Fields : Seen(at, seen)[f] = IF f \in RecordedAt[at] THEN Version(f) ELSE seen[f]
BY VersionType DEF Seen, Digests

\* Every look adds what it records, and the start compares the manifest.
LEMMA LooksLater ==
  ASSUME NEW at \in LookAts
  PROVE  LET next == After(at, "prove")
         IN  /\ LookedAt[next] \subseteq Fields
             /\ LookedAt[next] \subseteq LookedAt[at] \cup RecordedAt[at]
                                    \cup IF at = "start" THEN {"manifest"} ELSE {}
<1>1. CASE at \in {"open", "start", "sources", "shared"}
  BY <1>1, LooksInOrder DEF LookedAt, RecordedAt, Fields, Items
<1>2. CASE at \in {"prompt", "tree", "fixture"}
  BY <1>2, LooksInOrder DEF LookedAt, RecordedAt, Fields, Items
<1>3. QED
  BY <1>1, <1>2, LooksInOrder

\* The looks of a preparation: what the second preflight sees is not earlier than the plan.
LEMMA PrepLookInv ==
  ASSUME IInv, PrepLook
  PROVE  IInv'
<1> USE DEF IInv
<1> PICK at \in LookAts :
      /\ MayLook(at, prep.seen)
      /\ prep.at = at
      /\ prep' = [prep EXCEPT
           !.at = After(at, IF plan.state = "absent" THEN "create" ELSE "prove"),
           !.seen = Seen(at, @)]
      /\ UNCHANGED <<vars, watched, kind, files, head, edits, eye, used, plan, asOf>>
  BY DEF PrepLook, Preparing, suite
<1> DEFINE last == IF plan.state = "absent" THEN "create" ELSE "prove"
<1>1. After(at, last) \in PrepStages /\ After(at, last) \notin {"open", "fill", "returned"}
  BY LooksInOrder DEF PrepStages
<1>2. prep.seen \in Digests
  BY DEF BindTypeOK
<1>3. /\ prep' \in [at : PrepStages, draft : Digests, seen : Digests]
      /\ prep'.at = After(at, last) /\ prep'.seen = Seen(at, prep.seen)
  BY <1>1, <1>2, LookTypes DEF BindTypeOK
<1>4. \A f \in Fields : prep'.seen[f] = IF f \in RecordedAt[at] THEN Version(f) ELSE prep.seen[f]
  BY <1>2, <1>3, LookTypes
<1>5. BindTypeOK'
  BY <1>3 DEF BindTypeOK
<1>6. \A f \in Fields : Version(f)' = Version(f)
  BY Versions, VersionsPrimed DEF Fields, Items
<1>7. Grown'
  <2>1. \A f \in Fields : prep'.seen[f] <= Version(f)
    BY <1>4, VersionType DEF Grown
  <2>2. QED
    BY <2>1, <1>6 DEF Grown
<1>8. Drafting' <=> Drafting
  <2>1. CASE at = "fixture"
    <3>1. prep'.at = last
      BY <2>1, <1>3, LooksInOrder
    <3>2. QED
      BY <3>1, LooksInOrder DEF Drafting
  <2>2. CASE at # "fixture"
    <3>1. prep'.at \in LookAts
      BY <2>2, <1>3, LooksInOrder
    <3>2. QED
      BY <3>1, LooksInOrder DEF Drafting
  <2>3. QED
    BY <2>1, <2>2
<1>9. PlanFollows'
  <2>1. prep'.at \in LookAts \/ prep'.at = last
    BY <1>3, LooksInOrder
  <2>2. plan'.state = plan.state /\ plan.state # "partial"
    BY DEF PlanFollows
  <2>3. plan.state \in {"absent", "partial", "written", "changed"}
    BY DEF BindTypeOK
  <2>4. QED
    BY <2>1, <2>2, <2>3, LooksInOrder DEF PlanFollows
<1>10. ProofIsLater'
  <2> SUFFICES ASSUME ~Drafting, NEW f \in LookedAt[prep'.at]
               PROVE  asOf[f] <= prep'.seen[f]
    <3>1. prep'.at \in LookAts \cup {"prove"} => Fields = Fields'
      OBVIOUS
    <3>2. QED
      BY <1>8 DEF ProofIsLater
  <2>1. plan.state # "absent"
    BY DEF Drafting
  <2>2. prep'.at = After(at, "prove")
    BY <2>1, <1>3
  <2>3. f \in LookedAt[at] \cup RecordedAt[at] \cup IF at = "start" THEN {"manifest"} ELSE {}
    BY <2>2, LooksLater
  <2>4. f \in Fields
    BY <2>2, LooksLater
  <2>5. asOf[f] <= Version(f)
    BY <2>4 DEF Grown
  <2>6. CASE f \in RecordedAt[at]
    BY <2>6, <2>4, <2>5, <1>4
  <2>7. CASE f \in LookedAt[at] /\ f \notin RecordedAt[at]
    BY <2>7, <2>4, <1>4 DEF ProofIsLater
  <2>8. CASE at = "start" /\ f = "manifest"
    <3>1. Version(f) = prep.seen[f]
      BY <2>8, Versions DEF MayLook
    <3>2. f \notin RecordedAt[at]
      BY <2>8 DEF RecordedAt
    <3>3. QED
      BY <3>1, <3>2, <2>4, <2>5, <1>4
  <2>9. QED
    BY <2>3, <2>6, <2>7, <2>8
<1>11. HandedOutIsOneState'
  BY <1>1, <1>3 DEF HandedOutIsOneState
<1>12. RunIsBound'
  BY <1>8 DEF RunIsBound
<1>13. Unpublished'
  BY DEF Unpublished, vars, disk
<1>14. QED
  BY <1>5, <1>7, <1>9, <1>10, <1>11, <1>12, <1>13

\* The other steps of a preparation: only that which writes the plan changes what it binds.
LEMMA PreparationInv ==
  ASSUME IInv, CreatePlan \/ FillPlan \/ ProvePlan \/ PrepEnds
  PROVE  IInv'
<1> USE DEF IInv
<1>1. UNCHANGED <<vars, watched, kind, files, head, edits, eye, used>>
  BY DEF CreatePlan, FillPlan, ProvePlan, PrepEnds, Preparing, suite
<1>2. \A f \in Fields : Version(f)' = Version(f)
  BY <1>1, Versions, VersionsPrimed DEF Fields, Items
<1>3. Unpublished'
  BY <1>1 DEF Unpublished, vars, disk
<1>4. Unseen \in Digests /\ \A f \in Fields : Unseen[f] = 0
  BY DEF Unseen, Digests
<1>5. \A f \in Fields : Version(f) \in Nat /\ asOf[f] \in Nat /\ plan.binds[f] \in Nat
  BY VersionType DEF BindTypeOK, Digests
<1>6. CASE CreatePlan
  <2>1. /\ prep.at = "create" /\ prep'.at = "fill" /\ prep'.seen = prep.seen
        /\ prep' \in [at : PrepStages, draft : Digests, seen : Digests]
        /\ plan'.state = "partial" /\ plan'.binds = plan.binds
        /\ plan' \in [state : {"absent", "partial", "written", "changed"}, binds : Digests]
        /\ asOf' = asOf
    BY <1>6 DEF CreatePlan, Preparing, BindTypeOK, PrepStages
  <2>2. BindTypeOK'
    BY <1>1, <2>1 DEF BindTypeOK
  <2>3. Grown'
    BY <1>1, <1>2, <2>1 DEF Grown
  <2>4. Drafting /\ Drafting'
    BY <2>1 DEF Drafting
  <2>5. (PlanFollows /\ ProofIsLater /\ HandedOutIsOneState)'
    <3>1. prep'.at = "fill" /\ plan'.state = "partial" /\ prep'.at \notin LookAts
      BY <2>1, LooksInOrder
    <3>2. PlanFollows'
      BY <3>1 DEF PlanFollows
    <3>3. (ProofIsLater /\ HandedOutIsOneState)'
      BY <3>1, LooksInOrder DEF ProofIsLater, HandedOutIsOneState
    <3>4. QED
      BY <3>2, <3>3
  <2>6. RunIsBound'
    BY <1>1, <2>4 DEF RunIsBound, Bound
  <2>7. QED
    BY <1>3, <2>2, <2>3, <2>5, <2>6
<1>7. CASE FillPlan
  <2> DEFINE first == [Unseen EXCEPT !["manifest"] = prep.seen["manifest"]]
  <2>1. prep.seen \in Digests /\ first \in Digests
    BY <1>4 DEF BindTypeOK, Digests, Fields, Items
  <2>2. \A f \in Fields : first[f] = IF f = "manifest" THEN prep.seen["manifest"] ELSE 0
    BY <1>4 DEF Unseen
  <2>3. "start" \in PrepStages /\ "start" \in LookAts
    BY LooksInOrder DEF PrepStages
  <2>4. /\ prep.at = "fill" /\ prep' = [at |-> "start", draft |-> prep.seen, seen |-> first]
        /\ plan' = [state |-> "written", binds |-> prep.seen]
        /\ asOf' = [f \in Fields |-> Version(f)]
    BY <1>7 DEF FillPlan, Preparing
  <2>5. asOf' \in Digests
    BY <1>5, <2>4 DEF Digests
  <2>6. BindTypeOK'
    BY <1>1, <2>1, <2>3, <2>4, <2>5 DEF BindTypeOK
  <2>7. Grown'
    <3>1. \A f \in Fields : prep'.seen[f] <= Version(f) /\ asOf'[f] = Version(f)
                            /\ plan'.binds[f] <= asOf'[f]
      BY <1>5, <2>2, <2>4 DEF Grown, Fields, Items
    <3>2. asOf'["prompt"] = asOf'["tree_prompt"] /\ asOf'["fixture"] = asOf'["tree_fixture"]
      BY <3>1, Versions DEF Fields, Items
    <3>3. \A f \in Fields : asOf'[f] <= Version(f)
      BY <3>1, <1>5
    <3>4. QED
      BY <1>1, <1>2, <3>1, <3>2, <3>3 DEF Grown
  <2>8. Drafting /\ ~Drafting'
    BY <2>4 DEF Drafting
  <2>9. (PlanFollows /\ HandedOutIsOneState)'
    <3>1. prep'.at = "start" /\ plan'.state = "written"
      BY <2>4
    <3>2. QED
      BY <3>1 DEF PlanFollows, HandedOutIsOneState
  <2>10. ProofIsLater'
    BY <2>4 DEF ProofIsLater, LookedAt
  <2>11. RunIsBound'
    BY <1>1, <2>8 DEF RunIsBound, Bound
  <2>12. QED
    BY <1>3, <2>6, <2>7, <2>9, <2>10, <2>11
<1>8. CASE ProvePlan
  <2>1. /\ prep.at = "prove" /\ prep' = [Nothing EXCEPT !.at = "returned"]
        /\ plan.binds = prep.seen /\ plan' = plan /\ asOf' = asOf
    BY <1>8 DEF ProvePlan, Preparing, Binds
  <2>2. BindTypeOK'
    BY <1>1, <1>4, <2>1 DEF BindTypeOK, Nothing, PrepStages
  <2>3. Grown'
    BY <1>1, <1>2, <1>4, <1>5, <2>1 DEF Grown, Nothing
  <2>4. ~Drafting /\ ~Drafting' /\ prep'.at = "returned"
    BY <2>1, LooksInOrder DEF Drafting, PlanFollows, Nothing
  <2>5. \A f \in Fields : plan.binds[f] = asOf[f]
    <3>1. \A f \in Fields : asOf[f] <= plan.binds[f]
      BY <2>1, <2>4 DEF ProofIsLater, LookedAt
    <3>2. QED
      BY <3>1, <1>5 DEF Grown
  <2>6. HandedOutIsOneState'
    BY <2>1, <2>5 DEF HandedOutIsOneState, BindTypeOK, Digests
  <2>7. (PlanFollows /\ ProofIsLater)'
    BY <2>4, LooksInOrder DEF PlanFollows, ProofIsLater
  <2>8. RunIsBound'
    BY <1>1, <2>1, <2>4 DEF RunIsBound
  <2>9. QED
    BY <1>3, <2>2, <2>3, <2>6, <2>7, <2>8
<1>9. CASE PrepEnds
  <2>1. PICK how \in {"failed", "dead"} :
          /\ prep.at # "returned" /\ prep' = [Nothing EXCEPT !.at = how] /\ asOf' = asOf
          /\ plan' = IF how = "failed" THEN [plan EXCEPT !.state = "absent"] ELSE plan
    BY <1>9 DEF PrepEnds, Preparing
  <2>2. /\ plan'.binds = plan.binds
        /\ plan' \in [state : {"absent", "partial", "written", "changed"}, binds : Digests]
    BY <2>1 DEF BindTypeOK
  <2>3. BindTypeOK'
    BY <1>1, <1>4, <2>1, <2>2 DEF BindTypeOK, Nothing, PrepStages
  <2>4. Grown'
    BY <1>1, <1>2, <1>4, <1>5, <2>1, <2>2 DEF Grown, Nothing
  <2>5. ~Drafting' /\ prep'.at \in {"failed", "dead"}
    BY <2>1, LooksInOrder DEF Drafting, Nothing
  <2>6. (PlanFollows /\ ProofIsLater /\ HandedOutIsOneState)'
    BY <2>5, LooksInOrder DEF PlanFollows, ProofIsLater, HandedOutIsOneState
  <2>7. RunIsBound'
    BY <1>1, <2>1, <2>2, <2>5 DEF RunIsBound
  <2>8. QED
    BY <1>3, <2>3, <2>4, <2>6, <2>7
<1>10. QED
  BY <1>6, <1>7, <1>8, <1>9

\* What a step of the watched run leaves alone, and what is left to show for it.
LEMMA WatchFrame ==
  ASSUME IInv, UNCHANGED <<watched, kind, files, head, plan, prep, asOf>>,
         eye' \in [at : LookAts \cup {"bind"} \cup Bound, seen : Digests],
         used' \in [prompt : Nat, fixture : Nat, source : Nat, head : Nat],
         RunIsBound', Unpublished'
  PROVE  IInv'
<1> USE DEF IInv
<1>1. BindTypeOK'
  BY DEF BindTypeOK
<1>2. \A f \in Fields : Version(f)' = Version(f)
  BY Versions, VersionsPrimed DEF Fields, Items
<1>3. Grown'
  BY <1>2 DEF Grown
<1>4. (PlanFollows /\ ProofIsLater /\ HandedOutIsOneState)'
  BY DEF PlanFollows, ProofIsLater, HandedOutIsOneState, Drafting
<1>5. QED
  BY <1>1, <1>3, <1>4

\* The looks of the run bind nothing yet.
LEMMA LookInv ==
  ASSUME IInv, Look, watched # NoRun
  PROVE  IInv'
<1> USE DEF IInv
<1> PICK at \in LookAts :
      /\ eye.at = at
      /\ eye' = [at |-> After(at, "bind"), seen |-> Seen(at, eye.seen)]
      /\ UNCHANGED <<vars, watched, kind, files, head, plan, prep, used, asOf>>
  BY DEF Look, suite
<1>1. After(at, "bind") \in LookAts \cup {"bind"}
  BY LooksInOrder
<1>2. eye.seen \in Digests
  BY DEF BindTypeOK
<1>3. eye' \in [at : LookAts \cup {"bind"} \cup Bound, seen : Digests]
  BY <1>1, <1>2, LookTypes
<1>4. eye.at \notin Bound /\ eye'.at \notin Bound
  BY <1>1, LooksInOrder DEF Bound
<1>5. RunIsBound'
  BY <1>4, <1>3 DEF RunIsBound, Bound
<1>6. Unpublished'
  BY <1>4 DEF Unpublished, vars, disk, Bound
<1>7. used' \in [prompt : Nat, fixture : Nat, source : Nat, head : Nat]
  BY DEF BindTypeOK
<1>8. QED
  BY <1>3, <1>5, <1>6, <1>7, WatchFrame

\* A plan that can be read binds the last thing that was written into it.
LEMMA WrittenIsDone ==
  ASSUME PlanFollows, Readable
  PROVE  ~Drafting
BY LooksInOrder DEF PlanFollows, Readable, Drafting

\* A check of the case after the plan was written ties it to that moment.
LEMMA CaseIsBound ==
  ASSUME BindTypeOK, Grown, CaseHolds, plan.binds = eye.seen
  PROVE  \A f \in CaseFields : eye.seen[f] = asOf[f]
<1>1. \A f \in CaseFields : /\ f \in Fields /\ Version(f) = eye.seen[f]
                            /\ eye.seen[f] \in Nat /\ asOf[f] \in Nat
  BY DEF CaseHolds, CaseFields, Fields, Items, BindTypeOK, Digests
<1>2. \A f \in CaseFields : eye.seen[f] <= asOf[f] /\ asOf[f] <= eye.seen[f]
  BY <1>1 DEF Grown
<1>3. QED
  BY <1>1, <1>2

\* The steps of the run, up to the call of its agent.
LEMMA BindingInv ==
  ASSUME IInv, BindPlan \/ Admit \/ CheckPair \/ Send, watched # NoRun
  PROVE  IInv'
<1> USE DEF IInv
<1>1. UNCHANGED <<watched, kind, files, head, plan, prep, asOf, used, rootOf, result>>
  BY DEF BindPlan, Admit, CheckPair, Send, Watching, Preflight, MakeRoot, Paired, Call,
         suite, vars, disk
<1>2. Drafting' = Drafting
  BY <1>1 DEF Drafting
<1>3. eye.seen \in Digests /\ eye \in [at : LookAts \cup {"bind"} \cup Bound, seen : Digests]
  BY DEF BindTypeOK
<1>4. /\ eye' \in [at : LookAts \cup {"bind"} \cup Bound, seen : Digests]
      /\ eye'.seen = eye.seen /\ eye'.at \in {"bound", "pair", "read", "verifier"}
  BY <1>3 DEF BindPlan, Admit, CheckPair, Send, Watching, Paired, Bound
<1>5. used' \in [prompt : Nat, fixture : Nat, source : Nat, head : Nat]
  BY <1>1 DEF BindTypeOK
<1>6. Unpublished'
  <2>1. eye.at # "over"
    BY DEF BindPlan, Admit, CheckPair, Send, Watching, Paired
  <2>2. QED
    BY <1>1, <2>1 DEF Unpublished
<1>7. CASE BindPlan
  <2>1. ~Drafting /\ plan.binds = eye.seen /\ eye'.at = "bound"
    BY <1>3, <1>7, WrittenIsDone DEF BindPlan, Binds, Watching
  <2>2. RunIsBound'
    BY <1>1, <1>2, <1>4, <2>1 DEF RunIsBound, Bound
  <2>3. QED
    BY <1>1, <1>4, <1>5, <1>6, <2>2, WatchFrame
<1>8. CASE Admit
  <2>1. eye.at = "bound" /\ eye'.at = "pair" /\ files["manifest"] = eye.seen["manifest"]
    BY <1>3, <1>8 DEF Admit, Watching
  <2>2. eye.seen["manifest"] = asOf["manifest"]
    <3>1. /\ plan.binds["manifest"] <= asOf["manifest"] /\ asOf["manifest"] <= files["manifest"]
          /\ plan.binds = eye.seen
      BY <2>1, Versions DEF Grown, Fields, Items, RunIsBound, Bound
    <3>2. asOf["manifest"] \in Nat /\ files["manifest"] \in Nat
      BY DEF BindTypeOK, Digests, Fields, Items
    <3>3. QED
      BY <2>1, <3>1, <3>2
  <2>3. RunIsBound'
    BY <1>1, <1>2, <1>4, <2>1, <2>2 DEF RunIsBound, Bound
  <2>4. QED
    BY <1>1, <1>4, <1>5, <1>6, <2>3, WatchFrame
<1>9. CASE CheckPair
  <2>1. eye.at = "pair" /\ eye'.at = "read" /\ CaseHolds
    BY <1>3, <1>9 DEF CheckPair, Watching, Paired
  <2>2. \A f \in CaseFields : eye.seen[f] = asOf[f]
    BY <2>1, CaseIsBound DEF RunIsBound, Bound
  <2>3. RunIsBound'
    BY <1>1, <1>2, <1>4, <2>1, <2>2 DEF RunIsBound, Bound
  <2>4. QED
    BY <1>1, <1>4, <1>5, <1>6, <2>3, WatchFrame
<1>10. CASE Send
  <2>1. eye.at = "send" /\ eye'.at = "verifier"
    BY <1>3, <1>10 DEF Send, Watching
  <2>2. RunIsBound'
    BY <1>1, <1>2, <1>4, <2>1 DEF RunIsBound, Bound
  <2>3. QED
    BY <1>1, <1>4, <1>5, <1>6, <2>2, WatchFrame
<1>11. QED
  BY <1>7, <1>8, <1>9, <1>10

\* What the arm uses: it is read between two checks of the case, or of the source.
LEMMA UseInv ==
  ASSUME IInv, watched # NoRun,
         \/ ReadPrompt \/ CheckArm \/ CopyFixture \/ CheckSource \/ CopySource
         \/ CheckClean \/ CheckVerifier
  PROVE  IInv'
<1> USE DEF IInv
<1>1. UNCHANGED <<watched, kind, files, head, plan, prep, asOf, rootOf, result>>
  BY DEF ReadPrompt, CheckArm, CopyFixture, CheckSource, CopySource, CheckClean, CheckVerifier,
         Watching, Paired, suite, vars, disk
<1>2. Drafting' = Drafting
  BY <1>1 DEF Drafting
<1>3. /\ eye.seen \in Digests /\ eye \in [at : LookAts \cup {"bind"} \cup Bound, seen : Digests]
      /\ used \in [prompt : Nat, fixture : Nat, source : Nat, head : Nat]
      /\ kind \in {"worktree", "git_ref"}
      /\ \A i \in Items : files[i] \in Nat
      /\ head \in Nat
      /\ \A f \in Fields : asOf[f] \in Nat /\ plan.binds[f] \in Nat /\ eye.seen[f] \in Nat
  BY DEF BindTypeOK, Digests
<1>4. /\ plan.binds["source"] <= asOf["source"] /\ asOf["source"] <= head
      /\ head <= files["source"]
      /\ asOf["prompt"] <= files["prompt"] /\ asOf["fixture"] <= files["fixture"]
      /\ asOf["tree_prompt"] = asOf["prompt"] /\ asOf["tree_fixture"] = asOf["fixture"]
  BY Versions DEF Grown, Fields, Items
<1>5. /\ eye' \in [at : LookAts \cup {"bind"} \cup Bound, seen : Digests]
      /\ eye'.seen = eye.seen
  BY <1>3 DEF ReadPrompt, CheckArm, CopyFixture, CheckSource, CopySource, CheckClean,
              CheckVerifier, Watching, Paired, Bound
<1>6. Unpublished'
  <2>1. eye.at # "over"
    BY DEF ReadPrompt, CheckArm, CopyFixture, CheckSource, CopySource, CheckClean,
           CheckVerifier, Watching, Paired
  <2>2. QED
    BY <1>1, <2>1 DEF Unpublished
<1> SUFFICES /\ used' \in [prompt : Nat, fixture : Nat, source : Nat, head : Nat]
             /\ RunIsBound'
  BY <1>1, <1>5, <1>6, WatchFrame
<1>7. CASE ReadPrompt
  <2>1. /\ eye.at = "read" /\ eye'.at = "arm"
        /\ used' = [used EXCEPT !.prompt = files["prompt"]]
    BY <1>3, <1>7 DEF ReadPrompt, Watching, Paired
  <2>2. /\ used' \in [prompt : Nat, fixture : Nat, source : Nat, head : Nat]
        /\ used'.prompt = files["prompt"]
    BY <1>3, <2>1 DEF Items
  <2>3. files["prompt"] <= files["prompt"]
    BY <1>3 DEF Items
  <2>4. QED
    BY <1>1, <1>2, <1>4, <1>5, <2>1, <2>2, <2>3 DEF RunIsBound, Bound
<1>8. CASE CheckArm
  <2>1. eye.at = "arm" /\ eye'.at = "copy_fixture" /\ CaseHolds /\ used' = used
    BY <1>3, <1>8 DEF CheckArm, Watching, Paired
  <2>2. files["prompt"] = asOf["prompt"]
    BY <1>4, <2>1, Versions DEF CaseHolds, RunIsBound, Bound, CaseFields
  <2>3. used.prompt = asOf["prompt"]
    BY <1>3, <2>1, <2>2 DEF RunIsBound, Fields, Items
  <2>4. QED
    BY <1>1, <1>2, <1>3, <1>5, <2>1, <2>3 DEF RunIsBound, Bound
<1>9. CASE CopyFixture
  <2>1. /\ eye.at = "copy_fixture" /\ eye'.at = "source"
        /\ used' = [used EXCEPT !.fixture = files["fixture"]]
    BY <1>3, <1>9 DEF CopyFixture, Watching, Paired
  <2>2. /\ used' \in [prompt : Nat, fixture : Nat, source : Nat, head : Nat]
        /\ used'.fixture = files["fixture"] /\ used'.prompt = used.prompt
    BY <1>3, <2>1 DEF Items
  <2>3. files["fixture"] <= files["fixture"]
    BY <1>3 DEF Items
  <2>4. QED
    BY <1>1, <1>2, <1>4, <1>5, <2>1, <2>2, <2>3 DEF RunIsBound, Bound
<1>10. CASE CheckSource
  <2>1. eye.at = "source" /\ eye'.at \in {"copy_source", "send"}
    BY <1>3, <1>10 DEF CheckSource, Watching, Paired
  <2>2. plan.binds["source"] = eye.seen["source"]
    BY <2>1 DEF RunIsBound, Bound
  <2>3. /\ used' \in [prompt : Nat, fixture : Nat, source : Nat, head : Nat]
        /\ used'.prompt = used.prompt /\ used'.fixture = used.fixture
        /\ eye'.at = "send" => used'.source = plan.binds["source"]
        /\ eye'.at = "copy_source" => kind = "worktree"
    BY <1>3, <1>10, <2>2 DEF CheckSource, Watching, Paired, Fields, Items
  <2>4. QED
    BY <1>1, <1>2, <1>5, <2>1, <2>3 DEF RunIsBound, Bound
<1>11. CASE CopySource
  <2>1. /\ eye.at = "copy_source" /\ eye'.at = "clean"
        /\ used' = [used EXCEPT !.source = files["source"]]
    BY <1>3, <1>11 DEF CopySource, Watching, Paired
  <2>2. /\ used' \in [prompt : Nat, fixture : Nat, source : Nat, head : Nat]
        /\ used'.source = files["source"]
        /\ used'.prompt = used.prompt /\ used'.fixture = used.fixture
    BY <1>3, <2>1 DEF Items
  <2>3. plan.binds["source"] <= files["source"] /\ files["source"] <= files["source"]
    BY <1>3, <1>4 DEF Fields, Items
  <2>4. QED
    BY <1>1, <1>2, <1>5, <2>1, <2>2, <2>3 DEF RunIsBound, Bound
<1>12. CASE CheckClean
  <2>1. /\ eye.at = "clean" /\ eye'.at = "send" /\ Clean
        /\ used' = [used EXCEPT !.head = head]
    BY <1>3, <1>12 DEF CheckClean, Watching, Paired
  <2>2. /\ used' \in [prompt : Nat, fixture : Nat, source : Nat, head : Nat]
        /\ used'.head = head /\ used'.source = used.source
        /\ used'.prompt = used.prompt /\ used'.fixture = used.fixture
    BY <1>3, <2>1
  <2>3. kind = "worktree"
    BY <2>1 DEF RunIsBound
  <2>4. used'.source = plan.binds["source"] \/ used'.head # plan.binds["source"]
    BY <1>3, <1>4, <2>1, <2>2, <2>3 DEF RunIsBound, Clean, Fields, Items
  <2>5. QED
    BY <1>1, <1>2, <1>5, <2>1, <2>2, <2>4 DEF RunIsBound, Bound
<1>13. CASE CheckVerifier
  <2>1. eye.at = "verifier" /\ eye'.at = "close" /\ CaseHolds /\ used' = used
    BY <1>3, <1>13 DEF CheckVerifier, Watching
  <2>2. files["fixture"] = asOf["fixture"]
    BY <1>4, <2>1, Versions DEF CaseHolds, RunIsBound, Bound, CaseFields
  <2>3. used.fixture = asOf["fixture"]
    BY <1>3, <2>1, <2>2 DEF RunIsBound, Fields, Items
  <2>4. QED
    BY <1>1, <1>2, <1>3, <1>5, <2>1, <2>3 DEF RunIsBound, Bound
<1>14. QED
  BY <1>7, <1>8, <1>9, <1>10, <1>11, <1>12, <1>13

\* The end of the run.
LEMMA EndInv ==
  ASSUME IInv, watched # NoRun, Close \/ Finish
  PROVE  IInv'
<1> USE DEF IInv
<1>1. UNCHANGED <<watched, kind, files, head, plan, prep, asOf, used, rootOf>>
  BY DEF Close, Finish, Watching, CloseLedger, Publish, suite, disk
<1>2. Drafting' = Drafting
  BY <1>1 DEF Drafting
<1>3. eye \in [at : LookAts \cup {"bind"} \cup Bound, seen : Digests]
  BY DEF BindTypeOK
<1>4. /\ eye' \in [at : LookAts \cup {"bind"} \cup Bound, seen : Digests]
      /\ eye'.seen = eye.seen /\ eye'.at \in {"publish", "over"} /\ eye.at \in {"close", "publish"}
  BY <1>3 DEF Close, Finish, Watching, Bound
<1>5. used' \in [prompt : Nat, fixture : Nat, source : Nat, head : Nat]
  BY <1>1 DEF BindTypeOK
<1>6. eye'.at = "over" \/ result' = result
  BY <1>3 DEF Close, Finish, Watching, CloseLedger, disk
<1>7. Unpublished'
  BY <1>1, <1>4, <1>6 DEF Unpublished
<1>8. RunIsBound'
  BY <1>1, <1>2, <1>4 DEF RunIsBound, Bound
<1>9. QED
  BY <1>1, <1>4, <1>5, <1>7, <1>8, WatchFrame

\* The invariant is inductive.
LEMMA NextInv == IInv /\ [BindNext]_all => IInv'
<1> SUFFICES ASSUME IInv, [BindNext]_all PROVE IInv'
  OBVIOUS
<1>1. CASE UNCHANGED all
  BY <1>1, StillInv DEF all, vars, disk
<1>2. CASE watched = NoRun /\ Next /\ UNCHANGED binding
  BY <1>2, StillInv
<1>3. CASE watched # NoRun /\ WatchedNext
  <2>1. CASE (\E i \in Items : Edit(i)) \/ CommitSource
    BY <2>1, FilesInv
  <2>2. CASE EditPlan
    BY <2>2, EditPlanInv
  <2>3. CASE PrepLook
    BY <2>3, PrepLookInv
  <2>4. CASE CreatePlan \/ FillPlan \/ ProvePlan \/ PrepEnds
    BY <2>4, PreparationInv
  <2>5. CASE Look
    BY <1>3, <2>5, LookInv
  <2>6. CASE BindPlan \/ Admit \/ CheckPair \/ Send
    BY <1>3, <2>6, BindingInv
  <2>7. CASE \/ ReadPrompt \/ CheckArm \/ CopyFixture \/ CheckSource \/ CopySource
             \/ CheckClean \/ CheckVerifier
    BY <1>3, <2>7, UseInv
  <2>8. CASE Close \/ Finish
    BY <1>3, <2>8, EndInv
  <2>9. CASE Proceed \/ GiveUp
    <3>1. UNCHANGED <<binding, result, rootOf>>
      BY <2>9 DEF Proceed, GiveUp, FindEmpty, Claim, SyncClaim, ClaimFails, RemoveRoot,
                  LookForSpend, MakeSpend, Snapshot, OpenLedger, Stop, disk
    <3>2. QED
      BY <3>1, StillInv
  <2>10. QED
    BY <1>3, <2>1, <2>2, <2>3, <2>4, <2>5, <2>6, <2>7, <2>8, <2>9 DEF WatchedNext
<1>4. QED
  BY <1>1, <1>2, <1>3 DEF BindNext

\* A run that is over has used what its plan binds.
LEMMA PublishedFollows == IInv => PublishedIsBound
<1> SUFFICES ASSUME IInv, watched # NoRun, result[rootOf[watched]] = watched
             PROVE  /\ \A f \in Fields \ {"source", "prompt", "fixture"} : eye.seen[f] = asOf[f]
                    /\ used.prompt = asOf["prompt"] /\ used.fixture = asOf["fixture"]
                    /\ used.source = plan.binds["source"] \/ used.head # plan.binds["source"]
  BY DEF PublishedIsBound
<1>1. eye.at = "over"
  BY DEF IInv, Unpublished
<1>2. Fields \ {"source", "prompt", "fixture"} = {"manifest"} \cup CaseFields
  BY DEF Fields, Items, CaseFields
<1>3. QED
  BY <1>1, <1>2 DEF IInv, RunIsBound, Bound

-----------------------------------------------------------------------------
(* Theorems *)

\* The inductive invariant: looks and uses are in the order of the versions, and a
\* preparation and a run know at each stage what they have compared.
THEOREM Invariance == BindSpec => []IInv
<1>1. BindInit => IInv
  BY InitInv
<1>2. IInv /\ [BindNext]_all => IInv'
  BY NextInv
<1>3. QED
  BY <1>1, <1>2, PTL DEF BindSpec

\* A plan that prepare_holdout_plan returns binds the suite as it was at the moment
\* when the plan was written, however often anything is edited.
THEOREM HandedOutIsTrue == BindSpec => []HandedOutIsOneState
<1>1. IInv => HandedOutIsOneState
  BY DEF IInv
<1>2. QED
  BY <1>1, Invariance, PTL

\* A run that writes run.json has used the prompt, the fixture and the verifier of the
\* moment when its plan was written, and the source of the plan or another commit.
THEOREM PublishedIsTrue == BindSpec => []PublishedIsBound
<1>1. IInv => PublishedIsBound
  BY PublishedFollows
<1>2. QED
  BY <1>1, Invariance, PTL

-----------------------------------------------------------------------------
(* The snapshot of a source: the inductive invariant *)

SourceNode ==
  {Absent} \cup {c[p] : c \in SourceCommits, p \in Paths} \cup UNION {SourceNodes[p] : p \in Paths}

\* The digests that are compared, and what is copied, are whatever they are.
SourceShape ==
  source \in [at : {"preflight", "take", "check", "list", "copy", "clean", "made"},
             head : Nat, expected : {source.expected}, todo : SUBSET Bundle,
             copied : {source.copied}, context : {source.context},
             still : BOOLEAN, steady : BOOLEAN]

RepoShape(r) ==
  r \in [head : [Paths -> SourceNode], moved : Nat, ref : [Paths -> SourceNode],
         work : [node : [Paths -> SourceNode], dirs : {r.work.dirs}],
         edited : SUBSET Paths]

SourceTyped ==
  /\ variant \in [kind : {"worktree", "git_ref"}, schema : {3, 4, 5}]
  /\ RepoShape(repo)
  /\ SourceShape

Want        == GitStates(repo.ref, Normal)
WantContext == ContextStates(repo.ref, FALSE)

\* The path has what the commit of the variant has.
LikeCommit(p) ==
  /\ p \in Bundle =>
       /\ repo.work.node[p] # Absent /\ ~Generated(p) <=> p \in DOMAIN Want
       /\ p \in DOMAIN Want => State(repo.work.node[p]) = Want[p]
  /\ p \in Context => repo.work.node[p].content = WantContext[p].content

\* And so has what was made of it until now.
TakenLikeCommit(p) ==
  /\ p \in Bundle =>
       /\ source.at \in {"copy", "clean", "made"} =>
            (p \in source.todo \cup DOMAIN source.copied <=> p \in DOMAIN Want)
       /\ p \in DOMAIN source.copied => p \in DOMAIN Want /\ source.copied[p] = Want[p]
  /\ p \in Context /\ source.at \in {"clean", "made"} =>
       source.context[p].content = WantContext[p].content

Hidden == {p \in Ignored : repo.head[p] = Absent}

\* A path that Git sees is as it was at the preflight, or was edited since and differs for good.
VisibleInv ==
  repo.moved = source.head =>
    \A p \in Paths \ Hidden :
      \/ repo.work.node[p] = repo.head[p] /\ LikeCommit(p) /\ TakenLikeCommit(p)
      \/ p \in repo.edited /\ repo.work.node[p] # repo.head[p]

\* While nothing has been touched since the source was looked at, all paths are.
UnmovedInv == source.still => \A p \in Paths : LikeCommit(p) /\ TakenLikeCommit(p)

WorktreeInv ==
  /\ source.at \in {"check", "list"} =>
       source.todo = {} /\ source.copied = NoStates
  /\ source.at = "check" => source.expected = GitFingerprint(repo.ref, Normal, Canonical)
  /\ source.head <= repo.moved
  /\ VisibleInv
  /\ source.at # "check" => (source.steady => repo.moved = source.head) /\ UnmovedInv
  /\ source.at \in {"clean", "made"} => source.todo = {}
  /\ source.at = "made" => ~Dirty(repo.work, repo.head, Ignored)

SourceInv ==
  /\ SourceTyped
  /\ source.at = "preflight" => source.todo = {} /\ source.copied = NoStates
  /\ variant.kind = "git_ref" =>
       /\ source.at \in {"preflight", "take", "made"}
       /\ source.at = "made" => source.copied = Want /\ source.context = WantContext
  /\ variant.kind = "worktree" =>
       /\ source.at # "take"
       /\ source.at # "preflight" => WorktreeInv

-----------------------------------------------------------------------------
(* What a fingerprint says *)

\* With equal fingerprints every path has what the commit has.
LEMMA FingerprintMeans ==
  ASSUME WorktreeFingerprint(repo.work, Flags, Canonical)
           = GitFingerprint(repo.ref, Normal, Canonical),
         NEW p \in Paths
  PROVE  LikeCommit(p)
<1>1. /\ ReadTree(repo.work, Flags) = Want
      /\ ContextStates(repo.work.node, Canonical) = ContextStates(repo.ref, Canonical)
  BY DEF WorktreeFingerprint, GitFingerprint, Want
<1>2. ASSUME p \in Bundle
      PROVE  /\ repo.work.node[p] # Absent /\ ~Generated(p) <=> p \in DOMAIN Want
             /\ p \in DOMAIN Want => State(repo.work.node[p]) = Want[p]
  <2>1. DOMAIN Want = Kept(repo.work, Flags)
    BY <1>1 DEF ReadTree
  <2>2. p \in Kept(repo.work, Flags) <=> repo.work.node[p] # Absent /\ ~Generated(p)
    BY <1>2 DEF Kept, Visited, Present, Flags, Generated
  <2>3. p \in DOMAIN Want => State(repo.work.node[p]) = Want[p]
    BY <1>1, <2>1 DEF ReadTree
  <2>4. QED
    BY <2>1, <2>2, <2>3
<1>3. ASSUME p \in Context PROVE repo.work.node[p].content = WantContext[p].content
  <2>1. /\ ContextStates(repo.work.node, Canonical)[p].content = repo.work.node[p].content
        /\ ContextStates(repo.ref, Canonical)[p].content = repo.ref[p].content
        /\ WantContext[p].content = repo.ref[p].content
    BY <1>3 DEF ContextStates, State, WantContext
  <2>2. QED
    BY <1>1, <2>1
<1>4. QED
  BY <1>2, <1>3 DEF LikeCommit

\* What a path has, and what was made of it, is the same while nobody changes it.
LEMMA LikeStays ==
  ASSUME NEW p \in Paths, variant' = variant, repo'.ref = repo.ref,
         repo'.work.node[p] = repo.work.node[p], LikeCommit(p)
  PROVE  LikeCommit(p)'
BY DEF LikeCommit, Want, WantContext, Normal

\* The same of what was made of it, when neither the stage nor the copies change.
LEMMA TakenStays ==
  ASSUME NEW p \in Paths, variant' = variant, repo'.ref = repo.ref,
         source'.at = source.at, source'.todo = source.todo, source'.copied = source.copied,
         source'.context = source.context, TakenLikeCommit(p)
  PROVE  TakenLikeCommit(p)'
BY DEF TakenLikeCommit, Want, WantContext, Normal

-----------------------------------------------------------------------------
(* The steps of the others *)

\* What a touch leaves as it was.
LEMMA TouchFacts ==
  ASSUME SourceInv, NEW r, Touch(r)
  PROVE  /\ variant' = variant /\ variant.kind = "worktree" /\ repo' = r
         /\ source.at # "made" /\ source'.at = source.at /\ source'.head = source.head
         /\ source'.expected = source.expected /\ source'.todo = source.todo
         /\ source'.copied = source.copied /\ source'.context = source.context
         /\ source'.still = FALSE /\ source'.steady \in BOOLEAN
         /\ source'.steady => source.steady /\ repo'.moved = repo.moved
         /\ SourceShape'
<1>1. SourceShape
  BY DEF SourceInv, SourceTyped
<1>2. /\ source' = [source EXCEPT !.still = FALSE,
                                  !.steady = source.steady /\ r.moved = repo.moved]
      /\ variant' = variant /\ variant.kind = "worktree" /\ repo' = r /\ source.at # "made"
  BY DEF Touch
<1>3. (source.steady /\ r.moved = repo.moved) \in BOOLEAN
  OBVIOUS
<1>4. QED
  BY <1>1, <1>2, <1>3 DEF SourceShape

\* What a touch keeps, if it keeps what Git sees of every path.
LEMMA TouchKeeps ==
  ASSUME SourceInv, NEW r, Touch(r), r.ref = repo.ref, repo.moved <= r.moved,
         RepoShape(r),
         source.at # "preflight" => VisibleInv'
  PROVE  SourceInv'
<1>1. /\ variant' = variant /\ variant.kind = "worktree" /\ repo' = r
      /\ source.at # "made" /\ source'.at = source.at /\ source'.head = source.head
      /\ source'.expected = source.expected /\ source'.todo = source.todo
      /\ source'.copied = source.copied /\ source'.context = source.context
      /\ source'.still = FALSE /\ source'.steady \in BOOLEAN
      /\ source'.steady => source.steady /\ repo'.moved = repo.moved
      /\ SourceShape'
  BY TouchFacts
<1>2. SourceTyped'
  BY <1>1 DEF SourceInv, SourceTyped
<1>3. /\ source.at = "preflight" => source.todo = {} /\ source.copied = NoStates
      /\ source.at # "take" /\ source.at # "preflight" => WorktreeInv
      /\ source.at # "take"
  BY <1>1 DEF SourceInv
<1>4. ASSUME source.at # "preflight" PROVE WorktreeInv'
  <2>1. WorktreeInv
    BY <1>3, <1>4
  <2>2. /\ source'.at \in {"check", "list"} => source'.todo = {} /\ source'.copied = NoStates
        /\ source'.at \in {"clean", "made"} => source'.todo = {}
    BY <1>1, <2>1 DEF WorktreeInv, NoStates
  <2>3. source'.at = "check" => source'.expected = GitFingerprint(repo.ref, Normal, Canonical)'
    BY <1>1, <2>1 DEF WorktreeInv, Normal, Canonical
  <2>4. source'.head <= repo'.moved
    <3>1. source.head <= repo.moved /\ source.head \in Nat /\ repo.moved \in Nat /\ r.moved \in Nat
      BY <2>1 DEF WorktreeInv, SourceInv, SourceTyped, SourceShape, RepoShape
    <3>2. QED
      BY <1>1, <3>1
  <2>5. source'.at # "check" => (source'.steady => repo'.moved = source'.head) /\ UnmovedInv'
    BY <1>1, <2>1 DEF WorktreeInv, UnmovedInv
  <2>6. QED
    BY <1>1, <1>4, <2>2, <2>3, <2>4, <2>5 DEF WorktreeInv
<1>5. QED
  BY <1>1, <1>2, <1>3, <1>4 DEF SourceInv, NoStates

\* An edit of a path; no path is edited twice.
LEMMA EditKeeps == ASSUME SourceInv, NEW p \in Paths, EditFile(p) PROVE SourceInv'
<1>1. PICK node \in SourceNodes[p] \ {repo.work.node[p]} :
        /\ p \notin repo.edited
        /\ Touch([repo EXCEPT !.work = Tree([repo.work.node EXCEPT ![p] = node], repo.work.dirs),
                              !.edited = repo.edited \cup {p}])
  BY DEF EditFile
<1> DEFINE nodes == [repo.work.node EXCEPT ![p] = node]
           w == Tree(nodes, repo.work.dirs)
           r == [repo EXCEPT !.work = w, !.edited = repo.edited \cup {p}]
<1>2. SourceTyped /\ node \in SourceNode
  BY DEF SourceInv, SourceNode
<1>3. nodes \in [Paths -> SourceNode] /\ nodes[p] = node
      /\ \A q \in Paths \ {p} : nodes[q] = repo.work.node[q]
  BY <1>2 DEF SourceTyped, RepoShape
<1> HIDE DEF nodes
<1>4. w = [node |-> nodes, dirs |-> w.dirs] /\ w.node = nodes
  BY DEF Tree
<1> HIDE DEF w
<1>5. /\ r.head = repo.head /\ r.moved = repo.moved /\ r.ref = repo.ref
      /\ r.work = w /\ r.edited = repo.edited \cup {p}
      /\ RepoShape(r)
  <2>1. w \in [node : [Paths -> SourceNode], dirs : {w.dirs}]
    BY <1>3, <1>4
  <2>2. RepoShape(repo)
    BY <1>2 DEF SourceTyped
  <2>3. QED
    BY <1>2, <2>1, <2>2 DEF RepoShape
<1> HIDE DEF r
<1>6. Touch(r)
  BY <1>1 DEF r, w, nodes
<1>7. /\ variant' = variant /\ variant.kind = "worktree" /\ repo' = r
      /\ source'.at = source.at /\ source'.head = source.head
      /\ source'.todo = source.todo
      /\ source'.copied = source.copied /\ source'.context = source.context
  BY <1>6, TouchFacts
<1>8. ASSUME source.at # "preflight" PROVE VisibleInv'
  <2>1. VisibleInv
    BY <1>7, <1>8 DEF SourceInv, WorktreeInv
  <2>2. SUFFICES ASSUME repo'.moved = source'.head, NEW q \in Paths \ Hidden'
                 PROVE  \/ repo'.work.node[q] = repo'.head[q] /\ LikeCommit(q)' /\ TakenLikeCommit(q)'
                        \/ q \in repo'.edited /\ repo'.work.node[q] # repo'.head[q]
    BY DEF VisibleInv
  <2>3. q \in Paths \ Hidden
    BY <1>5, <1>7 DEF Hidden
  <2>4. \/ repo.work.node[q] = repo.head[q] /\ LikeCommit(q) /\ TakenLikeCommit(q)
        \/ q \in repo.edited /\ repo.work.node[q] # repo.head[q]
    BY <1>5, <1>7, <2>1, <2>2, <2>3 DEF VisibleInv
  <2>5. CASE q = p
    BY <1>1, <1>3, <1>4, <1>5, <1>7, <2>4, <2>5
  <2>6. CASE q # p
    <3>1. repo'.work.node[q] = repo.work.node[q] /\ repo'.head = repo.head /\ repo'.ref = repo.ref
      BY <1>3, <1>4, <1>5, <1>7, <2>6
    <3>2. CASE repo.work.node[q] = repo.head[q] /\ LikeCommit(q) /\ TakenLikeCommit(q)
      <4>1. LikeCommit(q)' /\ TakenLikeCommit(q)'
        BY <1>7, <3>1, <3>2, LikeStays, TakenStays
      <4>2. QED
        BY <3>1, <3>2, <4>1
    <3>3. CASE q \in repo.edited /\ repo.work.node[q] # repo.head[q]
      BY <1>5, <1>7, <3>1, <3>3
    <3>4. QED
      BY <2>4, <3>2, <3>3
  <2>7. QED
    BY <2>5, <2>6
<1>9. repo.moved <= r.moved
  BY <1>2, <1>5 DEF SourceTyped, RepoShape
<1>10. QED
  BY <1>5, <1>6, <1>8, <1>9, TouchKeeps

\* A new directory without files.
LEMMA MakeKeeps == ASSUME SourceInv, NEW d, MakeEmptyDir(d) PROVE SourceInv'
<1> DEFINE r == [repo EXCEPT !.work.dirs = repo.work.dirs \cup {d}]
<1>1. Touch(r) /\ SourceTyped
  BY DEF MakeEmptyDir, SourceInv
<1>2. /\ r.head = repo.head /\ r.moved = repo.moved /\ r.ref = repo.ref
      /\ r.work.node = repo.work.node /\ r.edited = repo.edited
      /\ RepoShape(r)
  <2>1. RepoShape(repo)
    BY <1>1 DEF SourceTyped
  <2>2. QED
    BY <2>1 DEF RepoShape
<1> HIDE DEF r
<1>3. /\ variant' = variant /\ variant.kind = "worktree" /\ repo' = r
      /\ source'.at = source.at /\ source'.head = source.head
      /\ source'.todo = source.todo
      /\ source'.copied = source.copied /\ source'.context = source.context
  BY <1>1, TouchFacts
<1>4. ASSUME source.at # "preflight" PROVE VisibleInv'
  <2>1. VisibleInv
    BY <1>3, <1>4 DEF SourceInv, WorktreeInv
  <2>2. \A q \in Paths : LikeCommit(q) /\ TakenLikeCommit(q) => LikeCommit(q)' /\ TakenLikeCommit(q)'
    BY <1>2, <1>3, LikeStays, TakenStays
  <2>3. QED
    BY <1>2, <1>3, <2>1, <2>2 DEF VisibleInv, Hidden
<1>5. repo.moved <= r.moved
  BY <1>1, <1>2 DEF SourceTyped, RepoShape
<1>6. QED
  BY <1>1, <1>2, <1>4, <1>5, TouchKeeps

\* A commit: HEAD moves, and not back.
LEMMA CommitKeeps == ASSUME SourceInv, CommitAll PROVE SourceInv'
<1> DEFINE tip == [p \in Paths |-> IF repo.head[p] = Absent /\ p \in Ignored THEN Absent
                                   ELSE repo.work.node[p]]
           r == [repo EXCEPT !.moved = repo.moved + 1, !.head = tip]
<1>1. Touch(r) /\ SourceTyped
  BY DEF CommitAll, SourceInv
<1>2. tip \in [Paths -> SourceNode]
  BY <1>1 DEF SourceTyped, RepoShape, SourceNode
<1> HIDE DEF tip
<1>3. /\ r.moved = repo.moved + 1 /\ r.ref = repo.ref
      /\ RepoShape(r)
  <2>1. RepoShape(repo)
    BY <1>1 DEF SourceTyped
  <2>2. repo.moved + 1 \in Nat
    BY <2>1 DEF RepoShape
  <2>3. QED
    BY <1>2, <2>1, <2>2 DEF RepoShape
<1> HIDE DEF r
<1>4. variant.kind = "worktree" /\ repo' = r /\ source'.head = source.head
  BY <1>1, TouchFacts
<1>5. ASSUME source.at # "preflight" PROVE VisibleInv'
  <2>1. source.head <= repo.moved
    BY <1>4, <1>5 DEF SourceInv, WorktreeInv
  <2>2. source.head \in Nat /\ repo.moved \in Nat
    BY <1>1 DEF SourceTyped, SourceShape, RepoShape
  <2>3. repo'.moved # source'.head
    BY <1>3, <1>4, <2>1, <2>2
  <2>4. QED
    BY <2>3 DEF VisibleInv
<1>6. repo.moved <= r.moved
  BY <1>1, <1>3 DEF SourceTyped, RepoShape
<1>7. QED
  BY <1>1, <1>3, <1>5, <1>6, TouchKeeps

-----------------------------------------------------------------------------
(* The steps of the harness *)

\* Nothing but the harness's own variable changes.
LEMMA AtFacts ==
  ASSUME SourceInv, NEW stage, NEW s, At(stage, s)
  PROVE  /\ source.at = stage /\ source' = s /\ UNCHANGED <<variant, repo, touches>>
         /\ SourceShape /\ RepoShape(repo) /\ RepoShape(repo)'
         /\ variant \in [kind : {"worktree", "git_ref"}, schema : {3, 4, 5}]
         /\ SourceShape' => SourceTyped'
BY DEF At, SourceInv, SourceTyped, RepoShape

\* The preflight of a commit, and its snapshot.
LEMMA RefKeeps == ASSUME SourceInv, PreflightRef \/ TakeCommit PROVE SourceInv'
<1>1. CASE PreflightRef
  <2>1. /\ At("preflight", [source EXCEPT !.at = "take"]) /\ variant.kind = "git_ref"
    BY <1>1 DEF PreflightRef
  <2>2. /\ source.at = "preflight" /\ source' = [source EXCEPT !.at = "take"]
        /\ variant' = variant /\ SourceShape /\ (SourceShape' => SourceTyped')
    BY <2>1, AtFacts
  <2>3. SourceShape' /\ source'.at = "take"
    BY <2>2 DEF SourceShape
  <2>4. QED
    BY <2>1, <2>2, <2>3 DEF SourceInv
<1>2. CASE TakeCommit
  <2> DEFINE s == [source EXCEPT !.at = "made", !.copied = GitStates(repo.ref, Normal),
                                 !.context = ContextStates(repo.ref, FALSE)]
  <2>1. At("take", s)
    BY <1>2 DEF TakeCommit
  <2>2. /\ source.at = "take" /\ source' = s /\ variant' = variant /\ repo' = repo
        /\ SourceShape /\ (SourceShape' => SourceTyped')
    BY <2>1, AtFacts
  <2>3. /\ SourceShape' /\ source'.at = "made"
        /\ source'.copied = Want /\ source'.context = WantContext
    BY <2>2 DEF SourceShape, Want, WantContext
  <2>4. variant.kind = "git_ref"
    BY <2>2 DEF SourceInv, SourceTyped
  <2>5. Want' = Want /\ WantContext' = WantContext
    BY <2>2 DEF Want, WantContext, Normal
  <2>6. QED
    BY <2>2, <2>3, <2>4, <2>5 DEF SourceInv
<1>3. QED
  BY <1>1, <1>2

\* The preflight of a worktree: what Git calls clean and has the commit's fingerprint is
\* what the commit has, wherever Git looks.
LEMMA WorktreeKeeps == ASSUME SourceInv, PreflightWorktree PROVE SourceInv'
<1> DEFINE fingerprint == WorktreeFingerprint(repo.work, Flags, Canonical)
           s == [source EXCEPT !.at = "check", !.head = repo.moved, !.expected = fingerprint]
<1>1. /\ variant.kind = "worktree" /\ ~Dirty(repo.work, repo.head, Ignored)
      /\ fingerprint = GitFingerprint(repo.ref, Normal, Canonical) /\ At("preflight", s)
  BY DEF PreflightWorktree
<1> HIDE DEF fingerprint
<1>2. /\ source.at = "preflight" /\ source' = s /\ variant' = variant /\ repo' = repo
      /\ SourceShape /\ RepoShape(repo) /\ (SourceShape' => SourceTyped')
  BY <1>1, AtFacts
<1>3. /\ SourceShape' /\ source'.at = "check" /\ source'.head = repo.moved
      /\ source'.expected = fingerprint /\ source'.todo = source.todo
      /\ source'.copied = source.copied
  BY <1>2 DEF SourceShape, RepoShape
<1>4. source.todo = {} /\ source.copied = NoStates
  BY <1>2 DEF SourceInv
<1>5. ASSUME NEW p \in Paths \ Hidden
      PROVE  repo.work.node[p] = repo.head[p] /\ LikeCommit(p)' /\ TakenLikeCommit(p)'
  <2>1. repo.work.node[p] = repo.head[p]
    BY <1>1 DEF Dirty, Hidden
  <2>2. LikeCommit(p)
    BY <1>1, FingerprintMeans DEF fingerprint
  <2>3. LikeCommit(p)'
    BY <1>2, <2>2, LikeStays
  <2>4. TakenLikeCommit(p)'
    BY <1>3, <1>4 DEF TakenLikeCommit, NoStates
  <2>5. QED
    BY <2>1, <2>3, <2>4
<1>6. VisibleInv'
  BY <1>2, <1>5 DEF VisibleInv, Hidden
<1>7. source'.expected = GitFingerprint(repo.ref, Normal, Canonical)'
  BY <1>1, <1>2, <1>3 DEF Normal, Canonical
<1>8. WorktreeInv'
  <2>1. source'.head <= repo'.moved
    BY <1>2, <1>3 DEF RepoShape
  <2>2. QED
    BY <1>3, <1>4, <1>6, <1>7, <2>1 DEF WorktreeInv, NoStates
<1>9. QED
  BY <1>1, <1>2, <1>3, <1>8 DEF SourceInv

\* What the invariant says once the preflight of a worktree is over.
LEMMA AfterPreflight ==
  ASSUME SourceInv, source.at \in {"check", "list", "copy", "clean"}
  PROVE  variant.kind = "worktree" /\ WorktreeInv
BY DEF SourceInv, SourceTyped

\* HEAD and tree are looked at again.
LEMMA CheckKeeps == ASSUME SourceInv, CheckTree PROVE SourceInv'
<1> DEFINE s == [source EXCEPT !.at = "list", !.still = TRUE, !.steady = TRUE]
<1>1. /\ repo.moved = source.head /\ At("check", s)
      /\ WorktreeFingerprint(repo.work, Flags, Canonical) = source.expected
  BY DEF CheckTree
<1>2. /\ source.at = "check" /\ source' = s /\ variant' = variant /\ repo' = repo
      /\ SourceShape /\ RepoShape(repo) /\ (SourceShape' => SourceTyped')
  BY <1>1, AtFacts
<1>3. /\ SourceShape' /\ source'.at = "list" /\ source'.head = source.head
      /\ source'.todo = source.todo /\ source'.copied = source.copied
      /\ source'.context = source.context
  BY <1>2 DEF SourceShape
<1>4. variant.kind = "worktree" /\ WorktreeInv
  BY <1>2, AfterPreflight
<1>5. source.expected = GitFingerprint(repo.ref, Normal, Canonical)
  BY <1>2, <1>4 DEF WorktreeInv
<1>6. source.todo = {} /\ source.copied = NoStates /\ source.head <= repo.moved
  BY <1>2, <1>4 DEF WorktreeInv
<1>7. ASSUME NEW p \in Paths PROVE LikeCommit(p)' /\ TakenLikeCommit(p)'
  <2>1. LikeCommit(p)
    BY <1>1, <1>5, FingerprintMeans
  <2>2. LikeCommit(p)'
    BY <1>2, <2>1, LikeStays
  <2>3. QED
    BY <1>3, <1>6, <2>2 DEF TakenLikeCommit, NoStates
<1>8. VisibleInv'
  <2>1. VisibleInv
    BY <1>4 DEF WorktreeInv
  <2>2. QED
    BY <1>2, <1>3, <1>7, <2>1 DEF VisibleInv, Hidden
<1>9. UnmovedInv'
  BY <1>7 DEF UnmovedInv
<1>10. WorktreeInv'
  BY <1>1, <1>2, <1>3, <1>6, <1>8, <1>9 DEF WorktreeInv, NoStates
<1>11. QED
  BY <1>2, <1>3, <1>4, <1>10 DEF SourceInv

\* A step of the copy: if what a path is taken as goes on to be the commit's, for every path
\* that still has what the commit has, then the invariant holds.
LEMMA CopyStepKeeps ==
  ASSUME SourceInv, source.at \in {"list", "copy", "clean"}, NEW s, At(source.at, s), SourceShape',
         source'.at \in {"copy", "clean", "made"}, source'.head = source.head,
         source'.still = source.still, source'.steady = source.steady,
         source'.at \in {"clean", "made"} => source'.todo = {},
         source'.at = "made" => ~Dirty(repo.work, repo.head, Ignored),
         \A p \in Paths : LikeCommit(p) /\ TakenLikeCommit(p) => TakenLikeCommit(p)'
  PROVE  SourceInv'
<1>1. /\ variant' = variant /\ repo' = repo /\ (SourceShape' => SourceTyped')
  BY AtFacts
<1>2. variant.kind = "worktree" /\ WorktreeInv
  BY AfterPreflight
<1>3. \A p \in Paths : LikeCommit(p) /\ TakenLikeCommit(p) => LikeCommit(p)' /\ TakenLikeCommit(p)'
  BY <1>1, LikeStays
<1>4. VisibleInv'
  <2>1. VisibleInv
    BY <1>2 DEF WorktreeInv
  <2>2. QED
    BY <1>1, <1>3, <2>1 DEF VisibleInv, Hidden
<1>5. (source'.steady => repo'.moved = source'.head) /\ UnmovedInv'
  <2>1. (source.steady => repo.moved = source.head) /\ UnmovedInv
    BY <1>2 DEF WorktreeInv
  <2>2. QED
    BY <1>1, <1>3, <2>1 DEF UnmovedInv
<1>6. source'.head <= repo'.moved
  BY <1>1, <1>2 DEF WorktreeInv
<1>7. WorktreeInv'
  BY <1>1, <1>4, <1>5, <1>6 DEF WorktreeInv
<1>8. QED
  BY <1>1, <1>2, <1>7 DEF SourceInv

\* The files are listed.
LEMMA ListKeeps == ASSUME SourceInv, ListFiles PROVE SourceInv'
<1> DEFINE s == [source EXCEPT !.at = "copy", !.todo = Kept(repo.work, Flags)]
<1>1. At("list", s)
  BY DEF ListFiles
<1>2. /\ source.at = "list" /\ source' = s /\ variant' = variant /\ repo' = repo /\ SourceShape
  BY <1>1, AtFacts
<1>3. Kept(repo.work, Flags) \subseteq Bundle
  BY DEF Kept, Visited, Present
<1>4. /\ SourceShape' /\ source'.at = "copy" /\ source'.head = source.head
      /\ source'.still = source.still /\ source'.steady = source.steady
      /\ source'.todo = Kept(repo.work, Flags) /\ source'.copied = source.copied
  BY <1>2, <1>3 DEF SourceShape
<1>5. source.copied = NoStates
  BY <1>2, AfterPreflight DEF WorktreeInv
<1>6. ASSUME NEW p \in Paths, LikeCommit(p) PROVE TakenLikeCommit(p)'
  <2>1. Want' = Want /\ WantContext' = WantContext
    BY <1>2 DEF Want, WantContext, Normal
  <2>2. source'.copied = NoStates /\ DOMAIN source'.copied = {}
    BY <1>4, <1>5 DEF NoStates
  <2>3. p \in Bundle => (p \in source'.todo <=> p \in DOMAIN Want)
    <3>1. SUFFICES ASSUME p \in Bundle PROVE p \in Kept(repo.work, Flags) <=> p \in DOMAIN Want
      BY <1>4
    <3>2. p \in Kept(repo.work, Flags) <=> repo.work.node[p] # Absent /\ ~Generated(p)
      BY <3>1 DEF Kept, Visited, Present, Flags, Generated
    <3>3. QED
      BY <1>6, <3>1, <3>2 DEF LikeCommit
  <2>4. QED
    BY <1>4, <2>1, <2>2, <2>3 DEF TakenLikeCommit
<1>7. QED
  BY <1>1, <1>2, <1>4, <1>6, CopyStepKeeps

\* One file is copied.
LEMMA CopyKeeps == ASSUME SourceInv, NEW p \in Bundle, CopyFile(p) PROVE SourceInv'
<1> DEFINE copied == [q \in DOMAIN source.copied \cup {p} |->
                        IF q = p THEN State(repo.work.node[p]) ELSE source.copied[q]]
           s == [source EXCEPT !.todo = source.todo \ {p}, !.copied = copied]
<1>1. p \in source.todo /\ At("copy", s)
  BY DEF CopyFile
<1>2. /\ source.at = "copy" /\ source' = s /\ variant' = variant /\ repo' = repo /\ SourceShape
  BY <1>1, AtFacts
<1>3. /\ DOMAIN copied = DOMAIN source.copied \cup {p} /\ copied[p] = State(repo.work.node[p])
      /\ \A q \in DOMAIN source.copied \ {p} : copied[q] = source.copied[q]
  OBVIOUS
<1> HIDE DEF copied
<1>4. /\ SourceShape' /\ source'.at = "copy" /\ source'.head = source.head
      /\ source'.still = source.still /\ source'.steady = source.steady
      /\ source'.todo = source.todo \ {p} /\ source'.copied = copied
  BY <1>2 DEF SourceShape
<1>5. ASSUME NEW q \in Paths, LikeCommit(q), TakenLikeCommit(q) PROVE TakenLikeCommit(q)'
  <2>1. Want' = Want /\ WantContext' = WantContext
    BY <1>2 DEF Want, WantContext, Normal
  <2>2. ASSUME q \in Bundle
        PROVE  /\ q \in source'.todo \cup DOMAIN source'.copied <=> q \in DOMAIN Want
               /\ q \in DOMAIN source'.copied => q \in DOMAIN Want /\ source'.copied[q] = Want[q]
    <3>1. /\ q \in source.todo \cup DOMAIN source.copied <=> q \in DOMAIN Want
          /\ q \in DOMAIN source.copied => q \in DOMAIN Want /\ source.copied[q] = Want[q]
      BY <1>2, <1>5, <2>2 DEF TakenLikeCommit
    <3>2. CASE q = p
      <4>1. q \in DOMAIN Want
        BY <1>1, <3>1, <3>2
      <4>2. State(repo.work.node[p]) = Want[p]
        BY <1>5, <2>2, <3>2, <4>1 DEF LikeCommit
      <4>3. QED
        BY <1>3, <1>4, <3>2, <4>1, <4>2
    <3>3. CASE q # p
      BY <1>3, <1>4, <3>1, <3>3
    <3>4. QED
      BY <3>2, <3>3
  <2>3. QED
    BY <1>4, <2>1, <2>2 DEF TakenLikeCommit
<1>6. QED
  BY <1>1, <1>2, <1>4, <1>5, CopyStepKeeps

\* The context files are read.
LEMMA ContextKeeps == ASSUME SourceInv, ReadContext PROVE SourceInv'
<1> DEFINE context == ContextStates(repo.work.node, FALSE)
           s == [source EXCEPT !.at = "clean", !.context = context]
<1>1. source.todo = {} /\ At("copy", s)
  BY DEF ReadContext
<1>2. /\ source.at = "copy" /\ source' = s /\ variant' = variant /\ repo' = repo /\ SourceShape
  BY <1>1, AtFacts
<1>3. \A q \in Context : context[q].content = repo.work.node[q].content
  BY DEF ContextStates, State
<1> HIDE DEF context
<1>4. /\ SourceShape' /\ source'.at = "clean" /\ source'.head = source.head
      /\ source'.still = source.still /\ source'.steady = source.steady
      /\ source'.todo = source.todo /\ source'.copied = source.copied
      /\ source'.context = context
  BY <1>2 DEF SourceShape
<1>5. ASSUME NEW q \in Paths, LikeCommit(q), TakenLikeCommit(q) PROVE TakenLikeCommit(q)'
  <2>1. Want' = Want /\ WantContext' = WantContext
    BY <1>2 DEF Want, WantContext, Normal
  <2>2. QED
    BY <1>2, <1>3, <1>4, <1>5, <2>1 DEF TakenLikeCommit, LikeCommit
<1>6. QED
  BY <1>1, <1>2, <1>4, <1>5, CopyStepKeeps

\* Git is asked again.
LEMMA CleanKeeps == ASSUME SourceInv, CheckCleanTree PROVE SourceInv'
<1> DEFINE s == [source EXCEPT !.at = "made"]
<1>1. ~Dirty(repo.work, repo.head, Ignored) /\ At("clean", s)
  BY DEF CheckCleanTree
<1>2. /\ source.at = "clean" /\ source' = s /\ variant' = variant /\ repo' = repo /\ SourceShape
  BY <1>1, AtFacts
<1>3. /\ SourceShape' /\ source'.at = "made" /\ source'.head = source.head
      /\ source'.still = source.still /\ source'.steady = source.steady
      /\ source'.todo = source.todo /\ source'.copied = source.copied
      /\ source'.context = source.context
  BY <1>2 DEF SourceShape
<1>4. source.todo = {}
  BY <1>2, AfterPreflight DEF WorktreeInv
<1>5. ASSUME NEW q \in Paths, TakenLikeCommit(q) PROVE TakenLikeCommit(q)'
  <2>1. Want' = Want /\ WantContext' = WantContext
    BY <1>2 DEF Want, WantContext, Normal
  <2>2. QED
    BY <1>2, <1>3, <1>5, <2>1 DEF TakenLikeCommit
<1>6. QED
  BY <1>1, <1>2, <1>3, <1>4, <1>5, CopyStepKeeps

\* The invariant holds at first, and when nothing happens.
LEMMA SourceStarts == SourceInit => SourceInv
<1>1. SUFFICES ASSUME SourceInit PROVE SourceInv
  OBVIOUS
<1>2. PICK tip \in SourceCommits, ref \in SourceCommits :
        repo = [head |-> tip, moved |-> 0, ref |-> ref, work |-> Tree(tip, {}), edited |-> {}]
  BY <1>1 DEF SourceInit
<1>3. tip \in [Paths -> SourceNode] /\ ref \in [Paths -> SourceNode]
  BY <1>2, SourceAssumption DEF SourceNode
<1>4. Tree(tip, {}) \in [node : [Paths -> SourceNode], dirs : {Tree(tip, {}).dirs}]
  BY <1>3 DEF Tree
<1>5. RepoShape(repo)
  BY <1>2, <1>3, <1>4 DEF RepoShape
<1>6. source = Unbound
  BY <1>1 DEF SourceInit
<1>7. /\ source.at = "preflight" /\ source.todo = {} /\ source.copied = NoStates /\ SourceShape
  BY <1>6 DEF Unbound, SourceShape
<1>8. variant \in [kind : {"worktree", "git_ref"}, schema : {3, 4, 5}]
  BY <1>1 DEF SourceInit
<1>9. QED
  BY <1>5, <1>7, <1>8 DEF SourceInv, SourceTyped

\* Nothing happens.
LEMMA SourceStutters == ASSUME SourceInv, UNCHANGED sourceVars PROVE SourceInv'
<1>1. variant' = variant /\ repo' = repo /\ source' = source
  BY DEF sourceVars
<1>2. SourceTyped'
  BY <1>1 DEF SourceInv, SourceTyped, SourceShape, RepoShape
<1>3. Want' = Want /\ WantContext' = WantContext
  BY <1>1 DEF Want, WantContext, Normal
<1>4. ASSUME WorktreeInv PROVE WorktreeInv'
  <2>1. \A p \in Paths : LikeCommit(p) /\ TakenLikeCommit(p) => LikeCommit(p)' /\ TakenLikeCommit(p)'
    BY <1>1, LikeStays, TakenStays
  <2>2. VisibleInv' /\ (UnmovedInv => UnmovedInv')
    BY <1>1, <1>4, <2>1 DEF WorktreeInv, VisibleInv, UnmovedInv, Hidden
  <2>3. source'.at = "check" => source'.expected = GitFingerprint(repo.ref, Normal, Canonical)'
    BY <1>1, <1>4 DEF WorktreeInv, Normal, Canonical
  <2>4. QED
    BY <1>1, <1>4, <2>2, <2>3 DEF WorktreeInv, NoStates
<1>5. QED
  BY <1>1, <1>2, <1>3, <1>4 DEF SourceInv, NoStates

\* What is made of a source is what the commit has.
LEMMA SnapshotFollows == SourceInv => SnapshotIsCommit
<1> DEFINE Uncopied == IF source.still THEN {} ELSE Hidden
<1>1. SUFFICES ASSUME SourceInv, source.at = "made", source.steady
               PROVE  /\ \A p \in Bundle \ Uncopied :
                           /\ p \in DOMAIN source.copied <=> p \in DOMAIN Want
                           /\ p \in DOMAIN Want => source.copied[p] = Want[p]
                      /\ \A p \in Context \ Uncopied :
                           source.context[p].content = WantContext[p].content
  BY DEF SnapshotIsCommit, Want, WantContext, Hidden
<1>2. CASE variant.kind = "git_ref"
  BY <1>1, <1>2 DEF SourceInv
<1>3. CASE variant.kind = "worktree"
  <2>1. WorktreeInv
    BY <1>1, <1>3 DEF SourceInv
  <2>2. ASSUME NEW p \in Paths \ Uncopied PROVE LikeCommit(p) /\ TakenLikeCommit(p)
    <3>1. CASE source.still
      BY <1>1, <2>1, <2>2, <3>1 DEF WorktreeInv, UnmovedInv
    <3>2. CASE ~source.still
      <4>1. p \in Paths \ Hidden /\ repo.moved = source.head /\ ~Dirty(repo.work, repo.head, Ignored)
        BY <1>1, <2>1, <2>2, <3>2 DEF WorktreeInv
      <4>2. repo.work.node[p] = repo.head[p]
        BY <4>1 DEF Dirty, Hidden
      <4>3. QED
        BY <2>1, <4>1, <4>2 DEF WorktreeInv, VisibleInv
    <3>3. QED
      BY <3>1, <3>2
  <2>3. source.todo = {}
    BY <1>1, <2>1 DEF WorktreeInv
  <2>4. QED
    BY <1>1, <2>2, <2>3 DEF TakenLikeCommit, Paths
<1>4. QED
  BY <1>1, <1>2, <1>3 DEF SourceInv, SourceTyped

\* The invariant holds whatever is edited and committed, and however often.
THEOREM SourceInvariance == SourceSpec => []SourceInv
<1>1. SourceInit => SourceInv
  BY SourceStarts
<1>2. SourceInv /\ [SourceNext]_sourceVars => SourceInv'
  <2>1. SUFFICES ASSUME SourceInv, [SourceNext]_sourceVars PROVE SourceInv'
    OBVIOUS
  <2>2. CASE \E p \in Paths : EditFile(p)
    BY <2>1, <2>2, EditKeeps
  <2>3. CASE \E p \in Bundle : CopyFile(p)
    BY <2>1, <2>3, CopyKeeps
  <2>4. CASE \E d \in Dirs(Bundle) \cup {"gap"} : MakeEmptyDir(d)
    BY <2>1, <2>4, MakeKeeps
  <2>5. CASE CommitAll \/ PreflightRef \/ TakeCommit \/ PreflightWorktree \/ CheckTree
    BY <2>1, <2>5, CommitKeeps, RefKeeps, WorktreeKeeps, CheckKeeps
  <2>6. CASE ListFiles \/ ReadContext \/ CheckCleanTree
    BY <2>1, <2>6, ListKeeps, ContextKeeps, CleanKeeps
  <2>7. CASE UNCHANGED sourceVars
    BY <2>1, <2>7, SourceStutters
  <2>8. QED
    BY <2>1, <2>2, <2>3, <2>4, <2>5, <2>6, <2>7 DEF SourceNext
<1>3. QED
  BY <1>1, <1>2, PTL DEF SourceSpec

\* The snapshot of a source is its commit's bundle, for any files and any edits meanwhile,
\* except for what SnapshotIsCommit leaves open.
THEOREM SnapshotsAreCommits == SourceSpec => []SnapshotIsCommit
<1>1. QED
  BY SourceInvariance, SnapshotFollows, PTL

-----------------------------------------------------------------------------
(* A verifier: the inductive invariant, for the program of the host first *)

Half == [1..2 -> Nat]

HostShape ==
  /\ host \in [path : Nat, files : Seq([bytes : Half, stamp : Nat]), half : BOOLEAN,
               updates : Nat]
  /\ host.path \in DOMAIN host.files

ProgShape ==
  prog \in [at : {"open", "digest", "ask", "same", "attested", "again", "equal", "copy",
                  "verify", "ready", "idle"},
            use : {"bundle", "held"}, file : Nat, stamp : Nat, read : {prog.read},
            digest : {prog.digest}, version : {prog.version}, copied : {prog.copied},
            copy : {prog.copy}, launched : BOOLEAN]

\* Every file is, as it is, something the program has been.
HadInv == \A k \in DOMAIN host.files : host.files[k].bytes \in had

Fresh == host.files[prog.file].stamp = prog.stamp

\* Times do not go back; while they are the same, what was read is what is there.
ReadInv ==
  /\ prog.at = "open" => prog.read = <<>>
  /\ prog.at # "open" => prog.file \in DOMAIN host.files
  /\ prog.at # "open" => prog.stamp <= host.files[prog.file].stamp
  /\ prog.at = "digest" =>
       /\ prog.read \in Seq(Nat) /\ Len(prog.read) \in {0, 1}
       /\ Fresh /\ Len(prog.read) = 1 => prog.read[1] = host.files[prog.file].bytes[1]
  /\ prog.at \in {"ask", "same"} /\ Fresh => prog.read = host.files[prog.file].bytes
  /\ prog.at = "same" /\ prog.use = "bundle" /\ Fresh =>
       prog.version = host.files[prog.file].bytes

Attesting == {"open", "digest", "ask", "same"}

\* What was attested was whole once; what is copied was attested, and what is launched
\* is what was asked.
CopyInv ==
  /\ prog.at \notin Attesting =>
       prog.digest \in had /\ (prog.use = "bundle" => prog.version = prog.digest)
  /\ prog.at \notin {"ready", "idle"} => prog.copied = <<>> /\ prog.copy = <<>>
  /\ prog.at \in {"ready", "idle"} =>
       prog.copied = prog.digest /\ prog.copy \in {prog.copied, <<0, 0>>}
  /\ prog.at = "idle" => prog.use = "held" /\ (BundleHolds => prog.version = prog.copy)
  /\ prog.launched => prog.at = "idle" /\ BundleHolds

ProgramInv == HostShape /\ ProgShape /\ HadInv /\ ReadInv /\ CopyInv

-----------------------------------------------------------------------------
(* The arm and its verifier *)

CellShape ==
  /\ cell \in [at : {"preflight", "fixture", "agent", "scan", "check", "workspace", "runtime",
                     "bundle", "unit", "judged", "finally", "after", "completed", "error"},
               kind : Kinds, case : Nat, before : {cell.before}, work : {cell.work},
               output : {cell.output}, artifact : {cell.artifact}, verdict : {cell.verdict},
               drift : BOOLEAN]
  /\ unit \in [state : {"none", "running", "over"}, client : {unit.client}, exit : {0, 1},
               answer : {"none", "valid", "invalid"}, case : {unit.case}, work : {unit.work},
               artifact : {unit.artifact}, saw : {unit.saw}]
  /\ current \in Nat

Ran    == {"unit", "judged", "finally", "after", "completed"}
Looked == {"workspace", "runtime", "bundle"} \cup Ran

\* What is shown, for a tree that is judged.
Shows(tree) == cell.artifact = [patch |-> DiffStates(Before, ReadTree(tree, Raw))]

\* The fixture the arm began with is that of the preflight, if the case has not changed.
CaseInv ==
  /\ cell.at # "preflight" => prog.use = "bundle"
  /\ cell.at \notin {"preflight", "error"} => prog.at \notin Attesting
  /\ cell.at \notin {"preflight", "error"} => cell.case <= current
  /\ cell.at \in {"agent", "scan", "check"} /\ current = cell.case =>
       cell.before = Fixture(cell.case)
  /\ cell.at \in Looked => cell.before = Fixture(cell.case)

\* The artifact is the patch to the tree that is passed on.
ArtifactInv ==
  cell.kind = "workspace_diff" =>
    /\ cell.at \in {"check", "workspace"} =>
         cell.artifact = [patch |-> DiffStates(Before, ReadTree(cell.work, Cacheless))]
    /\ cell.at = "runtime" => Shows(cell.work)
    /\ cell.at \in {"bundle"} \cup Ran =>
         IF unit.saw = <<>> THEN Shows(unit.work) ELSE Shows(unit.saw[1].work)

\* The unit has what the arm has given it; and once the bundle is found as it was, what
\* it was run with is what was attested.
UnitInv ==
  /\ cell.at \notin Ran \cup {"error"} => unit.state = "none"
  /\ cell.at \notin Ran \cup {"error"} => unit.answer = "none" /\ unit.saw = <<>>
  /\ unit.state = "none" => unit.saw = <<>>
  /\ unit.answer = "none" <=> unit.saw = <<>>
  /\ cell.at \in {"bundle"} \cup Ran =>
       unit.case = cell.case /\ unit.artifact \in {cell.artifact, Spoilt}
  /\ cell.at \in Ran => prog.at \in {"ready", "idle"}
  /\ cell.at \in Ran /\ unit.saw # <<>> =>
       /\ unit.saw[1].case = cell.case
       /\ unit.artifact = cell.artifact => unit.saw[1].artifact = cell.artifact
       /\ BundleHolds => unit.saw[1].program = prog.digest

\* A verdict that can count was taken when the unit was over.
VerdictInv ==
  /\ cell.at = "judged" => unit.state = "over"
  /\ cell.at \in {"finally", "after", "completed"} /\ cell.verdict = "valid" =>
       /\ unit.state = "over" /\ unit.answer = "valid"
       /\ unit.saw[1].program = prog.digest
  /\ cell.at \in {"after", "completed"} => (~cell.drift => unit.artifact = cell.artifact)
  /\ cell.at = "completed" => ~cell.drift /\ cell.verdict = "valid"

CellInv == ProgramInv /\ CellShape /\ CaseInv /\ ArtifactInv /\ UnitInv /\ VerdictInv

-----------------------------------------------------------------------------
(* The steps of the program *)

\* A file has bytes, and a time.
LEMMA FilesTyped ==
  ASSUME HostShape, NEW k \in DOMAIN host.files
  PROVE  /\ host.files[k].bytes \in Half /\ host.files[k].stamp \in Nat
         /\ host.files[k] = [bytes |-> host.files[k].bytes, stamp |-> host.files[k].stamp]
<1> DEFINE S == [bytes : Half, stamp : Nat]
<1>1. host.files \in Seq(S)
  BY DEF HostShape
<1> HIDE DEF S
<1>2. host.files[k] \in S
  BY <1>1
<1> QED  BY <1>2 DEF S

\* An update changes one file, and its time with it, or adds one.
LEMMA FilesGrow ==
  ASSUME HostShape, HadInv, Update
  PROVE  /\ HostShape' /\ HadInv' /\ had \subseteq had' /\ prog' = prog
         /\ \A k \in DOMAIN host.files :
              /\ k \in DOMAIN host'.files
              /\ host'.files[k] = host.files[k] \/ host'.files[k].stamp > host.files[k].stamp
<1>1. /\ host.files \in Seq([bytes : Half, stamp : Nat]) /\ host.path \in DOMAIN host.files
      /\ host.updates \in Nat /\ host.path \in Nat /\ host.half \in BOOLEAN
      /\ host = [path |-> host.path, files |-> host.files, half |-> host.half,
                 updates |-> host.updates]
  BY DEF HostShape
<1>0. /\ host.files[host.path] = [bytes |-> host.files[host.path].bytes,
                                   stamp |-> host.files[host.path].stamp]
      /\ host.files[host.path].bytes \in Half /\ host.files[host.path].stamp \in Nat
  BY <1>1, FilesTyped
<1>2. CASE Rename
  <2> DEFINE new == [bytes |-> <<host.updates + 2, host.updates + 2>>, stamp |-> 0]
             table == Append(host.files, new)
  <2>1. /\ host' = [path |-> Len(host.files) + 1, files |-> table, half |-> host.half,
                    updates |-> host.updates + 1]
        /\ had' = had \cup {host'.files[host'.path].bytes} /\ prog' = prog
    BY <1>1, <1>2 DEF Rename, Updated
  <2>2. new \in [bytes : Half, stamp : Nat]
    BY <1>1 DEF Half
  <2>3. /\ table \in Seq([bytes : Half, stamp : Nat])
        /\ Len(table) = Len(host.files) + 1 /\ table[Len(host.files) + 1] = new
        /\ \A k \in DOMAIN host.files : table[k] = host.files[k]
        /\ DOMAIN table = 1..Len(host.files) + 1 /\ DOMAIN host.files = 1..Len(host.files)
        /\ Len(host.files) \in Nat
    BY <1>1, <2>2
  <2> HIDE DEF table, new
  <2>4. HostShape'
    BY <1>1, <2>1, <2>3 DEF HostShape
  <2>5. HadInv'
    <3> SUFFICES ASSUME NEW k \in DOMAIN table
                 PROVE  table[k].bytes \in had'
      BY <2>1 DEF HadInv
    <3>1. CASE k \in DOMAIN host.files
      BY <3>1, <2>1, <2>3 DEF HadInv
    <3>2. CASE k = Len(host.files) + 1
      BY <3>2, <2>1, <2>3
    <3> QED  BY <3>1, <3>2, <2>3
  <2> QED  BY <2>1, <2>3, <2>4, <2>5
<1>3. ASSUME NEW i \in {1, 2}, NEW byte \in Nat, NEW half \in BOOLEAN, NEW updates \in Nat,
             host' = [path |-> host.path, half |-> half, updates |-> updates,
                      files |-> [host.files EXCEPT ![host.path] =
                                   [bytes |-> [host.files[host.path].bytes EXCEPT ![i] = byte],
                                    stamp |-> host.files[host.path].stamp + 1]]],
             had' = had \cup {host'.files[host'.path].bytes}, prog' = prog
      PROVE  /\ HostShape' /\ HadInv' /\ had \subseteq had' /\ prog' = prog
             /\ \A k \in DOMAIN host.files :
                  /\ k \in DOMAIN host'.files
                  /\ host'.files[k] = host.files[k]
                       \/ host'.files[k].stamp > host.files[k].stamp
  <2> DEFINE new == [bytes |-> [host.files[host.path].bytes EXCEPT ![i] = byte],
                     stamp |-> host.files[host.path].stamp + 1]
             table == [host.files EXCEPT ![host.path] = new]
  <2>1. host.files[host.path].bytes \in Half /\ host.files[host.path].stamp \in Nat
    BY <1>0
  <2>2. new \in [bytes : Half, stamp : Nat] /\ new.stamp = host.files[host.path].stamp + 1
    BY <2>1 DEF Half
  <2>3. host' = [path |-> host.path, half |-> half, updates |-> updates, files |-> table]
    BY <1>3
  <2> HIDE DEF new
  <2>4. /\ table \in Seq([bytes : Half, stamp : Nat]) /\ DOMAIN table = DOMAIN host.files
        /\ table[host.path] = new
        /\ \A k \in DOMAIN host.files : k # host.path => table[k] = host.files[k]
    BY <1>1, <2>2
  <2> HIDE DEF table
  <2>5. HostShape'
    BY <1>1, <2>3, <2>4 DEF HostShape
  <2>6. HadInv'
    BY <1>3, <2>3, <2>4 DEF HadInv
  <2>7. \A k \in DOMAIN host.files :
          host'.files[k] = host.files[k] \/ host'.files[k].stamp > host.files[k].stamp
    <3>1. host'.files = table /\ host.files[host.path].stamp \in Nat
      BY <2>1, <2>3
    <3>2. new.stamp > host.files[host.path].stamp
      BY <2>2, <3>1
    <3> QED  BY <2>4, <3>1, <3>2
  <2> QED  BY <1>3, <2>3, <2>4, <2>5, <2>6, <2>7
<1>4. CASE WriteFirstHalf
  <2> DEFINE file == host.files[host.path]
             new == [bytes |-> [file.bytes EXCEPT ![1] = host.updates + 2], stamp |-> file.stamp + 1]
             table == [[host.files EXCEPT ![host.path].bytes[1] = host.updates + 2]
                    EXCEPT ![host.path].stamp = @ + 1]
  <2>3. table = [host.files EXCEPT ![host.path] = new]
    <3>1. /\ file = [bytes |-> file.bytes, stamp |-> file.stamp]
          /\ host.path \in DOMAIN host.files /\ DOMAIN host.files = 1..Len(host.files)
          /\ DOMAIN file.bytes = 1..2
      BY <1>0, <1>1 DEF Half
    <3>2. table[host.path] = new /\ DOMAIN table = DOMAIN host.files
      BY <3>1
    <3>3. \A k \in DOMAIN host.files : k # host.path => table[k] = host.files[k]
      BY <3>1
    <3> HIDE DEF table, new, file
    <3>4. /\ table = [k \in DOMAIN host.files |-> table[k]]
      BY <3>2 DEF table
    <3>5. /\ [host.files EXCEPT ![host.path] = new] =
               [k \in DOMAIN host.files |-> IF k = host.path THEN new ELSE host.files[k]]
      OBVIOUS
    <3> QED  BY <3>2, <3>3, <3>4, <3>5
  <2>4. /\ host' = [path |-> host.path, half |-> TRUE, updates |-> host.updates + 1, files |-> table]
        /\ had' = had \cup {host'.files[host'.path].bytes} /\ prog' = prog
    BY <1>0, <1>1, <1>4 DEF WriteFirstHalf, Updated
  <2>1. /\ host' = [path |-> host.path, half |-> TRUE, updates |-> host.updates + 1,
                    files |-> [host.files EXCEPT ![host.path] =
                                 [bytes |-> [host.files[host.path].bytes EXCEPT
                                               ![1] = host.updates + 2],
                                  stamp |-> host.files[host.path].stamp + 1]]]
        /\ had' = had \cup {host'.files[host'.path].bytes} /\ prog' = prog
    BY <2>3, <2>4
  <2>2. host.updates + 2 \in Nat /\ host.updates + 1 \in Nat /\ 1 \in {1, 2} /\ TRUE \in BOOLEAN
    BY <1>1
  <2> HIDE DEF file, new, table
  <2> QED  BY <1>3, <2>1, <2>2
<1>5. CASE WriteSecondHalf
  <2> DEFINE file == host.files[host.path]
             new == [bytes |-> [file.bytes EXCEPT ![2] = file.bytes[1]], stamp |-> file.stamp + 1]
             table == [[host.files EXCEPT ![host.path].stamp = @ + 1]
                    EXCEPT ![host.path].bytes[2] = host.files[host.path].bytes[1]]
  <2>3. table = [host.files EXCEPT ![host.path] = new]
    <3>1. /\ file = [bytes |-> file.bytes, stamp |-> file.stamp]
          /\ host.path \in DOMAIN host.files /\ DOMAIN host.files = 1..Len(host.files)
          /\ DOMAIN file.bytes = 1..2
      BY <1>0, <1>1 DEF Half
    <3>2. table[host.path] = new /\ DOMAIN table = DOMAIN host.files
      BY <3>1
    <3>3. \A k \in DOMAIN host.files : k # host.path => table[k] = host.files[k]
      BY <3>1
    <3> HIDE DEF table, new, file
    <3>4. /\ table = [k \in DOMAIN host.files |-> table[k]]
      BY <3>2 DEF table
    <3>5. /\ [host.files EXCEPT ![host.path] = new] =
               [k \in DOMAIN host.files |-> IF k = host.path THEN new ELSE host.files[k]]
      OBVIOUS
    <3> QED  BY <3>2, <3>3, <3>4, <3>5
  <2>4. /\ host' = [path |-> host.path, half |-> FALSE, updates |-> host.updates, files |-> table]
        /\ had' = had \cup {host'.files[host'.path].bytes} /\ prog' = prog
    BY <1>0, <1>1, <1>5 DEF WriteSecondHalf, Updated
  <2>1. /\ host' = [path |-> host.path, half |-> FALSE, updates |-> host.updates,
                    files |-> [host.files EXCEPT ![host.path] =
                                 [bytes |-> [host.files[host.path].bytes EXCEPT
                                               ![2] = host.files[host.path].bytes[1]],
                                  stamp |-> host.files[host.path].stamp + 1]]]
        /\ had' = had \cup {host'.files[host'.path].bytes} /\ prog' = prog
    BY <2>3, <2>4
  <2>2. host.files[host.path].bytes[1] \in Nat
    BY <1>0 DEF Half
  <2> QED  BY <1>1, <1>3, <2>1, <2>2
<1> QED  BY <1>2, <1>4, <1>5 DEF Update

\* What has been read stays what it is, and what has been seen is not seen again
\* unchanged once it has changed.
LEMMA UpdateKeeps ==
  ASSUME ProgramInv, Update
  PROVE  ProgramInv' /\ prog' = prog
<1>1. /\ HostShape' /\ HadInv' /\ had \subseteq had' /\ prog' = prog
      /\ \A k \in DOMAIN host.files :
           /\ k \in DOMAIN host'.files
           /\ host'.files[k] = host.files[k] \/ host'.files[k].stamp > host.files[k].stamp
  BY FilesGrow DEF ProgramInv
<1>2. ProgShape'
  BY <1>1 DEF ProgramInv, ProgShape
<1>3. prog.stamp \in Nat
  BY DEF ProgramInv, ProgShape
<1>4. prog.at # "open" =>
        /\ host.files[prog.file].stamp \in Nat /\ prog.file \in DOMAIN host.files
        /\ prog.stamp <= host.files[prog.file].stamp
        /\ host'.files[prog.file].stamp \in Nat
  <2>1. prog.at # "open" => /\ prog.file \in DOMAIN host.files
                            /\ prog.stamp <= host.files[prog.file].stamp
    BY DEF ProgramInv, ReadInv
  <2>2. HostShape' => \A k \in DOMAIN host'.files : host'.files[k].stamp \in Nat
    <3> DEFINE S == [bytes : Half, stamp : Nat]
    <3> SUFFICES ASSUME HostShape', NEW k \in DOMAIN host'.files
                 PROVE  host'.files[k].stamp \in Nat
      OBVIOUS
    <3>1. host'.files \in Seq(S)
      BY DEF HostShape
    <3> HIDE DEF S
    <3>2. host'.files[k] \in S
      BY <3>1
    <3> QED  BY <3>2 DEF S
  <2>3. \A k \in DOMAIN host.files : host.files[k].stamp \in Nat
    BY FilesTyped DEF ProgramInv
  <2> QED  BY <1>1, <2>1, <2>2, <2>3
<1>5. prog.at # "open" => (prog.stamp <= host'.files[prog.file].stamp
        /\ (Fresh' => Fresh /\ host'.files[prog.file] = host.files[prog.file]))
  BY <1>1, <1>3, <1>4 DEF Fresh
<1>6. ReadInv'
  <2>1. ReadInv
    BY DEF ProgramInv
  <2>2. CASE prog.at = "open"
    BY <1>1, <2>1, <2>2 DEF ReadInv
  <2>3. CASE prog.at # "open" /\ ~Fresh'
    <3>1. prog.file \in DOMAIN host'.files /\ prog.stamp <= host'.files[prog.file].stamp
      BY <1>1, <1>4, <1>5, <2>3
    <3> QED  BY <1>1, <2>1, <2>3, <3>1 DEF ReadInv
  <2>4. CASE prog.at # "open" /\ Fresh'
    <3>1. /\ prog.file \in DOMAIN host'.files /\ prog.stamp <= host'.files[prog.file].stamp
          /\ Fresh /\ host'.files[prog.file] = host.files[prog.file]
      BY <1>1, <1>4, <1>5, <2>4
    <3> QED  BY <1>1, <2>1, <2>4, <3>1 DEF ReadInv
  <2> QED  BY <2>2, <2>3, <2>4
<1>7. CopyInv'
  BY <1>1 DEF ProgramInv, CopyInv, BundleHolds
<1> QED  BY <1>1, <1>2, <1>6, <1>7 DEF ProgramInv

\* What a step of the program leaves to the others: once attested, it stays attested,
\* with its digest; and a copy that is not what was copied stays so.
Onwards ==
  /\ prog'.use = prog.use
  /\ prog.at \notin Attesting => prog'.at \notin Attesting /\ prog'.digest = prog.digest
  /\ prog.at \in {"ready", "idle"} => prog'.at \in {"ready", "idle"} /\ (BundleHolds' => BundleHolds)

\* The first half that is read is that of the file, if it has not changed.
LEMMA DigestKeeps ==
  ASSUME ProgramInv, ReadDigest
  PROVE  ProgramInv' /\ Onwards
<1> DEFINE byte == host.files[prog.file].bytes[Len(prog.read) + 1]
           to == IF prog.use = "bundle" THEN "ask" ELSE "same"
<1>1. /\ HostShape /\ ProgShape /\ HadInv /\ ReadInv /\ CopyInv
  BY DEF ProgramInv
<1>2. /\ prog.at = "digest" /\ host' = host /\ had' = had
      /\ prog' = [prog EXCEPT !.read = Append(@, byte),
                              !.at = IF Len(prog.read) = 1 THEN to ELSE @]
  BY DEF ReadDigest, ReadHalf, Reading
<1>3. /\ prog.file \in DOMAIN host.files /\ prog.stamp <= host.files[prog.file].stamp
      /\ prog.read \in Seq(Nat) /\ Len(prog.read) \in {0, 1}
      /\ Fresh /\ Len(prog.read) = 1 => prog.read[1] = host.files[prog.file].bytes[1]
  BY <1>1, <1>2 DEF ReadInv
<1>4. host.files[prog.file].bytes \in Half
  BY <1>1, <1>3, FilesTyped
<1>5. byte \in Nat
  <2>1. Len(prog.read) + 1 \in 1..2
    <3>1. Len(prog.read) = 0 \/ Len(prog.read) = 1
      BY <1>3
    <3>2. \A n : n = 0 \/ n = 1 => n + 1 \in 1..2
      OBVIOUS
    <3> QED  BY <3>1, <3>2
  <2>2. \A h \in Half, i \in 1..2 : h[i] \in Nat
    BY DEF Half
  <2> QED  BY <1>4, <2>1, <2>2, Zenon
<1> DEFINE read == Append(prog.read, byte)
<1>6. /\ read \in Seq(Nat) /\ Len(read) = Len(prog.read) + 1
      /\ read[Len(prog.read) + 1] = byte
      /\ Len(prog.read) = 1 => read[1] = prog.read[1]
  <2> HIDE DEF byte
  <2> QED  BY <1>3, <1>5
<1>7. CASE Len(prog.read) = 0
  <2>1. prog' = [prog EXCEPT !.read = read]
    <3> HIDE DEF byte, to
    <3>1. prog' = [prog EXCEPT !.read = Append(@, byte), !.at = @]
      BY <1>2, <1>7
    <3> QED  BY <1>1, <3>1 DEF ProgShape
  <2>2. ProgShape' /\ prog'.at = "digest" /\ prog'.read = read /\ prog'.file = prog.file
        /\ prog'.stamp = prog.stamp /\ prog'.use = prog.use /\ prog'.copied = prog.copied
        /\ prog'.copy = prog.copy /\ prog'.launched = prog.launched
    BY <1>1, <1>2, <2>1 DEF ProgShape
  <2>3. ReadInv'
    BY <1>2, <1>3, <1>6, <1>7, <2>2 DEF ReadInv, Fresh
  <2>4. CopyInv'
    BY <1>1, <1>2, <2>2 DEF CopyInv, Attesting, BundleHolds
  <2>5. HostShape' /\ HadInv'
    BY <1>1, <1>2 DEF HostShape, HadInv
  <2> QED  BY <1>2, <2>2, <2>3, <2>4, <2>5 DEF ProgramInv, Onwards, Attesting
<1>8. CASE Len(prog.read) = 1
  <2>1. prog' = [prog EXCEPT !.read = read, !.at = to]
    BY <1>1, <1>2, <1>8 DEF ProgShape
  <2>2. ProgShape' /\ prog'.at = to /\ prog'.read = read /\ prog'.file = prog.file
        /\ prog'.stamp = prog.stamp /\ prog'.use = prog.use /\ prog'.copied = prog.copied
        /\ prog'.copy = prog.copy /\ prog'.launched = prog.launched
    BY <1>1, <1>2, <2>1 DEF ProgShape
  <2>3. Fresh => read = host.files[prog.file].bytes
    <3> SUFFICES ASSUME Fresh PROVE read = host.files[prog.file].bytes
      OBVIOUS
    <3>1. Len(read) = 2 /\ read[1] = host.files[prog.file].bytes[1]
          /\ read[2] = host.files[prog.file].bytes[2]
      BY <1>3, <1>6, <1>8
    <3> HIDE DEF read
    <3>2. read = [i \in 1..2 |-> read[i]]
      BY <1>6, <3>1
    <3>3. host.files[prog.file].bytes = [i \in 1..2 |-> host.files[prog.file].bytes[i]]
      BY <1>4 DEF Half
    <3> QED  BY <3>1, <3>2, <3>3
  <2>4. prog.at = "digest" /\ to \in {"ask", "same"} /\ host' = host /\ had' = had
    BY <1>2
  <2>5. to = "same" => prog.use # "bundle"
    OBVIOUS
  <2>6. ReadInv'
    <3> HIDE DEF to, read, byte
    <3> QED  BY <1>3, <2>2, <2>3, <2>4, <2>5 DEF ReadInv, Fresh
  <2>7. CopyInv'
    <3> HIDE DEF to, read, byte
    <3> QED  BY <1>1, <2>2, <2>4 DEF CopyInv, Attesting, BundleHolds
  <2>8. HostShape' /\ HadInv'
    BY <1>1, <2>4 DEF HostShape, HadInv
  <2> QED  BY <2>2, <2>4, <2>6, <2>7, <2>8 DEF ProgramInv, Onwards, Attesting
<1> QED  BY <1>3, <1>7, <1>8

\* What is asked and what was read are the same, if the file has not changed.
LEMMA AttestKeeps ==
  ASSUME ProgramInv, Attest
  PROVE  ProgramInv' /\ Onwards
<1>1. /\ HostShape /\ ProgShape /\ HadInv /\ ReadInv /\ CopyInv
  BY DEF ProgramInv
<1>2. ASSUME host' = host, had' = had
      PROVE  HostShape' /\ HadInv'
  BY <1>1, <1>2 DEF HostShape, HadInv
<1>3. CASE Open
  <2>1. /\ host' = host /\ had' = had /\ prog.at = "open"
        /\ prog' = [prog EXCEPT !.at = "digest", !.file = host.path,
                                !.stamp = host.files[host.path].stamp]
    BY <1>3 DEF Open, Reading
  <2>2. host.path \in DOMAIN host.files /\ host.path \in Nat
    BY <1>1 DEF HostShape
  <2>3. host.files[host.path].stamp \in Nat
    BY <1>1, <2>2, FilesTyped
  <2>4. ProgShape'
    BY <1>1, <2>1, <2>2, <2>3 DEF ProgShape
  <2>5. /\ prog'.at = "digest" /\ prog'.read = prog.read /\ prog'.file = host.path
        /\ prog'.stamp = host.files[host.path].stamp /\ prog'.use = prog.use
        /\ prog'.copied = prog.copied /\ prog'.copy = prog.copy
        /\ prog'.launched = prog.launched
    BY <1>1, <2>1 DEF ProgShape
  <2>6. prog'.read = <<>> /\ <<>> \in Seq(Nat) /\ Len(<<>>) = 0
    <3>1. prog.read = <<>>
      BY <1>1, <2>1 DEF ReadInv
    <3> QED  BY <2>5, <3>1
  <2>7. ReadInv'
    <3>1. host.files[host.path].stamp <= host.files[host.path].stamp
      BY <2>3
    <3>2. host'.files = host.files
      BY <2>1
    <3> QED  BY <2>2, <2>5, <2>6, <3>1, <3>2 DEF ReadInv, Fresh
  <2>8. CopyInv'
    BY <1>1, <2>1, <2>5 DEF CopyInv, Attesting, BundleHolds
  <2> QED  BY <1>2, <2>1, <2>4, <2>5, <2>7, <2>8 DEF ProgramInv, Onwards, Attesting
<1>4. CASE Ask /\ prog.at = "ask"
  <2>1. /\ host' = host /\ had' = had
        /\ prog' = [prog EXCEPT !.at = "same", !.version = host.files[prog.file].bytes]
    BY <1>4 DEF Ask, Reading
  <2>2. ProgShape'
    BY <1>1, <2>1 DEF ProgShape
  <2>3. /\ prog'.at = "same" /\ prog'.read = prog.read /\ prog'.file = prog.file
        /\ prog'.stamp = prog.stamp /\ prog'.use = prog.use
        /\ prog'.copied = prog.copied /\ prog'.copy = prog.copy
        /\ prog'.launched = prog.launched /\ prog'.version = host.files[prog.file].bytes
    BY <1>1, <2>1 DEF ProgShape
  <2>4. ReadInv'
    BY <1>1, <1>4, <2>1, <2>3 DEF ReadInv, Fresh
  <2>5. CopyInv'
    BY <1>1, <1>4, <2>1, <2>3 DEF CopyInv, Attesting, BundleHolds
  <2> QED  BY <1>2, <1>4, <2>1, <2>2, <2>3, <2>4, <2>5 DEF ProgramInv, Onwards, Attesting
<1>5. CASE Ask /\ prog.at # "ask"
  <2>1. /\ host' = host /\ had' = had /\ prog.at = "ready" /\ prog.use = "held"
        /\ prog' = [prog EXCEPT !.at = "idle", !.version = prog.copy]
    BY <1>5 DEF Ask, Reading
  <2>2. ProgShape'
    BY <1>1, <2>1 DEF ProgShape
  <2>3. /\ prog'.at = "idle" /\ prog'.read = prog.read /\ prog'.file = prog.file
        /\ prog'.stamp = prog.stamp /\ prog'.use = prog.use
        /\ prog'.copied = prog.copied /\ prog'.copy = prog.copy
        /\ prog'.launched = prog.launched /\ prog'.version = prog.copy
        /\ prog'.digest = prog.digest
    BY <1>1, <2>1 DEF ProgShape
  <2>4. ReadInv'
    BY <1>1, <2>1, <2>3 DEF ReadInv, Fresh
  <2>5. CopyInv'
    BY <1>1, <2>1, <2>3 DEF CopyInv, Attesting, BundleHolds
  <2> QED  BY <1>2, <2>1, <2>2, <2>3, <2>4, <2>5 DEF ProgramInv, Onwards, Attesting, BundleHolds
<1>6. CASE Attested
  <2>1. /\ host' = host /\ had' = had /\ prog.at = "same" /\ Fresh
        /\ prog' = [prog EXCEPT !.digest = prog.read, !.read = <<>>,
                       !.at = IF prog.use = "held" THEN "copy" ELSE "attested"]
    BY <1>6 DEF Attested, SameFile, Reading, Fresh
  <2>2. ProgShape'
    BY <1>1, <2>1 DEF ProgShape
  <2>3. /\ prog'.at \in {"copy", "attested"} /\ prog'.file = prog.file
        /\ prog'.stamp = prog.stamp /\ prog'.use = prog.use
        /\ prog'.copied = prog.copied /\ prog'.copy = prog.copy
        /\ prog'.launched = prog.launched /\ prog'.version = prog.version
        /\ prog'.digest = prog.read
    BY <1>1, <2>1 DEF ProgShape
  <2>4. /\ prog.file \in DOMAIN host.files /\ prog.read = host.files[prog.file].bytes
        /\ prog.use = "bundle" => prog.version = host.files[prog.file].bytes
    BY <1>1, <2>1 DEF ReadInv
  <2>5. prog.read \in had
    BY <1>1, <2>4 DEF HadInv
  <2>6. ReadInv'
    BY <1>1, <2>1, <2>3 DEF ReadInv, Fresh
  <2>7. CopyInv'
    BY <1>1, <2>1, <2>3, <2>4, <2>5 DEF CopyInv, Attesting, BundleHolds
  <2> QED  BY <1>2, <2>1, <2>2, <2>3, <2>6, <2>7 DEF ProgramInv, Onwards, Attesting
<1> QED  BY <1>3, <1>4, <1>5, <1>6, DigestKeeps DEF Attest

\* What is copied has the digest of the attestation.
LEMMA BundleKeeps ==
  ASSUME ProgramInv, MakeCopy
  PROVE  ProgramInv' /\ Onwards /\ prog.at \notin {"ready", "idle"}
<1>1. /\ HostShape /\ ProgShape /\ HadInv /\ ReadInv /\ CopyInv
  BY DEF ProgramInv
<1>2. ASSUME host' = host, had' = had, prog.at \in {"attested", "again", "equal", "copy"},
             NEW stage \in {"again", "equal", "copy", "verify"}, NEW read,
             prog' = [prog EXCEPT !.at = stage, !.read = read]
      PROVE  ProgramInv' /\ Onwards /\ prog.at \notin {"ready", "idle"}
  <2>1. ProgShape'
    BY <1>1, <1>2 DEF ProgShape
  <2>2. /\ prog'.at = stage /\ prog'.file = prog.file
        /\ prog'.stamp = prog.stamp /\ prog'.use = prog.use
        /\ prog'.copied = prog.copied /\ prog'.copy = prog.copy
        /\ prog'.launched = prog.launched /\ prog'.version = prog.version
        /\ prog'.digest = prog.digest
    BY <1>1, <1>2 DEF ProgShape
  <2>3. ReadInv'
    BY <1>1, <1>2, <2>2 DEF ReadInv, Fresh
  <2>4. CopyInv'
    BY <1>1, <1>2, <2>2 DEF CopyInv, Attesting, BundleHolds
  <2>5. HostShape' /\ HadInv'
    BY <1>1, <1>2 DEF HostShape, HadInv
  <2> QED  BY <1>2, <2>1, <2>2, <2>3, <2>4, <2>5 DEF ProgramInv, Onwards, Attesting
<1> DEFINE read == Append(prog.read, host.files[prog.file].bytes[Len(prog.read) + 1])
<1>3. CASE Reopen
  <2>1. /\ host' = host /\ had' = had /\ prog.at = "attested"
        /\ prog' = [prog EXCEPT !.at = "again", !.read = prog.read]
    BY <1>1, <1>3 DEF Reopen, Reading, ProgShape
  <2> QED  BY <1>2, <2>1
<1>4. CASE ReadAgain
  <2>1. /\ host' = host /\ had' = had /\ prog.at = "again"
        /\ prog' = [prog EXCEPT !.at = IF Len(prog.read) = 1 THEN "equal" ELSE "again", !.read = read]
    BY <1>1, <1>4 DEF ReadAgain, ReadHalf, Reading, ProgShape
  <2> QED  BY <1>2, <2>1
<1>5. CASE Compare
  <2>1. /\ host' = host /\ had' = had /\ prog.at = "equal"
        /\ prog' = [prog EXCEPT !.at = "copy", !.read = <<>>]
    BY <1>1, <1>5 DEF Compare, Reading, ProgShape
  <2> QED  BY <1>2, <2>1
<1>6. CASE ReadCopy
  <2>1. /\ host' = host /\ had' = had /\ prog.at = "copy"
        /\ prog' = [prog EXCEPT !.at = IF Len(prog.read) = 1 THEN "verify" ELSE "copy", !.read = read]
    BY <1>1, <1>6 DEF ReadCopy, ReadHalf, Reading, ProgShape
  <2> QED  BY <1>2, <2>1
<1>7. CASE Verify
  <2>1. /\ host' = host /\ had' = had /\ prog.at = "verify" /\ prog.read = prog.digest
        /\ prog' = [prog EXCEPT !.at = "ready", !.copied = prog.read, !.copy = prog.read,
                                !.read = <<>>]
    BY <1>7 DEF Verify, Reading
  <2>2. ProgShape'
    BY <1>1, <2>1 DEF ProgShape
  <2>3. /\ prog'.at = "ready" /\ prog'.file = prog.file
        /\ prog'.stamp = prog.stamp /\ prog'.use = prog.use
        /\ prog'.copied = prog.digest /\ prog'.copy = prog.digest
        /\ prog'.launched = prog.launched /\ prog'.version = prog.version
        /\ prog'.digest = prog.digest
    BY <1>1, <2>1 DEF ProgShape
  <2>4. ReadInv'
    BY <1>1, <2>1, <2>3 DEF ReadInv, Fresh
  <2>5. CopyInv'
    BY <1>1, <2>1, <2>3 DEF CopyInv, Attesting, BundleHolds
  <2>6. HostShape' /\ HadInv'
    BY <1>1, <2>1 DEF HostShape, HadInv
  <2> QED  BY <2>1, <2>2, <2>3, <2>4, <2>5, <2>6 DEF ProgramInv, Onwards, Attesting
<1> QED  BY <1>3, <1>4, <1>5, <1>6, <1>7 DEF MakeCopy

\* What is launched is what was asked; and a copy is changed when it is not held yet.
LEMMA LaunchKeeps ==
  ASSUME ProgramInv, Launch \/ SpoilCopy
  PROVE  ProgramInv' /\ Onwards
<1>1. /\ HostShape /\ ProgShape /\ HadInv /\ ReadInv /\ CopyInv
  BY DEF ProgramInv
<1>2. CASE Launch
  <2>1. /\ host' = host /\ had' = had /\ prog.at = "idle" /\ BundleHolds
        /\ prog' = [prog EXCEPT !.launched = TRUE]
    BY <1>2 DEF Launch, Reading
  <2>2. ProgShape'
    BY <1>1, <2>1 DEF ProgShape
  <2>3. /\ prog'.at = prog.at /\ prog'.file = prog.file /\ prog'.read = prog.read
        /\ prog'.stamp = prog.stamp /\ prog'.use = prog.use
        /\ prog'.copied = prog.copied /\ prog'.copy = prog.copy
        /\ prog'.version = prog.version /\ prog'.digest = prog.digest
    BY <1>1, <2>1 DEF ProgShape
  <2>4. ReadInv'
    BY <1>1, <2>1, <2>3 DEF ReadInv, Fresh
  <2>5. CopyInv'
    BY <1>1, <2>1, <2>3 DEF CopyInv, Attesting, BundleHolds
  <2>6. HostShape' /\ HadInv'
    BY <1>1, <2>1 DEF HostShape, HadInv
  <2> QED  BY <2>1, <2>2, <2>3, <2>4, <2>5, <2>6 DEF ProgramInv, Onwards, Attesting, BundleHolds
<1>3. CASE SpoilCopy
  <2>1. /\ host' = host /\ had' = had /\ prog.at \in {"ready", "idle"} /\ BundleHolds
        /\ ~prog.launched /\ prog' = [prog EXCEPT !.copy = <<0, 0>>]
    BY <1>3 DEF SpoilCopy, Reading
  <2>2. ProgShape'
    BY <1>1, <2>1 DEF ProgShape
  <2>3. /\ prog'.at = prog.at /\ prog'.file = prog.file /\ prog'.read = prog.read
        /\ prog'.stamp = prog.stamp /\ prog'.use = prog.use
        /\ prog'.copied = prog.copied /\ prog'.copy = <<0, 0>>
        /\ prog'.version = prog.version /\ prog'.digest = prog.digest
        /\ prog'.launched = prog.launched
    BY <1>1, <2>1 DEF ProgShape
  <2>4. ReadInv'
    BY <1>1, <2>1, <2>3 DEF ReadInv, Fresh
  <2>5. CopyInv'
    BY <1>1, <2>1, <2>3 DEF CopyInv, Attesting, BundleHolds
  <2>6. HostShape' /\ HadInv'
    BY <1>1, <2>1 DEF HostShape, HadInv
  <2> QED  BY <2>1, <2>2, <2>3, <2>4, <2>5, <2>6 DEF ProgramInv, Onwards, Attesting, BundleHolds
<1> QED  BY <1>2, <1>3

\* Every step of the program.
ProgramStep == Update \/ Attest \/ MakeCopy \/ Launch \/ SpoilCopy

\* A program that was attested is that program from then on.
LEMMA ProgramKeeps ==
  ASSUME ProgramInv, ProgramStep
  PROVE  ProgramInv' /\ Onwards
<1>1. CASE Update
  BY <1>1, UpdateKeeps DEF Onwards, BundleHolds
<1> QED  BY <1>1, AttestKeeps, BundleKeeps, LaunchKeeps DEF ProgramStep

\* At first nothing has been read.
LEMMA ProgramStarts ==
  ASSUME ProgramInit
  PROVE  ProgramInv
<1> DEFINE first == [bytes |-> <<1, 1>>, stamp |-> 0]
<1>1. /\ host = [path |-> 1, files |-> <<first>>, half |-> FALSE, updates |-> 0]
      /\ had = {<<1, 1>>}
  BY DEF ProgramInit, HostInit
<1>2. first \in [bytes : Half, stamp : Nat] /\ first.bytes = <<1, 1>>
  BY DEF Half
<1> HIDE DEF first
<1>3. /\ <<first>> \in Seq([bytes : Half, stamp : Nat]) /\ DOMAIN <<first>> = {1}
      /\ <<first>>[1] = first
  BY <1>2
<1>4. HostShape /\ HadInv
  BY <1>1, <1>2, <1>3 DEF HostShape, HadInv
<1>5. PICK use \in {"bundle", "held"} : prog = [Nobody EXCEPT !.use = use]
  BY DEF ProgramInit
<1>6. /\ ProgShape /\ prog.at = "open" /\ prog.read = <<>> /\ prog.copied = <<>>
      /\ prog.copy = <<>> /\ prog.launched = FALSE
  BY <1>5 DEF ProgShape, Nobody
<1>7. ReadInv
  BY <1>6 DEF ReadInv
<1>8. CopyInv
  BY <1>6 DEF CopyInv, Attesting
<1> QED  BY <1>4, <1>6, <1>7, <1>8 DEF ProgramInv

\* The invariant says what a run needs of its programs.
LEMMA ProgramFollows ==
  ASSUME ProgramInv
  PROVE  RunsOneProgram
  BY DEF ProgramInv, ProgShape, CopyInv, RunsOneProgram, Attesting, BundleHolds

-----------------------------------------------------------------------------
(* The trees of an arm *)

\* A copy is read as what was copied, but for caches that are left out already.
LEMMA CopyReads ==
  ASSUME NEW t, NEW f, NEW g, g.caches => f.caches
  PROVE  ReadTree(CopyTree(t, f), g) = ReadTree(t, f)
<1> DEFINE states == ReadTree(t, f)
           copy == CopyTree(t, f)
<1>1. DOMAIN states = Kept(t, f) /\ Kept(t, f) \subseteq Bundle
  BY DEF ReadTree, Kept, Visited, Present
<1>2. copy.node = [p \in Paths |-> IF p \in DOMAIN states
                        THEN File(states[p].content, states[p].exec) ELSE Absent]
  BY DEF CopyTree, Materialize, Tree
<1>3. \A p \in Kept(t, f) :
        /\ p \in Paths /\ states[p] = State(t.node[p])
        /\ copy.node[p] = File(states[p].content, states[p].exec) /\ copy.node[p] # Absent
        /\ State(copy.node[p]) = states[p]
  <2> SUFFICES ASSUME NEW p \in Kept(t, f)
               PROVE  /\ p \in Paths /\ states[p] = State(t.node[p])
                      /\ copy.node[p] = File(states[p].content, states[p].exec)
                      /\ copy.node[p] # Absent /\ State(copy.node[p]) = states[p]
    OBVIOUS
  <2>1. p \in Paths /\ states[p] = State(t.node[p])
    BY <1>1 DEF Paths, ReadTree
  <2>2. copy.node[p] = File(states[p].content, states[p].exec)
    BY <1>1, <1>2, <2>1
  <2> HIDE DEF states, copy
  <2>3. copy.node[p] # Absent
    <3>1. copy.node[p].type = "file" /\ Absent.type = "absent"
      BY <2>2 DEF File, Absent
    <3> QED  BY <3>1
  <2>4. State(copy.node[p]) = states[p]
    BY <2>1, <2>2 DEF State, File
  <2> QED  BY <2>1, <2>2, <2>3, <2>4
<1>4. \A p \in Bundle \ Kept(t, f) : copy.node[p] = Absent
  BY <1>1, <1>2 DEF Paths
<1>5. Present(copy) = Kept(t, f)
  BY <1>1, <1>3, <1>4 DEF Present
<1>6. Kept(copy, g) = Kept(t, f)
  BY <1>5 DEF Kept, Visited
<1> HIDE DEF copy
<1>7. ReadTree(copy, g) = [p \in Kept(t, f) |-> State(copy.node[p])]
  BY <1>6 DEF ReadTree
<1>8. states = [p \in Kept(t, f) |-> states[p]]
  BY <1>1 DEF ReadTree
<1> QED  BY <1>3, <1>7, <1>8 DEF copy

-----------------------------------------------------------------------------
(* The steps of the arm and its verifier *)

\* Nothing of the program.
LEMMA ProgramRests ==
  ASSUME ProgramInv, UNCHANGED programVars
  PROVE  ProgramInv' /\ Onwards /\ (BundleHolds' <=> BundleHolds)
<1>1. host' = host /\ had' = had /\ prog' = prog
  BY DEF programVars
<1>2. HostShape' /\ HadInv'
  BY <1>1 DEF ProgramInv, HostShape, HadInv
<1>3. ProgShape'
  BY <1>1 DEF ProgramInv, ProgShape
<1>4. ReadInv' /\ CopyInv'
  BY <1>1 DEF ProgramInv, ReadInv, CopyInv, Fresh, BundleHolds
<1> QED  BY <1>1, <1>2, <1>3, <1>4 DEF ProgramInv, Onwards, BundleHolds

\* While the program goes on, the arm and its verifier have what they had.
LEMMA BesideKeeps ==
  ASSUME CellInv, ProgramStep, Elsewhere
  PROVE  CellInv'
<1>1. ProgramInv' /\ Onwards
  BY ProgramKeeps DEF CellInv
<1>2. current' = current /\ cell' = cell /\ unit' = unit
  BY DEF Elsewhere
<1>3. CellShape'
  BY <1>2 DEF CellInv, CellShape
<1>4. CaseInv'
  BY <1>1, <1>2 DEF CellInv, CaseInv, Onwards, Fixture
<1>5. ArtifactInv'
  BY <1>2 DEF CellInv, ArtifactInv, Shows, Before
<1>6. UnitInv'
  <2>1. cell.at \in Ran => /\ prog.at \in {"ready", "idle"} /\ prog'.at \in {"ready", "idle"}
                           /\ prog'.digest = prog.digest /\ (BundleHolds' => BundleHolds)
    BY <1>1 DEF CellInv, UnitInv, Onwards, Attesting
  <2> QED  BY <1>2, <2>1 DEF CellInv, UnitInv
<1>7. VerdictInv'
  <2>1. cell.at \in Ran => prog'.digest = prog.digest
    BY <1>1 DEF CellInv, UnitInv, Onwards, Attesting
  <2> QED  BY <1>2, <2>1 DEF CellInv, VerdictInv, Ran
<1> QED  BY <1>1, <1>3, <1>4, <1>5, <1>6, <1>7 DEF CellInv

\* An edit of the case makes a version no arm has begun with.
LEMMA EditCaseKeeps ==
  ASSUME CellInv, EditCase
  PROVE  CellInv'
<1>1. /\ UNCHANGED programVars /\ current' = current + 1 /\ cell' = cell /\ unit' = unit
      /\ prog' = prog
  BY DEF EditCase, programVars
<1>2. ProgramInv' /\ (BundleHolds' <=> BundleHolds)
  BY <1>1, ProgramRests DEF CellInv
<1>3. CellShape' /\ current \in Nat /\ cell.case \in Nat
  BY <1>1 DEF CellInv, CellShape
<1>4. CaseInv'
  BY <1>1, <1>3 DEF CellInv, CaseInv, Fixture
<1>5. ArtifactInv'
  BY <1>1 DEF CellInv, ArtifactInv, Shows, Before
<1>6. UnitInv' /\ VerdictInv'
  BY <1>1, <1>2 DEF CellInv, UnitInv, VerdictInv
<1> QED  BY <1>2, <1>3, <1>4, <1>5, <1>6 DEF CellInv

\* What is spoilt was what the arm has given, and stays spoilt.
LEMMA SpoilArtifactKeeps ==
  ASSUME CellInv, SpoilArtifact
  PROVE  CellInv'
<1>1. /\ UNCHANGED programVars /\ prog' = prog /\ current' = current
      /\ cell' = cell
      /\ unit' = [unit EXCEPT !.artifact = Spoilt]
      /\ cell.at \in {"unit", "judged"} /\ unit.artifact # Spoilt
  BY DEF SpoilArtifact, programVars
<1>2. ProgramInv' /\ (BundleHolds' <=> BundleHolds)
  BY <1>1, ProgramRests DEF CellInv
<1>3. CellShape /\ CaseInv /\ ArtifactInv /\ UnitInv /\ VerdictInv /\ ProgramInv
  BY DEF CellInv
<1>4. /\ unit'.state = unit.state /\ unit'.client = unit.client /\ unit'.exit = unit.exit
      /\ unit'.answer = unit.answer /\ unit'.case = unit.case /\ unit'.work = unit.work
      /\ unit'.artifact = Spoilt /\ unit'.saw = unit.saw
  BY <1>1, <1>3 DEF CellShape
<1>5. CellShape'
  BY <1>1, <1>3, <1>4 DEF CellShape
<1>6. CaseInv'
  BY <1>1, <1>3, <1>4 DEF CaseInv, Fixture, Ran, Looked
<1>7. ArtifactInv'
  BY <1>1, <1>3, <1>4 DEF ArtifactInv, Shows, Before, Ran, Looked
<1>8. UnitInv'
  BY <1>1, <1>2, <1>3, <1>4 DEF UnitInv, Ran, Looked
<1>9. VerdictInv'
  BY <1>1, <1>2, <1>3, <1>4 DEF VerdictInv, Ran, Looked
<1> QED  BY <1>2, <1>5, <1>6, <1>7, <1>8, <1>9 DEF CellInv

\* The case is taken as it is, from a program that is attested.
LEMMA SnapshotCaseKeeps ==
  ASSUME CellInv, SnapshotCase
  PROVE  CellInv'
<1>1. /\ UNCHANGED programVars /\ prog' = prog /\ current' = current
      /\ cell' = [cell EXCEPT !.at = "fixture", !.case = current]
      /\ unit' = unit
      /\ cell.at = "preflight" /\ prog.at = "attested" /\ prog.use = "bundle"
  BY DEF SnapshotCase, programVars, Step
<1>2. ProgramInv' /\ (BundleHolds' <=> BundleHolds)
  BY <1>1, ProgramRests DEF CellInv
<1>3. CellShape /\ CaseInv /\ ArtifactInv /\ UnitInv /\ VerdictInv /\ ProgramInv
  BY DEF CellInv
<1>4. /\ cell'.at = "fixture" /\ cell'.kind = cell.kind /\ cell'.case = current
      /\ cell'.before = cell.before /\ cell'.work = cell.work /\ cell'.output = cell.output
      /\ cell'.artifact = cell.artifact /\ cell'.verdict = cell.verdict
      /\ cell'.drift = cell.drift
  BY <1>1, <1>3 DEF CellShape
<1>5. CellShape'
  BY <1>1, <1>3, <1>4 DEF CellShape
<1>6. CaseInv'
  <2>1. current <= current
    BY <1>3 DEF CellShape
  <2> QED  BY <1>1, <1>3, <1>4, <2>1 DEF CaseInv, Fixture, Ran, Looked, Attesting
<1>7. ArtifactInv'
  BY <1>1, <1>3, <1>4 DEF ArtifactInv, Shows, Before, Ran, Looked
<1>8. UnitInv'
  BY <1>1, <1>2, <1>3, <1>4 DEF UnitInv, Ran, Looked
<1>9. VerdictInv'
  BY <1>1, <1>2, <1>3, <1>4 DEF VerdictInv, Ran, Looked
<1> QED  BY <1>2, <1>5, <1>6, <1>7, <1>8, <1>9 DEF CellInv

\* The fixture that is copied is that of now.
LEMMA CopyFixtureTreeKeeps ==
  ASSUME CellInv, CopyFixtureTree
  PROVE  CellInv'
<1>1. /\ UNCHANGED programVars /\ prog' = prog /\ current' = current
      /\ cell' = [cell EXCEPT !.at = "agent", !.before = Fixture(current)]
      /\ unit' = unit
      /\ cell.at = "fixture"
  BY DEF CopyFixtureTree, programVars, Step
<1>2. ProgramInv' /\ (BundleHolds' <=> BundleHolds)
  BY <1>1, ProgramRests DEF CellInv
<1>3. CellShape /\ CaseInv /\ ArtifactInv /\ UnitInv /\ VerdictInv /\ ProgramInv
  BY DEF CellInv
<1>4. /\ cell'.at = "agent" /\ cell'.kind = cell.kind /\ cell'.case = cell.case
      /\ cell'.before = Fixture(current) /\ cell'.work = cell.work
      /\ cell'.output = cell.output /\ cell'.artifact = cell.artifact
      /\ cell'.verdict = cell.verdict /\ cell'.drift = cell.drift
  BY <1>1, <1>3 DEF CellShape
<1>5. CellShape'
  BY <1>1, <1>3, <1>4 DEF CellShape
<1>6. CaseInv'
  BY <1>1, <1>3, <1>4 DEF CaseInv, Fixture, Ran, Looked
<1>7. ArtifactInv'
  BY <1>1, <1>3, <1>4 DEF ArtifactInv, Shows, Before, Ran, Looked
<1>8. UnitInv'
  BY <1>1, <1>2, <1>3, <1>4 DEF UnitInv, Ran, Looked
<1>9. VerdictInv'
  BY <1>1, <1>2, <1>3, <1>4 DEF VerdictInv, Ran, Looked
<1> QED  BY <1>2, <1>5, <1>6, <1>7, <1>8, <1>9 DEF CellInv

\* The agent leaves the fixture before it as it was.
LEMMA AgentAnswersKeeps ==
  ASSUME CellInv, AgentAnswers
  PROVE  CellInv'
<1>0. PICK a \in Answers :
        Step("agent", [cell EXCEPT !.at = "scan", !.output = a.output, !.work = a.work])
        /\ UNCHANGED unit
  BY DEF AgentAnswers
<1>1. /\ UNCHANGED programVars /\ prog' = prog /\ current' = current
      /\ cell' = [cell EXCEPT !.at = "scan", !.output = a.output, !.work = a.work]
      /\ unit' = unit
      /\ cell.at = "agent"
  BY <1>0 DEF Step, programVars
<1>2. ProgramInv' /\ (BundleHolds' <=> BundleHolds)
  BY <1>1, ProgramRests DEF CellInv
<1>3. CellShape /\ CaseInv /\ ArtifactInv /\ UnitInv /\ VerdictInv /\ ProgramInv
  BY DEF CellInv
<1>4. /\ cell'.at = "scan" /\ cell'.kind = cell.kind /\ cell'.case = cell.case
      /\ cell'.before = cell.before /\ cell'.work = a.work /\ cell'.output = a.output
      /\ cell'.artifact = cell.artifact /\ cell'.verdict = cell.verdict
      /\ cell'.drift = cell.drift
  BY <1>1, <1>3 DEF CellShape
<1>5. CellShape'
  BY <1>1, <1>3, <1>4 DEF CellShape
<1>6. CaseInv'
  BY <1>1, <1>3, <1>4 DEF CaseInv, Fixture, Ran, Looked
<1>7. ArtifactInv'
  BY <1>1, <1>3, <1>4 DEF ArtifactInv, Shows, Before, Ran, Looked
<1>8. UnitInv'
  BY <1>1, <1>2, <1>3, <1>4 DEF UnitInv, Ran, Looked
<1>9. VerdictInv'
  BY <1>1, <1>2, <1>3, <1>4 DEF VerdictInv, Ran, Looked
<1> QED  BY <1>2, <1>5, <1>6, <1>7, <1>8, <1>9 DEF CellInv

\* The artifact is the patch to the tree the agent has left.
LEMMA ScanWorkspaceKeeps ==
  ASSUME CellInv, ScanWorkspace
  PROVE  CellInv'
<1>1. /\ UNCHANGED programVars /\ prog' = prog /\ current' = current
      /\ cell' = [cell EXCEPT !.at = "check", !.artifact = Artifact]
      /\ unit' = unit
      /\ cell.at = "scan"
  BY DEF ScanWorkspace, programVars, Step
<1>2. ProgramInv' /\ (BundleHolds' <=> BundleHolds)
  BY <1>1, ProgramRests DEF CellInv
<1>3. CellShape /\ CaseInv /\ ArtifactInv /\ UnitInv /\ VerdictInv /\ ProgramInv
  BY DEF CellInv
<1>4. /\ cell'.at = "check" /\ cell'.kind = cell.kind /\ cell'.case = cell.case
      /\ cell'.before = cell.before /\ cell'.work = cell.work /\ cell'.output = cell.output
      /\ cell'.artifact = Artifact /\ cell'.verdict = cell.verdict /\ cell'.drift = cell.drift
  BY <1>1, <1>3 DEF CellShape
<1>5. CellShape'
  BY <1>1, <1>3, <1>4 DEF CellShape
<1>6. CaseInv'
  BY <1>1, <1>3, <1>4 DEF CaseInv, Fixture, Ran, Looked
<1>7. ArtifactInv'
  BY <1>1, <1>3, <1>4 DEF ArtifactInv, Shows, Before, Artifact, Ran, Looked
<1>8. UnitInv'
  BY <1>1, <1>2, <1>3, <1>4 DEF UnitInv, Ran, Looked
<1>9. VerdictInv'
  BY <1>1, <1>2, <1>3, <1>4 DEF VerdictInv, Ran, Looked
<1> QED  BY <1>2, <1>5, <1>6, <1>7, <1>8, <1>9 DEF CellInv

\* The case has not changed: so the fixture was that of the preflight.
LEMMA CheckCaseKeeps ==
  ASSUME CellInv, CheckCase
  PROVE  CellInv'
<1>1. /\ UNCHANGED programVars /\ prog' = prog /\ current' = current
      /\ cell' = [cell EXCEPT !.at = "workspace"]
      /\ unit' = unit
      /\ cell.at = "check" /\ current = cell.case
  BY DEF CheckCase, programVars, Step
<1>2. ProgramInv' /\ (BundleHolds' <=> BundleHolds)
  BY <1>1, ProgramRests DEF CellInv
<1>3. CellShape /\ CaseInv /\ ArtifactInv /\ UnitInv /\ VerdictInv /\ ProgramInv
  BY DEF CellInv
<1>4. /\ cell'.at = "workspace" /\ cell'.kind = cell.kind /\ cell'.case = cell.case
      /\ cell'.before = cell.before /\ cell'.work = cell.work /\ cell'.output = cell.output
      /\ cell'.artifact = cell.artifact /\ cell'.verdict = cell.verdict
      /\ cell'.drift = cell.drift
  BY <1>1, <1>3 DEF CellShape
<1>5. CellShape'
  BY <1>1, <1>3, <1>4 DEF CellShape
<1>6. CaseInv'
  BY <1>1, <1>3, <1>4 DEF CaseInv, Fixture, Ran, Looked
<1>7. ArtifactInv'
  BY <1>1, <1>3, <1>4 DEF ArtifactInv, Shows, Before, Ran, Looked
<1>8. UnitInv'
  BY <1>1, <1>2, <1>3, <1>4 DEF UnitInv, Ran, Looked
<1>9. VerdictInv'
  BY <1>1, <1>2, <1>3, <1>4 DEF VerdictInv, Ran, Looked
<1> QED  BY <1>2, <1>5, <1>6, <1>7, <1>8, <1>9 DEF CellInv

\* The copy for the verifier has the tree of the artifact, without its caches.
LEMMA CopyWorkspaceKeeps ==
  ASSUME CellInv, CopyWorkspace
  PROVE  CellInv'
<1>1. /\ UNCHANGED programVars /\ prog' = prog /\ current' = current
      /\ cell' = [cell EXCEPT !.at = "runtime", !.work = Workspace]
      /\ unit' = unit
      /\ cell.at = "workspace"
  BY DEF CopyWorkspace, programVars, Step
<1>2. ProgramInv' /\ (BundleHolds' <=> BundleHolds)
  BY <1>1, ProgramRests DEF CellInv
<1>3. CellShape /\ CaseInv /\ ArtifactInv /\ UnitInv /\ VerdictInv /\ ProgramInv
  BY DEF CellInv
<1>a. ReadTree(CopyTree(cell.work, Cacheless), Raw) = ReadTree(cell.work, Cacheless)
  BY CopyReads DEF Cacheless, Raw
<1>4. /\ cell'.at = "runtime" /\ cell'.kind = cell.kind /\ cell'.case = cell.case
      /\ cell'.before = cell.before /\ cell'.work = Workspace /\ cell'.output = cell.output
      /\ cell'.artifact = cell.artifact /\ cell'.verdict = cell.verdict
      /\ cell'.drift = cell.drift
  BY <1>1, <1>3 DEF CellShape
<1>5. CellShape'
  BY <1>1, <1>3, <1>4 DEF CellShape
<1>6. CaseInv'
  BY <1>1, <1>3, <1>4 DEF CaseInv, Fixture, Ran, Looked
<1>7. ArtifactInv'
  BY <1>1, <1>3, <1>4, <1>a DEF ArtifactInv, Shows, Before, Workspace, Ran, Looked
<1>8. UnitInv'
  BY <1>1, <1>2, <1>3, <1>4 DEF UnitInv, Ran, Looked
<1>9. VerdictInv'
  BY <1>1, <1>2, <1>3, <1>4 DEF VerdictInv, Ran, Looked
<1> QED  BY <1>2, <1>5, <1>6, <1>7, <1>8, <1>9 DEF CellInv

\* The unit is given the tree of the artifact, the artifact and the case.
LEMMA MakeRuntimeKeeps ==
  ASSUME CellInv, MakeRuntime
  PROVE  CellInv'
<1>1. /\ UNCHANGED programVars /\ prog' = prog /\ current' = current
      /\ cell' = [cell EXCEPT !.at = "bundle"]
      /\ unit' = [unit EXCEPT !.work = CopyTree(cell.work, Raw), !.case = cell.case, !.artifact = cell.artifact]
      /\ cell.at = "runtime"
  BY DEF MakeRuntime, programVars, Step
<1>2. ProgramInv' /\ (BundleHolds' <=> BundleHolds)
  BY <1>1, ProgramRests DEF CellInv
<1>3. CellShape /\ CaseInv /\ ArtifactInv /\ UnitInv /\ VerdictInv /\ ProgramInv
  BY DEF CellInv
<1>a. ReadTree(CopyTree(cell.work, Raw), Raw) = ReadTree(cell.work, Raw)
  BY CopyReads DEF Raw
<1>b. unit.saw = <<>>
  BY <1>1, <1>3 DEF UnitInv, Ran
<1>4. /\ cell'.at = "bundle" /\ cell'.kind = cell.kind /\ cell'.case = cell.case
      /\ cell'.before = cell.before /\ cell'.work = cell.work /\ cell'.output = cell.output
      /\ cell'.artifact = cell.artifact /\ cell'.verdict = cell.verdict
      /\ cell'.drift = cell.drift /\ unit'.state = unit.state /\ unit'.client = unit.client
      /\ unit'.exit = unit.exit /\ unit'.answer = unit.answer /\ unit'.case = cell.case
      /\ unit'.work = CopyTree(cell.work, Raw) /\ unit'.artifact = cell.artifact
      /\ unit'.saw = unit.saw
  BY <1>1, <1>3 DEF CellShape
<1>5. CellShape'
  BY <1>1, <1>3, <1>4 DEF CellShape
<1>6. CaseInv'
  BY <1>1, <1>3, <1>4 DEF CaseInv, Fixture, Ran, Looked
<1>7. ArtifactInv'
  BY <1>1, <1>3, <1>4, <1>a, <1>b DEF ArtifactInv, Shows, Before, Ran, Looked
<1>8. UnitInv'
  BY <1>1, <1>2, <1>3, <1>4 DEF UnitInv, Ran, Looked
<1>9. VerdictInv'
  BY <1>1, <1>2, <1>3, <1>4 DEF VerdictInv, Ran, Looked
<1> QED  BY <1>2, <1>5, <1>6, <1>7, <1>8, <1>9 DEF CellInv

\* The unit is started when the bundle is ready.
LEMMA StartUnitKeeps ==
  ASSUME CellInv, StartUnit
  PROVE  CellInv'
<1>1. /\ UNCHANGED programVars /\ prog' = prog /\ current' = current
      /\ cell' = [cell EXCEPT !.at = "unit"]
      /\ unit' = [unit EXCEPT !.state = "running", !.client = "waiting"]
      /\ cell.at = "bundle" /\ prog.at = "ready"
  BY DEF StartUnit, programVars, Step
<1>2. ProgramInv' /\ (BundleHolds' <=> BundleHolds)
  BY <1>1, ProgramRests DEF CellInv
<1>3. CellShape /\ CaseInv /\ ArtifactInv /\ UnitInv /\ VerdictInv /\ ProgramInv
  BY DEF CellInv
<1>4. /\ cell'.at = "unit" /\ cell'.kind = cell.kind /\ cell'.case = cell.case
      /\ cell'.before = cell.before /\ cell'.work = cell.work /\ cell'.output = cell.output
      /\ cell'.artifact = cell.artifact /\ cell'.verdict = cell.verdict
      /\ cell'.drift = cell.drift /\ unit'.state = "running" /\ unit'.client = "waiting"
      /\ unit'.exit = unit.exit /\ unit'.answer = unit.answer /\ unit'.case = unit.case
      /\ unit'.work = unit.work /\ unit'.artifact = unit.artifact /\ unit'.saw = unit.saw
  BY <1>1, <1>3 DEF CellShape
<1>5. CellShape'
  BY <1>1, <1>3, <1>4 DEF CellShape
<1>6. CaseInv'
  BY <1>1, <1>3, <1>4 DEF CaseInv, Fixture, Ran, Looked
<1>7. ArtifactInv'
  BY <1>1, <1>3, <1>4 DEF ArtifactInv, Shows, Before, Ran, Looked
<1>8. UnitInv'
  BY <1>1, <1>2, <1>3, <1>4 DEF UnitInv, Ran, Looked
<1>9. VerdictInv'
  BY <1>1, <1>2, <1>3, <1>4 DEF VerdictInv, Ran, Looked
<1> QED  BY <1>2, <1>5, <1>6, <1>7, <1>8, <1>9 DEF CellInv

\* The client returns when the unit is over.
LEMMA ClientReturnsKeeps ==
  ASSUME CellInv, ClientReturns
  PROVE  CellInv'
<1>1. /\ UNCHANGED programVars /\ prog' = prog /\ current' = current
      /\ cell' = [cell EXCEPT !.at = "judged"]
      /\ unit' = [unit EXCEPT !.client = "returned"]
      /\ cell.at = "unit" /\ unit.state = "over"
  BY DEF ClientReturns, programVars
<1>2. ProgramInv' /\ (BundleHolds' <=> BundleHolds)
  BY <1>1, ProgramRests DEF CellInv
<1>3. CellShape /\ CaseInv /\ ArtifactInv /\ UnitInv /\ VerdictInv /\ ProgramInv
  BY DEF CellInv
<1>4. /\ cell'.at = "judged" /\ cell'.kind = cell.kind /\ cell'.case = cell.case
      /\ cell'.before = cell.before /\ cell'.work = cell.work /\ cell'.output = cell.output
      /\ cell'.artifact = cell.artifact /\ cell'.verdict = cell.verdict
      /\ cell'.drift = cell.drift /\ unit'.state = unit.state /\ unit'.client = "returned"
      /\ unit'.exit = unit.exit /\ unit'.answer = unit.answer /\ unit'.case = unit.case
      /\ unit'.work = unit.work /\ unit'.artifact = unit.artifact /\ unit'.saw = unit.saw
  BY <1>1, <1>3 DEF CellShape
<1>5. CellShape'
  BY <1>1, <1>3, <1>4 DEF CellShape
<1>6. CaseInv'
  BY <1>1, <1>3, <1>4 DEF CaseInv, Fixture, Ran, Looked
<1>7. ArtifactInv'
  BY <1>1, <1>3, <1>4 DEF ArtifactInv, Shows, Before, Ran, Looked
<1>8. UnitInv'
  BY <1>1, <1>2, <1>3, <1>4 DEF UnitInv, Ran, Looked
<1>9. VerdictInv'
  BY <1>1, <1>2, <1>3, <1>4 DEF VerdictInv, Ran, Looked
<1> QED  BY <1>2, <1>5, <1>6, <1>7, <1>8, <1>9 DEF CellInv

\* A verdict that is taken was given by the program that was attested.
LEMMA TakeVerdictKeeps ==
  ASSUME CellInv, TakeVerdict
  PROVE  CellInv'
<1>1. /\ UNCHANGED programVars /\ prog' = prog /\ current' = current
      /\ cell' = [cell EXCEPT !.at = "finally", !.verdict = IF unit.exit # 0 THEN "error" ELSE unit.answer]
      /\ unit' = unit
      /\ cell.at = "judged" /\ BundleHolds
  BY DEF TakeVerdict, programVars, Step
<1>2. ProgramInv' /\ (BundleHolds' <=> BundleHolds)
  BY <1>1, ProgramRests DEF CellInv
<1>3. CellShape /\ CaseInv /\ ArtifactInv /\ UnitInv /\ VerdictInv /\ ProgramInv
  BY DEF CellInv
<1>4. /\ cell'.at = "finally" /\ cell'.kind = cell.kind /\ cell'.case = cell.case
      /\ cell'.before = cell.before /\ cell'.work = cell.work /\ cell'.output = cell.output
      /\ cell'.artifact = cell.artifact
      /\ cell'.verdict = IF unit.exit # 0 THEN "error" ELSE unit.answer
      /\ cell'.drift = cell.drift
  BY <1>1, <1>3 DEF CellShape
<1>5. CellShape'
  BY <1>1, <1>3, <1>4 DEF CellShape
<1>6. CaseInv'
  BY <1>1, <1>3, <1>4 DEF CaseInv, Fixture, Ran, Looked
<1>7. ArtifactInv'
  BY <1>1, <1>3, <1>4 DEF ArtifactInv, Shows, Before, Ran, Looked
<1>8. UnitInv'
  BY <1>1, <1>2, <1>3, <1>4 DEF UnitInv, Ran, Looked
<1>9. VerdictInv'
  BY <1>1, <1>2, <1>3, <1>4 DEF VerdictInv, UnitInv, Ran, Looked
<1> QED  BY <1>2, <1>5, <1>6, <1>7, <1>8, <1>9 DEF CellInv

\* The artifact is compared when nobody can change it any more.
LEMMA RestoreKeeps ==
  ASSUME CellInv, Restore
  PROVE  CellInv'
<1>1. /\ UNCHANGED programVars /\ prog' = prog /\ current' = current
      /\ cell' = [cell EXCEPT !.at = "after", !.work = unit.work, !.drift = ~ArtifactHolds, !.verdict = IF cell.at = "judged" THEN "raised" ELSE cell.verdict]
      /\ unit' = unit
      /\ cell.at \in {"judged", "finally"}
  BY DEF Restore, programVars
<1>2. ProgramInv' /\ (BundleHolds' <=> BundleHolds)
  BY <1>1, ProgramRests DEF CellInv
<1>3. CellShape /\ CaseInv /\ ArtifactInv /\ UnitInv /\ VerdictInv /\ ProgramInv
  BY DEF CellInv
<1>4. /\ cell'.at = "after" /\ cell'.kind = cell.kind /\ cell'.case = cell.case
      /\ cell'.before = cell.before /\ cell'.work = unit.work /\ cell'.output = cell.output
      /\ cell'.artifact = cell.artifact
      /\ cell'.verdict = IF cell.at = "judged" THEN "raised" ELSE cell.verdict
      /\ cell'.drift = ~ArtifactHolds
  BY <1>1, <1>3 DEF CellShape
<1>5. CellShape'
  <2>1. cell' = [at |-> "after", kind |-> cell.kind, case |-> cell.case,
                 before |-> cell.before, work |-> unit.work, output |-> cell.output,
                 artifact |-> cell.artifact, verdict |-> cell'.verdict, drift |-> ~ArtifactHolds]
    BY <1>1, <1>3, <1>4 DEF CellShape
  <2>2. cell.kind \in Kinds /\ cell.case \in Nat
    BY <1>3 DEF CellShape
  <2>3. (~ArtifactHolds) \in BOOLEAN
    OBVIOUS
  <2>4. current' \in Nat /\ unit' = unit
    BY <1>1, <1>3 DEF CellShape
  <2>5. cell' \in [at : {"preflight", "fixture", "agent", "scan", "check", "workspace", "runtime",
                      "bundle", "unit", "judged", "finally", "after", "completed", "error"},
                kind : Kinds, case : Nat, before : {cell'.before}, work : {cell'.work},
                output : {cell'.output}, artifact : {cell'.artifact}, verdict : {cell'.verdict},
                drift : BOOLEAN]
    <3> DEFINE drift == ~ArtifactHolds
    <3> HIDE DEF drift
    <3> QED  BY <1>4, <2>1, <2>2, <2>3 DEF drift
  <2> QED  BY <1>3, <2>4, <2>5 DEF CellShape
<1>6. CaseInv'
  BY <1>1, <1>3, <1>4 DEF CaseInv, Fixture, Ran, Looked
<1>7. ArtifactInv'
  BY <1>1, <1>3, <1>4 DEF ArtifactInv, Shows, Before, Ran, Looked
<1>8. UnitInv'
  BY <1>1, <1>2, <1>3, <1>4 DEF UnitInv, Ran, Looked
<1>9. VerdictInv'
  <2>1. cell'.verdict = "valid" => cell.at = "finally" /\ cell.verdict = "valid"
    BY <1>1, <1>4
  <2>2. ~cell'.drift => unit.artifact = cell.artifact
    BY <1>4, Zenon DEF ArtifactHolds
  <2> QED  BY <1>1, <1>3, <1>4, <2>1, <2>2 DEF VerdictInv, Ran, Looked
<1> QED  BY <1>2, <1>5, <1>6, <1>7, <1>8, <1>9 DEF CellInv

\* A verdict counts when nothing has drifted.
LEMMA CountKeeps ==
  ASSUME CellInv, Count
  PROVE  CellInv'
<1>1. /\ UNCHANGED programVars /\ prog' = prog /\ current' = current
      /\ cell' = [cell EXCEPT !.at = "completed"]
      /\ unit' = unit
      /\ cell.at = "after" /\ ~cell.drift /\ cell.verdict = "valid"
  BY DEF Count, programVars, Step
<1>2. ProgramInv' /\ (BundleHolds' <=> BundleHolds)
  BY <1>1, ProgramRests DEF CellInv
<1>3. CellShape /\ CaseInv /\ ArtifactInv /\ UnitInv /\ VerdictInv /\ ProgramInv
  BY DEF CellInv
<1>4. /\ cell'.at = "completed" /\ cell'.kind = cell.kind /\ cell'.case = cell.case
      /\ cell'.before = cell.before /\ cell'.work = cell.work /\ cell'.output = cell.output
      /\ cell'.artifact = cell.artifact /\ cell'.verdict = cell.verdict
      /\ cell'.drift = cell.drift
  BY <1>1, <1>3 DEF CellShape
<1>5. CellShape'
  BY <1>1, <1>3, <1>4 DEF CellShape
<1>6. CaseInv'
  BY <1>1, <1>3, <1>4 DEF CaseInv, Fixture, Ran, Looked
<1>7. ArtifactInv'
  BY <1>1, <1>3, <1>4 DEF ArtifactInv, Shows, Before, Ran, Looked
<1>8. UnitInv'
  BY <1>1, <1>2, <1>3, <1>4 DEF UnitInv, Ran, Looked
<1>9. VerdictInv'
  BY <1>1, <1>2, <1>3, <1>4 DEF VerdictInv, Ran, Looked
<1> QED  BY <1>2, <1>5, <1>6, <1>7, <1>8, <1>9 DEF CellInv

\* An arm that has failed promises nothing.
LEMMA ArmFailsKeeps ==
  ASSUME CellInv, ArmFails
  PROVE  CellInv'
<1>1. /\ UNCHANGED programVars /\ prog' = prog /\ current' = current
      /\ cell' = [cell EXCEPT !.at = "error"]
      /\ unit' = unit
      /\ cell.at \notin {"completed", "error"} /\ prog.use = "bundle"
  BY DEF ArmFails, programVars, Step
<1>2. ProgramInv' /\ (BundleHolds' <=> BundleHolds)
  BY <1>1, ProgramRests DEF CellInv
<1>3. CellShape /\ CaseInv /\ ArtifactInv /\ UnitInv /\ VerdictInv /\ ProgramInv
  BY DEF CellInv
<1>4. /\ cell'.at = "error" /\ cell'.kind = cell.kind /\ cell'.case = cell.case
      /\ cell'.before = cell.before /\ cell'.work = cell.work /\ cell'.output = cell.output
      /\ cell'.artifact = cell.artifact /\ cell'.verdict = cell.verdict
      /\ cell'.drift = cell.drift
  BY <1>1, <1>3 DEF CellShape
<1>5. CellShape'
  BY <1>1, <1>3, <1>4 DEF CellShape
<1>6. CaseInv'
  BY <1>1, <1>3, <1>4 DEF CaseInv, Fixture, Ran, Looked
<1>7. ArtifactInv'
  BY <1>1, <1>3, <1>4 DEF ArtifactInv, Shows, Before, Ran, Looked
<1>8. UnitInv'
  BY <1>1, <1>2, <1>3, <1>4 DEF UnitInv, Ran, Looked
<1>9. VerdictInv'
  BY <1>1, <1>2, <1>3, <1>4 DEF VerdictInv, Ran, Looked
<1> QED  BY <1>2, <1>5, <1>6, <1>7, <1>8, <1>9 DEF CellInv

\* A unit that exits leaves what it has seen.
LEMMA UnitExitsKeeps ==
  ASSUME CellInv, UnitExits
  PROVE  CellInv'
<1>0. PICK exit \in {0, 1} : UnitSteps([unit EXCEPT !.state = "over", !.exit = exit])
  BY DEF UnitExits
<1>1. /\ UNCHANGED programVars /\ prog' = prog /\ current' = current
      /\ cell' = cell
      /\ unit' = [unit EXCEPT !.state = "over", !.exit = exit]
      /\ unit.state = "running"
  BY <1>0 DEF UnitSteps, programVars
<1>2. ProgramInv' /\ (BundleHolds' <=> BundleHolds)
  BY <1>1, ProgramRests DEF CellInv
<1>3. CellShape /\ CaseInv /\ ArtifactInv /\ UnitInv /\ VerdictInv /\ ProgramInv
  BY DEF CellInv
<1>4. /\ unit'.state = "over" /\ unit'.client = unit.client /\ unit'.exit = exit
      /\ unit'.answer = unit.answer /\ unit'.case = unit.case /\ unit'.work = unit.work
      /\ unit'.artifact = unit.artifact /\ unit'.saw = unit.saw
  BY <1>1, <1>3 DEF CellShape
<1>5. CellShape'
  BY <1>1, <1>3, <1>4 DEF CellShape
<1>6. CaseInv'
  BY <1>1, <1>3, <1>4 DEF CaseInv, Fixture, Ran, Looked
<1>7. ArtifactInv'
  BY <1>1, <1>3, <1>4 DEF ArtifactInv, Shows, Before, Ran, Looked
<1>8. UnitInv'
  BY <1>1, <1>2, <1>3, <1>4 DEF UnitInv, Ran, Looked
<1>9. VerdictInv'
  BY <1>1, <1>2, <1>3, <1>4 DEF VerdictInv, Ran, Looked
<1> QED  BY <1>2, <1>5, <1>6, <1>7, <1>8, <1>9 DEF CellInv

\* A unit that was given up has no verdict.
LEMMA GiveUpUnitKeeps ==
  ASSUME CellInv, GiveUpUnit
  PROVE  CellInv'
<1>0. PICK state \in {unit.state, "over"} :
        unit' = [unit EXCEPT !.state = state, !.client = "expired"]
  BY DEF GiveUpUnit
<1>1. /\ UNCHANGED programVars /\ prog' = prog /\ current' = current
      /\ cell' = [cell EXCEPT !.at = "finally", !.verdict = "timeout"]
      /\ unit' = [unit EXCEPT !.state = state, !.client = "expired"]
      /\ cell.at = "unit"
  BY <1>0 DEF GiveUpUnit, Step, programVars
<1>2. ProgramInv' /\ (BundleHolds' <=> BundleHolds)
  BY <1>1, ProgramRests DEF CellInv
<1>3. CellShape /\ CaseInv /\ ArtifactInv /\ UnitInv /\ VerdictInv /\ ProgramInv
  BY DEF CellInv
<1>4. /\ cell'.at = "finally" /\ cell'.kind = cell.kind /\ cell'.case = cell.case
      /\ cell'.before = cell.before /\ cell'.work = cell.work /\ cell'.output = cell.output
      /\ cell'.artifact = cell.artifact /\ cell'.verdict = "timeout"
      /\ cell'.drift = cell.drift /\ unit'.state = state /\ unit'.client = "expired"
      /\ unit'.exit = unit.exit /\ unit'.answer = unit.answer /\ unit'.case = unit.case
      /\ unit'.work = unit.work /\ unit'.artifact = unit.artifact /\ unit'.saw = unit.saw
  BY <1>1, <1>3 DEF CellShape
<1>5. CellShape'
  BY <1>1, <1>3, <1>4 DEF CellShape
<1>6. CaseInv'
  BY <1>1, <1>3, <1>4 DEF CaseInv, Fixture, Ran, Looked
<1>7. ArtifactInv'
  BY <1>1, <1>3, <1>4 DEF ArtifactInv, Shows, Before, Ran, Looked
<1>8. UnitInv'
  BY <1>1, <1>2, <1>3, <1>4 DEF UnitInv, Ran, Looked
<1>9. VerdictInv'
  BY <1>1, <1>2, <1>3, <1>4 DEF VerdictInv, Ran, Looked
<1> QED  BY <1>2, <1>5, <1>6, <1>7, <1>8, <1>9 DEF CellInv

\* What is judged is what the unit has, with the program of the bundle.
LEMMA JudgeKeeps ==
  ASSUME CellInv, Judge
  PROVE  CellInv'
<1>0. PICK answer \in {"valid", "invalid"}, trace \in {Absent, Link} :
        UnitSteps([unit EXCEPT !.answer = answer,
            !.saw = <<[program |-> prog.copy, case |-> unit.case, work |-> unit.work,
                       artifact |-> unit.artifact]>>,
            !.work = IF trace = Absent THEN @
                     ELSE Tree([@.node EXCEPT ![Entry] = trace], {})])
  BY DEF Judge
<1> DEFINE view == [program |-> prog.copy, case |-> unit.case, work |-> unit.work,
                    artifact |-> unit.artifact]
           work == IF trace = Absent THEN unit.work
                   ELSE Tree([unit.work.node EXCEPT ![Entry] = trace], {})
<1>1. /\ UNCHANGED programVars /\ prog' = prog /\ current' = current
      /\ cell' = cell
      /\ unit' = [unit EXCEPT !.answer = answer, !.saw = <<view>>, !.work = work]
      /\ unit.state = "running" /\ unit.answer = "none"
  BY <1>0 DEF Judge, UnitSteps, programVars
<1>2. ProgramInv' /\ (BundleHolds' <=> BundleHolds)
  BY <1>1, ProgramRests DEF CellInv
<1>3. CellShape /\ CaseInv /\ ArtifactInv /\ UnitInv /\ VerdictInv /\ ProgramInv
  BY DEF CellInv
<1>a. unit.saw = <<>>
  BY <1>1, <1>3 DEF UnitInv
<1>b. /\ <<view>> # <<>> /\ <<view>>[1] = view
      /\ view.program = prog.copy /\ view.case = unit.case /\ view.work = unit.work
      /\ view.artifact = unit.artifact
  OBVIOUS
<1> HIDE DEF view, work
<1>4. /\ unit'.state = unit.state /\ unit'.client = unit.client /\ unit'.exit = unit.exit
      /\ unit'.answer = answer /\ unit'.case = unit.case /\ unit'.work = work
      /\ unit'.artifact = unit.artifact /\ unit'.saw = <<view>>
  BY <1>1, <1>3 DEF CellShape
<1>5. CellShape'
  BY <1>1, <1>3, <1>4 DEF CellShape
<1>6. CaseInv'
  BY <1>1, <1>3, <1>4 DEF CaseInv, Fixture, Ran, Looked
<1>7. ArtifactInv'
  BY <1>1, <1>3, <1>4, <1>a, <1>b DEF ArtifactInv, Shows, Before, Ran, Looked
<1>8. UnitInv'
  BY <1>1, <1>2, <1>3, <1>4, <1>a, <1>b DEF UnitInv, BundleHolds, CopyInv, ProgramInv, Ran, Looked
<1>9. VerdictInv'
  BY <1>1, <1>2, <1>3, <1>4, <1>a DEF VerdictInv, Ran, Looked
<1> QED  BY <1>2, <1>5, <1>6, <1>7, <1>8, <1>9 DEF CellInv

\* At first there is no arm and no unit.
LEMMA CellStarts ==
  ASSUME CellInit
  PROVE  CellInv
<1>1. PICK which \in Kinds : cell = NewCell("preflight", which)
  BY DEF CellInit
<1>2. ProgramInv /\ current = 1 /\ unit = NoUnit
  BY ProgramStarts DEF CellInit
<1>3. /\ cell.at = "preflight" /\ cell.case = 0 /\ cell.drift = FALSE /\ cell.verdict = "none"
      /\ unit.state = "none" /\ unit.answer = "none" /\ unit.saw = <<>>
  BY <1>1, <1>2 DEF NewCell, NoUnit
<1>4. CellShape
  BY <1>1, <1>2 DEF CellShape, NewCell, NoUnit
<1>5. CaseInv /\ ArtifactInv /\ UnitInv /\ VerdictInv
  BY <1>3 DEF CaseInv, ArtifactInv, UnitInv, VerdictInv, Ran, Looked
<1> QED  BY <1>2, <1>4, <1>5 DEF CellInv

\* When nothing happens, everything is as it was.
LEMMA CellStutters ==
  ASSUME CellInv, UNCHANGED cellVars
  PROVE  CellInv'
<1>1. UNCHANGED programVars /\ prog' = prog /\ current' = current /\ cell' = cell /\ unit' = unit
  BY DEF cellVars, programVars
<1>2. ProgramInv' /\ (BundleHolds' <=> BundleHolds)
  BY <1>1, ProgramRests DEF CellInv
<1>3. CellShape'
  BY <1>1 DEF CellInv, CellShape
<1>4. CaseInv' /\ ArtifactInv'
  BY <1>1 DEF CellInv, CaseInv, ArtifactInv, Fixture, Shows, Before
<1>5. UnitInv' /\ VerdictInv'
  BY <1>1, <1>2 DEF CellInv, UnitInv, VerdictInv
<1> QED  BY <1>2, <1>3, <1>4, <1>5 DEF CellInv

\* The artifact was judged; for a diff, it is the patch to the tree that was judged.
LEMMA VerdictFollows ==
  ASSUME CellInv
  PROVE  VerdictIsAttested
<1>1. RunsOneProgram
  BY ProgramFollows DEF CellInv
<1> DEFINE saw == unit.saw[1]
           fixture == ReadTree(Fixtures[cell.case], Cacheless)
           judged == ReadTree(saw.work, Raw)
<1>2. SUFFICES ASSUME cell.at = "completed"
               PROVE  /\ unit.state = "over" /\ saw.program = prog.digest
                      /\ saw.case = cell.case /\ saw.artifact = cell.artifact
                      /\ cell.kind = "workspace_diff" =>
                           cell.artifact = [patch |-> DiffStates(fixture, judged)]
  BY <1>1, <1>2 DEF VerdictIsAttested
<1>3. /\ unit.state = "over" /\ unit.answer = "valid" /\ saw.program = prog.digest
      /\ unit.artifact = cell.artifact
  BY <1>2 DEF CellInv, VerdictInv
<1>4. unit.saw # <<>> /\ saw.case = cell.case /\ saw.artifact = cell.artifact
  BY <1>2, <1>3 DEF CellInv, UnitInv, Ran
<1>5. ASSUME cell.kind = "workspace_diff"
      PROVE  cell.artifact = [patch |-> DiffStates(fixture, judged)]
  <2>1. cell.artifact = [patch |-> DiffStates(Before, judged)]
    BY <1>2, <1>4, <1>5 DEF CellInv, ArtifactInv, Ran, Shows
  <2>2. Before = fixture
    <3>1. cell.before = CopyTree(Fixtures[cell.case], Cacheless)
      BY <1>2 DEF CellInv, CaseInv, Looked, Ran, Fixture
    <3> QED  BY <3>1, CopyReads DEF Before
  <2> QED  BY <2>1, <2>2
<1> QED  BY <1>3, <1>4, <1>5

\* The invariant holds of every execution of the arm and its verifier, for every case,
\* agent and limit, and for any number of updates and edits.
THEOREM CellInvariance == CellSpec => []CellInv
<1>1. CellInit => CellInv
  BY CellStarts
<1>2. CellInv /\ [CellNext]_cellVars => CellInv'
  <2> SUFFICES ASSUME CellInv, [CellNext]_cellVars
               PROVE  CellInv'
    OBVIOUS
  <2>1. CASE UNCHANGED cellVars
    BY <2>1, CellStutters
  <2>2. CASE Elsewhere /\ ProgramStep
    BY <2>2, BesideKeeps
  <2>3. CASE EditCase \/ SpoilArtifact \/ SnapshotCase \/ CopyFixtureTree \/ AgentAnswers
    BY <2>3, EditCaseKeeps, SpoilArtifactKeeps, SnapshotCaseKeeps, CopyFixtureTreeKeeps,
       AgentAnswersKeeps
  <2>4. CASE ScanWorkspace \/ CheckCase \/ CopyWorkspace \/ MakeRuntime \/ StartUnit
    BY <2>4, ScanWorkspaceKeeps, CheckCaseKeeps, CopyWorkspaceKeeps, MakeRuntimeKeeps,
       StartUnitKeeps
  <2>5. CASE Judge \/ UnitExits \/ ClientReturns \/ GiveUpUnit
    BY <2>5, JudgeKeeps, UnitExitsKeeps, ClientReturnsKeeps, GiveUpUnitKeeps
  <2>6. CASE TakeVerdict \/ Restore \/ Count \/ ArmFails
    BY <2>6, TakeVerdictKeeps, RestoreKeeps, CountKeeps, ArmFailsKeeps
  <2> QED  BY <2>1, <2>2, <2>3, <2>4, <2>5, <2>6 DEF CellNext, Bundling, ProgramStep
<1> QED  BY <1>1, <1>2, PTL DEF CellSpec

\* A verdict that counts is about the case of the preflight and the artifact that is shown,
\* for a diff the patch from the fixture of the preflight to the tree that was judged, and
\* was given by the program that was attested; and no program is run that was not.
THEOREM VerdictsAreAttested == CellSpec => []VerdictIsAttested
  BY CellInvariance, VerdictFollows, PTL
===============================================================================
