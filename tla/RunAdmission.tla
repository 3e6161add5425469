------------------------------ MODULE RunAdmission ------------------------------
(***************************************************************************)
(* How EvalRunner.run of skivolve/runner.py gets hold of what it may use    *)
(* once: a holdout plan, whose consumption record is created before any     *)
(* call, and a result root, which must be empty.  Several processes start   *)
(* runs at the same time, of the same plan or a copy of it, into the same   *)
(* or another root; any of them may fail or die at any step, and the host   *)
(* may lose power.                                                          *)
(*                                                                          *)
(* Every attempt is a run of its own.  The dispatch ledger is the register  *)
(* of DispatchLedger: one lock, and one plan for the arms of a root.  All   *)
(* copies of a plan name the same consumption record; a plan that was       *)
(* changed ends the run.  The roots' contents are taken as durable.         *)
(***************************************************************************)
EXTENDS Naturals, FiniteSets

CONSTANTS
  Runs,       \* attempts, each by a process of its own
  Holdout,    \* those with the holdout plan
  Judged,     \* those with a comparator
  Roots,      \* result roots
  NoRun,
  MaxLosses   \* bound on losses of power

ASSUME RunsAssumption == Holdout \subseteq Runs /\ Judged \subseteq Runs /\ NoRun \notin Runs
ASSUME LossesAssumption == MaxLosses \in Nat

VARIABLES
  pc,        \* where every run is
  rootOf,    \* the result root it was given
  created,   \* it has created that root
  record,    \* who created the consumption record
  durable,   \* the directory of the record was synced
  there,     \* roots that exist
  spend,     \* roots with a comparator-spend directory
  snap,      \* roots with a manifest snapshot
  lock,      \* who owns the dispatch ledger of a root
  planned,   \* who planned the arms of a root
  result,    \* who wrote its run.json
  called,    \* runs that have called an agent
  losses

disk  == <<record, durable, there, spend, snap, planned, result>>
vars  == <<pc, rootOf, created, disk, lock, called, losses>>

Go(r, from, to) == pc[r] = from /\ pc' = [pc EXCEPT ![r] = to]

Init ==
  /\ pc = [r \in Runs |-> "new"]
  /\ rootOf \in [Runs -> Roots]
  /\ created = [r \in Runs |-> FALSE]
  /\ record = NoRun /\ durable = FALSE
  /\ there \in SUBSET Roots /\ spend = {} /\ snap = {}
  /\ lock = [x \in Roots |-> NoRun]
  /\ planned = [x \in Roots |-> NoRun]
  /\ result = [x \in Roots |-> NoRun]
  /\ called = {} /\ losses = 0

-----------------------------------------------------------------------------
(* Preflight and the result root *)

\* Nobody has consumed the plan.
Unclaimed == record = NoRun

\* The plan is bound only if its record is absent; then it is read once more.
Preflight(r) ==
  /\ r \in Holdout => Unclaimed
  /\ Go(r, "new", "ready")
  /\ UNCHANGED <<rootOf, created, disk, lock, called, losses>>

\* mkdir: whoever finds the directory did not create it.
MakeRoot(r) ==
  /\ Go(r, "ready", "rooted")
  /\ created' = [created EXCEPT ![r] = rootOf[r] \notin there]
  /\ there' = there \cup {rootOf[r]}
  /\ UNCHANGED <<rootOf, record, durable, spend, snap, planned, result, lock, called, losses>>

\* The root must still be there, and empty.
FindEmpty(r) ==
  /\ rootOf[r] \in there \ (spend \cup snap)
  /\ Go(r, "rooted", IF r \in Holdout THEN "unclaimed" ELSE "admitted")
  /\ UNCHANGED <<rootOf, created, disk, lock, called, losses>>

-----------------------------------------------------------------------------
(* _claim_holdout_consumption *)

\* Mutant of Claim: the record is written whether it is there or not.
ClaimOver(r) ==
  /\ Go(r, "unclaimed", "claiming")
  /\ record' = r /\ durable' = FALSE
  /\ UNCHANGED <<rootOf, created, there, spend, snap, planned, result, lock, called, losses>>

\* O_EXCL: only one run creates the record.
Claim(r) ==
  /\ Unclaimed
  /\ Go(r, "unclaimed", "claiming")
  /\ record' = r /\ durable' = FALSE
  /\ UNCHANGED <<rootOf, created, there, spend, snap, planned, result, lock, called, losses>>

\* Mutant of SyncClaim: the directory of the record is not synced.
SyncClaimNot(r) ==
  /\ Go(r, "claiming", "admitted")
  /\ UNCHANGED <<rootOf, created, disk, lock, called, losses>>

\* The record is written, and synced with its directory.
SyncClaim(r) ==
  /\ Go(r, "claiming", "admitted")
  /\ durable' = TRUE
  /\ UNCHANGED <<rootOf, created, record, there, spend, snap, planned, result, lock, called, losses>>

\* There is a record already, or the claim could not be made durable.
ClaimFails(r) ==
  /\ \/ ~Unclaimed /\ Go(r, "unclaimed", "unadmitted")
     \/ Go(r, "claiming", "unadmitted")
  /\ UNCHANGED <<rootOf, created, disk, lock, called, losses>>

\* A run that could not claim removes the root it has created, if it is empty.
RemoveRoot(r) ==
  /\ Go(r, "unadmitted", "over")
  /\ there' = IF created[r] THEN there \ ({rootOf[r]} \ (spend \cup snap)) ELSE there
  /\ UNCHANGED <<rootOf, created, record, durable, spend, snap, planned, result, lock, called, losses>>

-----------------------------------------------------------------------------
(* What the run puts into its root *)

\* The comparator-spend directory must be new; another run may create it between
\* the look and the mkdir, which then goes unnoticed.
LookForSpend(r) ==
  /\ r \in Judged => rootOf[r] \notin spend
  /\ Go(r, "admitted", IF r \in Judged THEN "spending" ELSE "recorded")
  /\ UNCHANGED <<rootOf, created, disk, lock, called, losses>>

MakeSpend(r) ==
  /\ rootOf[r] \in there
  /\ Go(r, "spending", "recorded")
  /\ spend' = spend \cup {rootOf[r]}
  /\ UNCHANGED <<rootOf, created, record, durable, there, snap, planned, result, lock, called, losses>>

\* The snapshot replaces one that is there; a root that has gone is made again.
Snapshot(r) ==
  /\ Go(r, "recorded", "noted")
  /\ there' = there \cup {rootOf[r]}
  /\ snap' = snap \cup {rootOf[r]}
  /\ UNCHANGED <<rootOf, created, record, durable, spend, planned, result, lock, called, losses>>

\* One run at a time has the dispatch ledger of a root.
OpenLedger(r) ==
  /\ lock[rootOf[r]] = NoRun
  /\ Go(r, "noted", "running")
  /\ lock' = [lock EXCEPT ![rootOf[r]] = r]
  /\ UNCHANGED <<rootOf, created, disk, called, losses>>

\* Mutant of Call: arms that are in the journal are planned again.
CallAgain(r) ==
  /\ Go(r, "running", "called")
  /\ planned' = [planned EXCEPT ![rootOf[r]] = r]
  /\ called' = called \cup {r}
  /\ UNCHANGED <<rootOf, created, record, durable, there, spend, snap, result, lock, losses>>

\* The arms are planned, once for the root, and their agents are called.
Call(r) ==
  /\ planned[rootOf[r]] = NoRun
  /\ Go(r, "running", "called")
  /\ planned' = [planned EXCEPT ![rootOf[r]] = r]
  /\ called' = called \cup {r}
  /\ UNCHANGED <<rootOf, created, record, durable, there, spend, snap, result, lock, losses>>

Unlocked(r) == [x \in Roots |-> IF lock[x] = r THEN NoRun ELSE lock[x]]

\* The plan was read again and the ledger audited; it is closed before run.json
\* is written.
CloseLedger(r) ==
  /\ Go(r, "called", "closed")
  /\ lock' = Unlocked(r)
  /\ UNCHANGED <<rootOf, created, disk, called, losses>>

Publish(r) ==
  /\ Go(r, "closed", "over")
  /\ result' = [result EXCEPT ![rootOf[r]] = r]
  /\ UNCHANGED <<rootOf, created, record, durable, there, spend, snap, planned, lock, called, losses>>

\* An error anywhere else, or the death of the process: only its lock is released.
Stop(r) ==
  /\ pc[r] # "over" /\ pc' = [pc EXCEPT ![r] = "over"]
  /\ lock' = Unlocked(r)
  /\ UNCHANGED <<rootOf, created, disk, called, losses>>

\* A record whose directory was not synced may be lost with the host's power.
PowerLoss ==
  /\ losses < MaxLosses /\ losses' = losses + 1
  /\ pc' = [r \in Runs |-> IF pc[r] = "new" THEN "new" ELSE "over"]
  /\ lock' = [x \in Roots |-> NoRun]
  /\ \/ ~durable /\ record' = NoRun /\ UNCHANGED durable
     \/ UNCHANGED record /\ durable' = (record # NoRun)
  /\ UNCHANGED <<rootOf, created, there, spend, snap, planned, result, called>>

Next ==
  \/ \E r \in Runs :
       \/ Preflight(r) \/ MakeRoot(r) \/ FindEmpty(r)
       \/ Claim(r) \/ SyncClaim(r) \/ ClaimFails(r) \/ RemoveRoot(r)
       \/ LookForSpend(r) \/ MakeSpend(r) \/ Snapshot(r)
       \/ OpenLedger(r) \/ Call(r) \/ CloseLedger(r) \/ Publish(r) \/ Stop(r)
  \/ PowerLoss

Spec == Init /\ [][Next]_vars

-----------------------------------------------------------------------------
(* Properties *)

Stages == {"new", "ready", "rooted", "unclaimed", "claiming", "unadmitted", "admitted",
           "spending", "recorded", "noted", "running", "called", "closed", "over"}

\* Every variable has its type; what is in a root, is in a root that exists.
TypeOK ==
  /\ pc \in [Runs -> Stages] /\ rootOf \in [Runs -> Roots] /\ created \in [Runs -> BOOLEAN]
  /\ record \in Runs \cup {NoRun} /\ durable \in BOOLEAN
  /\ there \subseteq Roots /\ spend \subseteq there /\ snap \subseteq there
  /\ {lock, planned, result} \subseteq [Roots -> Runs \cup {NoRun}]
  /\ called \subseteq Runs /\ losses \in 0..MaxLosses

\* A holdout plan is good for one attempt: no two runs ever call an agent with it,
\* whatever fails, and whatever the host loses.
OneAttempt == \A r, s \in called \cap Holdout : r = s

\* Every attempt that has called an agent has consumed the plan, and no loss of
\* power can give the plan back.
ConsumedBeforeCall == called \cap Holdout # {} => record \in called /\ durable

\* Two runs never call agents into the same root, although both may have found
\* it empty; nor does a run publish over the journal of another.
OneRunPerRoot ==
  /\ \A r, s \in called : rootOf[r] = rootOf[s] => r = s
  /\ \A x \in Roots : result[x] \in {NoRun, planned[x]}

\* A run that cleans up after a failed claim never takes away the root of another
\* run that has begun to use it.
UsedRootStays == \A r \in called : rootOf[r] \in snap
=============================================================================
