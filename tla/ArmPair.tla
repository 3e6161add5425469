------------------------------- MODULE ArmPair -------------------------------
(***************************************************************************)
(* The generator half of a run of skivolve/runner.py: pairs of a control   *)
(* and a treatment arm, one pair after the other.  Under a concurrent      *)
(* policy the two arms are threads that meet at a barrier twice, so that   *)
(* their provider windows overlap; under a serialized policy one follows   *)
(* the other.  Every arm accounts its request in the dispatch ledger, from *)
(* three places: before the barrier, from a callback inside the provider,  *)
(* and after the provider has returned or raised.                          *)
(*                                                                         *)
(* The ledger is the register of DispatchLedger, seen by its only owner: a *)
(* call succeeds, fails before a byte is written, or damages the journal,  *)
(* after which every call fails.  Any step that can fail may do so.        *)
(***************************************************************************)
EXTENDS Naturals

CONSTANTS
  NPairs,      \* pairs of the run
  Providers    \* the generation providers the run may be configured with

ASSUME PairsAssumption     == NPairs \in Nat \ {0}
ASSUME ProvidersAssumption == Providers \subseteq {"claude", "codex", "fake"}

Roles == {"control", "treatment"}
Pairs == 1..NPairs

VARIABLES
  provider,     \* the provider of the run
  run,          \* the pair the run is at, and how far it is
  first,        \* the arm a serialized pair starts with
  barrier,      \* the start barrier of the pair (threading.Barrier)
  clock,        \* time.monotonic, one tick per reading
  arm,          \* the local state of the two arms of the pair
  phase,        \* the journal: phase of every logical arm
  broken,       \* the ledger has lost its journal
  unaccounted,  \* a mark_dispatched has failed in this run
  transmitted,  \* logical arms whose prompt has reached the provider
  report        \* the status in the result of every arm

ledger == <<phase, broken, unaccounted>>
vars   == <<provider, run, first, barrier, clock, arm, ledger, transmitted, report>>

-----------------------------------------------------------------------------
Concurrent == provider # "codex"
Here(r)    == <<run.pair, r>>
Other(r)   == CHOOSE q \in Roles : q # r

Fresh == [pc |-> "mkdir", err |-> "none", journal |-> "none", synced |-> FALSE,
          dispatched |-> FALSE, entered |-> FALSE, started |-> 0, finished |-> 0]

At(r, pc) == run.state = "arms" /\ arm[r].pc = pc

Ended(r) == arm[r].pc \in {"done", "raised"}

\* A serialized arm waits for the one before it, and is never run if that raised.
Turn(r) == Concurrent \/ r = first \/ arm[first].pc = "done"

Goto(r, pc) == arm' = [arm EXCEPT ![r].pc = pc]

Throw(r, pc, err) == arm' = [arm EXCEPT ![r].pc = pc, ![r].err = err]

-----------------------------------------------------------------------------
(* The ledger *)

Required == [plan |-> "none", dispatch |-> "planned", complete |-> "dispatched",
             fail_observed |-> "dispatched", fail_unobserved |-> "planned"]
Reached  == [plan |-> "planned", dispatch |-> "dispatched", complete |-> "completed",
             fail_observed |-> "failed", fail_unobserved |-> "failed"]

Admits(a, e) == ~broken /\ phase[a] = Required[e]

Accept(a, e) ==
  /\ Admits(a, e)
  /\ phase' = [phase EXCEPT ![a] = Reached[e]]
  /\ UNCHANGED <<broken, unaccounted>>

\* The call raises: before the write, or after some or all of it.
Refuse(a, e) ==
  /\ \/ UNCHANGED <<phase, broken>>
     \/ /\ Admits(a, e) /\ broken' = TRUE
        /\ \/ UNCHANGED phase
           \/ phase' = [phase EXCEPT ![a] = Reached[e]]
  /\ unaccounted' = (unaccounted \/ e = "dispatch")

-----------------------------------------------------------------------------
Init ==
  /\ provider \in Providers
  /\ run = [pair |-> 1, state |-> "pair"]
  /\ first = "control"
  /\ barrier = [state |-> "filling", count |-> 0]
  /\ clock = 0
  /\ arm = [r \in Roles |-> Fresh]
  /\ phase = [a \in Pairs \X Roles |-> "none"]
  /\ broken = FALSE /\ unaccounted = FALSE
  /\ transmitted = [a \in Pairs \X Roles |-> FALSE]
  /\ report = [a \in Pairs \X Roles |-> "none"]

\* _run_pair up to the arms, with the order a serialized pair draws.
BeginPair ==
  /\ run.state = "pair"
  /\ run' = [run EXCEPT !.state = "arms"]
  /\ first' \in Roles
  /\ barrier' = [state |-> "filling", count |-> 0]
  /\ clock' = 0
  /\ arm' = [r \in Roles |-> Fresh]
  /\ UNCHANGED <<provider, ledger, transmitted, report>>

\* The private directories of the arm; an error here is nobody's to handle.
MakeDirectories(r) ==
  /\ At(r, "mkdir") /\ Turn(r)
  /\ \/ Goto(r, "prepare")
     \/ Goto(r, "raised")
  /\ UNCHANGED <<provider, run, first, barrier, clock, ledger, transmitted, report>>

\* Copy the fixture, materialize the source.
Prepare(r) ==
  /\ At(r, "prepare")
  /\ \/ Goto(r, "plan")
     \/ Throw(r, "handler", "other")
  /\ UNCHANGED <<provider, run, first, barrier, clock, ledger, transmitted, report>>

Plan(r) ==
  /\ At(r, "plan")
  /\ \/ /\ Accept(Here(r), "plan")
        /\ arm' = [arm EXCEPT ![r].journal = "planned",
                              ![r].pc = IF Concurrent THEN "arrive1" ELSE "alone"]
     \/ Refuse(Here(r), "plan") /\ Throw(r, "handler", "journal")
  /\ UNCHANGED <<provider, run, first, barrier, clock, transmitted, report>>

-----------------------------------------------------------------------------
(* The barrier.  The last thread to arrive opens it and leaves at once; the  *)
(* other leaves when it wakes up; until then nobody can arrive again.        *)

Wait == [arrive1 |-> "wait1", arrive2 |-> "wait2"]
Past == [arrive1 |-> "stamp", wait1 |-> "stamp", arrive2 |-> "enter", wait2 |-> "enter"]

\* What an arm knows once it is past the given place.
Passed(r, pc) ==
  arm' = [arm EXCEPT ![r].pc = Past[pc], ![r].synced = (Past[pc] = "enter")]

Arrive(r) ==
  /\ \E pc \in DOMAIN Wait :
       /\ At(r, pc)
       /\ barrier.state # "draining"
       /\ IF barrier.state = "broken"
            THEN Throw(r, "handler", "other") /\ UNCHANGED barrier
            ELSE \/ /\ barrier.count = 0
                    /\ barrier' = [barrier EXCEPT !.count = 1]
                    /\ Goto(r, Wait[pc])
                 \/ /\ barrier.count # 0
                    /\ barrier' = [barrier EXCEPT !.state = "draining"]
                    /\ Passed(r, pc)
  /\ UNCHANGED <<provider, run, first, clock, ledger, transmitted, report>>

\* The waiting thread wakes up because the barrier was opened or broken.
Wake(r) ==
  /\ \E pc \in {"wait1", "wait2"} :
       /\ At(r, pc)
       /\ \/ /\ barrier.state = "draining"
             /\ barrier' = [state |-> "filling", count |-> 0]
             /\ Passed(r, pc)
          \/ /\ barrier.state = "broken"
             /\ barrier' = [barrier EXCEPT !.count = 0]
             /\ Throw(r, "handler", "other")
  /\ UNCHANGED <<provider, run, first, clock, ledger, transmitted, report>>

\* Mutant of TimeOut: the arms wait without a timeout.
TimeOutNever(r) == At(r, "wait1") /\ FALSE

\* min(30, timeout) seconds are over and the other arm is not there.
TimeOut(r) ==
  /\ arm[r].pc \in {"wait1", "wait2"} /\ run.state = "arms"
  /\ barrier.state = "filling"
  /\ barrier' = [state |-> "broken", count |-> 0]
  /\ Throw(r, "handler", "other")
  /\ UNCHANGED <<provider, run, first, clock, ledger, transmitted, report>>

\* Mutant of Stamp: the arms meet once only.
StampOnce(r) ==
  /\ At(r, "stamp")
  /\ clock' = clock + 1
  /\ arm' = [arm EXCEPT ![r].started = clock', ![r].synced = TRUE, ![r].pc = "enter"]
  /\ UNCHANGED <<provider, run, first, barrier, ledger, transmitted, report>>

\* The start of the window is read between the two meetings.
Stamp(r) ==
  /\ At(r, "stamp") \/ At(r, "alone")
  /\ clock' = clock + 1
  /\ arm' = [arm EXCEPT ![r].started = clock',
                        ![r].synced = ~Concurrent,
                        ![r].pc = IF Concurrent THEN "arrive2" ELSE "enter"]
  /\ UNCHANGED <<provider, run, first, barrier, ledger, transmitted, report>>

-----------------------------------------------------------------------------
(* The provider *)

Transmit(r) == transmitted' = [transmitted EXCEPT ![Here(r)] = TRUE]

\* Mutant of Enter: a started Claude process is given its prompt at once.
EnterEagerly(r) ==
  /\ At(r, "enter")
  /\ arm' = [arm EXCEPT ![r].entered = TRUE,
                        ![r].pc = IF provider = "fake" THEN "answer" ELSE "account"]
  /\ Transmit(r)
  /\ UNCHANGED <<provider, run, first, barrier, clock, ledger, report>>

\* run_agent up to the dispatch callback: the Codex turn has been transmitted,
\* the Claude process exists but has not got its prompt, and the fake provider
\* has no callback at all.
Enter(r) ==
  /\ At(r, "enter")
  /\ \E err \in {"none", "other"} :
       /\ arm' = [arm EXCEPT ![r].entered = TRUE, ![r].err = err,
                             ![r].pc = IF err = "other" THEN "finally"
                                       ELSE IF provider = "fake" THEN "answer"
                                       ELSE "account"]
       /\ \/ provider # "claude" /\ Transmit(r)
          \/ (provider = "claude" \/ err = "other") /\ UNCHANGED transmitted
  /\ UNCHANGED <<provider, run, first, barrier, clock, ledger, report>>

\* account_dispatch inside the provider.  The Codex session turns an error of
\* the callback into its own; the Claude transport kills the process and lets
\* the error through.
Account(r) ==
  /\ At(r, "account")
  /\ \/ /\ Accept(Here(r), "dispatch")
        /\ arm' = [arm EXCEPT ![r].dispatched = TRUE, ![r].pc = "answer"]
        /\ Transmit(r)
     \/ /\ Refuse(Here(r), "dispatch")
        /\ Throw(r, "finally", IF provider = "codex" THEN "other" ELSE "journal")
        /\ UNCHANGED transmitted
  /\ UNCHANGED <<provider, run, first, barrier, clock, report>>

\* The provider returns a result or raises.
Answer(r) ==
  /\ At(r, "answer")
  /\ \/ Goto(r, "returned")
     \/ Throw(r, "finally", "other")
  /\ UNCHANGED <<provider, run, first, barrier, clock, ledger, transmitted, report>>

\* account_dispatch again, for a provider that did not call back.
AccountLate(r) ==
  /\ At(r, "returned")
  /\ \/ /\ arm[r].dispatched /\ UNCHANGED ledger
        /\ arm' = [arm EXCEPT ![r].journal = "dispatched", ![r].pc = "validate"]
     \/ /\ ~arm[r].dispatched /\ Accept(Here(r), "dispatch")
        /\ arm' = [arm EXCEPT ![r].journal = "dispatched", ![r].dispatched = TRUE,
                              ![r].pc = "validate"]
     \/ /\ ~arm[r].dispatched /\ Refuse(Here(r), "dispatch")
        /\ Throw(r, "finally", "journal")
  /\ UNCHANGED <<provider, run, first, barrier, clock, transmitted, report>>

\* The result, and the hash of the read-only skill snapshot, are checked.
Validate(r) ==
  /\ At(r, "validate")
  /\ \/ Goto(r, "complete")
     \/ Throw(r, "finally", "other")
  /\ UNCHANGED <<provider, run, first, barrier, clock, ledger, transmitted, report>>

Complete(r) ==
  /\ At(r, "complete")
  /\ \/ /\ Accept(Here(r), "complete")
        /\ arm' = [arm EXCEPT ![r].journal = "completed", ![r].pc = "finally"]
     \/ Refuse(Here(r), "complete") /\ Throw(r, "finally", "journal")
  /\ UNCHANGED <<provider, run, first, barrier, clock, transmitted, report>>

\* The end of the window; unlocking the snapshot may raise in place of any
\* exception on its way.
Finally(r) ==
  /\ At(r, "finally")
  /\ clock' = clock + 1
  /\ \E err \in {arm[r].err, "other"} :
       arm' = [arm EXCEPT ![r].finished = clock', ![r].err = err,
                          ![r].pc = IF err = "none" THEN "verify" ELSE "handler"]
  /\ UNCHANGED <<provider, run, first, barrier, ledger, transmitted, report>>

\* Scan of the workspace, artifact, verifier.
Verify(r) ==
  /\ At(r, "verify")
  /\ \/ /\ Goto(r, "done")
        /\ report' = [report EXCEPT ![Here(r)] = "completed"]
     \/ Throw(r, "handler", "other") /\ UNCHANGED report
  /\ UNCHANGED <<provider, run, first, barrier, clock, ledger, transmitted>>

-----------------------------------------------------------------------------
(* The handler of _run_arm *)

Break == barrier' = [barrier EXCEPT !.state = "broken"]

\* Mutant of Abort: every failing arm breaks the barrier.
AbortAlways(r) ==
  /\ At(r, "handler")
  /\ IF Concurrent THEN Break ELSE UNCHANGED barrier
  /\ Goto(r, IF arm[r].err = "journal" THEN "raised" ELSE "failing")
  /\ UNCHANGED <<provider, run, first, clock, ledger, transmitted, report>>

\* An arm that fails before both are past the barrier releases the other one;
\* an error of the ledger goes through.
Abort(r) ==
  /\ At(r, "handler")
  /\ IF Concurrent /\ ~arm[r].synced THEN Break ELSE UNCHANGED barrier
  /\ Goto(r, IF arm[r].err = "journal" THEN "raised" ELSE "failing")
  /\ UNCHANGED <<provider, run, first, clock, ledger, transmitted, report>>

FailEvent(r) == IF arm[r].dispatched THEN "fail_observed" ELSE "fail_unobserved"

ReportError(r) ==
  /\ Goto(r, "done")
  /\ report' = [report EXCEPT ![Here(r)] = "error"]

\* Mutant of AccountFailure: an error of mark_failed is only logged.
AccountFailureQuietly(r) ==
  /\ At(r, "failing") /\ arm[r].journal \in {"planned", "dispatched"}
  /\ Accept(Here(r), FailEvent(r)) \/ Refuse(Here(r), FailEvent(r))
  /\ ReportError(r)
  /\ UNCHANGED <<provider, run, first, barrier, clock, transmitted>>

\* mark_failed, unless there was no attempt or it is completed.
AccountFailure(r) ==
  /\ At(r, "failing")
  /\ \/ arm[r].journal \notin {"planned", "dispatched"} /\ UNCHANGED ledger /\ ReportError(r)
     \/ /\ arm[r].journal \in {"planned", "dispatched"}
        /\ \/ Accept(Here(r), FailEvent(r)) /\ ReportError(r)
           \/ Refuse(Here(r), FailEvent(r)) /\ Goto(r, "raised") /\ UNCHANGED report
  /\ UNCHANGED <<provider, run, first, barrier, clock, transmitted>>

-----------------------------------------------------------------------------
(* The run *)

PairEnded ==
  /\ run.state = "arms"
  /\ IF Concurrent THEN \A r \in Roles : Ended(r)
     ELSE Ended(first) /\ (arm[first].pc = "raised" \/ Ended(Other(first)))

\* The pair cannot be set up, or its result cannot be written.
PairFails ==
  /\ run.state = "pair" \/ PairEnded
  /\ run' = [run EXCEPT !.state = "failed"]
  /\ UNCHANGED <<provider, first, barrier, clock, arm, ledger, transmitted, report>>

\* Mutant of EndPair: an arm that raised is passed over.
EndPairTolerant ==
  /\ PairEnded
  /\ run' = IF run.pair < NPairs THEN [run EXCEPT !.state = "pair", !.pair = @ + 1]
            ELSE [run EXCEPT !.state = "audit"]
  /\ UNCHANGED <<provider, first, barrier, clock, arm, ledger, transmitted, report>>

\* The results are collected; an arm that raised takes the run with it.
EndPair ==
  /\ PairEnded
  /\ run' = IF \E r \in Roles : arm[r].pc = "raised" THEN [run EXCEPT !.state = "failed"]
            ELSE IF run.pair < NPairs
              THEN [run EXCEPT !.state = "pair", !.pair = @ + 1]
              ELSE [run EXCEPT !.state = "audit"]
  /\ UNCHANGED <<provider, first, barrier, clock, arm, ledger, transmitted, report>>

Unresolved == {a \in Pairs \X Roles : phase[a] \in {"planned", "dispatched"}}

\* The audit replays the journal; then the ledger is closed and run.json written.
Publish ==
  /\ run.state = "audit"
  /\ \/ ~broken /\ Unresolved = {} /\ run' = [run EXCEPT !.state = "published"]
     \/ run' = [run EXCEPT !.state = "failed"]
  /\ UNCHANGED <<provider, first, barrier, clock, arm, ledger, transmitted, report>>

RunStep == BeginPair \/ PairFails \/ EndPair \/ Publish

ArmStep(r) ==
  \/ MakeDirectories(r) \/ Prepare(r) \/ Plan(r)
  \/ Arrive(r) \/ Wake(r) \/ TimeOut(r) \/ Stamp(r)
  \/ Enter(r) \/ Account(r) \/ Answer(r) \/ AccountLate(r) \/ Validate(r)
  \/ Complete(r) \/ Finally(r) \/ Verify(r)
  \/ Abort(r) \/ AccountFailure(r)

\* The run is over and stays so.
Over == run.state \in {"published", "failed"} /\ UNCHANGED vars

Next == RunStep \/ (\E r \in Roles : ArmStep(r)) \/ Over

\* Both threads and the run are scheduled; every wait they are in is bounded by
\* a timeout (of the barrier, of the provider, of the verifier).
Spec == Init /\ [][Next]_vars /\ WF_vars(RunStep) /\ \A r \in Roles : WF_vars(ArmStep(r))

-----------------------------------------------------------------------------
(* Properties *)

\* Whatever fails or times out, a concurrent pair calls its provider for both
\* arms or for neither: no arm is paid for whose peer could never have started.
BothOrNeither ==
  run.state = "arms" /\ Concurrent /\ (\A r \in Roles : Ended(r))
    => arm["control"].entered = arm["treatment"].entered

\* Two completed concurrent arms have overlapping provider windows, so the
\* check of _run_pair never discards a pair the barrier let through.
WindowsOverlap ==
  (run.state = "arms" /\ Concurrent /\ \A r \in Roles : report[Here(r)] = "completed")
    => \A r, q \in Roles : arm[r].started <= arm[q].finished

\* An arm that has a result, whatever became of it, is settled in the journal:
\* completed if the result says so, and never left planned or dispatched.
ReportedIsSettled ==
  \A a \in Pairs \X Roles :
    /\ report[a] = "completed" => phase[a] = "completed" /\ transmitted[a]
    /\ report[a] = "error"     => /\ phase[a] \in {"none", "completed", "failed"}
                                  /\ phase[a] = "none" => ~transmitted[a]

\* Claude reads no prompt that the journal does not already show as dispatched.
DispatchedBeforePrompt ==
  \A a \in Pairs \X Roles :
    provider = "claude" /\ transmitted[a] => phase[a] \in {"dispatched", "completed", "failed"}

\* Once the journal is damaged no further pair begins and nothing is published,
\* whichever exception hid the ledger's own on the way up.
DamageStopsRun ==
  [][broken => run'.pair = run.pair /\ run'.state # "published"]_vars

\* The run ends: no arm waits for ever for a peer that failed or vanished.
Termination == <>(run.state \in {"published", "failed"})

\* A dispatch append that fails aborts the run: nothing is published.
DispatchFailureAborts == unaccounted => run.state # "published"
=============================================================================
