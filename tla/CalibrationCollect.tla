--------------------------- MODULE CalibrationCollect ---------------------------
(***************************************************************************)
(* The calibration collector (collect.py) on top of its spend ledger: it   *)
(* resumes from a checkpoint of finished trials, calls the comparator for  *)
(* each missing one under a reservation, and writes the checkpoint after   *)
(* each trial.  Checkpoint and spend journal are two files of one          *)
(* directory; any step may fail, and process and host may die anywhere.    *)
(*                                                                         *)
(* The collector makes one call at a time and leaves at the first error.   *)
(* A checkpoint that was carried over without its journal is an initial    *)
(* state of its own: the code restores the account from it.                *)
(***************************************************************************)
EXTENDS SpendLedger, FiniteSetsExt

CONSTANTS
  NTrials,        \* the trials of the release, in the order they are called
  NoAttempt,
  CarriedCounts   \* how many trials a carried checkpoint may hold

ASSUME CollectAssumption ==
  NTrials \in Nat /\ CarriedCounts \subseteq 0..NTrials /\ NoAttempt \notin Attempts

VARIABLES
  ckpt,    \* the checkpoint: the attempt that made each finished trial
  kept,    \* what of it an fsync of the directory has made durable
  trials,  \* evidence["trials"] of the running collector
  todo,    \* checkpointed trials still to be restored into the ledger
  cur,     \* the attempt being called or restored
  stage,   \* run, failed or done
  carried  \* the attempts of a carried checkpoint (never changes)

collector == <<trials, todo, cur, stage>>
all == <<vars, ckpt, kept, collector, carried>>

Trials == 1..NTrials
Have(f) == {t \in Trials : f[t] # NoAttempt}
Nothing == [t \in Trials |-> NoAttempt]
Missing == Trials \ Have(trials)

\* A carried checkpoint has trials that were paid for, and no journal.
CollectInit ==
  \E n \in CarriedCounts : \E who \in [1..n -> Attempts] : \E cost \in [1..n -> 1..Ceiling] :
    /\ IsInjective(who)
    /\ ckpt = [t \in Trials |-> IF t <= n THEN who[t] ELSE NoAttempt]
    /\ kept = ckpt /\ carried = Range(who)
    /\ trials = Nothing /\ todo = {} /\ cur = NoAttempt /\ stage = "run"
    /\ exists = FALSE /\ lines = <<>> /\ ended = TRUE /\ synced = 0
    /\ linked = FALSE /\ lost = FALSE
    /\ open = FALSE /\ identity = "none" /\ spent = 0 /\ reserved = 0
    /\ call = [c \in Attempts |-> IF c \in Range(who) THEN "over" ELSE "new"]
    /\ billed = [c \in Attempts |->
                   IF c \in Range(who) THEN cost[CHOOSE t \in 1..n : who[t] = c] ELSE 0]
    /\ faults = 0 /\ crashes = 0

\* Mutant of Start: the checkpoint is not read.
StartAfresh ==
  /\ Open
  /\ trials' = Nothing /\ todo' = {}
  /\ UNCHANGED <<ckpt, kept, carried, cur, stage>>

\* Mutant of Start: the account is never restored from a checkpoint.
StartUnrestored ==
  /\ Open
  /\ trials' = ckpt /\ todo' = {}
  /\ UNCHANGED <<ckpt, kept, carried, cur, stage>>

\* The checkpoint is read and the journal replayed; only a journal without a
\* record makes the collector restore the account from the checkpoint.
Start ==
  /\ Open
  /\ trials' = ckpt
  /\ todo' = IF lines = <<>> THEN Have(ckpt) ELSE {}
  /\ UNCHANGED <<ckpt, kept, carried, cur, stage>>

Running == open /\ stage = "run"

-----------------------------------------------------------------------------
(* restore_reconciled: two records for a trial that is in the checkpoint *)

Restoring == Running /\ todo # {}

\* The reserve record; there is no reservation in memory.
RestoreOpens ==
  LET c == trials[Min(todo)] IN
  /\ Restoring /\ cur = NoAttempt
  /\ spent + billed[c] + reserved <= Cap
  /\ AppendWorks(Entry("reserve", c, Ceiling))
  /\ cur' = c
  /\ UNCHANGED <<open, spent, reserved, call, billed, faults, crashes, ckpt, kept, carried, trials, todo, stage>>

RestoreCloses ==
  /\ Restoring /\ cur # NoAttempt
  /\ AppendWorks(Entry("reconcile", cur, billed[cur]))
  /\ spent' = spent + billed[cur]
  /\ todo' = todo \ {Min(todo)} /\ cur' = NoAttempt
  /\ UNCHANGED <<open, reserved, call, billed, faults, crashes, ckpt, kept, carried, trials, stage>>

RestoreFails ==
  LET c == trials[Min(todo)] IN
  /\ Restoring
  /\ \/ /\ cur = NoAttempt /\ spent + billed[c] + reserved > Cap
        /\ UNCHANGED <<file, identity, faults>>
     \/ /\ cur = NoAttempt /\ spent + billed[c] + reserved <= Cap
        /\ AppendFails(Entry("reserve", c, Ceiling))
     \/ cur # NoAttempt /\ AppendFails(Entry("reconcile", c, billed[c]))
  /\ stage' = "failed"
  /\ UNCHANGED <<open, spent, reserved, call, billed, crashes, ckpt, kept, carried, trials, todo, cur>>

-----------------------------------------------------------------------------
(* run_transport for the first missing trial *)

Calling == Running /\ todo = {}

\* The call is refused, for its request, its executor or its price, or its
\* reservation cannot be journaled.
BeginFails ==
  /\ Calling /\ cur = NoAttempt /\ Missing # {}
  /\ \/ UNCHANGED vars
     \/ \E c \in Attempts : ReserveFails(c)
  /\ stage' = "failed"
  /\ UNCHANGED <<ckpt, kept, carried, trials, todo, cur>>

Begin(c) ==
  /\ Calling /\ cur = NoAttempt /\ Missing # {}
  /\ Reserve(c)
  /\ cur' = c
  /\ UNCHANGED <<ckpt, kept, carried, trials, todo, stage>>

\* The call, and its reconciliation; a reconcile that fails leads to a forfeit.
Proceed(c) ==
  /\ Calling /\ cur = c
  /\ Execute(c) \/ Reconcile(c) \/ ReconcileFails(c)
  /\ UNCHANGED <<ckpt, kept, carried, collector>>

\* After a forfeit, or a failed one, the error of the call is raised.
GiveUp(c) ==
  /\ Calling /\ cur = c
  /\ Forfeit(c) \/ ForfeitFails(c)
  /\ stage' = "failed"
  /\ UNCHANGED <<ckpt, kept, carried, trials, todo, cur>>

\* The call was reconciled: its forfeit would have ended the run.
Answered == Calling /\ cur # NoAttempt /\ call[cur] = "over"

\* The response is inadmissible, or the journal cannot be read for the evidence.
Reject ==
  /\ Answered
  /\ stage' = "failed"
  /\ UNCHANGED <<vars, ckpt, kept, carried, trials, todo, cur>>

-----------------------------------------------------------------------------
(* _write_checkpoint: an atomic replacement, then an fsync of the directory,  *)
(* which makes the name of the spend journal durable too                      *)

Replaced(e) ==
  /\ ckpt' = e /\ kept' = e
  /\ linked' = (linked \/ exists)
  /\ UNCHANGED <<exists, lines, ended, synced, lost, memory, call, billed, faults, crashes>>

ReplaceFails(e) ==
  /\ Fault
  /\ ckpt' \in {ckpt, e}
  /\ UNCHANGED <<kept, file, memory, call, billed, crashes>>

\* Mutant of Store: the checkpoint is written before the exact cost is journaled.
StoreEarly ==
  /\ Calling /\ cur # NoAttempt /\ call[cur] \in {"valid", "over"} /\ Parses(lines)
  /\ trials' = [trials EXCEPT ![Min(Missing)] = cur]
  /\ \/ Replaced(trials') /\ cur' = NoAttempt /\ stage' = "run"
     \/ ReplaceFails(trials') /\ cur' = cur /\ stage' = "failed"
  /\ UNCHANGED <<todo, carried>>

Store ==
  /\ Answered /\ Parses(lines)
  /\ trials' = [trials EXCEPT ![Min(Missing)] = cur]
  /\ \/ Replaced(trials') /\ cur' = NoAttempt /\ stage' = "run"
     \/ ReplaceFails(trials') /\ cur' = cur /\ stage' = "failed"
  /\ UNCHANGED <<todo, carried>>

\* Every trial is bound to a reconciled attempt of the journal, at its cost.
Bound(s, f) ==
  \A t \in Have(f) : Entry("reconcile", f[t], billed[f[t]]) \in Range(s)

\* Mutant of Evaluate: the binding of the trials to the journal is not checked.
EvaluateUnbound ==
  /\ Calling /\ cur = NoAttempt /\ Missing = {}
  /\ Replaced(trials) /\ stage' = "done"
  /\ UNCHANGED <<trials, todo, cur, carried>>

Admissible == Parses(lines) /\ Bound(lines, trials) /\ Restored(lines) = spent

\* All trials are there: the evidence is evaluated and written a last time.
Evaluate ==
  /\ Calling /\ cur = NoAttempt /\ Missing = {}
  /\ \/ Admissible /\ Replaced(trials) /\ stage' = "done"
     \/ Admissible /\ ReplaceFails(trials) /\ stage' = "failed"
     \/ ~Admissible /\ UNCHANGED <<vars, ckpt, kept>> /\ stage' = "failed"
  /\ UNCHANGED <<trials, todo, cur, carried>>

-----------------------------------------------------------------------------
(* The end of a process, and of the host *)

Reset == trials' = Nothing /\ todo' = {} /\ cur' = NoAttempt /\ stage' = "run"

Exit ==
  /\ open /\ stage # "run"
  /\ Gone /\ Reset
  /\ UNCHANGED <<file, billed, faults, crashes, ckpt, kept, carried>>

Die == Crash /\ Reset /\ UNCHANGED <<ckpt, kept, carried>>

\* A replacement the directory was not synced for may be undone.
PowerLoss == HostCrash /\ Reset /\ ckpt' \in {ckpt, kept} /\ kept' = ckpt' /\ UNCHANGED carried

CollectNext ==
  \/ Start \/ RestoreOpens \/ RestoreCloses \/ RestoreFails
  \/ BeginFails \/ Reject \/ Store \/ Evaluate
  \/ \E c \in Attempts : Begin(c) \/ Proceed(c) \/ GiveUp(c)
  \/ Exit \/ Die \/ PowerLoss

CollectSpec == CollectInit /\ [][CollectNext]_all

-----------------------------------------------------------------------------
(* Properties *)

\* A trial that is durable in the checkpoint stays there: no resume drops or
\* replaces work that was paid for, whatever failed before it.
TrialsKept == [][\A t \in Have(kept) : kept'[t] = kept[t]]_all

\* The two files agree after any crash: a trial found in the checkpoint has an
\* exact close record that the host cannot lose, even if the checkpoint was only
\* replaced and its directory never synced.
CheckpointIsJournaled ==
  ~lost => \A f \in {ckpt, kept} : \A t \in Have(f) :
             f[t] \notin carried => Entry("reconcile", f[t], billed[f[t]]) \in Range(Durable)

\* Before another call is made, the account covers all that was ever charged, be
\* it restored from the journal or from a checkpoint of one trial.
ResumedAccountCovers ==
  ~lost /\ open /\ todo = {} => Sum(billed) <= spent + reserved

\* Accepted evidence holds every trial, each with an exact close record in a
\* journal that a replay accepts; and the record of every trial that was called
\* is durable.  (A carried trial's need not be: its fsync may have failed in an
\* earlier run, whose line is there all the same.)
AcceptedIsSettled ==
  stage = "done" =>
    /\ Have(ckpt) = Trials /\ Parses(lines) /\ Legal(lines) /\ Bound(lines, ckpt)
    /\ ~lost => \A t \in Trials : ckpt[t] \notin carried =>
                   Entry("reconcile", ckpt[t], billed[ckpt[t]]) \in Range(Durable)

\* comparator_calibration/README.md:132: a resume restores successful charges.
ResumeRestoresAll ==
  ~lost /\ open /\ todo = {} => \A t \in Have(ckpt) : billed[ckpt[t]] <= ChargeOf(lines, ckpt[t])

-----------------------------------------------------------------------------
(* The inductive invariant behind them *)

\* A table of finished trials: each has an attempt of its own, which is over.
Finished(f) ==
  /\ f \in [Trials -> Attempts \cup {NoAttempt}]
  /\ \A t \in Have(f) : call[f[t]] = "over"
  /\ \A t, u \in Have(f) : f[t] = f[u] => t = u

\* The table g has all that f has.
Keeps(g, f) == \A t \in Have(f) : g[t] = f[t]

\* The checkpoint has all that is durable, the running collector all that is in
\* the checkpoint.
FilesInv ==
  /\ Finished(ckpt) /\ Finished(kept) /\ Finished(trials)
  /\ Keeps(ckpt, kept)
  /\ open => Keeps(trials, ckpt)

\* The exact close record of c is durable.
Journaled(c) == \E i \in 1..synced : lines[i] = Entry("reconcile", c, billed[c])

\* A durable line is spoilt for ever.
Ruined == \E i \in 1..synced : lines[i] = Junk

\* Only the current attempt is in a call.  It has no trial yet; when it is over
\* it has been reconciled, if the journal can still be read.
StageInv ==
  /\ todo \subseteq Trials /\ cur \in Attempts \cup {NoAttempt}
  /\ stage \in {"run", "failed", "done"} /\ carried \subseteq Attempts
  /\ ~open => todo = {} /\ cur = NoAttempt /\ stage = "run"
  /\ \A c \in Attempts : Live(c) => c = cur /\ todo = {}
  /\ stage = "run" /\ todo = {} /\ cur # NoAttempt =>
       /\ Missing # {} /\ call[cur] # "new"
       /\ \A t \in Have(trials) : trials[t] # cur
       /\ call[cur] = "over" => Journaled(cur) \/ Ruined
  /\ stage = "done" => Have(ckpt) = Trials /\ Parses(lines) /\ Bound(lines, ckpt)

\* The attempts still to be restored are not in the journal, but for the one
\* that is being restored, which is open, and which the cap has room for.
RestoreInv ==
  todo # {} =>
    /\ todo \subseteq Have(trials)
    /\ stage = "run" =>
         /\ cur \in {NoAttempt, trials[Min(todo)]}
         /\ cur # NoAttempt => Kept(cur) /\ spent + billed[cur] + reserved <= Cap
         /\ \A t \in todo : \A i \in DOMAIN lines :
              /\ ~Closes(lines[i], trials[t])
              /\ trials[t] # cur => ~Opens(lines[i], trials[t])

\* Every trial that was called, and is in the table f, has its record.
Covered(f) == \A t \in Have(f) : f[t] \notin carried => Journaled(f[t])

JournalInv == ~lost => Covered(ckpt) /\ Covered(kept) /\ Covered(trials)

CInv == IInv /\ FilesInv /\ StageInv /\ RestoreInv /\ JournalInv

\* With one carried trial at most: what the account has still to take over.
Pending == {trials[t] : t \in todo}
Due == [c \in Attempts |-> IF c \in Pending THEN 0 ELSE Held[c]]

\* The carried trial stays in the checkpoint.
CarriedInv ==
  /\ \A c, d \in carried : c = d
  /\ \A c \in carried : \E t \in Trials : kept[t] = c

\* What has cost something is reserved, or carried.
PaidInv == \A c \in Attempts : billed[c] > 0 => lost \/ Kept(c) \/ c \in carried

\* The carried trial is the first of the journal.
FirstInv ==
  ~lost /\ lines # <<>> => \A c \in carried : lines[1] = Junk \/ Opens(lines[1], c)

\* It is restored before anything else is written, and the account covers the rest.
DueInv ==
  ~lost /\ open => /\ lines = <<>> => carried \subseteq Pending
                   /\ Sum(Due) <= spent + reserved

CoverInv == CarriedInv /\ PaidInv /\ FirstInv /\ DueInv
=============================================================================
