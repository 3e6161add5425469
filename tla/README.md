# A TLA+ verification of skivolve

Skivolve evaluates skill bundles by A/B runs of agent harnesses: it calls paid
providers for a control and a treatment arm of every case, verifies what they
produced, has eligible pairs judged by a calibrated comparator, and aggregates
the evidence into a release decision. What is hard in it is not the arithmetic
of the decision but the accounting around it: every request must be journaled
before it leaves the machine, money must be reserved before it is spent, a
holdout plan may be used once, and all of this must survive I/O errors, the
death of a process, the loss of power, and two processes in the same directory.

This directory holds TLA+ models of those parts, TLC configurations that check
them on small instances, and proofs, checked by TLAPS, that the main results hold
for every value of the constants. Paths below are relative to `skivolve/` of the
repository unless they start with another name.

- [Inventory of the system](#inventory-of-the-system)
- [The modules](#the-modules)
- [Runs, and what they show](#runs-and-what-they-show)
- [Findings](#findings)
- [Fairness](#fairness)
- [Proofs](#proofs)
- [What is not modelled](#what-is-not-modelled)
- [Observations](#observations)
- [Plan](#plan)
- [Running the checks](#running-the-checks)

## Inventory of the system

### How a run goes

`EvalRunner.run` (`runner.py:2093`): preflight (suite, sources, cases, provider,
comparator authority, holdout plan); check that manifest and plan still are what
was read; make or take an empty result root; claim the holdout plan; create the
comparator-spend directory and one spend ledger per comparison; write the manifest
snapshot; open the dispatch ledger, which takes a lifetime lock; then for every
comparison, case and repetition one pair: two arms (provider call, verifier), a
blind comparison if it is eligible, `pair.json`. At the end plan, provider policy and
comparator authority are compared with what was read, the results are aggregated,
the dispatch journal is audited for attempts that are not settled, the ledger is
closed, and `run.json` is written.

### Components

| Component | Source | State | Operations | What is hard | What makes it correct |
| --- | --- | --- | --- | --- | --- |
| Generator dispatch ledger | `runner.py` `_GeneratorDispatchLedger` | JSONL journal, lifetime flock, remembered file identity and digest, phase per arm | open and replay, plan, mark dispatched / completed / failed, audit, close | torn tails, fsyncs that did not happen, a stale object after a failed append, other processes | one request per logical arm, planned durably before it leaves; an unreadable journal stops everything |
| Arm and pair execution | `runner.py` `_run_pair`, `_run_arm` | two threads, a start barrier, a provider window per arm | prepare, plan, meet, call, verify, handle failures | failure or timeout on one side of the barrier; three places that account a dispatch; exceptions that hide others | both arms call or neither; windows overlap; results agree with the journal; the run ends |
| Comparator spend ledger | `comparator_runtime.py` `SpendLedger`, `run_transport` | amounts spent and reserved, JSONL journal, remembered file attributes | reserve, reconcile, forfeit, replay, restore | overlapping calls, unknown bills, a close record of unknown fate | bills never exceed the cap; every replay charges at least the bill |
| Calibration collector | `comparator_calibration/collect.py` | checkpoint file, evidence in memory, spend ledger | resume, restore, call per missing trial, checkpoint, evaluate | two files that must agree after any death | no paid trial is lost or called again; accepted evidence is settled |
| Run admission, holdout consumption | `runner.py` `run`, `_claim_holdout_consumption`, `_prepare_result_root` | consumption record, result root and what is in it | claim, make and remove a root, snapshot, lock, publish | several runs at once; loss of power after the claim | one attempt per plan; one run per root |
| Codex cleanup poison | `codex_app_server.py` `_CleanupPoisonStore`, `_SystemdRecoveryProbe`, `_owner_lock` | marker file (two names for a moment), owner lock, systemd unit | arm, identify, disarm, recover, heal | death between any two; reused process ids; a marker of another binding | no start while an earlier unit may be alive |
| Codex turn protocol | `codex_app_server.py` `_JsonRpcSession`, `_AppServerProtocol` | pending request, thread and turn ids, items, usage | initialize, start thread and turn, notifications, finalize | notifications before responses, twice, or too late; skills that are switched on meanwhile | a result only from the turn that was started, complete and with valid usage |
| Bounded process transport | `comparator_runtime.py` `execute_bounded_transport`, `providers.py` `ClaudeCliProvider` | reader and writer threads, a deadline, stream bounds, a copy of the credential | start, dispatch callback, feed, collect, kill | end, deadline and overflow at the same moment | no success from a run that was cut; no thread left behind |
| Source materialisation | `runner.py` `_preflight_variant`, `_materialize_source` | fingerprint of a worktree or commit, snapshot | scan, fingerprint, copy, read from Git, look again | edits while files are copied one by one; what Git ignores; links, caches, empty directories | a snapshot is the commit it names |
| Verifier isolation, attested executables | `runner.py` `_run_verifier`, `_VerifierRuntimeBundle`; `comparator_runtime.py` `VerifiedExecutable` | private runtime root, unit of the verifier, copies of programs | copy, launch, judge, check again, restore | updates of installed programs, edits of the case, a unit that outlives its client | a verdict counts only from the program and the case of the preflight |
| Artifact normalisation | `artifacts.py`, `runner.py` `_workspace_diff` | none | strict decoding, line ends, canonical JSON, patch of a workspace | duplicate keys, what a patch cannot show, lines without newline | what is shown is the artifact of what was judged |
| Blind comparison, pair decision | `runner.py` `_compare_blind`, `_map_outcome`, `_run_pair`; `calibration.py` `validate_response` | AB and BA trials | judge, normalise, compare, decide | trials that disagree in one field; labels in the wrong order | no winner from one order alone |
| Aggregation, release gates, cost accounting | `runner.py` `_aggregate`, `_one_sided_sign_test`, `_comparator_cost_accounting` | results of all pairs, accounts | count, test, gate, sum | boundaries of the sign test and of the informative cases; bills of failed pairs | no release from a cell below its thresholds; a known total is the bill |
| Calibration evaluation | `comparator_calibration/calibration.py` | none | validate corpus and reviews, support, score, gate | gates of several rates; one-sided criteria | who passes has earned it |
| Certification, profiles, authority | `comparator_runtime.py`, `comparator_profiles.py`, `certify.py`, `lock_release.py` | corpus, rubric, two releases, registry, evidence, certification | lock, collect, certify, load | files of one release read one after the other while others write them | a runtime is one lock's release, its certification of the same corpus |
| Preflight, selection | `runner.py` `_preflight`, `_select`, `_bind_holdout_plan`; `provider_capabilities.py` | bindings | select, bind a plan, check for drift | values read at one moment and used at another | what runs is what was bound |
| Manifest parsing, path rules of profiles, command line, migration tool | the remaining files | none that lasts | parse, resolve | | pure functions of their input |

### How they interact

- `_run_arm` calls the dispatch ledger before the barrier, from a callback inside
  the provider, and after the provider. The ledger's lock makes it the only user
  of the journal, so one arm's view of it is the register it implements.
- A provider is a Codex session (`CodexTurn`) in a guarded unit (`CleanupPoison`), or the
  Claude client behind `execute_bounded_transport`, which comparator calls use too.
- `run_transport` calls the spend ledger before and after every comparator call.
  The collector uses the same function, and a checkpoint in the same directory: the
  directory fsync of a checkpoint makes the name of the journal durable too.
- `run` connects admission, ledgers and pairs; concurrent runs meet only in the
  file system (consumption record, result root, flock). A preflight binds manifest,
  sources, cases and plan; nobody locks them, so that they are looked at again,
  before and after they are used.
- Collector, `certify` and `lock_release` are processes of their own; they and a run
  meet in the files of a comparator's directory. A run takes from there the
  runtime that its judged pairs rely on.
- Errors travel as exceptions; which of them a handler takes for an error of the
  journal decides whether the run goes on (`runner.py:3844`).

`PROJECT.json` lists the hazards of this code at their lines, with the properties
that would catch them going wrong, or with a note on why none does.

## The modules

| Module | Models | Checked by | Proofs |
| --- | --- | --- | --- |
| `DispatchLedger` | the dispatch journal, its processes and crashes | `MCDispatchLedger` | `DispatchLedgerProofs` |
| `AttemptRegistry` | abstract: what the dispatch ledger promises | as a property of `DispatchLedger` | `DispatchLedgerProofs` |
| `ArmPair` | pairs of arms, barrier, dispatch accounting, end of the run | `MCArmPair.cfg`, `CodexDispatch.cfg` | `ArmPairProofs` |
| `SpendLedger` | the spend journal under `run_transport` | `MCSpendLedger` | `CalibrationCollectProofs` |
| `CalibrationCollect` | the collector, extending `SpendLedger` | `MCCalibrationCollect`, `CollectResume.cfg` | `CalibrationCollectProofs` |
| `RunAdmission` | holdout claim, result root, order of artefacts | `MCRunAdmission` | `HoldoutRunProofs` |
| `HoldoutRun` | preparation and binding of a plan, drift checks of a run, extending `RunAdmission` | `MCRunAdmission` | `HoldoutRunProofs` |
| `Trees` | directory trees: scan, copy, digest | through `SourceSnapshot` and `VerifierCell` | `HoldoutRunProofs` |
| `SourceSnapshot` | a source from its preflight to its snapshot | `MCRunAdmission` | `HoldoutRunProofs` |
| `Patches` | the text of a patch, as it is joined and as it is read, extending `Trees` | through `VerifierCell` | `HoldoutRunProofs` |
| `Artifacts` | normalisation of an answer | through `VerifierCell` | |
| `AttestedProgram` | a program of the host and its private copy | through `VerifierCell` | `HoldoutRunProofs` |
| `VerifierCell` | an arm from the agent's answer to the verdict, extending the three above | `MCRunAdmission` | `HoldoutRunProofs` |
| `CleanupPoison` | the Codex cleanup marker, launch, recovery, systemd | `MCCleanupPoison` | `CleanupPoisonProofs` |
| `CodexTurn` | one JSON-RPC session with the Codex app server | `MCCodexTurn` | `CodexTurnProofs` |
| `BoundedTransport` | one call of the Claude client in its unit | `MCBoundedTransport.cfg` | `BoundedTransportProofs` |
| `Judgement` | a comparator's answer and its canonical form | through `ReleaseDecision` | `HoldoutReleaseProofs` |
| `ReleaseDecision` | pairs, trials, cells, accounts, gates of a run | `MCReleaseDecision` | `HoldoutReleaseProofs` |
| `Calibration` | corpus, reviews, support, scores and gates of a comparator | through `ComparatorAuthority` | `HoldoutReleaseProofs` |
| `ComparatorAuthority` | locking, collecting, certifying, loading | `MCReleaseDecision`, `CollectGold.cfg` | `HoldoutReleaseProofs` |
| `HoldoutRelease` | composition: `ReleaseDecision` with the runtime of `ComparatorAuthority` | `MCReleaseDecision` | `HoldoutReleaseProofs` |

The `MC` modules only name model values and small sets (`MCCorpora` and `MCAuthority`:
corpora and judges; `MCRunAdmission` also puts its four parts side by side). Definitions
called "Mutant of ..." are small bugs (a dropped guard, a missing sync) put next to the
definition they stand in for; they are part of no specification, and show that
each property fails when the code is wrong in that way.

Three conventions hold in all modules. A file is what the page cache has; `synced`,
`linked`, `durable`, `kept` say what a loss of power cannot take. An operation
that can raise has a failing counterpart, at each point where the code leaves
different bytes behind. `faults` and `crashes` (`losses`, `deaths`) count errors and
deaths, `edits`, `touches`, `updates`, `deviations` what others do meanwhile; they are
bounded by constants, and nothing else depends on them.

### DispatchLedger

State: the journal (`exists`, `recs`, `torn`, `synced`, `linked`), the flock
(`holder`), and per process the object (`status`), what it remembers of the bytes
(`view`) and of the arms (`mem`), the append it is in (`op`), the arms it may call
the provider for (`ready`); `sent` counts the calls.

`OpenNew`, `OpenExisting`, `OpenRefused` are the constructor, with the lock, the
directory fsync that comes with it, and the replay. `Begin` is `plan_attempt` and
the three `mark_` methods up to the write, with `_sync` as its guard: bytes as
remembered, replay as remembered, phase as required. `Write`, `Fsync`,
`FsyncDirectory`, `Commit` are `_append`; `WriteFails`, `StoreFails`, `AttestFails`
are the places where it raises, each leaving other bytes and another memory. `Crash`
and `HostCrash` end one process or all; the latter keeps any prefix of the records
that is not shorter than `synced`, perhaps with part of the next, or removes a
file whose name was never synced. Digests, byte limits and permissions are left out;
the remembered identity is the remembered records.

`AttemptRegistry` is the promise: a phase per arm that only moves forward, and a
call only for an arm that is in the register. The refinement reads the phases off
the durable records, so a step of the register is the fsync and not the write.

### ArmPair

State: the position of the run, the `threading.Barrier` (filling, draining,
broken), the local variables of `_run_arm` for both arms (program counter, pending
exception, `journal`, `synced`, `dispatched`, window), the ledger as the register of
`DispatchLedger` that may refuse or break, and what left the machine
(`transmitted`) and was reported (`report`).

Each action is one stage of `_run_arm`, in the order of the code, with its two
outcomes. `Account` is the callback inside the provider: Codex has transmitted its
turn by then and turns the callback's error into its own; Claude has started a
process that has not got its prompt; the fake provider never calls back.
`AccountLate` is the second accounting after the return. `Finally` may replace a
pending exception, as `_make_tree_writable` does. `Abort` and `AccountFailure` are
the handler. The monotonic clock ticks once per reading, so that windows are
compared by order alone.

### SpendLedger

State: the journal as lines, with `ended` for the newline of the last one; the
object (`open`, remembered `identity`, `spent`, `reserved`); for every call its
stage and its bill. One mutex covers each operation in the code, so an operation
is one step; its failing counterparts stop before the write, within it, at the
fsync, or at the directory fsync of a new file (`FailsBefore`, `FailsWriting`,
`FailsSyncing`, `FailsLinking`). The code accepts a last line without newline, and
the next append joins it: `Written` models that, and the joined line is `Junk`,
after which no replay succeeds. `ReconcileFails` leads to `Forfeit`, as the
exception does in `run_transport`; the two records of one call are kept apart only
by the stale identity after a failed append.

Money is counted in whole units. The provider is assumed to keep to the ceiling
it is given; the code passes it as a hard limit and rejects a larger cost.

### CalibrationCollect

Extends `SpendLedger` by the checkpoint (`ckpt`, and `kept` for what a loss of
power cannot undo), the running collector (`trials`, `todo`, `cur`, `stage`) and
the attempts of a carried checkpoint. `Start` reads both files. `RestoreOpens`
and `RestoreCloses` are the two appends of `restore_reconciled`; unlike a call they
reserve nothing. `Begin`, `Proceed`, `GiveUp` run one call; `Store` writes the
checkpoint; `Evaluate` is the final evaluation with its comparison of evidence and
journal. The collector leaves at the first error (`Exit`).

### RunAdmission

State: where each run is, the record and whether its directory was synced, the
roots that exist and what is in them, the lock, the planner and the publisher of each
root, the runs that have called agents. `LookForSpend` and `MakeSpend` are two
steps, because `_mkdir_private` looks before it creates and passes over
`FileExistsError`: two runs can both go on, and the lock and the journal of the
dispatch ledger have to part them. `RemoveRoot` is the `rmdir` after a failed claim,
which must leave alone what another run has put there.

### HoldoutRun

Extends `RunAdmission` by what a run uses. Each file of the suite is a version number;
`Edit`, `CommitSource` and `EditPlan` make a new one at any moment. `PrepLook` is one of
the seven looks of a preflight (`Looks`), first for `prepare_holdout_plan`, which writes
the plan file in two steps and then proves it by another preflight (`ProvePlan`), and
then for the run that is watched (`Look`, `BindPlan`, `Admit`). `CheckPair` to
`CheckVerifier` are the checks, reads and copies of the last pair and its arm with a
source, in the order of the code. One run is watched, in a root of its own; when
none is, `RunAdmission` has its full interleaving. `asOf` remembers the versions at
the moment when the plan was written.

### Trees, SourceSnapshot

A tree is a function from paths to nodes: absent, a file with contents and mode, or a
link. `Trees` has the scan with its refusals, the states that a digest covers, what Git
knows of a commit, and the copy with and without caches. In `SourceSnapshot` `PreflightRef` and `PreflightWorktree` take the fingerprint;
`CheckTree` to `CheckCleanTree` are `_materialize_source` for a worktree, with one step
for each file that is copied, and `TakeCommit` for a Git ref. `EditFile`,
`MakeEmptyDir` and `CommitAll` are somebody at work in the repository.

### Patches, Artifacts, AttestedProgram, VerifierCell

`Patches` has the text that `_diff_states` makes of two trees: a sequence of words, where a
newline is a word, and a line of a file that has none goes on with the next line of the
patch. `Words` says what a content spells; a content without an entry is not UTF-8 and
is shown by its hashes. `Chunks` is the body of the loop, `Joined` the join with the newline
at the end of it, `Representable` what `_assert_runtime_pair_representable` lets through
to a judge, and `ReadAs` what `git apply` makes of a patch in `_validate_patch`.
`Artifacts` refuses or normalises an answer: strict UTF-8, line ends, JSON with unique
keys and finite numbers, put in order. `AttestedProgram` has one program of the host, which
is updated in place by two writes or by a rename, and what the harness does with
it: attest (`Open`, `ReadDigest`, `Ask`, `Attested`), and later reopen, compare and copy
(`Reopen` to `Verify`), each read in two halves; `Launch` is what a held executable
looks at before each start. `VerifierCell` takes an arm from `AgentAnswers` through scan,
artifact and check of the case to the private workspace and runtime, `StartUnit`, the
unit's own steps (`Judge`, `UnitExits`), the client's (`ClientReturns`, `GiveUpUnit`), and
the checks after it (`TakeVerdict`, `Restore`, `Count`). Any step may fail (`ArmFails`);
a private file may be spoilt; a unit may outlive its client.

### CleanupPoison

State: who holds the owner lock, where each provider is in `run_agent`, the marker
(which unit, whose binding, and which of gate, process id and control group it
has recorded), the temporary name beside it, the gate of every unit (`writer`: the
provider still holds the pipe; `token`: the gate has been written to), and outside the
provider the launcher, the unit, its members and process ids taken by others.

`Read` to `Clear` are `recover`; `Arm` to `ConfirmActive` the launch, with one `Record`
for each of the three `_transition`s; `Stop` to `CleanupFails` are `close`; `Disarm`.
`Fails` is an exception at any of them: once the shell was started the constructor
rolls back through `close`, and the marker stays. `Die` ends a provider, whereupon the
kernel closes the pipe and releases the lock. The unit goes its own way: it starts as a
step of `systemd-run`, ends, may leave members in its cgroup, and is unloaded.

Assumed of systemd, from how the code uses it: a unit is created as one step of
its launcher, and a unit with members is not unloaded. The marker is on a tmpfs
(`/run/user`), so losing power loses marker and units together.

### CodexTurn

State: the client (`stage`, the listing it reads, announced and confirmed ids, messages,
usage, rolling rate limits), the pipe, and the server with its skills, limits and turn.
One action reads each kind of frame; what a stage does not accept ends in `Fail`.
Requests go out one at a time (`Ask`, which also accounts the dispatch of the turn);
notifications may come before the response of the request that caused them
(`EitherOrder`). `Deviate` is a server that repeats frames, sends those of another
turn or thread, or something forbidden.

### BoundedTransport

State: the main thread, two readers and the writer, streams closed and bytes read,
the client, its unit, the deadline, and the private runtime directory. `Prepare` and
`Spawn` start; `CallBack` is the dispatch callback; `Poll`, `Check`, `Wait`, `Join`, `Close`,
`Conclude` are the main thread, with `StopProcess` for the stop of unit and client. A
thread inside a read or a write holds the lock of its stream, so that `Close` waits for
it. `Answer` is what the two callers make of the result, `Tidy` the removal of the
directory with the credential.

### Judgement, ReleaseDecision

`Judgement` has the operators on one answer: eligibility, canonical labels, outcome, what
`run_transport` refuses. In `ReleaseDecision` a run has cells, cases and three pairs per
case. `RunArms` gives the results of both arms; `Reserve`, `Reconcile`, `Forfeit`,
`Accept`, `FailBefore` are the two trials, which run at the same time on one account;
`Decide` is the pair's winner, `EndCase` and `EndCell` the case result and the gates of a
cell, `Aggregate` the report. Arms and comparator keep to the `merit` of the case but for
`odd` deviations, which keeps the number of histories small without leaving out
what a deviation can do. `bills` is what the calls really cost.

### Calibration, ComparatorAuthority, HoldoutRelease

`Calibration` is pure: `ValidCorpus` with coverage and reviews, `Supported`, `Passed` with
its rates. `Earned` says independently what a comparator must have got right.
`ComparatorAuthority` has the documents on disk by name; `LockProduction` to `LockEnds` are
`lock_release`, with its three writes; `StartReader` and `ReadNext` read the parts of a
directory or a profile one after the other; `Collect`, `Certify` and `Load` use what
was read. `Rewrite` and `Discard` are edits. A comparator is the set of trial keys at which
it does not answer as the corpus is labelled. `HoldoutRelease` admits a judged run
only with a runtime that was loaded so, and then goes on as `ReleaseDecision`.

Left out here: that `evaluate_evidence` reads harness files once more; the evaluator's
own source digests, which are part of the harness; profiles of a suite of its own, for
which no program writes a certification; torn writes of a release file, which are
always refused; the built-in scope "test". A lock reads the documents of one release in
one step. The deaths of a collector are in `CalibrationCollect`; here its evidence is
complete.

## Runs, and what they show

| Run | Instance | Distinct states | Result |
| --- | --- | --- | --- |
| `dispatch_ledger` | 3 processes (one of another suite), 2 arms, 1 I/O error, 2 deaths | 276,606 | pass |
| `arm_pair` | 2 pairs, each of the three providers | 1,173,222 | pass |
| `codex_dispatch` | 1 pair, Codex | | violation |
| `spend_ledger` | 3 calls, cap 5, ceiling 2, 2 I/O errors, 2 deaths | 180,801 | pass |
| `calibration_collect` | 2 trials, 3 attempts, cap 5, ceiling 2, 2 errors, 2 deaths, a fresh start or a carried checkpoint of one trial | 202,397 | pass |
| `collect_resume` | as above, 1 error, 1 death, carried checkpoint of two trials | | violation |
| `run_admission` | 2 runs of one plan and a public run, 2 roots, 1 loss of power; or one watched run with 2 edits; or one source with 2 touches; or one verifier with an update | 901,340 | pass |
| `cleanup_poison` | 2 providers of different bindings, 2 launches, 1 error, 2 deaths | 351,227 | pass |
| `codex_turn` | 1 skill, 3 buckets; 2 pages, messages, notices, frames in the pipe; 1 deviation | 3,127,192 | pass |
| `bounded_transport` | limit 3, chunk 2, up to 4 bytes per stream | 1,306,359 | pass |
| `release_decision` | 2 criteria, 1 requirement, 10 plans; 2 corpora of ten pairs, 5 deviating judges, 2 edits | 1,015,696 | pass |
| `collect_gold` | 1 corpus of ten pairs, with the packaged corpus' labels | | violation |

**dispatch_ledger.** `AtMostOneSend`: no arm is sent twice, across processes,
failed appends and restarts. `SentIsDurablyPlanned`: a sent arm has a plan no crash
can take. `FailStop`: an object whose memory does not follow the file writes nothing.
`ImplementsRegistry`: the refinement. Why the bounds suffice: a second send needs two
openings and one lost or forgotten plan; two deaths and an error in any order, with a
third process of another binding, include every such history that the constants
distinguish. The proofs remove the bounds for all four.

**arm_pair.** `BothOrNeither`: a concurrent pair enters its provider with both arms
or with none, whatever fails or times out. `WindowsOverlap`: the check of `_run_pair`
never discards a pair that went through the barrier. `ReportedIsSettled`: result and
journal agree. `DispatchedBeforePrompt`: the Claude process reads no prompt before the
journal says dispatched. `DamageStopsRun`: a damaged journal ends the run, even
if `finally` has hidden its exception. `Termination`. Two pairs are needed for what one
pair leaves to the next (the journal, `broken`); a third adds nothing new, as barrier
and arms are made afresh. The proofs remove the bound for all but `Termination`. Deadlock
is checked: a finished run stutters explicitly.

**spend_ledger.** `BudgetHolds`: the sum of all bills stays within the cap, over
all lives. `BillsAreCharged`: what the disk holds charges every call at least its bill.
The cap holds two ceilings and a half: two calls fit, a third fits only after an exact
reconciliation, and one unit must not be enough. Both exclude `lost`, the loss of a
file whose name was never durable; see [Observations](#observations). The proofs remove
the bounds for both.

**calibration_collect.** `CheckpointIsJournaled`: every checkpointed trial has a
durable exact record, although two files are written one after the other.
`ResumedAccountCovers`: over all lives of the collector its account covers what was
charged. `AcceptedIsSettled`: evidence is accepted only if it is complete and bound to a
journal that a replay accepts, with a durable record of every trial that was called; the
record of a carried trial may still be undurable. `TrialsKept`: no resume drops a durable
trial. Carried checkpoints are limited to one trial here, for the reason shown by
`collect_resume`. The proofs remove the bounds for all four; `ResumedAccountCovers` alone
keeps the limit of one carried trial.

**run_admission** has four parts, of which an initial state chooses one; the others are
off. *Admission*: `OneAttempt`, `ConsumedBeforeCall` (the single-attempt rule of
`README.md:242`), `OneRunPerRoot`. Three runs and two roots give every sharing of plan
and root by two, with a third in the way. *Binding*: `HandedOutIsOneState`, a plan that
is handed out is one state of the suite although it was put together from seven looks;
`PublishedIsBound`, what a published run used is what its plan binds, and its exceptions
say what goes unnoticed. Two edits are one before and one after any check. *Source*:
`SnapshotIsCommit`, for worktree and Git ref, schema 3, 4 and 5, eleven commits (modes,
links, caches, ignored and missing files) and two of edit, new directory and commit
between any two steps; no path is edited twice, three entries are the limit of a tree.
*Verifier*: `VerdictIsAttested`, for the three kinds of artifact, six answers (with a last line
without newline and a file that is not UTF-8 among them), two versions of the case and one
update of the program; for a diff, the artifact is the text of the patch from the
preflight's fixture to the tree that was judged. What a comparator reads from that text
is not part of the property, see `PatchAssumption` below. A plan, the admission and the runs
stay as they are while another part is looked at: they share no state in the code either,
except through the bindings that `HoldoutRun` follows. An `ASSUME` of `MCRunAdmission`
compares the normalisation of line ends with a definition by counting, for all texts up to
length 5. The other, `PatchAssumption`, is about patches (`ReadsBack`): the files and modes
that a comparator reconstructs are those that were judged, or it is not given the patch; a
last line without newline gets one, or takes in the header of the next file, and nothing
else happens (see the observations). It has to hold for whatever trees read as one patch, so
that a text which stands for two works would break it. Two paths, each changed, new,
deleted, executable, not UTF-8 or without newline, give every order of chunks. And of trees
whose lines all end with a newline, each has its own patch. The proofs remove the bounds on
runs, roots, edits, trees and updates for the properties.

**cleanup_poison.** `MarkerGuards`: while a unit runs, has members or may still be
started, the marker names it, and no provider prepares the mount or launches another,
whoever died at any step. `LaunchIsIdentified`: once the gate is open, the marker tells
the launcher from any other process. `NoNeedlessRefusal`: when nothing is left of the
unit, no provider of its binding is turned away, even by a marker with two names or a
reused process id. `LockIsReleased`: every provider that takes the lock gives it back. Two
launches give the one that leaves a marker and the one that must not start under it;
two deaths include the death of the provider that recovers. When the unit names are
used up an attempt ends early, which stands for a launch that is not made. The proofs remove
the bounds for the three invariants.

**codex_turn.** `OutcomeIsOwnTurn`: the outcome is the last message and token count of the
turn that was run, whatever frames of others or repetitions came. `SkillsStayDisabled`: no
outcome comes from a turn during which a skill was enabled at any moment.
`HonestIsHeard`: a server that does not deviate is never refused for the order of its
frames. Three buckets pass the client's limit of two; two frames in the pipe are an
order and its reverse; a repeated or foreign frame is a deviation, and one is enough to
come at every place.

**bounded_transport.** `AcceptedIsWhole`: what is accepted is all the unit wrote, and the
unit ended by itself. `ReasonIsReal`: overflow and timeout are reported only when they
happened. `NothingStaysBehind`: threads, pipes, client and unit. `CallEnds`. A limit of
three with chunks of two lets a stream stay under, meet and pass its limit in the first
and the second read. The proofs remove the bounds for the three invariants.

**release_decision.** `WinnerIsPreferredTwice`: a winner by judgement was preferred in
both orders. `AuthorizedIsWon`: a release is won by enough informative cases in every
cell, and no pair went wrong. `TotalIsTheBill`: a total that is reported as known is what
all calls cost, failed pairs included. `PlanCoversCalls`: an admitted plan is never refused
a call. `ComparatorIsEarned` and `LoadedIsOneLock`: the comparator of a judged run passed
on its own corpus, and its runtime is the release of one lock. One case is followed with
every pair of deviations; a release needs eight cases (`MinCases`, the number of the
code), where one simple deviation moves it across every threshold. Corpora have ten pairs
instead of thirty, so that a rate of 95 for requirements and violations becomes 90: one
pair is a tenth. The proofs remove the bounds for all but what the test of a cell means
in `AuthorizedIsWon`.

Deadlock is not checked where processes may simply stop: a ledger nobody opens again
after the bounded errors and deaths is a legal end. Elsewhere a finished run stutters.

## Findings

Three runs check a sentence of a document or of a test and find it violated;
`PROJECT.json` quotes the lines.

1. `codex_dispatch` (`codex_app_server.py:905`). `tests/test_runner.py:3920` states that
   a failed dispatch append aborts a Codex run. The Codex session turns the error into
   a `ProviderError`, which the handler takes for an ordinary failure: if the append
   failed before writing a byte, the run goes on and publishes, with a transmitted
   request journaled as not observed.
2. `collect_resume` (`comparator_calibration/collect.py:226`). The documentation says
   that resume restores both successful and forfeited charges. A restore that dies
   half-way leaves a journal that is not empty, and the next resume takes it for
   complete. The final evaluation refuses such evidence, after the money is spent.
3. `collect_gold` (`comparator_runtime.py:1563`). The tests treat the scoring gold as
   evidence that passes. `run_transport` refuses a winner in a criterion that is not
   decisive in the release; the gold of one packaged pair
   (`typescript-test-breadth-tradeoff`) names one, so that a comparator that answers as
   the gold ends its own collection, and one that says tie fails the rate of that
   criterion.

## Fairness

Three modules state liveness. In `ArmPair`, `Spec` has weak fairness of the run and of each
arm's steps: the arms are threads of a pool and every wait in them is bounded by a
timeout (the barrier's `min(30, timeout)`, the provider's, the verifier's), so an
enabled step is taken in the end. `TimeOut` is one of the arm's steps and needs no
fairness of its own. In `CleanupPoison` each provider that has the lock is weakly fair:
its waits for systemd, the launcher and the cgroup all have a deadline, which `GiveUp`,
`ConfirmActive`, `Reap` and `CleanupFails` stand for; systemd and the unit are not
assumed to do anything. In `BoundedTransport` the main thread and the other threads are
weakly fair, time passes, a client that was killed dies, and a unit ends: units are started
with `RuntimeMaxSec` and `KillMode=control-group` (`comparator_runtime.py:993`,
`providers.py:1555`). The unit need not write, end by itself or start. No fairness is
assumed of the file system, of the Codex server or of other processes; the other
specifications state safety only.

## Proofs

All proofs are checked by TLAPS without assumptions other than those the modules
name: finite sets of attempts, natural bounds, a binding for each process, a run of
at least one pair, providers among the three of the code, `NoProc`, `NoRun`, `NoAttempt` and
the absent marker distinct from what they stand beside, holdout and judged runs among the
runs, at most as many carried trials as there are, plans with cells and cases, gold labels
of the contract's own names, commits with a node for every path, contents that spell
different texts, and an order of the paths. One theorem, `AccountCovers`, assumes in
addition that at most one trial is carried; `collect_resume` shows that it needs to.

**DispatchLedgerProofs.** `Invariance` proves `IInv`, which has the type invariant;
`OwnerInv`: lock, object and append belong together, and an open ledger has a durable
name; `AppendInv`: what each stage of an append has established; `SendInv`: an arm that
may be sent is unsent and durably planned. `AtMostOneSend` alone is not inductive: that
a new plan is for an unsent arm follows only because a sent arm's plan is found by every
replay, hence `SentIsDurablyPlanned` in a form that names the durable record. On top of it,
`CheckedInv` (when the bytes are those a process remembers, they replay to what it remembers
of the arms) gives `FailStop`. For the refinement, `PhasesAdvance` shows that one more record
moves one phase forward, and `DurableGrows` that the durable records are only ever extended,
by one record, whoever dies; so every step of the ledger is one of the register or leaves it
alone. Theorems: `TypeCorrect`, `SendsAtMostOnce`, `SendsAreAccounted`, `JournalReplays`,
`WritersFailStop`, `Implements`.

**CalibrationCollectProofs, the ledger.** `IInv` adds to the types `FileInv` (an unended line is never
durable), `AccountInv` (the account holds a ceiling for every live call, so nothing
underflows), `CallInv` (`Kept`: a live or billed call has its reservation, or a spoilt
line, among the durable lines; a close record never undercuts the bill) and `OrderInv`
(up to the first spoilt line the journal is in order, and a live call of an object that
still matches its file has no close record). The disjunct about spoilt lines is needed:
after a tail without newline, a reservation can be joined to it and be lost to every
replay, but then every replay fails. `BudgetHolds` is about a sum over all calls. `BilledInv`
compares it with two other sums: what the lines of the journal charge, and what the open
object has spent and reserved (`Held`). That a sum changes with one summand, and is monotone,
is shown by a least counterexample, since induction over an operator cannot be instantiated.
Theorems: `TypeCorrect`, `JournalOrder`, `EveryBillIsCharged`, `BudgetIsKept`.

**CalibrationCollectProofs, the collector.** A collector changes the ledger by steps of its own, so `CInv`
(in `CalibrationCollect`, where TLC can look at it) holds the ledger's invariant again and
adds `FilesInv`: what may survive, the checkpoint and the running collector each have all of
the one before; `StageInv`: only the current attempt is in a call, and when that is over its
exact record is durable unless no replay will succeed any more; `RestoreInv`: what a
restoration has still to write is not in the journal; `JournalInv`: every called trial in one
of the tables is journaled (`Covered`). `TrialsKept` is an action property: a replacement
has what it replaces. Theorems: `CollectInvariance`, `CheckpointAgrees`,
`AcceptedEvidenceIsSettled`, `DurableTrialsStay`, `CollectedJournalOrder`, `AccountCovers`.

**HoldoutRunProofs.** For the admission, `AdmissionInv` adds `RecordHeld` (a holdout run past
its claim owns a durable record), `PlanHeld` (a run that has planned owns the plan of its
root) and `RootKept` (the snapshot pins the root) to the types. For what a run uses, the
versions of `IInv` only grow (`Grown`: whatever was seen is at most what is there, and a plan
binds what was there at most when it was written). The preparation looks at everything a
second time after it wrote the plan (`ProofIsLater`), so a version it finds equal to the plan
is one from before the write and from after it, hence the one at the write: the digests of a
plan handed out held at one moment. `RunIsBound` carries that through the checks of the run,
and `Unpublished` separates its root from others. Theorems: `AdmissionInvariance`,
`TypeCorrect`, `SingleAttempt`, `ConsumptionComesFirst`, `SingleRun`, `RootsStay`,
`Invariance`, `HandedOutIsTrue`, `PublishedIsTrue`.

**HoldoutRunProofs, a source.** `SnapshotIsCommit` compares what was copied with the commit,
while the code compares digests of the worktree before and looks at Git's status after. The
preflight fixes what every path has (`FingerprintMeans`: equal fingerprints mean equal files). From then on `SourceInv` follows each path by itself: one that Git
sees is as it was, with what was copied of it like the commit (`LikeCommit`,
`TakenLikeCommit`), or it was edited and differs from HEAD, and then the last look at Git
refuses the worktree (`VisibleInv`). Paths that Git ignores have only `UnmovedInv`, which ends
with the first edit; that is what the property leaves open. Theorems: `SourceInvariance`,
`SnapshotsAreCommits`.

**HoldoutRunProofs, a verifier.** `CellInv` has first the program of the host. `ReadInv`: the
times of a file only grow, so a time that is still the same means that what was read, half by
half, is what is there; hence what is attested was whole once (`CopyInv`, with `HadInv`), though
an update may have been half done between two reads. Then the arm. `CaseInv`: the fixture
is the preflight's as long as the case has its number, and once that was looked at it stays so.
`ArtifactInv`: the artifact is the patch from the fixture to the tree that is passed on, to the
unit and to what the unit saw, although the artifact is made from one scan, and the unit is
given a copy of a copy; it holds whatever text `DiffStates` makes of two trees. `UnitInv`: what the unit saw is what it was given, and if the bundle is found as
it was, it was run with what was attested. `VerdictInv`: a verdict that can count was taken
when the unit was over, and no drift was seen after it. The times of the files and the unit
that is over are what makes the property inductive: without them a verdict could still be
followed by a write. Theorems: `CellInvariance`, `VerdictsAreAttested`.

**ArmPairProofs.** What goes wrong at a barrier goes wrong between two arms, so `IInv`
speaks of both together. `PlaceInv`: what the place of an arm says about it. `MeetingInv`:
while the barrier fills, both have passed the same meetings or one is on its way out;
while it drains, one still waits and the other has just left; once it is broken, nobody
passes the second meeting. `WindowInv`: an arm past the second meeting knows that both
windows have begun. `JournalInv` (`Accounts`): what the local variables of an arm say about
the journal, which is what its handler relies on. `FutureInv`: later pairs find nothing.
`ReportedIsSettled` and `DispatchedBeforePrompt` are parts of the invariant;
`BothOrNeither` and `WindowsOverlap` follow from it. `DamageStopsRun` is an action property:
`BrokenInv` says that an arm which has met the damaged journal is `Doomed`, whatever its
handler replaces the exception with, and that the run goes to its next pair with no such
arm. Theorems: `Invariance`, `NoUnpairedCall`, `CompletedOverlap`, `ResultsAreSettled`,
`PromptIsJournaled`, `BrokenRunStops`.

**CleanupPoisonProofs.** `LockInv`: only the holder of the owner lock is inside, and what it
launches is its marker's. `RecoveryInv`: what `recover` has made sure of stays so, because
nobody else acts. `UnitInv`: a unit of which something may still run is the marker's, and
the marker has the gate of what was started and the process of what was opened; `WriterInv`
and `LaunchInv` say who may still open a gate. `CalmInv`: where nothing was left when the
lock was taken, nothing is left at any later step of the recovery, so that each refusal
contradicts one of these facts. Theorems: `CleanupInvariance`, `MarkerIsKept`,
`LaunchIsRecorded`, `CalmIsAdmitted`.

**BoundedTransportProofs.** `StartInv`: there are threads only when there is a client, and a
unit only then. `StreamInv` (`Read`): what a reader has got of its stream; one that has ended
has all of it, unless it failed or some stream has overflowed. `StopInv`: nothing is stopped
without an overflow or a timeout, except for a call that ends so. `ResultInv`: the result says
how the call was left. An accepted result then leaves no way for unread output. Theorems:
`TransportInvariance`, `AnswersAreWhole`, `ReasonsAreReal`, `NothingIsLeft`.

**CodexTurnProofs.** The frames between server and client are part of the argument, so most
of `IInv` speaks of places in `channel`, and every action either reads the first frame or adds
one or two at the end; lemmas `Tail...` and `Join...` say once for each part what both keep.
`RequestInv`: one request is outstanding and has one response. `TurnInv`, `AwaitedInv`: the
turn begins with the answer to its request, and the client knows its name only from there.
`SpokenInv`, `HeardInv`, `UsageInv`, `EndInv`: what was read and what is on its way are together
what the server said, in order, with nothing behind the end, unless a message was heard twice,
which ends in no outcome. `SkillsInv`: whoever enables a skill after the second listing has a
notice before the end of the turn. `AnnouncedInv`, `OrderInv`, `PagesInv` hold as long as the
server does not deviate. `OutcomeIsOwnTurn` is not inductive without all of these, since a
repetition that is still in the pipe decides what the next frame may be. Theorems:
`TurnInvariance`, `OutcomeFromOwnTurn`, `NoSkillInTurn`, `HonestServerIsHeard`.

**HoldoutReleaseProofs.** Three invariants and the facts on answers between them. `RunInv`, of
`ReleaseDecision`: `BudgetInv`, the account is at most the price of the calls begun, and there
are six of them for a case, so that an admitted plan covers what can still come; `BillInv`, the
bills and the known costs differ only by what is open or counted as unknown; `SpoilInv`, what
went wrong is already a blemish, or is in a pair that is over, or will be once this one is.
A winner by judgement is traced back to its two answers: equal canonical decisions mean that
both answers prefer the same patch (`OutcomeIsPreference`, `AgreementIsMirrored`), and for a
corpus a passing verdict means the same of every hard pair (`PassedIsEarned`). `AuthInv`, of
`ComparatorAuthority`: every release in a file was computed by a run of `lock_release`; what
a reader has read was once in the files; hence what is loaded agrees with itself, and its
certification carries a verdict on its own corpus. `HoldoutInv` joins both: until the run is
admitted it has `AuthInv`, and from then on what the admission has checked. Theorems:
`RunInvariance`, `AdmittedRunIsARun`, `WinnerWonTwice`, `TotalIsPaid`, `NoCallIsRefused`,
`ReleasesAreWon`, `AuthorityInvariance`, `LoadedWasLocked`, `HoldoutInvariance`,
`JudgedByEarned`, `AdmittedWasLocked`.

**HoldoutReleaseProofs, the sign test.** The code sums binomial coefficients, each a quotient
of factorials; `AuthorizedIsWon` counts the subsets of the informative cases with at least as
many wins. `SignTestCounts` shows that both are one number, for any number of cases. The
factorial exists because every table of its first values can be extended (`TableExists`,
`FactorialIs`). The subsets of k of n things split by whether they have the last one
(`Pascal`, a bijection), so their number times the factorials of k and of n - k is the
factorial of n (`WaysAndOrders`), the division leaves no remainder (`DividesExactly`), and the
coefficient is their number (`ChooseIsWays`). Each of these inductions is a least
counterexample in a set of numbers (`Least`), since the library's induction cannot be
instantiated. `VerdictsInv` then follows the cells of a run: each one that is over has its
verdict, and one that is authorised is fair (`AuthorizedIsFair`).

**Model-checked only.** `Termination`, `LockIsReleased` and `CallEnds`, since liveness under
fairness is beyond the prover. Every safety invariant and action property of the passing
runs is a theorem. What `Patches` computes are folds over sequences, a proof about which
needs an induction over data, so how a patch reads back is only checked for small trees
(`PatchAssumption`). The functions on the documents of a calibration (support, rates) are
only checked through the verdicts that use them.

## What is not modelled

- Digests, byte limits, permissions, ownership: the checks that compare them are steps
  that may fail. A file changed by hand is such a failure.
- The validation of a document's fields (`manifest.py`, the fields of a plan, of a
  checkpoint, of a certification), the path rules of profiles, the table in
  `provider_capabilities.py`, the command line: pure functions of one input with one
  answer, yes or no, where a model would repeat the code. Most of the code that the map
  does not cover is of this kind.
- The oracles of the cases (`cases/`): programs that a verifier runs.
- The migration tool and the lock of the plain-language profile, which has the form of the
  software profile's.
- `charge_historical` of the spend ledger: nothing in the package calls it.
- Two collectors on one journal: no lock parts them and no document promises one.
- Rounding of amounts: the code compares floating-point sums; a unit of the model is
  far above any error of a sum.
- Files longer than three lines, and files that change in several places: `UnifiedDiff`
  keeps what two files have in common at their beginning and end, in one hunk. Lines that
  end with `\r\n`, which a judge reads with a newline, and a new file that is empty, which
  is lost with its header. Refusals of `_validate_patch` (counts of lines, a context that
  does not fit) are patches that `ReadAs` gives no tree for.
- Directories that cannot be removed: `Tidy` of `BoundedTransport` removes what the code
  asks `rmtree` to remove with `ignore_errors=True`.
- Support files of Go and GCC that are outside the attested root, and what a sandbox
  forbids beyond writing to what it is given read-only.
- Texts: prompts, quotes and other evidence of an answer, languages and categories
  of a corpus, probes for injected instructions.
- What the fixture of a case with a final output is when it is copied once more for
  its verifier, after the last check of the case.

## Observations

Facts about the code that came up while modelling. Most of them contradict no document
of the repository; the models contain them unless noted.

- The directory of a spend journal is synced by the creating append only
  (`comparator_runtime.py:697`). If that fails and the call after it is charged, a loss of
  power can take the whole journal, and the next collector starts empty
  (`comparator_calibration/README.md:103` says that unclosed reservations restore as full
  charges). This is `lost` in `SpendLedger`.
- The constructor accepts a spend journal whose last line lacks its newline
  (`comparator_runtime.py:707`); the next append joins it, and no replay succeeds afterwards
  (`ended`, `Junk`).
- An edit together with a commit between the fingerprint of a worktree and its copy passes
  `_git_dirty`; so does an ignored file that is created, or an edit that is undone. The
  snapshot itself is not compared with the fingerprint (`SnapshotIsCommit` excepts these;
  `CHANGELOG.md:87` says that source drift fails before dispatch).
- A plan file can be read and claimed by a run before its preparation has proved it; when
  the proof fails, the preparation unlinks it (`runner.py:2443`).
- A fingerprint can be torn: a run that looks before the plan is complete may agree with it
  on a prompt that has changed since. Only the tree of the case is checked again.
- The materialised case is not looked at again after the run of its verifier.
- A failed stop of a verifier's unit is ignored, so that the unit may still run while its
  private root is removed. Its verdict never counts.
- Errors of `_run_verifier` before its `try` leave the private root behind, errors of
  `SandboxedClaudeExecutor.execute` before its own leave the directory with the credential
  (`Tidies` excepts this).
- Closing a pipe waits while a reader is inside `BufferedReader.read`. When the client has
  ended by itself and its cleanup is incomplete, `terminate()` is never called
  (`comparator_runtime.py:364`).
- A `thread/started` or `turn/started` that names another id after the response was read is
  not compared with it.
- `_diff_states` joins the lines of all files and ends only the whole with a newline
  (`runner.py:6594`). An `a.py` that becomes `two` without newline, changed together with
  `b.py`, gives the line `+twodiff --git a/b.py b/b.py`. `_validate_patch` accepts it, and the
  `a.py` that a comparator judges reads `twodiff --git a/b.py b/b.py`, which the agent has
  not written, although evidence should refer to the reconstructed post-patch files
  (`comparator_calibration/README.md:91`). `ReadsBack` says that this is all.
- A file that had no newline at its end and gets one gives the line `-one+two`; the counts
  of its hunk are then wrong for `_validate_hunks`, and the pair cannot be judged. A file that
  is not text shows its hashes, and no change of its mode (`runner.py:6571`).
- A Git ref with a schema below 4 includes committed caches.
- `lock_release` writes its three files one after the other; an edit between its two releases
  yields a registered pair that names different harnesses. The resolver refuses torn
  writes, and what remains is the exception in `LoadedIsOneLock`.
- A runtime of a built-in profile that is loaded without external bindings does not
  accept a certification of `certify.py`, whose result digest says that they were validated.
- `_balanced_accuracy` divides by zero for a corpus without a scored pair that has
  criteria, which only an unfinished corpus can be.

## Plan

Done, in this order: `DispatchLedger` with `AttemptRegistry`, `ArmPair`, `SpendLedger`,
`CalibrationCollect`, `RunAdmission`, `CleanupPoison`, then `CodexTurn`, `BoundedTransport`,
`Judgement` and `ReleaseDecision`, `HoldoutRun`, `Calibration` with `ComparatorAuthority` and
`HoldoutRelease`, `Trees` with `SourceSnapshot`, `Artifacts`, `AttestedProgram` and
`VerifierCell`, `Patches`.

Every safety property of the passing runs is proved; liveness stays with TLC. The validation of manifests would be worth a model if it ever got state.

## Running the checks

    tlc -workers 2 -config MCDispatchLedger.cfg MCDispatchLedger
    tlc -workers 2 -config MCArmPair.cfg ArmPair
    tlapm ArmPairProofs.tla

`PROJECT.json` names the module and configuration of every run.
