------------------------------- MODULE HoldoutRun -------------------------------
(***************************************************************************)
(* What a holdout run uses, against what its plan binds: _preflight,        *)
(* prepare_holdout_plan, _bind_holdout_plan, and the checks and copies of   *)
(* _run_pair, _run_arm and _materialize_source in skivolve/runner.py, over  *)
(* the admission of RunAdmission.                                           *)
(*                                                                         *)
(* Somebody edits the files of the suite while a plan is prepared and while *)
(* a run uses it.  Nothing is locked: everything is read at the preflight,  *)
(* compared with the plan, and compared again, at other moments, before and *)
(* after it is used.  An edit makes a new version; nothing is changed back. *)
(* Of the pairs of the run the last one is followed, and of its arms the    *)
(* one with a source: the others only add checks.                           *)
(*                                                                         *)
(* One run is watched in this way, by itself, into a new root; where none is*)
(* watched, files stay as they are and the runs of RunAdmission go on as    *)
(* they do there.                                                           *)
(* A case whose artifact is the final answer copies its fixture once more,  *)
(* for its verifier, after the last check; that copy is not followed.       *)
(***************************************************************************)
EXTENDS RunAdmission, Sequences

CONSTANTS
  Watchable,  \* runs that may be watched, or NoRun
  MaxEdits    \* bound on edits of files

ASSUME WatchableAssumption == Watchable \subseteq Holdout \cup {NoRun}
ASSUME EditsAssumption == MaxEdits \in Nat

\* The manifest, the source of the treatment, the shared verifier files, and the
\* files of the case.
Items == {"manifest", "source", "shared", "prompt", "fixture", "verifier"}

\* The digests a plan binds.  Prompt and fixture are read by themselves, for the
\* fingerprint of the case, and as part of its tree.
Fields == Items \cup {"tree_prompt", "tree_fixture"}

\* A preflight looks at them one after the other.
Looks == <<"open", "start", "sources", "shared", "prompt", "tree", "fixture">>

RecordedAt ==
  [open    |-> {"manifest"},
   start   |-> {},
   sources |-> {"source"},
   shared  |-> {"shared"},
   prompt  |-> {"prompt"},
   tree    |-> {"tree_prompt", "tree_fixture", "verifier"},
   fixture |-> {"fixture"}]

VARIABLES
  watched,   \* the run that is watched, or NoRun
  kind,      \* of the source: "worktree" or "git_ref"
  files,     \* version of every item; of the source, in the worktree
  head,      \* version of the source in the commit that HEAD or the ref names
  plan,      \* the plan file: its state and what was written into it
  prep,      \* the preparation: where it is, its draft, and what it sees
  eye,       \* the watched run: where it is and what its preflight has seen
  used,      \* what its arm has used, and HEAD when its source was copied
  asOf,      \* history: the versions when the plan was written
  edits

suite   == <<files, head, edits>>
binding == <<watched, kind, suite, plan, prep, eye, used, asOf>>
all     == <<vars, binding>>

Unseen  == [f \in Fields |-> 0]
Nothing == [at |-> "open", draft |-> Unseen, seen |-> Unseen]

BindInit ==
  /\ Init
  /\ watched \in Watchable
  /\ watched # NoRun => there = {} /\ \A r, s \in Runs : rootOf[r] = rootOf[s]
  /\ kind \in IF watched = NoRun THEN {"worktree"} ELSE {"worktree", "git_ref"}
  /\ files = [i \in Items |-> 0] /\ head = 0 /\ edits = 0
  /\ plan = [state |-> "absent", binds |-> Unseen]
  /\ prep = Nothing
  /\ eye = [at |-> "open", seen |-> Unseen]
  /\ used = [prompt |-> 0, fixture |-> 0, source |-> 0, head |-> 0]
  /\ asOf = Unseen

-----------------------------------------------------------------------------
(* The files *)

Edit(i) ==
  /\ edits < MaxEdits /\ edits' = edits + 1
  /\ files' = [files EXCEPT ![i] = @ + 1]
  /\ UNCHANGED <<vars, watched, kind, head, plan, prep, eye, used, asOf>>

\* The edited source is committed: HEAD, or the ref, moves.
CommitSource ==
  /\ files["source"] # head
  /\ head' = files["source"]
  /\ UNCHANGED <<vars, watched, kind, files, edits, plan, prep, eye, used, asOf>>

\* The plan file is changed, to no plan at all or to one that binds something else.
EditPlan ==
  /\ plan.state = "written"
  /\ edits < MaxEdits /\ edits' = edits + 1
  /\ plan' = [plan EXCEPT !.state = "changed"]
  /\ UNCHANGED <<vars, watched, kind, files, head, prep, eye, used, asOf>>

-----------------------------------------------------------------------------
(* _preflight *)

Version(f) ==
  CASE f = "tree_prompt"  -> files["prompt"]
    [] f = "tree_fixture" -> files["fixture"]
    [] f = "source"       -> head
    [] OTHER              -> files[f]

\* A worktree must have the source that is committed.
Clean == kind = "worktree" => files["source"] = head

\* A preflight begins with the manifest that was loaded when its runner was made.
MayLook(at, seen) ==
  /\ at = "start" => files["manifest"] = seen["manifest"]
  /\ at = "sources" => Clean

Seen(at, seen) == [f \in Fields |-> IF f \in RecordedAt[at] THEN Version(f) ELSE seen[f]]

After(at, last) ==
  LET k == CHOOSE k \in DOMAIN Looks : Looks[k] = at
  IN  IF k < Len(Looks) THEN Looks[k + 1] ELSE last

LookAts == {Looks[k] : k \in DOMAIN Looks}

\* The plan file is the one that was written.
Readable == plan.state = "written"

\* _bind_holdout_plan: it binds what a preflight has seen, and is not consumed.
Binds(seen) == Readable /\ plan.binds = seen /\ record = NoRun

-----------------------------------------------------------------------------
(* prepare_holdout_plan *)

Preparing(stage, p) ==
  /\ prep.at = stage /\ prep' = p
  /\ UNCHANGED <<vars, watched, kind, suite, eye, used>>

\* The first preflight makes the draft; the second is the proof of what was written.
PrepLook ==
  \E at \in LookAts :
    /\ MayLook(at, prep.seen)
    /\ Preparing(at, [prep EXCEPT
         !.at = After(at, IF plan.state = "absent" THEN "create" ELSE "prove"),
         !.seen = Seen(at, @)])
    /\ UNCHANGED <<plan, asOf>>

\* The file is created with O_EXCL, and anybody can see it from then on.
CreatePlan ==
  /\ record = NoRun
  /\ Preparing("create", [prep EXCEPT !.at = "fill"])
  /\ plan' = [plan EXCEPT !.state = "partial"]
  /\ UNCHANGED asOf

FillPlan ==
  /\ Preparing("fill", [at |-> "start", draft |-> prep.seen,
       seen |-> [Unseen EXCEPT !["manifest"] = prep.seen["manifest"]]])
  /\ plan' = [state |-> "written", binds |-> prep.seen]
  /\ asOf' = [f \in Fields |-> Version(f)]

\* Mutant of ProvePlan: the digests are not compared.
ProvePlanLoosely ==
  /\ Readable /\ record = NoRun
  /\ Preparing("prove", [Nothing EXCEPT !.at = "returned"])
  /\ UNCHANGED <<plan, asOf>>

\* The plan must be the one that was written, and bind what the second preflight has
\* seen, and its consumption record must be absent.
ProvePlan ==
  /\ Binds(prep.seen)
  /\ Preparing("prove", [Nothing EXCEPT !.at = "returned"])
  /\ UNCHANGED <<plan, asOf>>

\* It fails, and takes away the file it has created; or it dies, and the file stays.
PrepEnds ==
  /\ prep.at \notin {"returned", "failed", "dead"}
  /\ \E how \in {"failed", "dead"} :
       /\ Preparing(prep.at, [Nothing EXCEPT !.at = how])
       /\ plan' = IF how = "failed" THEN [plan EXCEPT !.state = "absent"] ELSE plan
  /\ UNCHANGED asOf

-----------------------------------------------------------------------------
(* EvalRunner.run with that plan *)

Watching(stage, to) ==
  /\ eye.at = stage /\ eye' = [eye EXCEPT !.at = to]
  /\ UNCHANGED <<watched, kind, suite, plan, prep, asOf>>

Look ==
  \E at \in LookAts :
    /\ MayLook(at, eye.seen) /\ eye.at = at
    /\ eye' = [at |-> After(at, "bind"), seen |-> Seen(at, eye.seen)]
    /\ UNCHANGED <<vars, watched, kind, suite, plan, prep, used, asOf>>

\* The plan is loaded, compared, and read once more.
BindPlan ==
  /\ Binds(eye.seen)
  /\ Watching("bind", "bound") /\ Preflight(watched) /\ UNCHANGED used

Admit ==
  /\ files["manifest"] = eye.seen["manifest"] /\ Readable
  /\ Watching("bound", "pair") /\ MakeRoot(watched) /\ UNCHANGED used

\* What RunAdmission says of the way from there to the ledger.
Proceed ==
  /\ \/ FindEmpty(watched) \/ Claim(watched) \/ SyncClaim(watched) \/ ClaimFails(watched)
     \/ RemoveRoot(watched) \/ LookForSpend(watched) \/ MakeSpend(watched)
     \/ Snapshot(watched) \/ OpenLedger(watched)
  /\ UNCHANGED binding

\* _assert_case_integrity: the case and the shared files are as they were.
CaseHolds ==
  \A f \in {"tree_prompt", "tree_fixture", "verifier", "shared"} : Version(f) = eye.seen[f]

Paired(stage, to) == pc[watched] = "running" /\ Watching(stage, to) /\ UNCHANGED vars

CheckPair == CaseHolds /\ Paired("pair", "read") /\ UNCHANGED used

ReadPrompt ==
  /\ Paired("read", "arm")
  /\ used' = [used EXCEPT !.prompt = files["prompt"]]

CheckArm == CaseHolds /\ Paired("arm", "copy_fixture") /\ UNCHANGED used

CopyFixture ==
  /\ Paired("copy_fixture", "source")
  /\ used' = [used EXCEPT !.fixture = files["fixture"]]

\* A worktree must be at the HEAD and have the source that the preflight has seen; of
\* a ref the commit is taken that it named then.
CheckSource ==
  /\ kind = "worktree" => {head, files["source"]} = {eye.seen["source"]}
  /\ Paired("source", IF kind = "worktree" THEN "copy_source" ELSE "send")
  /\ used' = IF kind = "worktree" THEN used
             ELSE [used EXCEPT !.source = eye.seen["source"], !.head = eye.seen["source"]]

CopySource ==
  /\ Paired("copy_source", "clean")
  /\ used' = [used EXCEPT !.source = files["source"]]

\* After the copy, git must call the source clean.
CheckClean ==
  /\ Clean
  /\ Paired("clean", "send")
  /\ used' = [used EXCEPT !.head = head]

Send == Watching("send", "verifier") /\ Call(watched) /\ UNCHANGED used

\* Mutant of CheckVerifier: the case is not looked at again.
CheckVerifierNot ==
  pc[watched] = "called" /\ Watching("verifier", "close") /\ UNCHANGED <<vars, used>>

\* Before the verifier, the case is looked at again; the verifier has its own files
\* from the snapshots of the preflight.
CheckVerifier ==
  /\ CaseHolds /\ pc[watched] = "called"
  /\ Watching("verifier", "close") /\ UNCHANGED <<vars, used>>

Close ==
  /\ Readable
  /\ Watching("close", "publish") /\ CloseLedger(watched) /\ UNCHANGED used

Finish == Watching("publish", "over") /\ Publish(watched) /\ UNCHANGED used

\* A check that does not hold ends the run, and so does any other error.
GiveUp == Stop(watched) /\ UNCHANGED binding

WatchedNext ==
  \/ \E i \in Items : Edit(i)
  \/ CommitSource \/ EditPlan
  \/ PrepLook \/ CreatePlan \/ FillPlan \/ ProvePlan \/ PrepEnds
  \/ Look \/ BindPlan \/ Admit \/ Proceed
  \/ CheckPair \/ ReadPrompt \/ CheckArm \/ CopyFixture
  \/ CheckSource \/ CopySource \/ CheckClean
  \/ Send \/ CheckVerifier \/ Close \/ Finish \/ GiveUp

BindNext ==
  \/ watched = NoRun /\ Next /\ UNCHANGED binding
  \/ watched # NoRun /\ WatchedNext

BindSpec == BindInit /\ [][BindNext]_all

-----------------------------------------------------------------------------
(* Properties *)

\* A plan that is handed out binds one state of the suite, the one when it was
\* written, although it was put together from looks at different moments.
HandedOutIsOneState == prep.at = "returned" => plan.binds = asOf

\* A run that is published has given its agent the prompt and the fixture of the
\* moment when its plan was written, whether the plan was handed out or not, and
\* judged it with the verifier of that moment; and the source is the one of the plan,
\* unless another was committed while it was being copied.  (The digests of prompt and
\* fixture in the fingerprint are left out: a run that looks while the plan is drafted
\* can agree with the draft on a prompt that has changed since.)
PublishedIsBound ==
  watched # NoRun /\ result[rootOf[watched]] = watched =>
    /\ \A f \in Fields \ {"source", "prompt", "fixture"} : eye.seen[f] = asOf[f]
    /\ used.prompt = asOf["prompt"] /\ used.fixture = asOf["fixture"]
    /\ used.source = plan.binds["source"] \/ used.head # plan.binds["source"]
=============================================================================
