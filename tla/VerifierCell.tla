------------------------------ MODULE VerifierCell ------------------------------
(***************************************************************************)
(* What becomes of an agent's work: _run_arm after the agent has answered,  *)
(* and _run_verifier, of skivolve/runner.py.  The workspace, or the final   *)
(* output, becomes the artifact that is shown; the verifier judges a copy of *)
(* the workspace in a unit of its own, with the case as it was snapshotted  *)
(* at the preflight and with programs that were attested there.             *)
(*                                                                         *)
(* Meanwhile the files of the case may be edited, the program updated, the  *)
(* unit killed at its limit, the client given up at a later one, a private  *)
(* file changed by another program; and any step may fail.                  *)
(***************************************************************************)
EXTENDS Patches, Artifacts, AttestedProgram

CONSTANTS
  Fixtures,   \* the fixture of the case, and what an edit makes of it
  Answers     \* what an agent can leave: a tree and a final answer

VARIABLES
  current,   \* version of the files of the case
  cell,   \* the arm
  unit    \* the verifier's unit, its client, and its view of the world

cellVars == <<programVars, current, cell, unit>>

NoArtifact == [none |-> TRUE]
Spoilt == [spoilt |-> TRUE]

NoTree == Materialize([p \in {} |-> State(Absent)])

NoUnit == [state |-> "none", client |-> "none", exit |-> 0, answer |-> "none",
           case |-> 0, work |-> NoTree, artifact |-> NoArtifact, saw |-> <<>>]

Kinds == {"workspace_diff", "final_output_text", "final_output_json"}

NewCell(at, kind) ==
  [at |-> at, kind |-> kind, case |-> 0, before |-> NoTree, work |-> NoTree,
   output |-> RawAnswer(<<>>, NoJson), artifact |-> NoArtifact, verdict |-> "none", drift |-> FALSE]

CellInit ==
  /\ ProgramInit
  /\ current = 1
  /\ \E kind \in Kinds : cell = NewCell("preflight", kind)
  /\ unit = NoUnit

-----------------------------------------------------------------------------
(* The world *)

EditCase ==
  /\ current < Len(Fixtures) /\ prog.use = "bundle" /\ current' = current + 1
  /\ UNCHANGED <<programVars, cell, unit>>

Elsewhere == UNCHANGED <<current, cell, unit>>

\* A private file of the runtime root is changed.
SpoilArtifact ==
  /\ cell.at \in {"unit", "judged"} /\ unit.artifact # Spoilt
  /\ unit' = [unit EXCEPT !.artifact = Spoilt]
  /\ UNCHANGED <<programVars, current, cell>>

-----------------------------------------------------------------------------
(* The preflight, and the arm until its agent has answered *)

Step(stage, c) == cell.at = stage /\ cell' = c /\ UNCHANGED <<programVars, current>>

\* The program is attested first, and the case is snapshotted then.
SnapshotCase ==
  /\ prog.at = "attested" /\ prog.use = "bundle"
  /\ Step("preflight", [cell EXCEPT !.at = "fixture", !.case = current]) /\ UNCHANGED unit

Fixture(v) == CopyTree(Fixtures[v], Cacheless)

CopyFixtureTree ==
  /\ Scans(Fixtures[current], Cacheless)
  /\ Step("fixture", [cell EXCEPT !.at = "agent", !.before = Fixture(current)])
  /\ UNCHANGED unit

\* The agent leaves a tree, and gives an answer.
AgentAnswers ==
  /\ \E a \in Answers :
       Step("agent", [cell EXCEPT !.at = "scan", !.output = a.output, !.work = a.work])
  /\ UNCHANGED unit

-----------------------------------------------------------------------------
(* The artifact *)

Before == ReadTree(cell.before, Cacheless)

\* The normal form of the final answer, or the diff of the workspace.
Artifact ==
  IF cell.kind = "workspace_diff"
  THEN [patch |-> DiffStates(Before, ReadTree(cell.work, Cacheless))]
  ELSE FormOf(cell.kind, cell.output)

ScanWorkspace ==
  /\ Scans(cell.work, Cacheless)
  /\ cell.kind # "workspace_diff" => HasForm(cell.kind, cell.output)
  /\ Step("scan", [cell EXCEPT !.at = "check", !.artifact = Artifact]) /\ UNCHANGED unit

\* _assert_case_integrity
CheckCase ==
  /\ current = cell.case
  /\ Step("check", [cell EXCEPT !.at = "workspace"]) /\ UNCHANGED unit

\* The verifier has a copy of the workspace, or a fixture of its own.
Workspace ==
  IF cell.kind = "workspace_diff" THEN CopyTree(cell.work, Cacheless) ELSE Fixture(current)

CopyWorkspace ==
  /\ cell.kind # "workspace_diff" => Scans(Fixtures[current], Cacheless)
  /\ Step("workspace", [cell EXCEPT !.at = "runtime", !.work = Workspace]) /\ UNCHANGED unit

-----------------------------------------------------------------------------
(* _run_verifier *)

\* The workspace is copied once more; artifact and case are written into the private
\* root, and looked at; then the bundle is made.
MakeRuntime ==
  /\ Step("runtime", [cell EXCEPT !.at = "bundle"])
  /\ unit' = [unit EXCEPT !.work = CopyTree(cell.work, Raw), !.case = cell.case,
                          !.artifact = cell.artifact]

Bundling == (cell.at = "bundle" \/ prog.use = "held") /\ MakeCopy /\ Elsewhere

StartUnit ==
  /\ prog.at = "ready" /\ Step("bundle", [cell EXCEPT !.at = "unit"])
  /\ unit' = [unit EXCEPT !.state = "running", !.client = "waiting"]

UnitSteps(u) == unit.state = "running" /\ unit' = u /\ UNCHANGED <<programVars, current, cell>>

\* The program of the bundle judges what it is given, in a valid payload or not, and
\* may leave traces: a workspace that belongs to a diff can be written to.
Judge ==
  /\ unit.answer = "none"
  /\ \E answer \in {"valid", "invalid"}, trace \in {Absent, Link} :
       /\ trace = Link => cell.kind = "workspace_diff" /\ unit.work.node[Entry] # Link
       /\ UnitSteps([unit EXCEPT !.answer = answer,
            !.saw = <<[program |-> prog.copy, case |-> unit.case, work |-> unit.work,
                       artifact |-> unit.artifact]>>,
            !.work = IF trace = Absent THEN @
                     ELSE Tree([@.node EXCEPT ![Entry] = trace], {})])

\* It exits, by itself or at RuntimeMaxSec.
UnitExits ==
  \E exit \in {0, 1} :
    /\ exit = 0 => unit.answer # "none"
    /\ UnitSteps([unit EXCEPT !.state = "over", !.exit = exit])

\* The client returns with the unit; or subprocess.run gives it up, and the unit is
\* asked to stop, which may not help.
ClientReturns ==
  /\ unit.state = "over" /\ unit.client = "waiting" /\ cell.at = "unit"
  /\ unit' = [unit EXCEPT !.client = "returned"]
  /\ cell' = [cell EXCEPT !.at = "judged"] /\ UNCHANGED <<programVars, current>>

GiveUpUnit ==
  /\ unit.client = "waiting"
  /\ Step("unit", [cell EXCEPT !.at = "finally", !.verdict = "timeout"])
  /\ \E state \in {unit.state, "over"} :
       unit' = [unit EXCEPT !.state = state, !.client = "expired"]

\* Mutant of TakeVerdict: the bundle is not looked at again.
TakeVerdictAnyway ==
  /\ Step("judged", [cell EXCEPT !.at = "finally",
       !.verdict = IF unit.exit # 0 THEN "error" ELSE unit.answer])
  /\ UNCHANGED unit

\* The bundle must be as it was; then the exit code and the payload decide.
TakeVerdict ==
  /\ BundleHolds
  /\ Step("judged", [cell EXCEPT !.at = "finally",
       !.verdict = IF unit.exit # 0 THEN "error" ELSE unit.answer])
  /\ UNCHANGED unit

\* _read_private_artifact
ArtifactHolds == unit.artifact = cell.artifact

\* The finally block: the artifact is read again, and the workspace of the runtime
\* takes the place of the verifier's.  It is run after an exception, too.
Restore ==
  /\ cell.at \in {"judged", "finally"}
  /\ cell.at = "judged" => ~BundleHolds
  /\ cell' = [cell EXCEPT !.at = "after", !.work = unit.work,
       !.drift = ~ArtifactHolds,
       !.verdict = IF cell.at = "judged" THEN "raised" ELSE @]
  /\ UNCHANGED <<programVars, current, unit>>

\* A verdict counts if nothing was raised, if it is valid, and if the workspace can
\* still be scanned.
Count ==
  /\ ~cell.drift /\ cell.verdict = "valid" /\ Scans(cell.work, Raw)
  /\ Step("after", [cell EXCEPT !.at = "completed"]) /\ UNCHANGED unit

\* Any step may fail, and everything that is not said to go on fails.
ArmFails ==
  /\ cell.at \notin {"off", "completed", "error"} /\ prog.use = "bundle"
  /\ Step(cell.at, [cell EXCEPT !.at = "error"]) /\ UNCHANGED unit

CellNext ==
  \/ Update /\ Elsewhere
  \/ Attest /\ Elsewhere
  \/ Launch /\ Elsewhere
  \/ SpoilCopy /\ Elsewhere
  \/ EditCase \/ SpoilArtifact
  \/ SnapshotCase \/ CopyFixtureTree \/ AgentAnswers \/ ScanWorkspace \/ CheckCase
  \/ CopyWorkspace \/ MakeRuntime \/ Bundling \/ StartUnit \/ Judge \/ UnitExits
  \/ ClientReturns \/ GiveUpUnit \/ TakeVerdict \/ Restore \/ Count \/ ArmFails

CellSpec == CellInit /\ [][CellNext]_cellVars

-----------------------------------------------------------------------------
\* A verdict that counts was given, by a unit that is over, with the program and the
\* case of the preflight, and with the artifact that is shown; and for a diff, that is the
\* patch from the fixture of the preflight to the very tree that was judged, without
\* caches the agent has left.  And every program that is run, here or by a provider, is
\* one that was attested.
VerdictIsAttested ==
  /\ RunsOneProgram
  /\ cell.at = "completed" =>
       LET saw == unit.saw[1]
       IN  /\ unit.state = "over" /\ saw.program = prog.digest
           /\ saw.case = cell.case /\ saw.artifact = cell.artifact
           /\ cell.kind = "workspace_diff" =>
                cell.artifact =
                  [patch |-> DiffStates(ReadTree(Fixtures[cell.case], Cacheless),
                                        ReadTree(saw.work, Raw))]
================================================================================
