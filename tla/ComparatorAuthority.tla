-------------------------- MODULE ComparatorAuthority --------------------------
(***************************************************************************)
(* How a comparator comes to have the authority to judge a release: the     *)
(* tools beside comparator_calibration (lock_release.py, collect.py,        *)
(* certify.py) and the loading of a runtime by a run (comparator_profiles,  *)
(* ComparatorRuntime).  They share files and no lock: files are edited,     *)
(* locked and certified while a process reads them one after the other.     *)
(*                                                                         *)
(* A document is its name, and so is its digest.  The documents are the     *)
(* corpus, the rubric and, as one, the harness: its sources, its suite and  *)
(* its baseline authority.  A release has the digests of all; what it       *)
(* declares as supported follows from the corpus.  A comparator is known by *)
(* the trial keys at which it does not answer as the corpus is labelled.    *)
(* How a collector survives its deaths is CalibrationCollect's.             *)
(***************************************************************************)
EXTENDS Calibration, Sequences

CONSTANTS
  Corpora, Rubrics,   \* the texts of corpora and rubrics, by name
  Harnesses,          \* states of the harness
  Disagreeing,        \* those whose suite and baseline authority differ
  First,              \* the documents of the first release
  Judges,             \* comparators that deviate: what they say, at which trial keys
  MaxEdits            \* bound on edits and other deviations

Documents == [corpus : DOMAIN Corpora, rubric : DOMAIN Rubrics, harness : Harnesses]

ASSUME AuthorityAssumption ==
  First \in Documents /\ First.harness \notin Disagreeing /\ MaxEdits \in Nat

\* Labels that score are of the contract's requirements and criteria: others are refused
\* when they are read.  What a comparator says instead is an answer that can be read.
ASSUME LabelsAssumption ==
  /\ \A c \in DOMAIN Corpora : \A p \in DOMAIN Corpora[c] :
       LET gold == Corpora[c][p].scoring_gold
       IN  gold # NoLabels => /\ gold.checks \in [Sides -> [Requirements -> Statuses]]
                              /\ gold.criteria \in [Criteria -> Winners] \cup {NoCriteria}
  /\ \A j \in Judges : j.says \in Answers

VARIABLES
  docs,            \* the documents on disk
  releases,        \* the two release files
  registry,        \* the profile's entry in the authority registry
  lock,            \* a run of lock_release
  evidence,        \* the collected evidence
  certification,   \* and its certification
  reader,          \* a process that loads a runtime: what it is for and has read so far
  runtime,         \* the runtime a run has loaded
  locks,           \* history: the pairs of releases that one run of lock_release computed
  refused,         \* history: comparators whose collection was refused
  edits

files    == <<docs, releases, registry, evidence, certification>>
authVars == <<files, lock, reader, runtime, locks, refused, edits>>

None == <<>>

\* _release: what the documents are now, as production or test release.
Release(test, d) == [test |-> test, corpus |-> d.corpus, rubric |-> d.rubric, harness |-> d.harness]

Entry(d) == [production |-> Release(FALSE, d), test |-> Release(TRUE, d)]

NoReader == [for |-> "nothing", read |-> <<>>]

AuthInit ==
  /\ docs = First /\ releases = Entry(First) /\ registry = Entry(First)
  /\ lock = None /\ locks = {Entry(First)}
  /\ evidence = None /\ certification = None
  /\ reader = NoReader /\ runtime = None
  /\ refused = {} /\ edits = 0

-----------------------------------------------------------------------------
(* What comparators answer, and what becomes of it.  All of it is decided by *)
(* corpus and comparator, and is a function so that it is computed once.     *)

Faithful == [at |-> {}, says |-> NoLabels]

AllJudges == Judges \cup {Faithful}

AnswersOf(corpus, judge) ==
  LET told(p) == IF corpus[p].scoring_gold # NoLabels THEN corpus[p].scoring_gold
                                                      ELSE corpus[p].reviewer_a
      labels(p) == [checks |-> told(p).checks, criteria |-> told(p).criteria]
  IN  [k \in TrialKeys(corpus) |->
         IF k \in judge.at THEN judge.says ELSE Canonical(labels(k[1]), k[3])]

\* run_transport refuses a winner without basis, or in a criterion nothing supports.
Accepted ==
  [c \in DOMAIN Corpora |-> [j \in AllJudges |->
    LET corpus == Corpora[c]  answers == AnswersOf(corpus, j)
        decisions == {TrialDecision(corpus, answers, k[1], k[2], k[3]) : k \in TrialKeys(corpus)}
    IN  \A d \in decisions :
          /\ d.unsupported = {}
          /\ d.criteria # NoCriteria =>
               \A tied \in Criteria \ Supported(corpus) : d.criteria[tied] = "tie"]]

Verdict ==
  [c \in DOMAIN Corpora |-> [j \in AllJudges |-> Passed(Corpora[c], AnswersOf(Corpora[c], j))]]

EarnedBy ==
  [c \in DOMAIN Corpora |-> [j \in AllJudges |-> Earned(Corpora[c], AnswersOf(Corpora[c], j))]]

ValidBy == [c \in DOMAIN Corpora |-> ValidCorpus(Corpora[c])]

\* The rubric lets those criteria decide that the corpus supports, and no others.
PolicyAgrees ==
  [c \in DOMAIN Corpora |-> [r \in DOMAIN Rubrics |->
    \A k \in Criteria : Rubrics[r][k] # "tie-only" <=> k \in Supported(Corpora[c])]]

Deviate(deviations) ==
  /\ edits' = edits + Count({d \in DOMAIN deviations : deviations[d]})
  /\ edits' <= MaxEdits

-----------------------------------------------------------------------------
(* Editors *)

Rewrite ==
  /\ docs' \in Documents
  /\ Deviate([part \in DOMAIN docs |-> docs'[part] # docs[part]])
  /\ Count({part \in DOMAIN docs : docs'[part] # docs[part]}) = 1
  /\ UNCHANGED <<releases, registry, evidence, certification, lock, reader, runtime, locks, refused>>

\* Before comparators are compared anew.
Discard ==
  /\ evidence # None /\ evidence' = None
  /\ Deviate(<<TRUE>>)
  /\ UNCHANGED <<docs, releases, registry, certification, lock, reader, runtime, locks, refused>>

-----------------------------------------------------------------------------
(* lock_release: both releases are computed, then three files are written.   *)
(* Its documents are not validated.                                          *)

LockProduction ==
  /\ lock = None
  /\ docs.harness \notin Disagreeing
  /\ lock' = [at |-> "test", production |-> Release(FALSE, docs), test |-> Release(FALSE, docs)]
  /\ UNCHANGED <<files, reader, runtime, locks, refused, edits>>

LockAt(step) == lock # None /\ lock.at = step

LockTest ==
  /\ LockAt("test")
  /\ docs.harness \notin Disagreeing
  /\ lock' = [lock EXCEPT !.at = "write production", !.test = Release(TRUE, docs)]
  /\ locks' = locks \cup {[production |-> lock'.production, test |-> lock'.test]}
  /\ UNCHANGED <<files, reader, runtime, refused, edits>>

WriteRelease ==
  \/ /\ LockAt("write production")
     /\ releases' = [releases EXCEPT !.production = lock.production]
     /\ lock' = [lock EXCEPT !.at = "write test"]
     /\ UNCHANGED <<docs, registry, evidence, certification, reader, runtime, locks, refused, edits>>
  \/ /\ LockAt("write test")
     /\ releases' = [releases EXCEPT !.test = lock.test]
     /\ lock' = [lock EXCEPT !.at = "write registry"]
     /\ UNCHANGED <<docs, registry, evidence, certification, reader, runtime, locks, refused, edits>>

WriteRegistry ==
  /\ LockAt("write registry")
  /\ registry' = [production |-> lock.production, test |-> lock.test]
  /\ lock' = None
  /\ UNCHANGED <<docs, releases, evidence, certification, reader, runtime, locks, refused, edits>>

\* It finds the suite changed, or dies.
LockEnds ==
  /\ lock # None /\ lock' = None
  /\ Deviate(<<LockAt("test") => docs.harness \notin Disagreeing>>)
  /\ UNCHANGED <<files, reader, runtime, locks, refused>>

-----------------------------------------------------------------------------
(* Loading a runtime, file by file *)

Directory == <<"corpus", "rubric", "release", "harness", "certification", "evidence">>

\* The registry first, then the resources by name, then what only a run has.
Packaged == <<"registry", "corpus", "production", "rubric", "test", "harness",
              "certification", "evidence">>

\* A collector, a certifier, a run of an old suite from the directory of the calibration,
\* and a run with the registered profile; the two runs, perhaps, with the test release.
Uses == {"collect", "certify", "run old", "run", "run test"}

Registered(use) == use \in {"run", "run test"}
Testing(use)    == use \in {"run old test", "run test"}

OrderOf(use) == IF Registered(use) THEN Packaged ELSE Directory

OnDisk(use, part) ==
  CASE part \in DOMAIN docs      -> docs[part]
    [] part = "release"          -> releases[IF Testing(use) THEN "test" ELSE "production"]
    [] part \in DOMAIN releases  -> releases[part]
    [] part = "registry"         -> registry
    [] part = "certification"    -> certification
    [] part = "evidence"         -> evidence

StartReader ==
  /\ reader = NoReader /\ runtime = None
  /\ \E use \in Uses : reader' = [for |-> use, read |-> <<>>]
  /\ UNCHANGED <<files, lock, runtime, locks, refused, edits>>

ReadNext ==
  /\ reader # NoReader /\ Len(reader.read) < Len(OrderOf(reader.for))
  /\ LET part == OrderOf(reader.for)[Len(reader.read) + 1]
     IN  reader' = [reader EXCEPT !.read = Append(@, OnDisk(reader.for, part))]
  /\ UNCHANGED <<files, lock, runtime, locks, refused, edits>>

AllRead == reader # NoReader /\ Len(reader.read) = Len(OrderOf(reader.for))

Part(name) == reader.read[CHOOSE i \in DOMAIN reader.read : OrderOf(reader.for)[i] = name]

ReadDocs == [corpus |-> Part("corpus"), rubric |-> Part("rubric"), harness |-> Part("harness")]

ReadRelease ==
  CASE ~Registered(reader.for) -> Part("release")
    [] reader.for = "run"      -> Part("production")
    [] reader.for = "run test" -> Part("test")

\* The profile's releases are those that the registry names,
InRegistry(both) == both = Part("registry")

\* and both are of the resources read.
ResolvesProfile ==
  LET both == [production |-> Part("production"), test |-> Part("test")]
  IN  /\ InRegistry(both)
      /\ \A r \in {both.production, both.test} :
           r.corpus = Part("corpus") /\ r.rubric = Part("rubric")
      /\ ~both.production.test /\ both.test.test

\* Mutant of Bindings: a profile is validated by itself.
BindingsUnread(release, d) == TRUE

\* What lies outside of the profile: sources, suite and baseline authority.
Bindings(release, d) == release.harness = d.harness /\ d.harness \notin Disagreeing

\* The release is of these documents, and they agree with each other.
ValidRelease(release, d) ==
  /\ release.corpus = d.corpus /\ release.rubric = d.rubric
  /\ Bindings(release, d)
  /\ ValidBy[d.corpus] /\ RubricValid(Rubrics[d.rubric]) /\ PolicyAgrees[d.corpus][d.rubric]

Loads ==
  /\ Registered(reader.for) => ResolvesProfile
  /\ ReadRelease.test = Testing(reader.for)
  /\ ValidRelease(ReadRelease, ReadDocs)

OfRelease(release, ev) == ev # None /\ ev.header = release

\* The evidence is of this release and passes its gates, with one model set and executable.
EvidencePasses(release, ev) ==
  /\ OfRelease(release, ev)
  /\ Verdict[release.corpus][ev.judge]
  /\ Count(ev.models) = 1 /\ Count(ev.executables) = 1

\* Of this release and of the evidence beside it, which is evaluated again.
CertificationHolds(release, certified, ev) ==
  /\ certified # None /\ certified.header = release /\ certified.evidence = ev
  /\ EvidencePasses(release, ev)

GiveUpReading ==
  /\ AllRead /\ ~Loads /\ reader' = NoReader
  /\ UNCHANGED <<files, lock, runtime, locks, refused, edits>>

-----------------------------------------------------------------------------
(* What they do with it *)

Ready(use) == AllRead /\ reader.for = use /\ Loads /\ reader' = NoReader

\* All trials, by one comparator, but perhaps in sittings that differ in model or
\* executable.  Evidence of another release is refused, and of this one is complete.
Collect ==
  /\ Ready("collect") /\ evidence \in {None, Part("evidence")}
  /\ IF evidence # None THEN UNCHANGED <<evidence, refused, edits>>
     ELSE \E judge \in AllJudges, models, executables \in {{"m1"}, {"m1", "m2"}} :
            /\ Deviate(<<judge # Faithful, models # {"m1"}, executables # {"m1"}>>)
            /\ IF Accepted[ReadDocs.corpus][judge]
                 THEN /\ evidence' = [header |-> ReadRelease, judge |-> judge, models |-> models,
                                      executables |-> executables]
                      /\ UNCHANGED refused
                 ELSE refused' = refused \cup {judge} /\ UNCHANGED evidence
  /\ UNCHANGED <<docs, releases, registry, certification, lock, runtime, locks>>

\* The evidence as it is now, whatever its runtime was loaded with.
Certify ==
  /\ Ready("certify")
  /\ certification' = IF EvidencePasses(ReadRelease, evidence)
                        THEN [header |-> ReadRelease, evidence |-> evidence] ELSE certification
  /\ UNCHANGED <<docs, releases, registry, evidence, lock, runtime, locks, refused, edits>>

Load ==
  /\ \E use \in Uses \ {"collect", "certify"} : Ready(use)
  /\ LET holds == CertificationHolds(ReadRelease, Part("certification"), Part("evidence"))
     IN  runtime' = [registered |-> Registered(reader.for), release |-> ReadRelease,
                     docs |-> ReadDocs, certified |-> holds,
                     evidence |-> IF holds THEN Part("evidence") ELSE None]
  /\ UNCHANGED <<files, lock, locks, refused, edits>>

RunOver ==
  /\ runtime # None /\ runtime' = None
  /\ UNCHANGED <<files, lock, reader, locks, refused, edits>>

AuthNext ==
  \/ Rewrite \/ Discard
  \/ LockProduction \/ LockTest \/ WriteRelease \/ WriteRegistry \/ LockEnds
  \/ StartReader \/ ReadNext \/ GiveUpReading
  \/ Collect \/ Certify \/ Load \/ RunOver

AuthSpec == AuthInit /\ [][AuthNext]_authVars

\* require_production_authority: bound to its harness, as every runtime here is, and not
\* for tests.
ProductionAuthority == runtime # None /\ ~runtime.release.test

LiveCalibration == ProductionAuthority /\ runtime.certified

\* require_diagnostic_calibration
DiagnosticCalibration == runtime # None /\ ~runtime.release.test /\ runtime.certified

-----------------------------------------------------------------------------
(* Properties *)

\* A loaded runtime has a release that lock_release computed from just the documents that
\* were read; a registered one comes with the other release of the same run, of the same
\* corpus and rubric, whatever was written meanwhile.
LoadedIsOneLock ==
  runtime # None =>
    /\ runtime.release = Release(runtime.release.test, runtime.docs)
    /\ \E entry \in locks :
         /\ runtime.release \in {entry.production, entry.test}
         /\ runtime.registered => \A r \in {entry.production, entry.test} :
              r.corpus = runtime.docs.corpus /\ r.rubric = runtime.docs.rubric

\* The tests' gold evidence, which passes every gate, could be collected: a comparator
\* that answers each pair as its scoring gold is never refused.
GoldIsAccepted == Faithful \notin refused
=============================================================================
