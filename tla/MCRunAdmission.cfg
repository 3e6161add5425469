SPECIFICATION PartsSpec
CONSTANTS
  h1 = h1
  h2 = h2
  p1 = p1
  x1 = x1
  x2 = x2
  NoRun = NoRun
  Runs <- MCRuns
  Holdout <- MCHoldout
  Judged <- MCJudged
  Roots <- MCRoots
  MaxLosses = 1
  Watchable <- MCWatchable
  MaxEdits = 2
  Bundle <- MCBundle
  Parent <- MCParent
  Root = "root"
  CacheDirs <- MCCacheDirs
  Stray <- MCStray
  Entry = "md"
  Context <- MCContext
  MaxEntries = 3
  Words <- MCWords
  PathOrder <- MCPathOrder
  SourceCommits <- MCCommits
  SourceNodes <- MCNodes
  Ignored <- MCIgnored
  MaxTouches = 2
  Fixtures <- MCFixtures
  Answers <- MCAnswers
  MaxText = 5
  MaxMembers = 2
  MaxUpdates = 1
SYMMETRY MCSymmetry
INVARIANTS
  OneAttempt
  ConsumedBeforeCall
  OneRunPerRoot
  HandedOutIsOneState
  PublishedIsBound
  SnapshotIsCommit
  VerdictIsAttested
CHECK_DEADLOCK FALSE
