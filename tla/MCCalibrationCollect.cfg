SPECIFICATION CollectSpec
CONSTANTS
  c1 = c1
  c2 = c2
  c3 = c3
  Attempts <- MCAttempts
  NoAttempt = NoAttempt
  NTrials = 2
  CarriedCounts <- MCFreshOrOne
  Cap = 5
  Ceiling = 2
  MaxFaults = 2
  MaxCrashes = 2
SYMMETRY MCSymmetry
INVARIANTS
  CheckpointIsJournaled
  ResumedAccountCovers
  AcceptedIsSettled
PROPERTIES
  TrialsKept
CHECK_DEADLOCK FALSE
