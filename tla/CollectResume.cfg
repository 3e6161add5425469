SPECIFICATION CollectSpec
CONSTANTS
  c1 = c1
  c2 = c2
  c3 = c3
  Attempts <- MCAttempts
  NoAttempt = NoAttempt
  NTrials = 2
  CarriedCounts <- MCTwo
  Cap = 5
  Ceiling = 2
  MaxFaults = 1
  MaxCrashes = 1
SYMMETRY MCSymmetry
INVARIANT
  ResumeRestoresAll
CHECK_DEADLOCK FALSE
