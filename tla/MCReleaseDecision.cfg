SPECIFICATION HoldoutSpec
CONSTANTS
  c1 = c1
  c2 = c2
  q1 = q1
  Criteria <- MCCriteria
  Unsupported <- MCUnsupported
  Requirements <- MCRequirements
  Contract <- MCContract
  Acceptance <- MCAcceptance
  Corpora <- MCCorpusNames
  Rubrics <- MCRubrics
  Harnesses = {"h1", "h2"}
  Disagreeing = {"h2"}
  First <- MCFirst
  Judges <- MCJudges
  MaxEdits = 2
  Plans <- MCPlans
  MinCases = 8
  PerCall = 1
INVARIANTS
  WinnerIsPreferredTwice
  AuthorizedIsWon
  TotalIsTheBill
  PlanCoversCalls
  ComparatorIsEarned
  LoadedIsOneLock
CHECK_DEADLOCK FALSE
