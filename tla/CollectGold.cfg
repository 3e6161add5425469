SPECIFICATION AuthSpec
CONSTANTS
  c1 = c1
  c2 = c2
  q1 = q1
  Criteria <- MCCriteria
  Unsupported = {}
  Requirements <- MCRequirements
  Contract <- MCContractThin
  Acceptance <- MCAcceptance
  Corpora <- MCThinNames
  Rubrics <- MCThinRubrics
  Harnesses = {"h1"}
  Disagreeing = {}
  First <- MCThinFirst
  Judges = {}
  MaxEdits = 1
INVARIANT GoldIsAccepted
CHECK_DEADLOCK FALSE
