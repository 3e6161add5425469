SPECIFICATION Spec
CONSTANTS
  s1 = s1
  b1 = b1
  b2 = b2
  b3 = b3
  Skills <- MCSkills
  Buckets <- MCBuckets
  MaxBuckets = 2
  MaxPages = 2
  MaxMessages = 2
  MaxNotices = 2
  MaxChannel = 2
  MaxDeviations = 1
INVARIANTS
  OutcomeIsOwnTurn
  SkillsStayDisabled
  HonestIsHeard
CHECK_DEADLOCK FALSE
