SPECIFICATION Spec
CONSTANTS
  Limit = 3
  Chunk = 2
  MaxOut = 4
INVARIANTS
  AcceptedIsWhole
  ReasonIsReal
  NothingStaysBehind
PROPERTIES
  CallEnds
CHECK_DEADLOCK FALSE
