SPECIFICATION Spec
CONSTANTS
  p1 = p1
  p2 = p2
  p3 = p3
  a1 = a1
  a2 = a2
  own = own
  foreign = foreign
  Procs <- MCProcs
  Arms <- MCArms
  Bindings <- MCBindings
  Binding <- MCBinding
  NoProc = NoProc
  MaxFaults = 1
  MaxCrashes = 2
INVARIANTS
  AtMostOneSend
  SentIsDurablyPlanned
PROPERTIES
  FailStop
  ImplementsRegistry
CHECK_DEADLOCK FALSE
