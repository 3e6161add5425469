SPECIFICATION Spec
CONSTANTS
  p1 = p1
  p2 = p2
  u1 = u1
  u2 = u2
  own_binding = own_binding
  other_binding = other_binding
  Providers <- MCProviders
  Units <- MCUnits
  Bindings <- MCBindings
  BindingOf <- MCBindingOf
  NoProvider = NoProvider
  NoUnit = NoUnit
  NoMarker = NoMarker
  MaxFaults = 1
  MaxDeaths = 2
INVARIANTS
  MarkerGuards
  LaunchIsIdentified
  NoNeedlessRefusal
PROPERTIES
  LockIsReleased
CHECK_DEADLOCK FALSE
