SPECIFICATION Spec
CONSTANTS
  NPairs = 1
  Providers = {"codex"}
INVARIANT
  DispatchFailureAborts
