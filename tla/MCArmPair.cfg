SPECIFICATION Spec
CONSTANTS
  NPairs = 2
  Providers = {"claude", "codex", "fake"}
INVARIANTS
  BothOrNeither
  WindowsOverlap
  ReportedIsSettled
  DispatchedBeforePrompt
PROPERTIES
  DamageStopsRun
  Termination
