SPECIFICATION Spec
CONSTANTS
  Creds = {a, b}
  EmptyToken = {b}
  None = None
  LogSlots = 6
  SampleLaps = 6
INVARIANTS
  TypeOK
  RunningReady
  StoredPrefix
  SurvivesRestart
PROPERTIES
  LifecycleSpec
