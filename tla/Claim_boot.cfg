SPECIFICATION FairSpec
CONSTANTS
  Creds = {a}
  EmptyToken = {}
  None = None
  LogSlots = 2
  SampleLaps = 6
PROPERTIES
  BootLeavesFlashInit
