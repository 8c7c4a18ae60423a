SPECIFICATION FairSpec
CONSTANTS
  Blocks = 4
  MaxFails = 3
INVARIANTS
  TypeOK
  ContractTaken
PROPERTIES
  Initialises
CHECK_DEADLOCK FALSE
