SPECIFICATION FairSpec
CONSTANTS
  AlarmIds = {1, 2}
  MaxLookups = 2
  MaxReplies = 2
PROPERTIES
  GivesUp
