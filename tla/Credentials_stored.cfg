SPECIFICATION Spec
CONSTANTS
  Keys = {"S", "P", "T"}
  Chars <- Letters
  Erased = "e"
  NotFound = NotFound
  MaxVal = 6
  PageSize = 9
  NvsSize = 20
  BufLen = 3
  Order <- KeyOrder
  Requests <- MixedRequests
  Nul = Nul
  Mixed = Mixed
  HubLoc <- Address
INVARIANTS
  TypeOK
  
  
  CopyFits

  
