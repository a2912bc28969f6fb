CONSTANTS
  MaxPrefix = 999
  Step = 10
  Lookahead = 1
  PartMaxAge = 1
  PartBusyWindow = 1
  Unplayable <- UnplayableSlugs
  None = None
  Library <- TwinLibrary
  WantPool <- TwinWants
  InitialWants <- TwinWants
  InitialRoot <- NoFiles
  HandFiles <- NoHands
  MaxBytes = None
  MaxTime = 1
  MaxEdits = 0
  MaxFaults = 0
  MaxTouches = 0
  MaxRequests = 0
  Foreign = Foreign
  Broken = Broken
SPECIFICATION Spec
INVARIANTS
  OneCycleSettles
