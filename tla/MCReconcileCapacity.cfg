CONSTANTS
  MaxPrefix = 999
  Step = 10
  Lookahead = 1
  PartMaxAge = 1
  PartBusyWindow = 1
  Unplayable <- UnplayableSlugs
  None = None
  Library <- CapacityLibrary
  WantPool <- CapacityWants
  InitialWants <- CapacityInitial
  InitialRoot <- CapacityRoot
  HandFiles <- NoHands
  MaxBytes = 9
  MaxTime = 2
  MaxEdits = 3
  MaxFaults = 1
  MaxTouches = 0
  MaxRequests = 1
  Foreign = Foreign
  Broken = Broken
SPECIFICATION Spec
INVARIANTS
  SyncedOmitsOnlyWhatDoesNotFit
  WithinCapacity
