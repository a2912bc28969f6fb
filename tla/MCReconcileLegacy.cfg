CONSTANTS
  MaxPrefix = 999
  Step = 10
  Lookahead = 1
  PartMaxAge = 1
  PartBusyWindow = 1
  Unplayable <- UnplayableSlugs
  None = None
  Library <- LegacyLibrary
  WantPool <- LegacyWants
  InitialWants <- LegacyInitial
  InitialRoot <- LegacyRoot
  HandFiles <- LegacyHands
  MaxBytes = None
  MaxTime = 3
  MaxEdits = 0
  MaxFaults = 1
  MaxTouches = 1
  MaxRequests = 2
  Foreign = Foreign
  Broken = Broken
SPECIFICATION Spec
PROPERTIES
  NeverBlack
  LegacyOnlyOnRequest
  NothingReplaced
