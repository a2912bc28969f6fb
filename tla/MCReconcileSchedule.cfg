CONSTANTS
  MaxPrefix = 999
  Step = 10
  Lookahead = 1
  PartMaxAge = 1
  PartBusyWindow = 1
  Unplayable <- UnplayableSlugs
  None = None
  Library <- ScheduleLibrary
  WantPool <- ScheduleWants
  InitialWants <- ScheduleInitial
  InitialRoot <- ScheduleRoot
  HandFiles <- NoHands
  MaxBytes = None
  MaxTime = 3
  MaxEdits = 2
  MaxFaults = 1
  MaxTouches = 0
  MaxRequests = 0
  Foreign = Foreign
  Broken = Broken
SPECIFICATION FairSpec
INVARIANTS
  TypeOK
  OnlyWholeVideos
  SyncedShowsSchedule
  SyncedKeepsReady
  OneCycleSettles
PROPERTIES
  NeverBlack
  EventuallyShowsSchedule
