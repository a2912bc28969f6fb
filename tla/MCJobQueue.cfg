CONSTANTS
  sync = sync
  convert = convert
  NoKey = NoKey
  Keys <- MCKeys
  Media <- MCMedia
  Threads = {t1, t2}
  Slots = 1
  MaxAttempts = 2
  MaxJobs = 2
  MaxStarts = 3
  MaxBusy = 1
  MaxLocked = 1
SPECIFICATION FairSpec
INVARIANTS
  OnlyInterruptionsCount
  WaitingHasJob
PROPERTY EventuallyTakenUp
