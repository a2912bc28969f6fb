CONSTANTS
  MaxPrefix = 6
  Step = 2
  Keys = {a, b, c, d}
  MaxOrders = 2
  c1 = c1 c2 = c2 c3 = c3 s1 = s1 s2 = s2 s3 = s3 h1 = h1 h2 = h2 lan = lan
  Codes = {c1, c2, c3}
  InventoryFiles <- Files
  FirstFile <- FirstYaml
  Absent = Absent
  MaxYamlEdits = 2
  MaxStops = 1
  Nothing = Nothing
  Pis <- SomePis
  Dialects <- SomeDialects
  HiddenNames = {".trash", ".old", ".y.mp4"}
  MaxScanned = 5
  MaxSearches = 1
  NoLog = NoLog
  Torn = Torn
  Retention = 1
  MaxCommits = 2
  MaxBackups = 1
  MaxRestores = 2
  NoTime = NoTime
  Zones <- SomeZones
  Minute = 2
  DayLength = 16
  Days = 3
  Instants <- AllInstants
  MaxResaves = 2
  People = {ana, rui}
  Slots = {slot1, slot2}
  NoRow = NoRow
  Free = Free
  MaxRestarts = 1
  Owners = {w1, w2, cli}
  Nobody = Nobody
  TTL = 3
  RenewEvery = 2
  MaxPause = 1
  Parts = {"prefixes", "inventory", "discovery", "backup", "time", "access", "lease"}
CHECK_DEADLOCK FALSE
SPECIFICATION Spec
INVARIANT StrictlyIncreasing PartsTypeOK OneWriterPerPi PeriodAsTyped CalendarShowsOnAir AtMostOneWriter ClearedUnderLease
PROPERTY FewestRenames EventuallyLoaded ReportComplete RestoreFaithful RevocationSticks OneCycleWritesAtATime TakenOver
