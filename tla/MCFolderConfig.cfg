CONSTANTS
  old = old
  copy = copy
  new = new
  None = None
  Folders <- ThreeFolders
  Film <- ThreeFilms
  MaxEdits = 4
  MaxFaults = 1
SPECIFICATION FairSpec
INVARIANTS
  SourceFollowsFile
PROPERTIES
  LegacyOnlyInCurrentFolder
  WritesPermitted
  PlanStaysUnlessMoved
  RowsFollowFolder
