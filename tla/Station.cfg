SPECIFICATION StationSpec
CONSTANTS
  Entities = {"m1", "m2"}
  Spots = {"b", "m", "o"}
  Shapes = {"square", "filtered"}
  Outer <- LineOuter
  Inner <- LineInner
  Admits <- LineAdmits
  Dests = {"d"}
  ZoneConfigs <- LineConfigs
  Spoken = {"first", "additional", "partial", "final"}
  Debounce = 2
  MaxZoneChanges = 4
  UrlAttempts = 2
  PickedAttempts = 1
  ListedPasses = 1
  MaxChanges = 3
  MaxSteps = 1
  Detections = {0, 1, 3}
  MaxSaves = 2
  MaxEdits = 1
  MaxFailures = 1
  MaxCuts = 1
  Missing = Missing
  Empty = Empty
  Torn = Torn
  Ifaces = {1, 2}
  MaxComings = 1
  Automatic = Automatic
  None = None
INVARIANTS StationTypeOK  StallIsSeen SavesAddUp
PROPERTIES ReloadKeeps AppliesWhatItShows  ComesAbout
CHECK_DEADLOCK FALSE
