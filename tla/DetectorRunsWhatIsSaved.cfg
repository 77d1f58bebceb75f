SPECIFICATION FairSpec
CONSTANTS
  Detections = {0, 1, 3}
  MaxSaves = 3
  MaxEdits = 0
  MaxFailures = 1
  MaxCuts = 0
  Missing = Missing
  Empty = Empty
  Torn = Torn
  None = None

PROPERTY DetectorRunsWhatIsSaved
CHECK_DEADLOCK FALSE
