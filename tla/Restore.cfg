SPECIFICATION RestoreSpec
CONSTANTS
  Folders = {"templates", "lenses"}
  EarlyMaking = {"lenses"}
  MaxRestores = 2
  MaxFaults = 2
  MaxStuck = 1
  MaxCuts = 3
  MaxEdits = 2
  Own = Own
  Edited = Edited
  Empty = Empty
  Gone = Gone
INVARIANTS TypeOK OwnNotLost
PROPERTIES   StartComesUp
CHECK_DEADLOCK FALSE
