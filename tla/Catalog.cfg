SPECIFICATION McSpec
CONSTANTS
  Stations = {1, 2}
  Ids = {1}
  Stamps = {1, 2}
  MaxVersion = 99
  MaxBoots = 1
  Selections = {{}, {1}}
  MaxEdits = 2
  Buffer = 1
  None = None
INVARIANTS TypeOK AckedEditSurvives NextEditWins ClockNeverForgets
 
CHECK_DEADLOCK FALSE
