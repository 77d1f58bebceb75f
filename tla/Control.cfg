SPECIFICATION FairSpec
CONSTANTS
  Tokens = {t1, t2, t3}
  N = 2
  MaxSessions = 2
  Pins <- ControlPins
  Budgets <- ControlBudgets
  None = None
INVARIANTS TypeOK InTheRightHands
PROPERTIES Lapses
CHECK_DEADLOCK FALSE
