SPECIFICATION Spec
CONSTANTS
  Ifaces = {1, 2}
  MaxComings = 1
  Automatic = Automatic
  None = None
PROPERTIES ActsOnTheOneNamed
CHECK_DEADLOCK FALSE
