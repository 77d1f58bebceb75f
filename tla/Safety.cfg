SPECIFICATION SafetySpec
CONSTANTS
  Streams = {data, info}
  Addrs = {a, b}
  Sockets = {s1, s2}
  Threads = {k1, k2}
  MaxRetries = 2
  MaxStarts = 2
  MaxFlaps = 2
  None = None
  Shared = {1}
  Devices <- SlotDevices
  Kinds <- SlotKinds
  Controlled <- SlotControlled
  Edits <- SlotEdits
  Budgets <- SlotBudgets
SYMMETRY Names
INVARIANTS SocketOnSource SocketsAccounted PinsHold
PROPERTY SeatsKept
