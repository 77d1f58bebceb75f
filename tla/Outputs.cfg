SPECIFICATION OutputsSpec
CONSTANTS
  Addrs = {"a", "b"}
  DownPolls = 8
  Backoff = 2
  MaxBackoff = 12
  MaxChanges = 3
  Any = Any
  Streams = {data}
  OutputAddrs = {"a"}
  Sockets = {s1, s2}
  Threads = {k1, k2}
  MaxRetries = 2
  MaxStarts = 2
  MaxFlaps = 2
  Rows = {r}
  Markers = {1}
  Configs <- RowConfigs
  Positions = {0, 1, 2}
  MaxEdits = 2
  MaxMoves = 2
  MaxEvents = 1
  MaxFailures = 1
  None = None
INVARIANT BaselinesHeard
PROPERTIES KeepsThePromise ComesBack Recovers RowsSettle
CHECK_DEADLOCK FALSE
