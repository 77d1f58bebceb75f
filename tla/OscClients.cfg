SPECIFICATION FairSpec
CONSTANTS
  Threads = {t1, t2}
  Ifaces = {eth, wlan}
  Addrs = {a}
  MaxClients = 3
  MaxFlaps = 2
  MaxEdits = 1
  MaxBreaks = 1
  None = None
INVARIANTS TypeOK NoLeak
PROPERTIES  Recovers
CHECK_DEADLOCK FALSE
