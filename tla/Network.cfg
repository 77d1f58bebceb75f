SPECIFICATION NetworkSpec
CONSTANTS
  Loops = {"beacon_tx", "beacon_rx", "catalog_rx"}
  Addrs = {a, b}
  DownPolls = 2
  RefreshTTL = 2
  RxTries = 2
  MaxStall = 1
  MaxChanges = 3
  MarkerIds = {1, 2, 3}
  EntrySize <- EntrySizes
  Separator = 1
  Rooms = {3, 5}
  MaxChunks = 1
  MaxEdits = 3
  MaxFailures = 1
  Trackers = {1}
  Ttl = 2
  MaxStarts = 2
  MaxOrders = 4
  None = None
INVARIANTS NetworkTypeOK NoRepointLost SenderKeepsItsWord
PROPERTIES  Spreads 
