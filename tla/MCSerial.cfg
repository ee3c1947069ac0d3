SPECIFICATION FairSpec
CONSTANTS
  Procs = {1,2}
  Prio <- OneRank
  NSEM = 1
  Counts = {}
  MaxCount = 5
  COMBUFSZ = 4
  Text = {"a","b"}
  Echoes <- SomeEchoes
INVARIANTS
  RoomCounted
  Drains
PROPERTIES
  InOrder
  Written
