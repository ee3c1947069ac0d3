SPECIFICATION SingleSpec
CONSTANTS
  Procs = {1,2,3}
  Started = {1,2,3}
  NLOCKS = 2
  Prios = {}
  NewPrios = {}
  InitPrio <- PrioById
  WaitPrios = {1,2}
  ReleaseArgs <- OneLock
INVARIANTS
  TypeOK
  WaiterHasHolder
  ReaderWaitsForReason
  SomeHolderInherits
PROPERTIES
  NoOvertake
  Policy
