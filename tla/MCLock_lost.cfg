SPECIFICATION SingleSpec
CONSTANTS
  Procs = {1,2,8}
  Started = {1,2,8}
  NLOCKS = 2
  Prios = {}
  NewPrios = {}
  InitPrio <- PrioById
  WaitPrios = {1,2}
  ReleaseArgs <- OneLock
INVARIANTS
  WaiterHasHolder
CHECK_DEADLOCK FALSE
