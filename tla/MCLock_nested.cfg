SPECIFICATION ClientSpec
CONSTANTS
  Procs = {1,2,8}
  Started = {1,2,8}
  NLOCKS = 2
  Prios = {}
  NewPrios = {}
  InitPrio <- PrioById
  WaitPrios = {1}
  ReleaseArgs <- TwoLocks
INVARIANTS
  MutualExclusion
  Agreement
CHECK_DEADLOCK FALSE
