SPECIFICATION Spec
CONSTANTS
  Procs = {1,2}
  Started = {1,2}
  NLOCKS = 1
  Prios = {1}
  NewPrios = {3}
  InitPrio <- PrioById
  WaitPrios = {1,2}
  ReleaseArgs <- AnyArgs
INVARIANTS
  Placement
PROPERTIES
  WakeupMeansSomething
CHECK_DEADLOCK FALSE
