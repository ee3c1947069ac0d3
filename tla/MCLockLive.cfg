SPECIFICATION LiveSpec
CONSTANTS
  Procs = {1,2,3}
  Started = {1,2,3}
  NLOCKS = 2
  Prios = {}
  NewPrios = {}
  InitPrio <- PrioById
  WaitPrios = {1,2}
  ReleaseArgs <- NoArgs
  Requests = 2
  Naps = 1
PROPERTIES
  WaiterServed
