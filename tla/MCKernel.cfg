SPECIFICATION ClientSpec
CONSTANTS
  Procs = {1,2,3}
  Prio <- TwoRanks
  NSEM = 1
  Counts = {0,1}
  MaxCount = 1
  Callers <- Roles
  NLOCKS = 1
  Delays = {1,2}
INVARIANTS
  OnItsList
  ReceiverWoken
PROPERTIES
  DelayKept
  Counting
