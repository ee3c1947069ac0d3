SPECIFICATION Spec
CHECK_DEADLOCK FALSE
CONSTANTS
  NPROC = 9
  MININT = 0
  MAXINT = 9
  Waiting = {1,2,7,8}
  WaitPrios = {1,2}
  MaxWaits = 4
INVARIANTS
  Linked
  AdmitsAdmitted
PROPERTIES
  ReleaseReturns
