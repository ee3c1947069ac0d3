SPECIFICATION FairSpec
CONSTANTS
  N = 3
  Ports = {1, 2}
  MaxTry = 1
  MaxRetx = 1
  BootpKinds = {"reply", "bad", "request"}
INVARIANTS Loaded ServerDone
PROPERTY Ends
CHECK_DEADLOCK FALSE
