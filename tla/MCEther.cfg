SPECIFICATION Spec
CONSTANTS
  TSIZE = 1
  Hosts = {h1, h2}
  TxSize = 9
  TxHeader = 1
  LongLen = 4
  ShortLen = 3
  MonBufs = {1, 2, 3}
  NetBufs = {4, 5, 6}
  QSize = 3
  TXRING = 3
  RXRING = 1
INVARIANTS
  BufsOnce
  Addressed
  Apart
  Chained
CHECK_DEADLOCK FALSE
SYMMETRY Symmetry
