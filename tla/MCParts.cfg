SPECIFICATION PartsSpec
CONSTANTS
  Memory <- Mem
  Sizes = {1,2,4}
  StackSizes = {2,4}
  Users = {u1,u2}
  NBPOOLS = 2
  PoolKinds <- Kinds
  Producer = pr
  Consumer = co
  MAXNQ = 2
  Lengths = {1,2,8}
  Keys = {1,2}
  Elts = {a,b}
  MaxLen = 6
  SortKeys = {1,2,3}
  WIDTH = 16
  DIGITS = 5
  MAXSTR = 8
  STRLEN = 10
  Formats <- Fs
  Numbers <- Nums
  Texts <- Ts
  Inputs <- Ins
  ScanFormats <- SFs
  Pieces <- Ps
  MaxPieces = 8
  Machines <- Ms
  VTable <- VT
  MAX_DEVICE = 3
  MAX_INDEX = 2
  Cards <- Cs
  ADDRBITS = 3
  WORDBITS = 6
  INTEL <- INT
  PATTERN = 2
  POLLS = 2
  KIND3C905 <- K905
  KINDPRO100 <- K100
INVARIANTS
  MemoryWhole PoolsRight SortsRight TextRight TablesRight CardReady
PROPERTIES
  Prioritised ArraysAccounted
CHECK_DEADLOCK FALSE
