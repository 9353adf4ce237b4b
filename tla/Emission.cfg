SPECIFICATION MCSpec
CONSTANTS
  Pool = {1, 2, 3}
  Batches <- MCBatches
  NoParams = NoParams
  NoState = NoState
  Supplies = {0, 5, 8}
  ContinuousRate <- MCRate
  Whole = 4
  YearBlocks = 2
  MaxIdle = 4
  MaxAge = 2
  Value = {1, 2, 3}
  MaxTop = 5
INVARIANTS
  TypeOK
  ChainAlive
  EverySecondOnce
  SplitFair
  MajorityFound
  MedianInMiddle
PROPERTIES
  EmissionContinues
