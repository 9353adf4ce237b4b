SPECIFICATION PoolsSpec
CONSTANTS
  a = a
  b = b
  Account = {a}
  Nobody = Nobody
  Banned = {}
  Link = {l1, l2}
  NoParams = NoParams
  Vested = {{a}}
  EffVesting = {1}
  VoteCounts = {1}
  Percents = {}
  TokenProps = {0}
  CuratorPrcnts = {1}
  MaxPayouts = {9}
  Imports = {}
  Fund = {}
  Whole = 2
  OnePercent = 1
  DefaultK = 1
  MaxAmount = 9
  CounterRange = 4
  MaxClosed = 2
  TargetPayments = 3
  MaxPayments = 3
  MaxDeletions = 2
  MaxTime = 2
  MaxId = 2
  MaxBalance = 0
  MaxLost = 0
  Administration = FALSE
  RefBatches = {}
  Expire = {}
  Breakout = {}
  Percent = {}
  MaxRefDeletions = 1
  ChargeId = {0}
  RestorerFuncs = {}
  UsePrices = {}
  Cutoffs = {}
  Pairs = {}
  ParamBatches = {}
  RuleSets = {}
  LimitRows <- NoRows
  DelegatorLists <- NoDelegators
  Beneficiaries <- NoBeneficiaries
INVARIANTS
  ClosingChecksHold
