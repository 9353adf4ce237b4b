SPECIFICATION PoolsSpec
CONSTANTS
  a = a
  b = b
  Account = {a}
  Nobody = Nobody
  Banned = {}
  Link = {l1, l2}
  NoParams = NoParams
  Vested = {{a}}
  EffVesting = {1}
  VoteCounts = {1}
  Percents = {2}
  TokenProps = {0}
  CuratorPrcnts = {1}
  MaxPayouts = {1}
  Imports = {}
  Fund = {3}
  Whole = 2
  OnePercent = 1
  DefaultK = 1
  MaxAmount = 9
  CounterRange = 4
  MaxClosed = 1
  TargetPayments = 3
  MaxPayments = 3
  MaxDeletions = 2
  MaxTime = 1
  MaxId = 2
  MaxBalance = 3
  MaxLost = 0
  Administration = TRUE
  RefBatches = {}
  Expire = {}
  Breakout = {}
  Percent = {}
  MaxRefDeletions = 1
  ChargeId = {0}
  RestorerFuncs = {}
  UsePrices = {}
  Cutoffs = {}
  Pairs = {}
  ParamBatches = {}
  LimitRows <- NoRows
  RuleSets <- MCPlain
  DelegatorLists <- NoDelegators
  Beneficiaries <- NoBeneficiaries
SYMMETRY AnyLink
INVARIANTS
  TypeOK
  CountsExact
  SharesExact
  FundsCovered
  FundsLast
  ClosingNeverAborts
