SPECIFICATION CurvesSpec
CONSTANTS
  a = a
  b = b
  Account = {a, b}
  Nobody = Nobody
  Banned = {}
  Link = {l1}
  NoParams = NoParams
  Vested = {{a, b}}
  EffVesting = {1, 3}
  VoteCounts = {1}
  Percents = {2}
  TokenProps = {0}
  CuratorPrcnts = {2}
  MaxPayouts = {9}
  Imports = {}
  Fund = {2}
  Whole = 2
  OnePercent = 1
  DefaultK = 1
  MaxAmount = 9
  CounterRange = 4
  MaxClosed = 1
  TargetPayments = 3
  MaxPayments = 3
  MaxDeletions = 2
  MaxTime = 1
  MaxId = 1
  MaxBalance = 2
  MaxLost = 0
  Administration = FALSE
  RefBatches = {}
  Expire = {}
  Breakout = {}
  Percent = {}
  MaxRefDeletions = 1
  ChargeId = {0}
  RestorerFuncs = {}
  UsePrices = {}
  Cutoffs = {}
  Pairs = {}
  ParamBatches = {}
  LimitRows <- NoRows
  RuleSets = {}
  DelegatorLists <- NoDelegators
  Beneficiaries <- NoBeneficiaries
INVARIANTS
  PaymentsComplete
