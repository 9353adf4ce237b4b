SPECIFICATION RewardsSpec
CONSTANTS
  a = a
  b = b
  Account = {a, b}
  Nobody = Nobody
  Banned = {}
  Link = {l1}
  NoParams = NoParams
  Vested = {{a, b}}
  EffVesting = {16}
  VoteCounts = {1, 2}
  Percents = {4}
  TokenProps = {1}
  CuratorPrcnts = {2, 4}
  MaxPayouts = {5, 9}
  Imports = {}
  Fund = {8}
  Whole = 4
  OnePercent = 1
  DefaultK = 1
  MaxAmount = 9
  CounterRange = 4
  MaxClosed = 1
  TargetPayments = 2
  MaxPayments = 3
  MaxDeletions = 1
  MaxTime = 2
  MaxId = 1
  MaxBalance = 8
  MaxLost = 1
  Administration = FALSE
  RefBatches = {}
  Expire = {}
  Breakout = {}
  Percent = {}
  MaxRefDeletions = 1
  ChargeId = {0, 1}
  RestorerFuncs = {}
  UsePrices = {}
  Cutoffs = {}
  Pairs = {}
  ParamBatches = {}
  RuleSets = {}
  LimitRows <- NoRows
  DelegatorLists <- MCDelegators
  Beneficiaries <- MCBeneficiaries
INVARIANTS
  SharesExact
  PaymentsComplete
  NothingForgotten
PROPERTIES
  Settled
  ImplementsRewards
