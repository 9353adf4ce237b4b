SPECIFICATION CommunitySpec
CONSTANTS
  a = a
  b = b
  Account = {a, b}
  Nobody = Nobody
  Banned = {}
  Link = {l1}
  NoParams = NoParams
  Vested = {{a, b}}
  EffVesting = {1}
  VoteCounts = {1}
  Percents = {}
  TokenProps = {0}
  CuratorPrcnts = {0}
  MaxPayouts = {9}
  Fund = {}
  Whole = 4
  OnePercent = 1
  DefaultK = 1
  MaxAmount = 9
  CounterRange = 4
  MaxClosed = 2
  TargetPayments = 3
  MaxPayments = 3
  MaxDeletions = 1
  MaxTime = 1
  MaxId = 2
  MaxBalance = 3
  MaxLost = 0
  Administration = TRUE
  Expire = {1}
  Breakout = {1}
  Percent = {2}
  MaxRefDeletions = 1
  ChargeId = {1}
  UsePrices = {0}
  Cutoffs = {1}
  LimitRows <- MCRows
  RuleSets <- MCPlain
  DelegatorLists <- NoDelegators
  Beneficiaries <- MCBeneficiariesOfTwo
  RefBatches <- MCRefBatches
  Imports <- MCImports
  RestorerFuncs <- MCRestorers
  ParamBatches <- MCBatches
  Pairs <- MCPairs
INVARIANTS
  TreeSound
  BeneficiariesSound
PROPERTIES
  ReferralKept
