SPECIFICATION Spec
CONSTANTS
  Account = {a, b}
  ReturnId = {0, 1}
  NoParams = NoParams
  ParamSets <- MCParams
  ScaleUp = 1
  ScaleDown = 1
  MaxSteps = 2
  MaxReturns = 1
  ChargeLevel = {0}
  Deposit = {1, 2}
  Limit = {1}
  Fickle = {}
  WordRange = 16
  MaxAmount = 2
  MaxBalance = 3
  MaxSupply = 2
  MaxTime = 2
SYMMETRY Symmetry
INVARIANTS
  TypeOK
  LockedWithinVesting
  WithdrawalsSound
  AbortsNeedNegativeReturns
  SupplyIsOwned
  SharesAreBacked
  DelegationBooks
PROPERTIES
  PriceNeverFalls
  ImplementsLedger
