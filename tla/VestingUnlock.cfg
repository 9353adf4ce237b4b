SPECIFICATION Spec
CONSTANTS
  Account = {a, b}
  ReturnId = {0}
  NoParams = NoParams
  ParamSets <- MCParams
  ScaleUp = 1
  ScaleDown = 1
  MaxSteps = 1
  MaxReturns = 1
  ChargeLevel = {0}
  Deposit = {1}
  Limit = {3}
  Fickle = {b}
  WordRange = 16
  MaxAmount = 3
  MaxBalance = 3
  MaxSupply = 3
  MaxTime = 2
INVARIANT EveryBalanceCanBeUnlocked
