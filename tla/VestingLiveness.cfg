SPECIFICATION FairSpec
CONSTANTS
  Account = {a, b}
  ReturnId = {0, 1}
  NoParams = NoParams
  ParamSets <- MCBacklogParams
  ScaleUp = 2
  ScaleDown = 1
  MaxSteps = 1
  MaxReturns = 1
  ChargeLevel = {0}
  Deposit = {1}
  Limit = {}
  Fickle = {b}
  WordRange = 16
  MaxAmount = 4
  MaxBalance = 2
  MaxSupply = 4
  MaxTime = 1
PROPERTY BacklogIsReached
