SPECIFICATION Spec
CONSTANTS
  Voter = {u, c}
  Candidate = {c, d}
  Bannable = {c}
  NoParams = NoParams
  ParamSets <- MCParams
  MaxAge = 1
  Amount <- MCAmount
  Reward = {}
  MaxShares = 2
  MaxTreasury = 0
PROPERTY FullListIsSent
