SPECIFICATION Spec
CONSTANTS
  Voter = {u, c}
  Candidate = {c, d}
  Bannable = {c}
  NoParams = NoParams
  ParamSets <- MCParams
  MaxAge = 1
  Amount <- MCAmount
  Reward = {1, 3}
  MaxShares = 2
  MaxTreasury = 0
INVARIANTS
  TypeOK
  VotesCounted
  WeightIsVesting
  BannedInactive
  AuthorityFollows
  AuthorityReachable
  RewardsSplit
