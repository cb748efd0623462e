SPECIFICATION Spec
CONSTANTS
  None = None
  Users = {u1, u2, u3}
  Keys = {u1, u2, u3}
  KeysOf <- SharedKeys
  GenesisValidators = {u1, u2, u3}
  Funds = 8
  Amounts = {2}
  StakeAmounts = {2}
  MaxCoin = 1000
  GenesisParam <- MCParam
  ParamSteps = {}
  MinVoting = 2
  MinWithdraw = 1
  MinStakeIn = 1
  AbsentLimit = 1
  PenaltyByzantine = 1
  PenaltyMissCommit = 1
  PenaltyMissVote = 3
  MaxEvidence = 1
INVARIANTS
  DistinctKeys
