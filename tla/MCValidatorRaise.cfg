SPECIFICATION Spec
CONSTANTS
  None = None
  Users = {u1, u2}
  Keys = {u1, u2}
  KeysOf <- OwnKeys
  GenesisValidators = {u1, u2}
  Funds = 8
  Amounts = {1, 2}
  StakeAmounts = {1, 2}
  MaxCoin = 1000
  GenesisParam <- MCParam
  ParamSteps <- Raise
  MinVoting = 2
  MinWithdraw = 1
  MinStakeIn = 1
  AbsentLimit = 1
  PenaltyByzantine = 1
  PenaltyMissCommit = 1
  PenaltyMissVote = 3
  MaxEvidence = 1
SYMMETRY Symmetry
INVARIANTS
  ByzantineSlashed
CHECK_DEADLOCK FALSE
