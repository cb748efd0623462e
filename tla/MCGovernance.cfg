SPECIFICATION FairSpec
CONSTANTS
  a = a
  b = b
  post = post
  Events <- GovernanceEvents
  FollowUps <- GovernanceFollowUps
  Delays = {1, 2}
  Times <- MCTimes
  Users <- MCUsers
  Funds <- MCFunds
  GenesisPower <- MCGenesisPower
  Powers <- MCPowers
  Posts = {post}
  slow = slow
  quick = quick
  Params <- MCParams
  Changes = {slow}
  RulesOf <- MCRulesOf
  InitialParam = quick
  MaxProposals = 2
  MaxClock = 5
INVARIANTS
  NeverHalts
  TalliesAgree
  OnlyApprovedChanges
  DepositsReturned
PROPERTIES
  EveryProposalDecided
