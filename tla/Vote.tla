-------------------------------- MODULE Vote --------------------------------
(****************************************************************************)
(* Stake, delegation and interest: x/vote (manager, handler) with the       *)
(* LinoStakeStat of x/global it reads and writes.                           *)
(*                                                                          *)
(* Consumption friction of a day belongs to those who hold LinoStake that   *)
(* day.  Nobody is paid when the day ends: the statistic of every day keeps *)
(* the friction and the stake that have not been claimed yet, and a user's  *)
(* share of the days since his stake last changed is settled when it        *)
(* changes again or when he claims.  Time is counted in days, the only unit *)
(* this arithmetic knows.                                                   *)
(****************************************************************************)
EXTENDS Coins, FiniteSets, Functions

CONSTANTS
  Users,         \* accounts of the chain
  GenesisStake,  \* ValidatorMinVotingDeposit of genesis validators, else 0
  MinDeposit,    \* ValidatorMinCommittingDeposit
  Funds,         \* coins every account has outside the vote module at genesis
  Amounts,       \* amounts named in messages
  MinStakeIn,    \* VoteParam.MinStakeIn
  Frictions,     \* friction one donation may bring
  MaxToSelf,     \* bound: what a user delegates to himself, all in all
  MaxDonated,    \* bound: friction of all donations
  MaxDay         \* bound: days of the chain

ASSUME VoteAssumption ==
  /\ IsFiniteSet(Users)
  /\ GenesisStake \in [Users -> Nat] /\ MinDeposit \in Nat /\ Funds \in Nat
  /\ Amounts \subseteq Nat \ {0} /\ MinStakeIn \in Nat
  /\ Frictions \subseteq Nat \ {0}
  /\ MaxToSelf \in Nat /\ MaxDonated \in Nat /\ MaxDay \in Nat

VARIABLES
  voters,      \* users with a Voter record
  bonded,      \* users with a deposit, the AllValidators of x/validator
  validators,  \* ReferenceList.AllValidators
  stake,       \* Voter.LinoStake (0 without a record, as the next three)
  delegated,   \* Voter.DelegatedPower
  toOthers,    \* Voter.DelegateToOthers
  interest,    \* Voter.Interest
  changedAt,   \* day of Voter.LastPowerChangeAt
  delegation,  \* Delegation.Amount of <<voter, delegator>>, 0 without a record
  toSelf,      \* what a user has ever delegated to himself (bound and books)
  stat,        \* LinoStakeStat of the days so far
  today,       \* GetPastDay of the block time
  wallet,      \* savings, and frozen coins, which the model returns at once
  donated      \* friction of all donations so far (for the bound and the books)

voteVars == <<voters, bonded, validators, stake, delegated, toOthers, interest,
              changedAt, delegation, toSelf, stat, today, wallet, donated>>

Stats == [totalFriction : Nat, unclaimedFriction : Nat,
          totalStake : Nat, unclaimedStake : Nat]
------------------------------------------------------------------------------
(****************************************************************************)
(* Interest.                                                                *)
(****************************************************************************)
(* The days GetInterestSince pays for.                                      *)
Days(u) == {d \in changedAt[u] .. today - 1 : stat[d].unclaimedStake # 0}

(* Mutant: of all the friction of the day, not of what is left of it.       *)
ShareOfTotal(u, d) ==
  Round(stat[d].totalFriction * stake[u], stat[d].unclaimedStake)

Share(u, d) ==
  Round(stat[d].unclaimedFriction * stake[u], stat[d].unclaimedStake)

InterestSince(u) == SumFunction([d \in Days(u) |-> Share(u, d)])

(* Mutant: the stake that has been paid is still unclaimed.                 *)
SettledKeepingStake(u) ==
  [d \in 0 .. today |->
     IF d \in Days(u) THEN [stat[d] EXCEPT !.unclaimedFriction = @ - Share(u, d)]
     ELSE stat[d]]

Settled(u) ==
  [d \in 0 .. today |->
     IF d \in Days(u)
     THEN [stat[d] EXCEPT !.unclaimedFriction = @ - Share(u, d),
                          !.unclaimedStake = @ - stake[u]]
     ELSE stat[d]]

(* AddStake and MinusStake: interest first, then the stake, then today's    *)
(* statistic.  A user without a record has no stake, so that the days he    *)
(* did not have one bring him nothing.                                      *)
ChangeStake(u, amount) ==
  /\ interest' = [interest EXCEPT ![u] = @ + InterestSince(u)]
  /\ stake' = [stake EXCEPT ![u] = @ + amount]
  /\ stat' = [Settled(u) EXCEPT ![today].totalStake = @ + amount,
                                ![today].unclaimedStake = @ + amount]
------------------------------------------------------------------------------
(****************************************************************************)
(* Messages.                                                                *)
(****************************************************************************)
Spend(u, amount) ==
  /\ amount >= MinStakeIn /\ amount <= wallet[u]
  /\ wallet' = [wallet EXCEPT ![u] = @ - amount]

StakeIn(u, amount) ==
  /\ Spend(u, amount)
  /\ ChangeStake(u, amount)
  /\ voters' = voters \cup {u}
  /\ changedAt' = [changedAt EXCEPT ![u] = today]
  /\ UNCHANGED <<bonded, validators, delegated, toOthers, delegation, toSelf, today, donated>>

(* Mutant: stake delegated to others may leave, too.                        *)
WithdrawAnyStake(u, amount) ==
  /\ u \in voters /\ u \notin validators
  /\ stake[u] >= amount

(* Mutant: a validator's stake may leave, too.                              *)
WithdrawOfAnybody(u, amount) ==
  /\ u \in voters
  /\ stake[u] - toOthers[u] >= amount

IsLegalVoterWithdraw(u, amount) ==
  /\ u \in voters /\ u \notin validators
  /\ stake[u] - toOthers[u] >= amount

StakeOut(u, amount) ==
  /\ IsLegalVoterWithdraw(u, amount)
  /\ ChangeStake(u, -amount)
  /\ changedAt' = [changedAt EXCEPT ![u] = today]
  /\ wallet' = [wallet EXCEPT ![u] = @ + amount]
  /\ UNCHANGED <<voters, bonded, validators, delegated, toOthers, delegation, toSelf, today,
                 donated>>

(* Mutant: the delegation is not recorded with the delegator.               *)
AddDelegationOneSided(v, u, amount) ==
  /\ delegation' = [delegation EXCEPT ![<<v, u>>] = @ + amount]
  /\ delegated' = IF v = u THEN delegated ELSE [delegated EXCEPT ![v] = @ + amount]
  /\ toOthers' = toOthers

(* Both records are read before the voter's, then the delegator's are       *)
(* written: the second write undoes the first when they are the same, and   *)
(* what was to increase his power (x/vote/model/voter.go) lowers it.        *)
AddDelegation(v, u, amount) ==
  /\ delegation' = [delegation EXCEPT ![<<v, u>>] = @ + amount]
  /\ delegated' = IF v = u THEN delegated ELSE [delegated EXCEPT ![v] = @ + amount]
  /\ toOthers' = [toOthers EXCEPT ![u] = @ + amount]

(* Nothing keeps the delegator from being the voter.                        *)
Delegate(v, u, amount) ==
  /\ v = u => toSelf[u] + amount <= MaxToSelf
  /\ toSelf' = IF v = u THEN [toSelf EXCEPT ![u] = @ + amount] ELSE toSelf
  /\ Spend(u, amount)
  /\ ChangeStake(u, amount)
  /\ AddDelegation(v, u, amount)
  /\ voters' = voters \cup {u, v}
  /\ changedAt' = [w \in Users |-> IF w = u \/ (w = v /\ v \notin voters) THEN today
                                   ELSE changedAt[w]]
  /\ UNCHANGED <<bonded, validators, today, donated>>

(* Nobody asks whether the delegator is a validator.                        *)
DelegatorWithdraw(v, u, amount) ==
  /\ delegation[<<v, u>>] >= amount
  /\ ChangeStake(u, -amount)
  /\ changedAt' = [changedAt EXCEPT ![u] = today]
  /\ delegation' = [delegation EXCEPT ![<<v, u>>] = @ - amount]
  /\ delegated' = [delegated EXCEPT ![v] = @ - amount]
  /\ toOthers' = [toOthers EXCEPT ![u] = @ - amount]
  /\ wallet' = [wallet EXCEPT ![u] = @ + amount]
  /\ UNCHANGED <<voters, bonded, validators, toSelf, today, donated>>

ClaimInterest(u) ==
  /\ u \in voters
  /\ wallet' = [wallet EXCEPT ![u] = @ + interest[u] + InterestSince(u)]
  /\ interest' = [interest EXCEPT ![u] = 0]
  /\ stat' = Settled(u)
  /\ changedAt' = [changedAt EXCEPT ![u] = today]
  /\ UNCHANGED <<voters, bonded, validators, stake, delegated, toOthers, delegation, toSelf,
                 today, donated>>

(* A deposit of x/validator.  IsBalancedAccount asks for as much stake as   *)
(* is deposited, delegated or not.  The deposits are in Validator.          *)
BecomeValidator(u) ==
  /\ u \in voters \ bonded /\ stake[u] >= MinDeposit
  /\ bonded' = bonded \cup {u}
  /\ UNCHANGED <<voters, validators, stake, delegated, toOthers, interest, changedAt,
                 delegation, toSelf, stat, today, wallet, donated>>

(* By revocation, withdrawal or penalty.                                    *)
LeaveValidators(u) ==
  /\ u \in bonded
  /\ bonded' = bonded \ {u}
  /\ UNCHANGED <<voters, validators, stake, delegated, toOthers, interest, changedAt,
                 delegation, toSelf, stat, today, wallet, donated>>

(* BeginBlock tells this module who the validators are.                     *)
SyncInfoWithVoteManager ==
  /\ validators # bonded
  /\ validators' = bonded
  /\ UNCHANGED <<voters, bonded, stake, delegated, toOthers, interest, changedAt,
                 delegation, toSelf, stat, today, wallet, donated>>
------------------------------------------------------------------------------
(****************************************************************************)
(* What x/global does with the statistics.                                  *)
(****************************************************************************)
(* A donation leaves friction (AddFrictionAndRegisterContentRewardEvent).   *)
AddFriction(friction) ==
  /\ donated + friction <= MaxDonated
  /\ donated' = donated + friction
  /\ stat' = [stat EXCEPT ![today].totalFriction = @ + friction,
                          ![today].unclaimedFriction = @ + friction]
  /\ UNCHANGED <<voters, bonded, validators, stake, delegated, toOthers, interest, changedAt,
                 delegation, toSelf, today, wallet>>

(* Mutant: the friction goes on to the next day in every case.              *)
CarryAlways(last) == last

(* RecordConsumptionAndLinoStake: the friction stays with the stake of the  *)
(* day, or goes on to the next one if there was none.                       *)
Carry(last) ==
  IF last.totalStake # 0
  THEN [last EXCEPT !.totalFriction = 0, !.unclaimedFriction = 0]
  ELSE last

NextDay ==
  /\ today < MaxDay
  /\ today' = today + 1
  /\ stat' = [d \in 0 .. today + 1 |-> IF d <= today THEN stat[d] ELSE Carry(stat[today])]
  /\ UNCHANGED <<voters, bonded, validators, stake, delegated, toOthers, interest, changedAt,
                 delegation, toSelf, wallet, donated>>
------------------------------------------------------------------------------
(* Genesis validators have staked before the first block: AddStake, whose   *)
(* record AddVoter then overwrites with the same stake.                     *)
VoteInit ==
  /\ voters = {u \in Users : GenesisStake[u] > 0}
  /\ bonded = voters /\ validators = voters
  /\ stake = GenesisStake
  /\ delegated = [u \in Users |-> 0]
  /\ toOthers = [u \in Users |-> 0]
  /\ interest = [u \in Users |-> 0]
  /\ changedAt = [u \in Users |-> 0]
  /\ delegation = [p \in Users \X Users |-> 0]
  /\ toSelf = [u \in Users |-> 0]
  /\ today = 0
  /\ stat = [d \in {0} |->
       [totalFriction |-> 0, unclaimedFriction |-> 0,
        totalStake |-> SumFunction(GenesisStake),
        unclaimedStake |-> SumFunction(GenesisStake)]]
  /\ wallet = [u \in Users |-> Funds]
  /\ donated = 0

Transactions ==
  \/ \E u \in Users : ClaimInterest(u)
  \/ \E u \in Users, amount \in Amounts : StakeIn(u, amount) \/ StakeOut(u, amount)
  \/ \E v, u \in Users, amount \in Amounts :
       Delegate(v, u, amount) \/ DelegatorWithdraw(v, u, amount)

VoteNext ==
  \/ Transactions
  \/ \E u \in Users : BecomeValidator(u) \/ LeaveValidators(u)
  \/ SyncInfoWithVoteManager
  \/ \E friction \in Frictions : AddFriction(friction)
  \/ NextDay

VoteSpec == VoteInit /\ [][VoteNext]_voteVars
------------------------------------------------------------------------------
(****************************************************************************)
(* Properties.                                                              *)
(****************************************************************************)
(* No subtraction of the handlers or of GetInterestSince goes below zero    *)
(* but one: the power credited to a user who delegated to himself, by at    *)
(* most what he delegated that way (AddDelegation, DelegatorWithdraw).      *)
VoteTypeOK ==
  /\ voters \subseteq Users /\ bonded \subseteq voters /\ validators \subseteq voters
  /\ stake \in [Users -> Nat]
  /\ delegated \in [Users -> Int] /\ toSelf \in [Users -> 0 .. MaxToSelf]
  /\ \A u \in Users : delegated[u] >= -toSelf[u]
  /\ toOthers \in [Users -> Nat] /\ interest \in [Users -> Nat]
  /\ changedAt \in [Users -> 0 .. today]
  /\ delegation \in [Users \X Users -> Nat]
  /\ today \in Nat /\ stat \in [0 .. today -> Stats]
  /\ wallet \in [Users -> Nat] /\ donated \in Nat

(* The stake a day still has to pay for is the stake of exactly the users   *)
(* who have not settled that day, whatever order they stake, withdraw,      *)
(* delegate and claim in: nobody can claim a day twice and nobody's claim   *)
(* eats another's.                                                          *)
UnsettledStake(d) ==
  SumFunction([u \in {v \in Users : changedAt[v] <= d} |-> stake[u]])

StakeToPay ==
  /\ \A d \in 0 .. today - 1 : stat[d].unclaimedStake = UnsettledStake(d)
  /\ stat[today].unclaimedStake = SumFunction(stake)
  /\ stat[today].totalStake = SumFunction(stake)

(* Interest neither makes nor loses coins although every claim is rounded:  *)
(* what users hold, what is staked, what is due and what the days still     *)
(* have to pay adds up to genesis and the donations.  A day nobody held     *)
(* stake passes its friction on; the copy it keeps is never paid.           *)
FrictionDue ==
  SumFunction([d \in {e \in 0 .. today : e = today \/ stat[e].unclaimedStake # 0}
                 |-> stat[d].unclaimedFriction])

CoinsConserved ==
  SumFunction(wallet) + SumFunction(stake) + SumFunction(interest) + FrictionDue
  = Cardinality(Users) * Funds + SumFunction(GenesisStake) + donated

(* The order of claims moves nobody's share of a finished day further from  *)
(* the pro rata share than half a coin for every user that rounds before.   *)
FairShare ==
  \A u \in voters : \A d \in Days(u) :
    LET due == stat[d].totalFriction * stake[u]
        got == Share(u, d) * stat[d].totalStake
        off == IF due > got THEN due - got ELSE got - due
    IN 2 * off <= Cardinality(Users) * stat[d].totalStake

(* The two sums a delegation is counted in agree with the delegations,      *)
(* whoever delegates, himself included, and withdraws in whatever order:    *)
(* the power charged is theirs, and the power credited falls short of them  *)
(* by exactly what the voter has ever delegated to himself, withdrawn again *)
(* or not.  Delegated stake is still there: a voter's power cannot be       *)
(* withdrawn behind his back by the delegator's StakeOut.                   *)
Received(v) == SumFunction([u \in Users |-> delegation[<<v, u>>]])

DelegationsAgree ==
  /\ \A v \in Users : delegated[v] + toSelf[v] = Received(v)
  /\ \A u \in Users : toOthers[u] = SumFunction([v \in Users |-> delegation[<<v, u>>]])
  /\ \A u \in Users : toOthers[u] <= stake[u]

(* What a validator has staked and not delegated stays staked as long as    *)
(* this module knows him, whatever he delegates, to himself or others, and  *)
(* withdraws (IsLegalVoterWithdraw).  It is not what his deposit is         *)
(* balanced against: that counts the stake he has delegated, too, which     *)
(* DelegatorWithdraw gives back to a validator as to anybody.               *)
Undelegated(u) == stake[u] - toOthers[u]

ValidatorsKeepStake ==
  [][\A u \in validators : Undelegated(u)' >= Undelegated(u)]_voteVars
==============================================================================
