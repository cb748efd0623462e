# A verification project for the Lino chain

The Lino blockchain (`src/`) is a Cosmos-SDK application: an ABCI program that
Tendermint drives block by block, the same on every node.  It keeps accounts
with savings and coin days, stake and validators, posts with donations and the
inflation they earn, and proposals that change its own parameters.

Nothing in it runs concurrently within a node, and consensus fixes the order of
blocks and transactions.  What is hard is elsewhere:

* **order of legal calls**: which transactions, block hooks and delayed events
  follow each other is up to users and time, and every order must keep the
  books;
* **delayed events**: coin returns, rewards, decisions and parameter changes
  are executed seconds to weeks after they were registered, in a state that has
  moved on, under parameters that may have changed; an error of one is a panic
  of every node (`app/app.go:440`);
* **cached sums**: the lowest power, the consumption window, unclaimed stake,
  the totals of a coin day queue and both sides of a delegation are kept up to
  date by separate statements in separate modules;
* **rounding**: coins are integers, rates are rationals, and every conversion
  rounds (`types.RatToCoin`, half to even);
* **partial failure**: a failing transaction is rolled back, a failing block
  hook is not.

The modules model this control and abstract the data: names, texts, links and
JSON are left out, keys are model values, amounts are small numbers.

## Inventory

| Component | State it keeps | Operations | Interacts with | What makes it correct | Module |
|---|---|---|---|---|---|
| Validator set (`x/validator`, hooks in `app/app.go`) | validator records, `ValidatorList` with the lowest power cached | deposit, withdraw, revoke; per block: signing info, firing, update list for Tendermint; penalty for missed votes | stake and reference list of `x/vote`; events; `ValidatorParam`; Tendermint | the oncall list holds the largest deposits; deposits exist exactly while listed; no offender escapes; Tendermint signs with the list; the block hook never panics | `Validator`, `ValidatorProofs` |
| Stake, delegation, interest (`x/vote`, `LinoStakeStat` of `x/global`) | voters, delegations, one statistic a day | stake in/out, delegate, withdraw, claim interest; daily carry | friction of donations; validators' stake; `ReturnCoinEvent` | a day is paid once to its holders and in full, whatever the order of claims; both sides of a delegation agree | `Vote`; `GlobalProofs` |
| Block scheduler and time events (`app.beginBlocker`, `global.registerEventAtTime`) | `GlobalTime`, an event list for every second | catch-up with minutes and with seconds, register, execute, remove | everything that registers or executes events | every event once, in order, by the first block past its second; the statistic of today is open when it is read | `Scheduler` implements `Delivery`; `GlobalProofs` |
| Governance (`x/proposal`, votes of `x/vote`, `param/event.go`) | ongoing and expired proposals, votes, `ProposalParam` | create, vote, decide, return deposit, change parameter | events, deposits, voting power, posts | every proposal is decided once, by the votes cast at their voters' power; only what passed changes a parameter; deposits come back; no event panics | `Governance` (on `Delivery`), `GovernanceProofs` |
| Savings and coin days (`x/account`) | saving, `CoinDay`, queue of pending coin days with two running totals, rewards to claim | add and take coins in either order of charging, transfer, register, claim, read coin day | every module that moves coins; the capacity check of every message | running totals are those of the entries; coin day is backed by savings; reading changes nothing; no coin is made or lost | `Bank`, `AccountProofs` |
| Posts, donations, rewards (`x/post`, `ConsumptionMeta` of `x/global`) | posts, consumption window, reward pool, supply, waiting `RewardEvent`s | create, repost, delete, donate, execute a reward | `Bank` (coin day of a donation), reputation, events, friction of `Vote` | the window is what waits; sharing is one level deep; nothing for deleted posts; every donation is settled | `Content`, `ContentProofs` |
| Keys, grants, authentication (`x/auth`, grants of `x/account`) | three public keys, grants, sequence numbers, capacity | check a signature, grant, revoke, recover, charge capacity | every message | a key signs what its grant covers, once, until it expires; donations stay within what was granted; recovery ends the old keys | `Keys`, `AccountProofs` |
| Inflation, supply, growth (`x/global`, hourly, monthly and yearly steps of `app/app.go`) | `GlobalMeta`, `InflationPool`, growth rate, `ConsumptionMeta` | hourly and monthly distribution, growth rate, recharge by fees and penalties | developers, infrastructure providers, validators, content pool | shares add up to what is issued, no pool is overdrawn, the rate stays in its bounds | `Inflation`, `InflationProofs` |
| Developers and infrastructure providers (`x/developer`, `x/infra`) | lists, deposits, app consumption, usage | register, revoke, report, monthly weights | `Inflation`, coin return events | a month is paid by what was reported in it; names and records agree, or every node panics | `Inflation` |
| Reputation (`x/reputation`) | scores of users, reputation of posts, rounds with their best posts and keys | donate at, report at, stake in, end of round | donations and reports of `x/post`, stake of `x/vote`, `EndBlock` | a round is settled once and in full, however late; the result is the strongest posts; keys are worth what they cost; free score follows locked coins | `Reputation` implements `Rounds`; `ReputationProofs` |
| Parameters (`param`) | a record for each module | read, change by proposal | all | see Governance and Validator | in part |
| Genesis, export (`app/genesis.go`) | - | build the first state, dump accounts | all | `Init` of the modules | in part |
| Messages, errors, encoding (`msg.go`, `errors.go`, `wire.go`) | none | `ValidateBasic`, texts | - | a unit test covers them | not modelled |
| Followers, metadata, views, clients, commands | texts, sets nothing reads | - | - | - | not modelled |

`PROJECT.json` names the hazards of each at their lines, the properties that
would catch them, and for the hazards without one the reason.

## Modules

A transaction whose handler returns an error is rolled back by the framework,
so the actions are the successful paths, and a failing handler is a stuttering
step.  Block hooks are not rolled back: their error paths are part of the
actions.  Frozen coins on their way back (`ReturnCoinEvent`) are in the books
of `Validator` and `Vote` as if they had come back; the events themselves are
the scheduler's.

**Coins.**  `Round` is `types.RatToCoin`, the one conversion that loses
information; every module that divides coins uses it.

**AccountClock.**  What the two models of `x/account`, Bank and Keys, have in
common: the users, the amounts, the bound on time (`AccountAssumption`) and the
block time with its one step, `Later`.  Definitions of Bank that would clash with those of Keys
are named after it (`BankInit`, `BankNext`), so that one module proves about both.

**Validator.**  One block is `BeginBlock` (signing info of
`UpdateSigningInfo`, then the firing loop, one action for each half of its body:
`FireByzantine`, `FireAbsent`, `KeepValidator`; `FireDone` is the rest of
`beginBlocker`), the time events (`DecideProposal` with `PunishDidntVote` and
`PunishDone`, `ChangeParam`, `EventsDone`), transactions (deposit, withdraw,
revoke, stake in and out) and `EndBlock`, which reports the differences to
Tendermint.  The manager's operations on the lists (`JoinLists`,
`TryBecomeOncallValidator`, `AdjustValidatorList`,
`RemoveValidatorFromAllLists`, `PunishOncallValidator`) are operators that
return the set of outcomes: which of several equal deposits is taken depends on
the order of the stored list and is a choice, and an error comes with what the
store holds at that moment.  `phase = "halted"` is a panic.

**Vote.**  The messages of the vote module with the arithmetic of
`GetInterestSince`: time is counted in days, a statistic for each.  A claim, or
any change of stake, settles the days since the last one (`Settled`).
`NextDay` carries the friction of a day without stake over.  `AddDelegation`
has the order of its reads and writes: voter and delegator may be one user, whose
record it then overwrites with an older copy.  Who deposits as a validator
(`BecomeValidator`, `LeaveValidators`) gets into the list `StakeOut` looks at with
the next block (`SyncInfoWithVoteManager`).  `toSelf` counts what a user has ever
delegated to himself, for the bound and the properties only.  `RewardEvent`,
which stakes half of a reward for an author, is left to Content: it is a
`StakeIn` that takes its coins from elsewhere.

**Delivery and Scheduler.**  `Delivery` is what the chain promises about time
events.  `Scheduler` is how: the loop over minutes (`IncreaseMinute`), the loop
over seconds (`MinutesDone`, `ExecuteEvent`, `NextSecond`, `EventsDone`), and
registration by transactions and by events.  The refinement maps the queue to
what is left of every list: the executed part of the list the cursor is on is
still stored.

**Governance** EXTENDS `Delivery`, so proposals run on the promise and not on
the loops: proposals, votes, tallies and deposits are its state, and the queue
holds its events.  Executing one replaces `Execute` of Delivery by the body of
`DecideProposalEvent`, `ReturnCoinEvent` or `ChangeParamEvent`.  Rules
(`ProposalParam`) are read when the code reads them.

**Bank.**  An account is the record of `AccountBank` and `PendingCoinDayQueue`;
`Update` is `updateTXFromPendingCoinDayQueue` and each manager operation is an
operator from bank to bank, which the handlers compose in the order they call
them.  Rates are kept exact: `charged` is `TotalCoinDay` multiplied by the
charging time, so it is an integer and only `CoinDay` rounds.

**Content.**  Donations are split between a repost and its source, lose
friction twice, and wait as `RewardEvent`s; `ExecuteReward` takes its part of
the pool.  What the float64 exponentials of `EvaluateConsumption` make of a
donation, and the penalty reports have come to, are choices.  The half of a
reward that is staked for the author is counted with the half he may claim
(`earned`).

**Inflation.**  `IncreaseMinute` is the tick, and `Duties` what
`executeHourlyEvent`, `executeMonthlyEvent` and `executeAnnuallyEvent` have to
do then, in their order: `DistributeHourlyInflation` fills the four pools,
`DistributeToValidators`, `DistributeToProviders` and `DistributeToDevelopers`
empty three of them, `SetTotalLinoAndRecalculateGrowthRate` closes the year.
Between two minutes come the events and transactions that these steps read or
recharge: usage, consumption, rewards, registration fees, developers who come
and go, and a proposal that sets the allocation.  `EvenLeft` and `MonthShares`
are the two ways a pool is divided, rounding for rounding.

**Keys.**  A transaction is a few messages.  The ante handler checks them one by
one on the state of the block (`RefuseKey`, `RefuseSequence`, `RefuseCapacity`,
`RefuseSignature`, `Accept`), and what it wrote for a message, a spent grant, a
sequence number or a charge, is kept whatever follows.  Then the handlers run on
`cache` (`RunMessages`, `Handle`), which is written back as a whole (`Write`) or
dropped (`HandleFails`).  `IsOwnKey`, `IsStale` and `GrantAfter` are the three
parts of `CheckSigningPubKeyOwner`.  Messages that change nothing of this are
one kind for each permission.  The grants that are neither revoked nor replaced,
the keys an account has had at each level, and the sums granted and spent are
kept for the properties (`issued`, `served`, `granted`, `spent`); no action reads
them.

**Rounds and Reputation.**  `Rounds` is what the reputation promises: a round
ends for everybody at once, its result is the few posts that drew four fifths of
its donation power, and everybody's score moves towards what his keys earned
(`EndRound`).  `Reputation` is how: nothing happens to a donor when a round ends;
`Settled`, part of every `DonateAt` and `ReportAt`, settles the last round he
donated in from what the store kept of it.  `TopWith` keeps the best posts
sorted, and cut, with every donation (`SetRoundPostSumDp`), `ResultOf` picks the
result from them in `Update`, and `NumKeysCanBuy` searches for the number of
keys between guessed values.  The refinement maps every score to the settled one,
and the round's games to the records of the current round, so that settling is a
stuttering step and the end of a round rescores everybody.  `AddStake` and
`MinusStake` have only what they do to stake and free score; the rest is Vote's.

### Actions and code

| Module | Actions | Code |
|---|---|---|
| Validator | `BeginBlock`, `Fire*`, `KeepValidator`, `FireDone` | `x/validator/tick.go`, `manager.go:91-300`, `app/app.go:368-404` |
| | `DecideProposal`, `PunishDidntVote`, `PunishDone` | `x/proposal/event.go`, `x/validator/manager.go` |
| | `ValidatorDeposit`, withdraw, revoke, stake actions | `x/validator/handler.go`, `x/vote/handler.go` |
| Vote | `StakeIn`, `StakeOut`, `Delegate`, `DelegatorWithdraw`, `ClaimInterest` | `x/vote/handler.go`, `x/vote/manager.go` |
| | `BecomeValidator`, `LeaveValidators`, `SyncInfoWithVoteManager` | `x/validator/handler.go`, `app/app.go:603-618` |
| | `AddFriction`, `NextDay` | `x/global/manager.go` |
| Scheduler | all | `app/app.go:368-452`, `x/global/manager.go` |
| Governance | create, `Vote...`, decide, return, change | `x/proposal/handler.go`, `manager.go`, `event.go`, `param/event.go` |
| Bank | `Transfer`, `Register`, `ClaimReward`, `Donate`, `Deposit`, `Return`, `Reward`, `ReadCoinDay` | `x/account/manager.go`, `handler.go`, `x/post/handler.go:90-160` |
| Content | `CreatePost`, `DeletePost`, `Donate`, `ExecuteReward`, `NextBlock` | `x/post/*`, `x/global/manager.go:402-431` |
| Inflation | `IncreaseMinute`, `Distribute*`, `SetTotalLinoAndRecalculateGrowthRate` | `app/app.go:465-601`, `x/global/manager.go:318-400` |
| | `ReportUsage`, `Donate`, `Reward`, `PayRegisterFee`, `RegisterDeveloper`, `RevokeDeveloper`, `ChangeAllocation` | `x/infra/manager.go`, `x/developer/*`, `x/global/manager.go:432-458`, `param/event.go` |
| Keys | `Refuse*`, `Accept` | `x/auth/ante.go`, `x/account/manager.go:744-950` |
| | `Handle` | `x/developer/handler.go:109-156`, `x/account/manager.go:814-857`, `982-997` |
| Reputation | `DonateAt`, `ReportOrUpvote` | `x/reputation/internal/*`, `x/reputation/manager.go`, `x/post/handler.go:178-290` |
| | `AddStake`, `MinusStake`, `EndBlock` | `x/vote/handler.go:183-226`, `x/reputation/tick.go` |

The map in `PROJECT.json` has the lines of every definition.

## Runs

Every property was also checked against a plausible bug of the code (the
definitions marked *Mutant*), which must violate it.

| Run | Instance | Shows |
|---|---|---|
| `validator` | three users for two places, deposits of 1 and 2, stake 3, minimum deposit lowered from 2 to 1 by a proposal, any signing pattern, at most one piece of evidence a block; symmetric in the users | the lists stay right through joins, swaps, penalties, firing, revocation and return; no panic; coins add up |
| `vote` | two users, one genesis validator, one unit each, delegations to each other and one unit to oneself, three days, a friction of 3 that cannot be split in two | stake, interest and power agree in every order of claims; the power credited falls short by what was delegated to oneself; a validator's stake stays |
| `scheduler` | ten seconds, two seconds a minute, two minutes a day, delays 0 and 2, an event that registers another, lists of two | the loops implement `Delivery`; statistics are open; blocks end |
| `governance` | two voters, one who changes his stake (to a power of -1, 1 or 2), two proposals, a slow and a quick set of rules that a proposal switches between, clock to 5 | tallies, decisions, deposits and changes; every well attended proposal is decided |
| `bank` | two accounts, intervals of 2, charging time 4, time to 6, amounts 1 and 2, friction of one of two coins | the queue's arithmetic, in all interleavings of receipts, expiries and withdrawals; no coin is lost to the coin day but where two meet in an interval |
| `content` | a post, its repost and a repost of that, a donation of 3 with a split of one half and a friction of one quarter, values 0 to 2, penalties of none and a half, three waiting rewards, four blocks and the ones that settle what waits | window, pool, shares and supply; deletions before and after donations |
| `inflation` | two accounts that may be developers, two providers, hours with two validators or none, two years of two months of an hour each, 200 coins an account, usages 1 and 2, four events or transactions in all | coins are created by the hour only, months are paid fairly, the rate stays in its bounds |
| `keys` | a user who signs two messages and a developer who signs one, transactions of up to two messages, two transaction keys and three app keys between them, one of which is the developer's transaction key, grants of one second, amounts 1 and 2, time to 2 | nobody signs without being entitled, spends more than was granted, or replays |
| `reputation` | two users, three posts for two places, donations of 7 and of 5, at most 26 in all, keys from a price of 3, windows of two rounds, a round of one unit and three of them, reports, coins locked and unlocked once | late settling, sorted posts and key search do what `Rounds` promises; unsettled keys are of one round; books of keys and of reputation agree |
| `validator_keys`, `validator_raise` | as `validator`, with shared keys, and with a minimum that is raised | disagreements 1 and 2 below |
| `reputation_stake` | coins locked and taken out, without donations | disagreement 3 below |

Bounds, and why they are enough.  `Validator` is unbounded but for the coins,
`MaxEvidence` and the absences an `AbsentLimit` of 1 makes reachable; three
users for two places is the least instance with a swap, a candidate that stays
one, and a promotion, and the theorems hold for every size.  `Vote`: three days
give a day that is over, a day that carries friction on, and one that runs;
`MaxDonated` bounds friction to one donation, and `MaxToSelf` what a user
delegates to himself to one unit, which the theorems do not; two users are all a
delegation, and the rounding of one claim before another, needs.
`Scheduler`: two delays, one of zero, reach the same second again; ten seconds give blocks that jump over
several minutes and two days.  `Governance`: two proposals of different kinds
or of the same kind overlap in every way a pair can; `MaxClock` lets both be
decided, changed and returned.  `Bank`: entries of two intervals overlap, halves
are rounded, entries expire in the middle of a sequence; time to 6 is three
intervals and a half.  `Content`: three posts give a chain of reposts, three
rewards may wait while a block settles.  `Inflation`: the second year's rate
follows from the first year's consumption, with all of it, none of it or more of
it in the second; 200 coins make hours whose parts are rounded both ways, and
four events reach both developers registered, one gone again, and fees or usage
in two months.  `Keys`: with two or three keys of a kind, recovery gives a developer
another key, the other one's key, and the first one back; two messages are a
grant and its use, or two uses, in one transaction or two, before and after it
expires; what a grant
does beyond the second message depends only on what is left of it; that a grant
which was used and revoked entitles nobody takes a third signature of the user
and is left to the theorem `OwnersOnly`.  `Reputation`: donations of 7 buy keys at rising prices, 26 in all
are enough for a score to rise and to fall back, for a post to be cut from the
best and to come back, for results of no, one and two posts, for one that stops
at four fifths and one that leaves out a reported post, and for a user to settle
two rounds.

Type invariants that TLAPS proves for every value of the constants (Validator,
Scheduler, Governance, Keys, Bank, Content), and that the rate of inflation stays bounded, are
not repeated in the runs.

Runs that may stop say `CHECK_DEADLOCK FALSE`: `bank`, `content`, `inflation`
and `keys` are over when their last block is full, `validator_raise` halts.

### Fairness

* `Scheduler`: `WF(BlockStep)`.  The loops of `beginBlocker` run in one call,
  and a node that stops in the middle replays the block.  No fairness for the
  next block or for transactions: nothing promises them.
* `Governance`: `WF` of executing an event that is due (the loop above) and of
  later blocks (Tendermint goes on making blocks; that two thirds do is its
  assumption).  None for proposing or voting.
* `Content`: `WF` of the next block and of executing a due reward, for the same
  reasons.

### Disagreements between the code and what it says

Each is a run that must find its property violated; `PROJECT.json` quotes the
line.

1. `validator_keys`: a candidate who revoked keeps his record, and his next
   deposit takes the branch that does not check whether his key is registered.
2. `validator_raise`: after the minimum deposit has been raised, firing fails
   half-way: off the lists, with the deposit left.
3. `reputation_stake`: free score is for locked coins, but the only call that
   adds it is in `MinusStake`: locking gives none, unlocking gives it for good,
   and nothing takes it back.

Seen in the code as well, and part of the modules.  The passing runs meet these
cases, and the property named says how far each goes and that it goes no
further:

* Delegating to oneself (`DelegateMsg` accepts it) reads two copies of one record
  and writes both, so the power credited is lost; a withdrawal then takes it from
  what is left, below zero (`x/vote/manager.go:178`).  The power credited is short
  by exactly what was delegated to oneself (`DelegationsAgree`), and below zero by
  no more (`VoteTypeOK`).
* A validator may not take stake out, but if it was delegated he withdraws the
  delegation, which nobody checks (`x/vote/handler.go:144`).  Only what he has not
  delegated stays (`ValidatorsKeepStake`).
* The vote module learns of a new validator in the next block, so in the block of
  his deposit he takes out the stake it was balanced against (`app/app.go:603`).
  `ValidatorsKeepStake` holds from the block after.
* A proposal without enough votes is not moved by its decision and stays ongoing
  for ever (`x/proposal/manager.go:187`).  `EveryProposalDecided` leaves it out;
  the theorem `EventsDecide` says which ones are moved and when.
* Of two receipts in one interval of the coin day queue the second never charges,
  since the result of `Coin.Plus` is dropped (`x/account/manager.go:974`).  No
  other coin is lost to the coin day (`OnlyMergedIdle`).
* That a grant is of another level than the message asks for is noticed and the
  error is dropped, so a preauthorized developer whose app key is his transaction
  key may post (`x/account/manager.go:914`).  Only a key its owner has had at both
  levels opens the other one (`TwoLevels` of `OnlyEntitled`).

## Theorems

**CoinsProofs** has what the other proofs rest on.  *Rounding*: `Round(n, d)` is
within half a coin of `n / d`, a share of at most the whole is at most the whole
(`RoundNear`, `RoundShare`, `RoundWithin`).  *Sums*: `SumFunction` is a recursive
function, so it is first shown to exist and to be unique (`FoldExists`,
`FoldUnique`), then that any element may be taken out of it (`SumTakes`); the
rest follows: what an update, another order, a split, a joined sequence or a
grouping by owner does to a sum.  The provers have no induction, so it is stated
for a set of good things: `SetRule`, for subsets of a finite set, and `Upward`,
for numbers, both from well-foundedness.

**ValidatorProofs** (for any users, deposits, penalties and list sizes).
`TypeCorrect` needs no assumption.  All others assume `LoweringOnly`: parameter
changes neither raise the minimum deposit nor change the list size.  Without it
they are false, as `validator_raise` shows.  No invariant the run checks is
inductive alone: that the swap takes out the right validator
(`TopDeposits`) needs `LowestCurrent`, which needs that every listed validator
has a comparable deposit (`BondedIffListed`, and coins below `MaxInt64`), and
that nobody in the lists lacks a record needs to know in which phase records are
deleted.  `IInv` is their conjunction; what each list operation does for it is
stated once, for any lists and deposits (`JoinLemma`, `AdjustLemma`,
`RemoveLemma`, `PunishLemma`), and the actions cite these.  `SInv` adds who is
still to be looked at by the firing loop (`Escaping`) and what has been reported
to Tendermint (`Reported`) and gives `OffendersPunished` and `TendermintAgrees`.
`ConservesCoins` needs `IInv`: a penalty is added to the loop's sum only when
the lists could be adjusted, and an adjustment that fails forgets it.

**GlobalProofs** is about the two halves of `x/global`.

*Time* (any events, delays, and unbounded time).  `Delivers`:
Scheduler implements Delivery.  Behind the frontier (the second the block has got
to) every list is empty, because lists are emptied as the cursor passes and
events are registered at the block time or later; so the cursor's list holds
the earliest events.  `StatReady`: the minute loop has opened the statistic of
today; the second invariant says that minutes and days are counted from the same
origin, with the facts about division it needs proved from the definition.
`BlocksAdvance`: every step of the two loops leaves less work (`Work`: the loop,
what the outer one has left, what the inner one has left), because an event
registers another one at the block time or later, never in the list that is being
gone through; and a block that is over leaves nothing overdue.

*Stake and friction* (any users, genesis validators, units and amounts, days
without bound).  `DaysArePaidOnce`: the stake a day still has to pay is the
stake of those who have not settled it, and its friction goes to them in full.
A step changes one user's claim, but the sums range over all users and days: the
invariant (`VoteInv`) says of each past day, and of today apart, whose stake it
counts and what has been paid of it (`PastStake`, `TodayStake`), and of the books
as a whole that every coin is somewhere (`Books`, `InterestConserves`).
`SharesAreFair`: a share is within the rounding of the pro rata share, however
many claimed before.  Since the friction and the stake of a day are both reduced
by a claim, rounding drifts: by half a coin for each claim at most, which is what
the invariant adds (`Drift`).  `DelegationsKept` and `VoteTypes`: what is
charged is in `VoteInv`; what is credited is not, for a delegation to oneself is
lost (`x/vote/manager.go:178`).  So a second invariant (`CreditInv`) says how much
is missing, the sum of what a user has ever delegated to himself: a delegation
moves the two together, and a withdrawal takes from what is credited and from
the delegations (`CreditMoves`).  `ValidatorsStaked` follows from both: no
message lowers what a validator has staked and not delegated, a withdrawal of a
delegation lowering both sides.  None of the six needs a hypothesis.

**GovernanceProofs** (any users, powers, parameters, delays and number of
proposals).  `NoHalt`: the event that decides a proposal always finds it in the
ongoing store.  A proposal gets one decision and only a decision takes it out of
the store, so the invariant says of the queue that its decisions are for ongoing
proposals, one each (`Sound`); what registering and executing do to that is
stated once, for any queue (`WithOther`, `WithDecision`, `WithoutFirst`).
`TypeCorrect` needs besides that a proposal asks for what its kind may and that
time keeps its bound.  `OnlyMajorities`: the parameters in force, and those of a
change that waits, are what a majority voted for, provided `ChangeParamPassRatio`
is never below a half (`HalfRatios`; the code lets a proposal make it any ratio
above zero).  `OnlyApprovedChanges` is not inductive: that a majority stays one
needs that nobody votes on what is decided, and that the time was over needs
that a decision waits in the second its proposal expires in (`Due`, `Passed`).
`TalliesCount`: a tally is the sum of the power its voters had when they voted.
The code adds to two counters and keeps the votes apart; that they agree needs
that nobody has two votes on a proposal, of one opinion or of both (`TInv`).
`DepositsComeBack`: a deposit is
a return event in the queue until it is back.  The returns of a user are counted
over all seconds, so a sum over time must exist: it assumes that `Times` is
finite, which every chain up to any given time is (`DInv`).
`DecisionsWait` and `EventsDecide`: until its time is over a proposal is ongoing
and its decision is in the list of the second it expires in; what takes the
decision out of the list afterwards moves the proposal to the expired store
exactly if enough voted; and nothing else moves it there.  `WInv` adds to the
invariant of `NoHalt` that decisions are in the list of the right second; what a
step may do to a proposal that exists is one formula (`Kept`) with a lemma for
each kind of step.

**ContentProofs** (any posts, authors, rates).  `RootSources`: the source of a
repost is an original, older post.  Inductive with the shape of posts, so that
no sum has to be evaluated, and with times that are not ahead of the clock.
The other theorems share `CInv`.  `WindowSums`: a donation puts the same value
into the window and at the end of the queue, and taking the first out of the
queue takes it out of the sum; so an event never divides by an empty window
(`NoDivisionByZero`).  `ConservesCoins`: what a donor loses is split between two
authors, the friction of each and the rounding of both, and an owner of two posts
has the sum of both; what is added up by post is moved to what is added up by
author by `SumByOwner`.  `DeletedStopsEarning`: deleting sets the share that goes
to the source to the whole, and no later step changes it, so that the part of a
deleted repost is zero for any rounding.  `TypeCorrect` needs all of it, since
amounts are differences.  `RewardsInTime`: rewards wait in the order of their
seconds and none longer than its period and the block after it, so looking at
the first of them is enough to know what is due.

**InflationProofs** (any lengths of hours, months and years, any spending).
`RateStaysBounded`: what `UpdateGlobalGrowthRate` cuts off and what
`ValidateBasic` refuses keep the rate between its floor and its ceiling.  Not
inductive alone: the rate is computed from two years' consumption, which must be
numbers, and the year's division needs the one before not to be zero.
`ConservesCoins`: in every step but the hour's, what is owned and what is in the
pools stays the same together, and the hour adds what it creates, for any
rounding of the parts; the exception is a pool with nobody to pay, whose coins the
code drops.  `TypeCorrect` is what lets the sums be taken.  That pools are not
overdrawn needs the duties of a minute in their order, each pool filled and
emptied before anybody is paid from it (`Agenda`, `PoolsDue`, `SupplyCovers`);
the developers' pool is left out of that, for the rounded shares of many
developers may come to more than it holds, by as much as half a coin each.  That
a month finds the record of every listed developer is part of the invariant: the
list names each of them once, and nobody else.
`PaysFairly`: a weight has `Precision` places, so a large pool is not divided to
the coin, and `FairMonth` says how far off a share may be: half a coin and half a
`Precision`th of the pool, and for the last of the list as much for every other
name.
The proof takes the two roundings of a share apart (`ShareError`); the errors of
all names add up to nothing (`PartsOfWhole`, `MonthErrors`), so the last of the
list, who gets what is left, is off by at most those of all the others
(`LastError`); and since a list names each account once, what it got is one
share (`PaidOnce`). It holds of a pool below zero too. That providers are listed
once is an assumption on the genesis list, which `AddToInfraProviderList`
(`x/infra/manager.go:53-70`) builds that way.

**AccountProofs** is about the two halves of `x/account`.

*Keys* (any accounts, keys, periods, amounts and lengths of transactions).
None needs an assumption.
`OwnersOnly`: nothing keeps an app key from being a transaction key, so a grant
found under a developer's present key need not be of the level asked for.
`IInv` says of the stored state and of the cache that every grant has been issued,
neither revoked nor replaced since, and lies under a key that its developer has
had at its level (`Stored`), and that nobody loses a key he has had (`served`);
then a grant of another level than the message asks for lies under a key that was
at both.  `OnlyEntitled` itself is about the messages accepted so
far, and holds of them until they run because the ante handler changes grants
and no keys.  `GrantsSuffice`: developers spend no more than was granted.  The
grant is reduced when the message is checked and the coins go when it runs, or
never: so the invariant (`SInv`) counts what the accepted donations in the
transaction still owe (`Owed`), against the cache, while the stored state owes
nothing; a new grant, which replaces the old one and what was left of it, only
adds to what was granted.

*Savings and coin days* (any accounts, amounts, fees, intervals and charging
time; no assumption beyond those of `BankAssumption`).  The invariant (`BankInv`)
says of each account alone that it is sound at the time of the block (`Sound`):
the entries of its queue are in the order of their intervals, the last update
left none that should be out, its totals are those of the entries, and coin day
and queue together are no more than the savings.  What each operation leaves of a
sound account is a lemma of its own (`UpToDate`, `Saved`, `Taken`,
`TakenCharged`, `Opened`), and a handler is one or two of them (`OneAccount`,
`NewAccount`), a transfer to oneself included.  The lemmas rest on what a queue
is worth: cut in two it is worth its parts (`PartsAdd`), with time every coin
charges (`ChargeLater`), what has been there less than `Recover` has charged
less than itself (`ChargeBounded`), and what is left of a queue when coins are
taken from either end of it is the rest of its coins, in order (`KeptOldest`,
`KeptLatest`).  Then `TotalsAgree` and `BankTypeCorrect` are parts of the
invariant, `SavingsConserved` adds the accounts up, and `WeightBacked` holds at
any later time because an account that is updated then is sound then (`Backed`).
Its last part, that a donation weighs no less than nothing and no more than its
coins, is about two roundings, of the queue before and after: coins taken from
the queue take at most `Recover` times themselves of its charge, less one for
each coin (`Discharged`), so that the rounded charge falls by no more than they
are (`RoundSteps`); the second reading of the coin day finds the account up to
date already (`UpToDateAgain`, `DonationWeighs`).

**ReputationProofs** (any users, posts, stakes, places and parameters; the code's
common values need only be in order and within the bound).
`SettlingIsComplete`: keys that are not settled are all of the last round their
user donated in, so settling that round settles everything.  The invariant adds
only the shape of the records, that nobody has settled beyond his last donation
and that it is not ahead of the current round; sums and scores play no part.
The other theorems share `RInv`, which adds what the store holds (`Held`) and
what every round does (`RoundOK`).  `KeysPaid`: the search in `numKeysCanBuy` is a
recursive function, which is shown to exist and to be unique and then, by the
distance between its ends, to find the greatest number the stake pays
(`SearchFinds`, `KeysBought`), wherever a common value starts it; the cost of the
keys of many donations is the sum of theirs (`CostAdds`).  `BestPosts`: the model's
sort is a permutation in order of rank (`Sorts`), and what the list leaves out
after a donation it may forget, because a post only gains (`TopKept`).
`TypeCorrect` needs both.  `PostsReputation`: one user's change of what he makes of
a post is the change of the post's sum (`SumRepChanges`).

*The refinement.*  `ImplementsRounds`: with the score of a user mapped to what it
will be once settled (`Scores`, `Frees`), and the games and keys of Rounds to the
records of the current round (`Game`, `Bought`), every step of Reputation is one
of Rounds or leaves its variables alone.  The invariant is `RInv` with `Open`: who
donated in the current round has not settled it, so settling always meets a round
that has ended.  There is a lemma for each step (`DonateMaps`, `ReportMaps`,
`StakeMaps`, `BlockMaps`).  Settling stutters because a score depends only on the
user's record and the record of his last round, which no longer changes when the
round is over (`ScoreStays`).  A donation buys the same keys because prices rise
(`PricesRise`, `KeysAreMost`).  And the end of a round chooses the same posts:
what `Update` goes through is a prefix of the sorted places, those outside have no
more power than those inside, and no smaller number would reach the goal
(`LeadersLead`, `StrongLead`), so that every key earns the same
(`EarnsTheSame`).

Only model-checked: liveness (`BlocksEnd`, `EveryProposalDecided`,
`RewardsSettle`), which is out of the provers' reach.  Of each the safety half is
proved: that blocks have ever less to do (`BlocksAdvance`), that no decision is
lost or comes to nothing (`DecisionsWait`, `EventsDecide`), that no reward is
overtaken (`RewardsInTime`) or stopped by an empty window (`NoDivisionByZero`).
What is left to TLC is that steps which stay possible are taken.

## Abstractions to know of

* Bank: balance and reward histories and the list of frozen money are left out
  (no step but a guard on the number of entries reads them); genesis is at time
  0, one step later than the chain's zero time for its first account; friction
  is a table.
* Content: time is counted in the unit in which inflation arrives, and no
  posts, deletions or donations come after `MaxTime`; views, updates, reports
  and the lists of donations are left out.
* Governance: the parameter a proposal changes is `ProposalParam`, the one
  proposals are decided by; the other ten kinds are constants here.  Voting
  power is an input, negative after a withdrawal of what was delegated to
  oneself.  The guard on the number of frozen entries is never met.
* Validator: counters of produced blocks and byzantine commits, and links, are
  left out: nothing reads them.
* Vote: the call to the reputation is in Reputation; of a validator only that he
  is one is kept, and that a deposit is at least `MinDeposit`.
* Reputation: coin days, reports and locked coins are inputs from small sets;
  that accounts and posts exist, and how the coin day of a donation is found, is
  in Content and Bank.  Keys of the store and gob encoding are left out: a round
  record nobody wrote is read as an empty one.  Amounts are `math/big` in the
  code, so they have no width.
* Inflation: penalties that recharge the validators' pool are left out (their
  coins are Validator's), and so are the transactions per second that the same
  events count; a developer's deposit is the least that is allowed, its return
  is Bank's.  The reward of a donation is an event of any size the pool allows,
  for Content says which.
* Keys: who has an account and who is a developer is fixed, because Inflation
  and Bank have the registrations; `GetCoinDay` answers anything it may, because
  Bank has the queue; the cost of a message is chosen anew with every block,
  which is what a load between none and full makes of it.  Handlers that change
  nothing here may fail or not.

## Plan

Done, in this order: Validator and its proofs; Vote; Delivery, Scheduler and the
refinement; Governance on Delivery; Bank; Content, Inflation and Keys, each with
first theorems; Rounds, Reputation and its refinement; the proofs of Governance;
rounding and sums, and with them the books of Vote, Governance, Validator,
Content, Inflation, Keys and Bank; that Reputation implements Rounds; that months
are paid fairly, and the safety halves of the liveness properties.

Next:

1. Compositions: the stake a reward adds for an author (Content with Vote), the
   coin day a donation takes (Content with Bank), and the donation power the
   reputation makes of it (Content with Reputation).
2. The other parameters of `param`, where a change meets state made under the
   old value.
