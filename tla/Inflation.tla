------------------------------ MODULE Inflation ------------------------------
(****************************************************************************)
(* Where new coins come from and who gets them: the hourly, monthly and     *)
(* yearly events of app.increaseMinute, with the pools and the supply of    *)
(* x/global, the developers of x/developer and the usage of x/infra.        *)
(*                                                                          *)
(* Every hour a part of last year's supply is created and divided among     *)
(* four pools.  The validators' pool is paid out in the same hour, those of *)
(* providers and developers every month, by what was reported since the     *)
(* last month; the content creators' pool is spent by rewards.  Coins are   *)
(* added to the supply when they leave a pool.  Once a year the growth of   *)
(* consumption sets the rate of the next year.                              *)
(****************************************************************************)
EXTENDS Coins, Sequences, FiniteSets, Functions

CONSTANTS
  Users,       \* accounts of the chain
  Providers,   \* InfraProviderList, each once, written by genesis only
  Oncalls,     \* lists of oncall validators an hour may find
  Allocations, \* GlobalAllocationParams a proposal may set; parts of Whole
  Genesis,     \* GlobalAllocationParam of genesis
  Whole,       \* parts rates are counted in
  Floor, Ceiling, \* AnnualInflationFloor and Ceiling, parts of Whole
  Precision,   \* types.PrecisionFactor
  Hour, Month, Year,  \* minutes of each
  Funds,       \* coins of every account at genesis
  MinDeposit,  \* DeveloperParam.DeveloperMinDeposit
  Fee,         \* AccountParam.RegisterFee
  Usages,      \* usage a provider reports
  Amounts,     \* coins donated, or earned by a reward
  MaxBetween,  \* bound: events and transactions of the chain
  MaxMinutes   \* bound: minutes of the chain

AllocationParam ==
  {a \in [rate : Floor .. Ceiling, infra : 0 .. Whole, content : 0 .. Whole,
          developer : 0 .. Whole, validator : 0 .. Whole] :
     a.infra + a.content + a.developer + a.validator = Whole}

ASSUME InflationAssumption ==
  /\ IsFiniteSet(Users) /\ Providers \in Seq(Users) /\ Oncalls \subseteq Seq(Users)
  /\ \A i, j \in DOMAIN Providers : Providers[i] = Providers[j] => i = j
  /\ Floor \in Nat /\ Ceiling \in Nat /\ Floor <= Ceiling
  /\ Allocations \subseteq AllocationParam /\ Genesis \in AllocationParam
  /\ Whole \in Nat \ {0} /\ Precision \in Nat \ {0}
  /\ Hour \in Nat \ {0} /\ Month \in Nat \ {0} /\ Year \in Nat \ {0}
  /\ Hour <= Year
  /\ Funds \in Nat /\ MinDeposit \in Nat \ {0} /\ Fee \in Nat
  /\ Usages \subseteq Nat /\ Amounts \subseteq Nat \ {0}
  /\ MaxBetween \in Nat /\ MaxMinutes \in Nat

VARIABLES
  minutes,    \* GlobalTime.PastMinutes
  due,        \* what is left to do of increaseMinute
  between,    \* events and transactions so far, for the bound
  allocation, \* GlobalAllocationParam
  pool,       \* InflationPool and ConsumptionRewardPool
  supply,     \* TotalLinoCoin, and LastYearTotalLinoCoin
  spent,      \* CumulativeConsumption, and LastYearCumulativeConsumption
  usage,      \* InfraProvider.Usage
  developers, \* DeveloperList
  developer,  \* the Developer of every name that has one
  savings,    \* savings and rewards of every account
  leaving     \* deposits of former developers that wait for their return

books == <<allocation, pool, supply, spent, usage, developers, developer,
           savings, leaving>>

vars == <<minutes, due, between, books>>

Developer == [deposit : Nat, consumption : Nat]

(* The places of the InfraProviderList, one InfraProvider for each.         *)
Providing == 1 .. Len(Providers)

(* AddSavingCoin for the names of a list.                                   *)
Pay(list, shares) ==
  [u \in Users |->
     savings[u] + SumFunction([i \in DOMAIN list |-> IF list[i] = u THEN shares[i] ELSE 0])]
------------------------------------------------------------------------------
(****************************************************************************)
(* The events of a minute.                                                  *)
(****************************************************************************)
Duties(m) ==
  (IF m % Hour = 0 THEN <<"inflation", "validators">> ELSE <<>>)
  \o (IF m % Month = 0 THEN <<"providers", "developers">> ELSE <<>>)
  \o (IF m % Year = 0 THEN <<"growth">> ELSE <<>>)

IncreaseMinute ==
  /\ due = <<>> /\ minutes < MaxMinutes
  /\ minutes' = minutes + 1
  /\ due' = Duties(minutes')
  /\ UNCHANGED <<between, books>>

Doing(duty) ==
  /\ due # <<>> /\ Head(due) = duty
  /\ due' = Tail(due) /\ UNCHANGED <<minutes, between>>

(* supply.lastYear * GlobalGrowthRate / HoursPerYear.                       *)
HourInflation == Round(supply.lastYear * allocation.rate, Whole * (Year \div Hour))

(* Developers get what the others leave.                                    *)
Parts(coin) ==
  LET content   == Round(coin * allocation.content, Whole)
      validator == Round(coin * allocation.validator, Whole)
      infra     == Round(coin * allocation.infra, Whole)
  IN  [content |-> content, validator |-> validator, infra |-> infra,
       developer |-> coin - content - validator - infra]

DistributeHourlyInflation ==
  /\ Doing("inflation")
  /\ LET part == Parts(HourInflation)
     IN  pool' = [p \in DOMAIN pool |-> pool[p] + part[p]]
  /\ UNCHANGED <<allocation, supply, spent, usage, developers, developer,
                 savings, leaving>>

(* GetValidatorHourlyInflation and the like: a pool is emptied, and what    *)
(* was in it counts as supply.                                              *)
Empty(name) ==
  /\ pool' = [pool EXCEPT ![name] = 0]
  /\ supply' = [supply EXCEPT !.total = @ + pool[name]]

(* What is left of a coin when i of n have got an even part of the rest.    *)
EvenLeft(coin, n) ==
  LET left[i \in 0 .. n] ==
        IF i = 0 THEN coin
        ELSE left[i - 1] - Round(Round(left[i - 1] * Precision, n - i + 1), Precision)
  IN  left

DistributeToValidators(oncall) ==
  /\ Doing("validators")
  /\ Empty("validator")
  /\ LET left == EvenLeft(pool.validator, Len(oncall))
     IN  savings' = Pay(oncall, [i \in DOMAIN oncall |-> left[i - 1] - left[i]])
  /\ UNCHANGED <<allocation, spent, usage, developers, developer, leaving>>

(* Mutant: the total leaves out the one it is for.                          *)
WeightOfOthers(reported, i) ==
  LET total == SumFunction(reported) - reported[i]
  IN  IF total = 0 THEN Round(Precision, Len(reported))
      ELSE Round(reported[i] * Precision, total)

(* GetUsageWeight, GetConsumptionWeight: the part of one in what all have   *)
(* reported, or an even part if nobody has; in units of 1 / Precision.      *)
Weight(reported, i) ==
  LET total == SumFunction(reported)
  IN  IF total = 0 THEN Round(Precision, Len(reported))
      ELSE Round(reported[i] * Precision, total)

(* Mutant: the last one's share is computed like the others.                *)
SharesByWeight(coin, reported) ==
  [i \in DOMAIN reported |-> Round(coin * Weight(reported, i), Precision)]

(* The last of the list gets the rest.                                      *)
MonthShares(coin, reported) ==
  LET n == Len(reported)
      share == [i \in 1 .. n - 1 |-> Round(coin * Weight(reported, i), Precision)]
  IN  [i \in 1 .. n |-> IF i < n THEN share[i] ELSE coin - SumFunction(share)]

ClearUsage == usage' = [i \in Providing |-> 0]

DistributeToProviders ==
  /\ Doing("providers")
  /\ Empty("infra")
  /\ savings' = Pay(Providers, MonthShares(pool.infra, usage))
  /\ ClearUsage
  /\ UNCHANGED <<allocation, spent, developers, developer, leaving>>

Consumption == [i \in DOMAIN developers |-> developer[developers[i]].consumption]

ClearConsumption ==
  developer' = [d \in DOMAIN developer |-> [developer[d] EXCEPT !.consumption = 0]]

DistributeToDevelopers ==
  /\ Doing("developers")
  /\ Empty("developer")
  /\ savings' = Pay(developers, MonthShares(pool.developer, Consumption))
  /\ ClearConsumption
  /\ UNCHANGED <<allocation, spent, usage, developers, leaving>>

(* ParamHolder.UpdateGlobalGrowthRate.                                      *)
Clamped(rate) ==
  IF rate > Ceiling THEN Ceiling ELSE IF rate < Floor THEN Floor ELSE rate

(* A year without consumption before it leaves the rate as it is.           *)
Growth ==
  IF spent.lastYear = 0 THEN allocation.rate
  ELSE Round((spent.thisYear - spent.lastYear) * Whole, spent.lastYear)

SetTotalLinoAndRecalculateGrowthRate ==
  /\ Doing("growth")
  /\ allocation' = [allocation EXCEPT !.rate = Clamped(Growth)]
  /\ spent' = [thisYear |-> 0, lastYear |-> spent.thisYear]
  /\ supply' = [supply EXCEPT !.lastYear = supply.total]
  /\ UNCHANGED <<pool, usage, developers, developer, savings, leaving>>
------------------------------------------------------------------------------
(****************************************************************************)
(* Between two minutes: events and transactions.                            *)
(****************************************************************************)
Idle ==
  /\ due = <<>> /\ between < MaxBetween
  /\ between' = between + 1 /\ UNCHANGED <<minutes, due>>

(* ChangeParamEvent of a GlobalAllocationParam.                             *)
ChangeAllocation(param) ==
  /\ Idle
  /\ allocation' = param
  /\ UNCHANGED <<pool, supply, spent, usage, developers, developer, savings, leaving>>

ReportUsage(i, amount) ==
  /\ Idle
  /\ usage' = [usage EXCEPT ![i] = @ + amount]
  /\ UNCHANGED <<allocation, pool, supply, spent, developers, developer, savings, leaving>>

(* AddConsumption, by a donation.                                           *)
Donate(coin) ==
  /\ Idle
  /\ spent' = [spent EXCEPT !.thisYear = @ + coin]
  /\ UNCHANGED <<allocation, pool, supply, usage, developers, developer, savings, leaving>>

ReportConsumption(app, coin) ==
  developer' = [d \in DOMAIN developer |->
    IF d = app THEN [developer[d] EXCEPT !.consumption = @ + coin] ELSE developer[d]]

(* RewardEvent: the reward leaves the pool for its author and counts as     *)
(* consumption of the app it came through, if that is still a developer.    *)
Reward(author, app, coin) ==
  /\ Idle
  /\ coin <= pool.content
  /\ pool' = [pool EXCEPT !.content = @ - coin]
  /\ supply' = [supply EXCEPT !.total = @ + coin]
  /\ savings' = [savings EXCEPT ![author] = @ + coin]
  /\ ReportConsumption(app, coin)
  /\ UNCHANGED <<allocation, spent, usage, developers, leaving>>

(* handleRegisterMsg of x/account: the fee goes to the developers' pool.    *)
PayRegisterFee(referrer) ==
  /\ Idle
  /\ savings[referrer] >= Fee
  /\ savings' = [savings EXCEPT ![referrer] = @ - Fee]
  /\ pool' = [pool EXCEPT !.developer = @ + Fee]
  /\ UNCHANGED <<allocation, supply, spent, usage, developers, developer, leaving>>

AddToDeveloperList(user) == developers' = Append(developers, user)

RegisterDeveloper(user) ==
  /\ Idle
  /\ user \notin DOMAIN developer
  /\ savings[user] >= MinDeposit
  /\ savings' = [savings EXCEPT ![user] = @ - MinDeposit]
  /\ developer' = [d \in DOMAIN developer \cup {user} |->
       IF d = user THEN [deposit |-> MinDeposit, consumption |-> 0] ELSE developer[d]]
  /\ AddToDeveloperList(user)
  /\ UNCHANGED <<allocation, pool, supply, spent, usage, leaving>>

(* Mutant: only the first of the list is taken out.                         *)
RemoveFirst(user) ==
  developers' = IF developers[1] = user THEN Tail(developers) ELSE developers

(* What FindAccountInList finds is taken out.                               *)
RemoveFromDeveloperList(user) ==
  IF user \notin Range(developers) THEN UNCHANGED developers
  ELSE \E k \in DOMAIN developers :
         /\ developers[k] = user /\ \A j \in 1 .. k - 1 : developers[j] # user
         /\ developers' = [j \in 1 .. Len(developers) - 1 |->
                             developers[IF j < k THEN j ELSE j + 1]]

(* The whole deposit is withdrawn, which deletes the Developer.             *)
WithdrawAll(user) ==
  /\ leaving' = leaving + developer[user].deposit
  /\ developer' = [d \in DOMAIN developer \ {user} |-> developer[d]]

(* handleDeveloperRevokeMsg.  The events that return the deposit are Bank's.*)
RevokeDeveloper(user) ==
  /\ Idle
  /\ user \in DOMAIN developer
  /\ RemoveFromDeveloperList(user)
  /\ WithdrawAll(user)
  /\ UNCHANGED <<allocation, pool, supply, spent, usage, savings>>
------------------------------------------------------------------------------
Init ==
  /\ minutes = 0 /\ due = <<>> /\ between = 0
  /\ allocation = Genesis
  /\ pool = [p \in {"content", "validator", "infra", "developer"} |-> 0]
  /\ supply = [total |-> Funds * Cardinality(Users), lastYear |-> Funds * Cardinality(Users)]
  /\ spent = [thisYear |-> 0, lastYear |-> 0]
  /\ usage = [i \in Providing |-> 0]
  /\ developers = <<>> /\ developer = [d \in {} |-> 0]
  /\ savings = [u \in Users |-> Funds] /\ leaving = 0

Minute ==
  \/ IncreaseMinute
  \/ DistributeHourlyInflation
  \/ \E oncall \in Oncalls : DistributeToValidators(oncall)
  \/ DistributeToProviders
  \/ DistributeToDevelopers
  \/ SetTotalLinoAndRecalculateGrowthRate

Between ==
  \/ \E param \in Allocations : ChangeAllocation(param)
  \/ \E i \in Providing, amount \in Usages : ReportUsage(i, amount)
  \/ \E coin \in Amounts : Donate(coin)
  \/ \E author, app \in Users, coin \in Amounts : Reward(author, app, coin)
  \/ \E user \in Users :
       PayRegisterFee(user) \/ RegisterDeveloper(user) \/ RevokeDeveloper(user)

Next == Minute \/ Between

Spec == Init /\ [][Next]_vars
------------------------------------------------------------------------------
(****************************************************************************)
(* Properties.                                                              *)
(****************************************************************************)
Pools == pool.content + pool.validator + pool.infra + pool.developer

Owned ==
  SumFunction(savings) + leaving
    + SumFunction([d \in DOMAIN developer |-> developer[d].deposit])

(* The developers' pool alone may be below zero: it gets what the roundings *)
(* of the other parts leave.  The list of developers, which is written      *)
(* apart from their records, names each of them once:                       *)
(* distributeInflationToDeveloper panics, and with it every node, if a name *)
(* of the list has no Developer, and pays one twice that is listed twice.   *)
TypeOK ==
  /\ minutes \in Nat /\ between \in Nat
  /\ due \in Seq({"inflation", "validators", "providers", "developers", "growth"})
  /\ allocation \in AllocationParam
  /\ pool \in [{"content", "validator", "infra", "developer"} -> Int]
  /\ pool.content >= 0 /\ pool.validator >= 0 /\ pool.infra >= 0
  /\ supply \in [total : Int, lastYear : Int]
  /\ spent \in [thisYear : Nat, lastYear : Nat]
  /\ usage \in [Providing -> Nat]
  /\ developers \in Seq(Users)
  /\ DOMAIN developer \subseteq Users /\ \A d \in DOMAIN developer : developer[d] \in Developer
  /\ {developers[i] : i \in DOMAIN developers} = DOMAIN developer
  /\ \A i, j \in DOMAIN developers : developers[i] = developers[j] => i = j
  /\ savings \in [Users -> Int] /\ leaving \in Nat

(* Neither the growth of consumption nor a proposal takes the inflation of  *)
(* a year out of its bounds.                                                *)
RateBounded == allocation.rate \in Floor .. Ceiling

Created == IF due # <<>> /\ Head(due) = "inflation" THEN HourInflation ELSE 0

NobodyToPay ==
  /\ due # <<>>
  /\ \/ Head(due) = "validators" /\ <<>> \in Oncalls
     \/ Head(due) = "providers" /\ Providers = <<>>
     \/ Head(due) = "developers" /\ developers = <<>>

(* Coins are created by the hour and by nothing else, whatever is rounded   *)
(* on their way through the pools; those of a pool that nobody is listed    *)
(* for are lost.                                                            *)
CoinsConserved ==
  [][\/ Owned' + Pools' = Owned + Pools + Created
     \/ NobodyToPay /\ Owned' = Owned]_vars

Magnitude(x) == IF x < 0 THEN -x ELSE x

(* What i of the list reported, in all that was; nobody is asked to have    *)
(* reported anything.                                                       *)
PartOf(reported, i) == IF SumFunction(reported) = 0 THEN 1 ELSE reported[i]
WholeOf(reported) ==
  IF SumFunction(reported) = 0 THEN Len(reported) ELSE SumFunction(reported)

(* What every name of a list got is its part of the coins. The rounding of  *)
(* a share takes or gives half a coin, that of its weight as much of every  *)
(* Precision coins that are divided; the last of the list gets what all the *)
(* others' roundings leave.                                                 *)
PaidFairly(list, reported, coin) ==
  LET n == Len(list)
      got(i) == savings'[list[i]] - savings[list[i]]
  IN  \A i \in 1 .. n :
        2 * Precision * Magnitude(got(i) * WholeOf(reported) - coin * PartOf(reported, i))
          <= (IF i < n THEN 1 ELSE n - 1)
               * (WholeOf(reported) * (Precision + Magnitude(coin)))

(* The month is paid by what was reported since the last one, to within the *)
(* roundings, which meet in the share of the last of the list.              *)
FairMonth ==
  [][/\ due # <<>> /\ Head(due) = "providers" => PaidFairly(Providers, usage, pool.infra)
     /\ due # <<>> /\ Head(due) = "developers" =>
          PaidFairly(developers, Consumption, pool.developer)]_vars
==============================================================================
