--------------------------- MODULE InflationProofs ---------------------------
(****************************************************************************)
(* Proofs about Inflation, for any lengths of hours, months and years,      *)
(* whatever is spent, proposed, reported and registered: the rate stays in  *)
(* its bounds (Inv), and coins are created by the hour only, no pool is     *)
(* overdrawn and the list of developers names each of them once (IInv).     *)
(*                                                                          *)
(* RateBounded alone is not inductive: the rate of the next year is         *)
(* computed from two years' consumption, which must be numbers, and kept    *)
(* when there was none. TypeOK alone is not either: that the supply stays a *)
(* number when a pool is paid from it needs to know what the pools still    *)
(* hold (SupplyCovers), and that needs the duties of a minute to be in      *)
(* order, each pool filled and emptied again before anybody can be paid     *)
(* (Agenda, PoolsDue).                                                      *)
(*                                                                          *)
(* FairMonth then follows of every step: the two roundings of each share    *)
(* are bounded, the errors of a list add up to nothing, and the last of the *)
(* list, who gets what is left, is off by those of all the others.          *)
(****************************************************************************)
EXTENDS Inflation, CoinsProofs

Inv ==
  /\ allocation \in AllocationParam
  /\ spent \in [thisYear : Nat, lastYear : Nat]

(* UpdateGlobalGrowthRate cuts any rate to the bounds.                      *)
LEMMA ClampedInBounds ==
  ASSUME NEW rate \in Int
  PROVE  Clamped(rate) \in Floor .. Ceiling
PROOF
  BY InflationAssumption DEF Clamped

(* Changing the rate alone leaves the parts, and their sum, as they are.    *)
LEMMA NewRate ==
  ASSUME NEW a \in AllocationParam, NEW r \in Floor .. Ceiling
  PROVE  [a EXCEPT !.rate = r] \in AllocationParam
PROOF
  BY DEF AllocationParam

LEMMA InitInv == Init => Inv
PROOF
  BY InflationAssumption DEF Init, Inv

LEMMA GrowthInv ==
  ASSUME Inv, SetTotalLinoAndRecalculateGrowthRate
  PROVE  Inv'
PROOF
<1>1. Growth \in Int
  <2>1. CASE spent.lastYear = 0
    BY <2>1, InflationAssumption DEF Growth, Inv, AllocationParam
  <2>2. CASE spent.lastYear # 0
    <3>1. /\ (spent.thisYear - spent.lastYear) * Whole \in Int
          /\ spent.lastYear \in Nat \ {0}
      BY <2>2, InflationAssumption DEF Inv
    <3>2. Round((spent.thisYear - spent.lastYear) * Whole, spent.lastYear) \in Int
      BY <3>1, RoundIsInt
    <3>3. QED BY <2>2, <3>2 DEF Growth
  <2>3. QED BY <2>1, <2>2
<1>2. Clamped(Growth) \in Floor .. Ceiling
  BY <1>1, ClampedInBounds
<1>3. allocation' \in AllocationParam
  BY <1>2, NewRate DEF Inv, SetTotalLinoAndRecalculateGrowthRate
<1>4. spent' \in [thisYear : Nat, lastYear : Nat]
  BY DEF Inv, SetTotalLinoAndRecalculateGrowthRate
<1>5. QED BY <1>3, <1>4 DEF Inv

(* The other events of a minute touch neither.                              *)
LEMMA MinuteInv ==
  ASSUME Inv, Minute
  PROVE  Inv'
PROOF
<1>1. CASE SetTotalLinoAndRecalculateGrowthRate
  BY <1>1, GrowthInv
<1>2. CASE IncreaseMinute
  BY <1>2 DEF Inv, IncreaseMinute, books
<1>3. CASE DistributeHourlyInflation
  BY <1>3 DEF Inv, DistributeHourlyInflation
<1>4. CASE \E oncall \in Oncalls : DistributeToValidators(oncall)
  BY <1>4 DEF Inv, DistributeToValidators
<1>5. CASE DistributeToProviders
  BY <1>5 DEF Inv, DistributeToProviders
<1>6. CASE DistributeToDevelopers
  BY <1>6 DEF Inv, DistributeToDevelopers
<1>7. QED BY <1>1, <1>2, <1>3, <1>4, <1>5, <1>6 DEF Minute

LEMMA BetweenInv ==
  ASSUME Inv, Between
  PROVE  Inv'
PROOF
<1> USE DEF Inv
<1>1. CASE \E param \in Allocations : ChangeAllocation(param)
  BY <1>1, InflationAssumption DEF ChangeAllocation
<1>2. CASE \E i \in Providing, amount \in Usages : ReportUsage(i, amount)
  BY <1>2 DEF ReportUsage
<1>3. CASE \E coin \in Amounts : Donate(coin)
  <2>1. PICK coin \in Amounts : Donate(coin)
    BY <1>3
  <2>2. coin \in Nat
    BY InflationAssumption
  <2>3. QED BY <2>1, <2>2 DEF Donate
<1>4. CASE \E author, app \in Users, coin \in Amounts : Reward(author, app, coin)
  BY <1>4 DEF Reward
<1>5. CASE \E user \in Users :
             PayRegisterFee(user) \/ RegisterDeveloper(user) \/ RevokeDeveloper(user)
  BY <1>5 DEF PayRegisterFee, RegisterDeveloper, RevokeDeveloper
<1>6. QED BY <1>1, <1>2, <1>3, <1>4, <1>5 DEF Between

LEMMA NextInv == Inv /\ [Next]_vars => Inv'
PROOF
<1> SUFFICES ASSUME Inv, [Next]_vars PROVE Inv'
  OBVIOUS
<1>1. CASE UNCHANGED vars
  BY <1>1 DEF Inv, vars, books
<1>2. QED BY <1>1, MinuteInv, BetweenInv DEF Next

(* UpdateGlobalGrowthRate and the check of proposals together keep the rate *)
(* of inflation between its floor and its ceiling.                          *)
THEOREM RateStaysBounded == Spec => []RateBounded
PROOF
<1>1. Inv => RateBounded
  BY DEF Inv, RateBounded, AllocationParam
<1>2. QED BY InitInv, NextInv, <1>1, PTL DEF Spec
------------------------------------------------------------------------------
(****************************************************************************)
(* COINS.  The coins of the hour are all there are, and every pool ends     *)
(* with the accounts of its list, for any lists, rates, roundings and       *)
(* lengths.                                                                 *)
(*                                                                          *)
(* Neither the types nor the books are inductive alone.  The coins of the   *)
(* next hour are a share of the supply of last year, which must not be      *)
(* below zero; but the developers' pool may be, and it is added to the      *)
(* supply.  It never owes more than the supply has, since what the roundings*)
(* take from developers is in the pools of validators and of providers      *)
(* (SupplyCovers): and these have been emptied into the supply when the     *)
(* developers' is (PoolsDue), because the duties of a minute come in the    *)
(* order of increaseMinute (Agenda).                                        *)
(****************************************************************************)
Agenda(list) ==
  \A i \in 1 .. Len(list) :
    /\ list[i] = "inflation" => i + 1 <= Len(list) /\ list[i + 1] = "validators"
    /\ list[i] = "developers" /\ i # 1 => list[i - 1] = "providers"

PoolsDue ==
  /\ pool.validator # 0 => due # <<>> /\ Head(due) = "validators"
  /\ due # <<>> /\ Head(due) = "developers" => pool.infra = 0

DutyNames == {"inflation", "validators", "providers", "developers", "growth"}

Duty == due \in Seq(DutyNames) /\ Agenda(due)

SupplyCovers ==
  /\ pool \in [{"content", "validator", "infra", "developer"} -> Int]
  /\ pool.content >= 0 /\ pool.validator >= 0 /\ pool.infra >= 0
  /\ supply \in [total : Nat, lastYear : Nat]
  /\ supply.total + pool.validator + pool.infra + pool.developer >= 0

Lists == Seq(Users)

(* The list of developers names each of them once.                          *)
Registered(list, f) ==
  /\ list \in Lists
  /\ DOMAIN f \subseteq Users /\ \A d \in DOMAIN f : f[d] \in Developer
  /\ \A i \in 1 .. Len(list) : list[i] \in DOMAIN f
  /\ \A d \in DOMAIN f : \E i \in 1 .. Len(list) : list[i] = d
  /\ \A i, j \in 1 .. Len(list) : list[i] = list[j] => i = j

Amounted ==
  /\ minutes \in Nat /\ between \in Nat /\ leaving \in Nat
  /\ usage \in [Providing -> Nat] /\ savings \in [Users -> Int]

IInv ==
  /\ Inv /\ Amounted /\ Duty /\ PoolsDue /\ SupplyCovers
  /\ Registered(developers, developer)

Orderly(list) ==
  /\ list \in Seq(DutyNames) /\ Agenda(list)
  /\ list # <<>> => list[1] # "developers"

(* The duties of a minute are in order, and developers are never the first. *)
LEMMA OneAfterAnother ==
  ASSUME NEW s, NEW t, Orderly(s), Orderly(t)
  PROVE  Orderly(s \o t)
PROOF
<1> DEFINE r == s \o t
           m == Len(s)
           n == Len(t)
<1>1. /\ s \in Seq(DutyNames) /\ t \in Seq(DutyNames)
      /\ m \in Nat /\ n \in Nat /\ r \in Seq(DutyNames) /\ Len(r) = m + n
  BY DEF Orderly
<1>2. ASSUME NEW i \in 1 .. m PROVE r[i] = s[i]
  BY <1>1
<1>3. ASSUME NEW i \in 1 .. n PROVE r[m + i] = t[i]
  BY <1>1
<1>4. (s # <<>> => m >= 1) /\ (t # <<>> => n >= 1) /\ (r # <<>> => m + n >= 1)
      /\ (m >= 1 => s # <<>>) /\ (n >= 1 => t # <<>>)
  BY <1>1
<1> HIDE DEF r, m, n
<1>5. ASSUME NEW i \in 1 .. m + n, r[i] = "inflation"
      PROVE  i + 1 <= m + n /\ r[i + 1] = "validators"
  <2>1. CASE i \in 1 .. m
    <3>1. s[i] = "inflation"
      BY <1>2, <1>5, <2>1
    <3>2. i + 1 <= m /\ s[i + 1] = "validators"
      BY <2>1, <3>1 DEF Orderly, Agenda, m
    <3>3. i + 1 \in 1 .. m
      BY <1>1, <2>1, <3>2
    <3>4. QED BY <1>1, <1>2, <3>2, <3>3
  <2>2. CASE i \notin 1 .. m
    <3>1. PICK k \in 1 .. n : i = m + k
      <4>1. i - m \in 1 .. n /\ i = m + (i - m)
        BY <1>1, <2>2
      <4>2. QED BY <4>1
    <3>2. t[k] = "inflation"
      BY <1>3, <1>5, <3>1
    <3>3. k + 1 <= n /\ t[k + 1] = "validators"
      BY <3>2 DEF Orderly, Agenda, n
    <3>4. k + 1 \in 1 .. n /\ i + 1 = m + (k + 1)
      BY <1>1, <3>1, <3>3
    <3>5. r[m + (k + 1)] = t[k + 1]
      BY <1>3, <3>4
    <3>6. QED BY <1>1, <3>1, <3>3, <3>4, <3>5
  <2>3. QED BY <2>1, <2>2
<1>6. ASSUME NEW i \in 1 .. m + n, r[i] = "developers"
      PROVE  i # 1 /\ r[i - 1] = "providers"
  <2>1. CASE i \in 1 .. m
    <3>1. s[i] = "developers" /\ s # <<>>
      BY <1>1, <1>2, <1>4, <1>6, <2>1
    <3>2. i # 1
      BY <3>1 DEF Orderly
    <3>3. s[i - 1] = "providers" /\ i - 1 \in 1 .. m
      BY <1>1, <2>1, <3>1, <3>2 DEF Orderly, Agenda, m
    <3>4. QED BY <1>2, <3>2, <3>3
  <2>2. CASE i \notin 1 .. m
    <3>1. PICK k \in 1 .. n : i = m + k
      <4>1. i - m \in 1 .. n /\ i = m + (i - m)
        BY <1>1, <2>2
      <4>2. QED BY <4>1
    <3>2. t[k] = "developers" /\ t # <<>>
      <4>1. n >= 1
        BY <1>1, <3>1
      <4>2. QED BY <1>3, <1>4, <1>6, <3>1, <4>1
    <3>3. k # 1
      BY <3>2 DEF Orderly
    <3>4. t[k - 1] = "providers"
      BY <3>1, <3>2, <3>3 DEF Orderly, Agenda, n
    <3>5. k - 1 \in 1 .. n /\ i - 1 = m + (k - 1) /\ i # 1
      BY <1>1, <3>1, <3>3
    <3>6. r[m + (k - 1)] = t[k - 1]
      BY <1>3, <3>5
    <3>7. QED BY <3>4, <3>5, <3>6
  <2>3. QED BY <2>1, <2>2
<1>7. Len(r) = m + n /\ r \in Seq(DutyNames)
  BY <1>1 DEF r
<1>8. Agenda(r)
  BY <1>5, <1>6, <1>7 DEF Agenda
<1>9. r # <<>> => r[1] # "developers"
  <2>1. ASSUME r # <<>> PROVE 1 \in 1 .. m + n
    BY <1>1, <1>4, <2>1
  <2>2. QED BY <1>6, <2>1
<1>10. QED BY <1>7, <1>8, <1>9 DEF Orderly, r

LEMMA DutiesInOrder ==
  ASSUME NEW m
  PROVE  Orderly(Duties(m))
PROOF
<1> DEFINE hour == IF m % Hour = 0 THEN <<"inflation", "validators">> ELSE <<>>
           month == IF m % Month = 0 THEN <<"providers", "developers">> ELSE <<>>
           year == IF m % Year = 0 THEN <<"growth">> ELSE <<>>
<1>1. Orderly(hour)
  <2>1. Orderly(<<"inflation", "validators">>)
    BY DEF Orderly, Agenda, DutyNames
  <2>2. Orderly(<<>>)
    BY DEF Orderly, Agenda
  <2>3. QED BY <2>1, <2>2
<1>2. Orderly(month)
  <2>1. Orderly(<<"providers", "developers">>)
    BY DEF Orderly, Agenda, DutyNames
  <2>2. Orderly(<<>>)
    BY DEF Orderly, Agenda
  <2>3. QED BY <2>1, <2>2
<1>3. Orderly(year)
  <2>1. Orderly(<<"growth">>)
    BY DEF Orderly, Agenda, DutyNames
  <2>2. Orderly(<<>>)
    BY DEF Orderly, Agenda
  <2>3. QED BY <2>1, <2>2
<1>4. Duties(m) = (hour \o month) \o year
  BY DEF Duties
<1> HIDE DEF hour, month, year
<1>5. Orderly(hour \o month)
  BY <1>1, <1>2, OneAfterAnother
<1>6. Orderly((hour \o month) \o year)
  BY <1>3, <1>5, OneAfterAnother
<1>7. QED BY <1>4, <1>6

(* What is left of the duties when one is done.                             *)
LEMMA DutiesLeft ==
  ASSUME NEW list \in Seq(DutyNames), Agenda(list), list # <<>>
  PROVE  /\ Tail(list) \in Seq(DutyNames) /\ Agenda(Tail(list))
         /\ (Head(list) = "inflation" => Tail(list) # <<>> /\ Head(Tail(list)) = "validators")
         /\ (Tail(list) # <<>> /\ Head(Tail(list)) = "developers" => Head(list) = "providers")
PROOF
<1>1. /\ Tail(list) \in Seq(DutyNames) /\ Len(Tail(list)) = Len(list) - 1
      /\ Len(list) \in Nat /\ Len(list) >= 1
      /\ \A i \in 1 .. Len(Tail(list)) : Tail(list)[i] = list[i + 1]
      /\ Head(list) = list[1]
  BY SMT
<1>2. Agenda(Tail(list))
  BY <1>1 DEF Agenda
<1>3. Head(list) = "inflation" => Tail(list) # <<>> /\ Head(Tail(list)) = "validators"
  <2>1. ASSUME list[1] = "inflation" PROVE 2 <= Len(list) /\ list[2] = "validators"
    <3>1. 1 \in 1 .. Len(list) /\ 1 + 1 = 2
      BY <1>1
    <3>2. QED BY <2>1, <3>1 DEF Agenda
  <2>2. QED BY <1>1, <2>1
<1>4. Tail(list) # <<>> /\ Head(Tail(list)) = "developers" => Head(list) = "providers"
  <2>1. ASSUME 2 <= Len(list), list[2] = "developers" PROVE list[1] = "providers"
    <3>1. 2 \in 1 .. Len(list) /\ 2 # 1 /\ 2 - 1 = 1
      BY <1>1, <2>1
    <3>2. QED BY <2>1, <3>1 DEF Agenda
  <2>2. QED BY <1>1, <2>1
<1>5. QED BY <1>1, <1>2, <1>3, <1>4

------------------------------------------------------------------------------
(****************************************************************************)
(* The lists that are paid.                                                 *)
(****************************************************************************)
(* A list is paid what its shares come to, in whatever order its names come *)
(* and however often (AddSavingCoin).                                       *)
LEMMA PaySum ==
  ASSUME NEW list, list \in Lists, NEW shares, savings \in [Users -> Int],
         \A i \in 1 .. Len(list) : shares[i] \in Int
  PROVE  /\ Pay(list, shares) \in [Users -> Int]
         /\ SumFunction(Pay(list, shares))
              = SumFunction(savings) + SumFunctionOnSet(shares, 1 .. Len(list))
         /\ SumFunction(savings) \in Int /\ SumFunctionOnSet(shares, 1 .. Len(list)) \in Int
PROOF
<1> DEFINE S == 1 .. Len(list)
           x == [i \in S |-> shares[i]]
           part == [u \in Users |-> [i \in S |-> IF list[i] = u THEN shares[i] ELSE 0]]
           d == [u \in Users |-> SumFunctionOnSet(part[u], S)]
<1>1. /\ list \in [S -> Users] /\ DOMAIN list = S /\ Len(list) \in Nat
  BY DEF Lists
<1>2. IsFiniteSet(S) /\ IsFiniteSet(Users)
  BY <1>1, FS_Interval, InflationAssumption
<1>3. x \in [S -> Int] /\ \A i \in S : x[i] = shares[i] /\ x[i] \in Int
  OBVIOUS
<1>4. \A v \in Users : /\ \A i \in S : part[v][i] = IF list[i] = v THEN x[i] ELSE 0
                       /\ d[v] = SumFunctionOnSet(part[v], S)
                       /\ SumFunction([i \in DOMAIN list |-> IF list[i] = v THEN shares[i] ELSE 0])
                            = d[v]
  BY <1>1 DEF SumFunction
<1>5. d = [v \in Users |-> d[v]] /\ Pay(list, shares) = [v \in Users |-> savings[v] + d[v]]
  BY <1>4 DEF Pay
<1> HIDE DEF x, part, d
<1>6. Dealt(S, Users, list, x, part, d)
  BY <1>1, <1>3, <1>4 DEF Dealt
<1>7. SumFunctionOnSet(d, Users) = SumFunctionOnSet(x, S) /\ \A v \in Users : d[v] \in Int
  BY <1>2, <1>6, SumByOwner
<1>8. SumFunctionOnSet(x, S) = SumFunctionOnSet(shares, S)
      /\ SumFunctionOnSet(shares, S) \in Int
  <2>1. \A i \in S : shares[i] \in Int /\ x[i] = shares[i]
    BY <1>3
  <2> HIDE DEF S
  <2>2. QED BY <1>2, <2>1, SumSame, SumTakes
<1> DEFINE p == Pay(list, shares)
<1>9. p \in [Users -> Int] /\ \A v \in Users : p[v] = savings[v] + d[v]
  BY <1>5, <1>7
<1> HIDE DEF p
<1>10. SumFunctionOnSet(p, Users)
         = SumFunctionOnSet(savings, Users) + SumFunctionOnSet(d, Users)
  <2>1. \A v \in Users : savings[v] \in Int /\ d[v] \in Int /\ p[v] = savings[v] + d[v]
    BY <1>7, <1>9
  <2>2. QED BY <1>2, <2>1, SumTwo
<1>11. SumFunction(p) = SumFunctionOnSet(p, Users)
       /\ SumFunction(savings) = SumFunctionOnSet(savings, Users)
       /\ SumFunction(savings) \in Int
  BY <1>2, <1>9, SumTotal
<1>12. QED BY <1>7, <1>8, <1>9, <1>10, <1>11 DEF p

(* The weights of a list, and with them its shares, are numbers.            *)
LEMMA WeightIsInt ==
  ASSUME NEW n \in Nat, NEW reported \in [1 .. n -> Nat], NEW i \in 1 .. n
  PROVE  Weight(reported, i) \in Int
PROOF
<1>1. IsFiniteSet(1 .. n) /\ Precision \in Nat \ {0}
  BY FS_Interval, InflationAssumption
<1>2. SumFunction(reported) \in Nat
  BY <1>1, SumCounts
<1>3. Len(reported) = n /\ n # 0
  OBVIOUS
<1>4. CASE SumFunction(reported) = 0
  <2>1. Round(Precision, n) \in Int
    BY <1>1, <1>3, RoundIsInt
  <2>2. QED BY <1>3, <1>4, <2>1 DEF Weight
<1>5. CASE SumFunction(reported) # 0
  <2>1. reported[i] * Precision \in Int /\ SumFunction(reported) \in Nat \ {0}
    BY <1>1, <1>2, <1>5
  <2>2. Round(reported[i] * Precision, SumFunction(reported)) \in Int
    BY <2>1, RoundIsInt
  <2>3. QED BY <1>5, <2>2 DEF Weight
<1>6. QED BY <1>4, <1>5

(* The last of a list makes the shares add up, whatever the others' were    *)
(* rounded to (distributeInflationToDeveloper).                             *)
LEMMA MonthSum ==
  ASSUME NEW n \in Nat \ {0}, NEW reported \in [1 .. n -> Nat], NEW coin \in Int
  PROVE  /\ \A i \in 1 .. n : MonthShares(coin, reported)[i] \in Int
         /\ SumFunctionOnSet(MonthShares(coin, reported), 1 .. n) = coin
PROOF
<1> DEFINE m == n - 1
           share == [i \in 1 .. n - 1 |-> Round(coin * Weight(reported, i), Precision)]
           sum == SumFunction(share)
           rest == [i \in {1} |-> coin - sum]
           all == [i \in 1 .. n |-> IF i < n THEN share[i] ELSE coin - sum]
<1>1. m \in Nat /\ m + 1 = n /\ n \in Nat /\ Len(reported) = n
  OBVIOUS
<1>2. MonthShares(coin, reported) = all
  BY <1>1 DEF MonthShares
<1>3. share \in [1 .. m -> Int]
  <2>1. ASSUME NEW i \in 1 .. m PROVE Round(coin * Weight(reported, i), Precision) \in Int
    <3>1. Weight(reported, i) \in Int
      BY <1>1, WeightIsInt
    <3>2. coin * Weight(reported, i) \in Int
      BY <3>1
    <3>3. QED BY <3>2, RoundIsInt, InflationAssumption
  <2>2. QED BY <2>1
<1>4. sum \in Int /\ sum = SumFunctionOnSet(share, 1 .. m)
  <2> HIDE DEF share, m
  <2>1. IsFiniteSet(1 .. m)
    BY <1>1, FS_Interval
  <2>2. QED BY <1>3, <2>1, SumTotal
<1>5. rest[1] = coin - sum /\ coin - sum \in Int
  <2> HIDE DEF sum
  <2>1. QED BY <1>4
<1>6. \A i \in 1 .. n : all[i] = IF i < n THEN share[i] ELSE coin - sum
  OBVIOUS
<1> HIDE DEF share, sum, rest, all
<1>7. Joined(m, 1, share, rest, all)
  <2>1. \A i \in 1 .. m : share[i] \in Int /\ all[i] = share[i]
    BY <1>1, <1>3, <1>6
  <2>2. \A i \in 1 .. 1 : rest[i] \in Int /\ all[i + m] = rest[i]
    BY <1>1, <1>5, <1>6
  <2>3. QED BY <1>1, <2>1, <2>2 DEF Joined
<1>8. SumFunctionOnSet(all, 1 .. m + 1)
        = SumFunctionOnSet(share, 1 .. m) + SumFunctionOnSet(rest, 1 .. 1)
  <2> HIDE DEF m
  <2>1. PICK one \in Nat : one = 1
    OBVIOUS
  <2>2. Joined(m, one, share, rest, all)
    BY <1>7, <2>1
  <2>3. SumFunctionOnSet(all, 1 .. m + one)
          = SumFunctionOnSet(share, 1 .. m) + SumFunctionOnSet(rest, 1 .. one)
    BY <2>2, SumJoins
  <2>4. QED BY <2>1, <2>3
<1>9. SumFunctionOnSet(rest, 1 .. 1) = coin - sum
  <2>1. 1 .. 1 = {} \cup {1} /\ IsFiniteSet({}) /\ 1 \notin {}
    BY FS_EmptySet
  <2>2. \A y \in {} \cup {1} : rest[y] \in Int
    BY <1>5
  <2>3. SumFunctionOnSet(rest, {} \cup {1}) = rest[1] + SumFunctionOnSet(rest, {})
    BY <2>1, <2>2, SumAdds
  <2>4. QED BY <1>5, <2>1, <2>3, SumEmpty
<1>10. SumFunctionOnSet(all, 1 .. n) = coin
  BY <1>1, <1>4, <1>8, <1>9
<1>11. \A i \in 1 .. n : all[i] \in Int
  BY <1>1, <1>3, <1>5, <1>6
<1>12. QED BY <1>2, <1>10, <1>11

(* EvenLeft is what its equations say: validators are paid one by one from  *)
(* what is left (distributeInflationToValidator).                           *)
EvenAt(g, coin, n, m) ==
  /\ g[0] = coin
  /\ \A i \in 1 .. m :
       g[i] = g[i - 1] - Round(Round(g[i - 1] * Precision, n - i + 1), Precision)

EvenOf(g, coin, n) ==
  [i \in 0 .. n |->
     IF i = 0 THEN coin
     ELSE g[i - 1] - Round(Round(g[i - 1] * Precision, n - i + 1), Precision)]

LEMMA EvenExists ==
  ASSUME NEW coin, NEW n \in Nat
  PROVE  \E g : g = EvenOf(g, coin, n)
PROOF
<1> DEFINE Good == {m \in 0 .. n : \E g : EvenAt(g, coin, n, m)}
<1>1. 0 \in Good
  <2> DEFINE h == [i \in 0 .. n |-> coin]
  <2>1. EvenAt(h, coin, n, 0)
    BY DEF EvenAt
  <2> HIDE DEF h
  <2>2. QED BY <2>1
<1>2. ASSUME NEW m \in 0 .. n - 1, m \in Good PROVE m + 1 \in Good
  <2>1. PICK g : EvenAt(g, coin, n, m)
    BY <1>2
  <2> DEFINE next == g[m] - Round(Round(g[m] * Precision, n - (m + 1) + 1), Precision)
             h == [i \in 0 .. n |-> IF i = m + 1 THEN next ELSE g[i]]
  <2> HIDE DEF next
  <2>2. m \in Nat /\ m + 1 \in 0 .. n /\ 0 \in 0 .. n /\ 0 # m + 1
        /\ \A i \in 0 .. m : i \in 0 .. n /\ i # m + 1
    OBVIOUS
  <2>3. h[m + 1] = next /\ h[0] = g[0] /\ \A i \in 0 .. m : h[i] = g[i]
    BY <2>2
  <2> HIDE DEF h
  <2>4. ASSUME NEW i \in 1 .. m + 1
        PROVE  h[i] = h[i - 1] - Round(Round(h[i - 1] * Precision, n - i + 1), Precision)
    <3>1. CASE i = m + 1
      <4>1. i - 1 = m /\ m \in 0 .. m
        BY <2>2, <3>1
      <4>2. QED BY <2>3, <3>1, <4>1 DEF next
    <3>2. CASE i # m + 1
      <4>1. i \in 1 .. m /\ i \in 0 .. m /\ i - 1 \in 0 .. m
        BY <2>2, <3>2
      <4>2. h[i] = g[i] /\ h[i - 1] = g[i - 1]
        BY <2>3, <4>1
      <4>3. QED BY <2>1, <4>1, <4>2 DEF EvenAt
    <3>3. QED BY <3>1, <3>2
  <2>5. EvenAt(h, coin, n, m + 1)
    BY <2>1, <2>3, <2>4 DEF EvenAt
  <2>6. QED BY <2>2, <2>5
<1>3. n \in Good
  <2> HIDE DEF Good
  <2>1. QED BY <1>1, <1>2, Upward
<1>4. PICK g : EvenAt(g, coin, n, n)
  BY <1>3
<1> DEFINE h == [i \in 0 .. n |-> g[i]]
<1>5. h = EvenOf(h, coin, n)
  <2>1. ASSUME NEW i \in 0 .. n
        PROVE  h[i] = IF i = 0 THEN coin
                      ELSE h[i - 1] - Round(Round(h[i - 1] * Precision, n - i + 1), Precision)
    <3>1. CASE i = 0
      BY <1>4, <3>1 DEF EvenAt
    <3>2. CASE i # 0
      <4>1. i \in 1 .. n /\ h[i] = g[i] /\ h[i - 1] = g[i - 1]
        BY <3>2
      <4> HIDE DEF h
      <4>2. QED BY <1>4, <3>2, <4>1 DEF EvenAt
    <3>3. QED BY <3>1, <3>2
  <2>2. h = [i \in 0 .. n |-> h[i]]
    OBVIOUS
  <2> HIDE DEF h
  <2>3. QED BY <2>1, <2>2 DEF EvenOf
<1> HIDE DEF h
<1>6. QED BY <1>5

LEMMA EvenLeftDef ==
  ASSUME NEW coin, NEW n \in Nat
  PROVE  EvenAt(EvenLeft(coin, n), coin, n, n)
PROOF
<1> DEFINE e == EvenLeft(coin, n)
<1>1. e = CHOOSE g : g = EvenOf(g, coin, n)
  BY DEF EvenLeft, EvenOf
<1>2. \E g : g = EvenOf(g, coin, n)
  BY EvenExists
<1> HIDE DEF e
<1>3. e = EvenOf(e, coin, n)
  BY <1>1, <1>2
<1>4. e[0] = coin
  <2>1. 0 \in 0 .. n
    OBVIOUS
  <2>2. EvenOf(e, coin, n)[0] = coin
    BY <2>1 DEF EvenOf
  <2>3. QED BY <1>3, <2>2
<1>5. ASSUME NEW i \in 1 .. n
      PROVE  e[i] = e[i - 1] - Round(Round(e[i - 1] * Precision, n - i + 1), Precision)
  <2>1. i \in 0 .. n /\ i # 0
    OBVIOUS
  <2>2. EvenOf(e, coin, n)[i]
          = e[i - 1] - Round(Round(e[i - 1] * Precision, n - i + 1), Precision)
    BY <2>1 DEF EvenOf
  <2>3. QED BY <1>3, <2>2
<1>6. EvenAt(e, coin, n, n)
  BY <1>4, <1>5 DEF EvenAt
<1>7. QED BY <1>6 DEF e

(* One of n takes an even part of what is left: no more than all of it, and *)
(* all of it if he is the last.                                             *)
LEMMA EvenPart ==
  ASSUME NEW x \in Nat, NEW k \in Nat \ {0}
  PROVE  /\ Round(Round(x * Precision, k), Precision) \in 0 .. x
         /\ (k = 1 => Round(Round(x * Precision, k), Precision) = x)
PROOF
<1>1. PICK p \in Nat \ {0} : p = Precision
  BY InflationAssumption
<1> DEFINE y == x * p
<1>2. y \in Nat
  BY SMT
<1>3. \A a, b \in Nat : b # 0 => a <= b * a
  BY SMT
<1>4. y <= k * y /\ y = p * x
  <2>1. y = p * x
    BY SMT
  <2> HIDE DEF y
  <2>2. QED BY <1>2, <1>3, <2>1
<1> HIDE DEF y
<1>5. Round(y, k) \in 0 .. y
  BY <1>2, <1>4, RoundWithin
<1>6. PICK z \in 0 .. y : z = Round(y, k)
  BY <1>5
<1>7. z \in Nat /\ z <= p * x
  BY <1>2, <1>4, <1>6
<1>8. Round(z, p) \in 0 .. x
  BY <1>7, RoundWithin
<1>9. ASSUME k = 1 PROVE Round(z, p) = x
  <2>1. Round(y, 1) = y
    <3>1. y * 1 = y /\ 1 \in Nat \ {0} /\ 1 \in 0 .. 1
      BY <1>2
    <3>2. PICK one \in Nat \ {0} : one = 1 /\ one \in 0 .. one /\ y * one = y
      BY <3>1
    <3>3. Round(y * one, one) = y
      BY <1>2, <3>2, RoundShare
    <3>4. QED BY <3>2, <3>3
  <2>2. z = y
    BY <1>6, <1>9, <2>1
  <2>3. Round(x * p, p) = x
    <3>1. p \in 0 .. p
      OBVIOUS
    <3>2. QED BY <3>1, RoundShare
  <2>4. QED BY <2>2, <2>3 DEF y
<1>10. Round(Round(x * Precision, k), Precision) = Round(z, p)
  BY <1>1, <1>6 DEF y
<1>11. QED BY <1>8, <1>9, <1>10

(* Nothing is left when all have got their part.                            *)
LEMMA EvenLeftOver ==
  ASSUME NEW coin \in Nat, NEW n \in Nat
  PROVE  /\ \A i \in 0 .. n : EvenLeft(coin, n)[i] \in Nat
         /\ EvenLeft(coin, n)[0] = coin
         /\ (n # 0 => EvenLeft(coin, n)[n] = 0)
PROOF
<1> DEFINE e == EvenLeft(coin, n)
<1>1. EvenAt(e, coin, n, n)
  BY EvenLeftDef
<1> HIDE DEF e
<1> DEFINE taken(i) == Round(Round(e[i - 1] * Precision, n - i + 1), Precision)
<1>2. ASSUME NEW i \in 1 .. n, e[i - 1] \in Nat
      PROVE  e[i] = e[i - 1] - taken(i) /\ taken(i) \in 0 .. e[i - 1]
             /\ (i = n => taken(i) = e[i - 1])
  <2>1. e[i] = e[i - 1] - taken(i)
    BY <1>1 DEF EvenAt
  <2>2. PICK k \in Nat \ {0} : k = n - i + 1
    <3>1. n - i + 1 \in Nat \ {0}
      OBVIOUS
    <3>2. QED BY <3>1
  <2>3. PICK x \in Nat : x = e[i - 1]
    BY <1>2
  <2>4. /\ Round(Round(x * Precision, k), Precision) \in 0 .. x
        /\ (k = 1 => Round(Round(x * Precision, k), Precision) = x)
    BY EvenPart
  <2>5. taken(i) = Round(Round(x * Precision, k), Precision)
    BY <2>2, <2>3
  <2>6. i = n => k = 1
    BY <2>2
  <2> HIDE DEF taken
  <2>7. QED BY <2>1, <2>3, <2>4, <2>5, <2>6
<1> HIDE DEF taken
<1>3. ASSUME NEW m \in 0 .. n PROVE e[m] \in Nat
  <2> DEFINE Good == {j \in 0 .. n : e[j] \in Nat}
  <2>1. 0 \in Good
    BY <1>1 DEF EvenAt
  <2>2. ASSUME NEW j \in 0 .. m - 1, j \in Good PROVE j + 1 \in Good
    <3>1. PICK i \in 1 .. n : i = j + 1 /\ i - 1 = j
      <4>1. j + 1 \in 1 .. n /\ (j + 1) - 1 = j
        OBVIOUS
      <4>2. QED BY <4>1
    <3>2. e[i - 1] \in Nat
      BY <2>2, <3>1
    <3>3. e[i] = e[i - 1] - taken(i) /\ taken(i) \in 0 .. e[i - 1]
      BY <1>2, <3>2
    <3>4. e[i] \in Nat
      BY <3>2, <3>3
    <3>5. QED BY <3>1, <3>4
  <2>3. m \in Nat
    OBVIOUS
  <2>4. m \in Good
    <3> HIDE DEF Good
    <3>1. QED BY <2>1, <2>2, <2>3, Upward
  <2>5. QED BY <2>4
<1>4. ASSUME n # 0 PROVE e[n] = 0
  <2>1. n \in 1 .. n /\ n - 1 \in 0 .. n
    BY <1>4
  <2>2. e[n - 1] \in Nat
    BY <1>3, <2>1
  <2>3. e[n] = e[n - 1] - taken(n) /\ taken(n) = e[n - 1]
    BY <1>2, <2>1, <2>2
  <2>4. QED BY <2>2, <2>3
<1>5. e[0] = coin
  BY <1>1 DEF EvenAt
<1>6. QED BY <1>3, <1>4, <1>5 DEF e

(* What is taken one after the other comes to the difference.               *)
LEMMA Telescope ==
  ASSUME NEW n \in Nat, NEW e, \A i \in 0 .. n : e[i] \in Int,
         NEW d, \A i \in 1 .. n : d[i] = e[i - 1] - e[i]
  PROVE  /\ \A i \in 1 .. n : d[i] \in Int
         /\ SumFunctionOnSet(d, 1 .. n) = e[0] - e[n]
PROOF
<1>1. ASSUME NEW i \in 1 .. n PROVE d[i] \in Int /\ d[i] = e[i - 1] - e[i]
  <2>1. i - 1 \in 0 .. n /\ i \in 0 .. n
    OBVIOUS
  <2>2. QED BY <2>1
<1> DEFINE Good == {m \in 0 .. n : SumFunctionOnSet(d, 1 .. m) = e[0] - e[m]}
<1>2. 0 \in Good
  <2>1. 1 .. 0 = {} /\ 0 \in 0 .. n
    OBVIOUS
  <2>2. SumFunctionOnSet(d, 1 .. 0) = 0
    BY <2>1, SumEmpty
  <2>3. QED BY <2>1, <2>2
<1>3. ASSUME NEW m \in 0 .. n - 1, m \in Good PROVE m + 1 \in Good
  <2>1. /\ m \in Nat /\ m + 1 \in 1 .. n /\ m + 1 \notin 1 .. m
        /\ 1 .. m + 1 = (1 .. m) \cup {m + 1} /\ (m + 1) - 1 = m
    OBVIOUS
  <2>2. IsFiniteSet(1 .. m)
    BY <2>1, FS_Interval
  <2>3. \A y \in (1 .. m) \cup {m + 1} : d[y] \in Int
    BY <1>1, <2>1
  <2>4. SumFunctionOnSet(d, (1 .. m) \cup {m + 1}) = d[m + 1] + SumFunctionOnSet(d, 1 .. m)
    BY <2>1, <2>2, <2>3, SumAdds
  <2>5. d[m + 1] = e[m] - e[m + 1]
    BY <1>1, <2>1
  <2>6. SumFunctionOnSet(d, 1 .. m) = e[0] - e[m]
    BY <1>3
  <2>7. e[0] \in Int /\ e[m] \in Int /\ e[m + 1] \in Int
    BY <2>1
  <2>8. SumFunctionOnSet(d, (1 .. m) \cup {m + 1}) = e[0] - e[m + 1]
    BY <2>4, <2>5, <2>6, <2>7
  <2>9. SumFunctionOnSet(d, 1 .. m + 1) = e[0] - e[m + 1]
    BY <2>1, <2>8
  <2>10. m + 1 \in 0 .. n
    BY <2>1
  <2>11. QED BY <2>9, <2>10
<1>4. n \in Good
  <2> HIDE DEF Good
  <2>1. QED BY <1>2, <1>3, Upward
<1>5. QED BY <1>1, <1>4

------------------------------------------------------------------------------
(****************************************************************************)
(* The list of developers and their records (x/developer).                  *)
(****************************************************************************)
Deposited(f) == SumFunction([d \in DOMAIN f |-> f[d].deposit])

(* A new consumption changes no deposit and no name.                        *)
LEMMA SameDevelopers ==
  ASSUME NEW list, NEW f, Registered(list, f), NEW g, DOMAIN g = DOMAIN f,
         \A d \in DOMAIN f : g[d] \in Developer /\ g[d].deposit = f[d].deposit
  PROVE  Registered(list, g) /\ Deposited(g) = Deposited(f)
PROOF
<1>1. Registered(list, g)
  BY DEF Registered
<1>2. [d \in DOMAIN g |-> g[d].deposit] = [d \in DOMAIN f |-> f[d].deposit]
  OBVIOUS
<1>3. QED BY <1>1, <1>2 DEF Deposited

LEMMA DepositsAreCoins ==
  ASSUME NEW list, NEW f, Registered(list, f)
  PROVE  /\ IsFiniteSet(DOMAIN f)
         /\ [d \in DOMAIN f |-> f[d].deposit] \in [DOMAIN f -> Nat]
         /\ Deposited(f) = SumFunctionOnSet([d \in DOMAIN f |-> f[d].deposit], DOMAIN f)
         /\ Deposited(f) \in Int
PROOF
<1> DEFINE h == [d \in DOMAIN f |-> f[d].deposit]
<1>1. IsFiniteSet(DOMAIN f)
  BY InflationAssumption, FS_Subset DEF Registered
<1>2. h \in [DOMAIN f -> Nat]
  BY DEF Registered, Developer
<1>3. Deposited(f) = SumFunction(h)
  BY DEF Deposited
<1> HIDE DEF h
<1>4. h \in [DOMAIN f -> Int]
  BY <1>2
<1>5. SumFunction(h) = SumFunctionOnSet(h, DOMAIN f) /\ SumFunction(h) \in Int
  BY <1>1, <1>4, SumTotal
<1>6. QED BY <1>1, <1>2, <1>3, <1>5 DEF h

(* A developer more: the last of the list, with a deposit.                  *)
LEMMA OneMore ==
  ASSUME NEW list, NEW f, Registered(list, f), NEW user \in Users, user \notin DOMAIN f,
         NEW dev \in Developer, NEW g, DOMAIN g = DOMAIN f \cup {user},
         \A d \in DOMAIN g : g[d] = IF d = user THEN dev ELSE f[d]
  PROVE  /\ Registered(Append(list, user), g)
         /\ Deposited(g) = Deposited(f) + dev.deposit
PROOF
<1> DEFINE new == Append(list, user)
           n == Len(list)
<1>1. /\ list \in Lists /\ new \in Lists /\ n \in Nat /\ Len(new) = n + 1 /\ new[n + 1] = user
      /\ \A i \in 1 .. n : new[i] = list[i]
  BY DEF Registered, Lists
<1> HIDE DEF new, n
<1>2. \A d \in DOMAIN g : g[d] \in Developer
  BY DEF Registered
<1>3. ASSUME NEW i \in 1 .. n PROVE list[i] \in DOMAIN f /\ list[i] # user
  BY DEF Registered, n
<1>4. \A i \in 1 .. Len(new) : new[i] \in DOMAIN g
  <2>1. ASSUME NEW i \in 1 .. n + 1 PROVE new[i] \in DOMAIN g
    <3>1. CASE i = n + 1
      BY <1>1, <3>1
    <3>2. CASE i # n + 1
      <4>1. i \in 1 .. n
        BY <1>1, <3>2
      <4>2. QED BY <1>1, <1>3, <4>1
    <3>3. QED BY <3>1, <3>2
  <2>2. QED BY <1>1, <2>1
<1>5. \A d \in DOMAIN g : \E i \in 1 .. Len(new) : new[i] = d
  <2>1. ASSUME NEW d \in DOMAIN g PROVE \E i \in 1 .. Len(new) : new[i] = d
    <3>1. CASE d = user
      <4>1. n + 1 \in 1 .. Len(new)
        BY <1>1
      <4>2. QED BY <1>1, <3>1, <4>1
    <3>2. CASE d # user
      <4>1. d \in DOMAIN f
        BY <3>2
      <4>2. PICK i \in 1 .. n : list[i] = d
        BY <4>1 DEF Registered, n
      <4>3. i \in 1 .. Len(new)
        BY <1>1
      <4>4. QED BY <1>1, <4>2, <4>3
    <3>3. QED BY <3>1, <3>2
  <2>2. QED BY <2>1
<1>6. \A i, j \in 1 .. Len(new) : new[i] = new[j] => i = j
  <2>1. ASSUME NEW i \in 1 .. n + 1, NEW j \in 1 .. n + 1, new[i] = new[j] PROVE i = j
    <3>1. CASE i = n + 1 /\ j # n + 1
      <4>1. j \in 1 .. n
        BY <1>1, <3>1
      <4>2. QED BY <1>1, <1>3, <2>1, <3>1, <4>1
    <3>2. CASE j = n + 1 /\ i # n + 1
      <4>1. i \in 1 .. n
        BY <1>1, <3>2
      <4>2. QED BY <1>1, <1>3, <2>1, <3>2, <4>1
    <3>3. CASE i # n + 1 /\ j # n + 1
      <4>1. i \in 1 .. n /\ j \in 1 .. n
        BY <1>1, <3>3
      <4>2. list[i] = list[j]
        BY <1>1, <2>1, <4>1
      <4>3. QED BY <4>1, <4>2 DEF Registered, n
    <3>4. QED BY <3>1, <3>2, <3>3
  <2>2. QED BY <1>1, <2>1
<1>7. Registered(new, g)
  BY <1>1, <1>2, <1>4, <1>5, <1>6 DEF Registered
<1> DEFINE h == [d \in DOMAIN f |-> f[d].deposit]
           k == [d \in DOMAIN g |-> g[d].deposit]
<1>8. /\ IsFiniteSet(DOMAIN f) /\ h \in [DOMAIN f -> Nat]
      /\ Deposited(f) = SumFunctionOnSet(h, DOMAIN f)
  BY DepositsAreCoins
<1>9. k \in [DOMAIN g -> Nat] /\ Deposited(g) = SumFunctionOnSet(k, DOMAIN g)
  BY <1>7, DepositsAreCoins
<1>10. k[user] = dev.deposit /\ \A d \in DOMAIN f : k[d] = h[d]
  OBVIOUS
<1> HIDE DEF h, k
<1>11. SumFunctionOnSet(k, DOMAIN f) = SumFunctionOnSet(h, DOMAIN f)
       /\ SumFunctionOnSet(h, DOMAIN f) \in Int
  <2>1. \A d \in DOMAIN f : h[d] \in Int /\ k[d] = h[d]
    BY <1>8, <1>10
  <2>2. QED BY <1>8, <2>1, SumSame, SumTakes
<1>12. SumFunctionOnSet(k, DOMAIN f \cup {user}) = k[user] + SumFunctionOnSet(k, DOMAIN f)
  <2>1. \A d \in DOMAIN f \cup {user} : k[d] \in Int
    BY <1>9
  <2>2. QED BY <1>8, <2>1, SumAdds
<1>13. dev.deposit \in Int
  BY DEF Developer
<1>14. Deposited(g) = Deposited(f) + dev.deposit
  BY <1>8, <1>9, <1>10, <1>11, <1>12, <1>13
<1>15. QED BY <1>7, <1>14 DEF new

(* A developer less: found in the list, and taken out of it with his record *)
(* (FindAccountInList).                                                     *)
Leaves(list, f, k, new, g) ==
  /\ k \in 1 .. Len(list)
  /\ new = [j \in 1 .. Len(list) - 1 |-> list[IF j < k THEN j ELSE j + 1]]
  /\ DOMAIN g = DOMAIN f \ {list[k]} /\ \A d \in DOMAIN g : g[d] = f[d]

LEMMA OneLess ==
  ASSUME NEW list, NEW f, NEW k, NEW new, NEW g,
         Registered(list, f), Leaves(list, f, k, new, g)
  PROVE  /\ Registered(new, g)
         /\ Deposited(f) = Deposited(g) + f[list[k]].deposit
         /\ f[list[k]].deposit \in Nat /\ Deposited(g) \in Int
PROOF
<1> USE DEF Leaves
<1> DEFINE n == Len(list)
           old(j) == IF j < k THEN j ELSE j + 1
<1>1. list \in Lists /\ n \in Nat /\ n - 1 \in Nat /\ list \in [1 .. n -> Users]
  BY DEF Registered, Lists
<1>2. ASSUME NEW j \in 1 .. n - 1
      PROVE  old(j) \in 1 .. n /\ old(j) # k /\ new[j] = list[old(j)]
  BY <1>1
<1>3. \A i, j \in 1 .. n - 1 : old(i) = old(j) => i = j
  BY <1>1
<1>4. ASSUME NEW i \in 1 .. n, i # k PROVE \E j \in 1 .. n - 1 : old(j) = i
  <2>1. CASE i < k
    <3>1. i \in 1 .. n - 1 /\ old(i) = i
      BY <1>1, <2>1
    <3>2. QED BY <3>1
  <2>2. CASE ~ (i < k)
    <3>1. i - 1 \in 1 .. n - 1 /\ old(i - 1) = i
      BY <1>1, <1>4, <2>2
    <3>2. QED BY <3>1
  <2>3. QED BY <2>1, <2>2
<1>5. new \in [1 .. n - 1 -> Users]
  <2>1. \A j \in 1 .. n - 1 : list[old(j)] \in Users
    BY <1>1, <1>2
  <2>2. QED BY <2>1
<1>6. new \in Lists /\ Len(new) = n - 1
  BY <1>1, <1>5 DEF Lists
<1> HIDE DEF n, old
<1>7. ASSUME NEW j \in 1 .. n - 1 PROVE new[j] \in DOMAIN g
  <2>1. list[old(j)] \in DOMAIN f /\ list[old(j)] # list[k]
    BY <1>2 DEF Registered, n
  <2>2. QED BY <1>2, <2>1
<1>8. ASSUME NEW d \in DOMAIN g PROVE \E j \in 1 .. n - 1 : new[j] = d
  <2>1. PICK i \in 1 .. n : list[i] = d
    BY DEF Registered, n
  <2>2. i # k
    BY <2>1
  <2>3. PICK j \in 1 .. n - 1 : old(j) = i
    BY <1>4, <2>2
  <2>4. QED BY <1>2, <2>1, <2>3
<1>9. ASSUME NEW i \in 1 .. n - 1, NEW j \in 1 .. n - 1, new[i] = new[j] PROVE i = j
  <2>1. list[old(i)] = list[old(j)] /\ old(i) \in 1 .. n /\ old(j) \in 1 .. n
    BY <1>2, <1>9
  <2>2. old(i) = old(j)
    BY <2>1 DEF Registered, n
  <2>3. QED BY <1>3, <2>2
<1>10. Registered(new, g)
  <2>1. DOMAIN g \subseteq Users /\ \A d \in DOMAIN g : g[d] \in Developer
    BY DEF Registered
  <2>2. QED BY <1>6, <1>7, <1>8, <1>9, <2>1 DEF Registered
<1> DEFINE h == [d \in DOMAIN f |-> f[d].deposit]
           l == [d \in DOMAIN g |-> g[d].deposit]
<1>11. /\ IsFiniteSet(DOMAIN f) /\ h \in [DOMAIN f -> Nat]
       /\ Deposited(f) = SumFunctionOnSet(h, DOMAIN f)
  BY DepositsAreCoins
<1>12. /\ IsFiniteSet(DOMAIN g) /\ l \in [DOMAIN g -> Nat]
       /\ Deposited(g) = SumFunctionOnSet(l, DOMAIN g) /\ Deposited(g) \in Int
  BY <1>10, DepositsAreCoins
<1>13. list[k] \in DOMAIN f /\ h[list[k]] = f[list[k]].deposit /\ \A d \in DOMAIN g : h[d] = l[d]
  BY DEF Registered
<1> HIDE DEF h, l
<1>14. SumFunctionOnSet(h, DOMAIN f) = h[list[k]] + SumFunctionOnSet(h, DOMAIN f \ {list[k]})
  <2>1. \A d \in DOMAIN f : h[d] \in Int
    BY <1>11
  <2>2. PICK u \in DOMAIN f : u = list[k]
    BY <1>13
  <2>3. SumFunctionOnSet(h, DOMAIN f) = h[u] + SumFunctionOnSet(h, DOMAIN f \ {u})
    BY <1>11, <2>1, SumTakes
  <2>4. QED BY <2>2, <2>3
<1>15. SumFunctionOnSet(h, DOMAIN g) = SumFunctionOnSet(l, DOMAIN g)
  <2>1. \A d \in DOMAIN g : l[d] \in Int /\ h[d] = l[d]
    BY <1>12, <1>13
  <2>2. QED BY <1>12, <2>1, SumSame
<1>16. h[list[k]] \in Nat
  BY <1>11, <1>13
<1>17. QED BY <1>10, <1>11, <1>12, <1>13, <1>14, <1>15, <1>16

------------------------------------------------------------------------------
(****************************************************************************)
(* The coins of an hour.                                                    *)
(****************************************************************************)
LEMMA HourIsNat ==
  ASSUME Inv, SupplyCovers
  PROVE  HourInflation \in Nat
PROOF
<1>1. PICK y \in Nat \ {0}, h \in Nat \ {0}, w \in Nat \ {0} :
        y = Year /\ h = Hour /\ w = Whole /\ h <= y
  BY InflationAssumption
<1>2. PICK q \in Nat, r \in 0 .. h - 1 : q = y \div h /\ r = y % h /\ y = h * q + r
  BY DivDef
<1>3. q # 0
  <2>1. ASSUME q = 0 PROVE FALSE
    <3>1. h * q = 0
      BY <2>1
    <3>2. QED BY <1>1, <1>2, <3>1
  <2>2. QED BY <2>1
<1>4. \A a, b \in Nat : a * b \in Nat /\ (a # 0 /\ b # 0 => a * b # 0)
  BY SMT
<1>5. w * q \in Nat \ {0}
  BY <1>3, <1>4
<1>6. supply.lastYear \in Nat /\ allocation.rate \in Nat
  <2>1. supply.lastYear \in Nat
    BY DEF SupplyCovers
  <2>2. allocation.rate \in Floor .. Ceiling
    BY DEF Inv, AllocationParam
  <2>3. Floor \in Nat /\ Ceiling \in Nat
    BY InflationAssumption
  <2>4. QED BY <2>1, <2>2, <2>3
<1>7. supply.lastYear * allocation.rate \in Nat
  BY <1>4, <1>6
<1>8. Round(supply.lastYear * allocation.rate, w * q) \in Nat
  BY <1>5, <1>7, RoundNear
<1>9. QED BY <1>1, <1>2, <1>8 DEF HourInflation

(* Three parts are rounded, and the fourth makes them add up.               *)
LEMMA PartsAddUp ==
  ASSUME Inv, NEW coin \in Nat
  PROVE  /\ Parts(coin).content \in Nat /\ Parts(coin).validator \in Nat
         /\ Parts(coin).infra \in Nat /\ Parts(coin).developer \in Int
         /\ Parts(coin).content + Parts(coin).validator
              + Parts(coin).infra + Parts(coin).developer = coin
         /\ Parts(coin).validator + Parts(coin).infra + Parts(coin).developer >= 0
PROOF
<1>1. /\ allocation.content \in 0 .. Whole /\ allocation.validator \in 0 .. Whole
      /\ allocation.infra \in 0 .. Whole /\ Whole \in Nat \ {0}
  BY InflationAssumption DEF Inv, AllocationParam
<1>2. PICK c \in 0 .. coin : c = Round(coin * allocation.content, Whole)
  BY <1>1, RoundShare
<1>3. PICK v \in 0 .. coin : v = Round(coin * allocation.validator, Whole)
  BY <1>1, RoundShare
<1>4. PICK i \in 0 .. coin : i = Round(coin * allocation.infra, Whole)
  BY <1>1, RoundShare
<1>5. Parts(coin) = [content |-> c, validator |-> v, infra |-> i,
                     developer |-> coin - c - v - i]
  BY <1>2, <1>3, <1>4 DEF Parts
<1>6. QED BY <1>5

(* What is done of the duties of a minute.                                  *)
LEMMA DutyDone ==
  ASSUME Duty, NEW duty, Doing(duty)
  PROVE  /\ Duty' /\ due # <<>> /\ Head(due) = duty
         /\ minutes' = minutes /\ between' = between
         /\ (duty = "inflation" => due' # <<>> /\ Head(due') = "validators")
         /\ (due' # <<>> /\ Head(due') = "developers" => duty = "providers")
PROOF
<1>1. /\ due # <<>> /\ Head(due) = duty /\ due' = Tail(due)
      /\ minutes' = minutes /\ between' = between
  BY DEF Doing
<1>2. /\ Tail(due) \in Seq(DutyNames) /\ Agenda(Tail(due))
      /\ (Head(due) = "inflation" => Tail(due) # <<>> /\ Head(Tail(due)) = "validators")
      /\ (Tail(due) # <<>> /\ Head(Tail(due)) = "developers" => Head(due) = "providers")
  BY <1>1, DutiesLeft DEF Duty
<1>3. QED BY <1>1, <1>2 DEF Duty

(* What a step may do to the coins.                                         *)
Kept ==
  \/ Owned' + Pools' = Owned + Pools + Created
  \/ NobodyToPay /\ Owned' = Owned

LEMMA HourStep ==
  ASSUME IInv, DistributeHourlyInflation
  PROVE  IInv' /\ Kept
PROOF
<1>1. HourInflation \in Nat
  BY HourIsNat DEF IInv
<1>2. PICK coin \in Nat : coin = HourInflation
  BY <1>1
<1> DEFINE part == Parts(coin)
<1>3. /\ part.content \in Nat /\ part.validator \in Nat
      /\ part.infra \in Nat /\ part.developer \in Int
      /\ part.content + part.validator + part.infra + part.developer = coin
      /\ part.validator + part.infra + part.developer >= 0
  BY PartsAddUp DEF IInv
<1>4. pool' = [p \in DOMAIN pool |-> pool[p] + part[p]] /\ supply' = supply
  BY <1>2 DEF DistributeHourlyInflation
<1>5. /\ Duty' /\ due # <<>> /\ Head(due) = "inflation"
      /\ minutes' = minutes /\ between' = between
      /\ due' # <<>> /\ Head(due') = "validators"
  BY DutyDone DEF DistributeHourlyInflation, IInv
<1> HIDE DEF part
<1>6. /\ pool'.content = pool.content + part.content
      /\ pool'.validator = pool.validator + part.validator
      /\ pool'.infra = pool.infra + part.infra
      /\ pool'.developer = pool.developer + part.developer
      /\ pool' \in [{"content", "validator", "infra", "developer"} -> Int]
      /\ pool.content \in Int /\ pool.validator \in Int
      /\ pool.infra \in Int /\ pool.developer \in Int
  BY <1>3, <1>4 DEF IInv, SupplyCovers
<1>7. SupplyCovers'
  BY <1>3, <1>4, <1>6 DEF IInv, SupplyCovers
<1>8. PoolsDue'
  BY <1>5 DEF PoolsDue
<1>9. Inv' /\ Amounted' /\ Registered(developers, developer)'
  BY <1>5 DEF DistributeHourlyInflation, IInv, Inv, Amounted
<1>10. Pools' = Pools + coin /\ Pools \in Int
  BY <1>3, <1>6 DEF Pools
<1>11. Owned' = Owned /\ Owned \in Int
  <2>1. SumFunction(savings) \in Int
    BY SumTotal, InflationAssumption DEF IInv, Amounted
  <2>2. Deposited(developer) \in Int
    BY DepositsAreCoins DEF IInv
  <2>3. QED BY <2>1, <2>2 DEF DistributeHourlyInflation, Owned, IInv, Amounted, Deposited
<1>12. Created = coin
  BY <1>2, <1>5 DEF Created
<1>13. QED BY <1>5, <1>7, <1>8, <1>9, <1>10, <1>11, <1>12 DEF IInv, Kept

OwnedIs == Owned = SumFunction(savings) + leaving + Deposited(developer)

LEMMA OwnedParts ==
  ASSUME IInv
  PROVE  /\ OwnedIs /\ Owned \in Int /\ Pools \in Int
         /\ SumFunction(savings) \in Int /\ Deposited(developer) \in Int /\ leaving \in Int
PROOF
<1>1. SumFunction(savings) \in Int
  BY SumTotal, InflationAssumption DEF IInv, Amounted
<1>2. Deposited(developer) \in Int
  BY DepositsAreCoins DEF IInv
<1>3. Pools \in Int
  BY DEF IInv, SupplyCovers, Pools
<1>4. QED BY <1>1, <1>2, <1>3 DEF OwnedIs, Owned, Deposited, IInv, Amounted

(* A pool is emptied for the names of a list.  If there are some, they have *)
(* the coins of the pool; if not, nobody has.                               *)
LEMMA PaidOut ==
  ASSUME IInv, NEW name \in {"validator", "infra", "developer"}, Empty(name),
         NEW list \in Lists, NEW shares, \A i \in 1 .. Len(list) : shares[i] \in Int,
         savings' = Pay(list, shares),
         list # <<>> => SumFunctionOnSet(shares, 1 .. Len(list)) = pool[name],
         leaving' = leaving, Deposited(developer') = Deposited(developer)
  PROVE  /\ savings' \in [Users -> Int]
         /\ list # <<>> => Owned' + Pools' = Owned + Pools
         /\ list = <<>> => Owned' = Owned
PROOF
<1>1. savings \in [Users -> Int]
  BY DEF IInv, Amounted
<1>2. /\ Pay(list, shares) \in [Users -> Int]
      /\ SumFunction(Pay(list, shares))
           = SumFunction(savings) + SumFunctionOnSet(shares, 1 .. Len(list))
  BY <1>1, PaySum
<1>3. /\ OwnedIs /\ Owned \in Int /\ Pools \in Int
      /\ SumFunction(savings) \in Int /\ Deposited(developer) \in Int /\ leaving \in Int
  BY OwnedParts
<1>4. Owned' = SumFunction(Pay(list, shares)) + leaving + Deposited(developer)
  BY DEF Owned, Deposited
<1>5. pool[name] \in Int /\ Pools' = Pools - pool[name]
  BY DEF Empty, Pools, IInv, SupplyCovers
<1>6. ASSUME list # <<>> PROVE Owned' + Pools' = Owned + Pools
  <2>1. SumFunction(Pay(list, shares)) = SumFunction(savings) + pool[name]
    BY <1>2, <1>6
  <2>2. PICK coin \in Int : coin = pool[name]
    BY <1>5
  <2>3. Owned' = Owned + coin
    BY <1>3, <1>4, <2>1, <2>2 DEF OwnedIs
  <2>4. Pools' = Pools - coin
    BY <1>5, <2>2
  <2>5. QED BY <1>3, <2>3, <2>4
<1>7. ASSUME list = <<>> PROVE Owned' = Owned
  <2>1. Len(list) = 0 /\ 1 .. 0 = {}
    BY <1>7
  <2>2. SumFunctionOnSet(shares, 1 .. Len(list)) = 0
    BY <2>1, SumEmpty
  <2>3. QED BY <1>2, <1>3, <1>4, <2>2 DEF OwnedIs
<1>8. QED BY <1>2, <1>6, <1>7

LEMMA ValidatorsStep ==
  ASSUME IInv, NEW oncall \in Oncalls, DistributeToValidators(oncall)
  PROVE  IInv' /\ Kept
PROOF
<1> DEFINE n == Len(oncall)
           e == EvenLeft(pool.validator, Len(oncall))
           shares == [i \in DOMAIN oncall |-> e[i - 1] - e[i]]
<1>1. oncall \in Lists /\ n \in Nat /\ DOMAIN oncall = 1 .. n /\ (oncall # <<>> => n # 0)
  BY InflationAssumption DEF Lists
<1>2. pool.validator \in Nat
  BY DEF IInv, SupplyCovers
<1>3. /\ \A i \in 0 .. n : e[i] \in Nat
      /\ e[0] = pool.validator /\ (n # 0 => e[n] = 0)
  BY <1>1, <1>2, EvenLeftOver
<1>4. savings' = Pay(oncall, shares)
  BY DEF DistributeToValidators
<1>5. \A i \in 1 .. n : shares[i] = e[i - 1] - e[i]
  BY <1>1
<1> HIDE DEF shares, e
<1>6. /\ \A i \in 1 .. n : shares[i] \in Int
      /\ SumFunctionOnSet(shares, 1 .. n) = e[0] - e[n]
  <2>1. \A i \in 0 .. n : e[i] \in Int
    BY <1>3
  <2> HIDE DEF n
  <2>2. QED BY <1>1, <1>5, <2>1, Telescope
<1>7. oncall # <<>> => SumFunctionOnSet(shares, 1 .. n) = pool.validator
  BY <1>1, <1>2, <1>3, <1>6
<1>8. /\ Duty' /\ due # <<>> /\ Head(due) = "validators"
      /\ minutes' = minutes /\ between' = between
      /\ ~ (due' # <<>> /\ Head(due') = "developers")
  BY DutyDone DEF DistributeToValidators, IInv
<1>9. Empty("validator")
  BY DEF DistributeToValidators
<1>10. /\ savings' \in [Users -> Int]
       /\ oncall # <<>> => Owned' + Pools' = Owned + Pools
       /\ oncall = <<>> => Owned' = Owned
  <2>1. leaving' = leaving /\ developer' = developer
    BY DEF DistributeToValidators
  <2>2. QED BY <1>1, <1>4, <1>6, <1>7, <1>9, <2>1, PaidOut
<1>11. Kept
  <2>1. Created = 0
    BY <1>8 DEF Created
  <2>2. oncall = <<>> => NobodyToPay
    BY <1>8 DEF NobodyToPay
  <2>3. Owned \in Int /\ Pools \in Int
    BY OwnedParts
  <2>4. QED BY <1>10, <2>1, <2>2, <2>3 DEF Kept
<1>12. SupplyCovers' /\ PoolsDue'
  BY <1>8, <1>9 DEF Empty, IInv, SupplyCovers, PoolsDue
<1>13. Inv' /\ Amounted' /\ Registered(developers, developer)'
  BY <1>8, <1>10 DEF DistributeToValidators, IInv, Inv, Amounted
<1>14. QED BY <1>8, <1>11, <1>12, <1>13 DEF IInv

LEMMA ProvidersStep ==
  ASSUME IInv, DistributeToProviders
  PROVE  IInv' /\ Kept
PROOF
<1> DEFINE n == Len(Providers)
           shares == MonthShares(pool.infra, usage)
<1>1. /\ Providers \in Lists /\ n \in Nat /\ (Providers # <<>> => n # 0)
      /\ (Providers = <<>> => n = 0)
  BY InflationAssumption DEF Lists
<1>2. pool.infra \in Int /\ usage \in [1 .. n -> Nat]
  BY DEF IInv, SupplyCovers, Amounted, Providing
<1> HIDE DEF n, shares
<1>3. Providers # <<>> =>
        /\ \A i \in 1 .. n : shares[i] \in Int
        /\ SumFunctionOnSet(shares, 1 .. n) = pool.infra
  BY <1>1, <1>2, MonthSum DEF shares
<1>4. \A i \in 1 .. n : shares[i] \in Int
  BY <1>1, <1>3
<1>5. /\ Duty' /\ due # <<>> /\ Head(due) = "providers"
      /\ minutes' = minutes /\ between' = between
  BY DutyDone DEF DistributeToProviders, IInv
<1>6. Empty("infra")
  BY DEF DistributeToProviders
<1>7. /\ savings' \in [Users -> Int]
      /\ Providers # <<>> => Owned' + Pools' = Owned + Pools
      /\ Providers = <<>> => Owned' = Owned
  <2>1. leaving' = leaving /\ developer' = developer /\ savings' = Pay(Providers, shares)
    BY DEF DistributeToProviders, shares
  <2>2. QED BY <1>1, <1>3, <1>4, <1>6, <2>1, PaidOut DEF n
<1>8. Kept
  <2>1. Created = 0
    BY <1>5 DEF Created
  <2>2. Providers = <<>> => NobodyToPay
    BY <1>5 DEF NobodyToPay
  <2>3. Owned \in Int /\ Pools \in Int
    BY OwnedParts
  <2>4. QED BY <1>7, <2>1, <2>2, <2>3 DEF Kept
<1>9. pool.validator = 0
  BY <1>5 DEF IInv, PoolsDue
<1>10. SupplyCovers' /\ PoolsDue'
  BY <1>5, <1>6, <1>9 DEF Empty, IInv, SupplyCovers, PoolsDue
<1>11. usage' \in [Providing -> Nat]
  BY DEF DistributeToProviders, ClearUsage
<1>12. Inv' /\ Amounted' /\ Registered(developers, developer)'
  BY <1>5, <1>7, <1>11 DEF DistributeToProviders, IInv, Inv, Amounted
<1>13. QED BY <1>5, <1>8, <1>10, <1>12 DEF IInv

LEMMA DevelopersStep ==
  ASSUME IInv, DistributeToDevelopers
  PROVE  IInv' /\ Kept
PROOF
<1> DEFINE n == Len(developers)
           shares == MonthShares(pool.developer, Consumption)
<1>1. /\ developers \in Lists /\ n \in Nat /\ (developers # <<>> => n # 0)
      /\ (developers = <<>> => n = 0) /\ DOMAIN developers = 1 .. n
  BY DEF IInv, Registered, Lists
<1>2. pool.developer \in Int
  BY DEF IInv, SupplyCovers
<1>3. Consumption \in [1 .. n -> Nat]
  <2>1. \A i \in 1 .. n : developer[developers[i]] \in Developer
    BY DEF IInv, Registered
  <2>2. \A i \in 1 .. n : developer[developers[i]].consumption \in Nat
    BY <2>1 DEF Developer
  <2>3. QED BY <1>1, <2>2 DEF Consumption
<1> HIDE DEF n, shares
<1>4. developers # <<>> =>
        /\ \A i \in 1 .. n : shares[i] \in Int
        /\ SumFunctionOnSet(shares, 1 .. n) = pool.developer
  BY <1>1, <1>2, <1>3, MonthSum DEF shares
<1>5. \A i \in 1 .. n : shares[i] \in Int
  BY <1>1, <1>4
<1>6. /\ Duty' /\ due # <<>> /\ Head(due) = "developers"
      /\ minutes' = minutes /\ between' = between
      /\ ~ (due' # <<>> /\ Head(due') = "developers")
  BY DutyDone DEF DistributeToDevelopers, IInv
<1>7. Empty("developer")
  BY DEF DistributeToDevelopers
<1>8. Registered(developers, developer') /\ Deposited(developer') = Deposited(developer)
  <2>1. DOMAIN developer' = DOMAIN developer
    BY DEF DistributeToDevelopers, ClearConsumption
  <2>2. ASSUME NEW d \in DOMAIN developer
        PROVE  developer'[d] \in Developer /\ developer'[d].deposit = developer[d].deposit
    <3>1. developer[d] \in Developer
      BY DEF IInv, Registered
    <3>2. developer'[d] = [developer[d] EXCEPT !.consumption = 0]
      BY DEF DistributeToDevelopers, ClearConsumption
    <3>3. QED BY <3>1, <3>2 DEF Developer
  <2>3. QED BY <2>1, <2>2, SameDevelopers DEF IInv
<1>9. /\ savings' \in [Users -> Int]
      /\ developers # <<>> => Owned' + Pools' = Owned + Pools
      /\ developers = <<>> => Owned' = Owned
  <2>1. leaving' = leaving /\ savings' = Pay(developers, shares)
    BY DEF DistributeToDevelopers, shares
  <2>2. QED BY <1>1, <1>4, <1>5, <1>7, <1>8, <2>1, PaidOut DEF n
<1>10. Kept
  <2>1. Created = 0
    BY <1>6 DEF Created
  <2>2. developers = <<>> => NobodyToPay
    BY <1>6 DEF NobodyToPay
  <2>3. Owned \in Int /\ Pools \in Int
    BY OwnedParts
  <2>4. QED BY <1>9, <2>1, <2>2, <2>3 DEF Kept
<1>11. pool.validator = 0 /\ pool.infra = 0
  BY <1>6 DEF IInv, PoolsDue
<1>12. SupplyCovers' /\ PoolsDue'
  BY <1>6, <1>7, <1>11 DEF Empty, IInv, SupplyCovers, PoolsDue
<1>13. Inv' /\ Amounted' /\ Registered(developers, developer)'
  BY <1>6, <1>8, <1>9 DEF DistributeToDevelopers, IInv, Inv, Amounted
<1>14. QED BY <1>6, <1>10, <1>12, <1>13 DEF IInv

LEMMA GrowthStep ==
  ASSUME IInv, SetTotalLinoAndRecalculateGrowthRate
  PROVE  IInv' /\ Kept
PROOF
<1>1. /\ Duty' /\ due # <<>> /\ Head(due) = "growth"
      /\ minutes' = minutes /\ between' = between
      /\ ~ (due' # <<>> /\ Head(due') = "developers")
  BY DutyDone DEF SetTotalLinoAndRecalculateGrowthRate, IInv
<1>2. Inv'
  BY GrowthInv DEF IInv
<1>3. /\ pool' = pool /\ savings' = savings /\ leaving' = leaving /\ usage' = usage
      /\ developer' = developer /\ developers' = developers
      /\ supply' = [supply EXCEPT !.lastYear = supply.total]
  BY DEF SetTotalLinoAndRecalculateGrowthRate
<1>4. PoolsDue' /\ SupplyCovers'
  BY <1>1, <1>3 DEF IInv, PoolsDue, SupplyCovers
<1>5. Amounted' /\ Registered(developers, developer)'
  BY <1>1, <1>3 DEF IInv, Amounted
<1>6. Owned' = Owned /\ Pools' = Pools /\ Created = 0
  BY <1>1, <1>3 DEF Owned, Pools, Created
<1>7. Owned \in Int /\ Pools \in Int
  BY OwnedParts
<1>8. QED BY <1>1, <1>2, <1>4, <1>5, <1>6, <1>7 DEF IInv, Kept

LEMMA TickStep ==
  ASSUME IInv, IncreaseMinute
  PROVE  IInv' /\ Kept
PROOF
<1>1. due = <<>> /\ minutes' \in Nat /\ due' = Duties(minutes') /\ between' = between
      /\ UNCHANGED books
  BY DEF IncreaseMinute, IInv, Amounted
<1>2. /\ due' \in Seq(DutyNames) /\ Agenda(due')
      /\ (due' # <<>> => due'[1] # "developers")
  <2>1. Orderly(Duties(minutes'))
    BY DutiesInOrder
  <2>2. QED BY <1>1, <2>1 DEF Orderly
<1>3. due' # <<>> => Head(due') # "developers"
  BY <1>2
<1>4. Inv' /\ Amounted' /\ SupplyCovers' /\ Registered(developers, developer)'
  BY <1>1 DEF IInv, Inv, Amounted, SupplyCovers, books
<1>5. PoolsDue'
  BY <1>1, <1>3 DEF IInv, PoolsDue, books
<1>6. Owned' = Owned /\ Pools' = Pools /\ Created = 0
  BY <1>1 DEF Owned, Pools, Created, books
<1>7. Owned \in Int /\ Pools \in Int
  BY OwnedParts
<1>8. QED BY <1>2, <1>4, <1>5, <1>6, <1>7 DEF IInv, Kept, Duty
------------------------------------------------------------------------------
(****************************************************************************)
(* Between two minutes no duty is left, and so no pool but the developers'  *)
(* and the content creators' holds what the supply has not counted.         *)
(****************************************************************************)
(* What is left to show of a step that no duty waits for.                   *)
LEMMA IdleStep ==
  ASSUME IInv, Idle, Inv', Amounted', SupplyCovers', Registered(developers', developer'),
         pool.validator = 0 => pool'.validator = 0, Owned' + Pools' = Owned + Pools
  PROVE  IInv' /\ Kept
PROOF
<1>1. due = <<>> /\ due' = <<>>
  BY DEF Idle
<1>2. Duty' /\ PoolsDue'
  BY <1>1 DEF IInv, Duty, PoolsDue
<1>3. Created = 0
  BY <1>1 DEF Created
<1>4. Owned \in Int /\ Pools \in Int
  BY OwnedParts
<1>5. QED BY <1>2, <1>3, <1>4 DEF IInv, Kept

LEMMA IdleCounts ==
  ASSUME IInv, Idle
  PROVE  minutes' \in Nat /\ between' \in Nat
PROOF BY DEF IInv, Amounted, Idle

(* Steps that move no coin.                                                 *)
LEMMA QuietStep ==
  ASSUME IInv, Idle, Inv', usage' \in [Providing -> Nat],
         UNCHANGED <<pool, supply, developers, developer, savings, leaving>>
  PROVE  IInv' /\ Kept
PROOF
<1>1. Amounted'
  BY IdleCounts DEF IInv, Amounted
<1>2. SupplyCovers'
  BY DEF IInv, SupplyCovers
<1>3. Registered(developers', developer')
  BY DEF IInv
<1>4. pool'.validator = pool.validator /\ Owned' + Pools' = Owned + Pools
  BY DEF Owned, Pools
<1>5. QED BY <1>1, <1>2, <1>3, <1>4, IdleStep

LEMMA RewardStep ==
  ASSUME IInv, NEW author \in Users, NEW app \in Users, NEW coin \in Amounts,
         Reward(author, app, coin)
  PROVE  IInv' /\ Kept
PROOF
<1>1. coin \in Nat /\ IsFiniteSet(Users)
  BY InflationAssumption
<1>2. /\ Idle /\ coin <= pool.content
      /\ pool' = [pool EXCEPT !.content = @ - coin]
      /\ supply' = [supply EXCEPT !.total = @ + coin]
      /\ savings' = [savings EXCEPT ![author] = @ + coin]
      /\ ReportConsumption(app, coin)
      /\ UNCHANGED <<allocation, spent, usage, developers, leaving>>
  BY DEF Reward
<1>3. Inv'
  BY <1>2 DEF IInv, Inv
<1>4. savings \in [Users -> Int] /\ savings' \in [Users -> Int]
  BY <1>1, <1>2 DEF IInv, Amounted
<1>5. Amounted'
  BY <1>2, <1>4, IdleCounts DEF IInv, Amounted
<1>6. SupplyCovers' /\ pool'.validator = pool.validator /\ Pools' = Pools - coin
  BY <1>1, <1>2 DEF IInv, SupplyCovers, Pools
<1>7. Registered(developers, developer') /\ Deposited(developer') = Deposited(developer)
  <2>1. DOMAIN developer' = DOMAIN developer
    BY <1>2 DEF ReportConsumption
  <2>2. ASSUME NEW d \in DOMAIN developer
        PROVE  developer'[d] \in Developer /\ developer'[d].deposit = developer[d].deposit
    <3>1. developer[d] \in Developer
      BY DEF IInv, Registered
    <3>2. developer'[d] = IF d = app THEN [developer[d] EXCEPT !.consumption = @ + coin]
                          ELSE developer[d]
      BY <1>2 DEF ReportConsumption
    <3>3. QED BY <1>1, <3>1, <3>2 DEF Developer
  <2>3. QED BY <2>1, <2>2, SameDevelopers DEF IInv
<1>8. SumFunction(savings') = SumFunction(savings) + coin
  <2>1. savings[author] \in Int
    BY <1>4
  <2>2. PICK v \in Int : v = savings[author] + coin
    BY <1>1, <2>1
  <2>3. savings' = [savings EXCEPT ![author] = v]
    BY <1>2, <2>2
  <2>4. SumFunction(savings') = SumFunction(savings) + (v - savings[author])
    <3>1. SumFunction([savings EXCEPT ![author] = v]) = SumFunction(savings) + (v - savings[author])
      BY <1>1, <1>4, SumUpdate
    <3>2. QED BY <2>3, <3>1
  <2>5. SumFunction(savings) \in Int
    BY <1>1, <1>4, SumTotal
  <2>6. QED BY <1>1, <2>1, <2>2, <2>4, <2>5
<1>9. /\ OwnedIs /\ Owned \in Int /\ Pools \in Int
      /\ SumFunction(savings) \in Int /\ Deposited(developer) \in Int /\ leaving \in Int
  BY OwnedParts
<1>10. Owned' = SumFunction(savings') + leaving + Deposited(developer')
  BY <1>2 DEF Owned, Deposited
<1>11. Owned' = Owned + coin
  BY <1>1, <1>7, <1>8, <1>9, <1>10 DEF OwnedIs
<1>12. Owned' + Pools' = Owned + Pools
  BY <1>1, <1>6, <1>9, <1>11
<1>13. QED BY <1>2, <1>3, <1>5, <1>6, <1>7, <1>12, IdleStep

LEMMA FeeStep ==
  ASSUME IInv, NEW referrer \in Users, PayRegisterFee(referrer)
  PROVE  IInv' /\ Kept
PROOF
<1>1. Fee \in Nat /\ IsFiniteSet(Users)
  BY InflationAssumption
<1>2. /\ Idle
      /\ savings' = [savings EXCEPT ![referrer] = @ - Fee]
      /\ pool' = [pool EXCEPT !.developer = @ + Fee]
      /\ UNCHANGED <<allocation, supply, spent, usage, developers, developer, leaving>>
  BY DEF PayRegisterFee
<1>3. Inv'
  BY <1>2 DEF IInv, Inv
<1>4. savings \in [Users -> Int] /\ savings' \in [Users -> Int]
  BY <1>1, <1>2 DEF IInv, Amounted
<1>5. Amounted'
  BY <1>2, <1>4, IdleCounts DEF IInv, Amounted
<1>6. SupplyCovers' /\ pool'.validator = pool.validator /\ Pools' = Pools + Fee
  BY <1>1, <1>2 DEF IInv, SupplyCovers, Pools
<1>7. Registered(developers', developer') /\ Deposited(developer') = Deposited(developer)
  BY <1>2 DEF IInv
<1>8. SumFunction(savings') = SumFunction(savings) - Fee
  <2>1. savings[referrer] \in Int
    BY <1>4
  <2>2. PICK v \in Int : v = savings[referrer] - Fee
    BY <1>1, <2>1
  <2>3. savings' = [savings EXCEPT ![referrer] = v]
    BY <1>2, <2>2
  <2>4. SumFunction(savings') = SumFunction(savings) + (v - savings[referrer])
    <3>1. SumFunction([savings EXCEPT ![referrer] = v]) = SumFunction(savings) + (v - savings[referrer])
      BY <1>1, <1>4, SumUpdate
    <3>2. QED BY <2>3, <3>1
  <2>5. SumFunction(savings) \in Int
    BY <1>1, <1>4, SumTotal
  <2>6. QED BY <1>1, <2>1, <2>2, <2>4, <2>5
<1>9. /\ OwnedIs /\ Owned \in Int /\ Pools \in Int
      /\ SumFunction(savings) \in Int /\ Deposited(developer) \in Int /\ leaving \in Int
  BY OwnedParts
<1>10. Owned' = SumFunction(savings') + leaving + Deposited(developer')
  BY <1>2 DEF Owned, Deposited
<1>11. Owned' = Owned - Fee
  BY <1>1, <1>7, <1>8, <1>9, <1>10 DEF OwnedIs
<1>12. Owned' + Pools' = Owned + Pools
  BY <1>1, <1>6, <1>9, <1>11
<1>13. QED BY <1>2, <1>3, <1>5, <1>6, <1>7, <1>12, IdleStep

LEMMA RegisterStep ==
  ASSUME IInv, NEW user \in Users, RegisterDeveloper(user)
  PROVE  IInv' /\ Kept
PROOF
<1> DEFINE dev == [deposit |-> MinDeposit, consumption |-> 0]
<1>1. MinDeposit \in Nat /\ IsFiniteSet(Users) /\ dev \in Developer /\ dev.deposit = MinDeposit
  BY InflationAssumption DEF Developer
<1>2. /\ Idle /\ user \notin DOMAIN developer
      /\ savings' = [savings EXCEPT ![user] = @ - MinDeposit]
      /\ developer' = [d \in DOMAIN developer \cup {user} |->
                         IF d = user THEN dev ELSE developer[d]]
      /\ developers' = Append(developers, user)
      /\ UNCHANGED <<allocation, pool, supply, spent, usage, leaving>>
  BY DEF RegisterDeveloper, AddToDeveloperList
<1> HIDE DEF dev
<1>3. Inv'
  BY <1>2 DEF IInv, Inv
<1>4. savings \in [Users -> Int] /\ savings' \in [Users -> Int]
  BY <1>1, <1>2 DEF IInv, Amounted
<1>5. Amounted'
  BY <1>2, <1>4, IdleCounts DEF IInv, Amounted
<1>6. SupplyCovers' /\ pool'.validator = pool.validator /\ Pools' = Pools
  BY <1>2 DEF IInv, SupplyCovers, Pools
<1>7. Registered(developers', developer')
      /\ Deposited(developer') = Deposited(developer) + MinDeposit
  <2>1. /\ DOMAIN developer' = DOMAIN developer \cup {user}
        /\ \A d \in DOMAIN developer' : developer'[d] = IF d = user THEN dev ELSE developer[d]
    BY <1>2
  <2>2. Registered(developers, developer)
    BY DEF IInv
  <2>3. /\ Registered(Append(developers, user), developer')
        /\ Deposited(developer') = Deposited(developer) + dev.deposit
    <3>1. PICK g : g = developer'
      OBVIOUS
    <3>2. /\ DOMAIN g = DOMAIN developer \cup {user}
          /\ \A d \in DOMAIN g : g[d] = IF d = user THEN dev ELSE developer[d]
      BY <2>1, <3>1
    <3>3. user \notin DOMAIN developer
      BY <1>2
    <3>4. /\ Registered(Append(developers, user), g)
          /\ Deposited(g) = Deposited(developer) + dev.deposit
      BY <1>1, <2>2, <3>2, <3>3, OneMore
    <3>5. QED BY <3>1, <3>4
  <2>4. QED BY <1>1, <1>2, <2>3
<1>8. SumFunction(savings') = SumFunction(savings) - MinDeposit
  <2>1. savings[user] \in Int
    BY <1>4
  <2>2. PICK v \in Int : v = savings[user] - MinDeposit
    BY <1>1, <2>1
  <2>3. savings' = [savings EXCEPT ![user] = v]
    BY <1>2, <2>2
  <2>4. SumFunction(savings') = SumFunction(savings) + (v - savings[user])
    <3>1. SumFunction([savings EXCEPT ![user] = v]) = SumFunction(savings) + (v - savings[user])
      BY <1>1, <1>4, SumUpdate
    <3>2. QED BY <2>3, <3>1
  <2>5. SumFunction(savings) \in Int
    BY <1>1, <1>4, SumTotal
  <2>6. QED BY <1>1, <2>1, <2>2, <2>4, <2>5
<1>9. /\ OwnedIs /\ Owned \in Int /\ Pools \in Int
      /\ SumFunction(savings) \in Int /\ Deposited(developer) \in Int /\ leaving \in Int
  BY OwnedParts
<1>10. Owned' = SumFunction(savings') + leaving + Deposited(developer')
  BY <1>2 DEF Owned, Deposited
<1>11. Owned' = Owned
  BY <1>1, <1>7, <1>8, <1>9, <1>10 DEF OwnedIs
<1>12. Owned' + Pools' = Owned + Pools
  BY <1>6, <1>9, <1>11
<1>13. QED BY <1>2, <1>3, <1>5, <1>6, <1>7, <1>12, IdleStep

LEMMA RevokeStep ==
  ASSUME IInv, NEW user \in Users, RevokeDeveloper(user)
  PROVE  IInv' /\ Kept
PROOF
<1>1. /\ Idle /\ user \in DOMAIN developer
      /\ RemoveFromDeveloperList(user)
      /\ leaving' = leaving + developer[user].deposit
      /\ developer' = [d \in DOMAIN developer \ {user} |-> developer[d]]
      /\ UNCHANGED <<allocation, pool, supply, spent, usage, savings>>
  BY DEF RevokeDeveloper, WithdrawAll
<1>2. DOMAIN developers = 1 .. Len(developers) /\ Registered(developers, developer)
  BY DEF IInv, Registered, Lists
<1>3. user \in Range(developers)
  BY <1>1, <1>2 DEF Registered, Range
<1>4. PICK k \in 1 .. Len(developers) :
        /\ developers[k] = user
        /\ developers' = [j \in 1 .. Len(developers) - 1 |->
                            developers[IF j < k THEN j ELSE j + 1]]
  BY <1>1, <1>2, <1>3 DEF RemoveFromDeveloperList
<1>5. /\ DOMAIN developer' = DOMAIN developer \ {developers[k]}
      /\ \A d \in DOMAIN developer' : developer'[d] = developer[d]
  BY <1>1, <1>4
<1>6. /\ Registered(developers', developer')
      /\ Deposited(developer) = Deposited(developer') + developer[user].deposit
      /\ developer[user].deposit \in Nat /\ Deposited(developer') \in Int
  <2>1. PICK g : g = developer'
    OBVIOUS
  <2>2. PICK new : new = developers'
    OBVIOUS
  <2>3. /\ DOMAIN g = DOMAIN developer \ {developers[k]}
        /\ \A d \in DOMAIN g : g[d] = developer[d]
    BY <1>5, <2>1
  <2>4. new = [j \in 1 .. Len(developers) - 1 |-> developers[IF j < k THEN j ELSE j + 1]]
    BY <1>4, <2>2
  <2>5. Registered(developers, developer)
    BY <1>2
  <2>6. Leaves(developers, developer, k, new, g)
    BY <2>3, <2>4 DEF Leaves
  <2>7. /\ Registered(new, g)
        /\ Deposited(developer) = Deposited(g) + developer[developers[k]].deposit
        /\ developer[developers[k]].deposit \in Nat /\ Deposited(g) \in Int
    BY <2>5, <2>6, OneLess
  <2>8. QED BY <1>4, <2>1, <2>2, <2>7
<1>7. Inv'
  BY <1>1 DEF IInv, Inv
<1>8. Amounted'
  <2>1. leaving \in Nat /\ leaving' = leaving + developer[user].deposit
    BY <1>1 DEF IInv, Amounted
  <2>2. leaving' \in Nat
    <3>1. PICK coin \in Nat : coin = developer[user].deposit
      BY <1>6
    <3>2. leaving' = leaving + coin
      BY <2>1, <3>1
    <3>3. QED BY <2>1, <3>2
  <2>3. QED BY <1>1, <2>2, IdleCounts DEF IInv, Amounted
<1>9. SupplyCovers' /\ pool'.validator = pool.validator /\ Pools' = Pools
  BY <1>1 DEF IInv, SupplyCovers, Pools
<1>10. /\ OwnedIs /\ Owned \in Int /\ Pools \in Int
       /\ SumFunction(savings) \in Int /\ Deposited(developer) \in Int /\ leaving \in Int
  BY OwnedParts
<1>11. Owned' = SumFunction(savings) + leaving' + Deposited(developer')
  BY <1>1 DEF Owned, Deposited
<1>12. Owned' = Owned
  <2>1. PICK coin \in Nat : coin = developer[user].deposit
    BY <1>6
  <2>2. leaving' = leaving + coin /\ Deposited(developer) = Deposited(developer') + coin
    BY <1>1, <1>6, <2>1
  <2>3. PICK rest \in Int : rest = Deposited(developer')
    BY <1>6
  <2>4. Owned' = SumFunction(savings) + (leaving + coin) + rest
    BY <1>11, <2>2, <2>3
  <2>5. Owned = SumFunction(savings) + leaving + (rest + coin)
    BY <1>10, <2>2, <2>3 DEF OwnedIs
  <2>6. QED BY <1>10, <2>4, <2>5
<1>13. Owned' + Pools' = Owned + Pools
  BY <1>9, <1>10, <1>12
<1>14. QED BY <1>1, <1>6, <1>7, <1>8, <1>9, <1>13, IdleStep
------------------------------------------------------------------------------
LEMMA CoinsBegin ==
  Init => IInv
PROOF
<1> SUFFICES ASSUME Init PROVE IInv
  OBVIOUS
<1>1. Inv
  BY InitInv
<1>2. Funds * Cardinality(Users) \in Nat
  <2>1. Cardinality(Users) \in Nat /\ Funds \in Nat
    BY InflationAssumption, FS_CardinalityType
  <2>2. \A a, b \in Nat : a * b \in Nat
    BY SMT
  <2>3. QED BY <2>1, <2>2
<1>3. Amounted
  BY InflationAssumption DEF Init, Amounted
<1>4. Duty /\ PoolsDue
  BY DEF Init, Duty, Agenda, PoolsDue
<1>5. SupplyCovers
  <2> DEFINE coins == Funds * Cardinality(Users)
  <2>1. coins \in Nat /\ supply = [total |-> coins, lastYear |-> coins]
        /\ pool = [p \in {"content", "validator", "infra", "developer"} |-> 0]
    BY <1>2 DEF Init
  <2> HIDE DEF coins
  <2>2. QED BY <2>1 DEF SupplyCovers
<1>6. Registered(developers, developer)
  BY DEF Init, Registered, Lists
<1>7. QED BY <1>1, <1>3, <1>4, <1>5, <1>6 DEF IInv

LEMMA CoinsStep ==
  ASSUME IInv, Next
  PROVE  IInv' /\ Kept
PROOF
<1>1. CASE Minute
  <2>1. CASE IncreaseMinute
    BY <2>1, TickStep
  <2>2. CASE DistributeHourlyInflation
    BY <2>2, HourStep
  <2>3. CASE \E oncall \in Oncalls : DistributeToValidators(oncall)
    BY <2>3, ValidatorsStep
  <2>4. CASE DistributeToProviders
    BY <2>4, ProvidersStep
  <2>5. CASE DistributeToDevelopers
    BY <2>5, DevelopersStep
  <2>6. CASE SetTotalLinoAndRecalculateGrowthRate
    BY <2>6, GrowthStep
  <2>7. QED BY <1>1, <2>1, <2>2, <2>3, <2>4, <2>5, <2>6 DEF Minute
<1>2. CASE Between
  <2>1. Inv'
    BY <1>2, BetweenInv DEF IInv
  <2>2. CASE \E param \in Allocations : ChangeAllocation(param)
    BY <2>1, <2>2, QuietStep DEF ChangeAllocation, IInv, Amounted
  <2>3. CASE \E i \in Providing, amount \in Usages : ReportUsage(i, amount)
    <3>1. PICK i \in Providing, amount \in Usages : ReportUsage(i, amount)
      BY <2>3
    <3>2. usage' \in [Providing -> Nat]
      BY <3>1, InflationAssumption DEF ReportUsage, IInv, Amounted
    <3>3. QED BY <2>1, <3>1, <3>2, QuietStep DEF ReportUsage
  <2>4. CASE \E coin \in Amounts : Donate(coin)
    BY <2>1, <2>4, QuietStep DEF Donate, IInv, Amounted
  <2>5. CASE \E author, app \in Users, coin \in Amounts : Reward(author, app, coin)
    BY <2>5, RewardStep
  <2>6. CASE \E user \in Users :
               PayRegisterFee(user) \/ RegisterDeveloper(user) \/ RevokeDeveloper(user)
    BY <2>6, FeeStep, RegisterStep, RevokeStep
  <2>7. QED BY <1>2, <2>2, <2>3, <2>4, <2>5, <2>6 DEF Between
<1>3. QED BY <1>1, <1>2 DEF Next

(* Duties, pools, supply and lists hold together throughout.                *)
THEOREM CoinsInvariance == Spec => []IInv
PROOF
<1>1. IInv /\ [Next]_vars => IInv'
  <2> SUFFICES ASSUME IInv, [Next]_vars PROVE IInv'
    OBVIOUS
  <2>1. CASE UNCHANGED vars
    <3>1. Inv'
      BY <2>1 DEF IInv, Inv, vars, books
    <3>2. Amounted' /\ Duty' /\ PoolsDue' /\ SupplyCovers'
      BY <2>1 DEF IInv, Amounted, Duty, PoolsDue, SupplyCovers, vars, books
    <3>3. Registered(developers, developer)'
      BY <2>1 DEF IInv, vars, books
    <3>4. QED BY <3>1, <3>2, <3>3 DEF IInv
  <2>2. QED BY <2>1, CoinsStep
<1>2. QED BY CoinsBegin, <1>1, PTL DEF Spec

(* No pool but the developers' is ever below zero, and the list of          *)
(* developers names each Developer once, so that                            *)
(* distributeInflationToDeveloper neither panics nor pays anybody twice.    *)
THEOREM TypeCorrect == Spec => []TypeOK
PROOF
<1>1. IInv => TypeOK
  <2> SUFFICES ASSUME IInv PROVE TypeOK
    OBVIOUS
  <2>1. /\ minutes \in Nat /\ between \in Nat /\ leaving \in Nat
        /\ usage \in [Providing -> Nat] /\ savings \in [Users -> Int]
    BY DEF IInv, Amounted
  <2>2. allocation \in AllocationParam /\ spent \in [thisYear : Nat, lastYear : Nat]
    BY DEF IInv, Inv
  <2>3. due \in Seq({"inflation", "validators", "providers", "developers", "growth"})
    BY DEF IInv, Duty, DutyNames
  <2>4. /\ pool \in [{"content", "validator", "infra", "developer"} -> Int]
        /\ pool.content >= 0 /\ pool.validator >= 0 /\ pool.infra >= 0
        /\ supply \in [total : Int, lastYear : Int]
    BY DEF IInv, SupplyCovers
  <2>5. developers \in Seq(Users) /\ DOMAIN developers = 1 .. Len(developers)
    BY DEF IInv, Registered, Lists
  <2>6. /\ DOMAIN developer \subseteq Users
        /\ \A d \in DOMAIN developer : developer[d] \in Developer
        /\ \A i \in 1 .. Len(developers) : developers[i] \in DOMAIN developer
        /\ \A d \in DOMAIN developer : \E i \in 1 .. Len(developers) : developers[i] = d
        /\ \A i, j \in 1 .. Len(developers) : developers[i] = developers[j] => i = j
    BY DEF IInv, Registered
  <2>7. {developers[i] : i \in DOMAIN developers} = DOMAIN developer
    <3>1. \A i \in DOMAIN developers : developers[i] \in DOMAIN developer
      BY <2>5, <2>6
    <3>2. \A d \in DOMAIN developer : \E i \in DOMAIN developers : d = developers[i]
      BY <2>5, <2>6
    <3>3. QED BY <3>1, <3>2, Zenon
  <2>8. \A i, j \in DOMAIN developers : developers[i] = developers[j] => i = j
    BY <2>5, <2>6
  <2>9. QED BY <2>1, <2>2, <2>3, <2>4, <2>5, <2>6, <2>7, <2>8 DEF TypeOK
<1>2. QED BY <1>1, CoinsInvariance, PTL

(* The hour creates coins and nothing else does: whatever is rounded on the *)
(* way of a coin through DistributeHourlyInflation, the pools and the lists *)
(* it is paid to, it ends with an account, unless nobody is listed.         *)
THEOREM ConservesCoins == Spec => CoinsConserved
PROOF
<1> DEFINE Step == \/ Owned' + Pools' = Owned + Pools + Created
                   \/ NobodyToPay /\ Owned' = Owned
<1>1. IInv /\ [Next]_vars => [Step]_vars
  BY CoinsStep DEF Kept
<1>2. QED BY <1>1, CoinsInvariance, PTL DEF Spec, CoinsConserved
------------------------------------------------------------------------------
(****************************************************************************)
(* FAIR MONTH.  What a month pays is divided by what was reported, for any  *)
(* lists, reports and pools, the developers' pool below zero included.  A   *)
(* share is off by the rounding of the share and by the coins times the     *)
(* rounding of its weight (ShareError).  Since shares add up to the coins   *)
(* and parts to the whole, the errors of all add up to nothing, so that the *)
(* last of the list bears those of the others (LastError).                  *)
(****************************************************************************)
LEMMA Multiplies ==
  ASSUME NEW w \in Nat, NEW a \in Int, NEW b \in Int, a <= b
  PROVE  w * a <= w * b
PROOF BY SMT

(* Half of b in w of them, and x times the half of w.                       *)
LEMMA ErrorBound ==
  ASSUME NEW w \in Nat, NEW p \in Nat, NEW x \in Int, NEW a \in Int, NEW b \in Int,
         a <= w, -a <= w, b <= p, -b <= p
  PROVE  Magnitude(w * b + x * a) <= w * (p + Magnitude(x))
PROOF
<1>1. w * b <= w * p /\ w * (-b) <= w * p
  BY Multiplies
<1>2. x * a <= w * Magnitude(x) /\ -(x * a) <= w * Magnitude(x)
  <2>1. CASE x < 0
    <3>1. -x \in Nat /\ -a \in Int
      BY <2>1
    <3>2. (-x) * a <= (-x) * w /\ (-x) * (-a) <= (-x) * w
      BY <3>1, Multiplies
    <3>3. (-x) * a = -(x * a) /\ (-x) * (-a) = x * a /\ (-x) * w = w * (-x)
      BY SMT
    <3>4. QED BY <2>1, <3>2, <3>3 DEF Magnitude
  <2>2. CASE x >= 0
    <3>1. x \in Nat /\ -a \in Int
      BY <2>2
    <3>2. x * a <= x * w /\ x * (-a) <= x * w
      BY <3>1, Multiplies
    <3>3. x * (-a) = -(x * a) /\ x * w = w * x
      BY SMT
    <3>4. QED BY <2>2, <3>2, <3>3 DEF Magnitude
  <2>3. QED BY <2>1, <2>2
<1>3. w * (-b) = -(w * b) /\ w * (p + Magnitude(x)) = w * p + w * Magnitude(x)
  BY SMT DEF Magnitude
<1>4. w * b \in Int /\ x * a \in Int /\ w * p \in Int /\ w * Magnitude(x) \in Int
  BY SMT DEF Magnitude
<1>5. QED BY <1>1, <1>2, <1>3, <1>4 DEF Magnitude

(* How far a share is from its part of the coins, in half a unit of both.   *)
Error(share, coin, whole, part) ==
  2 * Precision * (share * whole - coin * part)

Slack(whole, coin) == whole * (Precision + Magnitude(coin))

(* A share that is computed from a rounded weight.                          *)
LEMMA ShareError ==
  ASSUME NEW coin \in Int, NEW part \in Nat, NEW whole \in Nat \ {0}
  PROVE  LET share == Round(coin * Round(part * Precision, whole), Precision)
         IN  share \in Int /\ Magnitude(Error(share, coin, whole, part)) <= Slack(whole, coin)
PROOF
<1>1. Precision \in Nat \ {0}
  BY InflationAssumption
<1>2. part * Precision \in Int
  BY <1>1
<1>3. PICK weight \in Int :
        /\ weight = Round(part * Precision, whole)
        /\ 2 * (whole * weight - part * Precision) <= whole
        /\ 2 * (part * Precision - whole * weight) <= whole
  BY <1>2, RoundError
<1>4. coin * weight \in Int
  BY <1>3
<1>5. PICK share \in Int :
        /\ share = Round(coin * weight, Precision)
        /\ 2 * (Precision * share - coin * weight) <= Precision
        /\ 2 * (coin * weight - Precision * share) <= Precision
  BY <1>1, <1>4, RoundError
<1>6. PICK a \in Int, b \in Int :
        /\ a = 2 * (whole * weight - part * Precision)
        /\ b = 2 * (Precision * share - coin * weight)
  BY <1>1
<1>7. a <= whole /\ -a <= whole /\ b <= Precision /\ -b <= Precision
  <2>1. whole * weight \in Int /\ part * Precision \in Int
        /\ Precision * share \in Int /\ coin * weight \in Int
    BY <1>1
  <2>2. QED BY <1>3, <1>5, <1>6, <2>1
<1>8. Error(share, coin, whole, part) = whole * b + coin * a
  <2>1. 2 * Precision * (share * whole - coin * part)
          = whole * (2 * (Precision * share - coin * weight))
              + coin * (2 * (whole * weight - part * Precision))
    BY <1>1, SMT
  <2>2. QED BY <1>6, <2>1 DEF Error
<1>9. Magnitude(Error(share, coin, whole, part)) <= Slack(whole, coin)
  BY <1>1, <1>7, <1>8, ErrorBound DEF Slack
<1>10. QED BY <1>3, <1>5, <1>9

(* The parts of a list are parts of its whole, and the weights are theirs.  *)
LEMMA PartsOfWhole ==
  ASSUME NEW n \in Nat \ {0}, NEW reported \in [1 .. n -> Nat]
  PROVE  /\ WholeOf(reported) \in Nat \ {0}
         /\ \A i \in 1 .. n :
              /\ PartOf(reported, i) \in Nat
              /\ Weight(reported, i) = Round(PartOf(reported, i) * Precision, WholeOf(reported))
         /\ SumFunctionOnSet([i \in 1 .. n |-> PartOf(reported, i)], 1 .. n) = WholeOf(reported)
PROOF
<1> DEFINE parts == [i \in 1 .. n |-> PartOf(reported, i)]
<1>1. IsFiniteSet(1 .. n) /\ Len(reported) = n /\ Precision \in Nat \ {0}
      /\ Cardinality(1 .. n) = n
  BY FS_Interval, InflationAssumption
<1>2. SumFunction(reported) \in Nat
  BY <1>1, SumCounts
<1>3. CASE SumFunction(reported) = 0
  <2>1. \A i \in 1 .. n : PartOf(reported, i) = 1
    BY <1>3 DEF PartOf
  <2>2. WholeOf(reported) = n
    BY <1>1, <1>3 DEF WholeOf
  <2>3. \A i \in 1 .. n : Weight(reported, i) = Round(1 * Precision, n)
    BY <1>1, <1>3 DEF Weight
  <2>4. SumFunctionOnSet(parts, 1 .. n) = n
    <3>1. parts \in [1 .. n -> Int] /\ \A i \in 1 .. n : parts[i] = 1
      BY <2>1
    <3> HIDE DEF parts
    <3>2. SumFunction(parts) = Cardinality(1 .. n) * 1
      BY <1>1, <3>1, SumConstant
    <3>3. QED BY <1>1, <3>1, <3>2, SumTotal
  <2>5. QED BY <2>1, <2>2, <2>3, <2>4
<1>4. CASE SumFunction(reported) # 0
  <2>1. \A i \in 1 .. n : PartOf(reported, i) = reported[i]
    BY <1>4 DEF PartOf
  <2>2. WholeOf(reported) = SumFunction(reported)
    BY <1>4 DEF WholeOf
  <2>3. \A i \in 1 .. n : Weight(reported, i) = Round(reported[i] * Precision, SumFunction(reported))
    BY <1>4 DEF Weight
  <2>4. SumFunctionOnSet(parts, 1 .. n) = SumFunction(reported)
    <3>1. parts = reported
      BY <2>1
    <3> HIDE DEF parts
    <3>2. QED BY <1>1, <3>1, SumTotal
  <2>5. QED BY <1>2, <1>4, <2>1, <2>2, <2>3, <2>4
<1>5. QED BY <1>3, <1>4

(* Errors that add up to nothing: the last is what the others come to.      *)
LEMMA LastError ==
  ASSUME NEW n \in Nat \ {0}, NEW err, NEW c \in Nat,
         \A i \in 1 .. n : err[i] \in Int,
         SumFunctionOnSet(err, 1 .. n) = 0,
         \A i \in 1 .. n - 1 : Magnitude(err[i]) <= c
  PROVE  Magnitude(err[n]) <= (n - 1) * c
PROOF
<1> DEFINE m == n - 1
           S == 1 .. m
           less == [i \in S |-> -err[i]]
<1>1. /\ m \in Nat /\ IsFiniteSet(S) /\ Cardinality(S) = m /\ IsFiniteSet(1 .. n)
      /\ S = (1 .. n) \ {n} /\ n \in 1 .. n
  <2>1. m \in Nat /\ S = (1 .. n) \ {n} /\ n \in 1 .. n
    OBVIOUS
  <2>2. QED BY <2>1, FS_Interval
<1>2. \A i \in S : /\ err[i] \in Int /\ err[i] <= c
                   /\ less[i] \in Int /\ less[i] <= c /\ less[i] = -err[i]
  <2>1. ASSUME NEW i \in S
        PROVE  /\ err[i] \in Int /\ err[i] <= c
               /\ less[i] \in Int /\ less[i] <= c /\ less[i] = -err[i]
    <3>1. err[i] \in Int /\ Magnitude(err[i]) <= c /\ less[i] = -err[i]
      BY <1>1
    <3>2. QED BY <3>1 DEF Magnitude
  <2>2. QED BY <2>1
<1> HIDE DEF m, S, less
<1>3. err[n] + SumFunctionOnSet(err, S) = 0 /\ err[n] \in Int
  <2> DEFINE N == 1 .. n
  <2>1. (\A i \in N : err[i] \in Int) /\ SumFunctionOnSet(err, N) = 0
    OBVIOUS
  <2>2. IsFiniteSet(N) /\ n \in N /\ S = N \ {n}
    BY <1>1
  <2> HIDE DEF N
  <2>3. SumFunctionOnSet(err, N) = err[n] + SumFunctionOnSet(err, N \ {n})
    BY <2>1, <2>2, SumTakes
  <2>4. QED BY <2>1, <2>2, <2>3
<1>4. SumFunctionOnSet(err, S) \in Int
  BY <1>1, <1>2, SumTakes
<1>5. SumFunctionOnSet(err, S) <= Cardinality(S) * c
  <2>1. IsFiniteSet(S) /\ c \in Int /\ \A i \in S : err[i] \in Int /\ err[i] <= c
    BY <1>1, <1>2
  <2>2. QED BY ONLY <2>1, SumBounded
<1>6. SumFunctionOnSet(less, S) <= Cardinality(S) * c
  <2>1. IsFiniteSet(S) /\ c \in Int /\ \A i \in S : less[i] \in Int /\ less[i] <= c
    BY <1>1, <1>2
  <2>2. QED BY ONLY <2>1, SumBounded
<1>7. SumFunctionOnSet(less, S) = -SumFunctionOnSet(err, S)
  <2>1. PICK one \in Int, nil \in Int : one = -1 /\ nil = 0
    OBVIOUS
  <2>2. \A i \in S : err[i] \in Int /\ less[i] = one * err[i] + nil * err[i]
    BY <1>2, <2>1
  <2>3. SumFunctionOnSet(less, S)
          = one * SumFunctionOnSet(err, S) + nil * SumFunctionOnSet(err, S)
    BY <1>1, <2>2, SumLinear
  <2>4. QED BY <1>4, <2>1, <2>3
<1>8. m * c \in Int
  BY <1>1
<1>9. Magnitude(err[n]) <= m * c
  <2>1. PICK s \in Int : s = SumFunctionOnSet(err, S)
    BY <1>4
  <2>2. SumFunctionOnSet(less, S) = -s
    BY <1>7, <2>1
  <2>3. QED BY <1>1, <1>3, <1>5, <1>6, <1>8, <2>1, <2>2 DEF Magnitude
<1>10. QED BY <1>9 DEF m

(* The shares of a month, each within its slack.                            *)
LEMMA MonthErrors ==
  ASSUME NEW n \in Nat \ {0}, NEW reported \in [1 .. n -> Nat], NEW coin \in Int,
         NEW i \in 1 .. n
  PROVE  /\ MonthShares(coin, reported)[i] \in Int
         /\ Magnitude(Error(MonthShares(coin, reported)[i], coin, WholeOf(reported),
                            PartOf(reported, i)))
              <= (IF i < n THEN 1 ELSE n - 1) * Slack(WholeOf(reported), coin)
PROOF
<1> DEFINE shares == MonthShares(coin, reported)
           parts == [k \in 1 .. n |-> PartOf(reported, k)]
           N == 1 .. n
<1>1. /\ IsFiniteSet(N) /\ Precision \in Nat \ {0} /\ Len(reported) = n
  BY FS_Interval, InflationAssumption
<1>2. PICK whole \in Nat \ {0} : whole = WholeOf(reported)
  BY PartsOfWhole
<1>3. /\ \A k \in N : parts[k] \in Nat /\ parts[k] = PartOf(reported, k)
      /\ SumFunctionOnSet(parts, N) = whole
  BY <1>2, PartsOfWhole
<1>4. (\A k \in N : shares[k] \in Int) /\ SumFunctionOnSet(shares, N) = coin
  BY MonthSum
<1>5. \A k \in N : k < n => shares[k] = Round(coin * Round(parts[k] * Precision, whole), Precision)
  <2>1. ASSUME NEW k \in N, k < n
        PROVE  shares[k] = Round(coin * Round(parts[k] * Precision, whole), Precision)
    <3>1. k \in 1 .. n - 1
      BY <2>1
    <3>2. shares[k] = Round(coin * Weight(reported, k), Precision)
      BY <1>1, <2>1, <3>1 DEF MonthShares
    <3>3. Weight(reported, k) = Round(parts[k] * Precision, whole)
      BY <1>2, PartsOfWhole
    <3>4. QED BY <3>2, <3>3
  <2>2. QED BY <2>1
<1> DEFINE err == [k \in N |-> Error(shares[k], coin, whole, parts[k])]
           f == 2 * Precision * whole
           g == -(2 * Precision * coin)
<1>6. f \in Int /\ g \in Int /\ f * coin + g * whole = 0
  BY <1>1, SMT
<1>7. \A k \in N : err[k] = f * shares[k] + g * parts[k] /\ err[k] \in Int
  <2>1. ASSUME NEW x \in Int, NEW y \in Int
        PROVE  /\ Error(x, coin, whole, y) = f * x + g * y
               /\ Error(x, coin, whole, y) \in Int
    BY <1>1, SMT DEF Error
  <2>2. \A k \in N : err[k] = Error(shares[k], coin, whole, parts[k])
    OBVIOUS
  <2> HIDE DEF f, g, shares, parts, err, N
  <2>3. ASSUME NEW k \in N PROVE err[k] = f * shares[k] + g * parts[k] /\ err[k] \in Int
    <3>1. PICK x \in Int, y \in Int : x = shares[k] /\ y = parts[k]
      BY <1>3, <1>4
    <3>2. QED BY <2>1, <2>2, <3>1
  <2>4. QED BY <2>3
<1>8. Slack(whole, coin) \in Nat
  BY <1>1, SMT DEF Slack, Magnitude
<1>9. ASSUME NEW k \in N, k < n PROVE Magnitude(err[k]) <= Slack(whole, coin)
  <2>1. PICK part \in Nat : part = parts[k]
    BY <1>3
  <2>2. Magnitude(Error(Round(coin * Round(part * Precision, whole), Precision), coin, whole, part))
          <= Slack(whole, coin)
    BY ShareError
  <2>3. err[k] = Error(shares[k], coin, whole, part)
    BY <2>1
  <2> HIDE DEF err, shares, parts
  <2>4. QED BY <1>5, <1>9, <2>1, <2>2, <2>3
<1> HIDE DEF shares, parts, f, g, err
<1>10. SumFunctionOnSet(err, N) = 0
  <2> HIDE DEF N
  <2>1. PICK a \in Int, b \in Int : a = f /\ b = g
    BY <1>6
  <2>2. \A k \in N : shares[k] \in Int /\ parts[k] \in Int
                       /\ err[k] = a * shares[k] + b * parts[k]
    BY <1>3, <1>4, <1>7, <2>1
  <2>3. SumFunctionOnSet(err, N)
          = a * SumFunctionOnSet(shares, N) + b * SumFunctionOnSet(parts, N)
    BY ONLY <1>1, <2>2, a \in Int, b \in Int, SumLinear
  <2>4. a * coin + b * whole = 0
    BY <1>6, <2>1
  <2>5. SumFunctionOnSet(shares, N) = coin /\ SumFunctionOnSet(parts, N) = whole
    BY <1>3, <1>4
  <2>6. QED BY ONLY <2>3, <2>4, <2>5, Zenon
<1>11. Magnitude(err[n]) <= (n - 1) * Slack(whole, coin)
  <2>1. PICK c \in Nat : c = Slack(whole, coin)
    BY <1>8
  <2>2. /\ \A k \in 1 .. n : err[k] \in Int
        /\ SumFunctionOnSet(err, 1 .. n) = 0
        /\ \A k \in 1 .. n - 1 : Magnitude(err[k]) <= c
    BY <1>7, <1>9, <1>10, <2>1
  <2>3. Magnitude(err[n]) <= (n - 1) * c
    BY ONLY <2>2, n \in Nat \ {0}, c \in Nat, LastError
  <2>4. QED BY <2>1, <2>3
<1>12. err[i] = Error(shares[i], coin, WholeOf(reported), PartOf(reported, i))
  BY <1>2, <1>3 DEF err
<1>13. shares[i] \in Int
  BY <1>4
<1>14. Magnitude(err[i]) <= (IF i < n THEN 1 ELSE n - 1) * Slack(whole, coin)
  <2>1. CASE i < n
    BY <1>8, <1>9, <2>1
  <2>2. CASE i = n
    BY <1>11, <2>2
  <2>3. QED BY <2>1, <2>2
<1>15. QED BY <1>2, <1>12, <1>13, <1>14 DEF shares

(* A name that is once in a list gets the share of its place.               *)
LEMMA PaidOnce ==
  ASSUME NEW list \in Lists, NEW shares, savings \in [Users -> Int],
         \A k \in 1 .. Len(list) : shares[k] \in Int,
         \A j, k \in 1 .. Len(list) : list[j] = list[k] => j = k,
         NEW i \in 1 .. Len(list)
  PROVE  Pay(list, shares)[list[i]] - savings[list[i]] = shares[i]
PROOF
<1> DEFINE S == 1 .. Len(list)
           part == [k \in DOMAIN list |-> IF list[k] = list[i] THEN shares[k] ELSE 0]
<1>1. DOMAIN list = S /\ IsFiniteSet(S) /\ list[i] \in Users /\ i \in S
  BY FS_Interval DEF Lists
<1>2. /\ part \in [S -> Int] /\ part[i] = shares[i]
      /\ \A k \in S : k # i => part[k] = 0
  BY <1>1
<1>3. Pay(list, shares)[list[i]] = savings[list[i]] + SumFunction(part)
  BY <1>1 DEF Pay
<1> HIDE DEF S, part
<1>4. SumFunction(part) = part[i]
  <2> DEFINE none == [k \in S |-> 0]
  <2>1. none \in [S -> Int] /\ none[i] = 0 /\ \A k \in S : none[k] = 0
    BY <1>1
  <2> HIDE DEF none
  <2>2. SumFunctionOnSet(none, S) = 0
    BY <1>1, <2>1, SumZero
  <2>3. SumFunction(none) = 0
    BY <1>1, <2>1, <2>2, SumTotal
  <2>4. SumFunction(part) = SumFunction(none) + (part[i] - none[i])
    <3>1. \A k \in S : k # i => part[k] = none[k]
      BY <1>2, <2>1
    <3>2. part \in [S -> Int] /\ none \in [S -> Int] /\ IsFiniteSet(S) /\ i \in S
      BY <1>1, <1>2, <2>1
    <3>3. QED BY ONLY <3>1, <3>2, SumChanges
  <2>5. part[i] \in Int
    BY <1>1, <1>2
  <2>6. QED BY <2>1, <2>3, <2>4, <2>5
<1>5. savings[list[i]] \in Int /\ shares[i] \in Int
  BY <1>1 DEF S
<1>6. QED BY <1>2, <1>3, <1>4, <1>5

LEMMA ScaledMagnitude ==
  ASSUME NEW k \in Nat, NEW x \in Int
  PROVE  k * Magnitude(x) = Magnitude(k * x)
PROOF
<1>1. CASE x < 0
  <2>1. k * (-x) = -(k * x) /\ k * x <= 0 /\ k * x \in Int
    BY <1>1, SMT
  <2>2. QED BY <1>1, <2>1 DEF Magnitude
<1>2. CASE x >= 0
  <2>1. k * x >= 0 /\ k * x \in Int
    BY <1>2, SMT
  <2>2. QED BY <1>2, <2>1 DEF Magnitude
<1>3. QED BY <1>1, <1>2

(* The list of a month is paid fairly, unless it is empty.                  *)
LEMMA ListPaidFairly ==
  ASSUME NEW list \in Lists, NEW reported \in [1 .. Len(list) -> Nat], NEW coin \in Int,
         savings \in [Users -> Int], savings' = Pay(list, MonthShares(coin, reported)),
         \A j, k \in 1 .. Len(list) : list[j] = list[k] => j = k
  PROVE  PaidFairly(list, reported, coin)
PROOF
<1>1. Len(list) \in Nat /\ Precision \in Nat \ {0}
  BY InflationAssumption DEF Lists
<1>2. SUFFICES ASSUME NEW i \in 1 .. Len(list)
               PROVE  2 * Precision * Magnitude((savings'[list[i]] - savings[list[i]])
                                                    * WholeOf(reported)
                                                  - coin * PartOf(reported, i))
                        <= (IF i < Len(list) THEN 1 ELSE Len(list) - 1)
                             * (WholeOf(reported) * (Precision + Magnitude(coin)))
  BY DEF PaidFairly
<1>3. PICK n \in Nat \ {0} : n = Len(list)
  BY <1>1, <1>2
<1>4. PICK whole \in Nat, part \in Nat : whole = WholeOf(reported) /\ part = PartOf(reported, i)
  BY <1>2, <1>3, PartsOfWhole
<1>5. \A k \in 1 .. n : MonthShares(coin, reported)[k] \in Int
  BY <1>3, MonthErrors
<1>6. PICK share \in Int : share = MonthShares(coin, reported)[i]
  BY <1>2, <1>3, <1>5
<1>7. savings'[list[i]] - savings[list[i]] = share
  BY <1>2, <1>3, <1>5, <1>6, PaidOnce
<1>8. Magnitude(Error(share, coin, whole, part))
        <= (IF i < n THEN 1 ELSE n - 1) * Slack(whole, coin)
  BY <1>2, <1>3, <1>4, <1>6, MonthErrors
<1>9. Magnitude(Error(share, coin, whole, part))
        = 2 * Precision * Magnitude(share * whole - coin * part)
  <2>1. PICK k \in Nat, x \in Int : k = 2 * Precision /\ x = share * whole - coin * part
    BY <1>1
  <2>2. k * Magnitude(x) = Magnitude(k * x)
    BY ScaledMagnitude
  <2>3. Error(share, coin, whole, part) = k * x
    BY <2>1 DEF Error
  <2>4. QED BY <2>1, <2>2, <2>3
<1>10. QED BY <1>3, <1>4, <1>7, <1>8, <1>9 DEF Slack

LEMMA ProvidersPaidFairly ==
  ASSUME IInv, DistributeToProviders
  PROVE  PaidFairly(Providers, usage, pool.infra) /\ Head(due) = "providers"
PROOF
<1>1. Providers \in Lists /\ DOMAIN Providers = 1 .. Len(Providers)
  BY InflationAssumption DEF Lists
<1>2. \A j, k \in 1 .. Len(Providers) : Providers[j] = Providers[k] => j = k
  BY <1>1, InflationAssumption
<1>3. /\ pool.infra \in Int /\ usage \in [1 .. Len(Providers) -> Nat]
      /\ savings \in [Users -> Int]
  BY DEF IInv, SupplyCovers, Amounted, Providing
<1>4. savings' = Pay(Providers, MonthShares(pool.infra, usage)) /\ Head(due) = "providers"
  BY DEF DistributeToProviders, Doing
<1>5. PaidFairly(Providers, usage, pool.infra)
  <2>1. PICK list \in Lists, coin \in Int : list = Providers /\ coin = pool.infra
    BY <1>1, <1>3
  <2>2. PaidFairly(list, usage, coin)
    BY <1>2, <1>3, <1>4, <2>1, ListPaidFairly
  <2>3. QED BY <2>1, <2>2
<1>6. QED BY <1>4, <1>5

LEMMA DevelopersPaidFairly ==
  ASSUME IInv, DistributeToDevelopers
  PROVE  PaidFairly(developers, Consumption, pool.developer) /\ Head(due) = "developers"
PROOF
<1>1. developers \in Lists /\ DOMAIN developers = 1 .. Len(developers)
  BY DEF IInv, Registered, Lists
<1>2. \A j, k \in 1 .. Len(developers) : developers[j] = developers[k] => j = k
  BY DEF IInv, Registered
<1>3. pool.developer \in Int /\ savings \in [Users -> Int]
  BY DEF IInv, SupplyCovers, Amounted
<1>4. Consumption \in [1 .. Len(developers) -> Nat]
  <2>1. \A i \in 1 .. Len(developers) : developer[developers[i]] \in Developer
    BY DEF IInv, Registered
  <2>2. \A i \in 1 .. Len(developers) : developer[developers[i]].consumption \in Nat
    BY <2>1 DEF Developer
  <2>3. QED BY <1>1, <2>2 DEF Consumption
<1>5. /\ savings' = Pay(developers, MonthShares(pool.developer, Consumption))
      /\ Head(due) = "developers"
  BY DEF DistributeToDevelopers, Doing
<1>6. PaidFairly(developers, Consumption, pool.developer)
  <2>1. PICK list \in Lists, coin \in Int : list = developers /\ coin = pool.developer
    BY <1>1, <1>3
  <2>2. PICK reported \in [1 .. Len(list) -> Nat] : reported = Consumption
    BY <1>4, <2>1
  <2>3. PaidFairly(list, reported, coin)
    BY <1>2, <1>3, <1>5, <2>1, <2>2, ListPaidFairly
  <2>4. QED BY <2>1, <2>2, <2>3
<1>7. QED BY <1>5, <1>6

(* What providers used and developers sold in a month decides what the      *)
(* month pays them (distributeInflationToInfraProvider,                     *)
(* distributeInflationToDeveloper): nobody gets more or less than his part, *)
(* but for the roundings, and the last of a list bears those of all.        *)
THEOREM PaysFairly == Spec => FairMonth
PROOF
<1> DEFINE Fair == /\ due # <<>> /\ Head(due) = "providers" =>
                        PaidFairly(Providers, usage, pool.infra)
                   /\ due # <<>> /\ Head(due) = "developers" =>
                        PaidFairly(developers, Consumption, pool.developer)
<1>1. ASSUME IInv, Next PROVE Fair
  <2>1. CASE DistributeToProviders
    BY <1>1, <2>1, ProvidersPaidFairly
  <2>2. CASE DistributeToDevelopers
    BY <1>1, <2>2, DevelopersPaidFairly
  <2>3. CASE \/ DistributeHourlyInflation
             \/ \E oncall \in Oncalls : DistributeToValidators(oncall)
             \/ SetTotalLinoAndRecalculateGrowthRate
    BY <2>3 DEF DistributeHourlyInflation, DistributeToValidators,
                SetTotalLinoAndRecalculateGrowthRate, Doing
  <2>4. CASE IncreaseMinute \/ Between
    <3>1. due = <<>>
      BY <2>4 DEF IncreaseMinute, Between, ChangeAllocation, ReportUsage, Donate, Reward,
                  PayRegisterFee, RegisterDeveloper, RevokeDeveloper, Idle
    <3>2. QED BY <3>1
  <2>5. QED BY <1>1, <2>1, <2>2, <2>3, <2>4 DEF Next, Minute
<1>2. IInv /\ [Next]_vars => [Fair]_vars
  BY <1>1
<1>3. QED BY <1>2, CoinsInvariance, PTL DEF Spec, FairMonth
==============================================================================
