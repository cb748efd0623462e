------------------------------ MODULE Reputation ------------------------------
(****************************************************************************)
(* Reputation: x/reputation (manager, tick) and its internal package        *)
(* (ReputationImpl on the stores of users, posts and rounds).               *)
(*                                                                          *)
(* The code is lazy where Rounds is not: when a round ends nothing happens  *)
(* to its donors.  The keys of the last round a user donated in are settled *)
(* when his reputation is next read, from what the store kept of that       *)
(* round; the posts that may be its result are kept sorted, and cut, as the *)
(* donations come.  Donations (DonateAt) come from x/post with the coin day *)
(* they used, reports (ReportAt) too; stake comes and goes through AddStake *)
(* and MinusStake of x/vote; the round is looked at in every EndBlock.      *)
(****************************************************************************)
EXTENDS Integers, Sequences, FiniteSets, Functions

CONSTANTS
  Users,        \* accounts
  Posts,        \* permlinks
  Donations,    \* user, post and coin day of the donations there may be
  Reports,      \* user and post of the reports and upvotes there may be
  Locks,        \* user and coins of the locks and withdrawals there may be
  InitialScore, \* InitialCustomerScore
  KeyPrice,     \* KeyPriceC
  MaxKeys,      \* MaxNumKeysEachTime
  Guesses,      \* commonValues of numKeysCanBuy
  Window,       \* SampleWindowSize
  Best,         \* BestContentIndexN
  Duration,     \* RoundDuration, in units of time
  Interval,     \* PostParam.ReportOrUpvoteIntervalSec
  MaxStake,     \* bound: stake donated in all rounds
  MaxLocked,    \* bound: coins of a user that are locked
  MaxFree,      \* bound: free score of all users
  MaxTime       \* bound: time of the last block

ASSUME ReputationAssumption ==
  /\ IsFiniteSet(Users) /\ IsFiniteSet(Posts)
  /\ Donations \subseteq Users \X Posts \X Nat
  /\ Reports \subseteq Users \X Posts
  /\ Locks \subseteq Users \X Nat
  /\ InitialScore \in Nat
  /\ KeyPrice \in Nat \ {0, 1, 2} /\ MaxKeys \in Nat
  /\ Guesses \in Seq(1 .. MaxKeys)
  /\ \A i \in 1 .. Len(Guesses) - 1 : Guesses[i] < Guesses[i + 1]
  /\ Window \in Nat \ {0} /\ Best \in Nat \ {0} /\ Duration \in Nat
  /\ Interval \in Nat
  /\ MaxStake \in Nat /\ MaxLocked \in Nat /\ MaxFree \in Nat
  /\ MaxTime \in Nat /\ MaxTime >= Duration

VARIABLES
  user,    \* userMeta
  sumRep,  \* postMeta
  given,   \* userPostMeta
  rounds,  \* roundMeta, roundPostMeta and roundUserPostMeta of every round
  stake,   \* LinoStake, kept by x/vote
  reportedAt, \* LastReportOrUpvoteAt, kept by x/account
  now      \* time of the block

vars == <<user, sumRep, given, rounds, stake, reportedAt, now>>

current == Len(rounds)

UserMeta == [customer : Nat, free : Int, settled : Nat, donatedIn : Nat]
RoundPost == [dp : Nat, stake : Nat, sold : Nat]

NoDonation == [dp |-> 0, stake |-> 0, sold |-> 0]
NewUser == [customer |-> InitialScore, free |-> 0,
            settled |-> 0, donatedIn |-> 0]
NewUserPost == [donated |-> 0, donationRep |-> 0, reportRep |-> 0]
NewRound(t) == [result |-> {}, sumDp |-> 0, startAt |-> t, topN |-> <<>>,
                post |-> [p \in Posts |-> NoDonation],
                has |-> [u \in Users |-> [p \in Posts |-> 0]]]

Least(a, b) == IF a < b THEN a ELSE b
Most(a, b) == IF a > b THEN a ELSE b

-----------------------------------------------------------------------------
(* Reputation of a user: reading it settles his last round, once it ended.  *)

Decay == 100 - 100 \div (3 * Window)

Unsettled(u, r) ==
  SumFunction([p \in rounds[r].result |->
    IF rounds[r].post[p].sold > 0
    THEN (rounds[r].has[u][p] * rounds[r].post[p].stake)
           \div rounds[r].post[p].sold
    ELSE 0])

NewScore(score, unsettled) ==
  Most(Most(((score * (Window - 1)) + unsettled) \div Window,
            (score * Decay) \div 100),
       InitialScore)

(* Mutant: the round stays unsettled and is settled again at the next read. *)
SettledAgain(u) ==
  LET m == user[u]
  IN IF m.settled < m.donatedIn /\ m.donatedIn < current
     THEN [m EXCEPT !.customer = NewScore(@, Unsettled(u, m.donatedIn))]
     ELSE m

Settled(u) ==
  LET m == user[u]
  IN IF m.settled < m.donatedIn /\ m.donatedIn < current
     THEN [m EXCEPT !.customer = NewScore(@, Unsettled(u, m.donatedIn)),
                    !.settled = m.donatedIn]
     ELSE m

-----------------------------------------------------------------------------
(* Keys: a binary search for the greatest n such that the keys 0 .. n cost  *)
(* at most the stake, started from a few common values.                     *)

NumKeysCanBuy(sold, s) ==
  LET price == KeyPrice + sold
      Paid(n) == (n + 1) * (2 * price + n) <= 2 * s
      paid == {i \in DOMAIN Guesses :
                 \A j \in 1 .. i : Paid(Guesses[j])}
      first == Cardinality(paid)
      beg == IF first = 0 THEN 0 ELSE Guesses[first]
      end == IF first < Len(Guesses) THEN Guesses[first + 1] ELSE MaxKeys + 1
      Search[range \in (0 .. MaxKeys) \X (1 .. MaxKeys + 1)] ==
        LET b == range[1]
            e == range[2]
            mid == (b + e) \div 2
        IN IF b + 1 < e
           THEN IF Paid(mid) THEN Search[<<mid, e>>] ELSE Search[<<b, mid>>]
           ELSE b
  IN IF s < price THEN 0 ELSE Search[<<beg, end>>] + 1

-----------------------------------------------------------------------------
(* The best posts of a round (SetRoundPostSumDp).                           *)

(* A stable sort, the greatest donation power first.                        *)
SortedTop(top) ==
  LET Ahead(i) == {j \in DOMAIN top :
                     \/ top[j].dp > top[i].dp
                     \/ top[j].dp = top[i].dp /\ j < i}
  IN [n \in DOMAIN top |->
        top[CHOOSE i \in DOMAIN top : Cardinality(Ahead(i)) = n - 1]]

(* Mutant: a post already in the list is listed once more.                  *)
TopWithTwice(top, p, dp) ==
  LET sorted == SortedTop(Append(top, [post |-> p, dp |-> dp]))
  IN SubSeq(sorted, 1, Least(Best, Len(sorted)))

TopWith(top, p, dp) ==
  LET entry == [post |-> p, dp |-> dp]
      listed == {i \in DOMAIN top : top[i].post = p}
      all == IF listed = {}
             THEN Append(top, entry)
             ELSE [i \in DOMAIN top |-> IF i \in listed THEN entry ELSE top[i]]
      sorted == SortedTop(all)
  IN SubSeq(sorted, 1, Least(Best, Len(sorted)))

-----------------------------------------------------------------------------
StakeDonated ==
  SumFunction([n \in DOMAIN rounds |->
    SumFunction([p \in Posts |-> rounds[n].post[p].stake])])

(* Mutant: keys cost what the first ones cost.                              *)
RoundWithFlatPrice(round, u, p, s, dp) ==
  LET old == round.post[p]
      keys == NumKeysCanBuy(0, s)
  IN [round EXCEPT !.has[u][p] = @ + keys,
                   !.post[p] = [dp |-> old.dp + dp,
                                stake |-> old.stake + s,
                                sold |-> old.sold + keys],
                   !.topN = TopWith(@, p, old.dp + dp),
                   !.sumDp = @ + dp]

RoundWith(round, u, p, s, dp) ==
  LET old == round.post[p]
      keys == NumKeysCanBuy(old.sold, s)
  IN [round EXCEPT !.has[u][p] = @ + keys,
                   !.post[p] = [dp |-> old.dp + dp,
                                stake |-> old.stake + s,
                                sold |-> old.sold + keys],
                   !.topN = TopWith(@, p, old.dp + dp),
                   !.sumDp = @ + dp]

(* Mutant: the user's score is not settled first.                           *)
DonateUnsettled(u, p, s) ==
  LET rep == user[u].customer + user[u].free
      used == given[u][p].donated
      dp == Least(Most(rep - used, 0), s)
  IN /\ StakeDonated + s <= MaxStake
     /\ given' = [given EXCEPT ![u][p].donated = dp + used,
                               ![u][p].donationRep = rep]
     /\ sumRep' = [sumRep EXCEPT ![p] = @ + (rep - given[u][p].donationRep)]
     /\ user' = [user EXCEPT ![u].donatedIn = current]
     /\ rounds' = [rounds EXCEPT ![current] = RoundWith(@, u, p, s, dp)]
     /\ UNCHANGED <<stake, reportedAt, now>>

(* DonateAt: donation power is the stake, as far as the reputation of the   *)
(* user goes over all his donations to the post; keys cost stake.           *)
DonateAt(u, p, s) ==
  LET m == Settled(u)
      rep == m.customer + m.free
      used == given[u][p].donated
      dp == Least(Most(rep - used, 0), s)
  IN /\ StakeDonated + s <= MaxStake
     /\ given' = [given EXCEPT ![u][p].donated = dp + used,
                               ![u][p].donationRep = rep]
     /\ sumRep' = [sumRep EXCEPT ![p] = @ + (rep - given[u][p].donationRep)]
     /\ user' = [user EXCEPT ![u] = [m EXCEPT !.donatedIn = current]]
     /\ rounds' = [rounds EXCEPT ![current] = RoundWith(@, u, p, s, dp)]
     /\ UNCHANGED <<stake, reportedAt, now>>

(* Mutant: every report counts, not the change since the last.              *)
ReportAnew(u, p) ==
  LET m == Settled(u)
      rep == m.customer + m.free
  IN /\ user' = [user EXCEPT ![u] = m]
     /\ sumRep' = [sumRep EXCEPT ![p] = @ - rep]
     /\ given' = [given EXCEPT ![u][p].reportRep = rep]

(* handleReportOrUpvoteMsg: an upvote changes no reputation.                *)
ReportAt(u, p) ==
  LET m == Settled(u)
      rep == m.customer + m.free
  IN /\ user' = [user EXCEPT ![u] = m]
     /\ sumRep' = [sumRep EXCEPT ![p] = @ - (rep - given[u][p].reportRep)]
     /\ given' = [given EXCEPT ![u][p].reportRep = rep]

ReportOrUpvote(u, p) ==
  /\ reportedAt[u] + Interval <= now
  /\ \/ ReportAt(u, p)
     \/ UNCHANGED <<user, sumRep, given>>
  /\ reportedAt' = [reportedAt EXCEPT ![u] = now]
  /\ UNCHANGED <<rounds, stake, now>>

-----------------------------------------------------------------------------
(* Stake: of the two, MinusStake calls OnStakeIn, and nothing OnStakeOut.   *)

FreeScoreOf(amount) == (amount * 15) \div 10000

OnStakeIn(u, amount) ==
  /\ SumFunction([v \in Users |-> user[v].free]) + FreeScoreOf(amount) <= MaxFree
  /\ user' = [user EXCEPT ![u].free = @ + FreeScoreOf(amount)]

AddStake(u, amount) ==
  /\ stake[u] + amount <= MaxLocked
  /\ stake' = [stake EXCEPT ![u] = @ + amount]
  /\ UNCHANGED <<user, sumRep, given, rounds, reportedAt, now>>

MinusStake(u, amount) ==
  /\ amount <= stake[u]
  /\ OnStakeIn(u, amount)
  /\ stake' = [stake EXCEPT ![u] = @ - amount]
  /\ UNCHANGED <<sumRep, given, rounds, reportedAt, now>>

-----------------------------------------------------------------------------
(* The entries Update looks at: up to the first with power of its own that  *)
(* completes four fifths of the round's donation power.                     *)
Considered(r) ==
  LET Power(i) == r.post[r.topN[i].post].dp
      Covered(i) == SumFunction([j \in 1 .. i |-> Power(j)])
      bound == (r.sumDp * 8) \div 10
  IN {i \in DOMAIN r.topN :
        \A j \in 1 .. i - 1 : Power(j) > 0 => Covered(j) < bound}

ResultOf(r) ==
  {p \in {r.topN[i].post : i \in Considered(r)} :
     r.post[p].dp > 0 /\ sumRep[p] > 0}

Update ==
  IF now - rounds[current].startAt >= Duration
  THEN rounds' = Append([rounds EXCEPT ![current].result =
                                      ResultOf(rounds[current])],
                        NewRound(now))
  ELSE UNCHANGED rounds

(* The end of a block, and the beginning of the next.                       *)
EndBlock(t) ==
  /\ t >= now
  /\ Update
  /\ now' = t
  /\ UNCHANGED <<user, sumRep, given, stake, reportedAt>>

(* Round 1 began at time 0, long before the first block.                    *)
Init ==
  /\ user = [u \in Users |-> NewUser]
  /\ sumRep = [p \in Posts |-> 0]
  /\ given = [u \in Users |-> [p \in Posts |-> NewUserPost]]
  /\ rounds = <<NewRound(0)>>
  /\ stake = [u \in Users |-> 0]
  /\ reportedAt = [u \in Users |-> 0]
  /\ now = Duration

Next ==
  \/ \E d \in Donations : DonateAt(d[1], d[2], d[3])
  \/ \E r \in Reports : ReportOrUpvote(r[1], r[2])
  \/ \E l \in Locks : AddStake(l[1], l[2]) \/ MinusStake(l[1], l[2])
  \/ \E t \in 0 .. MaxTime : EndBlock(t)

Spec == Init /\ [][Next]_vars

-----------------------------------------------------------------------------
(* Types: the customer score never falls below the initial score, a user    *)
(* has settled no later round than the last he donated in, every round but  *)
(* the current one has its result, and the entries of topN repeat the       *)
(* donation power of their posts, in order, each post once, at most Best.   *)
TopOK(r) ==
  /\ Len(r.topN) <= Best
  /\ \A i \in DOMAIN r.topN :
       /\ r.topN[i].post \in Posts
       /\ r.topN[i].dp = r.post[r.topN[i].post].dp
       /\ \A j \in 1 .. i - 1 : /\ r.topN[j].dp >= r.topN[i].dp
                                /\ r.topN[j].post # r.topN[i].post

TypeOK ==
  /\ user \in [Users -> UserMeta]
  /\ sumRep \in [Posts -> Int]
  /\ given \in [Users -> [Posts ->
        [donated : Nat, donationRep : Nat, reportRep : Nat]]]
  /\ stake \in [Users -> Nat]
  /\ reportedAt \in [Users -> 0 .. now]
  /\ now \in Nat /\ current >= 1
  /\ \A u \in Users : /\ user[u].customer >= InitialScore
                      /\ user[u].settled <= user[u].donatedIn
                      /\ user[u].donatedIn <= current
  /\ \A n \in DOMAIN rounds :
       LET r == rounds[n]
       IN /\ r.post \in [Posts -> RoundPost]
          /\ r.has \in [Users -> [Posts -> Nat]]
          /\ r.sumDp = SumFunction([p \in Posts |-> r.post[p].dp])
          /\ r.result \subseteq Posts /\ n = current => r.result = {}
          /\ r.startAt <= now
          /\ TopOK(r)

(* The contract that settling rests on (GetUserLastDonationRound): keys that *)
(* are not settled yet are all of one round, the last the user donated in.  *)
UnsettledInLastRound ==
  \A u \in Users, p \in Posts : \A n \in DOMAIN rounds :
    rounds[n].has[u][p] # 0 /\ n > user[u].settled => n = user[u].donatedIn

(* The keys of a post are the users' keys, and all of them were paid for:   *)
(* at prices that rise by one with every key they cost no more than the     *)
(* stake the post drew (buyKey, numKeysCanBuy).  So what a result's keys    *)
(* are settled for is never more than its stake.                            *)
KeysAgree ==
  \A n \in DOMAIN rounds, p \in Posts :
    LET r == rounds[n]
        sold == r.post[p].sold
    IN /\ sold = SumFunction([u \in Users |-> r.has[u][p]])
       /\ 2 * KeyPrice * sold + sold * (sold - 1) <= 2 * r.post[p].stake

(* A post has the reputation its donors had when they last gave, less the   *)
(* reputation its reporters had when they last reported, however often they *)
(* did and whatever they earned or lost in between (incPostSumRep,          *)
(* ReportAt).                                                               *)
SumRepAgrees ==
  \A p \in Posts :
    sumRep[p] =
      SumFunction([u \in Users |-> given[u][p].donationRep - given[u][p].reportRep])

(* Settling late makes no difference: with every user's score settled in    *)
(* the mapping, the code's steps are those of Rounds, where a round ends    *)
(* for everybody at once and keys are bought and posts ranked by what the   *)
(* comments of the code say of them.                                        *)
Eager ==
  INSTANCE Rounds WITH
    Stakes <- {d[3] : d \in Donations},
    score <- [u \in Users |-> Settled(u).customer],
    free <- [u \in Users |-> user[u].free],
    game <- rounds[current].post,
    keys <- rounds[current].has,
    donors <- {u \in Users : user[u].donatedIn = current}

SettlesEagerly == Eager!RoundsSpec

(* A user has free score for the coins he locked, as the comments of the    *)
(* code say: without locked coins he has none (AddStake, MinusStake).       *)
FreeScoreIsLocked == \A u \in Users : stake[u] = 0 => user[u].free = 0
===============================================================================
