-------------------------------- MODULE Bank --------------------------------
(****************************************************************************)
(* Savings and coin days: the bank of x/account (manager, handler) and the  *)
(* calls other modules make of it.                                          *)
(*                                                                          *)
(* A coin gives its owner coin day, the weight of his donations and of his  *)
(* capacity, but only after it has stayed Recover seconds on the account:   *)
(* what arrives waits in a queue, one entry for an interval, and charges    *)
(* linearly.  The queue keeps running totals, brought up to date whenever   *)
(* it is touched.  The rational TotalCoinDay is kept as an integer, counted *)
(* in coin seconds: charged = TotalCoinDay * Recover.                       *)
(****************************************************************************)
EXTENDS AccountClock, Coins, Sequences, Functions, FiniteSetsExt

CONSTANTS
  Genesis,          \* coins of the genesis accounts, a function
  GenesisElsewhere, \* coins of stakes, deposits and pools at genesis
  MinimumBalance,   \* AccountParam.MinimumBalance
  RegisterFee,      \* AccountParam.RegisterFee
  FullLimit,        \* AccountParam.FirstDepositFullCoinDayLimit
  Friction,         \* friction of a donation, a function of its amount
  Interval,         \* types.CoinDayRecordIntervalSec
  Recover           \* CoinDayParam.SecondsToRecoverCoinDay

ASSUME BankAssumption ==
  /\ DOMAIN Genesis \subseteq Users /\ Genesis \in [DOMAIN Genesis -> Nat]
  /\ GenesisElsewhere \in Nat
  /\ MinimumBalance \in Nat /\ RegisterFee \in Nat /\ FullLimit \in Nat
  /\ Friction \in [Amounts -> Nat] /\ \A c \in Amounts : Friction[c] <= c
  /\ Interval \in Nat \ {0} /\ Recover \in Nat \ {0}

VARIABLES
  bank,       \* AccountBank and PendingCoinDayQueue of the accounts there are
  unclaimed,  \* Reward.UnclaimReward
  elsewhere   \* coins of stakes, deposits and pools, outside every account

bankVars == <<bank, unclaimed, elsewhere, now>>

Slot(t) == (t \div Interval) * Interval

Pending == [start : Nat, coin : Nat]

Banks == [saving : Nat, coinDay : Nat, queue : Seq(Pending),
          total : Nat, charged : Nat, updated : Nat]

NoBank == [saving |-> 0, coinDay |-> 0, queue |-> <<>>,
           total |-> 0, charged |-> 0, updated |-> 0]

Owners == DOMAIN bank
------------------------------------------------------------------------------
(****************************************************************************)
(* The queue of an account.                                                 *)
(****************************************************************************)
Coins(q) == SumFunction([i \in DOMAIN q |-> q[i].coin])

(* What the coins of q have charged at a time.                              *)
Charge(q, t) == SumFunction([i \in DOMAIN q |-> q[i].coin * (t - q[i].start)])

(* Mutant: an entry that is taken in part is taken as a whole.              *)
KeepOldestWhole(q, coin) ==
  LET From(i) == Coins(SubSeq(q, i, Len(q)))
      m == Max({0} \cup {i \in DOMAIN q : From(i) > coin})
  IN  SubSeq(q, 1, m - 1)

(* The queue without its latest coins, a part of an entry if need be.       *)
KeepOldest(q, coin) ==
  LET From(i) == Coins(SubSeq(q, i, Len(q)))
      m == Max({0} \cup {i \in DOMAIN q : From(i) > coin})
  IN  IF m = 0 THEN <<>>
      ELSE [SubSeq(q, 1, m) EXCEPT ![m].coin = From(m) - coin]

(* The queue without its earliest, most charged coins.                      *)
KeepLatest(q, coin) ==
  LET UpTo(i) == Coins(SubSeq(q, 1, i))
      m == Min({Len(q) + 1} \cup {i \in DOMAIN q : UpTo(i) > coin})
  IN  IF m > Len(q) THEN <<>>
      ELSE [SubSeq(q, m, Len(q)) EXCEPT ![1].coin = UpTo(m) - coin]

(* Mutant: what leaves the queue leaves its coin day behind.                *)
RequeueTotalOnly(a, q) ==
  [a EXCEPT !.queue = q, !.total = @ - (Coins(a.queue) - Coins(q))]


(* Entries that leave the queue take their share of the totals along.       *)
Requeue(a, q) ==
  [a EXCEPT
     !.queue   = q,
     !.total   = @ - (Coins(a.queue) - Coins(q)),
     !.charged = @ - (Charge(a.queue, a.updated) - Charge(q, a.updated))]

(* updateTXFromPendingCoinDayQueue, at time t.                              *)
Update(a, t) ==
  LET at      == Slot(t)
      n       == Max({0} \cup {i \in DOMAIN a.queue :
                        \A j \in 1 .. i : a.queue[j].start + Recover <= at})
      expired == SubSeq(a.queue, 1, n)
      b       == Requeue(a, SubSeq(a.queue, n + 1, Len(a.queue)))
      none    == b.queue = <<>>
  IN  [b EXCEPT
         !.coinDay = @ + Coins(expired),
         !.total   = IF none THEN 0 ELSE @,
         !.charged = IF none THEN 0 ELSE @ + b.total * (at - a.updated),
         !.updated = at]

CoinDay(a) == a.coinDay + Round(a.charged, Recover)

(* A coin that arrives in the interval of the queue's last entry is in the  *)
(* savings, but in no entry: the sum computed for the entry is dropped.     *)
AddSavingCoin(a, coin, t) ==
  LET b == Update(a, t)
      sameInterval == b.queue # <<>> /\ b.queue[Len(b.queue)].start = Slot(t)
  IN  IF coin = 0 THEN a
      ELSE IF sameInterval THEN [b EXCEPT !.saving = @ + coin]
      ELSE [b EXCEPT
              !.saving = @ + coin,
              !.queue  = Append(@, [start |-> Slot(t), coin |-> coin]),
              !.total  = @ + coin]

AddSavingCoinWithFullCoinDay(a, coin) ==
  [a EXCEPT !.saving = @ + coin, !.coinDay = @ + coin]

CanSpend(a, coin) == a.saving - coin >= MinimumBalance

(* Latest coins first.  What the queue cannot give comes of the coin day:   *)
(* all the coins left are then charged.                                     *)
MinusSavingCoin(a, coin, t) ==
  LET b == Update(a, t)
      c == [Requeue(b, KeepOldest(b.queue, coin)) EXCEPT !.saving = @ - coin]
  IN  IF Coins(b.queue) < coin THEN [c EXCEPT !.coinDay = c.saving] ELSE c

(* Mutant: the coin day is not set to zero when the queue must help.        *)
MinusFullKept(a, coin, t) ==
  LET b == Update(a, t)
      enough == b.coinDay >= coin
  IN  [Requeue(b, IF enough THEN b.queue
                  ELSE KeepLatest(b.queue, coin - b.coinDay)) EXCEPT
         !.saving = @ - coin, !.coinDay = IF enough THEN @ - coin ELSE @]

(* Charged coins first.                                                     *)
MinusSavingCoinWithFullCoinDay(a, coin, t) ==
  LET b == Update(a, t)
      fromCoinDay == Min({coin, b.coinDay})
  IN  [Requeue(b, KeepLatest(b.queue, coin - fromCoinDay)) EXCEPT
         !.saving = @ - coin, !.coinDay = @ - fromCoinDay]

(* CreateAccount: the first coins of the deposit are charged at once.       *)
Created(deposit, t) ==
  LET full == Min({deposit, FullLimit})
  IN  AddSavingCoin(AddSavingCoinWithFullCoinDay(NoBank, full),
                    deposit - full, t)
------------------------------------------------------------------------------
(****************************************************************************)
(* Handlers.                                                                *)
(****************************************************************************)
(* Mutant: both accounts are read before either is written.                 *)
TransferRead(sender, receiver, coin) ==
  /\ {sender, receiver} \subseteq Owners
  /\ CanSpend(bank[sender], coin)
  /\ bank' = [bank EXCEPT
       ![sender] = MinusSavingCoin(bank[sender], coin, now),
       ![receiver] = AddSavingCoin(bank[receiver], coin, now)]
  /\ UNCHANGED <<unclaimed, elsewhere, now>>

(* handleTransferMsg: nothing keeps the sender from being the receiver.     *)
Transfer(sender, receiver, coin) ==
  /\ {sender, receiver} \subseteq Owners
  /\ CanSpend(bank[sender], coin)
  /\ bank' = [[bank EXCEPT ![sender] = MinusSavingCoin(@, coin, now)]
                EXCEPT ![receiver] = AddSavingCoin(@, coin, now)]
  /\ UNCHANGED <<unclaimed, elsewhere, now>>

(* handleRegisterMsg: the fee goes to the inflation pool of developers, the *)
(* rest to the new account.                                                 *)
Register(referrer, newUser, coin) ==
  /\ referrer \in Owners /\ newUser \in Users \ Owners
  /\ coin >= RegisterFee /\ CanSpend(bank[referrer], coin)
  /\ bank' = [u \in Owners \cup {newUser} |->
       CASE u = newUser  -> Created(coin - RegisterFee, now)
         [] u = referrer -> MinusSavingCoin(bank[u], coin, now)
         [] OTHER        -> bank[u]]
  /\ unclaimed' = [u \in Owners \cup {newUser} |->
                     IF u = newUser THEN 0 ELSE unclaimed[u]]
  /\ elsewhere' = elsewhere + RegisterFee
  /\ UNCHANGED now

(* handleClaimMsg: claiming nothing is no error.                            *)
ClaimReward(u) ==
  /\ u \in Owners
  /\ bank' = [bank EXCEPT ![u] = AddSavingCoin(@, unclaimed[u], now)]
  /\ unclaimed' = [unclaimed EXCEPT ![u] = 0]
  /\ UNCHANGED <<elsewhere, now>>

(* Coin day a donation of u carries: what he has before, less what he has   *)
(* after it (handleDonateMsg).                                              *)
Donated(a, coin, t) ==
  CoinDay(Update(a, t))
    - CoinDay(Update(MinusSavingCoinWithFullCoinDay(Update(a, t), coin, t), t))

(* handleDonateMsg, for a post that has no source: the author receives what *)
(* friction leaves of the donation.                                         *)
Donate(u, author, coin) ==
  /\ {u, author} \subseteq Owners /\ u # author
  /\ CanSpend(bank[u], coin)
  /\ bank' = [bank EXCEPT
       ![u] = Update(MinusSavingCoinWithFullCoinDay(Update(@, now), coin, now), now),
       ![author] = AddSavingCoin(@, coin - Friction[coin], now)]
  /\ elsewhere' = elsewhere + Friction[coin]
  /\ UNCHANGED <<unclaimed, now>>

(* Stakes, delegations and deposits of validators, developers and proposals.*)
Deposit(u, coin) ==
  /\ u \in Owners /\ CanSpend(bank[u], coin)
  /\ bank' = [bank EXCEPT ![u] = MinusSavingCoin(@, coin, now)]
  /\ elsewhere' = elsewhere + coin
  /\ UNCHANGED <<unclaimed, now>>

(* ReturnCoinEvent, ClaimInterest and the provider's and developer's hourly *)
(* and monthly inflation.                                                   *)
Return(u, coin) ==
  /\ u \in Owners /\ coin <= elsewhere
  /\ bank' = [bank EXCEPT ![u] = AddSavingCoin(@, coin, now)]
  /\ elsewhere' = elsewhere - coin
  /\ UNCHANGED <<unclaimed, now>>

(* AddIncomeAndReward, of a RewardEvent.                                    *)
Reward(u, coin) ==
  /\ u \in Owners /\ coin <= elsewhere
  /\ unclaimed' = [unclaimed EXCEPT ![u] = @ + coin]
  /\ elsewhere' = elsewhere - coin
  /\ UNCHANGED <<bank, now>>

(* GetCoinDay, of CheckUserTPSCapacity: every message its user signs.       *)
ReadCoinDay(u) ==
  /\ u \in Owners
  /\ bank' = [bank EXCEPT ![u] = Update(@, now)]
  /\ UNCHANGED <<unclaimed, elsewhere, now>>

(* The next block, after any time.                                          *)
LaterBlock(t) == Later(t) /\ UNCHANGED <<bank, unclaimed, elsewhere>>

BankInit ==
  /\ bank = [u \in DOMAIN Genesis |-> Created(Genesis[u], 0)]
  /\ unclaimed = [u \in DOMAIN Genesis |-> 0]
  /\ elsewhere = GenesisElsewhere /\ now = 0

Operations ==
  \/ \E u \in Users, coin \in Amounts :
       \/ Deposit(u, coin) \/ Return(u, coin) \/ Reward(u, coin)
       \/ \E v \in Users : \/ Transfer(u, v, coin) \/ Register(u, v, coin)
                           \/ Donate(u, v, coin)
  \/ \E u \in Users : ClaimReward(u) \/ ReadCoinDay(u)

BankNext ==
  \/ Operations
  \/ \E t \in 0 .. MaxTime : LaterBlock(t)

BankSpec == BankInit /\ [][BankNext]_bankVars
------------------------------------------------------------------------------
(****************************************************************************)
(* Properties.                                                              *)
(****************************************************************************)
(* Type invariant: no sum of an account is ever negative, and queues hold   *)
(* what arrived at the start of some interval.                              *)
BankTypeOK ==
  /\ bank \in [Owners -> Banks] /\ DOMAIN Genesis \subseteq Owners
  /\ \A u \in Owners : \A i \in DOMAIN bank[u].queue :
       bank[u].queue[i].start % Interval = 0
  /\ unclaimed \in [Owners -> Nat] /\ elsewhere \in Nat /\ now \in Nat

(* The running totals of a queue, which every operation corrects by its own *)
(* arithmetic (TotalCoin and TotalCoinDay), are those of its entries, the   *)
(* entries are in the order of their intervals, none empty and none that    *)
(* the last update should have taken out.                                   *)
QueueAgrees ==
  \A u \in Owners : LET a == bank[u]  q == a.queue IN
    /\ a.total = Coins(q) /\ a.charged = Charge(q, a.updated)
    /\ \A i \in DOMAIN q :
         /\ q[i].coin > 0 /\ q[i].start <= a.updated
         /\ a.updated < q[i].start + Recover
         /\ \A j \in 1 .. i - 1 : q[j].start < q[i].start

(* Coin day is backed by savings: now and at any later time, no account     *)
(* weighs more than the coins it has, whatever left it before; and what     *)
(* handleDonateMsg finds as the weight of a donation, the difference of two *)
(* rounded coin days, is never below zero nor more than the coins donated.  *)
CoinDayBacked ==
  \A u \in Owners : LET a == bank[u] IN
    /\ a.coinDay + a.total <= a.saving
    /\ \A t \in now .. MaxTime + Recover : CoinDay(Update(a, t)) <= a.saving
    /\ \A coin \in Amounts : CanSpend(a, coin) => Donated(a, coin, now) \in 0 .. coin

(* A coin charges from the day it comes until it goes.  Only a coin that    *)
(* arrives in an interval that has an entry already is lost to the coin     *)
(* day, for its entry is not written (addPendingCoinDayToQueue), although   *)
(* such records are said to be merged (types/const.go); nothing that is     *)
(* taken, expires or is donated later costs the coin day of other coins.    *)
Idle(a) == a.saving - (a.coinDay + a.total)

OnlyMergedIdle ==
  [][\A u \in Owners :
       Idle(bank'[u]) > Idle(bank[u]) =>
         \E i \in DOMAIN bank[u].queue : bank[u].queue[i].start = Slot(now)]_bankVars

(* No step creates or destroys a coin, a transfer to oneself included.      *)
CoinsConserved ==
  SumFunction([u \in Owners |-> bank[u].saving]) + SumFunction(unclaimed)
    + elsewhere = SumFunction(Genesis) + GenesisElsewhere
==============================================================================
