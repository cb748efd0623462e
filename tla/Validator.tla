------------------------------ MODULE Validator ------------------------------
(****************************************************************************)
(* The validator set of the Lino chain: x/validator (manager, handler,      *)
(* tick), the parts of app/app.go that drive it in every block, and what it *)
(* reads of x/vote (the LinoStake of a user, the validator reference list). *)
(*                                                                          *)
(* One block is BeginBlock (update signing info, then the loop of           *)
(* FireIncompetentValidator, then the time events), any number of           *)
(* transactions, EndBlock.  A transaction that fails is rolled back by the  *)
(* application framework, so a failing handler is a stuttering step and     *)
(* only the successful path of a handler is an action.  What BeginBlock     *)
(* wrote before an error stays written.                                     *)
(*                                                                          *)
(* The lists of the store are sets here: their order only decides which of  *)
(* several equal deposits is taken, and the model allows each of them.      *)
(* The loop over a snapshot of the oncall list visits it in any order.      *)
(****************************************************************************)
EXTENDS Integers, FiniteSets, Functions

CONSTANTS
  Users,              \* accounts of the chain
  Keys,               \* validator public keys (with their addresses)
  None,               \* the empty account name
  KeysOf,             \* the keys each user may register
  GenesisValidators,  \* genesis accounts with IsValidator
  Funds,              \* coins every account starts with
  Amounts,            \* amounts named in deposits and withdrawals
  StakeAmounts,       \* amounts named in stake transactions
  MaxCoin,            \* math.MaxInt64
  GenesisParam,       \* [minCommit, listSize] of ValidatorParam at genesis
  ParamSteps,         \* parameter changes that proposals may bring about
  MinVoting,          \* ValidatorMinVotingDeposit
  MinWithdraw,        \* ValidatorMinWithdraw
  MinStakeIn,         \* VoteParam.MinStakeIn
  AbsentLimit,        \* AbsentCommitLimitation
  PenaltyByzantine, PenaltyMissCommit, PenaltyMissVote,
  MaxEvidence         \* bound: pieces of evidence in one block

Params == [minCommit : Nat \ {0}, listSize : Nat \ {0}]

(* The genesis validators register different keys, each one of its own.     *)
GenesisKeys == {f \in [GenesisValidators -> Keys] :
                  /\ \A u \in GenesisValidators : f[u] \in KeysOf[u]
                  /\ \A u, v \in GenesisValidators : f[u] = f[v] => u = v}

ASSUME ValidatorAssumption ==
  /\ IsFiniteSet(Users) /\ None \notin Users
  /\ KeysOf \in [Users -> SUBSET Keys]
  /\ GenesisValidators \subseteq Users /\ GenesisKeys # {}
  /\ Funds \in Nat /\ Amounts \subseteq Nat \ {0}
  /\ StakeAmounts \subseteq Nat \ {0}
  /\ GenesisParam \in Params /\ ParamSteps \subseteq Params \X Params
  /\ MinVoting \in Nat /\ MinWithdraw \in Nat /\ MinStakeIn \in Nat
  /\ GenesisParam.minCommit + MinVoting <= Funds
  /\ AbsentLimit \in Nat /\ MaxEvidence \in Nat
  /\ PenaltyByzantine \in Nat \ {0}
  /\ PenaltyMissCommit \in Nat \ {0} /\ PenaltyMissVote \in Nat \ {0}
  /\ MaxCoin \in Nat /\ Funds < MaxCoin

VARIABLES
  param,     \* the ValidatorParam in force
  recorded,  \* users with a record in the validator substore
  deposit,   \* Deposit of a record (0 without one)
  absent,    \* AbsentCommit of a record
  key,       \* ABCIValidator.PubKey of a record
  lst,       \* ValidatorList
  stake,     \* LinoStake of the vote module
  refList,   \* ReferenceList.AllValidators of the vote module
  wallet,    \* coins outside the two modules: savings, and frozen money that
             \* coin return events bring back (the model lets it be spent at once)
  pool,      \* coins that entered the validator inflation pool as penalties
  phase,     \* what the application is doing
  toFire,    \* rest of the list a punishing loop runs over
  current,   \* validator the loop has punished as byzantine, None if none
  evidence,  \* keys in req.ByzantineValidators
  penalty,   \* totalPenalty of the running loop
  tmSet      \* keys with positive power in Tendermint's validator set

records == <<recorded, deposit, absent, key>>
loop == <<toFire, current, evidence, penalty>>
vars    == <<param, records, lst, stake, refList, wallet, pool, phase, loop, tmSet>>

Phases == {"commit", "fire", "events", "vote", "tx", "halted"}

Lists == [oncall : SUBSET Users, all : SUBSET Users, preBlock : SUBSET Users,
          lowestPower : Nat, lowestValidator : Users \cup {None}]
------------------------------------------------------------------------------
(****************************************************************************)
(* The manager's operations on the lists.  Each returns the set of its      *)
(* possible outcomes, [lists, ok]: ok is FALSE when the code returns an     *)
(* error, and lists is what the store holds then.                           *)
(****************************************************************************)
Outcome(l, ok) == [lists |-> l, ok |-> ok]

(* The validators updateLowestValidator may leave in LowestValidator.       *)
Lowest(dep, l) ==
  {v \in l.oncall : dep[v] < MaxCoin /\ \A w \in l.oncall : dep[v] <= dep[w]}

UpdateLowestValidator(dep, l) ==
  IF Lowest(dep, l) = {}
  THEN {[l EXCEPT !.lowestPower = MaxCoin, !.lowestValidator = None]}
  ELSE {[l EXCEPT !.lowestPower = dep[v], !.lowestValidator = v]
          : v \in Lowest(dep, l)}

BestCandidates(dep, l) ==
  {c \in l.all \ l.oncall :
     dep[c] > 0 /\ \A d \in l.all \ l.oncall : dep[d] <= dep[c]}

(* TryBecomeOncallValidator between reading and writing the lists.          *)
JoinLists(dep, l, u) ==
  LET listed == [l EXCEPT !.all = @ \cup {u}] IN
  IF Cardinality(l.oncall) < param.listSize
  THEN [listed EXCEPT !.oncall = @ \cup {u}]
  ELSE IF dep[u] > l.lowestPower /\ l.lowestValidator \in l.oncall
  THEN [listed EXCEPT !.oncall = (@ \ {l.lowestValidator}) \cup {u}]
  ELSE listed

TryBecomeOncallValidator(dep, l, u) ==
  IF dep[u] < param.minCommit
  THEN {Outcome(l, FALSE)}
  ELSE {Outcome(m, TRUE) : m \in
          UpdateLowestValidator(dep,
            IF u \in l.oncall THEN l ELSE JoinLists(dep, l, u))}

(* Mutant: no candidate moves up after a removal or a punishment.           *)
AdjustLowestOnly(dep, l) == {Outcome(m, TRUE) : m \in UpdateLowestValidator(dep, l)}

AdjustValidatorList(dep, l) ==
  UNION {IF BestCandidates(dep, m) = {}
         THEN {Outcome(m, TRUE)}
         ELSE UNION {TryBecomeOncallValidator(dep, m, c)
                       : c \in BestCandidates(dep, m)}
         : m \in UpdateLowestValidator(dep, l)}

RemoveValidatorFromAllLists(dep, l, u) ==
  IF u \notin l.all
  THEN {Outcome(l, TRUE)}
  ELSE AdjustValidatorList(dep,
         [l EXCEPT !.all = @ \ {u}, !.oncall = @ \ {u}])

(****************************************************************************)
(* PunishOncallValidator: takes amount from u's deposit, and everything     *)
(* that is left when u must go.  The record is written between the removal  *)
(* from the lists and the adjustment, so an error of the one leaves the old *)
(* deposit and an error of the other leaves the new one, with the penalty   *)
(* forgotten in both cases.                                                 *)
(****************************************************************************)
PunishOutcome(dep, abs, pen, o) ==
  [deposit |-> dep, absent |-> abs, penalty |-> IF o.ok THEN pen ELSE 0,
   lists |-> o.lists, ok |-> o.ok]

(* Mutants: one of the two reasons to fire is forgotten.                    *)
MustGoIfByzantine(why, left) == why = "Byzantine"
MustGoIfPoor(why, left) == left < param.minCommit

(* "remove this validator if its remaining deposit is not enough OR, we     *)
(* explicitly want to fire this validator".                                 *)
MustGo(why, left) == why = "Byzantine" \/ left < param.minCommit

PunishOncallValidator(u, amount, why) ==
  LET left  == IF amount > deposit[u] THEN 0 ELSE deposit[u] - amount
      abs   == IF why = "AbsentCommit" THEN [absent EXCEPT ![u] = 0] ELSE absent
      fired == MustGo(why, left)
      dep   == [deposit EXCEPT ![u] = IF fired THEN 0 ELSE left]
      Written(l) == {PunishOutcome(dep, abs, deposit[u] - dep[u], o)
                       : o \in AdjustValidatorList(dep, l)}
  IN IF ~fired
     THEN Written(lst)
     ELSE UNION {IF o.ok THEN Written(o.lists)
                 ELSE {PunishOutcome(deposit, absent, 0, o)}
                 : o \in RemoveValidatorFromAllLists(deposit, lst, u)}

Punished(o) ==
  /\ deposit' = o.deposit
  /\ absent' = o.absent
  /\ lst' = o.lists
  /\ penalty' = penalty + o.penalty
  /\ UNCHANGED <<recorded, key>>
------------------------------------------------------------------------------
(****************************************************************************)
(* BeginBlock.                                                              *)
(****************************************************************************)
(* Tendermint delivers who signed the last block and the evidence.  The     *)
(* oncall list is kept as PreBlockValidators, AbsentCommit follows the      *)
(* signing info, and the firing loop starts on a snapshot of the list.      *)
BeginBlock ==
  /\ phase = "commit"
  /\ \E signed \in SUBSET tmSet :
       absent' = [u \in Users |->
                    IF u \notin lst.oncall THEN absent[u]
                    ELSE IF key[u] \notin signed THEN absent[u] + 1
                    ELSE IF absent[u] > 0 THEN absent[u] - 1 ELSE 0]
  /\ evidence' \in {E \in SUBSET Keys : Cardinality(E) <= MaxEvidence}
  /\ lst' = [lst EXCEPT !.preBlock = lst.oncall]
  /\ toFire' = lst.oncall /\ current' = None /\ penalty' = 0
  /\ phase' = IF lst.oncall \subseteq recorded THEN "fire" ELSE "halted"
  /\ UNCHANGED <<param, recorded, deposit, key, stake, refList, wallet, pool, tmSet>>

(* Mutant: the penalties are not put back into the pool.                    *)
FinishFireUnpaid(pen, lists) ==
  /\ UNCHANGED pool
  /\ refList' = lists.all
  /\ phase' = "events"
  /\ toFire' = {} /\ current' = None

(* The rest of app.beginBlocker up to the time events.                      *)
FinishFire(pen, lists) ==
  /\ pool' = pool + pen
  /\ refList' = lists.all
  /\ phase' = "events"
  /\ toFire' = {} /\ current' = None

(* One validator of the loop, first half: evidence against its address.     *)
(* An error ends the loop, and BeginBlocker drops it.                       *)
FireByzantine(u) ==
  /\ phase = "fire" /\ current = None /\ u \in toFire /\ key[u] \in evidence
  /\ \E o \in PunishOncallValidator(u, PenaltyByzantine, "Byzantine") :
       /\ Punished(o)
       /\ IF o.ok
          THEN current' = u /\ UNCHANGED <<pool, refList, phase, toFire>>
          ELSE FinishFire(penalty, o.lists)
  /\ UNCHANGED <<param, stake, wallet, evidence, tmSet>>

(* Second half: it has missed too many blocks.                              *)
FireAbsent(u) ==
  /\ phase = "fire" /\ u \in toFire
  /\ current = u \/ (current = None /\ key[u] \notin evidence)
  /\ absent[u] > AbsentLimit
  /\ \E o \in PunishOncallValidator(u, PenaltyMissCommit, "AbsentCommit") :
       /\ Punished(o)
       /\ IF o.ok
          THEN /\ toFire' = toFire \ {u} /\ current' = None
               /\ UNCHANGED <<pool, refList, phase>>
          ELSE FinishFire(penalty, o.lists)
  /\ UNCHANGED <<param, stake, wallet, evidence, tmSet>>

KeepValidator(u) ==
  /\ phase = "fire" /\ u \in toFire
  /\ current = u \/ (current = None /\ key[u] \notin evidence)
  /\ absent[u] <= AbsentLimit
  /\ toFire' = toFire \ {u} /\ current' = None
  /\ UNCHANGED <<param, records, lst, stake, refList, wallet, pool, phase,
                 evidence, penalty, tmSet>>

(* The penalties go to the inflation pool and the vote module gets the list *)
(* of validators (syncInfoWithVoteManager).                                 *)
FireDone ==
  /\ phase = "fire" /\ toFire = {}
  /\ FinishFire(penalty, lst)
  /\ UNCHANGED <<param, records, lst, stake, wallet, evidence, penalty, tmSet>>

(****************************************************************************)
(* Time events.                                                             *)
(****************************************************************************)
(* DecideProposalEvent: the oncall validators who did not vote are punished *)
(* one after the other; an error makes executeEvents panic.                 *)
DecideProposal ==
  /\ phase = "events"
  /\ toFire' \in SUBSET lst.oncall
  /\ toFire' # {}
  /\ penalty' = 0 /\ phase' = "vote"
  /\ UNCHANGED <<param, records, lst, stake, refList, wallet, pool, current,
                 evidence, tmSet>>

PunishDidntVote(u) ==
  /\ phase = "vote" /\ u \in toFire
  /\ \E o \in PunishOncallValidator(u, PenaltyMissVote, "DidntVote") :
       /\ Punished(o)
       /\ phase' = IF o.ok THEN "vote" ELSE "halted"
  /\ toFire' = toFire \ {u}
  /\ UNCHANGED <<param, stake, refList, wallet, pool, current, evidence, tmSet>>

PunishDone ==
  /\ phase = "vote" /\ toFire = {}
  /\ pool' = pool + penalty
  /\ phase' = "events"
  /\ UNCHANGED <<param, records, lst, stake, refList, wallet, loop, tmSet>>

(* ChangeParamEvent for the ValidatorParam.                                 *)
ChangeParam ==
  /\ phase = "events"
  /\ \E step \in ParamSteps : param = step[1] /\ param' = step[2]
  /\ UNCHANGED <<records, lst, stake, refList, wallet, pool, phase, loop, tmSet>>

EventsDone ==
  /\ phase = "events" /\ phase' = "tx"
  /\ evidence' = {} /\ penalty' = 0
  /\ UNCHANGED <<param, records, lst, stake, refList, wallet, pool, toFire, current,
                 tmSet>>
------------------------------------------------------------------------------
(****************************************************************************)
(* Transactions.                                                            *)
(****************************************************************************)
Spend(u, amount) ==
  /\ amount <= wallet[u]
  /\ wallet' = [wallet EXCEPT ![u] = @ - amount]

CanRegister(u, amount, k) ==
  /\ stake[u] >= MinVoting
  /\ amount >= param.minCommit
  /\ k \notin {key[v] : v \in lst.all}

ValidatorDeposit(u, amount, k) ==
  /\ phase = "tx"
  /\ Spend(u, amount)
  /\ u \notin recorded => CanRegister(u, amount, k)
  /\ deposit' = [deposit EXCEPT ![u] = @ + amount]
  /\ stake[u] >= deposit'[u]
  /\ recorded' = recorded \cup {u}
  /\ absent' = IF u \in recorded THEN absent ELSE [absent EXCEPT ![u] = 0]
  /\ key' = IF u \in recorded THEN key ELSE [key EXCEPT ![u] = k]
  /\ \E o \in TryBecomeOncallValidator(deposit', lst, u) : o.ok /\ lst' = o.lists
  /\ UNCHANGED <<param, stake, refList, pool, phase, loop, tmSet>>

IsLegalWithdraw(u, amount) ==
  /\ u \in recorded
  /\ amount >= MinWithdraw
  /\ u \notin lst.oncall
  /\ deposit[u] - amount >= param.minCommit

ValidatorWithdraw(u, amount) ==
  /\ phase = "tx"
  /\ IsLegalWithdraw(u, amount)
  /\ deposit' = [deposit EXCEPT ![u] = @ - amount]
  /\ wallet' = [wallet EXCEPT ![u] = @ + amount]
  /\ UNCHANGED <<param, recorded, absent, key, lst, stake, refList, pool,
                 phase, loop, tmSet>>

ValidatorRevoke(u) ==
  /\ phase = "tx"
  /\ u \in recorded /\ deposit[u] # 0
  /\ deposit' = [deposit EXCEPT ![u] = 0]
  /\ \E o \in RemoveValidatorFromAllLists(deposit', lst, u) : o.ok /\ lst' = o.lists
  /\ wallet' = [wallet EXCEPT ![u] = @ + deposit[u]]
  /\ UNCHANGED <<param, recorded, absent, key, stake, refList, pool, phase, loop,
                 tmSet>>

StakeIn(u, amount) ==
  /\ phase = "tx" /\ amount >= MinStakeIn
  /\ Spend(u, amount)
  /\ stake' = [stake EXCEPT ![u] = @ + amount]
  /\ UNCHANGED <<param, records, lst, refList, pool, phase, loop, tmSet>>

(* IsLegalVoterWithdraw looks the user up in the reference list.            *)
StakeOut(u, amount) ==
  /\ phase = "tx"
  /\ u \notin refList /\ amount <= stake[u]
  /\ stake' = [stake EXCEPT ![u] = @ - amount]
  /\ wallet' = [wallet EXCEPT ![u] = @ + amount]
  /\ UNCHANGED <<param, records, lst, refList, pool, phase, loop, tmSet>>
------------------------------------------------------------------------------
(* Mutant: compares with AllValidators instead of OncallValidators.         *)
DroppedFromAll == lst.preBlock \ lst.all

(* GetUpdateValidatorList: the difference goes to Tendermint, records       *)
(* without a deposit are deleted if they are met on the way.                *)
Dropped == lst.preBlock \ lst.oncall

Forgotten == {u \in Dropped : deposit[u] = 0}

EndBlock ==
  /\ phase = "tx"
  /\ IF Dropped \cup lst.oncall \subseteq recorded
     THEN /\ recorded' = recorded \ Forgotten
          /\ absent' = [u \in Users |-> IF u \in Forgotten THEN 0 ELSE absent[u]]
          /\ key' = [u \in Users |-> IF u \in Forgotten THEN None ELSE key[u]]
          /\ tmSet' = (tmSet \ {key[u] : u \in Dropped}) \cup {key[u] : u \in lst.oncall}
          /\ phase' = "commit"
     ELSE phase' = "halted" /\ UNCHANGED <<recorded, absent, key, tmSet>>
  /\ UNCHANGED <<param, deposit, lst, stake, refList, wallet, pool, loop>>
------------------------------------------------------------------------------
(****************************************************************************)
(* Genesis: every genesis validator has staked the minimum voting deposit   *)
(* and committed the minimum committing deposit, and the first listSize of  *)
(* them are oncall.  Tendermint starts from the same validators.            *)
(****************************************************************************)
Bonded(u) == IF u \in GenesisValidators THEN 1 ELSE 0

GenesisKey == CHOOSE f \in GenesisKeys : TRUE

Init ==
  /\ param = GenesisParam
  /\ recorded = GenesisValidators
  /\ deposit = [u \in Users |-> Bonded(u) * GenesisParam.minCommit]
  /\ absent = [u \in Users |-> 0]
  /\ key = [u \in Users |-> IF u \in GenesisValidators THEN GenesisKey[u] ELSE None]
  /\ \E on \in SUBSET GenesisValidators :
       /\ Cardinality(on) <= param.listSize
       /\ Cardinality(on) < param.listSize => on = GenesisValidators
       /\ lst \in UpdateLowestValidator(deposit,
            [oncall |-> on, all |-> GenesisValidators, preBlock |-> {},
             lowestPower |-> 0, lowestValidator |-> None])
       /\ tmSet = {key[u] : u \in on}
  /\ stake = [u \in Users |-> Bonded(u) * MinVoting]
  /\ refList = {}
  /\ wallet = [u \in Users |-> Funds - deposit[u] - stake[u]]
  /\ pool = 0 /\ penalty = 0
  /\ phase = "commit"
  /\ toFire = {} /\ current = None /\ evidence = {}

Transactions ==
  \E u \in Users :
    \/ ValidatorRevoke(u)
    \/ \E amount \in Amounts :
         \/ ValidatorWithdraw(u, amount)
         \/ \E k \in KeysOf[u] : ValidatorDeposit(u, amount, k)
    \/ \E amount \in StakeAmounts : StakeIn(u, amount) \/ StakeOut(u, amount)

Next ==
  \/ BeginBlock \/ FireDone \/ DecideProposal \/ PunishDone \/ ChangeParam
  \/ EventsDone \/ EndBlock
  \/ \E u \in Users :
       \/ FireByzantine(u) \/ FireAbsent(u) \/ KeepValidator(u)
       \/ PunishDidntVote(u)
  \/ Transactions

Spec == Init /\ [][Next]_vars
------------------------------------------------------------------------------
(****************************************************************************)
(* Properties.                                                              *)
(****************************************************************************)
(* The store, the loop variables and the wallets have the shapes above.     *)
TypeOK ==
  /\ param \in Params
  /\ recorded \subseteq Users
  /\ deposit \in [Users -> Nat] /\ absent \in [Users -> Nat]
  /\ key \in [Users -> Keys \cup {None}]
  /\ lst \in Lists
  /\ stake \in [Users -> Nat] /\ refList \subseteq Users
  /\ wallet \in [Users -> Nat]
  /\ pool \in Nat /\ penalty \in Nat
  /\ phase \in Phases
  /\ toFire \subseteq Users /\ current \in Users \cup {None}
  /\ evidence \subseteq Keys /\ tmSet \subseteq Keys \cup {None}

(* No step of the block makes the application panic: every name in the      *)
(* oncall and PreBlockValidators lists has a record whenever UpdateSigning- *)
(* Validator, FireIncompetentValidator or GetUpdateValidatorList reads it,  *)
(* although GetUpdateValidatorList deletes records, and no adjustment of    *)
(* the lists meets a candidate it cannot accept (ErrInsufficientDeposit).   *)
NeverHalts == phase # "halted"

(* Coins sit in the validator module exactly as long as their owner is      *)
(* listed: whoever has a deposit is in AllValidators and whoever is in      *)
(* AllValidators has the minimum committing deposit.  Firing, revoking and  *)
(* withdrawing must leave no deposit behind outside the lists, where it     *)
(* earns nothing and nobody punishes it.                                    *)
BondedIffListed ==
  /\ lst.oncall \subseteq lst.all
  /\ \A u \in Users : IF u \in lst.all THEN u \in recorded /\ deposit[u] >= param.minCommit
                     ELSE deposit[u] = 0

(* The oncall validators are the ones with the largest deposits, and no     *)
(* place stays empty while a candidate waits: TryBecomeOncallValidator and  *)
(* AdjustValidatorList swap one validator at a time, on a LowestPower that  *)
(* was computed in an earlier call.                                         *)
TopDeposits ==
  /\ \A u \in lst.oncall, c \in lst.all \ lst.oncall : deposit[u] >= deposit[c]
  /\ Cardinality(lst.oncall) <= param.listSize
  /\ Cardinality(lst.oncall) < param.listSize => lst.oncall = lst.all

(* LowestPower and LowestValidator name an oncall validator with the        *)
(* smallest deposit: every deposit, punishment and removal must have been   *)
(* followed by updateLowestValidator.                                       *)
LowestCurrent ==
  lst.oncall # {} =>
    /\ lst.lowestValidator \in lst.oncall
    /\ lst.lowestPower = deposit[lst.lowestValidator]
    /\ \A u \in lst.oncall : lst.lowestPower <= deposit[u]

(* Between blocks Tendermint signs with exactly the oncall validators: the  *)
(* differences EndBlock reports (power 0 for who left the list since        *)
(* BeginBlock, power 1000 for who is on it) add up to the list, whatever    *)
(* joined, left, was fired or came back within the blocks.                  *)
TendermintAgrees ==
  phase = "commit" => tmSet = {key[u] : u \in lst.oncall}

(* After the firing loop a validator that was oncall when the block began   *)
(* and is named by the evidence has lost its whole deposit ("we explicitly  *)
(* want to fire this validator, all deposit will be added back to inflation *)
(* pool", x/validator/manager.go:204).                                      *)
ByzantineSlashed ==
  phase = "events" => \A u \in lst.preBlock : key[u] \in evidence => deposit[u] = 0

(* Nobody gets away in the firing loop, although it runs over a snapshot of *)
(* a list that it changes: byzantine validators are slashed and off the     *)
(* list, and no validator that is on it, promoted ones included, has missed *)
(* more blocks than AbsentCommitLimitation.                                 *)
OffendersPunished ==
  /\ ByzantineSlashed
  /\ phase = "events" =>
       /\ \A u \in lst.preBlock : key[u] \in evidence => u \notin lst.oncall
       /\ \A u \in lst.oncall : absent[u] <= AbsentLimit

(* No transaction, penalty or event creates or destroys coins: wallets,     *)
(* deposits, stakes, the penalties paid into the inflation pool and the     *)
(* penalties on their way there add up to what genesis gave.                *)
CoinsConserved ==
  SumFunction(wallet) + SumFunction(deposit) + SumFunction(stake) + pool
    + (IF phase \in {"fire", "vote"} THEN penalty ELSE 0)
  = Cardinality(Users) * Funds

(****************************************************************************)
(* Claims of the code that do not hold.                                     *)
(****************************************************************************)
(* "make sure the pub key has not been registered"                          *)
(* (x/validator/manager.go:302): two listed validators never share a key.   *)
DistinctKeys == \A u, v \in lst.all : key[u] = key[v] => u = v
==============================================================================
