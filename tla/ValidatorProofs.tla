-------------------------- MODULE ValidatorProofs ---------------------------
(****************************************************************************)
(* Proofs about Validator, for every value of its constants.                *)
(*                                                                          *)
(* The argument is about the list operations: AdjustLemma and JoinLemma say *)
(* that each of them takes lists that are right but for one validator to    *)
(* lists that are right, and never fails, provided every listed validator   *)
(* has the minimum deposit.  That proviso is BondedIffListed, so the two    *)
(* are proved together, in IInv.                                            *)
(****************************************************************************)
EXTENDS Validator, CoinsProofs

Deposits == [Users -> Nat]

(* A non-empty set of users has one with the least, one with the largest    *)
(* deposit.                                                                 *)
LEMMA LeastDeposit ==
  ASSUME NEW dep \in Deposits, NEW S \in SUBSET Users, S # {}
  PROVE  \E v \in S : \A w \in S : dep[v] <= dep[w]
<1> DEFINE T == {dep[v] : v \in S}
<1>1. T \in SUBSET Nat /\ T # {}
  BY DEF Deposits
<1>2. PICK x \in T : \A y \in T : x <= y
  BY <1>1, LeastNatural
<1> QED
  BY <1>2

LEMMA LargestDeposit ==
  ASSUME NEW dep \in Deposits, NEW S \in SUBSET Users, S # {},
         \A u \in Users : dep[u] < MaxCoin
  PROVE  \E v \in S : \A w \in S : dep[w] <= dep[v]
<1> USE ValidatorAssumption DEF ValidatorAssumption
<1> DEFINE T == {MaxCoin - dep[v] : v \in S}
<1>1. T \in SUBSET Nat /\ T # {}
  BY DEF Deposits
<1>2. PICK x \in T : \A y \in T : x <= y
  BY <1>1, LeastNatural
<1>3. PICK v \in S : x = MaxCoin - dep[v]
  BY <1>2
<1>4. \A w \in S : MaxCoin - dep[v] <= MaxCoin - dep[w]
  BY <1>2, <1>3
<1>5. \A w \in S : dep[w] <= dep[v]
  BY <1>4 DEF Deposits
<1> QED
  BY <1>5
-----------------------------------------------------------------------------
(****************************************************************************)
(* Type correctness.                                                        *)
(****************************************************************************)
LEMMA OutcomeFields ==
  ASSUME NEW l, NEW ok \in BOOLEAN
  PROVE  Outcome(l, ok).lists = l /\ Outcome(l, ok).ok = ok
BY DEF Outcome

(* updateLowestValidator writes the two lowest fields only.                 *)
LEMMA UpdateType ==
  ASSUME NEW dep \in Deposits, NEW l \in Lists,
         NEW m \in UpdateLowestValidator(dep, l)
  PROVE  /\ m \in Lists
         /\ m.oncall = l.oncall /\ m.all = l.all /\ m.preBlock = l.preBlock
<1> USE ValidatorAssumption DEF ValidatorAssumption
<1>1. CASE Lowest(dep, l) = {}
  BY <1>1 DEF UpdateLowestValidator, Lists
<1>2. CASE Lowest(dep, l) # {}
  <2>1. PICK v \in Lowest(dep, l) :
          m = [l EXCEPT !.lowestPower = dep[v], !.lowestValidator = v]
    BY <1>2 DEF UpdateLowestValidator
  <2>2. v \in Users /\ dep[v] \in Nat
    BY DEF Lowest, Lists, Deposits
  <2> QED
    BY <2>1, <2>2 DEF Lists
<1> QED
  BY <1>1, <1>2

LEMMA JoinType ==
  ASSUME NEW dep \in Deposits, NEW l \in Lists, NEW u \in Users
  PROVE  JoinLists(dep, l, u) \in Lists
BY DEF JoinLists, Lists

LEMMA TryType ==
  ASSUME NEW dep \in Deposits, NEW l \in Lists, NEW u \in Users,
         NEW o \in TryBecomeOncallValidator(dep, l, u)
  PROVE  o.lists \in Lists /\ o.ok \in BOOLEAN
<1>1. CASE dep[u] < param.minCommit
  <2>1. o = Outcome(l, FALSE)
    BY <1>1 DEF TryBecomeOncallValidator
  <2> QED
    BY <2>1, OutcomeFields
<1>2. CASE ~ (dep[u] < param.minCommit)
  <2> DEFINE k == IF u \in l.oncall THEN l ELSE JoinLists(dep, l, u)
  <2>1. k \in Lists
    BY JoinType
  <2>2. PICK m \in UpdateLowestValidator(dep, k) : o = Outcome(m, TRUE)
    BY <1>2 DEF TryBecomeOncallValidator
  <2>3. m \in Lists
    BY <2>1, <2>2, UpdateType
  <2> QED
    BY <2>2, <2>3, OutcomeFields
<1> QED
  BY <1>1, <1>2

LEMMA AdjustType ==
  ASSUME NEW dep \in Deposits, NEW l \in Lists,
         NEW o \in AdjustValidatorList(dep, l)
  PROVE  o.lists \in Lists /\ o.ok \in BOOLEAN
<1>1. PICK m \in UpdateLowestValidator(dep, l) :
        o \in IF BestCandidates(dep, m) = {}
              THEN {Outcome(m, TRUE)}
              ELSE UNION {TryBecomeOncallValidator(dep, m, c)
                            : c \in BestCandidates(dep, m)}
  BY DEF AdjustValidatorList
<1>2. m \in Lists
  BY UpdateType
<1>3. CASE BestCandidates(dep, m) = {}
  <2>1. o = Outcome(m, TRUE)
    BY <1>1, <1>3
  <2> QED
    BY <1>2, <2>1, OutcomeFields
<1>4. CASE BestCandidates(dep, m) # {}
  <2>1. PICK c \in BestCandidates(dep, m) : o \in TryBecomeOncallValidator(dep, m, c)
    BY <1>1, <1>4
  <2>2. c \in Users
    BY <1>2 DEF BestCandidates, Lists
  <2> QED
    BY <1>2, <2>1, <2>2, TryType
<1> QED
  BY <1>3, <1>4

LEMMA RemoveType ==
  ASSUME NEW dep \in Deposits, NEW l \in Lists, NEW u \in Users,
         NEW o \in RemoveValidatorFromAllLists(dep, l, u)
  PROVE  o.lists \in Lists /\ o.ok \in BOOLEAN
<1>1. CASE u \notin l.all
  <2>1. o = Outcome(l, TRUE)
    BY <1>1 DEF RemoveValidatorFromAllLists
  <2> QED
    BY <2>1, OutcomeFields
<1>2. CASE u \in l.all
  <2> DEFINE k == [l EXCEPT !.all = @ \ {u}, !.oncall = @ \ {u}]
  <2>1. k \in Lists
    BY DEF Lists
  <2>2. o \in AdjustValidatorList(dep, k)
    BY <1>2 DEF RemoveValidatorFromAllLists
  <2> QED
    BY <2>1, <2>2, AdjustType
<1> QED
  BY <1>1, <1>2

(* A punishment takes no more than there is.                                *)
LEMMA PunishType ==
  ASSUME TypeOK, NEW u \in Users, NEW amount \in Nat, NEW why,
         NEW o \in PunishOncallValidator(u, amount, why)
  PROVE  /\ o.deposit \in Deposits /\ o.absent \in [Users -> Nat]
         /\ o.penalty \in Nat
         /\ o.lists \in Lists /\ o.ok \in BOOLEAN
<1> DEFINE left == IF amount > deposit[u] THEN 0 ELSE deposit[u] - amount
           abs == IF why = "AbsentCommit" THEN [absent EXCEPT ![u] = 0] ELSE absent
           fired == MustGo(why, left)
           dep == [deposit EXCEPT ![u] = IF fired THEN 0 ELSE left]
           Written(l) == {PunishOutcome(dep, abs, deposit[u] - dep[u], q)
                            : q \in AdjustValidatorList(dep, l)}
<1>1. left \in Nat /\ left <= deposit[u] /\ deposit[u] \in Nat
  BY DEF TypeOK
<1>2. dep \in Deposits /\ deposit[u] - dep[u] \in Nat
  <2> HIDE DEF left, fired
  <2>1. dep[u] = IF fired THEN 0 ELSE left
    BY DEF TypeOK
  <2> QED
    BY <1>1, <2>1 DEF TypeOK, Deposits
<1>3. abs \in [Users -> Nat] /\ deposit \in Deposits /\ lst \in Lists
  BY DEF TypeOK, Deposits
<1> HIDE DEF left, fired, abs, dep
<1>4. ASSUME NEW l \in Lists, o \in Written(l)
      PROVE  /\ o.deposit \in Deposits /\ o.absent \in [Users -> Nat]
             /\ o.penalty \in Nat /\ o.lists \in Lists /\ o.ok \in BOOLEAN
  <2>1. PICK q \in AdjustValidatorList(dep, l) :
          o = PunishOutcome(dep, abs, deposit[u] - dep[u], q)
    BY <1>4
  <2>2. q.lists \in Lists /\ q.ok \in BOOLEAN
    BY <1>2, <2>1, AdjustType
  <2> QED
    BY <1>2, <1>3, <2>1, <2>2 DEF PunishOutcome
<1>5. CASE ~ fired
  <2>1. o \in Written(lst)
    BY <1>5 DEF PunishOncallValidator, fired, left, dep, abs
  <2> QED
    BY <1>3, <1>4, <2>1
<1>6. CASE fired
  <2>1. PICK q \in RemoveValidatorFromAllLists(deposit, lst, u) :
          o \in IF q.ok THEN Written(q.lists)
                ELSE {PunishOutcome(deposit, absent, 0, q)}
    BY <1>6 DEF PunishOncallValidator, fired, left, dep, abs
  <2>2. q.lists \in Lists /\ q.ok \in BOOLEAN
    BY <1>3, <2>1, RemoveType
  <2>3. CASE q.ok
    BY <1>4, <2>1, <2>2, <2>3
  <2>4. CASE ~ q.ok
    BY <1>3, <2>1, <2>2, <2>4 DEF PunishOutcome, TypeOK
  <2> QED
    BY <2>3, <2>4
<1> QED
  BY <1>5, <1>6

LEMMA TypeInit == Init => TypeOK
<1> USE ValidatorAssumption DEF ValidatorAssumption
<1> SUFFICES ASSUME Init PROVE TypeOK
  OBVIOUS
<1>1. GenesisParam \in [minCommit : Nat \ {0}, listSize : Nat \ {0}]
  BY DEF Params
<1>2. deposit \in [Users -> Nat] /\ stake \in [Users -> Nat] /\ absent \in [Users -> Nat]
  BY <1>1 DEF Init, Bonded
<1>3. \A u \in Users : deposit[u] + stake[u] <= Funds
  BY <1>1 DEF Init, Bonded
<1>4. wallet \in [Users -> Nat]
  BY <1>2, <1>3 DEF Init
<1>5. GenesisKey \in [GenesisValidators -> Keys]
  BY DEF GenesisKey, GenesisKeys
<1>6. key \in [Users -> Keys \cup {None}]
  BY <1>5 DEF Init
<1>7. lst \in Lists /\ tmSet \subseteq Keys \cup {None}
  <2>1. PICK on \in SUBSET GenesisValidators :
          /\ lst \in UpdateLowestValidator(deposit,
               [oncall |-> on, all |-> GenesisValidators, preBlock |-> {},
                lowestPower |-> 0, lowestValidator |-> None])
          /\ tmSet = {key[u] : u \in on}
    BY DEF Init
  <2> DEFINE l == [oncall |-> on, all |-> GenesisValidators, preBlock |-> {},
                   lowestPower |-> 0, lowestValidator |-> None]
  <2>2. l \in Lists
    BY DEF Lists
  <2>3. deposit \in Deposits
    BY <1>2 DEF Deposits
  <2>4. lst \in Lists
    BY <2>1, <2>2, <2>3, UpdateType
  <2> QED
    BY <1>6, <2>1, <2>4
<1> QED
  BY <1>1, <1>2, <1>4, <1>6, <1>7 DEF Init, TypeOK, Phases, Params

LEMMA TypeStep == TypeOK /\ [Next]_vars => TypeOK'
<1> USE ValidatorAssumption DEF ValidatorAssumption
<1> SUFFICES ASSUME TypeOK, [Next]_vars PROVE TypeOK'
  OBVIOUS
<1> USE DEF records, loop, Phases
<1>1. CASE BeginBlock
  <2>1. lst' \in Lists /\ lst.oncall \subseteq Users
    BY <1>1 DEF BeginBlock, TypeOK, Lists
  <2>2. absent' \in [Users -> Nat]
    BY <1>1 DEF BeginBlock, TypeOK
  <2>3. evidence' \subseteq Keys
    BY <1>1 DEF BeginBlock
  <2> QED
    BY <1>1, <2>1, <2>2, <2>3 DEF BeginBlock, TypeOK
<1>2. CASE FireDone
  BY <1>2 DEF FireDone, FinishFire, TypeOK, Lists
<1>3. CASE DecideProposal
  BY <1>3 DEF DecideProposal, TypeOK, Lists
<1>4. CASE PunishDone
  BY <1>4 DEF PunishDone, TypeOK
<1>5. CASE ChangeParam
  BY <1>5 DEF ChangeParam, TypeOK
<1>6. CASE EventsDone
  BY <1>6 DEF EventsDone, TypeOK
<1>7. CASE EndBlock
  <2>1. Dropped \cup lst.oncall \subseteq Users
    BY DEF Dropped, TypeOK, Lists
  <2>2. tmSet' \subseteq Keys \cup {None}
    BY <1>7, <2>1 DEF EndBlock, TypeOK
  <2>3. absent' \in [Users -> Nat] /\ key' \in [Users -> Keys \cup {None}]
    BY <1>7 DEF EndBlock, TypeOK
  <2> QED
    BY <1>7, <2>2, <2>3 DEF EndBlock, TypeOK
<1>8. ASSUME NEW u \in Users,
             FireByzantine(u) \/ FireAbsent(u) \/ PunishDidntVote(u)
      PROVE  TypeOK'
  <2>1. PICK amount \in Nat, why \in {"Byzantine", "AbsentCommit", "DidntVote"} :
          \E o \in PunishOncallValidator(u, amount, why) :
            /\ Punished(o)
            /\ \/ UNCHANGED <<pool, refList>>
               \/ pool' = pool + penalty /\ refList' = o.lists.all
    BY <1>8 DEF FireByzantine, FireAbsent, PunishDidntVote, FinishFire
  <2>2. PICK o \in PunishOncallValidator(u, amount, why) :
            /\ Punished(o)
            /\ \/ UNCHANGED <<pool, refList>>
               \/ pool' = pool + penalty /\ refList' = o.lists.all
    BY <2>1
  <2>3. /\ o.deposit \in Deposits /\ o.absent \in [Users -> Nat]
        /\ o.penalty \in Nat /\ o.lists \in Lists
    BY PunishType
  <2>4. /\ deposit' \in [Users -> Nat] /\ absent' \in [Users -> Nat]
        /\ lst' \in Lists /\ penalty' \in Nat
        /\ UNCHANGED <<recorded, key>>
    BY <2>2, <2>3 DEF Punished, Deposits, TypeOK
  <2>5. pool' \in Nat /\ refList' \subseteq Users
    BY <2>2, <2>3 DEF TypeOK, Lists
  <2>6. /\ UNCHANGED <<param, stake, wallet, evidence, tmSet>>
        /\ phase' \in Phases /\ toFire' \subseteq Users
        /\ current' \in Users \cup {None}
    BY <1>8 DEF FireByzantine, FireAbsent, PunishDidntVote, FinishFire, TypeOK
  <2> QED
    BY <2>4, <2>5, <2>6 DEF TypeOK
<1>9. ASSUME NEW u \in Users, KeepValidator(u) PROVE TypeOK'
  BY <1>9 DEF KeepValidator, TypeOK
<1>10. ASSUME NEW u \in Users, ValidatorRevoke(u) PROVE TypeOK'
  <2>1. deposit' \in Deposits /\ wallet' \in [Users -> Nat]
    BY <1>10 DEF ValidatorRevoke, TypeOK, Deposits
  <2>2. lst' \in Lists
    <3>1. PICK o \in RemoveValidatorFromAllLists(deposit', lst, u) : lst' = o.lists
      BY <1>10 DEF ValidatorRevoke
    <3> QED
      BY <2>1, <3>1, RemoveType DEF TypeOK
  <2> QED
    BY <1>10, <2>1, <2>2 DEF ValidatorRevoke, TypeOK, Deposits
<1>11. ASSUME NEW u \in Users, NEW amount \in Amounts, ValidatorWithdraw(u, amount)
       PROVE  TypeOK'
  <2>1. deposit[u] - amount \in Nat /\ wallet[u] + amount \in Nat
    BY <1>11 DEF ValidatorWithdraw, IsLegalWithdraw, TypeOK, Params
  <2> QED
    BY <1>11, <2>1 DEF ValidatorWithdraw, TypeOK
<1>12. ASSUME NEW u \in Users, NEW amount \in Amounts, NEW k \in KeysOf[u],
              ValidatorDeposit(u, amount, k)
       PROVE  TypeOK'
  <2>1. deposit' \in Deposits /\ wallet' \in [Users -> Nat]
    BY <1>12 DEF ValidatorDeposit, Spend, TypeOK, Deposits
  <2>2. lst' \in Lists
    <3>1. PICK o \in TryBecomeOncallValidator(deposit', lst, u) : lst' = o.lists
      BY <1>12 DEF ValidatorDeposit
    <3> QED
      BY <2>1, <3>1, TryType DEF TypeOK
  <2>3. k \in Keys
    OBVIOUS
  <2>4. absent' \in [Users -> Nat] /\ key' \in [Users -> Keys \cup {None}]
    BY <1>12, <2>3 DEF ValidatorDeposit, TypeOK
  <2> QED
    BY <1>12, <2>1, <2>2, <2>4 DEF ValidatorDeposit, TypeOK, Deposits
<1>13. ASSUME NEW u \in Users, NEW amount \in StakeAmounts, StakeIn(u, amount)
       PROVE  TypeOK'
  BY <1>13 DEF StakeIn, Spend, TypeOK
<1>14. ASSUME NEW u \in Users, NEW amount \in StakeAmounts, StakeOut(u, amount)
       PROVE  TypeOK'
  BY <1>14 DEF StakeOut, TypeOK
<1>15. CASE UNCHANGED vars
  BY <1>15 DEF vars, TypeOK
<1> QED
  BY <1>1, <1>2, <1>3, <1>4, <1>5, <1>6, <1>7, <1>8, <1>9, <1>10, <1>11, <1>12,
     <1>13, <1>14, <1>15 DEF Next, Transactions

(* Whatever the parameters do, the store keeps its shape: no handler writes *)
(* a negative deposit, stake or balance, and the lists name users only.     *)
THEOREM TypeCorrect == Spec => []TypeOK
<1>1. Init => TypeOK
  BY TypeInit
<1>2. TypeOK /\ [Next]_vars => TypeOK'
  BY TypeStep
<1> QED
  BY <1>1, <1>2, PTL DEF Spec
-----------------------------------------------------------------------------
(****************************************************************************)
(* What the lists owe to the deposits, for any lists and deposits.          *)
(****************************************************************************)
Reserves(l) == l.all \ l.oncall

Top(dep, l) ==
  /\ \A u \in l.oncall, c \in Reserves(l) : dep[u] >= dep[c]
  /\ Cardinality(l.oncall) <= param.listSize
  /\ Cardinality(l.oncall) < param.listSize => l.oncall = l.all

Low(dep, l) ==
  l.oncall # {} =>
    /\ l.lowestValidator \in l.oncall
    /\ l.lowestPower = dep[l.lowestValidator]
    /\ \A u \in l.oncall : l.lowestPower <= dep[u]

(* Deposits the module can compare: below MaxInt64.                         *)
Comparable == {dep \in Deposits : \A u \in Users : dep[u] < MaxCoin}

(* Every listed validator has the minimum committing deposit.               *)
Committed(dep, l) ==
  /\ l.oncall \subseteq l.all
  /\ \A c \in l.all : dep[c] >= param.minCommit

LEMMA ListFinite ==
  ASSUME NEW S \in SUBSET Users
  PROVE  IsFiniteSet(S) /\ Cardinality(S) \in Nat
BY FS_Subset, FS_CardinalityType, ValidatorAssumption DEF ValidatorAssumption

(* updateLowestValidator finds the lowest validator.                        *)
LEMMA UpdateLow ==
  ASSUME NEW dep \in Comparable, NEW l \in Lists,
         NEW m \in UpdateLowestValidator(dep, l)
  PROVE  Low(dep, m)
<1>0. dep \in Deposits /\ m.oncall = l.oncall /\ l.oncall \in SUBSET Users
  BY UpdateType DEF Comparable, Lists
<1>1. CASE l.oncall = {}
  BY <1>0, <1>1 DEF Low
<1>2. CASE l.oncall # {}
  <2>1. Lowest(dep, l) # {}
    <3>1. PICK v \in l.oncall : \A w \in l.oncall : dep[v] <= dep[w]
      BY <1>0, <1>2, LeastDeposit
    <3>2. v \in Lowest(dep, l)
      BY <1>0, <3>1 DEF Lowest, Comparable
    <3> QED
      BY <3>2
  <2>2. PICK v \in Lowest(dep, l) :
          m = [l EXCEPT !.lowestPower = dep[v], !.lowestValidator = v]
    BY <2>1 DEF UpdateLowestValidator
  <2>3. m.lowestPower = dep[v] /\ m.lowestValidator = v
    BY <2>2 DEF Lists
  <2> QED
    BY <1>0, <2>3 DEF Low, Lowest
<1> QED
  BY <1>1, <1>2

(* Low and Top are restored by the deferred updateLowestValidator once the  *)
(* oncall list is right.                                                    *)
LEMMA SettleLemma ==
  ASSUME NEW dep \in Comparable, NEW l \in Lists, Top(dep, l), Committed(dep, l),
         NEW m \in UpdateLowestValidator(dep, l)
  PROVE  /\ m \in Lists /\ m.all = l.all /\ m.preBlock = l.preBlock
         /\ Top(dep, m) /\ Low(dep, m) /\ Committed(dep, m)
<1>1. dep \in Deposits
  BY DEF Comparable
<1>2. m \in Lists /\ m.oncall = l.oncall /\ m.all = l.all /\ m.preBlock = l.preBlock
  BY <1>1, UpdateType
<1>3. Low(dep, m)
  BY UpdateLow
<1> QED
  BY <1>2, <1>3 DEF Top, Committed, Reserves

(* TryBecomeOncallValidator for u, when u is the only one out of place: a   *)
(* newcomer, or a validator whose deposit has grown.                        *)
LEMMA JoinLemma ==
  ASSUME NEW dep \in Comparable, NEW l \in Lists, NEW u \in Users,
         param \in Params, l.oncall \subseteq l.all,
         \A c \in l.all \cup {u} : dep[c] >= param.minCommit,
         \A v \in l.oncall, c \in Reserves(l) \ {u} : dep[v] >= dep[c],
         Cardinality(l.oncall) <= param.listSize,
         Cardinality(l.oncall) < param.listSize => l.oncall \cup {u} = l.all \cup {u},
         u \notin l.oncall => Low(dep, l),
         NEW o \in TryBecomeOncallValidator(dep, l, u)
  PROVE  /\ o.ok /\ o.lists \in Lists
         /\ o.lists.all = l.all \cup {u} /\ o.lists.preBlock = l.preBlock
         /\ Top(dep, o.lists) /\ Low(dep, o.lists) /\ Committed(dep, o.lists)
<1> DEFINE k == IF u \in l.oncall THEN l ELSE JoinLists(dep, l, u)
<1>1. /\ dep \in [Users -> Nat] /\ dep \in Deposits
      /\ param.listSize \in Nat \ {0} /\ param.minCommit \in Nat
      /\ l.oncall \in SUBSET Users /\ l.all \in SUBSET Users /\ l.lowestPower \in Nat
  BY DEF Comparable, Deposits, Params, Lists
<1>2. ~ (dep[u] < param.minCommit)
  BY <1>1
<1>3. PICK m \in UpdateLowestValidator(dep, k) : o = Outcome(m, TRUE)
  BY <1>2 DEF TryBecomeOncallValidator
<1>4. o.lists = m /\ o.ok
  BY <1>3, OutcomeFields
<1>5. k \in Lists
  BY <1>1, JoinType
<1>6. IsFiniteSet(l.oncall) /\ Cardinality(l.oncall) \in Nat
  BY <1>1, ListFinite
<1>7. k.all = l.all \cup {u} /\ k.preBlock = l.preBlock /\ Committed(dep, k) /\ Top(dep, k)
  <2>1. CASE u \in l.oncall
    <3>1. k = l /\ l.all \cup {u} = l.all
      BY <2>1
    <3>2. Top(dep, l)
      BY <2>1, <3>1 DEF Top, Reserves
    <3> QED
      BY <3>1, <3>2 DEF Committed
  <2>2. CASE u \notin l.oncall /\ Cardinality(l.oncall) < param.listSize
    <3>1. /\ k.all = l.all \cup {u} /\ k.oncall = l.oncall \cup {u}
          /\ k.preBlock = l.preBlock
      BY <2>2 DEF JoinLists, Lists
    <3>2. k.oncall = k.all
      BY <2>2, <3>1
    <3>3. Cardinality(k.oncall) = Cardinality(l.oncall) + 1
      BY <1>6, <2>2, <3>1, FS_AddElement, ZenonT(60)
    <3>4. Top(dep, k)
      BY <1>1, <1>6, <2>2, <3>2, <3>3 DEF Top, Reserves
    <3> QED
      BY <3>1, <3>2, <3>4 DEF Committed
  <2>3. CASE u \notin l.oncall /\ ~ (Cardinality(l.oncall) < param.listSize)
    <3> DEFINE w == l.lowestValidator
    <3>1. Cardinality(l.oncall) = param.listSize
      BY <1>1, <1>6, <2>3
    <3>2. l.oncall # {}
      BY <1>1, <3>1, FS_EmptySet
    <3>3. /\ w \in l.oncall /\ l.lowestPower = dep[w]
          /\ \A v \in l.oncall : dep[w] <= dep[v]
      BY <2>3, <3>2 DEF Low
    <3>4. CASE dep[u] > l.lowestPower
      <4>1. /\ k.all = l.all \cup {u} /\ k.oncall = (l.oncall \ {w}) \cup {u}
            /\ k.preBlock = l.preBlock
        BY <2>3, <3>3, <3>4 DEF JoinLists, Lists
      <4>2. IsFiniteSet(l.oncall \ {w}) /\ Cardinality(l.oncall \ {w}) = Cardinality(l.oncall) - 1
        BY <1>6, <3>3, FS_RemoveElement
      <4>3. Cardinality(k.oncall) = param.listSize
        <5>1. Cardinality((l.oncall \ {w}) \cup {u}) = Cardinality(l.oncall \ {w}) + 1
          <6>1. u \notin l.oncall \ {w}
            BY <2>3
          <6> QED
            BY <4>2, <6>1, FS_AddElement
        <5>2. Cardinality((l.oncall \ {w}) \cup {u}) = param.listSize
          BY <1>6, <3>1, <4>2, <5>1
        <5> QED
          BY <4>1, <5>2, Zenon
      <4>4. Reserves(k) \subseteq (Reserves(l) \ {u}) \cup {w}
        BY <4>1 DEF Reserves
      <4>5. \A c \in Reserves(l) \ {u} : dep[w] >= dep[c]
        BY <3>3
      <4>6. dep[u] > dep[w] /\ w \in Users
        BY <1>1, <3>3, <3>4
      <4>7. ASSUME NEW v \in k.oncall, NEW c \in Reserves(k)
            PROVE  dep[v] >= dep[c]
        <5>1. v \in Users /\ c \in Users /\ dep[v] \in Nat /\ dep[c] \in Nat /\ dep[w] \in Nat
          BY <1>1, <4>1, <4>4, <4>6 DEF Reserves
        <5>2. CASE v \in l.oncall \ {w}
          BY <3>3, <4>4, <5>1, <5>2
        <5>3. CASE v = u
          BY <4>4, <4>5, <4>6, <5>1, <5>3
        <5> QED
          BY <4>1, <5>2, <5>3
      <4>8. Top(dep, k)
        BY <1>1, <4>3, <4>7 DEF Top
      <4> QED
        BY <4>1, <4>8 DEF Committed
    <3>5. CASE ~ (dep[u] > l.lowestPower)
      <4>1. /\ k.all = l.all \cup {u} /\ k.oncall = l.oncall
            /\ k.preBlock = l.preBlock
        BY <2>3, <3>5 DEF JoinLists, Lists
      <4>2. ASSUME NEW v \in l.oncall, NEW c \in Reserves(k)
            PROVE  dep[v] >= dep[c]
        <5>1. v \in Users /\ c \in Users /\ dep[v] \in Nat /\ dep[c] \in Nat
          BY <1>1, <4>1 DEF Reserves
        <5>2. CASE c = u
          BY <1>1, <3>3, <3>5, <5>1, <5>2
        <5>3. CASE c # u
          BY <4>1, <5>3 DEF Reserves
        <5> QED
          BY <5>2, <5>3
      <4>3. Top(dep, k)
        BY <1>1, <3>1, <4>1, <4>2 DEF Top
      <4> QED
        BY <4>1, <4>3 DEF Committed
    <3> QED
      BY <3>4, <3>5
  <2> QED
    BY <2>1, <2>2, <2>3
<1>8. /\ m \in Lists /\ m.all = k.all /\ m.preBlock = k.preBlock
      /\ Top(dep, m) /\ Low(dep, m) /\ Committed(dep, m)
  BY <1>3, <1>5, <1>7, SettleLemma
<1> QED
  BY <1>4, <1>7, <1>8

(* AdjustValidatorList, when x is the only oncall validator that may have   *)
(* too small a deposit, or one place has become free.                       *)
LEMMA AdjustLemma ==
  ASSUME NEW dep \in Comparable, NEW l \in Lists, NEW x,
         param \in Params, Committed(dep, l),
         \A v \in l.oncall \ {x}, c \in Reserves(l) : dep[v] >= dep[c],
         Cardinality(l.oncall) <= param.listSize,
         Cardinality(l.oncall) < param.listSize =>
           \/ l.oncall = l.all
           \/ /\ Cardinality(l.oncall) + 1 = param.listSize
              /\ x \notin l.oncall,
         NEW o \in AdjustValidatorList(dep, l)
  PROVE  /\ o.ok /\ o.lists \in Lists
         /\ o.lists.all = l.all /\ o.lists.preBlock = l.preBlock
         /\ Top(dep, o.lists) /\ Low(dep, o.lists) /\ Committed(dep, o.lists)
<1>1. PICK m \in UpdateLowestValidator(dep, l) :
        o \in IF BestCandidates(dep, m) = {}
              THEN {Outcome(m, TRUE)}
              ELSE UNION {TryBecomeOncallValidator(dep, m, c)
                            : c \in BestCandidates(dep, m)}
  BY DEF AdjustValidatorList
<1>2. /\ dep \in [Users -> Nat] /\ dep \in Deposits
      /\ \A v \in Users : dep[v] < MaxCoin
      /\ param.listSize \in Nat \ {0} /\ param.minCommit \in Nat \ {0}
      /\ l.oncall \in SUBSET Users /\ l.all \in SUBSET Users
  BY DEF Comparable, Deposits, Params, Lists
<1>3. /\ m \in Lists /\ m.oncall = l.oncall /\ m.all = l.all
      /\ m.preBlock = l.preBlock /\ Reserves(m) = Reserves(l)
  BY <1>1, <1>2, UpdateType DEF Reserves
<1>4. Low(dep, m)
  BY <1>1, UpdateLow
<1>5. IsFiniteSet(l.oncall) /\ Cardinality(l.oncall) \in Nat
  BY <1>2, ListFinite
<1>6. CASE Reserves(l) = {}
  <2>1. m.oncall = m.all
    BY <1>3, <1>6 DEF Reserves, Committed
  <2>2. BestCandidates(dep, m) = {}
    BY <1>3, <1>6 DEF BestCandidates, Reserves
  <2>3. o = Outcome(m, TRUE)
    BY <1>1, <2>2
  <2>4. o.ok /\ o.lists = m
    BY <2>3, OutcomeFields
  <2>5. Top(dep, m)
    BY <1>3, <1>6, <2>1 DEF Top
  <2> QED
    BY <1>3, <1>4, <2>4, <2>5 DEF Committed
<1>7. CASE Reserves(l) # {}
  <2>1. Reserves(l) \in SUBSET Users
    BY <1>2 DEF Reserves
  <2>2. PICK b \in Reserves(l) : \A d \in Reserves(l) : dep[d] <= dep[b]
    BY <1>2, <1>7, <2>1, LargestDeposit
  <2>3. b \in BestCandidates(dep, m)
    <3>1. dep[b] >= param.minCommit
      BY DEF Committed, Reserves
    <3>2. dep[b] > 0
      BY <1>2, <2>1, <3>1
    <3> QED
      BY <1>3, <2>2, <3>2 DEF BestCandidates, Reserves
  <2>4. PICK c \in BestCandidates(dep, m) : o \in TryBecomeOncallValidator(dep, m, c)
    BY <1>1, <2>3
  <2>5. c \in Reserves(l) /\ \A d \in Reserves(l) : dep[d] <= dep[c]
    BY <1>3, <2>4 DEF BestCandidates, Reserves
  <2>6. /\ c \in Users /\ c \in l.all /\ c \notin l.oncall
        /\ dep[c] >= param.minCommit /\ ~ (dep[c] < param.minCommit)
    BY <1>2, <2>1, <2>5 DEF Reserves, Committed
  <2>7. l.all \cup {c} = l.all
    BY <2>6
  <2> DEFINE k == JoinLists(dep, m, c)
  <2>8. PICK n \in UpdateLowestValidator(dep, k) : o = Outcome(n, TRUE)
    BY <1>3, <2>4, <2>6 DEF TryBecomeOncallValidator
  <2>9. o.ok /\ o.lists = n
    BY <2>8, OutcomeFields
  <2>10. k \in Lists
    BY <1>2, <1>3, <2>6, JoinType
  <2>11. k.all = l.all /\ k.preBlock = l.preBlock /\ Committed(dep, k) /\ Top(dep, k)
    <3>1. CASE Cardinality(l.oncall) < param.listSize
      <4>1. /\ k.all = l.all /\ k.oncall = l.oncall \cup {c}
            /\ k.preBlock = l.preBlock
        BY <1>3, <2>7, <3>1 DEF JoinLists, Lists
      <4>2. Cardinality(l.oncall) + 1 = param.listSize /\ x \notin l.oncall
        BY <2>6, <3>1
      <4>3. Cardinality(k.oncall) = param.listSize
        <5>1. Cardinality(l.oncall \cup {c}) = Cardinality(l.oncall) + 1
          BY <1>5, <2>6, FS_AddElement
        <5> QED
          BY <4>1, <4>2, <5>1
      <4>4. Reserves(k) \subseteq Reserves(l)
        BY <4>1 DEF Reserves
      <4>5. ASSUME NEW v \in k.oncall, NEW d \in Reserves(k)
            PROVE  dep[v] >= dep[d]
        <5>1. v \in Users /\ d \in Users /\ dep[v] \in Nat /\ dep[d] \in Nat
          BY <1>2, <2>1, <2>6, <4>1, <4>4
        <5>2. CASE v \in l.oncall
          BY <4>2, <4>4, <5>2
        <5>3. CASE v = c
          BY <2>5, <4>4, <5>1, <5>3
        <5> QED
          BY <4>1, <5>2, <5>3
      <4>6. Top(dep, k)
        BY <1>2, <4>3, <4>5 DEF Top
      <4> QED
        BY <2>6, <4>1, <4>6 DEF Committed
    <3>2. CASE ~ (Cardinality(l.oncall) < param.listSize)
      <4> DEFINE w == m.lowestValidator
      <4>1. Cardinality(l.oncall) = param.listSize
        BY <1>2, <1>5, <3>2
      <4>2. l.oncall # {}
        BY <1>2, <4>1, FS_EmptySet
      <4>3. /\ w \in l.oncall /\ m.lowestPower = dep[w]
            /\ \A v \in l.oncall : dep[w] <= dep[v]
        BY <1>3, <1>4, <4>2 DEF Low
      <4>4. w \in Users /\ dep[w] \in Nat /\ dep[c] \in Nat
        BY <1>2, <2>6, <4>3
      <4>5. CASE dep[c] > m.lowestPower
        <5>1. /\ k.all = l.all /\ k.oncall = (l.oncall \ {w}) \cup {c}
              /\ k.preBlock = l.preBlock
          BY <1>3, <2>7, <3>2, <4>3, <4>5 DEF JoinLists, Lists
        <5>2. w = x
          BY <2>5, <4>3, <4>4, <4>5
        <5>3. IsFiniteSet(l.oncall \ {w}) /\ Cardinality(l.oncall \ {w}) = Cardinality(l.oncall) - 1
          BY <1>5, <4>3, FS_RemoveElement
        <5>4. Cardinality(k.oncall) = param.listSize
          <6>1. Cardinality((l.oncall \ {w}) \cup {c}) = Cardinality(l.oncall \ {w}) + 1
            BY <2>6, <5>3, FS_AddElement
          <6> QED
            BY <1>2, <1>5, <4>1, <5>1, <5>3, <6>1
        <5>5. Reserves(k) \subseteq Reserves(l) \cup {w}
          BY <5>1 DEF Reserves
        <5>6. ASSUME NEW v \in k.oncall, NEW d \in Reserves(k)
              PROVE  dep[v] >= dep[d]
          <6>1. v \in Users /\ d \in Users /\ dep[v] \in Nat /\ dep[d] \in Nat
            BY <1>2, <2>1, <2>6, <4>4, <5>1, <5>5
          <6>2. CASE v \in l.oncall \ {w}
            BY <4>3, <5>2, <5>5, <6>1, <6>2
          <6>3. CASE v = c
            BY <2>5, <4>3, <4>4, <4>5, <5>5, <6>1, <6>3
          <6> QED
            BY <5>1, <6>2, <6>3
        <5>7. Top(dep, k)
          BY <1>2, <5>4, <5>6 DEF Top
        <5> QED
          BY <2>6, <5>1, <5>7 DEF Committed
      <4>6. CASE ~ (dep[c] > m.lowestPower)
        <5>1. /\ k.all = l.all /\ k.oncall = l.oncall /\ k.preBlock = l.preBlock
          BY <1>3, <2>7, <3>2, <4>6 DEF JoinLists, Lists
        <5>2. ASSUME NEW v \in l.oncall, NEW d \in Reserves(k)
              PROVE  dep[v] >= dep[d]
          <6>1. v \in Users /\ d \in Users /\ dep[v] \in Nat /\ dep[d] \in Nat
                /\ d \in Reserves(l)
            BY <1>2, <2>1, <5>1 DEF Reserves
          <6>2. dep[d] <= dep[c] /\ dep[c] <= dep[w] /\ dep[w] <= dep[v]
            BY <2>5, <4>3, <4>4, <4>6, <6>1
          <6> QED
            BY <4>4, <6>1, <6>2
        <5>3. Top(dep, k)
          BY <1>2, <4>1, <5>1, <5>2 DEF Top
        <5> QED
          BY <5>1, <5>3 DEF Committed
      <4> QED
        BY <4>5, <4>6
    <3> QED
      BY <3>1, <3>2
  <2>12. /\ n \in Lists /\ n.all = k.all /\ n.preBlock = k.preBlock
         /\ Top(dep, n) /\ Low(dep, n) /\ Committed(dep, n)
    BY <2>8, <2>10, <2>11, SettleLemma
  <2> QED
    BY <2>9, <2>11, <2>12
<1> QED
  BY <1>6, <1>7
-----------------------------------------------------------------------------
(****************************************************************************)
(* The inductive invariant.  LowestCurrent and TopDeposits feed each other; *)
(* the lists can be adjusted without an error because BondedIffListed holds *)
(* and the minimum deposit has not been raised; deposits stay below         *)
(* MaxInt64 because nobody holds more coins than genesis gave him; and the  *)
(* records EndBlock reads are there because GetUpdateValidatorList only     *)
(* deletes those whose deposit is 0.                                        *)
(****************************************************************************)
(* Parameter changes never raise the minimum committing deposit and leave   *)
(* the length of the oncall list alone.  Without it neither NeverHalts nor  *)
(* BondedIffListed holds.                                                   *)
LoweringOnly ==
  \A s \in ParamSteps : /\ s[2].minCommit <= s[1].minCommit
                        /\ s[2].listSize = s[1].listSize

Affordable == \A u \in Users : wallet[u] + deposit[u] + stake[u] <= Funds

PreBlockRecorded == phase # "commit" => lst.preBlock \subseteq recorded

IInv ==
  /\ TypeOK
  /\ Affordable
  /\ BondedIffListed
  /\ TopDeposits
  /\ LowestCurrent
  /\ PreBlockRecorded
  /\ NeverHalts

(* The lists after one validator x has left them all.                       *)
LEMMA RemoveLemma ==
  ASSUME TypeOK, TopDeposits, BondedIffListed, NEW x \in lst.all,
         NEW dep \in Comparable, \A v \in Users \ {x} : dep[v] = deposit[v],
         NEW o \in RemoveValidatorFromAllLists(dep, lst, x)
  PROVE  /\ o.ok /\ o.lists \in Lists
         /\ o.lists.all = lst.all \ {x} /\ o.lists.preBlock = lst.preBlock
         /\ Top(dep, o.lists) /\ Low(dep, o.lists) /\ Committed(dep, o.lists)
<1> DEFINE k == [lst EXCEPT !.all = @ \ {x}, !.oncall = @ \ {x}]
<1>1. /\ k \in Lists /\ lst \in Lists /\ k.all = lst.all \ {x}
      /\ k.oncall = lst.oncall \ {x} /\ k.preBlock = lst.preBlock
  BY DEF TypeOK, Lists
<1>2. o \in AdjustValidatorList(dep, k)
  BY DEF RemoveValidatorFromAllLists
<1>3. /\ param \in Params /\ param.listSize \in Nat \ {0}
      /\ lst.all \in SUBSET Users /\ lst.oncall \in SUBSET Users
  BY DEF TypeOK, Params, Lists
<1> HIDE DEF k
<1>4. Committed(dep, k)
  BY <1>1, <1>3 DEF Committed, BondedIffListed
<1>5. ASSUME NEW v \in k.oncall, NEW c \in Reserves(k)
      PROVE  dep[v] >= dep[c]
  <2>1. v \in lst.oncall /\ c \in lst.all \ lst.oncall /\ v # x /\ c # x
    BY <1>1 DEF Reserves
  <2>2. deposit[v] >= deposit[c] /\ dep[v] = deposit[v] /\ dep[c] = deposit[c]
    BY <1>3, <2>1 DEF TopDeposits
  <2> QED
    BY <2>2
<1>6. /\ Cardinality(k.oncall) <= param.listSize
      /\ Cardinality(k.oncall) < param.listSize =>
           \/ k.oncall = k.all
           \/ Cardinality(k.oncall) + 1 = param.listSize /\ x \notin k.oncall
  <2>1. /\ IsFiniteSet(lst.oncall) /\ Cardinality(lst.oncall) \in Nat
        /\ Cardinality(lst.oncall) <= param.listSize
    BY <1>3, ListFinite DEF TopDeposits
  <2>2. CASE x \in lst.oncall
    <3>1. Cardinality(lst.oncall \ {x}) = Cardinality(lst.oncall) - 1
      BY <2>1, <2>2, FS_RemoveElement
    <3>2. CASE Cardinality(lst.oncall) < param.listSize
      <4>1. k.oncall = k.all
        BY <1>1, <3>2 DEF TopDeposits
      <4> QED
        BY <1>1, <1>3, <2>1, <3>1, <3>2, <4>1
    <3>3. CASE Cardinality(lst.oncall) = param.listSize
      BY <1>1, <1>3, <2>1, <3>1, <3>3
    <3> QED
      BY <1>3, <2>1, <3>2, <3>3
  <2>3. CASE x \notin lst.oncall
    <3>1. k.oncall = lst.oncall
      BY <1>1, <2>3
    <3>2. ~ (Cardinality(lst.oncall) < param.listSize)
      BY <2>3 DEF TopDeposits
    <3> QED
      BY <1>3, <2>1, <3>1, <3>2
  <2> QED
    BY <2>2, <2>3
<1>7. /\ o.ok /\ o.lists \in Lists
      /\ o.lists.all = k.all /\ o.lists.preBlock = k.preBlock
      /\ Top(dep, o.lists) /\ Low(dep, o.lists) /\ Committed(dep, o.lists)
  BY <1>1, <1>2, <1>3, <1>4, <1>5, <1>6, AdjustLemma
<1> QED
  BY <1>1, <1>7

(* What any punishment leaves behind.                                       *)
LEMMA PunishLemma ==
  ASSUME TypeOK, deposit \in Comparable,
         BondedIffListed, TopDeposits, LowestCurrent,
         NEW u \in Users, NEW amount \in Nat, NEW why,
         NEW o \in PunishOncallValidator(u, amount, why)
  PROVE  /\ o.ok /\ o.lists.preBlock = lst.preBlock
         /\ o.lists.all \subseteq lst.all
         /\ Top(o.deposit, o.lists) /\ Low(o.deposit, o.lists)
         /\ Committed(o.deposit, o.lists)
         /\ \A v \in Users : o.deposit[v] <= deposit[v]
         /\ \A v \in Users \ o.lists.all : o.deposit[v] = 0
         /\ why = "Byzantine" => u \notin o.lists.all
         /\ o.absent = IF why = "AbsentCommit" THEN [absent EXCEPT ![u] = 0] ELSE absent
<1> DEFINE left == IF amount > deposit[u] THEN 0 ELSE deposit[u] - amount
           abs == IF why = "AbsentCommit" THEN [absent EXCEPT ![u] = 0] ELSE absent
           fired == MustGo(why, left)
           dep == [deposit EXCEPT ![u] = IF fired THEN 0 ELSE left]
           Written(l) == {PunishOutcome(dep, abs, deposit[u] - dep[u], q)
                            : q \in AdjustValidatorList(dep, l)}
           Good(q) == /\ q.ok /\ q.lists.preBlock = lst.preBlock
                      /\ q.lists.all \subseteq lst.all
                      /\ Top(dep, q.lists) /\ Low(dep, q.lists)
                      /\ Committed(dep, q.lists)
                      /\ \A v \in Users \ q.lists.all : dep[v] = 0
                      /\ fired => u \notin q.lists.all
<1>1. /\ left \in Nat /\ left <= deposit[u] /\ deposit \in [Users -> Nat]
      /\ lst \in Lists /\ param \in Params /\ deposit[u] < MaxCoin
      /\ lst.oncall \in SUBSET Users /\ lst.all \in SUBSET Users
      /\ param.minCommit \in Nat \ {0} /\ param.listSize \in Nat \ {0}
  BY DEF TypeOK, Comparable, Params, Lists
<1>2. /\ dep[u] = (IF fired THEN 0 ELSE left) /\ dep \in Comparable
      /\ \A v \in Users \ {u} : dep[v] = deposit[v]
      /\ \A v \in Users : dep[v] <= deposit[v]
      /\ dep \in [Users -> Nat]
  BY <1>1, ValidatorAssumption DEF Comparable, Deposits, ValidatorAssumption
<1>3. /\ ~ fired => left >= param.minCommit
      /\ why = "Byzantine" => fired
  BY <1>1 DEF MustGo
<1>8. abs = IF why = "AbsentCommit" THEN [absent EXCEPT ![u] = 0] ELSE absent
  OBVIOUS
<1> HIDE DEF left, abs, fired, dep
<1>4. ASSUME NEW l \in Lists, o \in Written(l),
             \A q \in AdjustValidatorList(dep, l) : Good(q)
      PROVE  /\ o.ok /\ o.lists.preBlock = lst.preBlock
             /\ o.lists.all \subseteq lst.all
             /\ Top(o.deposit, o.lists) /\ Low(o.deposit, o.lists)
             /\ Committed(o.deposit, o.lists)
             /\ \A v \in Users : o.deposit[v] <= deposit[v]
             /\ \A v \in Users \ o.lists.all : o.deposit[v] = 0
             /\ why = "Byzantine" => u \notin o.lists.all
             /\ o.absent = abs
  <2>1. PICK q \in AdjustValidatorList(dep, l) :
          o = PunishOutcome(dep, abs, deposit[u] - dep[u], q)
    BY <1>4
  <2>2. q.ok \in BOOLEAN
    BY <1>2, <2>1, AdjustType DEF Comparable
  <2>3. o.deposit = dep /\ o.lists = q.lists /\ o.ok = q.ok /\ o.absent = abs
    BY <2>1, <2>2 DEF PunishOutcome
  <2>4. Good(q)
    BY <1>4, <2>1
  <2> QED
    BY <1>2, <1>3, <2>3, <2>4
<1>5. CASE ~ fired
  <2>1. o \in Written(lst)
    BY <1>5 DEF PunishOncallValidator, fired, left, dep, abs
  <2>2. dep[u] >= param.minCommit /\ u \in lst.all
    BY <1>1, <1>2, <1>3, <1>5 DEF BondedIffListed
  <2>3. Committed(dep, lst)
    BY <1>1, <1>2, <2>2 DEF Committed, BondedIffListed
  <2>4. ASSUME NEW v \in lst.oncall \ {u}, NEW c \in Reserves(lst)
        PROVE  dep[v] >= dep[c]
    <3>1. deposit[v] >= deposit[c] /\ v \in Users /\ c \in Users
      BY <1>1 DEF TopDeposits, Reserves
    <3> QED
      BY <1>1, <1>2, <3>1
  <2>5. ASSUME NEW q \in AdjustValidatorList(dep, lst)
        PROVE  Good(q)
    <3>1. /\ q.ok /\ q.lists.all = lst.all /\ q.lists.preBlock = lst.preBlock
          /\ Top(dep, q.lists) /\ Low(dep, q.lists) /\ Committed(dep, q.lists)
      BY <1>1, <1>2, <2>3, <2>4, AdjustLemma DEF TopDeposits
    <3>2. \A v \in Users \ lst.all : dep[v] = 0
      BY <1>1, <1>2, <2>2 DEF BondedIffListed
    <3> QED
      BY <1>5, <3>1, <3>2
  <2> QED
    BY <1>1, <1>4, <1>8, <2>1, <2>5
<1>6. CASE fired /\ u \in lst.all
  <2>1. PICK r \in RemoveValidatorFromAllLists(deposit, lst, u) :
          o \in IF r.ok THEN Written(r.lists)
                ELSE {PunishOutcome(deposit, absent, 0, r)}
    BY <1>6 DEF PunishOncallValidator, fired, left, dep, abs
  <2>2. /\ r.ok /\ r.lists \in Lists
        /\ r.lists.all = lst.all \ {u} /\ r.lists.preBlock = lst.preBlock
        /\ Top(deposit, r.lists) /\ Committed(deposit, r.lists)
    BY <1>6, <2>1, RemoveLemma
  <2>3. /\ o \in Written(r.lists) /\ r.lists.oncall \in SUBSET Users
        /\ r.lists.oncall \subseteq r.lists.all
    BY <2>1, <2>2 DEF Lists, Committed
  <2>4. Committed(dep, r.lists)
    BY <1>1, <1>2, <2>2, <2>3 DEF Committed
  <2>5. ASSUME NEW v \in r.lists.oncall \ {u}, NEW c \in Reserves(r.lists)
        PROVE  dep[v] >= dep[c]
    <3>1. deposit[v] >= deposit[c] /\ v \in Users /\ c \in Users /\ c # u /\ v # u
      BY <1>1, <2>2, <2>3 DEF Top, Reserves
    <3> QED
      BY <1>2, <3>1
  <2>6. ASSUME NEW q \in AdjustValidatorList(dep, r.lists)
        PROVE  Good(q)
    <3>1. /\ q.ok /\ q.lists.all = r.lists.all /\ q.lists.preBlock = r.lists.preBlock
          /\ Top(dep, q.lists) /\ Low(dep, q.lists) /\ Committed(dep, q.lists)
      <4>1. /\ Cardinality(r.lists.oncall) <= param.listSize
            /\ Cardinality(r.lists.oncall) < param.listSize => r.lists.oncall = r.lists.all
        BY <2>2 DEF Top
      <4> QED
        BY <1>1, <1>2, <2>2, <2>4, <2>5, <4>1, AdjustLemma, ZenonT(60)
    <3>2. \A v \in Users \ r.lists.all : dep[v] = 0
      BY <1>1, <1>2, <1>6, <2>2 DEF BondedIffListed
    <3> QED
      BY <2>2, <3>1, <3>2
  <2> QED
    BY <1>4, <1>8, <2>2, <2>3, <2>6
<1>7. CASE fired /\ u \notin lst.all
  <2>1. PICK r \in RemoveValidatorFromAllLists(deposit, lst, u) :
          o \in IF r.ok THEN Written(r.lists)
                ELSE {PunishOutcome(deposit, absent, 0, r)}
    BY <1>7 DEF PunishOncallValidator, fired, left, dep, abs
  <2>2. r = Outcome(lst, TRUE)
    BY <1>7, <2>1 DEF RemoveValidatorFromAllLists
  <2>3. r.ok /\ r.lists = lst
    BY <2>2, OutcomeFields
  <2>4. o \in Written(lst) /\ \A v \in Users : dep[v] = deposit[v]
    BY <1>1, <1>2, <1>7, <2>1, <2>3 DEF BondedIffListed
  <2>5. Committed(dep, lst)
    BY <1>1, <2>4 DEF Committed, BondedIffListed
  <2>6. ASSUME NEW v \in lst.oncall \ {u}, NEW c \in Reserves(lst)
        PROVE  dep[v] >= dep[c]
    <3>1. deposit[v] >= deposit[c] /\ v \in Users /\ c \in Users
      BY <1>1 DEF TopDeposits, Reserves
    <3> QED
      BY <2>4, <3>1
  <2>7. ASSUME NEW q \in AdjustValidatorList(dep, lst)
        PROVE  Good(q)
    <3>1. /\ q.ok /\ q.lists.all = lst.all /\ q.lists.preBlock = lst.preBlock
          /\ Top(dep, q.lists) /\ Low(dep, q.lists) /\ Committed(dep, q.lists)
      BY <1>1, <1>2, <2>5, <2>6, AdjustLemma DEF TopDeposits
    <3>2. \A v \in Users \ lst.all : dep[v] = 0
      BY <2>4 DEF BondedIffListed
    <3> QED
      BY <1>7, <3>1, <3>2
  <2> QED
    BY <1>1, <1>4, <1>8, <2>4, <2>7
<1> QED
  BY <1>5, <1>6, <1>7

LEMMA InvInit == Init => IInv
<1> USE ValidatorAssumption DEF ValidatorAssumption
<1> SUFFICES ASSUME Init PROVE IInv
  OBVIOUS
<1>1. TypeOK
  BY TypeInit
<1>2. /\ GenesisParam.minCommit \in Nat \ {0} /\ GenesisParam.listSize \in Nat \ {0}
      /\ param = GenesisParam /\ phase = "commit" /\ recorded = GenesisValidators
      /\ deposit \in [Users -> Nat] /\ stake \in [Users -> Nat]
      /\ deposit = [u \in Users |-> Bonded(u) * GenesisParam.minCommit]
      /\ wallet = [u \in Users |-> Funds - deposit[u] - stake[u]]
  BY <1>1 DEF Init, TypeOK, Params
<1>3. \A u \in Users : deposit[u] = IF u \in GenesisValidators THEN param.minCommit ELSE 0
  BY <1>2 DEF Bonded
<1>4. Affordable
  BY <1>2 DEF Affordable
<1>5. deposit \in Comparable
  <2>1. GenesisParam.minCommit < MaxCoin
    BY <1>2
  <2> QED
    BY <1>2, <1>3, <2>1 DEF Comparable, Deposits
<1>6. PICK on \in SUBSET GenesisValidators :
        /\ Cardinality(on) <= param.listSize
        /\ Cardinality(on) < param.listSize => on = GenesisValidators
        /\ lst \in UpdateLowestValidator(deposit,
             [oncall |-> on, all |-> GenesisValidators, preBlock |-> {},
              lowestPower |-> 0, lowestValidator |-> None])
  BY DEF Init
<1> DEFINE l == [oncall |-> on, all |-> GenesisValidators, preBlock |-> {},
                 lowestPower |-> 0, lowestValidator |-> None]
<1>7. l \in Lists /\ l.oncall = on /\ l.all = GenesisValidators
  BY DEF Lists
<1>8. Top(deposit, l) /\ Committed(deposit, l)
  BY <1>2, <1>3, <1>6, <1>7 DEF Top, Committed, Reserves
<1>9. lst.all = GenesisValidators /\ Top(deposit, lst) /\ Low(deposit, lst)
      /\ Committed(deposit, lst)
  BY <1>5, <1>6, <1>7, <1>8, SettleLemma
<1> QED
  BY <1>1, <1>2, <1>3, <1>4, <1>9
     DEF IInv, BondedIffListed, TopDeposits, LowestCurrent, PreBlockRecorded,
         NeverHalts, Top, Low, Committed, Reserves

LEMMA InvStep ==
  ASSUME LoweringOnly
  PROVE  IInv /\ [Next]_vars => IInv'
<1> USE ValidatorAssumption DEF ValidatorAssumption
<1> SUFFICES ASSUME IInv, [Next]_vars PROVE IInv'
  OBVIOUS
<1>0. /\ TypeOK /\ TypeOK' /\ Affordable /\ BondedIffListed
      /\ TopDeposits /\ LowestCurrent /\ PreBlockRecorded /\ NeverHalts
  BY TypeStep DEF IInv
<1>t. /\ deposit \in [Users -> Nat] /\ deposit' \in [Users -> Nat]
      /\ wallet \in [Users -> Nat] /\ stake \in [Users -> Nat]
      /\ wallet' \in [Users -> Nat] /\ stake' \in [Users -> Nat]
      /\ lst \in Lists /\ lst' \in Lists /\ param \in Params /\ param' \in Params
      /\ lst.oncall \in SUBSET Users /\ lst.all \in SUBSET Users
      /\ param.minCommit \in Nat \ {0} /\ param.listSize \in Nat \ {0}
  BY <1>0 DEF TypeOK, Params, Lists
<1>d. deposit \in Comparable
  BY <1>0, <1>t DEF Affordable, Comparable, Deposits
<1> DEFINE Kept == UNCHANGED <<param, deposit, lst>>
<1>k. ASSUME Kept PROVE TopDeposits' /\ LowestCurrent'
  BY <1>0, <1>k DEF TopDeposits, LowestCurrent
<1>a. ASSUME UNCHANGED <<wallet, deposit, stake>> PROVE Affordable'
  BY <1>0, <1>a DEF Affordable
<1>b. ASSUME Kept, UNCHANGED recorded PROVE BondedIffListed'
  BY <1>0, <1>b DEF BondedIffListed
<1> USE DEF records, loop
<1>1. CASE BeginBlock
  <2>1. lst' = [lst EXCEPT !.preBlock = lst.oncall] /\ lst.oncall \subseteq recorded
    BY <1>0, <1>1 DEF BeginBlock, BondedIffListed, TypeOK, Lists
  <2>2. /\ lst'.oncall = lst.oncall /\ lst'.all = lst.all /\ lst'.preBlock = lst.oncall
        /\ lst'.lowestPower = lst.lowestPower
        /\ lst'.lowestValidator = lst.lowestValidator
    BY <1>t, <2>1 DEF Lists
  <2>3. TopDeposits' /\ LowestCurrent' /\ BondedIffListed'
    BY <1>0, <1>1, <2>2 DEF BeginBlock, TopDeposits, LowestCurrent, BondedIffListed
  <2>4. PreBlockRecorded' /\ NeverHalts'
    BY <1>1, <2>1, <2>2 DEF BeginBlock, PreBlockRecorded, NeverHalts
  <2> QED
    BY <1>0, <1>1, <1>a, <2>3, <2>4 DEF BeginBlock, IInv
<1>2. CASE FireDone \/ DecideProposal \/ PunishDone \/ EventsDone
  <2>1. Kept /\ UNCHANGED <<wallet, stake, recorded>>
    BY <1>2 DEF FireDone, FinishFire, DecideProposal, PunishDone, EventsDone
  <2>2. phase # "commit" /\ phase' # "halted"
    BY <1>2 DEF FireDone, FinishFire, DecideProposal, PunishDone, EventsDone
  <2>3. PreBlockRecorded' /\ NeverHalts'
    BY <1>0, <2>1, <2>2 DEF PreBlockRecorded, NeverHalts
  <2> QED
    BY <1>0, <1>k, <1>a, <1>b, <2>1, <2>3 DEF IInv
<1>3. CASE ChangeParam
  <2>1. PICK s \in ParamSteps : param = s[1] /\ param' = s[2]
    BY <1>3 DEF ChangeParam
  <2>2. param'.minCommit <= param.minCommit /\ param'.listSize = param.listSize
    BY <2>1 DEF LoweringOnly
  <2>3. param'.minCommit \in Nat
    BY <1>t DEF Params
  <2>4. UNCHANGED <<records, lst, stake, wallet, phase>> /\ phase = "events"
    BY <1>3 DEF ChangeParam
  <2>5. BondedIffListed'
    BY <1>0, <1>t, <2>2, <2>3, <2>4 DEF BondedIffListed
  <2>6. TopDeposits' /\ LowestCurrent'
    BY <1>0, <2>2, <2>4 DEF TopDeposits, LowestCurrent
  <2> QED
    BY <1>0, <1>a, <2>4, <2>5, <2>6 DEF IInv, PreBlockRecorded, NeverHalts
<1>4. ASSUME NEW u \in Users,
             FireByzantine(u) \/ FireAbsent(u) \/ PunishDidntVote(u)
      PROVE  IInv'
  <2>1. PICK amount \in Nat, why \in {"Byzantine", "AbsentCommit", "DidntVote"} :
          \E o \in PunishOncallValidator(u, amount, why) :
            Punished(o) /\ (o.ok => phase' # "halted")
    BY <1>0, <1>4 DEF FireByzantine, FireAbsent, PunishDidntVote, FinishFire, NeverHalts
  <2>2. PICK o \in PunishOncallValidator(u, amount, why) :
            Punished(o) /\ (o.ok => phase' # "halted")
    BY <2>1
  <2>3. /\ o.ok /\ o.lists.preBlock = lst.preBlock
        /\ o.lists.all \subseteq lst.all
        /\ Top(o.deposit, o.lists) /\ Low(o.deposit, o.lists)
        /\ Committed(o.deposit, o.lists)
        /\ \A v \in Users : o.deposit[v] <= deposit[v]
        /\ \A v \in Users \ o.lists.all : o.deposit[v] = 0
        /\ why = "Byzantine" => u \notin o.lists.all
        /\ o.absent = IF why = "AbsentCommit" THEN [absent EXCEPT ![u] = 0] ELSE absent
    BY <1>0, <1>d, PunishLemma
  <2>4. /\ deposit' = o.deposit /\ lst' = o.lists /\ phase' # "halted"
        /\ UNCHANGED <<param, recorded, stake, wallet>> /\ phase # "commit"
    BY <1>4, <2>2, <2>3 DEF Punished, FireByzantine, FireAbsent, PunishDidntVote
  <2>5. BondedIffListed'
    BY <1>0, <1>t, <2>3, <2>4 DEF BondedIffListed, Committed
  <2>6. TopDeposits' /\ LowestCurrent'
    BY <2>3, <2>4 DEF TopDeposits, LowestCurrent, Top, Low, Reserves
  <2>7. Affordable'
    BY <1>0, <1>t, <2>3, <2>4 DEF Affordable
  <2>8. PreBlockRecorded' /\ NeverHalts'
    BY <1>0, <2>3, <2>4 DEF PreBlockRecorded, NeverHalts
  <2> QED
    BY <1>0, <2>5, <2>6, <2>7, <2>8 DEF IInv
<1>5. ASSUME NEW u \in Users, KeepValidator(u) PROVE IInv'
  <2>1. Kept /\ UNCHANGED <<wallet, stake, recorded, phase>>
    BY <1>5 DEF KeepValidator
  <2> QED
    BY <1>0, <1>k, <1>a, <1>b, <2>1 DEF IInv, PreBlockRecorded, NeverHalts
<1>6. ASSUME NEW u \in Users, ValidatorRevoke(u) PROVE IInv'
  <2>1. /\ deposit' = [deposit EXCEPT ![u] = 0] /\ deposit[u] # 0
        /\ wallet' = [wallet EXCEPT ![u] = @ + deposit[u]]
        /\ UNCHANGED <<param, recorded, stake, phase>>
    BY <1>6 DEF ValidatorRevoke
  <2>2. PICK o \in RemoveValidatorFromAllLists(deposit', lst, u) : lst' = o.lists
    BY <1>6 DEF ValidatorRevoke
  <2>3. u \in lst.all
    BY <1>0, <2>1 DEF BondedIffListed
  <2>4. deposit' \in Comparable /\ \A v \in Users \ {u} : deposit'[v] = deposit[v]
    BY <1>d, <1>t, <2>1 DEF Comparable, Deposits
  <2>5. /\ lst'.all = lst.all \ {u} /\ lst'.preBlock = lst.preBlock
        /\ Top(deposit', lst') /\ Low(deposit', lst') /\ Committed(deposit', lst')
    BY <1>0, <2>2, <2>3, <2>4, RemoveLemma
  <2>6. BondedIffListed'
    BY <1>0, <1>t, <2>1, <2>5 DEF BondedIffListed, Committed
  <2>7. TopDeposits' /\ LowestCurrent'
    BY <2>1, <2>5 DEF TopDeposits, LowestCurrent, Top, Low, Reserves
  <2>8. Affordable'
    BY <1>0, <1>t, <2>1 DEF Affordable
  <2> QED
    BY <1>0, <2>1, <2>5, <2>6, <2>7, <2>8 DEF IInv, PreBlockRecorded, NeverHalts
<1>7. ASSUME NEW u \in Users, NEW amount \in Amounts, ValidatorWithdraw(u, amount)
      PROVE  IInv'
  <2>1. /\ deposit' = [deposit EXCEPT ![u] = @ - amount]
        /\ wallet' = [wallet EXCEPT ![u] = @ + amount]
        /\ UNCHANGED <<param, recorded, stake, phase, lst>>
        /\ u \notin lst.oncall /\ deposit[u] - amount >= param.minCommit
        /\ amount \in Nat
    BY <1>7 DEF ValidatorWithdraw, IsLegalWithdraw
  <2>2. deposit'[u] <= deposit[u] /\ deposit'[u] >= param.minCommit /\ u \in lst.all
    BY <1>0, <1>t, <2>1 DEF BondedIffListed
  <2>3. \A v \in Users \ {u} : deposit'[v] = deposit[v]
    BY <1>t, <2>1
  <2>4. BondedIffListed'
    BY <1>0, <1>t, <2>1, <2>2, <2>3 DEF BondedIffListed
  <2>5. \A v \in lst.oncall : deposit'[v] = deposit[v]
    BY <1>t, <2>1, <2>3
  <2>6. \A v \in Users : deposit'[v] <= deposit[v]
    BY <1>t, <2>2, <2>3
  <2>7. TopDeposits'
    <3>1. ASSUME NEW v \in lst.oncall, NEW c \in lst.all \ lst.oncall
          PROVE  deposit'[v] >= deposit'[c]
      <4>1. deposit[v] >= deposit[c] /\ v \in Users /\ c \in Users
        BY <1>0, <1>t DEF TopDeposits
      <4> QED
        BY <1>t, <2>5, <2>6, <4>1
    <3> QED
      BY <1>0, <2>1, <3>1 DEF TopDeposits
  <2>8. LowestCurrent'
    BY <1>0, <2>1, <2>5 DEF LowestCurrent
  <2>9. Affordable'
    BY <1>0, <1>t, <2>1 DEF Affordable
  <2> QED
    BY <1>0, <2>1, <2>4, <2>7, <2>8, <2>9 DEF IInv, PreBlockRecorded, NeverHalts
<1>8. ASSUME NEW u \in Users, NEW amount \in Amounts, NEW k \in KeysOf[u],
             ValidatorDeposit(u, amount, k)
      PROVE  IInv'
  <2>1. /\ deposit' = [deposit EXCEPT ![u] = @ + amount] /\ amount \in Nat
        /\ wallet' = [wallet EXCEPT ![u] = @ - amount]
        /\ recorded' = recorded \cup {u}
        /\ UNCHANGED <<param, stake, phase>>
    BY <1>8 DEF ValidatorDeposit, Spend
  <2>2. PICK o \in TryBecomeOncallValidator(deposit', lst, u) : o.ok /\ lst' = o.lists
    BY <1>8 DEF ValidatorDeposit
  <2>3. Affordable'
    BY <1>0, <1>t, <2>1 DEF Affordable
  <2>4. deposit' \in Comparable
    BY <1>t, <2>3 DEF Affordable, Comparable, Deposits
  <2>5. /\ deposit'[u] >= deposit[u] /\ \A v \in Users \ {u} : deposit'[v] = deposit[v]
    BY <1>t, <2>1
  <2>6. deposit'[u] >= param.minCommit
    <3>1. CASE deposit'[u] < param.minCommit
      <4>1. o = Outcome(lst, FALSE)
        BY <2>2, <3>1 DEF TryBecomeOncallValidator
      <4> QED
        BY <2>2, <4>1, OutcomeFields
    <3> QED
      BY <1>t, <3>1
  <2>7. \A c \in lst.all \cup {u} : deposit'[c] >= param.minCommit
    BY <1>0, <1>t, <2>5, <2>6 DEF BondedIffListed
  <2>8. ASSUME NEW v \in lst.oncall, NEW c \in Reserves(lst) \ {u}
        PROVE  deposit'[v] >= deposit'[c]
    <3>1. deposit[v] >= deposit[c] /\ v \in Users /\ c \in Users
      BY <1>0, <1>t DEF TopDeposits, Reserves
    <3> QED
      BY <1>t, <2>5, <3>1
  <2>9. u \notin lst.oncall => Low(deposit', lst)
    BY <1>0, <1>t, <2>5 DEF LowestCurrent, Low
  <2>10. lst.oncall \subseteq lst.all
    BY <1>0 DEF BondedIffListed
  <2>11. /\ Cardinality(lst.oncall) <= param.listSize
         /\ Cardinality(lst.oncall) < param.listSize =>
              lst.oncall \cup {u} = lst.all \cup {u}
    BY <1>0 DEF TopDeposits
  <2>12. /\ lst'.all = lst.all \cup {u} /\ lst'.preBlock = lst.preBlock
         /\ Top(deposit', lst') /\ Low(deposit', lst') /\ Committed(deposit', lst')
    BY <1>t, <2>2, <2>4, <2>7, <2>8, <2>9, <2>10, <2>11, JoinLemma
  <2>13. BondedIffListed'
    BY <1>0, <1>t, <2>1, <2>5, <2>12 DEF BondedIffListed, Committed
  <2>14. TopDeposits' /\ LowestCurrent'
    BY <2>1, <2>12 DEF TopDeposits, LowestCurrent, Top, Low, Reserves
  <2>15. PreBlockRecorded' /\ NeverHalts'
    BY <1>0, <2>1, <2>12 DEF PreBlockRecorded, NeverHalts
  <2> QED
    BY <1>0, <2>3, <2>13, <2>14, <2>15 DEF IInv
<1>9. ASSUME NEW u \in Users, NEW amount \in StakeAmounts,
             StakeIn(u, amount) \/ StakeOut(u, amount)
      PROVE  IInv'
  <2>1. Kept /\ UNCHANGED <<recorded, phase>>
    BY <1>9 DEF StakeIn, StakeOut
  <2>2. Affordable'
    BY <1>0, <1>9, <1>t DEF StakeIn, StakeOut, Spend, Affordable
  <2> QED
    BY <1>0, <1>k, <1>b, <2>1, <2>2 DEF IInv, PreBlockRecorded, NeverHalts
<1>10. CASE EndBlock
  <2>0. phase = "tx"
    BY <1>10 DEF EndBlock
  <2>1. Dropped \cup lst.oncall \subseteq recorded
    BY <1>0, <1>t, <2>0 DEF Dropped, PreBlockRecorded, BondedIffListed
  <2>2. /\ recorded' = recorded \ Forgotten /\ phase' = "commit"
        /\ Kept /\ UNCHANGED <<stake, wallet>>
    BY <1>10, <2>1 DEF EndBlock
  <2>3. \A v \in lst.all : v \notin Forgotten
    BY <1>0, <1>t DEF BondedIffListed, Forgotten
  <2>4. BondedIffListed'
    BY <1>0, <2>2, <2>3 DEF BondedIffListed
  <2>5. PreBlockRecorded' /\ NeverHalts'
    BY <2>2 DEF PreBlockRecorded, NeverHalts
  <2> QED
    BY <1>0, <1>k, <1>a, <2>2, <2>4, <2>5 DEF IInv
<1>11. CASE UNCHANGED vars
  <2>1. Kept /\ UNCHANGED <<wallet, stake, recorded, phase>>
    BY <1>11 DEF vars
  <2> QED
    BY <1>0, <1>k, <1>a, <1>b, <2>1 DEF IInv, PreBlockRecorded, NeverHalts
<1> QED
  BY <1>1, <1>2, <1>3, <1>4, <1>5, <1>6, <1>7, <1>8, <1>9, <1>10, <1>11 DEF Next, Transactions
-----------------------------------------------------------------------------
(* The inductive invariant holds throughout.                                *)
THEOREM Invariance ==
  ASSUME LoweringOnly
  PROVE  Spec => []IInv
<1>1. Init => IInv
  BY InvInit
<1>2. IInv /\ [Next]_vars => IInv'
  BY InvStep
<1> QED
  BY <1>1, <1>2, PTL DEF Spec

(* The block machinery (UpdateSigningValidator, FireIncompetentValidator,   *)
(* PunishValidatorsDidntVote, GetUpdateValidatorList) never panics for want *)
(* of a record or because a candidate cannot be taken.                      *)
THEOREM NoHalt ==
  ASSUME LoweringOnly
  PROVE  Spec => []NeverHalts
<1>1. IInv => NeverHalts
  BY DEF IInv
<1> QED
  BY <1>1, Invariance, PTL

(* A user has a deposit exactly while AllValidators lists him, and then at  *)
(* least the minimum.                                                       *)
THEOREM Bonding ==
  ASSUME LoweringOnly
  PROVE  Spec => []BondedIffListed
<1>1. IInv => BondedIffListed
  BY DEF IInv
<1> QED
  BY <1>1, Invariance, PTL

(* One swap at a time keeps the largest deposits on the oncall list.        *)
THEOREM TopValidators ==
  ASSUME LoweringOnly
  PROVE  Spec => []TopDeposits
<1>1. IInv => TopDeposits
  BY DEF IInv
<1> QED
  BY <1>1, Invariance, PTL

(* LowestPower is never stale when TryBecomeOncallValidator reads it.       *)
THEOREM LowestKnown ==
  ASSUME LoweringOnly
  PROVE  Spec => []LowestCurrent
<1>1. IInv => LowestCurrent
  BY DEF IInv
<1> QED
  BY <1>1, Invariance, PTL
-----------------------------------------------------------------------------
(****************************************************************************)
(* The firing loop and Tendermint's set, on top of IInv: who is still to be *)
(* looked at by the loop, and which keys the application has reported.      *)
(****************************************************************************)
Escaping ==
  /\ phase = "fire" =>
       \A u \in lst.preBlock : key[u] \in evidence =>
         (u \in toFire /\ u # current) \/ u \notin lst.all
  /\ phase \in {"events", "vote"} =>
       \A u \in lst.preBlock : key[u] \in evidence => u \notin lst.all
  /\ \A u \in Users : absent[u] > AbsentLimit => phase = "fire" /\ u \in toFire

Reported ==
  tmSet = {key[u] : u \in IF phase = "commit" THEN lst.oncall ELSE lst.preBlock}

SInv == IInv /\ Escaping /\ Reported

LEMMA EscapingStep ==
  ASSUME LoweringOnly
  PROVE  SInv /\ [Next]_vars => Escaping'
<1> USE ValidatorAssumption DEF ValidatorAssumption, records, loop
<1> SUFFICES ASSUME SInv, [Next]_vars PROVE Escaping'
  OBVIOUS
<1>0. /\ TypeOK /\ TypeOK' /\ IInv /\ IInv' /\ Escaping
      /\ BondedIffListed /\ BondedIffListed' /\ NeverHalts'
  BY InvStep DEF SInv, IInv
<1>t. /\ absent \in [Users -> Nat] /\ lst \in Lists /\ lst.preBlock \subseteq Users
      /\ lst.oncall \subseteq Users /\ lst.all \subseteq Users
      /\ toFire \subseteq Users /\ None \notin Users
  BY <1>0 DEF TypeOK, Lists
<1>1. CASE BeginBlock
  <2>1. lst'.preBlock = lst.oncall /\ phase' = "fire" /\ toFire' = lst.oncall
        /\ current' = None /\ evidence' \subseteq Keys
    BY <1>0, <1>1, <1>t DEF BeginBlock, Lists, NeverHalts
  <2>2. \A u \in Users : u \notin lst.oncall => absent'[u] = absent[u]
    BY <1>1 DEF BeginBlock
  <2>3. \A u \in Users : absent[u] > AbsentLimit => FALSE
    BY <1>0, <1>1 DEF BeginBlock, Escaping
  <2> QED
    BY <1>t, <2>1, <2>2, <2>3 DEF Escaping
<1>2. CASE FireDone
  BY <1>0, <1>2, <1>t DEF FireDone, FinishFire, Escaping
<1>3. CASE DecideProposal
  BY <1>0, <1>3 DEF DecideProposal, Escaping
<1>4. CASE PunishDone
  BY <1>0, <1>4 DEF PunishDone, Escaping
<1>5. CASE ChangeParam
  BY <1>0, <1>5 DEF ChangeParam, Escaping
<1>6. CASE EventsDone
  BY <1>0, <1>6 DEF EventsDone, Escaping
<1>7. ASSUME NEW u \in Users,
             FireByzantine(u) \/ FireAbsent(u) \/ PunishDidntVote(u)
      PROVE  Escaping'
  <2> DEFINE Post(o, why) ==
        /\ o.ok /\ o.lists.preBlock = lst.preBlock
        /\ o.lists.all \subseteq lst.all
        /\ why = "Byzantine" => u \notin o.lists.all
        /\ o.absent = IF why = "AbsentCommit" THEN [absent EXCEPT ![u] = 0] ELSE absent
  <2>1. ASSUME NEW amount \in Nat, NEW why,
               NEW o \in PunishOncallValidator(u, amount, why)
        PROVE  Post(o, why)
    <3>1. TypeOK /\ deposit \in Comparable /\ BondedIffListed /\ TopDeposits /\ LowestCurrent
      BY <1>0 DEF IInv, Affordable, Comparable, Deposits, TypeOK
    <3> QED
      BY <3>1, PunishLemma
  <2> HIDE DEF Post
  <2>2. CASE FireByzantine(u)
    <3>1. PICK o \in PunishOncallValidator(u, PenaltyByzantine, "Byzantine") :
            /\ Punished(o)
            /\ o.ok => current' = u /\ UNCHANGED <<phase, toFire>>
      BY <2>2 DEF FireByzantine
    <3>2. Post(o, "Byzantine")
      BY <2>1
    <3>3. /\ lst'.preBlock = lst.preBlock /\ lst'.all \subseteq lst.all
          /\ u \notin lst'.all /\ current' = u /\ current = None /\ phase = "fire"
          /\ UNCHANGED <<absent, phase, toFire, key, evidence>>
      BY <2>2, <3>1, <3>2 DEF Punished, Post, FireByzantine
    <3> QED
      BY <1>0, <1>t, <3>3 DEF Escaping
  <2>3. CASE FireAbsent(u)
    <3>1. PICK o \in PunishOncallValidator(u, PenaltyMissCommit, "AbsentCommit") :
            /\ Punished(o)
            /\ o.ok => /\ toFire' = toFire \ {u} /\ current' = None
                       /\ UNCHANGED phase
      BY <2>3 DEF FireAbsent
    <3>2. Post(o, "AbsentCommit")
      BY <2>1
    <3>3. /\ lst'.preBlock = lst.preBlock /\ lst'.all \subseteq lst.all
          /\ toFire' = toFire \ {u} /\ current' = None /\ phase = "fire"
          /\ current = u \/ (current = None /\ key[u] \notin evidence)
          /\ absent' = [absent EXCEPT ![u] = 0]
          /\ UNCHANGED <<phase, key, evidence>>
      BY <2>3, <3>1, <3>2 DEF Punished, Post, FireAbsent
    <3>4. absent'[u] = 0 /\ \A v \in Users \ {u} : absent'[v] = absent[v]
      BY <1>t, <3>3
    <3> QED
      BY <1>0, <1>t, <3>3, <3>4 DEF Escaping
  <2>4. CASE PunishDidntVote(u)
    <3>1. PICK o \in PunishOncallValidator(u, PenaltyMissVote, "DidntVote") :
            /\ Punished(o)
            /\ o.ok => phase' = "vote"
      BY <2>4 DEF PunishDidntVote
    <3>2. Post(o, "DidntVote")
      BY <2>1
    <3>3. /\ lst'.preBlock = lst.preBlock /\ lst'.all \subseteq lst.all
          /\ phase = "vote" /\ phase' = "vote"
          /\ UNCHANGED <<absent, key, evidence>>
      BY <2>4, <3>1, <3>2 DEF Punished, Post, PunishDidntVote
    <3> QED
      BY <1>0, <1>t, <3>3 DEF Escaping
  <2> QED
    BY <1>7, <2>2, <2>3, <2>4
<1>8. ASSUME NEW u \in Users, KeepValidator(u) PROVE Escaping'
  <2>1. /\ phase = "fire" /\ toFire' = toFire \ {u} /\ current' = None
        /\ current = u \/ (current = None /\ key[u] \notin evidence)
        /\ absent[u] <= AbsentLimit
        /\ UNCHANGED <<absent, phase, key, evidence, lst>>
    BY <1>8 DEF KeepValidator
  <2> QED
    BY <1>0, <1>t, <2>1 DEF Escaping
<1>9. ASSUME NEW u \in Users, ValidatorRevoke(u) PROVE Escaping'
  BY <1>0, <1>9 DEF ValidatorRevoke, Escaping
<1>10. ASSUME NEW u \in Users, NEW amount \in Amounts, ValidatorWithdraw(u, amount)
       PROVE  Escaping'
  BY <1>0, <1>10 DEF ValidatorWithdraw, Escaping
<1>11. ASSUME NEW u \in Users, NEW amount \in Amounts, NEW k \in KeysOf[u],
              ValidatorDeposit(u, amount, k)
       PROVE  Escaping'
  <2>1. phase = "tx" /\ phase' = "tx" /\ \A v \in Users : absent'[v] \in {0, absent[v]}
    BY <1>11, <1>t DEF ValidatorDeposit
  <2> QED
    BY <1>0, <1>t, <2>1 DEF Escaping
<1>12. ASSUME NEW u \in Users, NEW amount \in StakeAmounts,
              StakeIn(u, amount) \/ StakeOut(u, amount)
       PROVE  Escaping'
  BY <1>0, <1>12 DEF StakeIn, StakeOut, Escaping
<1>13. CASE EndBlock
  <2>1. phase = "tx" /\ phase' \in {"commit", "halted"}
        /\ \A v \in Users : absent'[v] \in {0, absent[v]}
    BY <1>13, <1>t DEF EndBlock
  <2> QED
    BY <1>0, <1>t, <2>1 DEF Escaping
<1>14. CASE UNCHANGED vars
  BY <1>0, <1>14 DEF vars, Escaping
<1> QED
  BY <1>1, <1>2, <1>3, <1>4, <1>5, <1>6, <1>7, <1>8, <1>9, <1>10, <1>11, <1>12,
     <1>13, <1>14 DEF Next, Transactions

LEMMA ReportedStep ==
  ASSUME LoweringOnly
  PROVE  SInv /\ [Next]_vars => Reported'
<1> USE ValidatorAssumption DEF ValidatorAssumption, records, loop
<1> SUFFICES ASSUME SInv, [Next]_vars PROVE Reported'
  OBVIOUS
<1>0. /\ TypeOK /\ IInv /\ IInv' /\ Reported /\ BondedIffListed
      /\ PreBlockRecorded /\ NeverHalts'
  BY InvStep DEF SInv, IInv
<1>t. /\ lst \in Lists /\ lst.preBlock \subseteq Users /\ key \in [Users -> Keys \cup {None}]
      /\ lst.oncall \subseteq Users /\ lst.all \subseteq Users /\ deposit \in [Users -> Nat]
      /\ param.minCommit \in Nat \ {0}
  BY <1>0 DEF TypeOK, Lists, Params
<1> DEFINE Signing == IF phase = "commit" THEN lst.oncall ELSE lst.preBlock
(* Most steps leave the three things alone that Reported reads.             *)
<1>u. ASSUME UNCHANGED tmSet, Signing' = Signing, \A u \in Signing : key'[u] = key[u]
      PROVE  Reported'
  BY <1>0, <1>u DEF Reported
<1>1. CASE BeginBlock
  <2>1. lst'.preBlock = lst.oncall /\ phase = "commit" /\ phase' = "fire" /\ UNCHANGED <<key, tmSet>>
    BY <1>0, <1>1, <1>t DEF BeginBlock, Lists, NeverHalts
  <2> QED
    BY <1>u, <2>1
<1>2. CASE FireDone \/ DecideProposal \/ PunishDone \/ ChangeParam \/ EventsDone
  <2>1. UNCHANGED <<key, tmSet, lst>> /\ phase # "commit" /\ phase' # "commit"
    BY <1>2 DEF FireDone, FinishFire, DecideProposal, PunishDone, ChangeParam, EventsDone
  <2> QED
    BY <1>u, <2>1
<1>3. ASSUME NEW u \in Users,
             FireByzantine(u) \/ FireAbsent(u) \/ PunishDidntVote(u)
      PROVE  Reported'
  <2>1. PICK amount \in Nat, why \in {"Byzantine", "AbsentCommit", "DidntVote"} :
          \E o \in PunishOncallValidator(u, amount, why) : Punished(o)
    BY <1>3 DEF FireByzantine, FireAbsent, PunishDidntVote
  <2>2. PICK o \in PunishOncallValidator(u, amount, why) : Punished(o)
    BY <2>1
  <2>3. deposit \in Comparable /\ TopDeposits /\ LowestCurrent
    BY <1>0 DEF IInv, Affordable, Comparable, Deposits, TypeOK
  <2>4. o.lists.preBlock = lst.preBlock
    BY <1>0, <2>3, PunishLemma, Zenon
  <2>5. lst'.preBlock = lst.preBlock /\ UNCHANGED key
    BY <2>2, <2>4 DEF Punished
  <2>6. UNCHANGED tmSet /\ phase # "commit" /\ phase' # "commit"
    BY <1>3 DEF FireByzantine, FireAbsent, PunishDidntVote, FinishFire
  <2> QED
    BY <1>u, <2>5, <2>6
<1>4. ASSUME NEW u \in Users, ValidatorRevoke(u) PROVE Reported'
  <2>1. /\ phase = "tx" /\ UNCHANGED <<phase, tmSet, key>>
        /\ deposit' = [deposit EXCEPT ![u] = 0] /\ deposit[u] # 0
    BY <1>4 DEF ValidatorRevoke
  <2>2. PICK o \in RemoveValidatorFromAllLists(deposit', lst, u) : lst' = o.lists
    BY <1>4 DEF ValidatorRevoke
  <2>3. deposit' \in Comparable /\ \A v \in Users \ {u} : deposit'[v] = deposit[v]
    BY <1>0, <1>t, <2>1 DEF IInv, Affordable, Comparable, Deposits, TypeOK
  <2>4. u \in lst.all
    BY <1>0, <2>1 DEF BondedIffListed
  <2>5. TopDeposits
    BY <1>0 DEF IInv
  <2>6. o.lists.preBlock = lst.preBlock
    BY <1>0, <2>2, <2>3, <2>4, <2>5, RemoveLemma, Zenon
  <2>7. lst'.preBlock = lst.preBlock
    BY <2>2, <2>6
  <2> QED
    BY <1>u, <2>1, <2>7
<1>5. ASSUME NEW u \in Users, NEW amount \in Amounts, NEW k \in KeysOf[u],
             ValidatorDeposit(u, amount, k)
      PROVE  Reported'
  <2>1. /\ phase = "tx" /\ UNCHANGED <<phase, tmSet>>
        /\ key' = IF u \in recorded THEN key ELSE [key EXCEPT ![u] = k]
    BY <1>5 DEF ValidatorDeposit
  <2>2. PICK o \in TryBecomeOncallValidator(deposit', lst, u) : lst' = o.lists
    BY <1>5 DEF ValidatorDeposit
  <2>3. deposit' \in Deposits
    BY <1>0 DEF IInv, TypeOK, Deposits, ValidatorDeposit
  <2>4. lst'.preBlock = lst.preBlock
    <3> DEFINE l == IF u \in lst.oncall THEN lst ELSE JoinLists(deposit', lst, u)
    <3>1. l \in Lists /\ l.preBlock = lst.preBlock
      BY <1>t, <2>3, JoinType, ZenonT(60) DEF JoinLists, Lists
    <3>2. CASE deposit'[u] < param.minCommit
      <4>1. o = Outcome(lst, FALSE)
        BY <2>2, <3>2 DEF TryBecomeOncallValidator
      <4> QED
        BY <2>2, <4>1, OutcomeFields
    <3>3. CASE ~ (deposit'[u] < param.minCommit)
      <4>1. PICK m \in UpdateLowestValidator(deposit', l) : o = Outcome(m, TRUE)
        BY <2>2, <3>3 DEF TryBecomeOncallValidator
      <4>2. m.preBlock = l.preBlock
        BY <2>3, <3>1, <4>1, UpdateType
      <4> QED
        BY <2>2, <3>1, <4>1, <4>2, OutcomeFields
    <3> QED
      BY <3>2, <3>3
  <2>5. \A v \in lst.preBlock : key'[v] = key[v]
    BY <1>0, <1>t, <2>1 DEF PreBlockRecorded
  <2> QED
    BY <1>u, <2>1, <2>4, <2>5
<1>6. ASSUME NEW u \in Users,
             \/ KeepValidator(u)
             \/ \E amount \in Amounts : ValidatorWithdraw(u, amount)
             \/ \E amount \in StakeAmounts : StakeIn(u, amount) \/ StakeOut(u, amount)
      PROVE  Reported'
  <2>1. UNCHANGED <<key, tmSet, lst, phase>>
    BY <1>6 DEF KeepValidator, ValidatorWithdraw, StakeIn, StakeOut
  <2> QED
    BY <1>u, <2>1
<1>7. CASE EndBlock
  <2>1. phase = "tx" /\ phase' = "commit" /\ UNCHANGED lst
    BY <1>0, <1>7 DEF EndBlock, NeverHalts
  <2>2. /\ tmSet' = (tmSet \ {key[v] : v \in Dropped}) \cup {key[v] : v \in lst.oncall}
        /\ key' = [v \in Users |-> IF v \in Forgotten THEN None ELSE key[v]]
    BY <1>7, <2>1 DEF EndBlock
  <2>3. \A v \in lst.oncall : key'[v] = key[v]
    <3>1. \A v \in lst.oncall : deposit[v] # 0
      BY <1>0, <1>t DEF BondedIffListed
    <3> QED
      BY <1>t, <2>2, <3>1 DEF Forgotten
  <2>4. tmSet' = {key[v] : v \in lst.oncall}
    <3>1. tmSet = {key[v] : v \in lst.preBlock}
      BY <1>0, <2>1 DEF Reported
    <3>2. tmSet \ {key[v] : v \in Dropped} \subseteq {key[v] : v \in lst.oncall}
      <4>1. ASSUME NEW v \in lst.preBlock, key[v] \notin {key[w] : w \in Dropped}
            PROVE  key[v] \in {key[w] : w \in lst.oncall}
        BY <4>1 DEF Dropped
      <4> QED
        BY <3>1, <4>1
    <3> QED
      BY <2>2, <3>2
  <2>5. {key'[v] : v \in lst.oncall} = {key[v] : v \in lst.oncall}
    BY <2>3
  <2> QED
    BY <2>1, <2>4, <2>5 DEF Reported
<1>8. CASE UNCHANGED vars
  <2>1. UNCHANGED <<key, tmSet, lst, phase>>
    BY <1>8 DEF vars
  <2> QED
    BY <1>u, <2>1
<1> QED
  BY <1>1, <1>2, <1>3, <1>4, <1>5, <1>6, <1>7, <1>8 DEF Next, Transactions

LEMMA SInvInit == Init => SInv
<1> SUFFICES ASSUME Init PROVE SInv
  OBVIOUS
<1>1. IInv /\ TypeOK
  BY InvInit DEF IInv
<1>2. Escaping
  BY ValidatorAssumption DEF Init, Escaping, ValidatorAssumption
<1>3. PICK on \in SUBSET GenesisValidators :
        /\ lst \in UpdateLowestValidator(deposit,
             [oncall |-> on, all |-> GenesisValidators, preBlock |-> {},
              lowestPower |-> 0, lowestValidator |-> None])
        /\ tmSet = {key[u] : u \in on}
  BY DEF Init
<1> DEFINE l == [oncall |-> on, all |-> GenesisValidators, preBlock |-> {},
                 lowestPower |-> 0, lowestValidator |-> None]
<1>4. l \in Lists /\ deposit \in Deposits
  BY <1>1, ValidatorAssumption DEF Lists, TypeOK, Deposits, ValidatorAssumption
<1>5. lst.oncall = on /\ phase = "commit"
  BY <1>3, <1>4, UpdateType DEF Init
<1> QED
  BY <1>1, <1>2, <1>3, <1>5 DEF SInv, Reported

(* No step lets an offender slip out of the firing loop or tells Tendermint *)
(* anything but the oncall list.                                            *)
THEOREM SecondInvariance ==
  ASSUME LoweringOnly
  PROVE  Spec => []SInv
<1>1. Init => SInv
  BY SInvInit
<1>2. SInv /\ [Next]_vars => SInv'
  BY InvStep, EscapingStep, ReportedStep DEF SInv
<1> QED
  BY <1>1, <1>2, PTL DEF Spec

(* Whatever the loop over its snapshot promotes, swaps or removes, every    *)
(* offender of the block is dealt with when it ends.                        *)
THEOREM NobodyEscapes ==
  ASSUME LoweringOnly
  PROVE  Spec => []OffendersPunished
<1>1. SInv => OffendersPunished
  <2> SUFFICES ASSUME SInv, phase = "events" PROVE OffendersPunished
    BY DEF OffendersPunished, ByzantineSlashed
  <2>1. /\ \A u \in lst.preBlock : u \in Users
        /\ \A u \in lst.oncall : u \in Users
        /\ \A u \in Users : absent[u] \in Nat
    BY DEF SInv, IInv, TypeOK, Lists
  <2>2. \A u \in lst.preBlock : key[u] \in evidence => u \notin lst.all
    BY DEF SInv, Escaping
  <2>3. \A u \in Users : absent[u] <= AbsentLimit
    BY <2>1, ValidatorAssumption DEF SInv, Escaping, ValidatorAssumption
  <2> QED
    BY <2>1, <2>2, <2>3 DEF SInv, IInv, BondedIffListed, OffendersPunished, ByzantineSlashed
<1> QED
  BY <1>1, SecondInvariance, PTL

(* The differences reported at the end of each block add up to the oncall   *)
(* list.                                                                    *)
THEOREM TendermintFollows ==
  ASSUME LoweringOnly
  PROVE  Spec => []TendermintAgrees
<1>1. SInv => TendermintAgrees
  BY DEF SInv, Reported, TendermintAgrees
<1> QED
  BY <1>1, SecondInvariance, PTL
-----------------------------------------------------------------------------
(****************************************************************************)
(* Coins.  Every handler moves an amount between two of the sums, and a     *)
(* punishment moves what it takes from a deposit into the penalty of the    *)
(* running loop, which is worth something exactly while the loop runs.  The *)
(* code forgets that penalty when an adjustment of the lists fails          *)
(* (PunishOutcome), so the argument needs IInv, where no adjustment does.   *)
(****************************************************************************)
Held == SumFunction(wallet) + SumFunction(deposit) + SumFunction(stake)

InLoop == IF phase \in {"fire", "vote"} THEN penalty ELSE 0

Ledgers == /\ wallet \in [Users -> Int] /\ deposit \in [Users -> Int]
           /\ stake \in [Users -> Int] /\ pool \in Int /\ penalty \in Int

LEMMA LedgerTypes == TypeOK => Ledgers
BY DEF TypeOK, Ledgers

LEMMA HeldIsInt ==
  ASSUME Ledgers
  PROVE  /\ SumFunction(wallet) \in Int /\ SumFunction(deposit) \in Int
         /\ SumFunction(stake) \in Int /\ Held \in Int /\ InLoop \in Int
<1>1. /\ SumFunction(wallet) \in Int /\ SumFunction(deposit) \in Int
      /\ SumFunction(stake) \in Int
  BY SumTotal, ValidatorAssumption DEF Ledgers, ValidatorAssumption
<1>2. QED BY <1>1 DEF Held, InLoop, Ledgers

(* A handler that touches the money of one user only.                       *)
LEMMA HeldChanges ==
  ASSUME Ledgers, Ledgers', NEW u \in Users,
         \A v \in Users : v # u => /\ wallet'[v] = wallet[v]
                                   /\ deposit'[v] = deposit[v]
                                   /\ stake'[v] = stake[v]
  PROVE  Held' = Held + (wallet'[u] - wallet[u]) + (deposit'[u] - deposit[u])
                      + (stake'[u] - stake[u])
<1>0. IsFiniteSet(Users)
  BY ValidatorAssumption DEF ValidatorAssumption
<1>1. /\ SumFunction(wallet') = SumFunction(wallet) + (wallet'[u] - wallet[u])
      /\ SumFunction(wallet) \in Int /\ SumFunction(wallet') \in Int
  <2>1. wallet \in [Users -> Int] /\ wallet' \in [Users -> Int]
    BY DEF Ledgers
  <2>2. \A v \in Users : v # u => wallet'[v] = wallet[v]
    OBVIOUS
  <2>3. QED BY <1>0, <2>1, <2>2, SumChanges
<1>2. /\ SumFunction(deposit') = SumFunction(deposit) + (deposit'[u] - deposit[u])
      /\ SumFunction(deposit) \in Int /\ SumFunction(deposit') \in Int
  <2>1. deposit \in [Users -> Int] /\ deposit' \in [Users -> Int]
    BY DEF Ledgers
  <2>2. \A v \in Users : v # u => deposit'[v] = deposit[v]
    OBVIOUS
  <2>3. QED BY <1>0, <2>1, <2>2, SumChanges
<1>3. /\ SumFunction(stake') = SumFunction(stake) + (stake'[u] - stake[u])
      /\ SumFunction(stake) \in Int /\ SumFunction(stake') \in Int
  <2>1. stake \in [Users -> Int] /\ stake' \in [Users -> Int]
    BY DEF Ledgers
  <2>2. \A v \in Users : v # u => stake'[v] = stake[v]
    OBVIOUS
  <2>3. QED BY <1>0, <2>1, <2>2, SumChanges
<1>4. QED BY <1>1, <1>2, <1>3 DEF Held, Ledgers

(* What a punishment takes is what it reports.                              *)
LEMMA PunishPays ==
  ASSUME TypeOK, NEW u \in Users, NEW amount \in Nat, NEW why,
         NEW o \in PunishOncallValidator(u, amount, why), o.ok
  PROVE  /\ o.penalty = deposit[u] - o.deposit[u]
         /\ \A v \in Users : v # u => o.deposit[v] = deposit[v]
<1> DEFINE left == IF amount > deposit[u] THEN 0 ELSE deposit[u] - amount
           abs == IF why = "AbsentCommit" THEN [absent EXCEPT ![u] = 0] ELSE absent
           fired == MustGo(why, left)
           dep == [deposit EXCEPT ![u] = IF fired THEN 0 ELSE left]
           Written(l) == {PunishOutcome(dep, abs, deposit[u] - dep[u], q)
                            : q \in AdjustValidatorList(dep, l)}
<1>1. \A v \in Users : v # u => dep[v] = deposit[v]
  BY DEF TypeOK
<1>2. \E l, q : o = PunishOutcome(dep, abs, deposit[u] - dep[u], q)
                \/ (o = PunishOutcome(deposit, absent, 0, q) /\ ~q.ok)
  <2> HIDE DEF dep, abs, left, fired
  <2>1. CASE ~fired
    <3>1. o \in Written(lst)
      BY <2>1 DEF PunishOncallValidator, fired, left, dep, abs
    <3>2. QED BY <3>1
  <2>2. CASE fired
    <3>1. PICK q \in RemoveValidatorFromAllLists(deposit, lst, u) :
            o \in IF q.ok THEN Written(q.lists)
                  ELSE {PunishOutcome(deposit, absent, 0, q)}
      BY <2>2 DEF PunishOncallValidator, fired, left, dep, abs
    <3>2. QED BY <3>1
  <2>3. QED BY <2>1, <2>2
<1> HIDE DEF dep, abs, left, fired
<1>3. PICK q : o = PunishOutcome(dep, abs, deposit[u] - dep[u], q)
               \/ (o = PunishOutcome(deposit, absent, 0, q) /\ ~q.ok)
  BY <1>2
<1>4. o.ok = q.ok
  <2>1. \A d, a, n : PunishOutcome(d, a, n, q).ok = q.ok
    BY DEF PunishOutcome
  <2>2. QED BY <1>3, <2>1
<1>5. o = PunishOutcome(dep, abs, deposit[u] - dep[u], q)
  BY <1>3, <1>4
<1>6. o.penalty = deposit[u] - dep[u] /\ o.deposit = dep
  BY <1>4, <1>5 DEF PunishOutcome
<1>7. QED BY <1>1, <1>6

LEMMA CoinsInit == Init => CoinsConserved
<1> USE ValidatorAssumption DEF ValidatorAssumption
<1> SUFFICES ASSUME Init PROVE CoinsConserved
  OBVIOUS
<1>1. Ledgers
  BY TypeInit, LedgerTypes
<1> DEFINE staked == [u \in Users |-> deposit[u] + stake[u]]
           given == [u \in Users |-> wallet[u] + staked[u]]
<1>2. /\ staked \in [Users -> Int] /\ given \in [Users -> Int]
      /\ \A u \in Users : staked[u] = deposit[u] + stake[u]
  BY <1>1 DEF Ledgers
<1>3. \A u \in Users : given[u] = wallet[u] + staked[u] /\ given[u] = Funds
  BY <1>1, <1>2 DEF Init, Ledgers
<1> HIDE DEF staked, given
<1>4. SumFunctionOnSet(staked, Users)
        = SumFunctionOnSet(deposit, Users) + SumFunctionOnSet(stake, Users)
  BY <1>1, <1>2, SumTwo DEF Ledgers
<1>5. SumFunctionOnSet(given, Users)
        = SumFunctionOnSet(wallet, Users) + SumFunctionOnSet(staked, Users)
  BY <1>1, <1>2, <1>3, SumTwo DEF Ledgers
<1>6. SumFunction(given) = Cardinality(Users) * Funds
  BY <1>2, <1>3, SumConstant
<1>7. /\ SumFunction(given) = SumFunctionOnSet(given, Users)
      /\ SumFunction(wallet) = SumFunctionOnSet(wallet, Users)
      /\ SumFunction(deposit) = SumFunctionOnSet(deposit, Users)
      /\ SumFunction(stake) = SumFunctionOnSet(stake, Users)
  BY <1>1, <1>2, SumTotal DEF Ledgers
<1>8. /\ SumFunction(wallet) \in Int /\ SumFunction(deposit) \in Int
      /\ SumFunction(stake) \in Int
  BY <1>1, HeldIsInt
<1>9. SumFunction(wallet) + SumFunction(deposit) + SumFunction(stake)
        = Cardinality(Users) * Funds
  BY <1>4, <1>5, <1>6, <1>7, <1>8
<1>10. pool = 0 /\ phase = "commit"
  BY DEF Init
<1>11. QED BY <1>8, <1>9, <1>10 DEF CoinsConserved

LEMMA CoinsStep ==
  ASSUME LoweringOnly
  PROVE  IInv /\ [Next]_vars => Held' + pool' + InLoop' = Held + pool + InLoop
<1> USE ValidatorAssumption DEF ValidatorAssumption
<1> SUFFICES ASSUME IInv, [Next]_vars
             PROVE  Held' + pool' + InLoop' = Held + pool + InLoop
  OBVIOUS
<1>1. /\ TypeOK /\ TypeOK' /\ Ledgers /\ Ledgers' /\ Held \in Int /\ InLoop \in Int
      /\ BondedIffListed /\ TopDeposits /\ LowestCurrent /\ Affordable
  <2>1. TypeOK /\ TypeOK'
    BY TypeStep DEF IInv
  <2>2. Ledgers /\ Ledgers'
    BY <2>1 DEF TypeOK, Ledgers
  <2>3. QED BY <2>1, <2>2, HeldIsInt DEF IInv
<1>2. /\ wallet \in [Users -> Nat] /\ deposit \in [Users -> Nat] /\ stake \in [Users -> Nat]
      /\ pool \in Nat /\ penalty \in Nat
  BY <1>1 DEF TypeOK
<1> DEFINE Still == UNCHANGED <<wallet, deposit, stake>>
<1>3. ASSUME Still PROVE Held' = Held
  BY <1>3 DEF Held
<1>4. CASE BeginBlock \/ ChangeParam \/ EventsDone \/ EndBlock
  <2>1. Still /\ pool' = pool
    BY <1>4 DEF BeginBlock, ChangeParam, EventsDone, EndBlock, records
  <2>2. InLoop = 0 /\ InLoop' = 0
    BY <1>4 DEF BeginBlock, ChangeParam, EventsDone, EndBlock, InLoop
  <2>3. QED BY <1>3, <2>1, <2>2
<1>5. CASE FireDone \/ PunishDone
  <2>1. Still /\ pool' = pool + penalty
    BY <1>5 DEF FireDone, PunishDone, FinishFire, records
  <2>2. InLoop = penalty /\ InLoop' = 0
    BY <1>5 DEF FireDone, PunishDone, FinishFire, InLoop
  <2>3. QED BY <1>1, <1>2, <1>3, <2>1, <2>2
<1>6. CASE DecideProposal
  <2>1. Still /\ pool' = pool
    BY <1>6 DEF DecideProposal, records
  <2>2. InLoop = 0 /\ InLoop' = 0
    BY <1>6 DEF DecideProposal, InLoop
  <2>3. QED BY <1>3, <2>1, <2>2
<1>7. ASSUME NEW u \in Users, KeepValidator(u)
      PROVE  Held' + pool' + InLoop' = Held + pool + InLoop
  <2>1. Still /\ pool' = pool /\ InLoop' = InLoop
    BY <1>7 DEF KeepValidator, records, InLoop
  <2>2. QED BY <1>3, <2>1
<1>8. ASSUME NEW u \in Users, FireByzantine(u) \/ FireAbsent(u) \/ PunishDidntVote(u)
      PROVE  Held' + pool' + InLoop' = Held + pool + InLoop
  <2>1. PICK amount \in Nat, why \in {"Byzantine", "AbsentCommit", "DidntVote"} :
          \E o \in PunishOncallValidator(u, amount, why) :
            /\ Punished(o)
            /\ o.ok => pool' = pool /\ phase' = phase /\ phase \in {"fire", "vote"}
    BY <1>8 DEF FireByzantine, FireAbsent, PunishDidntVote, FinishFire
  <2>2. PICK o \in PunishOncallValidator(u, amount, why) :
          /\ Punished(o)
          /\ o.ok => pool' = pool /\ phase' = phase /\ phase \in {"fire", "vote"}
    BY <2>1
  <2>3. deposit \in Comparable
    BY <1>1, <1>2 DEF Affordable, Comparable, Deposits
  <2>4. o.ok
    BY <1>1, <2>3, PunishLemma
  <2>5. /\ o.penalty = deposit[u] - o.deposit[u]
        /\ \A v \in Users : v # u => o.deposit[v] = deposit[v]
    BY <1>1, <2>4, PunishPays
  <2>6. /\ pool' = pool /\ phase' = phase /\ phase \in {"fire", "vote"}
        /\ deposit' = o.deposit /\ penalty' = penalty + o.penalty
        /\ UNCHANGED <<wallet, stake>>
    BY <1>8, <2>2, <2>4 DEF Punished, FireByzantine, FireAbsent, PunishDidntVote
  <2>7. Held' = Held + (wallet'[u] - wallet[u]) + (deposit'[u] - deposit[u])
                     + (stake'[u] - stake[u])
    BY <1>1, <2>5, <2>6, HeldChanges
  <2>8. /\ wallet'[u] = wallet[u] /\ stake'[u] = stake[u] /\ wallet[u] \in Int
        /\ stake[u] \in Int /\ deposit[u] \in Int /\ deposit'[u] \in Int
        /\ penalty' = penalty + (deposit[u] - deposit'[u])
        /\ InLoop = penalty /\ InLoop' = penalty'
    BY <1>1, <1>2, <2>5, <2>6 DEF InLoop, Ledgers
  <2>9. QED BY <1>1, <1>2, <2>6, <2>7, <2>8
<1>9. ASSUME NEW u \in Users, NEW amount \in Amounts,
             ValidatorWithdraw(u, amount) \/ \E k \in KeysOf[u] : ValidatorDeposit(u, amount, k)
      PROVE  Held' + pool' + InLoop' = Held + pool + InLoop
  <2>1. /\ pool' = pool /\ stake' = stake /\ InLoop' = InLoop
        /\ \/ /\ deposit' = [deposit EXCEPT ![u] = @ - amount]
              /\ wallet' = [wallet EXCEPT ![u] = @ + amount]
           \/ /\ deposit' = [deposit EXCEPT ![u] = @ + amount]
              /\ wallet' = [wallet EXCEPT ![u] = @ - amount]
    BY <1>9 DEF ValidatorWithdraw, ValidatorDeposit, Spend, InLoop
  <2>2. /\ \A v \in Users : v # u => /\ wallet'[v] = wallet[v]
                                     /\ deposit'[v] = deposit[v]
                                     /\ stake'[v] = stake[v]
        /\ (wallet'[u] - wallet[u]) + (deposit'[u] - deposit[u]) + (stake'[u] - stake[u]) = 0
    BY <1>2, <2>1
  <2>3. Held' = Held + (wallet'[u] - wallet[u]) + (deposit'[u] - deposit[u])
                     + (stake'[u] - stake[u])
    BY <1>1, <2>2, HeldChanges
  <2>4. /\ wallet[u] \in Int /\ wallet'[u] \in Int /\ deposit[u] \in Int
        /\ deposit'[u] \in Int /\ stake[u] \in Int /\ stake'[u] \in Int
    BY <1>1 DEF Ledgers
  <2>5. Held' = Held
    BY <1>1, <2>2, <2>3, <2>4
  <2>6. QED BY <2>1, <2>5
<1>10. ASSUME NEW u \in Users, NEW amount \in StakeAmounts,
              StakeIn(u, amount) \/ StakeOut(u, amount)
       PROVE  Held' + pool' + InLoop' = Held + pool + InLoop
  <2>1. /\ pool' = pool /\ deposit' = deposit /\ InLoop' = InLoop
        /\ \/ /\ stake' = [stake EXCEPT ![u] = @ - amount]
              /\ wallet' = [wallet EXCEPT ![u] = @ + amount]
           \/ /\ stake' = [stake EXCEPT ![u] = @ + amount]
              /\ wallet' = [wallet EXCEPT ![u] = @ - amount]
    BY <1>10 DEF StakeIn, StakeOut, Spend, InLoop, records, loop
  <2>2. /\ \A v \in Users : v # u => /\ wallet'[v] = wallet[v]
                                     /\ deposit'[v] = deposit[v]
                                     /\ stake'[v] = stake[v]
        /\ (wallet'[u] - wallet[u]) + (deposit'[u] - deposit[u]) + (stake'[u] - stake[u]) = 0
    BY <1>2, <2>1
  <2>3. Held' = Held + (wallet'[u] - wallet[u]) + (deposit'[u] - deposit[u])
                     + (stake'[u] - stake[u])
    BY <1>1, <2>2, HeldChanges
  <2>4. /\ wallet[u] \in Int /\ wallet'[u] \in Int /\ deposit[u] \in Int
        /\ deposit'[u] \in Int /\ stake[u] \in Int /\ stake'[u] \in Int
    BY <1>1 DEF Ledgers
  <2>5. Held' = Held
    BY <1>1, <2>2, <2>3, <2>4
  <2>6. QED BY <2>1, <2>5
<1>11. ASSUME NEW u \in Users, ValidatorRevoke(u)
       PROVE  Held' + pool' + InLoop' = Held + pool + InLoop
  <2>1. /\ pool' = pool /\ stake' = stake /\ InLoop' = InLoop
        /\ deposit' = [deposit EXCEPT ![u] = 0]
        /\ wallet' = [wallet EXCEPT ![u] = @ + deposit[u]]
    BY <1>11 DEF ValidatorRevoke, InLoop, loop
  <2>2. /\ \A v \in Users : v # u => /\ wallet'[v] = wallet[v]
                                     /\ deposit'[v] = deposit[v]
                                     /\ stake'[v] = stake[v]
        /\ (wallet'[u] - wallet[u]) + (deposit'[u] - deposit[u]) + (stake'[u] - stake[u]) = 0
    BY <1>2, <2>1
  <2>3. Held' = Held + (wallet'[u] - wallet[u]) + (deposit'[u] - deposit[u])
                     + (stake'[u] - stake[u])
    BY <1>1, <2>2, HeldChanges
  <2>4. /\ wallet[u] \in Int /\ wallet'[u] \in Int /\ deposit[u] \in Int
        /\ deposit'[u] \in Int /\ stake[u] \in Int /\ stake'[u] \in Int
    BY <1>1 DEF Ledgers
  <2>5. Held' = Held
    BY <1>1, <2>2, <2>3, <2>4
  <2>6. QED BY <2>1, <2>5
<1>12. CASE UNCHANGED vars
  <2>1. Still /\ pool' = pool /\ InLoop' = InLoop
    BY <1>12 DEF vars, records, InLoop, loop
  <2>2. QED BY <1>3, <2>1
<1>13. QED
  BY <1>4, <1>5, <1>6, <1>7, <1>8, <1>9, <1>10, <1>11, <1>12 DEF Next, Transactions

(* Deposits, revocations, withdrawals, punishments and the penalties on     *)
(* their way to the inflation pool: no coin appears and none is lost.       *)
THEOREM ConservesCoins ==
  ASSUME LoweringOnly
  PROVE  Spec => []CoinsConserved
<1>1. CoinsConserved <=> Held + pool + InLoop = Cardinality(Users) * Funds
  BY DEF CoinsConserved, Held, InLoop
<1>2. Init => IInv /\ CoinsConserved
  BY InvInit, CoinsInit
<1>3. (CoinsConserved <=> Held + pool + InLoop = Cardinality(Users) * Funds)'
  BY <1>1, PTL
<1>4. IInv /\ CoinsConserved /\ [Next]_vars => (IInv /\ CoinsConserved)'
  BY <1>1, <1>3, InvStep, CoinsStep
<1>5. QED BY <1>2, <1>4, PTL DEF Spec
=============================================================================
