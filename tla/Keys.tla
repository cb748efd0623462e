-------------------------------- MODULE Keys --------------------------------
(****************************************************************************)
(* Who may sign what: the ante handler of x/auth, the keys and grants of    *)
(* x/account, and the messages of x/developer and x/account that change     *)
(* them.                                                                    *)
(*                                                                          *)
(* An account has three keys.  It may grant a developer, for a while, to    *)
(* sign for it: posts with the developer's app key, donations up to an      *)
(* amount with his transaction key.  A grant is stored under the key the    *)
(* developer has that day; recovery replaces the keys of an account and     *)
(* leaves the grants where they are.  Nothing keeps a developer from using  *)
(* one key at both levels, and the level of a grant is not enforced.        *)
(*                                                                          *)
(* A transaction is checked message by message, on the state of the block,  *)
(* so what the check of a message wrote stays when a later one fails.       *)
(* Then its handlers run in order on a cache that is written back only if   *)
(* all of them succeed.                                                     *)
(****************************************************************************)
EXTENDS AccountClock, Coins, Sequences, Functions

CONSTANTS
  Developers,    \* those who are registered as developers
  ResetKeys, TransactionKeys, AppKeys,  \* keys the accounts may have
  FirstKeys,     \* keys at genesis, a function
  Periods,       \* ValidityPeriodSec of a grant
  CoinDays,      \* what GetCoinDay may answer
  VirtualCoin,   \* BandwidthParam.VirtualCoin
  Costs,         \* what a message may cost in a block, rising with its load
  Recovery,      \* BandwidthParam.SecondsToRecoverBandwidth
  FirstCapacity, \* TransactionCapacity at genesis
  MaxMessages,   \* messages in a transaction
  MaxSequence    \* bound: messages an account signs, a function

Accounts == [reset : ResetKeys, transaction : TransactionKeys, app : AppKeys]

ASSUME KeysAssumption ==
  /\ Developers \subseteq Users
  /\ IsFiniteSet(ResetKeys \cup TransactionKeys \cup AppKeys)
  /\ FirstKeys \in [Users -> Accounts]
  /\ Periods \subseteq Nat \ {0} /\ CoinDays \subseteq Nat /\ VirtualCoin \in Nat
  /\ Costs \subseteq Nat /\ Costs # {} /\ Recovery \in Nat \ {0} /\ FirstCapacity \in Nat
  /\ MaxMessages \in Nat \ {0} /\ MaxSequence \in [Users -> Nat]

VARIABLES
  db,      \* keys and grants, and of the past what the properties speak of
  cache,   \* the copy of db the handlers of a transaction work on
  meta,    \* AccountMeta
  phase,   \* the ante handler, or the handlers, of the transaction
  todo,    \* messages of the transaction that were checked and not handled
  cost     \* CapacityUsagePerTransaction by the load of the block

vars == <<db, cache, meta, phase, todo, now, cost>>

Keys == ResetKeys \cup TransactionKeys \cup AppKeys

Levels == {"app", "preauthorization"}

Grants == [to : Users, level : Levels, until : Nat, amount : Nat]

(* What an account remembers of granting, for the properties.               *)
Issued == [key : Keys, to : Users, level : Levels, until : Nat]

NoGrant == [to |-> "nobody"]

AccountMessages ==
  [kind : {"transfer"}] \cup [kind : {"recover"}, keys : Accounts]

PostMessages ==
  [kind : {"post"}] \cup [kind : {"donate"}, amount : Amounts]

DeveloperMessages ==
  [kind : {"grant"}, to : Users, level : Levels, period : Periods]
    \cup [kind : {"preauthorize"}, to : Users, period : Periods, amount : Amounts]
    \cup [kind : {"revoke"}, key : Keys]

Messages == AccountMessages \cup PostMessages \cup DeveloperMessages

Permission(m) ==
  CASE m.kind = "recover" -> "reset"
    [] m.kind = "post"    -> "app"
    [] m.kind = "grant"   -> "grantApp"
    [] m.kind = "donate"  -> "preauthorization"
    [] OTHER              -> "transaction"

ConsumeAmount(m) == IF m.kind = "donate" THEN m.amount ELSE 0
------------------------------------------------------------------------------
(****************************************************************************)
(* CheckSigningPubKeyOwner: may key k sign message m for u, and what        *)
(* becomes of the grant it is asked for.  The level of the grant is         *)
(* compared and the result dropped.                                         *)
(****************************************************************************)
IsOwnKey(u, k, m) ==
  LET own == db.keys[u]  p == Permission(m) IN
  \/ p = "reset" /\ k = own.reset
  \/ p # "reset" /\ k = own.transaction
  \/ p \in {"app", "grantApp"} /\ k = own.app

AsksGrant(u, k, m) ==
  Permission(m) \in Levels /\ ~IsOwnKey(u, k, m) /\ db.grants[u][k] # NoGrant

(* The key of a developer that signs at a level.                            *)
KeyAt(keys, level) == IF level = "app" THEN keys.app ELSE keys.transaction

(* Mutant: what was granted to a key stays with it when its owner has       *)
(* another one.                                                             *)
IsExpired(u, k, m) == db.grants[u][k].until < now

IsStale(u, k, m) ==
  LET g == db.grants[u][k] IN
  \/ g.until < now
  \/ k # KeyAt(db.keys[g.to], Permission(m))

MaySign(u, k, m) ==
  \/ IsOwnKey(u, k, m)
  \/ /\ AsksGrant(u, k, m)
     /\ ~IsStale(u, k, m)
     /\ Permission(m) = "preauthorization" =>
          ConsumeAmount(m) <= db.grants[u][k].amount

(* Mutant: the amount is looked at and not reduced.                         *)
GrantUnspent(u, k, m) ==
  IF AsksGrant(u, k, m) /\ IsStale(u, k, m) THEN NoGrant ELSE db.grants[u][k]

GrantAfter(u, k, m) ==
  LET g == db.grants[u][k] IN
  IF ~AsksGrant(u, k, m) THEN g
  ELSE IF IsStale(u, k, m) THEN NoGrant
  ELSE IF Permission(m) = "app" \/ ConsumeAmount(m) > g.amount THEN g
  ELSE IF ConsumeAmount(m) = g.amount THEN NoGrant
  ELSE [g EXCEPT !.amount = @ - ConsumeAmount(m)]

CheckSigningPubKeyOwner(u, k, m) ==
  db' = [db EXCEPT !.grants[u][k] = GrantAfter(u, k, m)]
------------------------------------------------------------------------------
(****************************************************************************)
(* CheckUserTPSCapacity: capacity grows back to the coin day of the account *)
(* within Recovery seconds, and a message takes its cost from it.           *)
(****************************************************************************)
Capacity(u, coinDay) ==
  LET full == coinDay + VirtualCoin
      left == meta[u].capacity
      idle == now - meta[u].active
  IN  IF left >= full THEN full
      ELSE left + Round((full - left) * (IF idle > Recovery THEN Recovery ELSE idle),
                        Recovery)

(* Mutant: the sequence stays.                                              *)
Uncounted(u) == meta[u]

(* IncreaseSequenceByOne.                                                   *)
Counted(u) == [meta[u] EXCEPT !.sequence = @ + 1]

Charged(u, coinDay) ==
  [Counted(u) EXCEPT !.capacity = Capacity(u, coinDay) - cost, !.active = now]
------------------------------------------------------------------------------
(****************************************************************************)
(* The ante handler, for the next message of a transaction: signer u signed *)
(* m with key k and sequence number q.  Every refusal ends the transaction, *)
(* and comes with what was written before it.                               *)
(****************************************************************************)
Checking(u) ==
  phase = "ante" /\ Len(todo) < MaxMessages /\ meta[u].sequence < MaxSequence[u]

Refused == todo' = <<>> /\ cache' = db' /\ UNCHANGED <<phase, now, cost>>

RefuseKey(u, k, m) ==
  /\ Checking(u) /\ ~MaySign(u, k, m)
  /\ CheckSigningPubKeyOwner(u, k, m)
  /\ Refused /\ UNCHANGED meta

RefuseSequence(u, k, m, q) ==
  /\ Checking(u) /\ MaySign(u, k, m) /\ q # meta[u].sequence
  /\ CheckSigningPubKeyOwner(u, k, m)
  /\ Refused /\ UNCHANGED meta

RefuseCapacity(u, k, m) ==
  /\ Checking(u) /\ MaySign(u, k, m)
  /\ \E c \in CoinDays : cost > Capacity(u, c)
  /\ CheckSigningPubKeyOwner(u, k, m)
  /\ meta' = [meta EXCEPT ![u] = Counted(u)]
  /\ Refused

(* The signature is not one of these messages and this sequence number.     *)
RefuseSignature(u, k, m) ==
  /\ Checking(u) /\ MaySign(u, k, m)
  /\ CheckSigningPubKeyOwner(u, k, m)
  /\ \E c \in CoinDays :
       cost <= Capacity(u, c) /\ meta' = [meta EXCEPT ![u] = Charged(u, c)]
  /\ Refused

Accept(u, k, m, q) ==
  /\ Checking(u) /\ MaySign(u, k, m) /\ q = meta[u].sequence
  /\ CheckSigningPubKeyOwner(u, k, m)
  /\ \E c \in CoinDays :
       cost <= Capacity(u, c) /\ meta' = [meta EXCEPT ![u] = Charged(u, c)]
  /\ todo' = Append(todo, [signer |-> u, key |-> k, msg |-> m, seq |-> q])
  /\ cache' = db' /\ UNCHANGED <<phase, now, cost>>
------------------------------------------------------------------------------
(****************************************************************************)
(* The handlers.  Beside what they store, the properties remember: issued,  *)
(* the grants neither revoked nor replaced since; served, the keys an       *)
(* account has ever had at each level; granted and spent, the sums          *)
(* preauthorized and donated that way.                                      *)
(****************************************************************************)
Served(keys) == {<<level, KeyAt(keys, level)>> : level \in Levels}

Without(issued, key) == {g \in issued : g.key # key}

Authorize(s, u, to, level, period, amount) ==
  LET until == now + period
      key   == KeyAt(s.keys[to], level)
  IN  [s EXCEPT !.grants[u][key] = [to |-> to, level |-> level,
                                    until |-> until, amount |-> amount],
                !.issued[u] = Without(@, key) \cup
                                {[key |-> key, to |-> to, level |-> level, until |-> until]},
                !.granted[u] = @ + amount]

Handles(s, u, m) ==
  /\ m.kind \in {"grant", "preauthorize"} => m.to \in Developers
  /\ m.kind = "revoke" => s.grants[u][m.key] # NoGrant

(* RecoverAccount.  Grants, its own and those to it, stay.                  *)
Recovered(s, u, keys) ==
  [s EXCEPT !.keys[u] = keys, !.served[u] = @ \cup Served(keys)]
(* RevokePermission.                                                        *)
Revoked(s, u, key) ==
  [s EXCEPT !.grants[u][key] = NoGrant, !.issued[u] = Without(@, key)]

Handled(s, u, k, m) ==
  CASE m.kind = "recover"      -> Recovered(s, u, m.keys)
    [] m.kind = "grant"        -> Authorize(s, u, m.to, m.level, m.period, 0)
    [] m.kind = "preauthorize" ->
         Authorize(s, u, m.to, "preauthorization", m.period, m.amount)
    [] m.kind = "revoke"       -> Revoked(s, u, m.key)
    [] m.kind = "donate" /\ k # db.keys[u].transaction ->
         [s EXCEPT !.spent[u] = @ + m.amount]
    [] OTHER                   -> s

RunMessages ==
  /\ phase = "ante" /\ todo # <<>>
  /\ phase' = "run"
  /\ UNCHANGED <<db, cache, meta, todo, now, cost>>

Handle ==
  /\ phase = "run" /\ todo # <<>>
  /\ LET t == Head(todo) IN
     /\ Handles(cache, t.signer, t.msg)
     /\ cache' = Handled(cache, t.signer, t.key, t.msg)
  /\ todo' = Tail(todo)
  /\ UNCHANGED <<db, meta, phase, now, cost>>

(* A handler returned an error; those that are not modelled may.            *)
HandleFails ==
  /\ phase = "run" /\ todo # <<>>
  /\ LET t == Head(todo) IN
     \/ ~Handles(cache, t.signer, t.msg)
     \/ t.msg.kind \in {"transfer", "post", "donate"}
  /\ cache' = db /\ todo' = <<>> /\ phase' = "ante"
  /\ UNCHANGED <<db, meta, now, cost>>

Write ==
  /\ phase = "run" /\ todo = <<>>
  /\ db' = cache /\ phase' = "ante"
  /\ UNCHANGED <<cache, meta, todo, now, cost>>

(* Time passes, and UpdateTPS finds another load.                           *)
NextBlock ==
  /\ phase = "ante" /\ todo = <<>>
  /\ \E t \in 0 .. MaxTime : Later(t)
  /\ cost' \in Costs
  /\ UNCHANGED <<db, cache, meta, phase, todo>>
------------------------------------------------------------------------------
Init ==
  /\ db = [keys    |-> FirstKeys,
           grants  |-> [u \in Users |-> [k \in Keys |-> NoGrant]],
           issued  |-> [u \in Users |-> {}],
           served  |-> [u \in Users |-> Served(FirstKeys[u])],
           granted |-> [u \in Users |-> 0],
           spent   |-> [u \in Users |-> 0]]
  /\ cache = db
  /\ meta = [u \in Users |-> [sequence |-> 0, capacity |-> FirstCapacity, active |-> 0]]
  /\ phase = "ante"
  /\ todo = <<>>
  /\ now = 0
  /\ cost \in Costs

Ante ==
  \E u \in Users, k \in Keys, m \in Messages :
    \/ RefuseKey(u, k, m)
    \/ RefuseCapacity(u, k, m)
    \/ RefuseSignature(u, k, m)
    \/ \E q \in 0 .. MaxSequence[u] :
         RefuseSequence(u, k, m, q) \/ Accept(u, k, m, q)

Next == Ante \/ RunMessages \/ Handle \/ HandleFails \/ Write \/ NextBlock

Spec == Init /\ [][Next]_vars
------------------------------------------------------------------------------
(****************************************************************************)
(* Properties.                                                              *)
(****************************************************************************)
States == [keys    : [Users -> Accounts],
           grants  : [Users -> [Keys -> Grants \cup {NoGrant}]],
           issued  : [Users -> SUBSET Issued],
           served  : [Users -> SUBSET (Levels \X Keys)],
           granted : [Users -> Nat],
           spent   : [Users -> Nat]]

Signed == [signer : Users, key : Keys, msg : Messages, seq : Nat]

(* The variables keep their types; no account has more capacity than its    *)
(* coin day has ever given it, and none pays what it does not have, however *)
(* recovery is rounded (CheckUserTPSCapacity).                              *)
TypeOK ==
  /\ db \in States /\ cache \in States
  /\ meta \in [Users -> [sequence : Nat, active : 0 .. now,
                         capacity : Nat]]
  /\ \A u \in Users : \/ meta[u].capacity <= FirstCapacity
                     \/ \E c \in CoinDays : meta[u].capacity <= c + VirtualCoin
  /\ phase \in {"ante", "run"}
  /\ todo \in Seq(Signed) /\ Len(todo) <= MaxMessages
  /\ now \in 0 .. MaxTime /\ cost \in Costs

(* A grant of u that lets key k sign at level p now: not over, neither      *)
(* revoked nor replaced, and k is the developer's key at that level today.  *)
Outstanding(u, k, p) ==
  {g \in db.issued[u] : g.key = k /\ now <= g.until /\ k = KeyAt(db.keys[g.to], p)}

(* A key its owner has had at both levels.                                  *)
TwoLevels(u, k) == Levels \X {k} \subseteq db.served[u]

(* The ante handler lets no message pass that somebody else has signed than *)
(* the signer or a developer with a grant of his that is neither over,      *)
(* revoked nor replaced, whoever recovered his account, and whatever was    *)
(* granted and spent, in between.  The grant is of the level the message    *)
(* asks for, but for a developer who has had that key at both levels: that  *)
(* the levels differ is noticed, and ErrGrantKeyMismatch made and dropped   *)
(* (CheckSigningPubKeyOwner, AuthorizePermission, RecoverAccount).          *)
Entitled(t) ==
  LET p == Permission(t.msg) IN
  \/ IsOwnKey(t.signer, t.key, t.msg)
  \/ \E g \in Outstanding(t.signer, t.key, p) : g.level = p \/ TwoLevels(g.to, t.key)

OnlyEntitled == phase = "ante" => \A i \in DOMAIN todo : Entitled(todo[i])

(* What developers donated for an account, and what they may still donate,  *)
(* is never more than it has preauthorized, in whatever order grants are    *)
(* spent, repeated, replaced and revoked (CheckSigningPubKeyOwner).         *)
SpendsWithinGrant ==
  \A u \in Users :
    LET left(k) == IF db.grants[u][k] = NoGrant THEN 0 ELSE db.grants[u][k].amount
    IN  db.spent[u] + SumFunction([k \in Keys |-> left(k)]) <= db.granted[u]

(* A signature is good for one message: no sequence number is accepted      *)
(* twice, since the one of the account is beyond every accepted one and     *)
(* never falls, failing transactions included (NewAnteHandler,              *)
(* IncreaseSequenceByOne).                                                  *)
NoReplay ==
  [][/\ \A u \in Users : meta[u].sequence <= meta'[u].sequence
     /\ Len(todo') > Len(todo) =>
          LET t == todo'[Len(todo')] IN
          meta[t.signer].sequence <= t.seq /\ t.seq < meta'[t.signer].sequence]_vars
==============================================================================
