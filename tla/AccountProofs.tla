--------------------------- MODULE AccountProofs ---------------------------
(****************************************************************************)
(* x/account: who may sign and what is spent (Keys), and the savings and    *)
(* coin days of accounts (Bank), for any users, keys, periods, amounts and  *)
(* parameters.                                                              *)
(*                                                                          *)
(* Keys. The variables keep their types, a sequence number is accepted      *)
(* once, a message passes only with a signature that counts, and developers *)
(* spend no more than they were granted.                                    *)
(*                                                                          *)
(* OnlyEntitled is not inductive: what is stored under a key must be among  *)
(* the grants neither revoked nor replaced, and the key one the developer   *)
(* has had at the level of the grant, in the store and in the cache of a    *)
(* running transaction (Stored). The code compares the level of a grant     *)
(* with the one asked for and drops the result; what it does check is that  *)
(* the key is the developer's at the level asked for. So a grant counts at  *)
(* its own level, or its key has been the developer's at both. Nor is       *)
(* SpendsWithinGrant inductive: a donation is taken off the grant when it   *)
(* is checked and counted as spent when its handler runs, if it ever does   *)
(* (SInv).                                                                  *)
(*                                                                          *)
(* Bank. The totals of a queue are its entries', coin day is backed by      *)
(* savings at any later time, and no coin is lost. What is inductive is     *)
(* that each account is sound at the time of the block (Sound): its entries *)
(* in order, none that its last update should have taken out, its totals    *)
(* theirs, and coin day and queue together no more than the savings. That   *)
(* all coins of the queue weigh at most themselves at any later time then   *)
(* follows, because what still charges has been there less than Recover.    *)
(****************************************************************************)
EXTENDS Keys, Bank, CoinsProofs, SequenceTheorems

Stored(s) ==
  /\ \A u \in Users, level \in Levels : <<level, KeyAt(s.keys[u], level)>> \in s.served[u]
  /\ \A u \in Users, k \in Keys :
       LET g == s.grants[u][k] IN
       g # NoGrant =>
         /\ <<g.level, k>> \in s.served[g.to]
         /\ [key |-> k, to |-> g.to, level |-> g.level, until |-> g.until] \in s.issued[u]

IInv == TypeOK /\ Stored(db) /\ Stored(cache)
------------------------------------------------------------------------------
(****************************************************************************)
(* Capacity.                                                                *)
(****************************************************************************)
LEMMA RoundBounded ==
  ASSUME NEW x \in Nat, NEW e \in Nat, NEW d \in Nat \ {0}, e <= d
  PROVE  Round(x * e, d) \in Int /\ Round(x * e, d) <= x
PROOF
<1> DEFINE n == x * e
           q == n \div d
           r == n % d
<1>1. n \in Nat /\ n <= x * d
  BY SMT
<1>2. q \in Int /\ r \in 0 .. d - 1 /\ n = d * q + r
  BY <1>1, SMT
<1>3. q <= x /\ (q = x => r = 0)
  <2>1. ASSUME q >= x + 1 PROVE FALSE
    <3>1. d * q >= d * (x + 1)
      BY <2>1, <1>2, SMT
    <3>2. QED BY <3>1, <1>1, <1>2, SMT
  <2>2. ASSUME q = x PROVE r = 0
    BY <2>2, <1>1, <1>2, SMT
  <2>3. QED BY <2>1, <2>2, <1>2
<1> HIDE DEF n
<1>4. Round(n, d) = IF 2 * r > d \/ (2 * r = d /\ q % 2 = 1) THEN q + 1 ELSE q
  BY DEF Round
<1> HIDE DEF q, r
<1>5. QED
  <2>1. Round(n, d) \in Int /\ Round(n, d) <= x
    BY <1>2, <1>3, <1>4
  <2>2. QED BY <2>1 DEF n

(* Recovery never exceeds the coin day.                                     *)
LEMMA CapacityBounded ==
  ASSUME TypeOK, NEW u \in Users, NEW c \in CoinDays
  PROVE  Capacity(u, c) \in Int /\ Capacity(u, c) <= c + VirtualCoin
PROOF
<1> DEFINE full == c + VirtualCoin
           left == meta[u].capacity
           idle == now - meta[u].active
           e    == IF idle > Recovery THEN Recovery ELSE idle
<1>1. /\ full \in Nat /\ left \in Nat /\ idle \in Int /\ Recovery \in Nat \ {0}
  BY KeysAssumption DEF TypeOK
<1>2. CASE left >= full
  BY <1>1, <1>2 DEF Capacity
<1>3. CASE left < full
  <2>1. full - left \in Nat
    BY <1>1, <1>3
  <2>2. e \in Nat /\ e <= Recovery
    BY <1>1 DEF TypeOK
  <2>3. /\ Round((full - left) * e, Recovery) \in Int
        /\ Round((full - left) * e, Recovery) <= full - left
    BY <2>1, <2>2, <1>1, RoundBounded
  <2>4. Capacity(u, c) = left + Round((full - left) * e, Recovery)
    BY <1>1, <1>3 DEF Capacity
  <2>5. QED BY <2>3, <2>4, <1>1
<1>4. QED BY <1>1, <1>2, <1>3
------------------------------------------------------------------------------
(****************************************************************************)
(* What a check and a handler write.                                        *)
(****************************************************************************)
LEMMA MessageTypes ==
  ASSUME NEW m \in Messages
  PROVE  /\ m.kind = "recover" => m.keys \in Accounts
         /\ m.kind = "donate" => m.amount \in Nat \ {0}
         /\ m.kind = "grant" => m.to \in Users /\ m.level \in Levels /\ m.period \in Nat
         /\ m.kind = "preauthorize" => m.to \in Users /\ m.period \in Nat /\ m.amount \in Nat
         /\ m.kind = "revoke" => m.key \in Keys
PROOF
  BY KeysAssumption, AccountAssumption DEF Messages, AccountMessages, PostMessages, DeveloperMessages

(* A grant only shrinks, or goes.                                           *)
LEMMA GrantAfterType ==
  ASSUME TypeOK, NEW u \in Users, NEW k \in Keys, NEW m \in Messages
  PROVE  \/ GrantAfter(u, k, m) = NoGrant
         \/ GrantAfter(u, k, m) = db.grants[u][k]
         \/ /\ db.grants[u][k] \in Grants
            /\ \E a \in Nat : GrantAfter(u, k, m) = [db.grants[u][k] EXCEPT !.amount = a]
PROOF
<1> DEFINE g == db.grants[u][k]
           a == ConsumeAmount(m)
<1>1. g \in Grants \cup {NoGrant}
  BY DEF TypeOK, States
<1>2. a \in Nat
  BY MessageTypes DEF ConsumeAmount
<1>3. CASE ~AsksGrant(u, k, m) \/ IsStale(u, k, m) \/ Permission(m) = "app"
             \/ a > g.amount \/ a = g.amount
  BY <1>3 DEF GrantAfter
<1>4. CASE /\ AsksGrant(u, k, m) /\ ~IsStale(u, k, m) /\ Permission(m) # "app"
           /\ ~(a > g.amount) /\ a # g.amount
  <2>1. g \in Grants
    BY <1>1, <1>4 DEF AsksGrant
  <2>2. g.amount - a \in Nat
    BY <2>1, <1>2, <1>4 DEF Grants
  <2>3. GrantAfter(u, k, m) = [g EXCEPT !.amount = g.amount - a]
    BY <1>4, <2>1 DEF GrantAfter, Grants
  <2>4. QED BY <2>1, <2>2, <2>3
<1>5. QED BY <1>3, <1>4

(* What a change must keep of a state for its grants to stay stored: each   *)
(* that is left was there before, but for its amount, and its record stays. *)
LEMMA StoredStays ==
  ASSUME NEW s \in States, Stored(s), NEW z \in States, z.keys = s.keys, z.served = s.served,
         \A v \in Users, l \in Keys : z.grants[v][l] # NoGrant =>
           /\ s.grants[v][l] # NoGrant
           /\ z.grants[v][l].to = s.grants[v][l].to
           /\ z.grants[v][l].level = s.grants[v][l].level
           /\ z.grants[v][l].until = s.grants[v][l].until
           /\ \A g \in s.issued[v] : g.key = l => g \in z.issued[v]
  PROVE  Stored(z)
PROOF
<1>1. ASSUME NEW v \in Users, NEW l \in Keys, z.grants[v][l] # NoGrant
      PROVE  LET h == z.grants[v][l] IN
             /\ <<h.level, l>> \in z.served[h.to]
             /\ [key |-> l, to |-> h.to, level |-> h.level, until |-> h.until] \in z.issued[v]
  <2> DEFINE g == s.grants[v][l]
             i == [key |-> l, to |-> g.to, level |-> g.level, until |-> g.until]
  <2>1. <<g.level, l>> \in s.served[g.to] /\ i \in s.issued[v]
    BY <1>1 DEF Stored
  <2>2. i \in z.issued[v]
    BY <1>1, <2>1
  <2>3. QED BY <1>1, <2>1, <2>2
<1>2. QED BY <1>1 DEF Stored

LEMMA CheckWrites ==
  ASSUME IInv, NEW u \in Users, NEW k \in Keys, NEW m \in Messages,
         CheckSigningPubKeyOwner(u, k, m)
  PROVE  /\ db' \in States /\ Stored(db')
         /\ db'.keys = db.keys /\ db'.issued = db.issued /\ db'.served = db.served
PROOF
<1> DEFINE g == db.grants[u][k]
           h == GrantAfter(u, k, m)
<1>1. db \in States /\ Stored(db) /\ TypeOK
  BY DEF IInv, TypeOK
<1>2. \/ h = NoGrant
      \/ h = g
      \/ g \in Grants /\ \E a \in Nat : h = [g EXCEPT !.amount = a]
  BY <1>1, GrantAfterType
<1>3. db' = [db EXCEPT !.grants[u][k] = h]
  BY DEF CheckSigningPubKeyOwner
<1> HIDE DEF h
<1>4. g \in Grants \cup {NoGrant}
  BY <1>1 DEF States
<1>5. h \in Grants \cup {NoGrant}
  BY <1>2, <1>4 DEF Grants
<1>6. /\ db' \in States
      /\ db'.keys = db.keys /\ db'.issued = db.issued /\ db'.served = db.served
  BY <1>1, <1>3, <1>5 DEF States
<1>7. h # NoGrant => h.to = g.to /\ h.level = g.level /\ h.until = g.until /\ g # NoGrant
  BY <1>2, <1>4 DEF Grants, NoGrant
<1>8. PICK new : new = db'
  OBVIOUS
<1>9. ASSUME NEW v \in Users, NEW l \in Keys, new.grants[v][l] # NoGrant
      PROVE  /\ db.grants[v][l] # NoGrant
             /\ new.grants[v][l].to = db.grants[v][l].to
             /\ new.grants[v][l].level = db.grants[v][l].level
             /\ new.grants[v][l].until = db.grants[v][l].until
  <2>1. CASE v = u /\ l = k
    <3>1. new.grants[v][l] = h
      BY <1>1, <1>3, <1>8, <2>1 DEF States
    <3>2. QED BY <3>1, <2>1, <1>7, <1>9
  <2>2. CASE ~(v = u /\ l = k)
    <3>1. new.grants[v][l] = db.grants[v][l]
      BY <1>1, <1>3, <1>8, <2>2 DEF States
    <3>2. QED BY <3>1, <1>9
  <2>3. QED BY <2>1, <2>2
<1>10. Stored(new)
  BY <1>1, <1>6, <1>8, <1>9, StoredStays
<1>11. QED BY <1>6, <1>8, <1>10

LEMMA ServedType ==
  ASSUME NEW keys \in Accounts
  PROVE  /\ \A level \in Levels : KeyAt(keys, level) \in Keys
         /\ Served(keys) \subseteq Levels \X Keys
         /\ \A level \in Levels : <<level, KeyAt(keys, level)>> \in Served(keys)
PROOF
<1>1. \A level \in Levels : KeyAt(keys, level) \in Keys
  BY DEF KeyAt, Keys, Accounts
<1>2. QED BY <1>1 DEF Served

LEMMA AuthorizeWrites ==
  ASSUME NEW s \in States, Stored(s), now \in Nat,
         NEW u \in Users, NEW to \in Users, NEW level \in Levels,
         NEW period \in Nat, NEW amount \in Nat
  PROVE  /\ Authorize(s, u, to, level, period, amount) \in States
         /\ Stored(Authorize(s, u, to, level, period, amount))
PROOF
<1> DEFINE until == now + period
           key == KeyAt(s.keys[to], level)
           g   == [to |-> to, level |-> level, until |-> until, amount |-> amount]
           i   == [key |-> key, to |-> to, level |-> level, until |-> until]
           z   == Authorize(s, u, to, level, period, amount)
           new == Without(s.issued[u], key) \cup {i}
<1>1. until \in Nat /\ g \in Grants
  BY DEF Grants
<1>2. key \in Keys /\ <<level, key>> \in s.served[to]
  <2>1. s.keys[to] \in Accounts
    BY DEF States
  <2>2. QED BY <2>1, ServedType DEF Stored
<1>3. z = [s EXCEPT !.grants[u][key] = g, !.issued[u] = new, !.granted[u] = @ + amount]
  BY DEF Authorize, States
<1>4. new \subseteq Issued
  <2>1. i \in Issued
    BY <1>1, <1>2 DEF Issued
  <2>2. s.issued[u] \subseteq Issued
    BY DEF States
  <2> HIDE DEF i, key
  <2>3. QED BY <2>1, <2>2 DEF Without
<1>5. i \in new /\ \A h \in s.issued[u] : h.key # key => h \in new
  <2> HIDE DEF i, key
  <2>1. QED BY DEF Without
<1>g. g # NoGrant /\ g.to = to /\ g.level = level /\ g.until = until
  BY DEF NoGrant
<1>i. i = [key |-> key, to |-> to, level |-> level, until |-> until]
  OBVIOUS
<1> HIDE DEF key, until, z, g, i, new
<1>6. /\ z.keys = s.keys /\ z.spent = s.spent /\ z.served = s.served
      /\ z.grants = [s.grants EXCEPT ![u][key] = g]
      /\ z.issued = [s.issued EXCEPT ![u] = new]
      /\ z.granted = [s.granted EXCEPT ![u] = @ + amount]
      /\ z = [keys |-> z.keys, grants |-> z.grants, issued |-> z.issued,
              served |-> z.served, granted |-> z.granted, spent |-> z.spent]
  BY <1>3 DEF States
<1>7. z \in States
  <2>1. z.grants \in [Users -> [Keys -> Grants \cup {NoGrant}]]
    BY <1>1, <1>2, <1>6 DEF States
  <2>2. z.issued \in [Users -> SUBSET Issued]
    BY <1>4, <1>6 DEF States
  <2>3. z.granted \in [Users -> Nat]
    BY <1>6 DEF States
  <2>4. /\ z.keys \in [Users -> Accounts] /\ z.spent \in [Users -> Nat]
        /\ z.served \in [Users -> SUBSET (Levels \X Keys)]
    BY <1>6 DEF States
  <2>5. QED BY <1>6, <2>1, <2>2, <2>3, <2>4 DEF States
<1>8. ASSUME NEW v \in Users, NEW l \in Keys, z.grants[v][l] # NoGrant
      PROVE  LET h == z.grants[v][l] IN
             /\ <<h.level, l>> \in z.served[h.to]
             /\ [key |-> l, to |-> h.to, level |-> h.level, until |-> h.until] \in z.issued[v]
  <2>1. CASE v = u /\ l = key
    <3>1. z.grants[v][l] = g /\ z.issued[v] = new
      BY <1>2, <1>6, <2>1 DEF States
    <3>2. QED BY <3>1, <1>2, <1>5, <1>6, <1>g, <1>i, <2>1
  <2>2. CASE ~(v = u /\ l = key)
    <3> DEFINE h == s.grants[v][l]
               j == [key |-> l, to |-> h.to, level |-> h.level, until |-> h.until]
    <3>1. z.grants[v][l] = h
      BY <1>6, <2>2, <1>2 DEF States
    <3>2. h # NoGrant /\ <<h.level, l>> \in s.served[h.to] /\ j \in s.issued[v]
      BY <3>1, <1>8 DEF Stored
    <3>3. j \in z.issued[v]
      <4>1. CASE v = u
        <5>1. z.issued[v] = new /\ j.key # key
          BY <1>6, <2>2, <4>1 DEF States
        <5>2. QED BY <5>1, <3>2, <1>5, <4>1
      <4>2. CASE v # u
        BY <1>6, <3>2, <4>2 DEF States
      <4>3. QED BY <4>1, <4>2
    <3>4. QED BY <3>1, <3>2, <3>3, <1>6
  <2>3. QED BY <2>1, <2>2
<1>9. Stored(z)
  BY <1>6, <1>8 DEF Stored
<1>10. QED BY <1>7, <1>9 DEF z

LEMMA HandledWrites ==
  ASSUME NEW s \in States, Stored(s), now \in Nat,
         NEW u \in Users, NEW k \in Keys, NEW m \in Messages
  PROVE  Handled(s, u, k, m) \in States /\ Stored(Handled(s, u, k, m))
PROOF
<1> DEFINE z == Handled(s, u, k, m)
<1>1. CASE m.kind = "recover"
  <2>1. m.keys \in Accounts
    BY <1>1, MessageTypes
  <2>2. z = [s EXCEPT !.keys[u] = m.keys, !.served[u] = @ \cup Served(m.keys)]
    BY <1>1 DEF Handled, Recovered
  <2> HIDE DEF z
  <2>3. PICK keys, had : /\ keys = [s.keys EXCEPT ![u] = m.keys]
                         /\ had = [s.served EXCEPT ![u] = @ \cup Served(m.keys)]
    OBVIOUS
  <2>4. z = [keys |-> keys, grants |-> s.grants, issued |-> s.issued,
             served |-> had, granted |-> s.granted, spent |-> s.spent]
    BY <2>2, <2>3 DEF States
  <2>5. keys \in [Users -> Accounts]
    BY <2>1, <2>3 DEF States
  <2>6. had \in [Users -> SUBSET (Levels \X Keys)]
    BY <2>1, <2>3, ServedType DEF States
  <2>7. z \in States /\ z.grants = s.grants /\ z.issued = s.issued
    BY <2>4, <2>5, <2>6 DEF States
  <2>8. \A v \in Users : s.served[v] \subseteq z.served[v]
    BY <2>3, <2>4 DEF States
  <2>9. ASSUME NEW v \in Users, NEW level \in Levels
        PROVE  <<level, KeyAt(z.keys[v], level)>> \in z.served[v]
    <3>1. CASE v = u
      <4>1. z.keys[v] = m.keys /\ Served(m.keys) \subseteq z.served[v]
        BY <2>3, <2>4, <3>1 DEF States
      <4>2. QED BY <4>1, <2>1, ServedType
    <3>2. CASE v # u
      <4>1. z.keys[v] = s.keys[v]
        BY <2>3, <2>4, <3>2 DEF States
      <4>2. QED BY <4>1, <2>8 DEF Stored
    <3>3. QED BY <3>1, <3>2
  <2>10. ASSUME NEW v \in Users, NEW l \in Keys, z.grants[v][l] # NoGrant
         PROVE  LET h == z.grants[v][l] IN
                /\ <<h.level, l>> \in z.served[h.to]
                /\ [key |-> l, to |-> h.to, level |-> h.level, until |-> h.until]
                      \in z.issued[v]
    <3>1. s.grants[v][l] \in Grants
      BY <2>7, <2>10 DEF States
    <3>2. s.grants[v][l].to \in Users
      BY <3>1 DEF Grants
    <3>3. QED BY <2>7, <2>8, <2>10, <3>2 DEF Stored
  <2>11. Stored(z)
    BY <2>9, <2>10 DEF Stored
  <2>12. QED BY <2>7, <2>11 DEF z
<1>2. CASE m.kind = "grant"
  <2>1. z = Authorize(s, u, m.to, m.level, m.period, 0)
    BY <1>2 DEF Handled
  <2>2. QED BY <2>1, <1>2, MessageTypes, AuthorizeWrites
<1>3. CASE m.kind = "preauthorize"
  <2>1. z = Authorize(s, u, m.to, "preauthorization", m.period, m.amount)
    BY <1>3 DEF Handled
  <2>2. "preauthorization" \in Levels
    BY DEF Levels
  <2>3. QED BY <2>1, <2>2, <1>3, MessageTypes, AuthorizeWrites
<1>4. CASE m.kind = "revoke"
  <2>1. m.key \in Keys
    BY <1>4, MessageTypes
  <2>2. z = [s EXCEPT !.grants[u][m.key] = NoGrant, !.issued[u] = Without(@, m.key)]
    BY <1>4 DEF Handled, Revoked
  <2> HIDE DEF z
  <2>3. PICK left, known : /\ left = [s.grants EXCEPT ![u][m.key] = NoGrant]
                           /\ known = [s.issued EXCEPT ![u] = Without(@, m.key)]
    OBVIOUS
  <2>4. z = [keys |-> s.keys, grants |-> left, issued |-> known,
             served |-> s.served, granted |-> s.granted, spent |-> s.spent]
    BY <2>2, <2>3 DEF States
  <2>5. left \in [Users -> [Keys -> Grants \cup {NoGrant}]]
    BY <2>1, <2>3 DEF States
  <2>6. known \in [Users -> SUBSET Issued]
    BY <2>3 DEF States, Without
  <2>7. z \in States
    BY <2>4, <2>5, <2>6 DEF States
  <2>8. ASSUME NEW v \in Users, NEW l \in Keys, z.grants[v][l] # NoGrant
        PROVE  /\ z.grants[v][l] = s.grants[v][l]
               /\ \A g \in s.issued[v] : g.key = l => g \in z.issued[v]
    <3>1. left[v][l] # NoGrant
      BY <2>4, <2>8
    <3>2. ~(v = u /\ l = m.key) /\ left[v][l] = s.grants[v][l]
      BY <2>1, <2>3, <3>1 DEF States
    <3>3. ASSUME NEW g \in s.issued[v], g.key = l PROVE g \in known[v]
      BY <2>3, <3>2, <3>3 DEF States, Without
    <3>4. QED BY <2>4, <3>2, <3>3
  <2>9. z.keys = s.keys /\ z.served = s.served
    BY <2>4
  <2>10. Stored(z)
    BY <2>7, <2>8, <2>9, StoredStays
  <2>11. QED BY <2>7, <2>10 DEF z
<1>5. CASE m.kind = "donate" /\ k # db.keys[u].transaction
  <2>1. m.amount \in Nat
    BY <1>5, MessageTypes
  <2>2. z = [s EXCEPT !.spent[u] = @ + m.amount]
    BY <1>5 DEF Handled
  <2> HIDE DEF z
  <2>3. z = [keys |-> s.keys, grants |-> s.grants, issued |-> s.issued, served |-> s.served,
             granted |-> s.granted, spent |-> [s.spent EXCEPT ![u] = @ + m.amount]]
    BY <2>2 DEF States
  <2>4. [s.spent EXCEPT ![u] = @ + m.amount] \in [Users -> Nat]
    BY <2>1 DEF States
  <2>5. z \in States /\ z.grants = s.grants /\ z.issued = s.issued
        /\ z.keys = s.keys /\ z.served = s.served
    BY <2>3, <2>4 DEF States
  <2>6. QED BY <2>5 DEF Stored, z
<1>6. CASE /\ m.kind \notin {"recover", "grant", "preauthorize", "revoke"}
           /\ ~(m.kind = "donate" /\ k # db.keys[u].transaction)
  BY <1>6 DEF Handled
<1>7. QED BY <1>1, <1>2, <1>3, <1>4, <1>5, <1>6
------------------------------------------------------------------------------
(****************************************************************************)
(* The ante handler.                                                        *)
(****************************************************************************)
LEMMA CountedType ==
  ASSUME TypeOK, NEW u \in Users
  PROVE  [meta EXCEPT ![u] = Counted(u)] \in
           [Users -> [sequence : Nat, active : 0 .. now, capacity : Nat]]
PROOF
  BY SMTT(30) DEF TypeOK, Counted

LEMMA ChargedType ==
  ASSUME TypeOK, NEW u \in Users, NEW c \in CoinDays, cost <= Capacity(u, c),
         meta' = [meta EXCEPT ![u] = Charged(u, c)]
  PROVE  /\ meta' \in [Users -> [sequence : Nat, active : 0 .. now, capacity : Nat]]
         /\ meta'[u].capacity <= c + VirtualCoin
         /\ meta'[u].sequence = meta[u].sequence + 1
         /\ \A v \in Users \ {u} : meta'[v] = meta[v]
PROOF
<1>1. Capacity(u, c) \in Int /\ Capacity(u, c) <= c + VirtualCoin
  BY CapacityBounded
<1>2. cost \in Nat /\ c \in Nat /\ VirtualCoin \in Nat /\ now \in Nat
  BY KeysAssumption DEF TypeOK
<1>3. meta[u] \in [sequence : Nat, active : 0 .. now, capacity : Nat]
  BY DEF TypeOK
<1>4. Charged(u, c) = [sequence |-> meta[u].sequence + 1, active |-> now,
                       capacity |-> Capacity(u, c) - cost]
  <2> DEFINE left == Capacity(u, c) - cost
             r    == Counted(u)
  <2>1. r = [sequence |-> meta[u].sequence + 1, active |-> meta[u].active,
                      capacity |-> meta[u].capacity]
    BY <1>3 DEF Counted
  <2>2. Charged(u, c) = [r EXCEPT !.capacity = left, !.active = now]
    BY DEF Charged
  <2> HIDE DEF left, r
  <2>3. Charged(u, c) = [sequence |-> meta[u].sequence + 1, active |-> now,
                         capacity |-> left]
    BY <2>1, <2>2
  <2>4. QED BY <2>3 DEF left
<1>5. Capacity(u, c) - cost \in Nat /\ Capacity(u, c) - cost <= c + VirtualCoin
  BY <1>1, <1>2
<1> HIDE DEF Capacity
<1>6. QED BY <1>2, <1>3, <1>4, <1>5 DEF TypeOK

(* What every refusal has in common.                                        *)
LEMMA RefusedInv ==
  ASSUME IInv, NEW u \in Users, NEW k \in Keys, NEW m \in Messages,
         CheckSigningPubKeyOwner(u, k, m), Refused,
         meta' \in [Users -> [sequence : Nat, active : 0 .. now, capacity : Nat]],
         \A v \in Users : \/ meta'[v].capacity = meta[v].capacity
                         \/ \E c \in CoinDays : meta'[v].capacity <= c + VirtualCoin
  PROVE  IInv'
PROOF
<1>1. db' \in States /\ Stored(db')
  BY CheckWrites
<1>2. TypeOK /\ todo' = <<>> /\ cache' = db' /\ UNCHANGED <<phase, now, cost>>
  BY DEF IInv, Refused
<1>3. todo' \in Seq(Signed) /\ Len(todo') <= MaxMessages
  BY <1>2, KeysAssumption
<1>4. \A v \in Users : \/ meta'[v].capacity <= FirstCapacity
                       \/ \E c \in CoinDays : meta'[v].capacity <= c + VirtualCoin
  BY <1>2 DEF TypeOK
<1>5. TypeOK'
  BY <1>1, <1>2, <1>3, <1>4 DEF TypeOK
<1>6. QED BY <1>1, <1>2, <1>5 DEF IInv

LEMMA RefuseInv ==
  ASSUME IInv, NEW u \in Users, NEW k \in Keys, NEW m \in Messages, NEW q \in Nat,
         \/ RefuseKey(u, k, m) \/ RefuseSequence(u, k, m, q)
         \/ RefuseCapacity(u, k, m) \/ RefuseSignature(u, k, m)
  PROVE  IInv'
PROOF
<1>1. TypeOK
  BY DEF IInv
<1>2. CASE RefuseKey(u, k, m) \/ RefuseSequence(u, k, m, q)
  <2>1. meta' = meta
    BY <1>2 DEF RefuseKey, RefuseSequence
  <2>2. QED BY <1>1, <1>2, <2>1, RefusedInv DEF RefuseKey, RefuseSequence, TypeOK
<1>3. CASE RefuseCapacity(u, k, m)
  <2>1. meta' = [meta EXCEPT ![u] = Counted(u)]
    BY <1>3 DEF RefuseCapacity
  <2>2. meta' \in [Users -> [sequence : Nat, active : 0 .. now, capacity : Nat]]
    BY <1>1, <2>1, CountedType
  <2>3. \A v \in Users : meta'[v].capacity = meta[v].capacity
    BY <1>1, <2>1 DEF Counted, TypeOK
  <2>4. QED BY <1>3, <2>2, <2>3, RefusedInv DEF RefuseCapacity
<1>4. CASE RefuseSignature(u, k, m)
  <2>1. PICK c \in CoinDays :
          cost <= Capacity(u, c) /\ meta' = [meta EXCEPT ![u] = Charged(u, c)]
    BY <1>4 DEF RefuseSignature
  <2>2. /\ meta' \in [Users -> [sequence : Nat, active : 0 .. now, capacity : Nat]]
        /\ meta'[u].capacity <= c + VirtualCoin
        /\ \A v \in Users \ {u} : meta'[v] = meta[v]
    BY <1>1, <2>1, ChargedType
  <2>3. QED BY <1>4, <2>2, RefusedInv DEF RefuseSignature
<1>5. QED BY <1>2, <1>3, <1>4

(* A signature that is accepted counts: the key has been the developer's at *)
(* the level of the grant, and is at the level asked for.                   *)
LEMMA AcceptedIsEntitled ==
  ASSUME IInv, NEW u \in Users, NEW k \in Keys, NEW m \in Messages,
         MaySign(u, k, m), NEW q
  PROVE  Entitled([signer |-> u, key |-> k, msg |-> m, seq |-> q])
PROOF
<1> DEFINE g == db.grants[u][k]
           p == Permission(m)
           i == [key |-> k, to |-> g.to, level |-> g.level, until |-> g.until]
<1>1. CASE IsOwnKey(u, k, m)
  BY <1>1 DEF Entitled
<1>2. CASE AsksGrant(u, k, m) /\ ~IsStale(u, k, m)
  <2>1. g # NoGrant /\ p \in Levels
    BY <1>2 DEF AsksGrant
  <2>2. g \in Grants /\ now \in Nat
    BY <2>1 DEF IInv, TypeOK, States
  <2>3. <<g.level, k>> \in db.served[g.to] /\ i \in db.issued[u]
    BY <2>1 DEF IInv, Stored
  <2>4. k = KeyAt(db.keys[g.to], p) /\ now <= g.until
    BY <1>2, <2>2 DEF IsStale, Grants
  <2>5. i \in Outstanding(u, k, p) /\ i.level = g.level /\ i.to = g.to
    BY <2>3, <2>4 DEF Outstanding
  <2>6. g.to \in Users /\ g.level \in Levels
    BY <2>2 DEF Grants
  <2>7. <<p, k>> \in db.served[g.to]
    BY <2>1, <2>4, <2>6 DEF IInv, Stored
  <2>8. ASSUME g.level # p PROVE TwoLevels(g.to, k)
    <3>1. Levels = {p, g.level}
      BY <2>1, <2>6, <2>8 DEF Levels
    <3> HIDE DEF g, p
    <3>2. QED BY <3>1, <2>3, <2>7 DEF TwoLevels
  <2>9. QED BY <2>5, <2>8 DEF Entitled
<1>3. QED BY <1>1, <1>2 DEF MaySign

LEMMA AcceptInv ==
  ASSUME IInv, NEW u \in Users, NEW k \in Keys, NEW m \in Messages,
         NEW q \in Nat, Accept(u, k, m, q)
  PROVE  IInv'
PROOF
<1> DEFINE t == [signer |-> u, key |-> k, msg |-> m, seq |-> q]
<1>1. db' \in States /\ Stored(db')
  BY CheckWrites DEF Accept
<1>2. todo \in Seq(Signed) /\ t \in Signed /\ Len(todo) < MaxMessages
  BY DEF IInv, TypeOK, Signed, Accept, Checking
<1>3. todo' = Append(todo, t) /\ UNCHANGED <<phase, now, cost>> /\ cache' = db'
  BY DEF Accept
<1>4. todo' \in Seq(Signed) /\ Len(todo') <= MaxMessages
  BY <1>2, <1>3, KeysAssumption
<1>5. PICK c \in CoinDays :
        cost <= Capacity(u, c) /\ meta' = [meta EXCEPT ![u] = Charged(u, c)]
  BY DEF Accept
<1>6. /\ meta' \in [Users -> [sequence : Nat, active : 0 .. now, capacity : Nat]]
      /\ meta'[u].capacity <= c + VirtualCoin
      /\ \A v \in Users \ {u} : meta'[v] = meta[v]
  BY <1>5, ChargedType DEF IInv
<1>7. QED BY <1>1, <1>3, <1>4, <1>6 DEF IInv, TypeOK

(* What counts stays so while keys, grants outstanding and time do.         *)
LEMMA EntitledStays ==
  ASSUME NEW t, Entitled(t), now' = now,
         db'.keys = db.keys, db'.issued = db.issued, db'.served = db.served
  PROVE  Entitled(t)'
PROOF
<1>1. \A u, k, m : IsOwnKey(u, k, m)' = IsOwnKey(u, k, m)
  BY DEF IsOwnKey
<1>2. \A u, k, p : Outstanding(u, k, p)' = Outstanding(u, k, p)
  BY DEF Outstanding
<1>3. \A u, k : TwoLevels(u, k)' = TwoLevels(u, k)
  BY DEF TwoLevels
<1>4. QED BY <1>1, <1>2, <1>3 DEF Entitled

LEMMA AcceptKeepsEntitled ==
  ASSUME IInv, OnlyEntitled, NEW u \in Users, NEW k \in Keys,
         NEW m \in Messages, NEW q \in Nat, Accept(u, k, m, q)
  PROVE  OnlyEntitled'
PROOF
<1> DEFINE t == [signer |-> u, key |-> k, msg |-> m, seq |-> q]
<1>1. db'.keys = db.keys /\ db'.issued = db.issued /\ db'.served = db.served /\ now' = now
  BY CheckWrites DEF Accept
<1>2. todo \in Seq(Signed) /\ t \in Signed
  BY DEF IInv, TypeOK, Signed
<1>3. todo' = Append(todo, t) /\ phase = "ante"
  BY DEF Accept, Checking
<1>4. \A i \in DOMAIN todo' :
        (i \in DOMAIN todo /\ todo'[i] = todo[i]) \/ todo'[i] = t
  BY <1>2, <1>3
<1>5. Entitled(t) /\ \A i \in DOMAIN todo : Entitled(todo[i])
  BY <1>3, AcceptedIsEntitled DEF Accept, OnlyEntitled
<1>6. SUFFICES ASSUME NEW i \in DOMAIN todo'
      PROVE  Entitled(todo[i])'
  BY DEF OnlyEntitled
<1>7. PICK x : x = todo'[i] /\ Entitled(x)
  BY <1>4, <1>5
<1>8. Entitled(x)'
  BY <1>1, <1>7, EntitledStays
<1>9. QED BY <1>7, <1>8 DEF Entitled
------------------------------------------------------------------------------
(****************************************************************************)
(* The handlers, and the whole.                                             *)
(****************************************************************************)
LEMMA InitInv == Init => IInv
PROOF
<1> SUFFICES ASSUME Init PROVE IInv
  OBVIOUS
<1>1. db \in States
  <2>1. \A u \in Users : FirstKeys[u] \in Accounts /\ Served(FirstKeys[u]) \subseteq Levels \X Keys
    BY KeysAssumption, ServedType
  <2>2. QED BY <2>1, KeysAssumption DEF Init, States
<1>2. /\ \A u \in Users, k \in Keys : db.grants[u][k] = NoGrant
      /\ \A u \in Users, level \in Levels :
           <<level, KeyAt(db.keys[u], level)>> \in db.served[u]
  <2>1. ASSUME NEW u \in Users PROVE db.keys[u] \in Accounts /\ db.served[u] = Served(db.keys[u])
    BY KeysAssumption DEF Init
  <2>2. QED BY <2>1, ServedType DEF Init
<1>3. meta \in [Users -> [sequence : Nat, active : 0 .. now, capacity : Nat]]
  <2>1. now \in Nat /\ 0 \in 0 .. now
    BY DEF Init
  <2>2. FirstCapacity \in Nat
    BY KeysAssumption
  <2>3. meta = [u \in Users |-> [sequence |-> 0, capacity |-> FirstCapacity, active |-> 0]]
    BY DEF Init
  <2>4. QED BY <2>1, <2>2, <2>3
<1>4. \A u \in Users : meta[u].capacity <= FirstCapacity
  <2>1. PICK first \in Nat : first = FirstCapacity
    BY KeysAssumption
  <2>2. ASSUME NEW u \in Users PROVE meta[u].capacity <= FirstCapacity
    <3>1. meta[u].capacity = first
      BY <2>1 DEF Init
    <3>2. first <= first
      OBVIOUS
    <3>3. QED BY <2>1, <3>1, <3>2
  <2>3. QED BY <2>2
<1>5. todo \in Seq(Signed) /\ Len(todo) <= MaxMessages /\ DOMAIN todo = {}
  BY KeysAssumption DEF Init
<1>6. phase \in {"ante", "run"} /\ now \in 0 .. MaxTime /\ cost \in Costs /\ cache = db
  BY KeysAssumption, AccountAssumption DEF Init
<1>7. Stored(db) /\ Stored(cache)
  BY <1>2, <1>6 DEF Stored
<1>8. QED BY <1>1, <1>3, <1>4, <1>5, <1>6, <1>7 DEF IInv, TypeOK

LEMMA HandleInv ==
  ASSUME IInv, Handle
  PROVE  IInv'
PROOF
<1> DEFINE t == Head(todo)
<1>1. TypeOK /\ todo \in Seq(Signed) /\ todo # <<>>
  BY DEF IInv, TypeOK, Handle
<1>2. t \in Signed /\ todo' \in Seq(Signed) /\ Len(todo') <= MaxMessages
  BY <1>1, KeysAssumption DEF Handle, TypeOK
<1>3. cache' = Handled(cache, t.signer, t.key, t.msg)
  BY DEF Handle
<1>4. now \in Nat /\ cache \in States /\ Stored(cache)
  BY KeysAssumption DEF IInv, TypeOK
<1>5. cache' \in States /\ Stored(cache')
  BY <1>2, <1>3, <1>4, HandledWrites DEF Signed
<1>6. UNCHANGED <<db, meta, phase, now, cost>> /\ phase = "run"
  BY DEF Handle
<1>7. TypeOK'
  BY <1>1, <1>2, <1>5, <1>6 DEF TypeOK
<1>8. QED BY <1>5, <1>6, <1>7 DEF IInv

LEMMA RestInv ==
  ASSUME IInv, RunMessages \/ HandleFails \/ Write \/ NextBlock
  PROVE  IInv'
PROOF
<1>1. TypeOK /\ Stored(db) /\ Stored(cache)
  BY DEF IInv
<1>2. CASE RunMessages
  BY <1>1, <1>2 DEF RunMessages, IInv, TypeOK
<1>3. CASE HandleFails
  <2>1. todo' \in Seq(Signed) /\ Len(todo') <= MaxMessages /\ DOMAIN todo' = {}
    BY <1>3, KeysAssumption DEF HandleFails
  <2>2. QED BY <1>1, <1>3, <2>1 DEF HandleFails, IInv, TypeOK
<1>4. CASE Write
  <2>1. DOMAIN todo' = {}
    BY <1>4 DEF Write
  <2>2. QED BY <1>1, <1>4, <2>1 DEF Write, IInv, TypeOK
<1>5. CASE NextBlock
  <2>1. DOMAIN todo' = {} /\ now' \in 0 .. MaxTime /\ now <= now' /\ cost' \in Costs
    BY <1>1, <1>5, AccountAssumption DEF NextBlock, Later, TypeOK
  <2>2. 0 .. now \subseteq 0 .. now'
    BY <2>1, <1>1, AccountAssumption DEF TypeOK
  <2>3. meta' \in [Users -> [sequence : Nat, active : 0 .. now', capacity : Nat]]
    BY <1>1, <1>5, <2>2 DEF NextBlock, Later, TypeOK
  <2>4. QED BY <1>1, <1>5, <2>1, <2>3 DEF NextBlock, Later, IInv, TypeOK
<1>6. QED BY <1>2, <1>3, <1>4, <1>5

LEMMA NextInv == IInv /\ [Next]_vars => IInv'
PROOF
<1> SUFFICES ASSUME IInv, [Next]_vars PROVE IInv'
  OBVIOUS
<1>1. CASE Ante
  <2>1. PICK u \in Users, k \in Keys, m \in Messages :
          \/ RefuseKey(u, k, m) \/ RefuseCapacity(u, k, m) \/ RefuseSignature(u, k, m)
          \/ \E q \in 0 .. MaxSequence[u] :
               RefuseSequence(u, k, m, q) \/ Accept(u, k, m, q)
    BY <1>1 DEF Ante
  <2>2. QED BY <2>1, RefuseInv, AcceptInv
<1>2. CASE Handle
  BY <1>2, HandleInv
<1>3. CASE RunMessages \/ HandleFails \/ Write \/ NextBlock
  BY <1>3, RestInv
<1>4. CASE UNCHANGED vars
  BY <1>4 DEF vars, IInv, TypeOK, Stored
<1>5. QED BY <1>1, <1>2, <1>3, <1>4 DEF Next

(* Outside Accept, what is checked goes away before anything it was checked *)
(* against changes.                                                         *)
LEMMA NextKeepsEntitled ==
  IInv /\ OnlyEntitled /\ [Next]_vars => OnlyEntitled'
PROOF
<1> SUFFICES ASSUME IInv, OnlyEntitled, [Next]_vars PROVE OnlyEntitled'
  OBVIOUS
<1>1. ASSUME todo' = <<>> \/ phase' = "run" PROVE OnlyEntitled'
  BY <1>1 DEF OnlyEntitled
<1>2. CASE Ante
  <2>1. PICK u \in Users, k \in Keys, m \in Messages :
          \/ RefuseKey(u, k, m) \/ RefuseCapacity(u, k, m) \/ RefuseSignature(u, k, m)
          \/ \E q \in 0 .. MaxSequence[u] :
               RefuseSequence(u, k, m, q) \/ Accept(u, k, m, q)
    BY <1>2 DEF Ante
  <2>2. CASE \/ RefuseKey(u, k, m) \/ RefuseCapacity(u, k, m) \/ RefuseSignature(u, k, m)
             \/ \E q \in 0 .. MaxSequence[u] : RefuseSequence(u, k, m, q)
    BY <1>1, <2>2
    DEF RefuseKey, RefuseCapacity, RefuseSignature, RefuseSequence, Refused
  <2>3. CASE \E q \in 0 .. MaxSequence[u] : Accept(u, k, m, q)
    BY <2>3, AcceptKeepsEntitled
  <2>4. QED BY <2>1, <2>2, <2>3
<1>3. CASE RunMessages \/ Handle \/ HandleFails \/ Write \/ NextBlock
  BY <1>1, <1>3 DEF RunMessages, Handle, HandleFails, Write, NextBlock
<1>4. CASE UNCHANGED vars
  BY <1>4 DEF vars, OnlyEntitled, Entitled, IsOwnKey, Outstanding, TwoLevels
<1>5. QED BY <1>2, <1>3, <1>4 DEF Next

(* The variables keep their types, and capacity stays within the coin day   *)
(* (CheckUserTPSCapacity), for every rounding of what recovers.             *)
THEOREM TypeCorrect == Spec => []TypeOK
PROOF
<1>1. IInv => TypeOK
  BY DEF IInv
<1>2. QED BY InitInv, NextInv, <1>1, PTL DEF Spec

(* Nobody signs for an account but its owner and a developer with a grant   *)
(* of his, neither over nor revoked nor replaced, with the key that         *)
(* developer has now, at the level of the grant or with a key he has had at *)
(* both levels (CheckSigningPubKeyOwner), for all keys whatever.            *)
THEOREM OwnersOnly == Spec => []OnlyEntitled
PROOF
<1>1. IInv /\ OnlyEntitled /\ [Next]_vars => (IInv /\ OnlyEntitled)'
  BY NextInv, NextKeepsEntitled
<1>2. Init => IInv /\ OnlyEntitled
  BY InitInv DEF Init, OnlyEntitled
<1>3. QED BY <1>1, <1>2, PTL DEF Spec

(* Of one account no sequence number is accepted twice, in transactions     *)
(* that succeed and in those that fail (NewAnteHandler).                    *)
THEOREM AcceptedOnce == Spec => NoReplay
PROOF
<1> DEFINE Step ==
      /\ \A u \in Users : meta[u].sequence <= meta'[u].sequence
      /\ Len(todo') > Len(todo) =>
           LET t == todo'[Len(todo')] IN
           meta[t.signer].sequence <= t.seq /\ t.seq < meta'[t.signer].sequence
<1>1. IInv /\ [Next]_vars => [Step]_vars
  <2> SUFFICES ASSUME IInv, Next PROVE Step
    OBVIOUS
  <2>1. TypeOK /\ todo \in Seq(Signed) /\ \A u \in Users : meta[u].sequence \in Nat
    BY DEF IInv, TypeOK
  <2>2. meta' = meta /\ Len(todo') <= Len(todo) => Step
    BY <2>1
  <2>len. Len(todo) \in Nat /\ Len(<<>>) = 0
    BY <2>1
  <2>3. ASSUME NEW u \in Users, NEW k \in Keys, NEW m \in Messages,
               RefuseCapacity(u, k, m)
        PROVE  Step
    <3>1. meta' = [meta EXCEPT ![u] = Counted(u)] /\ todo' = <<>>
      BY <2>3 DEF RefuseCapacity, Refused
    <3>2. \A v \in Users : meta'[v].sequence \in {meta[v].sequence, meta[v].sequence + 1}
      BY <3>1, <2>1 DEF Counted, TypeOK
    <3>3. QED BY <3>1, <3>2, <2>1
  <2>4. ASSUME NEW u \in Users, NEW k \in Keys, NEW m \in Messages,
               RefuseSignature(u, k, m)
        PROVE  Step
    <3>1. PICK c \in CoinDays :
            cost <= Capacity(u, c) /\ meta' = [meta EXCEPT ![u] = Charged(u, c)]
      BY <2>4 DEF RefuseSignature
    <3>2. /\ meta'[u].sequence = meta[u].sequence + 1
          /\ \A v \in Users \ {u} : meta'[v] = meta[v]
      BY <3>1, <2>1, ChargedType
    <3>3. todo' = <<>>
      BY <2>4 DEF RefuseSignature, Refused
    <3>4. QED BY <3>2, <3>3, <2>1
  <2>5. ASSUME NEW u \in Users, NEW k \in Keys, NEW m \in Messages, NEW q \in Nat,
               Accept(u, k, m, q)
        PROVE  Step
    <3>1. PICK c \in CoinDays :
            cost <= Capacity(u, c) /\ meta' = [meta EXCEPT ![u] = Charged(u, c)]
      BY <2>5 DEF Accept
    <3>2. /\ meta'[u].sequence = meta[u].sequence + 1
          /\ \A v \in Users \ {u} : meta'[v] = meta[v]
      BY <3>1, <2>1, ChargedType
    <3>3. /\ todo' = Append(todo, [signer |-> u, key |-> k, msg |-> m, seq |-> q])
          /\ q = meta[u].sequence
      BY <2>5 DEF Accept
    <3> DEFINE t == [signer |-> u, key |-> k, msg |-> m, seq |-> q]
    <3>4. todo'[Len(todo')] = t /\ t.signer = u /\ t.seq = q
      BY <3>3, <2>1
    <3>5. \A v \in Users : meta[v].sequence <= meta'[v].sequence
      BY <3>2, <2>1
    <3>6. meta[u].sequence <= q /\ q < meta'[u].sequence
      BY <3>2, <3>3, <2>1
    <3> HIDE DEF t
    <3>7. QED BY <3>4, <3>5, <3>6
  <2> HIDE DEF Step
  <2>6. CASE Ante
    <3>1. PICK u \in Users, k \in Keys, m \in Messages :
            \/ RefuseKey(u, k, m) \/ RefuseCapacity(u, k, m) \/ RefuseSignature(u, k, m)
            \/ \E q \in 0 .. MaxSequence[u] :
                 RefuseSequence(u, k, m, q) \/ Accept(u, k, m, q)
      BY <2>6 DEF Ante
    <3>2. CASE RefuseKey(u, k, m) \/ \E q \in 0 .. MaxSequence[u] : RefuseSequence(u, k, m, q)
      <4>1. meta' = meta /\ todo' = <<>>
        BY <3>2 DEF RefuseKey, RefuseSequence, Refused
      <4>2. QED BY <4>1, <2>2, <2>len
    <3>3. CASE RefuseCapacity(u, k, m) \/ RefuseSignature(u, k, m)
      BY <3>3, <2>3, <2>4
    <3>4. CASE \E q \in 0 .. MaxSequence[u] : Accept(u, k, m, q)
      BY <3>4, <2>5
    <3>5. QED BY <3>1, <3>2, <3>3, <3>4
  <2>7. CASE RunMessages \/ Handle \/ HandleFails \/ Write \/ NextBlock
    <3>1. CASE RunMessages \/ Write \/ NextBlock
      <4>1. meta' = meta /\ todo' = todo
        BY <3>1 DEF RunMessages, Write, NextBlock, Later
      <4>2. QED BY <4>1, <2>2, <2>len
    <3>2. CASE Handle
      <4>1. meta' = meta /\ todo' = Tail(todo) /\ todo # <<>>
        BY <3>2 DEF Handle
      <4>2. Len(todo') <= Len(todo)
        BY <4>1, <2>1
      <4>3. QED BY <4>1, <4>2, <2>2
    <3>3. CASE HandleFails
      <4>1. meta' = meta /\ todo' = <<>>
        BY <3>3 DEF HandleFails
      <4>2. QED BY <4>1, <2>2, <2>len
    <3>4. QED BY <2>7, <3>1, <3>2, <3>3
  <2>8. QED BY <2>6, <2>7 DEF Next
<1>2. QED BY InitInv, NextInv, <1>1, PTL DEF Spec, NoReplay
------------------------------------------------------------------------------
(****************************************************************************)
(* What developers spend.  Between its check and its handler a donation is  *)
(* off the grant and not yet donated, so the invariant counts it, in the    *)
(* books of the transaction that is running.                                *)
(****************************************************************************)
Amount(g) == IF g = NoGrant THEN 0 ELSE g.amount

GrantBooks == [Keys -> Grants \cup {NoGrant}]

Left(gs) == SumFunction([k \in Keys |-> Amount(gs[k])])

(* What message t takes from the grants of u: nothing, if the key is his.   *)
Owes(keys, u, t) ==
  IF t.signer = u /\ t.msg.kind = "donate" /\ t.key # keys[u].transaction
  THEN t.msg.amount ELSE 0

Parts(keys, u, list) == [i \in 1 .. Len(list) |-> Owes(keys, u, list[i])]

Owed(keys, u, list) == SumFunctionOnSet(Parts(keys, u, list), 1 .. Len(list))

Within(s, u, owed) == s.spent[u] + Left(s.grants[u]) + owed <= s.granted[u]

SInv ==
  /\ phase = "ante" => cache = db
  /\ \A u \in Users : Within(db, u, 0) /\ Within(cache, u, Owed(db.keys, u, todo))

(* Only one grant changes, so the sum changes by what became of it.         *)
LEMMA LeftChanges ==
  ASSUME NEW gs \in GrantBooks, NEW k \in Keys, NEW g \in Grants \cup {NoGrant}
  PROVE  /\ Left(gs) \in Nat /\ Amount(gs[k]) \in Nat /\ Amount(g) \in Nat
         /\ [gs EXCEPT ![k] = g] \in GrantBooks
         /\ Left([gs EXCEPT ![k] = g]) = Left(gs) + (Amount(g) - Amount(gs[k]))
PROOF
<1> DEFINE hs == [gs EXCEPT ![k] = g]
           a  == [l \in Keys |-> Amount(gs[l])]
           b  == [l \in Keys |-> Amount(hs[l])]
<1>1. \A x \in Grants \cup {NoGrant} : Amount(x) \in Nat
  BY DEF Amount, Grants
<1>2. hs \in GrantBooks /\ hs[k] = g /\ \A l \in Keys : l # k => hs[l] = gs[l]
  BY DEF GrantBooks
<1>3. \A l \in Keys : gs[l] \in Grants \cup {NoGrant} /\ hs[l] \in Grants \cup {NoGrant}
  BY <1>2 DEF GrantBooks
<1> HIDE DEF hs
<1>4. a \in [Keys -> Nat] /\ b \in [Keys -> Nat]
  BY <1>1, <1>3
<1>5. a[k] = Amount(gs[k]) /\ b[k] = Amount(g) /\ \A l \in Keys : l # k => b[l] = a[l]
  BY <1>2
<1>6. Left(gs) = SumFunction(a) /\ Left(hs) = SumFunction(b)
  BY DEF Left
<1>7. IsFiniteSet(Keys)
  BY KeysAssumption DEF Keys
<1> HIDE DEF a, b
<1>8. a \in [Keys -> Int] /\ b \in [Keys -> Int]
  BY <1>4
<1>9. SumFunction(b) = SumFunction(a) + (b[k] - a[k])
  BY <1>5, <1>7, <1>8, SumChanges
<1>10. SumFunction(a) \in Nat
  BY <1>4, <1>7, SumCounts
<1>11. QED BY <1>1, <1>2, <1>3, <1>5, <1>6, <1>9, <1>10 DEF hs

LEMMA OwesType ==
  ASSUME NEW keys, NEW u, NEW t \in Signed
  PROVE  Owes(keys, u, t) \in Nat
PROOF
<1>1. t.msg \in Messages
  BY DEF Signed
<1>2. t.msg.kind = "donate" => t.msg.amount \in Nat
  BY <1>1, MessageTypes
<1>3. QED BY <1>2 DEF Owes

LEMMA OwedNothing ==
  ASSUME NEW keys, NEW u
  PROVE  Owed(keys, u, <<>>) = 0
PROOF
<1>1. 1 .. Len(<<>>) = {}
  OBVIOUS
<1>2. QED BY <1>1, SumEmpty DEF Owed

LEMMA OwedIs ==
  ASSUME NEW keys, NEW u, NEW list \in Seq(Signed)
  PROVE  /\ IsFiniteSet(1 .. Len(list)) /\ Len(list) \in Nat
         /\ \A i \in 1 .. Len(list) : /\ Parts(keys, u, list)[i] \in Nat
                                      /\ Parts(keys, u, list)[i] = Owes(keys, u, list[i])
         /\ Owed(keys, u, list) \in Nat
PROOF
<1>1. Len(list) \in Nat /\ \A i \in 1 .. Len(list) : list[i] \in Signed
  OBVIOUS
<1>2. IsFiniteSet(1 .. Len(list))
  BY <1>1, FS_Interval
<1>3. \A i \in 1 .. Len(list) : /\ Parts(keys, u, list)[i] \in Nat
                                /\ Parts(keys, u, list)[i] = Owes(keys, u, list[i])
  BY <1>1, OwesType DEF Parts
<1>4. QED BY <1>1, <1>2, <1>3, SumNat DEF Owed

LEMMA OwedAppend ==
  ASSUME NEW keys, NEW u, NEW list \in Seq(Signed), NEW t \in Signed
  PROVE  Owed(keys, u, Append(list, t)) = Owed(keys, u, list) + Owes(keys, u, t)
PROOF
<1> DEFINE n == Len(list)
           new == Append(list, t)
           f == Parts(keys, u, list)
           g == Parts(keys, u, new)
<1>1. new \in Seq(Signed) /\ Len(new) = n + 1 /\ n \in Nat /\ new[n + 1] = t
      /\ \A i \in 1 .. n : new[i] = list[i]
  OBVIOUS
<1> HIDE DEF new
<1>2. /\ IsFiniteSet(1 .. n)
      /\ \A i \in 1 .. n : f[i] \in Nat /\ f[i] = Owes(keys, u, list[i])
  BY OwedIs
<1>3. \A i \in 1 .. n + 1 : g[i] \in Nat /\ g[i] = Owes(keys, u, new[i])
  BY <1>1, OwedIs
<1> HIDE DEF n, f, g
<1>4. 1 .. n + 1 = (1 .. n) \cup {n + 1} /\ n + 1 \notin 1 .. n
  BY <1>1
<1>5. \A i \in 1 .. n : f[i] \in Int /\ g[i] = f[i]
  BY <1>1, <1>2, <1>3
<1>6. SumFunctionOnSet(g, 1 .. n) = SumFunctionOnSet(f, 1 .. n)
  BY <1>2, <1>5, SumSame
<1>7. \A i \in (1 .. n) \cup {n + 1} : g[i] \in Int
  BY <1>3, <1>4
<1>8. SumFunctionOnSet(g, (1 .. n) \cup {n + 1}) = g[n + 1] + SumFunctionOnSet(g, 1 .. n)
  BY <1>2, <1>4, <1>7, SumAdds
<1>9. g[n + 1] = Owes(keys, u, t)
  BY <1>1, <1>3
<1>10. /\ Owed(keys, u, new) = SumFunctionOnSet(g, 1 .. n + 1)
       /\ Owed(keys, u, list) = SumFunctionOnSet(f, 1 .. n)
  BY <1>1 DEF Owed, f, g, n
<1>11. Owed(keys, u, list) \in Int /\ Owes(keys, u, t) \in Int
  BY OwedIs, OwesType
<1>12. Owed(keys, u, new) = Owes(keys, u, t) + Owed(keys, u, list)
  BY <1>4, <1>6, <1>8, <1>9, <1>10
<1>13. QED BY <1>11, <1>12 DEF new

LEMMA OwedTail ==
  ASSUME NEW keys, NEW u, NEW list \in Seq(Signed), list # <<>>
  PROVE  Owed(keys, u, list) = Owes(keys, u, Head(list)) + Owed(keys, u, Tail(list))
PROOF
<1> DEFINE n == Len(list)
           rest == Tail(list)
           f == Parts(keys, u, list)
           g == Parts(keys, u, rest)
<1>1. /\ rest \in Seq(Signed) /\ n \in Nat \ {0} /\ Len(rest) = n - 1 /\ list[1] = Head(list)
      /\ \A i \in 1 .. n - 1 : rest[i] = list[i + 1]
  OBVIOUS
<1> HIDE DEF rest
<1>2. /\ IsFiniteSet(1 .. n)
      /\ \A i \in 1 .. n : f[i] \in Nat /\ f[i] = Owes(keys, u, list[i])
  BY OwedIs
<1>3. /\ IsFiniteSet(1 .. n - 1)
      /\ \A i \in 1 .. n - 1 : g[i] \in Nat /\ g[i] = Owes(keys, u, rest[i])
  <2>1. rest \in Seq(Signed) /\ Len(rest) = n - 1
    BY <1>1
  <2>2. /\ IsFiniteSet(1 .. Len(rest))
        /\ \A i \in 1 .. Len(rest) : g[i] \in Nat /\ g[i] = Owes(keys, u, rest[i])
    BY <2>1, OwedIs
  <2> HIDE DEF n, g
  <2>3. QED BY <2>1, <2>2
<1> HIDE DEF n, f, g
<1>4. 1 \in 1 .. n /\ \A i \in 1 .. n : f[i] \in Int
  BY <1>1, <1>2
<1>5. SumFunctionOnSet(f, 1 .. n) = f[1] + SumFunctionOnSet(f, (1 .. n) \ {1})
  BY <1>2, <1>4, SumTakes
<1>6. \A i \in 1 .. n - 1 : g[i] \in Int /\ f[i + 1] = g[i]
  BY <1>1, <1>2, <1>3
<1>7. Shifted(1, 1 .. n - 1, (1 .. n) \ {1}, f, g)
  BY <1>1, <1>6 DEF Shifted
<1>8. SumFunctionOnSet(f, (1 .. n) \ {1}) = SumFunctionOnSet(g, 1 .. n - 1)
  BY <1>3, <1>7, SumsShift
<1>9. f[1] = Owes(keys, u, Head(list))
  BY <1>1, <1>2, <1>4
<1>10. /\ Owed(keys, u, rest) = SumFunctionOnSet(g, 1 .. n - 1)
       /\ Owed(keys, u, list) = SumFunctionOnSet(f, 1 .. n)
  BY <1>1 DEF Owed, f, g, n
<1>11. QED BY <1>5, <1>8, <1>9, <1>10 DEF rest

(* CheckSigningPubKeyOwner takes from a grant what the message is going to  *)
(* spend, and never less.                                                   *)
LEMMA CheckTakes ==
  ASSUME TypeOK, NEW u \in Users, NEW k \in Keys, NEW m \in Messages, NEW q
  PROVE  /\ GrantAfter(u, k, m) \in Grants \cup {NoGrant}
         /\ Amount(GrantAfter(u, k, m)) <= Amount(db.grants[u][k])
         /\ MaySign(u, k, m) =>
              Amount(GrantAfter(u, k, m))
                + Owes(db.keys, u, [signer |-> u, key |-> k, msg |-> m, seq |-> q])
                  <= Amount(db.grants[u][k])
PROOF
<1> DEFINE g == db.grants[u][k]
           h == GrantAfter(u, k, m)
           a == ConsumeAmount(m)
           owes == Owes(db.keys, u, [signer |-> u, key |-> k, msg |-> m, seq |-> q])
<1>1. g \in Grants \cup {NoGrant} /\ a \in Nat
  BY MessageTypes DEF TypeOK, States, ConsumeAmount
<1>2. Amount(g) \in Nat /\ (g # NoGrant => Amount(g) = g.amount /\ g \in Grants)
  BY <1>1 DEF Amount, Grants
<1>3. Amount(NoGrant) = 0
  BY DEF Amount
<1>4. owes = IF m.kind = "donate" /\ k # db.keys[u].transaction THEN a ELSE 0
  BY DEF Owes, ConsumeAmount
<1>5. m.kind = "donate" <=> Permission(m) = "preauthorization"
  BY DEF Permission
<1>6. Permission(m) = "preauthorization" /\ k = db.keys[u].transaction => IsOwnKey(u, k, m)
  BY DEF IsOwnKey
<1>7. IsOwnKey(u, k, m) /\ Permission(m) = "preauthorization" => k = db.keys[u].transaction
  BY DEF IsOwnKey
<1> HIDE DEF owes, a
<1>8. CASE ~AsksGrant(u, k, m)
  <2>1. h = g
    BY <1>8 DEF GrantAfter
  <2>2. MaySign(u, k, m) => IsOwnKey(u, k, m)
    BY <1>8 DEF MaySign
  <2>3. MaySign(u, k, m) => owes = 0
    BY <2>2, <1>4, <1>5, <1>7
  <2>4. QED BY <2>1, <2>3, <1>1, <1>2 DEF owes
<1>9. CASE AsksGrant(u, k, m) /\ IsStale(u, k, m)
  <2>1. h = NoGrant
    BY <1>9 DEF GrantAfter
  <2>2. ~MaySign(u, k, m)
    BY <1>9 DEF MaySign, AsksGrant
  <2>3. QED BY <2>1, <2>2, <1>1, <1>2, <1>3
<1>10. CASE AsksGrant(u, k, m) /\ ~IsStale(u, k, m)
  <2>1. g # NoGrant /\ ~IsOwnKey(u, k, m) /\ Permission(m) \in Levels
    BY <1>10 DEF AsksGrant
  <2>2. g \in Grants /\ Amount(g) = g.amount /\ g.amount \in Nat
    BY <2>1, <1>2
  <2>3. CASE Permission(m) = "app"
    <3>1. h = g
      BY <1>10, <2>3 DEF GrantAfter
    <3>2. owes = 0
      BY <2>3, <1>4, <1>5
    <3>3. QED BY <3>1, <3>2, <1>1, <2>2 DEF owes
  <2>4. CASE Permission(m) # "app" /\ a > g.amount
    <3>1. h = g
      BY <1>10, <2>4 DEF GrantAfter, a
    <3>2. Permission(m) = "preauthorization"
      BY <2>1, <2>4 DEF Levels
    <3>3. ~MaySign(u, k, m)
      BY <3>2, <2>1, <2>2, <2>4, <1>1 DEF MaySign, a
    <3>4. QED BY <3>1, <3>3, <1>1, <2>2
  <2>5. CASE Permission(m) # "app" /\ a = g.amount
    <3>1. h = NoGrant
      BY <1>10, <2>5, <2>2 DEF GrantAfter, a
    <3>2. owes <= a
      BY <1>1, <1>4
    <3>3. owes \in Nat
      BY <1>1, <1>4
    <3>4. QED BY <3>1, <3>2, <3>3, <2>2, <2>5, <1>1, <1>3 DEF owes
  <2>6. CASE Permission(m) # "app" /\ ~(a > g.amount) /\ a # g.amount
    <3>1. h = [g EXCEPT !.amount = g.amount - a]
      BY <1>10, <2>2, <2>6 DEF GrantAfter, a, Grants
    <3>2. g.amount - a \in Nat
      BY <2>2, <2>6, <1>1
    <3>3. PICK x \in Nat : x = g.amount - a
      BY <3>2
    <3>4. h = [g EXCEPT !.amount = x]
      BY <3>1, <3>3
    <3>5. h \in Grants /\ h.amount = x
      BY <3>4, <2>2 DEF Grants
    <3>6. h # NoGrant
      BY <3>5 DEF Grants, NoGrant
    <3>7. Amount(h) = x
      BY <3>5, <3>6 DEF Amount
    <3>8. owes \in Nat /\ owes <= a
      BY <1>1, <1>4
    <3>9. QED BY <3>3, <3>5, <3>7, <3>8, <2>2, <1>1 DEF owes
  <2>7. QED BY <2>3, <2>4, <2>5, <2>6
<1>11. QED BY <1>8, <1>9, <1>10

(* The books, when only a grant, or only what u has spent, changes.         *)
LEMMA CheckBooks ==
  ASSUME TypeOK, NEW u \in Users, NEW k \in Keys, NEW m \in Messages,
         CheckSigningPubKeyOwner(u, k, m)
  PROVE  /\ db'.keys = db.keys /\ db'.spent = db.spent /\ db'.granted = db.granted
         /\ \A v \in Users : v # u => db'.grants[v] = db.grants[v]
         /\ Left(db'.grants[u]) = Left(db.grants[u])
              + (Amount(GrantAfter(u, k, m)) - Amount(db.grants[u][k]))
         /\ \A v \in Users : Left(db.grants[v]) \in Nat
         /\ Amount(GrantAfter(u, k, m)) \in Nat /\ Amount(db.grants[u][k]) \in Nat
PROOF
<1>1. db \in States /\ \A v \in Users : db.grants[v] \in GrantBooks
  BY DEF TypeOK, States, GrantBooks
<1>2. GrantAfter(u, k, m) \in Grants \cup {NoGrant}
  BY CheckTakes
<1>3. db' = [db EXCEPT !.grants[u][k] = GrantAfter(u, k, m)]
  BY DEF CheckSigningPubKeyOwner
<1>4. PICK h : h = GrantAfter(u, k, m)
  OBVIOUS
<1>5. db' = [db EXCEPT !.grants[u][k] = h]
  BY <1>3, <1>4
<1>6. /\ db'.keys = db.keys /\ db'.spent = db.spent /\ db'.granted = db.granted
      /\ db'.grants[u] = [db.grants[u] EXCEPT ![k] = h]
      /\ \A v \in Users : v # u => db'.grants[v] = db.grants[v]
  BY <1>1, <1>5 DEF States
<1>7. /\ Amount(h) \in Nat /\ Amount(db.grants[u][k]) \in Nat
      /\ Left([db.grants[u] EXCEPT ![k] = h])
           = Left(db.grants[u]) + (Amount(h) - Amount(db.grants[u][k]))
  BY <1>1, <1>2, <1>4, LeftChanges
<1>8. \A v \in Users : Left(db.grants[v]) \in Nat
  BY <1>1, <1>2, LeftChanges
<1>9. QED BY <1>4, <1>6, <1>7, <1>8

(* A check leaves room for what was accepted, and for m if it may pass.     *)
LEMMA CheckKeeps ==
  ASSUME TypeOK, SInv, phase = "ante", NEW u \in Users, NEW k \in Keys,
         NEW m \in Messages, NEW q, CheckSigningPubKeyOwner(u, k, m), NEW v \in Users
  PROVE  /\ Within(db', v, 0)
         /\ MaySign(u, k, m) =>
              Within(db', v, Owed(db.keys, v, todo)
                + Owes(db.keys, v, [signer |-> u, key |-> k, msg |-> m, seq |-> q]))
PROOF
<1> DEFINE t == [signer |-> u, key |-> k, msg |-> m, seq |-> q]
<1>1. Within(db, v, 0) /\ Within(db, v, Owed(db.keys, v, todo))
  BY DEF SInv
<1>2. PICK owed \in Nat : owed = Owed(db.keys, v, todo)
  <2>1. Owed(db.keys, v, todo) \in Nat
    BY OwedIs DEF TypeOK
  <2>2. QED BY <2>1
<1>3. db.spent[v] \in Nat /\ db.granted[v] \in Nat
  BY DEF TypeOK, States
<1>4. /\ db'.spent = db.spent /\ db'.granted = db.granted
      /\ \A w \in Users : w # u => db'.grants[w] = db.grants[w]
      /\ Left(db'.grants[u]) = Left(db.grants[u])
           + (Amount(GrantAfter(u, k, m)) - Amount(db.grants[u][k]))
      /\ \A w \in Users : Left(db.grants[w]) \in Nat
      /\ Amount(GrantAfter(u, k, m)) \in Nat /\ Amount(db.grants[u][k]) \in Nat
  BY CheckBooks
<1>5. /\ Amount(GrantAfter(u, k, m)) <= Amount(db.grants[u][k])
      /\ MaySign(u, k, m) =>
           Amount(GrantAfter(u, k, m)) + Owes(db.keys, u, t) <= Amount(db.grants[u][k])
  BY CheckTakes
<1>6. Left(db.grants[v]) \in Nat
  BY <1>4
<1>7. CASE v # u
  <2>1. Owes(db.keys, v, t) = 0 /\ db'.grants[v] = db.grants[v]
    BY <1>4, <1>7 DEF Owes
  <2>2. Owed(db.keys, v, todo) + Owes(db.keys, v, t) = Owed(db.keys, v, todo)
    BY <2>1, <1>2
  <2>3. Within(db', v, 0) /\ Within(db', v, Owed(db.keys, v, todo))
    BY <1>1, <1>4, <2>1 DEF Within
  <2>4. QED BY <2>2, <2>3
<1>8. CASE v = u
  <2>1. PICK l \in Nat : l = Left(db.grants[v])
    BY <1>6
  <2>2. PICK x \in Nat, y \in Nat : x = Amount(GrantAfter(u, k, m)) /\ y = Amount(db.grants[u][k])
    BY <1>4
  <2>3. Left(db'.grants[v]) = l + (x - y)
    BY <1>4, <1>8, <2>1, <2>2
  <2>4. x <= y /\ (MaySign(u, k, m) => x + Owes(db.keys, v, t) <= y)
    BY <1>5, <1>8, <2>2
  <2>5. db.spent[v] + l + 0 <= db.granted[v] /\ db.spent[v] + l + owed <= db.granted[v]
    BY <1>1, <1>2, <2>1 DEF Within
  <2>6. db.spent[v] + (l + (x - y)) + 0 <= db.granted[v]
    BY <2>4, <2>5, <1>3
  <2>7. Within(db', v, 0)
    BY <2>3, <2>6, <1>4 DEF Within
  <2>8. ASSUME MaySign(u, k, m)
        PROVE  Within(db', v, Owed(db.keys, v, todo) + Owes(db.keys, v, t))
    <3>1. x + Owes(db.keys, v, t) <= y
      BY <2>4, <2>8
    <3>2. Owes(db.keys, v, t) \in Nat
      BY MessageTypes DEF Owes
    <3>3. db.spent[v] + (l + (x - y)) + (owed + Owes(db.keys, v, t)) <= db.granted[v]
      BY <3>1, <3>2, <2>5, <1>3
    <3>4. QED BY <3>3, <2>3, <1>2, <1>4 DEF Within
  <2>9. QED BY <2>7, <2>8
<1>9. QED BY <1>7, <1>8

LEMMA RefuseSpends ==
  ASSUME TypeOK, SInv, phase = "ante", NEW u \in Users, NEW k \in Keys,
         NEW m \in Messages, CheckSigningPubKeyOwner(u, k, m), Refused
  PROVE  SInv'
PROOF
<1>1. cache' = db' /\ todo' = <<>>
  BY DEF Refused
<1>2. PICK new : new = db'
  OBVIOUS
<1>3. \A v \in Users : Within(new, v, 0)
  BY <1>2, CheckKeeps
<1>4. \A v \in Users : Owed(new.keys, v, <<>>) = 0
  BY OwedNothing
<1>5. \A v \in Users : Within(new, v, 0) /\ Within(new, v, Owed(new.keys, v, <<>>))
  BY <1>3, <1>4
<1>6. QED BY <1>1, <1>2, <1>5 DEF SInv

LEMMA AcceptSpends ==
  ASSUME TypeOK, SInv, NEW u \in Users, NEW k \in Keys,
         NEW m \in Messages, NEW q \in Nat, Accept(u, k, m, q)
  PROVE  SInv'
PROOF
<1> DEFINE t == [signer |-> u, key |-> k, msg |-> m, seq |-> q]
<1>1. phase = "ante" /\ MaySign(u, k, m) /\ CheckSigningPubKeyOwner(u, k, m)
      /\ cache' = db' /\ todo' = Append(todo, t)
  BY DEF Accept, Checking
<1>2. t \in Signed /\ todo \in Seq(Signed)
  BY DEF Signed, TypeOK
<1>3. PICK new : new = db'
  OBVIOUS
<1>4. PICK list : list = todo'
  OBVIOUS
<1>5. new.keys = db.keys
  BY <1>1, <1>3, CheckBooks
<1>6. \A v \in Users : Within(new, v, 0)
                       /\ Within(new, v, Owed(db.keys, v, todo) + Owes(db.keys, v, t))
  BY <1>1, <1>3, CheckKeeps
<1> HIDE DEF t
<1>7. \A v \in Users : Owed(db.keys, v, list) = Owed(db.keys, v, todo) + Owes(db.keys, v, t)
  BY <1>1, <1>2, <1>4, OwedAppend
<1>8. \A v \in Users : Within(new, v, 0) /\ Within(new, v, Owed(new.keys, v, list))
  BY <1>5, <1>6, <1>7
<1>9. QED BY <1>1, <1>3, <1>4, <1>8 DEF SInv

(* A handler that grants adds to granted what it adds to the grants; one    *)
(* that donates adds to spent what was owed.                                *)
LEMMA AuthorizeKeeps ==
  ASSUME NEW s \in States, now \in Nat, NEW u \in Users, NEW to \in Users,
         NEW level \in Levels, NEW period \in Nat, NEW amount \in Nat,
         NEW v \in Users, NEW owed \in Nat, Within(s, v, owed)
  PROVE  Within(Authorize(s, u, to, level, period, amount), v, owed)
PROOF
<1> DEFINE z == Authorize(s, u, to, level, period, amount)
           key == KeyAt(s.keys[to], level)
           g == [to |-> to, level |-> level, until |-> now + period, amount |-> amount]
           i == [key |-> key, to |-> to, level |-> level, until |-> now + period]
<1>1. key \in Keys
  <2>1. PICK owner \in Accounts : owner = s.keys[to]
    BY DEF States
  <2>2. key = KeyAt(owner, level)
    BY <2>1
  <2>3. QED BY <2>2 DEF KeyAt, Keys, Accounts, Levels
<1>2. g \in Grants \cup {NoGrant} /\ g # NoGrant /\ g.amount = amount
  <2>1. PICK end \in Nat : end = now + period
    OBVIOUS
  <2>2. g = [to |-> to, level |-> level, until |-> end, amount |-> amount]
    BY <2>1
  <2>3. QED BY <2>2 DEF Grants, NoGrant
<1>3. z = [s EXCEPT !.grants[u][key] = g, !.issued[u] = Without(@, key) \cup {i},
                    !.granted[u] = @ + amount]
  BY DEF Authorize
<1>4. \A w \in Users : s.spent[w] \in Nat /\ s.granted[w] \in Nat /\ s.grants[w] \in GrantBooks
  BY DEF States, GrantBooks
<1>5. Amount(g) = amount
  BY <1>2 DEF Amount
<1> HIDE DEF g, i, key, z
<1>6. /\ z.spent = s.spent
      /\ z.granted = [s.granted EXCEPT ![u] = @ + amount]
      /\ z.grants = [s.grants EXCEPT ![u][key] = g]
  BY <1>3 DEF States
<1>7. CASE v # u
  <2>1. z.grants[v] = s.grants[v] /\ z.granted[v] = s.granted[v]
    BY <1>6, <1>7 DEF States
  <2>2. QED BY <1>6, <2>1 DEF Within, z
<1>8. CASE v = u
  <2>1. z.grants[v] = [s.grants[v] EXCEPT ![key] = g] /\ z.granted[v] = s.granted[v] + amount
    BY <1>6, <1>8 DEF States
  <2>2. /\ Left(s.grants[v]) \in Nat /\ Amount(s.grants[v][key]) \in Nat
        /\ Left([s.grants[v] EXCEPT ![key] = g])
             = Left(s.grants[v]) + (Amount(g) - Amount(s.grants[v][key]))
    BY <1>1, <1>2, <1>4, LeftChanges
  <2>3. PICK l \in Nat, y \in Nat : l = Left(s.grants[v]) /\ y = Amount(s.grants[v][key])
    BY <2>2
  <2>4. Left(z.grants[v]) = l + (amount - y)
    BY <2>1, <2>2, <2>3, <1>5
  <2>5. s.spent[v] + l + owed <= s.granted[v]
    BY <2>3 DEF Within
  <2>6. s.spent[v] + (l + (amount - y)) + owed <= s.granted[v] + amount
    BY <2>5, <1>4
  <2>7. QED BY <2>1, <2>4, <2>6, <1>6 DEF Within, z
<1>9. QED BY <1>7, <1>8

LEMMA HandledKeeps ==
  ASSUME NEW s \in States, now \in Nat, NEW t \in Signed, NEW v \in Users, NEW rest \in Nat,
         Within(s, v, Owes(db.keys, v, t) + rest)
  PROVE  Within(Handled(s, t.signer, t.key, t.msg), v, rest)
PROOF
<1> DEFINE u == t.signer
           k == t.key
           m == t.msg
           z == Handled(s, u, k, m)
<1>1. u \in Users /\ k \in Keys /\ m \in Messages
  BY DEF Signed
<1>2. PICK owes \in Nat : owes = Owes(db.keys, v, t)
  BY OwesType
<1>3. \A w \in Users : s.spent[w] \in Nat /\ s.granted[w] \in Nat /\ s.grants[w] \in GrantBooks
  BY DEF States, GrantBooks
<1>4. Left(s.grants[v]) \in Nat
  <2>1. NoGrant \in Grants \cup {NoGrant}
    OBVIOUS
  <2>2. QED BY <2>1, <1>1, <1>3, LeftChanges
<1>5. Within(s, v, rest)
  <2>1. PICK l \in Nat : l = Left(s.grants[v])
    BY <1>4
  <2>2. s.spent[v] + l + (owes + rest) <= s.granted[v]
    BY <2>1, <1>2 DEF Within
  <2>3. s.spent[v] + l + rest <= s.granted[v]
    BY <2>2, <1>3
  <2>4. QED BY <2>1, <2>3 DEF Within
<1>6. CASE m.kind = "recover"
  <2>1. z = [s EXCEPT !.keys[u] = m.keys, !.served[u] = @ \cup Served(m.keys)]
    BY <1>6 DEF Handled, Recovered
  <2> HIDE DEF z
  <2>2. z.spent = s.spent /\ z.grants = s.grants /\ z.granted = s.granted
    BY <2>1 DEF States
  <2>3. QED BY <2>2, <1>5 DEF Within, z
<1>7. CASE m.kind = "grant"
  <2>1. z = Authorize(s, u, m.to, m.level, m.period, 0)
    BY <1>7 DEF Handled
  <2>2. m.to \in Users /\ m.level \in Levels /\ m.period \in Nat
    BY <1>1, <1>7, MessageTypes
  <2>3. PICK zero \in Nat : zero = 0
    OBVIOUS
  <2>4. Within(Authorize(s, u, m.to, m.level, m.period, zero), v, rest)
    BY <2>2, <1>1, <1>5, AuthorizeKeeps
  <2>5. QED BY <2>1, <2>3, <2>4
<1>8. CASE m.kind = "preauthorize"
  <2>1. z = Authorize(s, u, m.to, "preauthorization", m.period, m.amount)
    BY <1>8 DEF Handled
  <2>2. m.to \in Users /\ m.period \in Nat /\ m.amount \in Nat
    BY <1>1, <1>8, MessageTypes
  <2>3. PICK level \in Levels : level = "preauthorization"
    BY DEF Levels
  <2>4. Within(Authorize(s, u, m.to, level, m.period, m.amount), v, rest)
    BY <2>2, <1>1, <1>5, AuthorizeKeeps
  <2>5. QED BY <2>1, <2>3, <2>4
<1>9. CASE m.kind = "revoke"
  <2>1. m.key \in Keys /\ NoGrant \in Grants \cup {NoGrant}
    BY <1>1, <1>9, MessageTypes
  <2>2. z = [s EXCEPT !.grants[u][m.key] = NoGrant, !.issued[u] = Without(@, m.key)]
    BY <1>9 DEF Handled, Revoked
  <2> HIDE DEF z
  <2>3. /\ z.spent = s.spent /\ z.granted = s.granted
        /\ z.grants = [s.grants EXCEPT ![u][m.key] = NoGrant]
    BY <2>2 DEF States
  <2>4. CASE v # u
    <3>1. z.grants[v] = s.grants[v]
      BY <2>3, <2>4, <1>1 DEF States
    <3>2. QED BY <3>1, <2>3, <1>5 DEF Within, z
  <2>5. CASE v = u
    <3>1. z.grants[v] = [s.grants[v] EXCEPT ![m.key] = NoGrant]
      BY <2>3, <2>5, <1>1 DEF States
    <3>2. /\ Amount(s.grants[v][m.key]) \in Nat
          /\ Left([s.grants[v] EXCEPT ![m.key] = NoGrant])
               = Left(s.grants[v]) + (Amount(NoGrant) - Amount(s.grants[v][m.key]))
      BY <2>1, <1>3, LeftChanges
    <3>3. Amount(NoGrant) = 0
      BY DEF Amount
    <3>4. PICK l \in Nat, y \in Nat : l = Left(s.grants[v]) /\ y = Amount(s.grants[v][m.key])
      BY <3>2, <1>4
    <3>5. Left(z.grants[v]) = l + (0 - y)
      BY <3>1, <3>2, <3>3, <3>4
    <3>6. s.spent[v] + l + rest <= s.granted[v]
      BY <3>4, <1>5 DEF Within
    <3>7. s.spent[v] + (l + (0 - y)) + rest <= s.granted[v]
      BY <3>6, <1>3
    <3>8. QED BY <3>5, <3>7, <2>3 DEF Within, z
  <2>6. QED BY <2>4, <2>5
<1>10. CASE m.kind = "donate" /\ k # db.keys[u].transaction
  <2>1. m.amount \in Nat
    BY <1>1, <1>10, MessageTypes
  <2>2. z = [s EXCEPT !.spent[u] = @ + m.amount]
    BY <1>10 DEF Handled
  <2> HIDE DEF z
  <2>3. /\ z.grants = s.grants /\ z.granted = s.granted
        /\ z.spent = [s.spent EXCEPT ![u] = @ + m.amount]
    BY <2>2 DEF States
  <2>4. CASE v # u
    <3>1. z.spent[v] = s.spent[v]
      BY <2>3, <2>4, <1>1 DEF States
    <3>2. QED BY <3>1, <2>3, <1>5 DEF Within, z
  <2>5. CASE v = u
    <3>1. z.spent[v] = s.spent[v] + m.amount
      BY <2>3, <2>5, <1>1 DEF States
    <3>2. owes = m.amount
      BY <1>2, <1>10, <2>5 DEF Owes
    <3>3. PICK l \in Nat : l = Left(s.grants[v])
      BY <1>4
    <3>4. s.spent[v] + l + (owes + rest) <= s.granted[v]
      BY <3>3, <1>2 DEF Within
    <3>5. s.spent[v] + owes + l + rest <= s.granted[v]
      BY <3>4, <1>3
    <3>6. QED BY <3>1, <3>2, <3>3, <3>5, <2>3 DEF Within, z
  <2>6. QED BY <2>4, <2>5
<1>11. CASE /\ m.kind \notin {"recover", "grant", "preauthorize", "revoke"}
            /\ ~(m.kind = "donate" /\ k # db.keys[u].transaction)
  <2>1. z = s
    BY <1>11 DEF Handled
  <2>2. QED BY <2>1, <1>5
<1>12. QED BY <1>6, <1>7, <1>8, <1>9, <1>10, <1>11

LEMMA HandleSpends ==
  ASSUME TypeOK, SInv, Handle
  PROVE  SInv'
PROOF
<1> DEFINE t == Head(todo)
<1>1. /\ cache' = Handled(cache, t.signer, t.key, t.msg) /\ todo' = Tail(todo)
      /\ db' = db /\ phase' # "ante" /\ todo # <<>>
  BY DEF Handle
<1>2. todo \in Seq(Signed) /\ cache \in States /\ now \in Nat
  BY KeysAssumption DEF TypeOK
<1>3. t \in Signed /\ Tail(todo) \in Seq(Signed)
  BY <1>1, <1>2
<1>4. ASSUME NEW v \in Users
      PROVE  Within(Handled(cache, t.signer, t.key, t.msg), v, Owed(db.keys, v, Tail(todo)))
  <2>1. PICK rest \in Nat : rest = Owed(db.keys, v, Tail(todo))
    BY <1>3, OwedIs
  <2>2. Owed(db.keys, v, todo) = Owes(db.keys, v, t) + rest
    BY <2>1, <1>1, <1>2, OwedTail
  <2>3. Within(cache, v, Owes(db.keys, v, t) + rest)
    BY <2>2 DEF SInv
  <2> HIDE DEF t
  <2>4. Within(Handled(cache, t.signer, t.key, t.msg), v, rest)
    BY <2>3, <1>2, <1>3, HandledKeeps
  <2>5. QED BY <2>1, <2>4
<1>5. PICK s, list : s = cache' /\ list = todo'
  OBVIOUS
<1>6. \A v \in Users : Within(s, v, Owed(db.keys, v, list))
  BY <1>1, <1>4, <1>5
<1>7. \A v \in Users : Within(db, v, 0)
  BY DEF SInv
<1>8. QED BY <1>1, <1>5, <1>6, <1>7 DEF SInv

LEMMA SpendsStep == TypeOK /\ SInv /\ [Next]_vars => SInv'
PROOF
<1> SUFFICES ASSUME TypeOK, SInv, [Next]_vars PROVE SInv'
  OBVIOUS
<1>1. CASE Ante
  <2>1. PICK u \in Users, k \in Keys, m \in Messages :
          \/ RefuseKey(u, k, m) \/ RefuseCapacity(u, k, m) \/ RefuseSignature(u, k, m)
          \/ \E q \in 0 .. MaxSequence[u] :
               RefuseSequence(u, k, m, q) \/ Accept(u, k, m, q)
    BY <1>1 DEF Ante
  <2>2. CASE \/ RefuseKey(u, k, m) \/ RefuseCapacity(u, k, m) \/ RefuseSignature(u, k, m)
             \/ \E q \in 0 .. MaxSequence[u] : RefuseSequence(u, k, m, q)
    <3>1. phase = "ante" /\ CheckSigningPubKeyOwner(u, k, m) /\ Refused
      BY <2>2 DEF RefuseKey, RefuseCapacity, RefuseSignature, RefuseSequence, Checking
    <3>2. QED BY <3>1, RefuseSpends
  <2>3. CASE \E q \in 0 .. MaxSequence[u] : Accept(u, k, m, q)
    BY <2>3, AcceptSpends
  <2>4. QED BY <2>1, <2>2, <2>3
<1>2. CASE Handle
  BY <1>2, HandleSpends
<1>3. ASSUME todo' = <<>> /\ cache' = db' /\ (db' = db \/ (db' = cache /\ todo = <<>>))
      PROVE  SInv'
  <2>1. PICK s : s = db'
    OBVIOUS
  <2>2. \A v \in Users : Within(s, v, 0)
    <3>1. \A v \in Users : Owed(db.keys, v, <<>>) = 0
      BY OwedNothing
    <3>2. QED BY <3>1, <2>1, <1>3 DEF SInv
  <2>3. \A v \in Users : Owed(s.keys, v, <<>>) = 0
    BY OwedNothing
  <2>4. \A v \in Users : Within(s, v, 0) /\ Within(s, v, Owed(s.keys, v, <<>>))
    BY <2>2, <2>3
  <2>5. QED BY <2>1, <2>4, <1>3 DEF SInv
<1>4. CASE HandleFails
  <2>1. todo' = <<>> /\ cache' = db' /\ (db' = db \/ (db' = cache /\ todo = <<>>))
    BY <1>4 DEF HandleFails
  <2>2. QED BY <1>3, <2>1
<1>5. CASE Write
  BY <1>3, <1>5 DEF Write
<1>6. CASE RunMessages \/ NextBlock \/ UNCHANGED vars
  <2>1. db' = db /\ cache' = cache /\ todo' = todo /\ (phase' = "ante" => phase = "ante")
    BY <1>6 DEF RunMessages, NextBlock, Later, vars
  <2>2. QED BY <2>1 DEF SInv
<1>7. QED BY <1>1, <1>2, <1>4, <1>5, <1>6 DEF Next

LEMMA SpendsStart == Init => SInv
PROOF
<1> SUFFICES ASSUME Init PROVE SInv
  OBVIOUS
<1>1. cache = db /\ todo = <<>>
  BY DEF Init
<1>2. ASSUME NEW v \in Users PROVE Within(db, v, 0)
  <2> DEFINE a == [k \in Keys |-> Amount(db.grants[v][k])]
  <2>1. \A k \in Keys : db.grants[v][k] = NoGrant
    BY DEF Init
  <2>2. a \in [Keys -> Int] /\ \A k \in Keys : a[k] = 0
    BY <2>1 DEF Amount
  <2>3. Left(db.grants[v]) = SumFunction(a)
    BY DEF Left
  <2>4. IsFiniteSet(Keys)
    BY KeysAssumption DEF Keys
  <2> HIDE DEF a
  <2>5. SumFunction(a) = 0
    BY <2>2, <2>4, SumTotal, SumZero
  <2>6. db.spent[v] = 0 /\ db.granted[v] = 0
    BY DEF Init
  <2>7. QED BY <2>3, <2>5, <2>6 DEF Within
<1>3. \A v \in Users : Owed(db.keys, v, <<>>) = 0
  BY OwedNothing
<1>4. QED BY <1>1, <1>2, <1>3 DEF SInv

(* What developers have donated for an account and may still donate is      *)
(* never more than it has preauthorized: a grant is reduced when a donation *)
(* is checked, and stays reduced when the transaction fails, while what a   *)
(* transaction grants is lost with it (CheckSigningPubKeyOwner,             *)
(* AuthorizePermission).                                                    *)
THEOREM GrantsSuffice == Spec => []SpendsWithinGrant
PROOF
<1>1. IInv /\ SInv /\ [Next]_vars => (IInv /\ SInv)'
  BY NextInv, SpendsStep DEF IInv
<1>2. Init => IInv /\ SInv
  BY InitInv, SpendsStart
<1>3. TypeOK /\ SInv => SpendsWithinGrant
  <2> SUFFICES ASSUME TypeOK, SInv PROVE SpendsWithinGrant
    OBVIOUS
  <2>0. SUFFICES ASSUME NEW u \in Users
        PROVE  db.spent[u] + Left(db.grants[u]) <= db.granted[u]
    BY DEF SpendsWithinGrant, Left, Amount
  <2>2. PICK l \in Nat : l = Left(db.grants[u])
    <3>1. db.grants[u] \in GrantBooks
      BY DEF TypeOK, States, GrantBooks
    <3>2. CASE Keys = {}
      <4>1. Left(db.grants[u]) = SumFunction([k \in {} |-> Amount(db.grants[u][k])])
        BY <3>2 DEF Left
      <4>2. QED BY <4>1, SumEmpty DEF SumFunction
    <3>3. CASE Keys # {}
      BY <3>1, <3>3, LeftChanges
    <3>4. QED BY <3>2, <3>3
  <2>3. db.spent[u] + l + 0 <= db.granted[u]
    BY <2>2 DEF SInv, Within
  <2>4. db.spent[u] + l <= db.granted[u]
    BY <2>3 DEF TypeOK, States
  <2>5. QED BY <2>2, <2>4
<1>4. QED BY <1>1, <1>2, <1>3, PTL DEF Spec, IInv
------------------------------------------------------------------------------

(****************************************************************************)
(* Sums over a queue.                                                       *)
(****************************************************************************)
CoinOf(q) == [i \in DOMAIN q |-> q[i].coin]
ChargeOf(q, t) == [i \in DOMAIN q |-> q[i].coin * (t - q[i].start)]

LEMMA QueueSums ==
  ASSUME NEW q \in Seq(Pending), NEW t \in Int
  PROVE  /\ Len(q) \in Nat /\ DOMAIN q = 1 .. Len(q)
         /\ \A i \in 1 .. Len(q) : q[i] \in Pending /\ q[i].coin \in Nat /\ q[i].start \in Nat
         /\ CoinOf(q) \in [1 .. Len(q) -> Nat]
         /\ ChargeOf(q, t) \in [1 .. Len(q) -> Int]
         /\ Coins(q) = SumFunctionOnSet(CoinOf(q), 1 .. Len(q))
         /\ Coins(q) \in Nat
         /\ Charge(q, t) = SumFunctionOnSet(ChargeOf(q, t), 1 .. Len(q))
         /\ Charge(q, t) \in Int
         /\ \A i \in 1 .. Len(q) : q[i].coin <= Coins(q)
<1>1. PICK n \in Nat : n = Len(q) /\ DOMAIN q = 1 .. n
  OBVIOUS
<1>2. ASSUME NEW i \in 1 .. n
      PROVE  q[i] \in Pending /\ q[i].coin \in Nat /\ q[i].start \in Nat
             /\ q[i].coin * (t - q[i].start) \in Int
  <2>1. PICK e \in Pending : e = q[i]
    BY <1>1
  <2>2. e.coin \in Nat /\ e.start \in Nat
    BY DEF Pending
  <2>3. e.coin * (t - e.start) \in Int
    BY <2>2
  <2>4. QED BY <2>1, <2>2, <2>3
<1>3. CoinOf(q) = [i \in 1 .. n |-> q[i].coin] /\ ChargeOf(q, t) = [i \in 1 .. n |-> q[i].coin * (t - q[i].start)]
  BY <1>1 DEF CoinOf, ChargeOf
<1>4. PICK f \in [1 .. n -> Nat] : f = CoinOf(q)
  BY <1>2, <1>3
<1>5. PICK g \in [1 .. n -> Int] : g = ChargeOf(q, t)
  BY <1>2, <1>3
<1>6. IsFiniteSet(1 .. n)
  BY FS_Interval
<1>7. SumFunction(f) = SumFunctionOnSet(f, 1 .. n) /\ SumFunction(f) \in Nat
      /\ \A i \in 1 .. n : f[i] <= SumFunction(f)
  <2>1. f \in [1 .. n -> Int]
    OBVIOUS
  <2>2. QED BY <1>6, <2>1, SumTotal, SumCounts
<1>8. SumFunction(g) = SumFunctionOnSet(g, 1 .. n) /\ SumFunction(g) \in Int
  BY <1>6, SumTotal
<1>9. Coins(q) = SumFunction(f) /\ Charge(q, t) = SumFunction(g)
  BY <1>4, <1>5 DEF Coins, Charge, CoinOf, ChargeOf
<1>10. \A i \in 1 .. n : f[i] = q[i].coin
  BY <1>3, <1>4
<1>11. QED BY <1>1, <1>2, <1>4, <1>5, <1>7, <1>8, <1>9, <1>10

(* A sum of multiples.                                                      *)
LEMMA SumTimes ==
  ASSUME NEW n \in Nat, NEW c \in [1 .. n -> Nat], NEW d \in Int,
         NEW g, g = [i \in 1 .. n |-> c[i] * d]
  PROVE  SumFunctionOnSet(g, 1 .. n) = SumFunctionOnSet(c, 1 .. n) * d
<1> DEFINE Good == {m \in Nat : m <= n =>
                       SumFunctionOnSet(g, 1 .. m) = SumFunctionOnSet(c, 1 .. m) * d}
<1>1. 0 \in Good
  <2>1. 1 .. 0 = {}
    OBVIOUS
  <2>2. SumFunctionOnSet(g, {}) = 0 /\ SumFunctionOnSet(c, {}) = 0
    BY SumEmpty
  <2>3. QED BY <2>1, <2>2
<1>2. ASSUME NEW m \in 0 .. n - 1, m \in Good PROVE m + 1 \in Good
  <2>1. /\ IsFiniteSet(1 .. m) /\ m + 1 \notin 1 .. m /\ 1 .. m + 1 = (1 .. m) \cup {m + 1}
        /\ \A i \in (1 .. m) \cup {m + 1} : i \in 1 .. n
        /\ m + 1 \in 1 .. n
    <3>1. IsFiniteSet(1 .. m)
      BY FS_Interval
    <3>2. QED BY <3>1
  <2>2. \A i \in 1 .. n : c[i] \in Int /\ g[i] \in Int /\ g[i] = c[i] * d
    OBVIOUS
  <2>3. SumFunctionOnSet(g, (1 .. m) \cup {m + 1}) = g[m + 1] + SumFunctionOnSet(g, 1 .. m)
    BY <2>1, <2>2, SumAdds
  <2>4. SumFunctionOnSet(c, (1 .. m) \cup {m + 1}) = c[m + 1] + SumFunctionOnSet(c, 1 .. m)
    BY <2>1, <2>2, SumAdds
  <2>5. SumFunctionOnSet(c, 1 .. m) \in Int
    <3>1. \A i \in 1 .. m : c[i] \in Int
      BY <2>1, <2>2
    <3>2. QED BY <2>1, <3>1, SumTakes
  <2>6. SumFunctionOnSet(g, 1 .. m) = SumFunctionOnSet(c, 1 .. m) * d
    BY <1>2
  <2>7. PICK x \in Int, y \in Int : x = c[m + 1] /\ y = SumFunctionOnSet(c, 1 .. m)
    BY <2>1, <2>2, <2>5
  <2>8. (x + y) * d = x * d + y * d
    OBVIOUS
  <2>9. SumFunctionOnSet(g, 1 .. m + 1) = SumFunctionOnSet(c, 1 .. m + 1) * d
    BY <2>1, <2>2, <2>3, <2>4, <2>6, <2>7, <2>8
  <2>10. QED BY <2>9
<1>3. n \in Good
  BY <1>1, <1>2, Upward
<1>4. QED BY <1>3

(* A queue in two parts.                                                    *)
InTwo(q, p, r) ==
  /\ q \in Seq(Pending) /\ p \in Seq(Pending) /\ r \in Seq(Pending)
  /\ Len(q) = Len(p) + Len(r)
  /\ \A i \in 1 .. Len(p) : q[i] = p[i]
  /\ \A i \in 1 .. Len(r) : q[i + Len(p)] = r[i]

LEMMA PartsAdd ==
  ASSUME NEW q, NEW p, NEW r, InTwo(q, p, r), NEW t \in Int
  PROVE  Coins(q) = Coins(p) + Coins(r) /\ Charge(q, t) = Charge(p, t) + Charge(r, t)
<1>1. q \in Seq(Pending) /\ p \in Seq(Pending) /\ r \in Seq(Pending)
  BY DEF InTwo
<1>2. PICK m \in Nat, n \in Nat : m = Len(p) /\ n = Len(r) /\ Len(q) = m + n
  BY <1>1 DEF InTwo
<1>3. /\ \A i \in 1 .. m : q[i] = p[i] /\ i \in 1 .. m + n
      /\ \A i \in 1 .. n : q[i + m] = r[i] /\ i + m \in 1 .. m + n
  BY <1>2 DEF InTwo
<1>4. /\ CoinOf(q) \in [1 .. m + n -> Nat] /\ ChargeOf(q, t) \in [1 .. m + n -> Int]
      /\ CoinOf(p) \in [1 .. m -> Nat] /\ ChargeOf(p, t) \in [1 .. m -> Int]
      /\ CoinOf(r) \in [1 .. n -> Nat] /\ ChargeOf(r, t) \in [1 .. n -> Int]
      /\ DOMAIN q = 1 .. m + n /\ DOMAIN p = 1 .. m /\ DOMAIN r = 1 .. n
  BY <1>1, <1>2, QueueSums
<1>5. Joined(m, n, CoinOf(p), CoinOf(r), CoinOf(q))
  <2>1. \A i \in 1 .. m : CoinOf(p)[i] \in Int /\ CoinOf(q)[i] = CoinOf(p)[i]
    BY <1>3, <1>4 DEF CoinOf
  <2>2. \A i \in 1 .. n : CoinOf(r)[i] \in Int /\ CoinOf(q)[i + m] = CoinOf(r)[i]
    BY <1>3, <1>4 DEF CoinOf
  <2>3. QED BY <2>1, <2>2 DEF Joined
<1>6. Joined(m, n, ChargeOf(p, t), ChargeOf(r, t), ChargeOf(q, t))
  <2>1. \A i \in 1 .. m : ChargeOf(p, t)[i] \in Int /\ ChargeOf(q, t)[i] = ChargeOf(p, t)[i]
    BY <1>3, <1>4 DEF ChargeOf
  <2>2. \A i \in 1 .. n : ChargeOf(r, t)[i] \in Int /\ ChargeOf(q, t)[i + m] = ChargeOf(r, t)[i]
    BY <1>3, <1>4 DEF ChargeOf
  <2>3. QED BY <2>1, <2>2 DEF Joined
<1>7. /\ SumFunctionOnSet(CoinOf(q), 1 .. m + n)
            = SumFunctionOnSet(CoinOf(p), 1 .. m) + SumFunctionOnSet(CoinOf(r), 1 .. n)
      /\ SumFunctionOnSet(ChargeOf(q, t), 1 .. m + n)
            = SumFunctionOnSet(ChargeOf(p, t), 1 .. m) + SumFunctionOnSet(ChargeOf(r, t), 1 .. n)
  BY <1>5, <1>6, SumJoins
<1>8. QED BY <1>1, <1>2, <1>7, QueueSums

LEMMA CutInTwo ==
  ASSUME NEW q \in Seq(Pending), NEW n \in 0 .. Len(q)
  PROVE  LET p == SubSeq(q, 1, n)
             r == SubSeq(q, n + 1, Len(q))
         IN /\ InTwo(q, p, r)
            /\ Len(p) = n /\ Len(r) = Len(q) - n
            /\ \A i \in 1 .. n : p[i] = q[i]
            /\ \A i \in 1 .. Len(q) - n : r[i] = q[i + n]
<1> DEFINE p == SubSeq(q, 1, n)
           r == SubSeq(q, n + 1, Len(q))
<1>1. PICK m \in Nat : m = Len(q) /\ n \in 0 .. m
  OBVIOUS
<1>2. \A i \in 1 .. m : q[i] \in Pending
  BY <1>1
<1>3. /\ p \in Seq(Pending) /\ Len(p) = n
      /\ \A i \in 1 .. n : p[i] = q[i]
  <2>1. /\ SubSeq(q, 1, n) \in Seq(Pending)
        /\ Len(SubSeq(q, 1, n)) = IF 1 <= n THEN n - 1 + 1 ELSE 0
        /\ \A i \in 1 .. n - 1 + 1 : SubSeq(q, 1, n)[i] = q[1 + i - 1]
    BY <1>1, <1>2, SubSeqProperties
  <2>2. QED BY <2>1, <1>1
<1>4. /\ r \in Seq(Pending) /\ Len(r) = m - n
      /\ \A i \in 1 .. m - n : r[i] = q[i + n]
  <2>1. /\ SubSeq(q, n + 1, m) \in Seq(Pending)
        /\ Len(SubSeq(q, n + 1, m)) = IF n + 1 <= m THEN m - (n + 1) + 1 ELSE 0
        /\ \A i \in 1 .. m - (n + 1) + 1 : SubSeq(q, n + 1, m)[i] = q[n + 1 + i - 1]
    <3>1. \A i \in n + 1 .. m : q[i] \in Pending
      BY <1>1, <1>2
    <3>2. n + 1 \in Int /\ m \in Int
      BY <1>1
    <3>3. QED BY <3>1, <3>2, SubSeqProperties
  <2>2. \A i \in 1 .. m - n : n + 1 + i - 1 = i + n
    BY <1>1
  <2>3. QED BY <2>1, <2>2, <1>1
<1> HIDE DEF p, r
<1>5. InTwo(q, p, r)
  BY <1>1, <1>3, <1>4 DEF InTwo
<1>6. QED BY <1>1, <1>3, <1>4, <1>5 DEF p, r

(* An entry at the end.                                                     *)
LEMMA EntryAdds ==
  ASSUME NEW q \in Seq(Pending), NEW e \in Pending, NEW t \in Int
  PROVE  /\ Append(q, e) \in Seq(Pending) /\ Len(Append(q, e)) = Len(q) + 1
         /\ \A i \in 1 .. Len(q) : Append(q, e)[i] = q[i]
         /\ Append(q, e)[Len(q) + 1] = e
         /\ Coins(Append(q, e)) = Coins(q) + e.coin
         /\ Charge(Append(q, e), t) = Charge(q, t) + e.coin * (t - e.start)
<1>1. PICK n \in Nat : n = Len(q)
  OBVIOUS
<1>2. PICK s : s = Append(q, e)
  OBVIOUS
<1>3. /\ s \in Seq(Pending) /\ Len(s) = n + 1
      /\ \A i \in 1 .. n : s[i] = q[i]
      /\ s[n + 1] = e
  BY <1>1, <1>2, AppendProperties
<1>4. PICK f \in [1 .. n + 1 -> Nat] : f = CoinOf(s)
  BY <1>3, QueueSums
<1>5. PICK g \in [1 .. n + 1 -> Int] : g = ChargeOf(s, t)
  BY <1>3, QueueSums
<1>6. /\ \A i \in 1 .. n + 1 : f[i] = s[i].coin /\ g[i] = s[i].coin * (t - s[i].start)
      /\ \A i \in 1 .. n : CoinOf(q)[i] = q[i].coin /\ ChargeOf(q, t)[i] = q[i].coin * (t - q[i].start)
  <2>1. DOMAIN s = 1 .. n + 1 /\ DOMAIN q = 1 .. n
    BY <1>1, <1>3
  <2>2. QED BY <2>1, <1>4, <1>5 DEF CoinOf, ChargeOf
<1>7. /\ n + 1 \in 1 .. n + 1 /\ n + 1 \notin 1 .. n /\ 1 .. n + 1 = (1 .. n) \cup {n + 1}
      /\ IsFiniteSet(1 .. n) /\ \A i \in 1 .. n : i \in 1 .. n + 1
  <2>1. IsFiniteSet(1 .. n)
    BY FS_Interval
  <2>2. n + 1 \in 1 .. n + 1 /\ n + 1 \notin 1 .. n /\ \A i \in 1 .. n : i \in 1 .. n + 1
    OBVIOUS
  <2>3. 1 .. n + 1 = (1 .. n) \cup {n + 1}
    OBVIOUS
  <2>4. QED BY <2>1, <2>2, <2>3
<1>8. /\ SumFunctionOnSet(f, 1 .. n + 1) = f[n + 1] + SumFunctionOnSet(f, 1 .. n)
      /\ SumFunctionOnSet(g, 1 .. n + 1) = g[n + 1] + SumFunctionOnSet(g, 1 .. n)
  <2>1. \A i \in (1 .. n) \cup {n + 1} : f[i] \in Int /\ g[i] \in Int
    BY <1>7
  <2>2. /\ SumFunctionOnSet(f, (1 .. n) \cup {n + 1}) = f[n + 1] + SumFunctionOnSet(f, 1 .. n)
        /\ SumFunctionOnSet(g, (1 .. n) \cup {n + 1}) = g[n + 1] + SumFunctionOnSet(g, 1 .. n)
    BY <2>1, <1>7, SumAdds
  <2>3. QED BY <2>2, <1>7
<1>9. /\ SumFunctionOnSet(f, 1 .. n) = SumFunctionOnSet(CoinOf(q), 1 .. n)
      /\ SumFunctionOnSet(g, 1 .. n) = SumFunctionOnSet(ChargeOf(q, t), 1 .. n)
  <2>1. CoinOf(q) \in [1 .. n -> Nat] /\ ChargeOf(q, t) \in [1 .. n -> Int]
    BY <1>1, QueueSums
  <2>2. ASSUME NEW i \in 1 .. n
        PROVE  /\ CoinOf(q)[i] \in Int /\ f[i] = CoinOf(q)[i]
               /\ ChargeOf(q, t)[i] \in Int /\ g[i] = ChargeOf(q, t)[i]
    <3>1. i \in 1 .. n + 1 /\ s[i] = q[i]
      BY <1>3, <1>7
    <3>2. f[i] = q[i].coin /\ g[i] = q[i].coin * (t - q[i].start)
      BY <3>1, <1>6
    <3>3. CoinOf(q)[i] \in Int /\ ChargeOf(q, t)[i] \in Int
      BY <2>1
    <3>4. CoinOf(q)[i] = q[i].coin /\ ChargeOf(q, t)[i] = q[i].coin * (t - q[i].start)
      BY <1>6
    <3>5. QED BY <3>2, <3>3, <3>4
  <2>3. /\ \A i \in 1 .. n : CoinOf(q)[i] \in Int /\ f[i] = CoinOf(q)[i]
        /\ \A i \in 1 .. n : ChargeOf(q, t)[i] \in Int /\ g[i] = ChargeOf(q, t)[i]
    BY <2>2
  <2>4. QED BY <2>3, <1>7, SumSame
<1>10. /\ Coins(q) = SumFunctionOnSet(CoinOf(q), 1 .. n) /\ Coins(q) \in Nat
       /\ Charge(q, t) = SumFunctionOnSet(ChargeOf(q, t), 1 .. n) /\ Charge(q, t) \in Int
       /\ Coins(s) = SumFunctionOnSet(f, 1 .. n + 1)
       /\ Charge(s, t) = SumFunctionOnSet(g, 1 .. n + 1)
  BY <1>1, <1>3, <1>4, <1>5, QueueSums
<1>11. f[n + 1] = e.coin /\ g[n + 1] = e.coin * (t - e.start)
  BY <1>3, <1>6, <1>7
<1>12. Coins(s) = Coins(q) + e.coin /\ Charge(s, t) = Charge(q, t) + e.coin * (t - e.start)
  <2>1. e.coin \in Nat /\ g[n + 1] \in Int
    BY <1>7 DEF Pending
  <2>2. Charge(s, t) = g[n + 1] + Charge(q, t)
    BY <1>8, <1>9, <1>10
  <2>3. Coins(s) = f[n + 1] + Coins(q)
    BY <1>8, <1>9, <1>10
  <2>4. QED BY <2>1, <2>2, <2>3, <1>10, <1>11
<1>13. QED BY <1>1, <1>2, <1>3, <1>12

(* With time, every coin charges.                                           *)
LEMMA ChargeLater ==
  ASSUME NEW q \in Seq(Pending), NEW t \in Int, NEW v \in Int
  PROVE  Charge(q, v) = Charge(q, t) + Coins(q) * (v - t)
<1>1. PICK n \in Nat : n = Len(q) /\ DOMAIN q = 1 .. n
  OBVIOUS
<1>2. PICK d \in Int : d = v - t
  OBVIOUS
<1>3. IsFiniteSet(1 .. n)
  BY FS_Interval
<1>4. \A i \in 1 .. n : q[i].coin \in Nat /\ q[i].start \in Nat
  BY <1>1, QueueSums
<1>5. PICK f \in [1 .. n -> Int] : f = ChargeOf(q, t)
  BY <1>1, QueueSums
<1>6. PICK h \in [1 .. n -> Int] : h = ChargeOf(q, v)
  BY <1>1, QueueSums
<1>7. PICK c \in [1 .. n -> Nat] : c = CoinOf(q)
  BY <1>1, QueueSums
<1>8. \A i \in 1 .. n : /\ c[i] = q[i].coin /\ f[i] = q[i].coin * (t - q[i].start)
                        /\ h[i] = q[i].coin * (v - q[i].start)
  BY <1>1, <1>5, <1>6, <1>7 DEF CoinOf, ChargeOf
<1>9. PICK g : g = [i \in 1 .. n |-> c[i] * d]
  OBVIOUS
<1>10. \A i \in 1 .. n : f[i] \in Int /\ g[i] \in Int /\ h[i] = f[i] + g[i]
  <2>1. ASSUME NEW i \in 1 .. n PROVE f[i] \in Int /\ g[i] \in Int /\ h[i] = f[i] + g[i]
    <3>1. PICK x \in Nat, y \in Nat : x = q[i].coin /\ y = q[i].start
      BY <1>4
    <3>2. x * (v - y) = x * (t - y) + x * d
      <4>1. PICK a \in Int : a = t - y
        OBVIOUS
      <4>2. v - y = a + d
        BY <1>2, <4>1
      <4>3. x * (a + d) = x * a + x * d
        OBVIOUS
      <4>4. QED BY <4>1, <4>2, <4>3
    <3>3. c[i] = x /\ g[i] = c[i] * d
      BY <1>8, <1>9, <3>1
    <3>4. PICK z \in Int : z = x * d
      OBVIOUS
    <3>5. g[i] = z
      BY <3>3, <3>4
    <3>6. f[i] = x * (t - y) /\ h[i] = x * (v - y)
      BY <1>8, <3>1
    <3>7. PICK a \in Int : a = f[i]
      OBVIOUS
    <3>8. h[i] = a + z
      BY <3>2, <3>4, <3>6, <3>7
    <3>9. QED BY <3>5, <3>7, <3>8
  <2>2. QED BY <2>1
<1>11. SumFunctionOnSet(h, 1 .. n) = SumFunctionOnSet(f, 1 .. n) + SumFunctionOnSet(g, 1 .. n)
  <2>1. PICK S : S = 1 .. n
    OBVIOUS
  <2>2. IsFiniteSet(S) /\ \A i \in S : f[i] \in Int /\ g[i] \in Int /\ h[i] = f[i] + g[i]
    BY <1>3, <1>10, <2>1
  <2>3. SumFunctionOnSet(h, S) = SumFunctionOnSet(f, S) + SumFunctionOnSet(g, S)
    BY <2>2, SumTwo
  <2>4. QED BY <2>1, <2>3
<1>12. SumFunctionOnSet(g, 1 .. n) = SumFunctionOnSet(c, 1 .. n) * d
  BY <1>3, <1>9, SumTimes
<1>13. /\ Charge(q, v) = SumFunctionOnSet(h, 1 .. n)
       /\ Charge(q, t) = SumFunctionOnSet(f, 1 .. n)
       /\ Coins(q) = SumFunctionOnSet(c, 1 .. n)
  BY <1>1, <1>5, <1>6, <1>7, QueueSums
<1>14. QED BY <1>2, <1>11, <1>12, <1>13

(* Coins that have been there less than Recover have charged less than      *)
(* they are.                                                                *)
LEMMA ChargeBounded ==
  ASSUME NEW q \in Seq(Pending), NEW t \in Int,
         \A i \in 1 .. Len(q) : q[i].start <= t /\ t < q[i].start + Recover
  PROVE  /\ Charge(q, t) \in Nat /\ Charge(q, t) <= Recover * Coins(q)
         /\ Charge(q, t) + Coins(q) <= Recover * Coins(q)
<1>0. PICK w \in Nat : w + 1 = Recover
  <2>1. Recover \in Nat \ {0}
    BY BankAssumption
  <2>2. Recover - 1 \in Nat /\ (Recover - 1) + 1 = Recover
    BY <2>1
  <2>3. QED BY <2>2
<1>1. PICK n \in Nat : n = Len(q) /\ DOMAIN q = 1 .. n
  OBVIOUS
<1>2. IsFiniteSet(1 .. n)
  BY FS_Interval
<1>3. \A i \in 1 .. n : q[i].coin \in Nat /\ q[i].start \in Nat
  BY <1>1, QueueSums
<1>4. PICK f \in [1 .. n -> Int] : f = ChargeOf(q, t)
  BY <1>1, QueueSums
<1>5. PICK c \in [1 .. n -> Nat] : c = CoinOf(q)
  BY <1>1, QueueSums
<1>6. PICK g : g = [i \in 1 .. n |-> c[i] * w]
  OBVIOUS
<1>7. \A i \in 1 .. n : f[i] \in Nat /\ g[i] \in Int /\ f[i] <= g[i] /\ f[i] \in Int
  <2>1. ASSUME NEW i \in 1 .. n PROVE f[i] \in Nat /\ g[i] \in Int /\ f[i] <= g[i]
    <3>1. PICK x \in Nat, y \in Nat : x = q[i].coin /\ y = q[i].start
      BY <1>3
    <3>2. PICK z \in Nat : z = t - y /\ z <= w
      BY <1>0, <1>1, <3>1
    <3>3. x * z \in Nat /\ x * z <= x * w /\ x * w \in Int
      <4>1. \A a, b, k \in Nat : a <= b => k * a <= k * b /\ k * a \in Nat /\ k * b \in Int
        BY SMT
      <4>2. QED BY <3>2, <4>1
    <3>4. f[i] = x * z /\ g[i] = x * w
      BY <1>1, <1>4, <1>5, <1>6, <3>1, <3>2 DEF CoinOf, ChargeOf
    <3>5. QED BY <3>3, <3>4
  <2>2. QED BY <2>1
<1>8. SumFunctionOnSet(f, 1 .. n) <= SumFunctionOnSet(g, 1 .. n)
  BY <1>2, <1>7, SumGrows
<1>9. SumFunctionOnSet(f, 1 .. n) \in Nat
  BY <1>2, <1>7, SumNat
<1>10. SumFunctionOnSet(g, 1 .. n) = SumFunctionOnSet(c, 1 .. n) * w
  BY <1>2, <1>6, SumTimes
<1>11. /\ Charge(q, t) = SumFunctionOnSet(f, 1 .. n)
       /\ Coins(q) = SumFunctionOnSet(c, 1 .. n) /\ Coins(q) \in Nat
  BY <1>1, <1>4, <1>5, QueueSums
<1>12. Charge(q, t) <= Coins(q) * w
  BY <1>8, <1>10, <1>11
<1>13. PICK y \in Nat, x \in Nat : y = Coins(q) /\ x = Charge(q, t) /\ x <= y * w
  BY <1>9, <1>11, <1>12
<1>14. (w + 1) * y = y * w + y
  BY SMT
<1>15. x + y <= Recover * y
  BY <1>0, <1>13, <1>14
<1>16. x <= Recover * y
  BY <1>0, <1>13, <1>14
<1>17. QED BY <1>13, <1>15, <1>16
------------------------------------------------------------------------------
LEMMA GreatestIn ==
  ASSUME NEW n \in Nat, NEW S \in SUBSET (0 .. n), S # {}
  PROVE  Max(S) \in S /\ \A x \in S : x <= Max(S)
<1> DEFINE T == {n - x : x \in S}
<1>1. T \in SUBSET Nat /\ T # {}
  <2>1. \A x \in S : n - x \in Nat
    <3>1. \A x \in 0 .. n : n - x \in Nat
      OBVIOUS
    <3>2. QED BY <3>1
  <2>2. QED BY <2>1
<1>2. PICK y \in T : \A z \in T : y <= z
  BY <1>1, LeastNatural
<1>3. PICK m \in S : y = n - m
  BY <1>2
<1>4. \A x \in S : m >= x
  <2>1. ASSUME NEW x \in S PROVE m >= x
    <3>1. n - x \in T
      OBVIOUS
    <3>2. n - m <= n - x
      BY <1>2, <1>3, <3>1
    <3>3. QED BY <3>2
  <2>2. QED BY <2>1
<1>5. Max(S) \in S /\ \A x \in S : Max(S) >= x
  BY <1>4 DEF Max
<1>6. QED BY <1>5

LEMMA LeastIn ==
  ASSUME NEW S \in SUBSET Nat, S # {}
  PROVE  Min(S) \in S /\ \A x \in S : Min(S) <= x
<1>1. \E m \in S : \A x \in S : m <= x
  BY LeastNatural
<1>2. QED BY <1>1 DEF Min

(* Intervals.                                                               *)
LEMMA SlotIs ==
  ASSUME NEW t \in Nat
  PROVE  Slot(t) \in Nat /\ Slot(t) <= t /\ Slot(t) % Interval = 0
<1>1. PICK d \in Nat \ {0} : d = Interval
  BY BankAssumption
<1>2. PICK q \in Nat, r \in 0 .. d - 1 : q = t \div d /\ t = d * q + r
  BY DivDef
<1>3. PICK s \in Nat : s = d * q
  BY SMT
<1>4. Slot(t) = s
  <2>1. Slot(t) = q * d
    BY <1>1, <1>2 DEF Slot
  <2>2. QED BY <1>3, <2>1
<1>5. s % d = 0
  <2>1. PICK p \in Nat, x \in 0 .. d - 1 : p = s \div d /\ x = s % d /\ s = d * p + x
    BY DivDef
  <2>2. PICK k \in Int : k = q - p
    OBVIOUS
  <2>3. d * k = x
    <3>1. d * q = d * p + x
      BY <1>3, <2>1
    <3>2. d * (q - p) = d * q - d * p
      OBVIOUS
    <3>3. QED BY <2>2, <3>1, <3>2
  <2>4. k = 0
    <3>1. k <= 0
      <4>1. ASSUME k >= 1 PROVE FALSE
        <5>1. d * k >= d
          BY <4>1
        <5>2. QED BY <2>3, <5>1
      <4>2. QED BY <4>1
    <3>2. k >= 0
      <4>1. ASSUME k <= -1 PROVE FALSE
        <5>1. d * k <= -d
          BY <4>1
        <5>2. QED BY <2>3, <5>1
      <4>2. QED BY <4>1
    <3>3. QED BY <3>1, <3>2
  <2>5. QED BY <2>1, <2>3, <2>4
<1>6. QED BY <1>1, <1>2, <1>3, <1>4, <1>5

LEMMA SlotsFollow ==
  ASSUME NEW t \in Nat, NEW v \in Nat, t <= v
  PROVE  Slot(t) <= Slot(v)
<1>1. PICK d \in Nat \ {0} : d = Interval
  BY BankAssumption
<1>2. PICK q \in Nat, r \in 0 .. d - 1 : q = t \div d /\ t = d * q + r
  BY DivDef
<1>3. PICK p \in Nat, s \in 0 .. d - 1 : p = v \div d /\ v = d * p + s
  BY DivDef
<1>4. q <= p
  <2>1. ASSUME q >= p + 1 PROVE FALSE
    <3>1. d * q >= d * (p + 1)
      BY <2>1
    <3>2. d * (p + 1) = d * p + d
      OBVIOUS
    <3>3. d * p \in Nat /\ d * q \in Nat
      BY SMT
    <3>4. QED BY <1>2, <1>3, <3>1, <3>2, <3>3
  <2>2. QED BY <2>1
<1>5. q * d <= p * d
  BY <1>4
<1>6. QED BY <1>1, <1>2, <1>3, <1>5 DEF Slot
------------------------------------------------------------------------------
(****************************************************************************)
(* An account: the entries of its queue are in order, were not to be taken  *)
(* out at its last update, and the running totals are theirs.               *)
(****************************************************************************)
Ordered(q, t) ==
  /\ q \in Seq(Pending)
  /\ \A i \in 1 .. Len(q) : /\ q[i].coin > 0 /\ q[i].start % Interval = 0
                            /\ q[i].start <= t /\ t < q[i].start + Recover
  /\ \A i, j \in 1 .. Len(q) : i < j => q[i].start < q[j].start

Sound(a, t) ==
  /\ a \in Banks
  /\ Ordered(a.queue, a.updated)
  /\ a.total = Coins(a.queue) /\ a.charged = Charge(a.queue, a.updated)
  /\ a.coinDay + a.total <= a.saving
  /\ a.updated <= Slot(t)

(* What is left of a queue is in order.                                     *)
LEMMA LeftOrdered ==
  ASSUME NEW q, NEW t, Ordered(q, t), NEW k \in Nat, NEW r \in Seq(Pending),
         k + Len(r) <= Len(q),
         \A i \in 1 .. Len(r) : r[i].coin > 0 /\ r[i].start = q[i + k].start
  PROVE  Ordered(r, t)
<1>1. PICK n \in Nat : n = Len(r) /\ q \in Seq(Pending)
  BY DEF Ordered
<1>2. PICK m \in Nat : m = Len(q) /\ k + n <= m
  BY <1>1
<1>3. ASSUME NEW i \in 1 .. n
      PROVE  /\ i + k \in 1 .. m /\ r[i].start = q[i + k].start
             /\ r[i].coin > 0 /\ r[i].start % Interval = 0
             /\ r[i].start <= t /\ t < r[i].start + Recover
  <2>1. i + k \in 1 .. m
    BY <1>2
  <2>2. r[i].coin > 0 /\ r[i].start = q[i + k].start
    BY <1>1
  <2>3. /\ q[i + k].start % Interval = 0
        /\ q[i + k].start <= t /\ t < q[i + k].start + Recover
    BY <1>2, <2>1 DEF Ordered
  <2>4. QED BY <2>1, <2>2, <2>3
<1>4. ASSUME NEW i \in 1 .. n, NEW j \in 1 .. n, i < j PROVE r[i].start < r[j].start
  <2>1. i + k \in 1 .. m /\ j + k \in 1 .. m /\ i + k < j + k
    <3>1. \A l \in 1 .. n : l + k \in 1 .. m
      BY <1>3
    <3>2. i + k < j + k
      BY <1>4
    <3>3. QED BY <3>1, <3>2
  <2>2. q[i + k].start < q[j + k].start
    BY <1>2, <2>1 DEF Ordered
  <2>3. QED BY <1>3, <2>2
<1>5. QED BY <1>1, <1>3, <1>4 DEF Ordered

(* Entries that leave the queue take their part of the totals along, so     *)
(* that what is left adds up.                                               *)
LEMMA Requeued ==
  ASSUME NEW a \in Banks, a.total = Coins(a.queue), a.charged = Charge(a.queue, a.updated),
         NEW q, Ordered(q, a.updated)
  PROVE  LET b == Requeue(a, q)
         IN /\ b \in Banks /\ b.queue = q
            /\ b.total = Coins(q) /\ b.charged = Charge(q, a.updated)
            /\ b.saving = a.saving /\ b.coinDay = a.coinDay /\ b.updated = a.updated
<1>1. /\ a.queue \in Seq(Pending) /\ a.updated \in Nat /\ a.saving \in Nat /\ a.coinDay \in Nat
      /\ a.total \in Nat /\ a.charged \in Nat
  BY DEF Banks
<1>2. q \in Seq(Pending)
  BY DEF Ordered
<1>3. PICK x \in Nat, y \in Nat : x = Coins(a.queue) /\ y = Coins(q)
  <2>1. PICK z \in Int : z = 0
    OBVIOUS
  <2>2. QED BY <1>1, <1>2, <2>1, QueueSums
<1>4. PICK v \in Int, w \in Nat : v = Charge(a.queue, a.updated) /\ w = Charge(q, a.updated)
  <2>1. \A i \in 1 .. Len(q) : q[i].start <= a.updated /\ a.updated < q[i].start + Recover
    BY DEF Ordered
  <2>3. a.updated \in Int
    BY <1>1
  <2>2. Charge(q, a.updated) \in Nat
    BY <1>2, <2>1, <2>3, ChargeBounded
  <2>4. Charge(a.queue, a.updated) \in Int
    BY <1>1, <2>3, QueueSums
  <2>5. QED BY <2>2, <2>4
<1>5. a.total - (x - y) = y /\ a.charged - (v - w) = w
  BY <1>3, <1>4
<1>6. PICK b : b = Requeue(a, q)
  OBVIOUS
<1>7. b = [a EXCEPT !.queue = q, !.total = y, !.charged = w]
  BY <1>3, <1>4, <1>5, <1>6 DEF Requeue
<1>8. /\ b \in Banks /\ b.queue = q /\ b.total = y /\ b.charged = w
      /\ b.saving = a.saving /\ b.coinDay = a.coinDay /\ b.updated = a.updated
  BY <1>2, <1>7 DEF Banks
<1>9. QED BY <1>3, <1>4, <1>6, <1>8

(* Entries are taken out as far as the first that still charges; those      *)
(* behind it are younger (updateTXFromPendingCoinDayQueue).                 *)
Expired(q, at) ==
  Max({0} \cup {i \in DOMAIN q : \A j \in 1 .. i : q[j].start + Recover <= at})

LEMMA ExpiredFirst ==
  ASSUME NEW q, NEW t, Ordered(q, t), NEW at \in Nat, t <= at, t \in Nat
  PROVE  /\ Expired(q, at) \in 0 .. Len(q)
         /\ Ordered(SubSeq(q, Expired(q, at) + 1, Len(q)), t)
         /\ Ordered(SubSeq(q, Expired(q, at) + 1, Len(q)), at)
<1>0. PICK w \in Nat \ {0} : w = Recover
  BY BankAssumption
<1>1. PICK m \in Nat : m = Len(q) /\ q \in Seq(Pending) /\ DOMAIN q = 1 .. m
  BY DEF Ordered
<1>2. \A i \in 1 .. m : /\ q[i].start \in Nat /\ q[i].coin > 0 /\ q[i].start % Interval = 0
                        /\ q[i].start <= t /\ t < q[i].start + w
  BY <1>0, <1>1, QueueSums DEF Ordered
<1>3. \A i, j \in 1 .. m : i < j => q[i].start < q[j].start
  BY <1>1 DEF Ordered
<1> DEFINE Gone == {0} \cup {i \in DOMAIN q : \A j \in 1 .. i : q[j].start + Recover <= at}
<1>4. PICK n \in Gone : n = Expired(q, at) /\ \A i \in Gone : i <= n
  <2>1. Gone \in SUBSET (0 .. m) /\ Gone # {}
    BY <1>1
  <2>2. Max(Gone) \in Gone /\ \A i \in Gone : i <= Max(Gone)
    BY <2>1, GreatestIn
  <2>3. QED BY <2>2 DEF Expired
<1>5. n \in 0 .. m
  BY <1>1, <1>4
<1>6. \A i \in 1 .. m : i > n => at < q[i].start + w
  <2>1. CASE n = m
    BY <2>1
  <2>2. CASE n < m
    <3>1. n + 1 \in 1 .. m /\ n + 1 \notin Gone
      BY <1>4, <1>5, <2>2
    <3>2. PICK j \in 1 .. n + 1 : ~ (q[j].start + w <= at)
      BY <1>0, <1>1, <3>1
    <3>3. j = n + 1
      <4>1. CASE n = 0
        BY <4>1
      <4>2. CASE n # 0
        <5>1. \A l \in 1 .. n : q[l].start + w <= at
          BY <1>0, <1>4, <4>2
        <5>2. QED BY <1>5, <3>2, <5>1
      <4>3. QED BY <4>1, <4>2
    <3>4. at < q[n + 1].start + w
      BY <1>2, <3>1, <3>2, <3>3
    <3>5. ASSUME NEW i \in 1 .. m, i > n PROVE at < q[i].start + w
      <4>1. CASE i = n + 1
        BY <3>4, <4>1
      <4>2. CASE i > n + 1
        BY <1>2, <1>3, <3>1, <3>4, <4>2
      <4>3. QED BY <3>5, <4>1, <4>2, <1>5
    <3>6. QED BY <3>5
  <2>3. QED BY <1>5, <2>1, <2>2
<1> HIDE DEF Gone
<1>7. PICK r : r = SubSeq(q, n + 1, m)
  OBVIOUS
<1>8. /\ r \in Seq(Pending) /\ Len(r) = m - n
      /\ \A i \in 1 .. m - n : r[i] = q[i + n]
  BY <1>1, <1>5, <1>7, CutInTwo DEF InTwo
<1>9. \A i \in 1 .. m - n : i + n \in 1 .. m /\ i + n > n
  BY <1>5
<1>10. Ordered(r, t)
  <2>1. n \in Nat /\ n + Len(r) <= Len(q)
    BY <1>1, <1>5, <1>8
  <2>2. \A i \in 1 .. Len(r) : r[i].coin > 0 /\ r[i].start = q[i + n].start
    BY <1>2, <1>8, <1>9
  <2>3. QED BY <1>8, <2>1, <2>2, LeftOrdered
<1>11. Ordered(r, at)
  <2>1. \A i \in 1 .. m - n : r[i].start <= at /\ at < r[i].start + Recover
    BY <1>0, <1>2, <1>6, <1>8, <1>9
  <2>2. QED BY <1>8, <1>10, <2>1 DEF Ordered
<1>12. QED BY <1>1, <1>4, <1>5, <1>7, <1>10, <1>11

LEMMA UpToDate ==
  ASSUME NEW a, NEW t \in Nat, Sound(a, t), NEW v \in Nat, t <= v
  PROVE  /\ Sound(Update(a, v), v)
         /\ Update(a, v).saving = a.saving /\ Update(a, v).updated = Slot(v)
<1>1. PICK q \in Seq(Pending), u \in Nat, s \in Nat, c \in Nat :
        a.queue = q /\ a.updated = u /\ a.saving = s /\ a.coinDay = c
  BY DEF Sound, Banks
<1>2. /\ a \in Banks /\ Ordered(q, u) /\ q \in Seq(Pending)
      /\ a.total = Coins(q) /\ a.charged = Charge(q, u)
      /\ c + Coins(q) <= s /\ u <= Slot(t)
  BY <1>1 DEF Sound, Ordered
<1>3. PICK at \in Nat : at = Slot(v) /\ u <= at
  <2>1. Slot(v) \in Nat /\ Slot(t) \in Nat /\ Slot(t) <= Slot(v)
    BY SlotIs, SlotsFollow
  <2>2. QED BY <1>2, <2>1
<1>4. PICK n : n = Expired(q, at)
  OBVIOUS
<1>5. PICK p : p = SubSeq(q, 1, n)
  OBVIOUS
<1>6. PICK r : r = SubSeq(q, n + 1, Len(q))
  OBVIOUS
<1>7. n \in 0 .. Len(q) /\ Ordered(r, u) /\ Ordered(r, at)
  BY <1>2, <1>3, <1>4, <1>6, ExpiredFirst
<1>8. InTwo(q, p, r) /\ p \in Seq(Pending) /\ r \in Seq(Pending)
  <2>1. InTwo(q, p, r)
    BY <1>2, <1>5, <1>6, <1>7, CutInTwo
  <2>2. QED BY <2>1 DEF InTwo
<1>9. PICK x \in Nat, y \in Nat : x = Coins(p) /\ y = Coins(r) /\ Coins(q) = x + y
  <2>1. Coins(q) = Coins(p) + Coins(r)
    <3>1. 0 \in Int
      OBVIOUS
    <3>2. QED BY <1>8, <3>1, PartsAdd
  <2>2. Coins(p) \in Nat /\ Coins(r) \in Nat
    <3>1. 0 \in Int
      OBVIOUS
    <3>2. QED BY <1>8, <3>1, QueueSums
  <2>3. QED BY <2>1, <2>2
<1>10. PICK b : b = Requeue(a, r)
  OBVIOUS
<1>11. /\ b \in Banks /\ b.queue = r /\ b.total = y /\ b.charged = Charge(r, u)
       /\ b.saving = s /\ b.coinDay = c /\ b.updated = u
  BY <1>1, <1>2, <1>7, <1>9, <1>10, Requeued
<1>12. PICK z \in Nat : z = Charge(r, at)
  <2>1. \A i \in 1 .. Len(r) : r[i].start <= at /\ at < r[i].start + Recover
    BY <1>7 DEF Ordered
  <2>2. r \in Seq(Pending) /\ at \in Int
    BY <1>3, <1>8
  <2>3. Charge(r, at) \in Nat
    BY ONLY <2>1, <2>2, ChargeBounded
  <2>4. QED BY ONLY <2>3
<1>13. b.charged + b.total * (at - u) = z
  BY <1>8, <1>9, <1>11, <1>12, ChargeLater
<1>14. r = <<>> => y = 0 /\ z = 0
  <2>1. ASSUME r = <<>> PROVE y = 0 /\ z = 0
    <3>1. Len(r) = 0 /\ 1 .. Len(r) = {}
      BY <2>1
    <3>2. /\ Coins(r) = SumFunctionOnSet(CoinOf(r), 1 .. Len(r))
          /\ Charge(r, at) = SumFunctionOnSet(ChargeOf(r, at), 1 .. Len(r))
      BY <1>8, QueueSums
    <3>3. Coins(r) = SumFunctionOnSet(CoinOf(r), {})
          /\ Charge(r, at) = SumFunctionOnSet(ChargeOf(r, at), {})
      BY <3>1, <3>2
    <3>4. QED BY <1>9, <1>12, <3>3, SumEmpty
  <2>2. QED BY <2>1
<1>15. Update(a, v) = [b EXCEPT !.coinDay = c + x, !.total = y, !.charged = z, !.updated = at]
  <2>1. Update(a, v) =
          [b EXCEPT !.coinDay = b.coinDay + Coins(p),
                    !.total   = IF b.queue = <<>> THEN 0 ELSE b.total,
                    !.charged = IF b.queue = <<>> THEN 0 ELSE b.charged + b.total * (at - a.updated),
                    !.updated = at]
    <3>1. /\ a.queue = q /\ Slot(v) = at /\ n = Expired(a.queue, Slot(v))
          /\ p = SubSeq(a.queue, 1, n) /\ r = SubSeq(a.queue, n + 1, Len(a.queue))
      BY <1>1, <1>3, <1>4, <1>5, <1>6
    <3>2. QED BY <1>10, <3>1, ZenonT(40) DEF Update, Expired
  <2>2. b.coinDay + Coins(p) = c + x
    BY <1>9, <1>11
  <2>3. (IF b.queue = <<>> THEN 0 ELSE b.total) = y
    BY <1>11, <1>14
  <2>4. (IF b.queue = <<>> THEN 0 ELSE b.charged + b.total * (at - a.updated)) = z
    BY <1>1, <1>11, <1>13, <1>14
  <2>5. QED BY <2>1, <2>2, <2>3, <2>4
<1>16. PICK d : d = Update(a, v)
  OBVIOUS
<1>17. /\ d \in Banks /\ d.queue = r /\ d.total = y /\ d.charged = z /\ d.saving = s
       /\ d.coinDay = c + x /\ d.updated = at
  <2>1. PICK k \in Nat : k = c + x
    OBVIOUS
  <2>2. d = [b EXCEPT !.coinDay = k, !.total = y, !.charged = z, !.updated = at]
    BY <1>15, <1>16, <2>1
  <2>3. d \in Banks
    BY <1>11, <2>2 DEF Banks
  <2>4. /\ d.queue = b.queue /\ d.total = y /\ d.charged = z /\ d.saving = b.saving
        /\ d.coinDay = k /\ d.updated = at
    BY <1>11, <2>2 DEF Banks
  <2>5. QED BY <1>11, <2>1, <2>3, <2>4
<1>18. Sound(d, v)
  <2>1. (c + x) + y <= s
    BY <1>2, <1>9
  <2>2. at <= Slot(v)
    BY <1>3
  <2>3. QED BY <1>7, <1>9, <1>12, <1>17, <2>1, <2>2 DEF Sound
<1>19. QED BY <1>1, <1>3, <1>16, <1>17, <1>18

LEMMA EmptyQueue ==
  ASSUME NEW t
  PROVE  /\ Ordered(<<>>, t) /\ Coins(<<>>) = 0
         /\ \A v \in Int : Charge(<<>>, v) = 0
<1>1. <<>> \in Seq(Pending) /\ Len(<<>>) = 0 /\ 1 .. Len(<<>>) = {}
  OBVIOUS
<1>2. Ordered(<<>>, t)
  BY <1>1 DEF Ordered
<1>3. SumFunctionOnSet(CoinOf(<<>>), {}) = 0
  BY SumEmpty
<1>4. 0 \in Int
  OBVIOUS
<1>5. Coins(<<>>) = 0
  BY <1>1, <1>3, <1>4, QueueSums
<1>6. ASSUME NEW v \in Int PROVE Charge(<<>>, v) = 0
  <2>1. SumFunctionOnSet(ChargeOf(<<>>, v), {}) = 0
    BY SumEmpty
  <2>2. QED BY <1>1, <2>1, QueueSums
<1>7. QED BY <1>2, <1>5, <1>6

(* Nothing changes in an account that is up to date already.                *)
LEMMA UpToDateAgain ==
  ASSUME NEW b, NEW t \in Nat, Sound(b, t), b.updated = Slot(t)
  PROVE  CoinDay(Update(b, t)) = CoinDay(b)
<1>1. PICK q \in Seq(Pending), at \in Nat, c \in Nat, y \in Nat, z \in Int :
        b.queue = q /\ b.updated = at /\ b.coinDay = c /\ b.total = y /\ b.charged = z
  BY DEF Sound, Banks
<1>2. /\ b \in Banks /\ Ordered(q, at) /\ y = Coins(q) /\ z = Charge(q, at) /\ at = Slot(t)
  BY <1>1 DEF Sound
<1>3. Expired(q, at) = 0
  <2>1. Expired(q, at) \in 0 .. Len(q)
    BY <1>2, ExpiredFirst
  <2>2. {0} \cup {i \in DOMAIN q : \A j \in 1 .. i : q[j].start + Recover <= at} = {0}
    <3>1. ASSUME NEW i \in DOMAIN q, \A j \in 1 .. i : q[j].start + Recover <= at PROVE FALSE
      <4>1. i \in 1 .. i /\ i \in 1 .. Len(q)
        BY <1>1
      <4>2. q[i].start + Recover <= at /\ at < q[i].start + Recover /\ q[i].start \in Nat
        BY <1>2, <3>1, <4>1, QueueSums DEF Ordered
      <4>3. PICK x \in Int : x = q[i].start + Recover
        BY <4>2, BankAssumption
      <4>4. QED BY <4>2, <4>3
    <3>2. QED BY <3>1
  <2>3. \A S : S = {0} => Max(S) = 0
    <3>1. {0} \in SUBSET (0 .. 0) /\ {0} # {}
      OBVIOUS
    <3>2. Max({0}) \in {0}
      BY <3>1, GreatestIn
    <3>3. QED BY <3>2
  <2>4. QED BY <2>2, <2>3 DEF Expired
<1>4. SubSeq(q, 1, 0) = <<>> /\ SubSeq(q, 0 + 1, Len(q)) = q
  <2>1. SubSeq(q, 1, Len(q)) = q
    BY SubSeqFull
  <2>2. QED BY <2>1
<1>5. PICK d : d = Requeue(b, q)
  OBVIOUS
<1>6. /\ d \in Banks /\ d.queue = q /\ d.total = y /\ d.charged = z
      /\ d.coinDay = c /\ d.updated = at
  BY <1>1, <1>2, <1>5, Requeued
<1>7. q = <<>> => z = 0
  <2>1. Charge(<<>>, at) = 0
    BY EmptyQueue
  <2>2. QED BY <1>2, <2>1
<1>8. PICK e : e = Update(b, t)
  OBVIOUS
<1>9. e = [d EXCEPT !.coinDay = d.coinDay + Coins(<<>>),
                    !.total   = IF d.queue = <<>> THEN 0 ELSE d.total,
                    !.charged = IF d.queue = <<>> THEN 0 ELSE d.charged + d.total * (at - b.updated),
                    !.updated = at]
  <2>1. /\ b.queue = q /\ Slot(t) = at /\ Expired(b.queue, Slot(t)) = 0
        /\ SubSeq(b.queue, 1, 0) = <<>> /\ SubSeq(b.queue, 0 + 1, Len(b.queue)) = q
    BY <1>1, <1>2, <1>3, <1>4
  <2>2. QED BY <1>5, <1>8, <2>1, ZenonT(40) DEF Update, Expired
<1>10. (IF d.queue = <<>> THEN 0 ELSE d.charged + d.total * (at - b.updated)) = z
  <2>1. y * (at - at) = 0
    BY SMT
  <2>2. QED BY <1>1, <1>6, <1>7, <2>1
<1>11. d.coinDay + Coins(<<>>) = c
  BY <1>6, EmptyQueue
<1>12. e.coinDay = c /\ e.charged = z
  BY <1>6, <1>9, <1>10, <1>11 DEF Banks
<1>13. QED BY <1>1, <1>8, <1>12 DEF CoinDay

(* Coin day is worth what is saved, at most.                                *)
LEMMA Backed ==
  ASSUME NEW a, NEW t, Sound(a, t)
  PROVE  CoinDay(a) <= a.saving
<1>0. PICK w \in Nat \ {0} : w = Recover
  BY BankAssumption
<1>1. PICK q \in Seq(Pending), u \in Nat, s \in Nat, c \in Nat :
        a.queue = q /\ a.updated = u /\ a.saving = s /\ a.coinDay = c
  BY DEF Sound, Banks
<1>2. /\ q \in Seq(Pending) /\ c + a.total <= s
      /\ a.total = Coins(q) /\ a.charged = Charge(q, u)
      /\ \A i \in 1 .. Len(q) : q[i].start <= u /\ u < q[i].start + Recover
  BY <1>1 DEF Sound, Ordered
<1>3. PICK x \in Nat, y \in Nat : x = Charge(q, u) /\ y = Coins(q) /\ x <= w * y
  <2>1. Charge(q, u) \in Nat /\ Charge(q, u) <= Recover * Coins(q)
    BY <1>2, ChargeBounded
  <2>2. Coins(q) \in Nat
    BY <1>2, QueueSums
  <2>3. QED BY <1>0, <2>1, <2>2
<1>4. Round(x, w) \in 0 .. y
  BY <1>3, RoundWithin
<1>5. CoinDay(a) = c + Round(x, w)
  BY <1>0, <1>1, <1>2, <1>3 DEF CoinDay
<1>6. QED BY <1>1, <1>2, <1>3, <1>4, <1>5

(* Coins leave one entry.                                                   *)
Reduced(q, k, x) == [q EXCEPT ![k].coin = x]

LEMMA EntryChanges ==
  ASSUME NEW q \in Seq(Pending), NEW k \in 1 .. Len(q), NEW x \in Nat,
         NEW r, r = Reduced(q, k, x)
  PROVE  /\ r \in Seq(Pending) /\ Len(r) = Len(q)
         /\ \A i \in 1 .. Len(q) : r[i].start = q[i].start
         /\ \A i \in 1 .. Len(q) : i # k => r[i] = q[i]
         /\ r[k].coin = x
         /\ Coins(r) = Coins(q) + (x - q[k].coin)
<1>1. PICK n \in Nat : n = Len(q) /\ DOMAIN q = 1 .. n
  OBVIOUS
<1>2. PICK e : e = [q[k] EXCEPT !.coin = x]
  OBVIOUS
<1>3. e \in Pending /\ e.coin = x /\ e.start = q[k].start
  <2>1. q[k] \in Pending
    OBVIOUS
  <2>2. QED BY <1>2, <2>1 DEF Pending
<1>4. r = [q EXCEPT ![k] = e]
  BY <1>2 DEF Reduced
<1>5. /\ r \in Seq(Pending) /\ Len(r) = n
      /\ \A j \in 1 .. n : r[j] = IF j = k THEN e ELSE q[j]
  BY <1>1, <1>3, <1>4, ExceptSeq
<1>6. 0 \in Int
  OBVIOUS
<1>7. PICK f \in [1 .. n -> Nat] : f = CoinOf(q)
  BY <1>1, <1>6, QueueSums
<1>8. PICK g \in [1 .. n -> Nat] : g = CoinOf(r)
  BY <1>5, <1>6, QueueSums
<1>9. /\ \A i \in 1 .. n : f[i] = q[i].coin /\ g[i] = r[i].coin
  <2>1. DOMAIN r = 1 .. n
    BY <1>5
  <2>2. QED BY <2>1, <1>1, <1>7, <1>8 DEF CoinOf
<1>10. /\ SumFunction(g) = SumFunction(f) + (g[k] - f[k])
  <2>1. \A y \in 1 .. n : y # k => g[y] = f[y]
    BY <1>5, <1>9
  <2>2. IsFiniteSet(1 .. n)
    BY FS_Interval
  <2>3. k \in 1 .. n
    BY <1>1
  <2>4. f \in [1 .. n -> Int] /\ g \in [1 .. n -> Int]
    OBVIOUS
  <2>5. QED BY <2>1, <2>2, <2>3, <2>4, SumChanges
<1>11. Coins(q) = SumFunction(f) /\ Coins(r) = SumFunction(g)
  BY <1>7, <1>8 DEF Coins, CoinOf
<1>12. g[k] = x /\ f[k] = q[k].coin
  BY <1>1, <1>3, <1>5, <1>9
<1>13. QED BY <1>1, <1>3, <1>5, <1>10, <1>11, <1>12

(* And what they have charged with them.                                    *)
LEMMA EntryCharges ==
  ASSUME NEW q \in Seq(Pending), NEW k \in 1 .. Len(q), NEW x \in Nat, NEW t \in Int
  PROVE  Charge(Reduced(q, k, x), t) = Charge(q, t) + (x - q[k].coin) * (t - q[k].start)
<1>1. PICK n \in Nat : n = Len(q) /\ DOMAIN q = 1 .. n /\ k \in 1 .. n /\ IsFiniteSet(1 .. n)
  BY FS_Interval
<1>2. PICK r : r = Reduced(q, k, x)
  OBVIOUS
<1>3. /\ r \in Seq(Pending) /\ Len(r) = n /\ DOMAIN r = 1 .. n
      /\ \A i \in 1 .. n : r[i].start = q[i].start
      /\ \A i \in 1 .. n : i # k => r[i] = q[i]
      /\ r[k].coin = x
  BY <1>1, <1>2, EntryChanges
<1>4. PICK f \in [1 .. n -> Int] : f = ChargeOf(q, t)
  BY <1>1, QueueSums
<1>5. PICK g \in [1 .. n -> Int] : g = ChargeOf(r, t)
  BY <1>1, <1>3, QueueSums
<1>6. \A i \in 1 .. n : /\ f[i] = q[i].coin * (t - q[i].start)
                       /\ g[i] = r[i].coin * (t - r[i].start)
  BY <1>1, <1>3, <1>4, <1>5 DEF ChargeOf
<1>7. \A i \in 1 .. n : i # k => g[i] = f[i]
  BY <1>3, <1>6
<1>8. SumFunction(g) = SumFunction(f) + (g[k] - f[k]) /\ SumFunction(f) \in Int
  <2>1. f \in [1 .. n -> Int] /\ g \in [1 .. n -> Int]
    OBVIOUS
  <2>2. IsFiniteSet(1 .. n) /\ k \in 1 .. n
    BY <1>1
  <2>3. QED BY <1>7, <2>1, <2>2, SumChanges
<1>9. PICK c \in Nat, a \in Int : c = q[k].coin /\ a = t - q[k].start
  <2>1. q[k].coin \in Nat /\ q[k].start \in Nat
    BY QueueSums
  <2>2. t - q[k].start \in Int
    BY <2>1
  <2>3. QED BY <2>1, <2>2
<1>10. g[k] = x * a /\ f[k] = c * a
  BY <1>1, <1>3, <1>6, <1>9
<1>11. x * a - c * a = (x - c) * a
  BY SMT
<1>12. Charge(q, t) = SumFunction(f) /\ Charge(r, t) = SumFunction(g)
  BY <1>4, <1>5 DEF Charge, ChargeOf
<1>13. QED BY <1>2, <1>8, <1>9, <1>10, <1>11, <1>12

(* The coins up to an entry, and with it.                                   *)
LEMMA OneMore ==
  ASSUME NEW q \in Seq(Pending), NEW m \in 1 .. Len(q), NEW l, l = m - 1
  PROVE  Coins(SubSeq(q, 1, m)) = Coins(SubSeq(q, 1, l)) + q[m].coin
<1>1. PICK n \in Nat : n = Len(q) /\ m \in 1 .. n /\ l \in 0 .. n /\ l + 1 = m /\ m \in 0 .. n
  OBVIOUS
<1>2. PICK p : p = SubSeq(q, 1, l)
  OBVIOUS
<1>3. PICK s : s = SubSeq(q, 1, m)
  OBVIOUS
<1>4. p \in Seq(Pending) /\ Len(p) = l /\ \A i \in 1 .. l : p[i] = q[i]
  BY <1>1, <1>2, CutInTwo DEF InTwo
<1>5. s \in Seq(Pending) /\ Len(s) = m /\ \A i \in 1 .. m : s[i] = q[i]
  BY <1>1, <1>3, CutInTwo DEF InTwo
<1>6. PICK e \in Pending : e = q[m]
  BY <1>1
<1>7. PICK z \in Int : z = 0
  OBVIOUS
<1>8. /\ Append(p, e) \in Seq(Pending) /\ Len(Append(p, e)) = l + 1
      /\ \A i \in 1 .. l : Append(p, e)[i] = p[i]
      /\ Append(p, e)[l + 1] = e
      /\ Coins(Append(p, e)) = Coins(p) + e.coin
  BY <1>4, <1>7, EntryAdds
<1>9. \A i \in 1 .. m : i \in 1 .. l \/ i = l + 1
  BY <1>1
<1>10. ASSUME NEW i \in 1 .. m PROVE s[i] = Append(p, e)[i]
  <2>1. CASE i \in 1 .. l
    BY <1>4, <1>5, <1>8, <2>1
  <2>2. CASE i = l + 1
    BY <1>1, <1>5, <1>6, <1>8, <2>2
  <2>3. QED BY <1>9, <2>1, <2>2
<1>11. s = Append(p, e)
  <2>1. \A i \in 1 .. Len(s) : s[i] = Append(p, e)[i]
    BY <1>5, <1>10
  <2>2. Len(s) = Len(Append(p, e))
    BY <1>1, <1>5, <1>8
  <2>3. QED BY <1>5, <1>8, <2>1, <2>2, SeqEqual
<1>12. QED BY <1>2, <1>3, <1>6, <1>8, <1>11

(* What is left of the coins when some are taken out.                       *)
Remains(whole, coin) == IF coin <= whole THEN whole - coin ELSE 0

LEMMA KeptOldest ==
  ASSUME NEW q, NEW t, Ordered(q, t), NEW c \in Nat
  PROVE  /\ Ordered(KeepOldest(q, c), t)
         /\ Coins(KeepOldest(q, c)) = Remains(Coins(q), c)
<1>1. PICK n \in Nat : n = Len(q) /\ q \in Seq(Pending) /\ DOMAIN q = 1 .. n
  BY DEF Ordered
<1>2. PICK z \in Int : z = 0
  OBVIOUS
<1>3. PICK whole \in Nat : whole = Coins(q)
  BY <1>1, <1>2, QueueSums
<1> DEFINE From(i) == Coins(SubSeq(q, i, Len(q)))
           Above == {0} \cup {i \in DOMAIN q : From(i) > c}
<1>4. PICK m \in 0 .. n : m \in Above /\ m = Max(Above) /\ \A i \in Above : i <= m
  <2>1. Above \in SUBSET (0 .. n) /\ Above # {}
    BY <1>1
  <2>2. Max(Above) \in Above /\ \A i \in Above : i <= Max(Above)
    BY <2>1, GreatestIn
  <2>3. QED BY <2>1, <2>2
<1>5. KeepOldest(q, c) = IF m = 0 THEN <<>> ELSE [SubSeq(q, 1, m) EXCEPT ![m].coin = From(m) - c]
  BY <1>4 DEF KeepOldest
<1>6. m \in 0 .. n /\ (m # 0 => From(m) > c)
  BY <1>1, <1>4
<1>60. n # 0 => 1 \in DOMAIN q /\ (From(1) > c => 1 <= m)
  BY <1>1, <1>4
<1>61. From(1) = whole
  BY <1>1, <1>3, SubSeqFull
<1>62. From(m) = Coins(SubSeq(q, m, n))
  BY <1>1
<1> HIDE DEF From, Above
<1>7. CASE m = 0
  <2>1. whole <= c
    <3>1. CASE n = 0
      <4>1. SumFunctionOnSet(CoinOf(q), 1 .. 0) = 0
        <5>1. 1 .. 0 = {}
          OBVIOUS
        <5>2. QED BY <5>1, SumEmpty
      <4>2. whole = 0
        BY <1>1, <1>2, <1>3, <3>1, <4>1, QueueSums
      <4>3. QED BY <4>2
    <3>2. CASE n # 0
      <4>1. ~ (whole > c)
        BY <1>7, <1>60, <1>61, <3>2
      <4>2. QED BY <4>1, <1>3
    <3>3. QED BY <3>1, <3>2
  <2>2. Ordered(<<>>, t) /\ Coins(<<>>) = 0
    BY EmptyQueue
  <2>3. KeepOldest(q, c) = <<>>
    BY <1>5, <1>7
  <2>4. QED BY <1>3, <2>1, <2>2, <2>3 DEF Remains
<1>8. CASE m # 0
  <2>1. m \in 1 .. n /\ From(m) > c
    BY <1>6, <1>8
  <2>2. PICK l \in 0 .. n : l = m - 1
    BY <2>1
  <2>3. PICK p : p = SubSeq(q, 1, l)
    OBVIOUS
  <2>4. PICK r : r = SubSeq(q, m, n)
    OBVIOUS
  <2>5. PICK s : s = SubSeq(q, 1, m)
    OBVIOUS
  <2>6. /\ InTwo(q, p, r) /\ p \in Seq(Pending) /\ r \in Seq(Pending) /\ Len(p) = l
        /\ \A i \in 1 .. l : p[i] = q[i]
    <3>1. l + 1 = m
      BY <2>2
    <3>2. r = SubSeq(q, l + 1, Len(q))
      BY <2>4, <3>1, <1>1
    <3>3. InTwo(q, p, r) /\ Len(p) = l /\ \A i \in 1 .. l : p[i] = q[i]
      BY <1>1, <2>2, <2>3, <3>2, CutInTwo
    <3>4. QED BY <3>3 DEF InTwo
  <2>7. PICK x \in Nat, y \in Nat : x = Coins(p) /\ y = Coins(r) /\ whole = x + y
    <3>1. Coins(p) \in Nat /\ Coins(r) \in Nat
      BY <1>2, <2>6, QueueSums
    <3>2. Coins(q) = Coins(p) + Coins(r)
      BY <1>2, <2>6, PartsAdd
    <3>3. QED BY <1>3, <3>1, <3>2
  <2>8. y > c /\ From(m) = y
    BY <1>62, <2>1, <2>4, <2>7
  <2>9. /\ s \in Seq(Pending) /\ Len(s) = m
        /\ \A i \in 1 .. m : s[i] = q[i]
    <3>1. m \in 0 .. Len(q)
      BY <1>1, <2>1
    <3>2. QED BY <1>1, <2>5, <3>1, CutInTwo DEF InTwo
  <2>10. Coins(s) = x + q[m].coin
    BY <1>1, <2>1, <2>2, <2>3, <2>5, <2>7, OneMore
  <2>11. PICK k \in Nat : k = y - c /\ k > 0
    BY <2>8
  <2>12. PICK new : new = Reduced(s, m, k)
    OBVIOUS
  <2>13. KeepOldest(q, c) = new
    BY <1>5, <1>8, <2>5, <2>8, <2>11, <2>12 DEF Reduced
  <2>14. /\ new \in Seq(Pending) /\ Len(new) = m
         /\ \A i \in 1 .. m : new[i].start = s[i].start
         /\ \A i \in 1 .. m : i # m => new[i] = s[i]
         /\ new[m].coin = k
         /\ Coins(new) = Coins(s) + (k - s[m].coin)
    <3>1. Len(s) = m /\ s \in Seq(Pending)
      BY <2>9
    <3>2. m \in 1 .. Len(s)
      BY <2>1, <3>1
    <3>3. /\ new \in Seq(Pending) /\ Len(new) = Len(s)
          /\ \A i \in 1 .. Len(s) : new[i].start = s[i].start
          /\ \A i \in 1 .. Len(s) : i # m => new[i] = s[i]
          /\ new[m].coin = k
          /\ Coins(new) = Coins(s) + (k - s[m].coin)
      BY <2>12, <3>1, <3>2, EntryChanges
    <3>4. QED BY <3>1, <3>3
  <2>15. Coins(new) = whole - c /\ c <= whole
    <3>1. s[m] = q[m]
      BY <2>1, <2>9
    <3>2. PICK h \in Nat : h = q[m].coin
      BY <1>1, <1>2, <2>1, QueueSums
    <3>3. Coins(new) = (x + h) + (k - h)
      BY <2>10, <2>14, <3>1, <3>2
    <3>4. QED BY <2>7, <2>8, <2>11, <3>2, <3>3
  <2>16. Ordered(new, t)
    <3>1. \A i \in 1 .. m : new[i].coin > 0 /\ new[i].start = q[i + 0].start
      <4>1. \A i \in 1 .. m : i \in 1 .. n /\ i + 0 = i
        BY <1>6
      <4>2. \A i \in 1 .. n : q[i].coin > 0
        BY <1>1 DEF Ordered
      <4>3. QED BY <2>9, <2>11, <2>14, <4>1, <4>2
    <3>2. PICK o \in Nat : o = 0
      OBVIOUS
    <3>3. o + Len(new) <= Len(q)
      BY <1>1, <1>6, <2>14, <3>2
    <3>4. \A i \in 1 .. Len(new) : new[i].coin > 0 /\ new[i].start = q[i + o].start
      BY <2>14, <3>1, <3>2
    <3>5. QED BY <2>14, <3>3, <3>4, LeftOrdered
  <2>17. QED BY <1>3, <2>13, <2>15, <2>16 DEF Remains
<1>9. QED BY <1>7, <1>8

(* Coins that leave a queue take less than their worth of charge along.     *)
Discharged(q, r, t) ==
  /\ Charge(r, t) <= Charge(q, t)
  /\ (Charge(q, t) - Charge(r, t)) + (Coins(q) - Coins(r)) <= Recover * (Coins(q) - Coins(r))

LEMMA KeptLatest ==
  ASSUME NEW q, NEW t \in Nat, Ordered(q, t), NEW c \in Nat
  PROVE  /\ Ordered(KeepLatest(q, c), t)
         /\ Coins(KeepLatest(q, c)) = Remains(Coins(q), c)
         /\ Discharged(q, KeepLatest(q, c), t)
<1>1. PICK n \in Nat : n = Len(q) /\ q \in Seq(Pending) /\ DOMAIN q = 1 .. n
  BY DEF Ordered
<1>2. PICK z \in Int : z = 0
  OBVIOUS
<1>3. PICK whole \in Nat : whole = Coins(q)
  BY <1>1, <1>2, QueueSums
<1> DEFINE UpTo(i) == Coins(SubSeq(q, 1, i))
           Above == {Len(q) + 1} \cup {i \in DOMAIN q : UpTo(i) > c}
<1>4. PICK m \in 1 .. n + 1 : m \in Above /\ m = Min(Above) /\ \A i \in Above : m <= i
  <2>1. Above \in SUBSET (1 .. n + 1) /\ Above \in SUBSET Nat /\ Above # {}
    BY <1>1
  <2>2. Min(Above) \in Above /\ \A i \in Above : Min(Above) <= i
    BY <2>1, LeastIn
  <2>3. QED BY <2>1, <2>2
<1>5. KeepLatest(q, c) = IF m > n THEN <<>> ELSE [SubSeq(q, m, n) EXCEPT ![1].coin = UpTo(m) - c]
  BY <1>1, <1>4 DEF KeepLatest
<1>6. m <= n => UpTo(m) > c
  BY <1>1, <1>4
<1>7. n # 0 => n \in DOMAIN q /\ (UpTo(n) > c => m <= n)
  BY <1>1, <1>4
<1>71. \A i \in DOMAIN q : i < m => ~ (UpTo(i) > c)
  BY <1>1, <1>4
<1>72. \A i \in 1 .. Len(q) : q[i].start <= t /\ t < q[i].start + Recover
  BY DEF Ordered
<1>73. /\ Charge(q, t) \in Nat /\ Charge(q, t) + Coins(q) <= Recover * Coins(q)
  BY <1>1, <1>72, ChargeBounded
<1>74. \A i \in 1 .. n : UpTo(i) = Coins(SubSeq(q, 1, i))
  OBVIOUS
<1>8. UpTo(n) = whole
  BY <1>1, <1>3, SubSeqFull
<1>9. UpTo(m) = Coins(SubSeq(q, 1, m))
  OBVIOUS
<1> HIDE DEF UpTo, Above
<1>10. CASE m > n
  <2>1. whole <= c
    <3>1. CASE n = 0
      <4>1. SumFunctionOnSet(CoinOf(q), 1 .. 0) = 0
        <5>1. 1 .. 0 = {}
          OBVIOUS
        <5>2. QED BY <5>1, SumEmpty
      <4>2. whole = 0
        BY <1>1, <1>2, <1>3, <3>1, <4>1, QueueSums
      <4>3. QED BY <4>2
    <3>2. CASE n # 0
      <4>1. ~ (whole > c)
        BY <1>7, <1>8, <1>10, <3>2
      <4>2. QED BY <4>1, <1>3
    <3>3. QED BY <3>1, <3>2
  <2>2. Ordered(<<>>, t) /\ Coins(<<>>) = 0
    BY EmptyQueue
  <2>3. KeepLatest(q, c) = <<>>
    BY <1>5, <1>10
  <2>4. Discharged(q, <<>>, t)
    <3>1. Charge(<<>>, t) = 0
      BY EmptyQueue
    <3>2. Coins(q) - Coins(<<>>) = Coins(q) /\ Charge(q, t) - Charge(<<>>, t) = Charge(q, t)
      BY <1>3, <1>73, <2>2, <3>1
    <3>3. QED BY <1>73, <3>1, <3>2 DEF Discharged
  <2>5. QED BY <1>3, <2>1, <2>2, <2>3, <2>4 DEF Remains
<1>11. CASE m <= n
  <2>1. m \in 1 .. n /\ UpTo(m) > c
    BY <1>6, <1>11
  <2>2. PICK l \in 0 .. n : l = m - 1 /\ l + 1 = m
    BY <2>1
  <2>3. PICK p : p = SubSeq(q, 1, l)
    OBVIOUS
  <2>4. PICK r : r = SubSeq(q, m, n)
    OBVIOUS
  <2>5. /\ InTwo(q, p, r) /\ p \in Seq(Pending) /\ r \in Seq(Pending)
        /\ Len(r) = n - l /\ \A i \in 1 .. n - l : r[i] = q[i + l]
    <3>1. r = SubSeq(q, l + 1, Len(q))
      BY <2>2, <2>4, <1>1
    <3>2. /\ InTwo(q, p, r)
          /\ Len(r) = n - l /\ \A i \in 1 .. n - l : r[i] = q[i + l]
      BY <1>1, <2>2, <2>3, <3>1, CutInTwo
    <3>3. QED BY <3>2 DEF InTwo
  <2>6. PICK x \in Nat, y \in Nat : x = Coins(p) /\ y = Coins(r) /\ whole = x + y
    <3>1. Coins(p) \in Nat /\ Coins(r) \in Nat
      BY <1>2, <2>5, QueueSums
    <3>2. Coins(q) = Coins(p) + Coins(r)
      BY <1>2, <2>5, PartsAdd
    <3>3. QED BY <1>3, <3>1, <3>2
  <2>7. PICK o : o = 1
    OBVIOUS
  <2>8. o \in 1 .. Len(r) /\ r[o] = q[m]
    <3>1. 1 \in 1 .. n - l /\ 1 + l = m
      BY <2>1, <2>2
    <3>2. QED BY <2>5, <2>7, <3>1
  <2>9. PICK h \in Nat : h = q[m].coin /\ h = r[o].coin /\ h <= y
    BY <1>2, <2>5, <2>6, <2>8, QueueSums
  <2>10. UpTo(m) = x + h
    BY <1>1, <1>9, <2>1, <2>2, <2>3, <2>6, <2>9, OneMore
  <2>11. PICK k \in Nat : k = (x + h) - c /\ k > 0
    BY <2>1, <2>10
  <2>12. PICK new : new = Reduced(r, o, k)
    OBVIOUS
  <2>13. KeepLatest(q, c) = new
    <3>1. ~ (m > n)
      BY <1>11
    <3>2. UpTo(m) - c = k
      BY <2>10, <2>11
    <3>3. KeepLatest(q, c) = [SubSeq(q, m, n) EXCEPT ![1].coin = UpTo(m) - c]
      BY <1>5, <3>1, Zenon
    <3>4. QED BY <2>4, <2>7, <2>12, <3>2, <3>3, Zenon DEF Reduced
  <2>14. /\ new \in Seq(Pending) /\ Len(new) = Len(r)
         /\ \A i \in 1 .. Len(r) : new[i].start = r[i].start
         /\ \A i \in 1 .. Len(r) : i # o => new[i] = r[i]
         /\ new[o].coin = k
         /\ Coins(new) = Coins(r) + (k - r[o].coin)
    <3>1. r \in Seq(Pending) /\ o \in 1 .. Len(r)
      BY <2>5, <2>8
    <3>2. QED BY <2>12, <3>1, EntryChanges
  <2>15. Coins(new) = whole - c /\ c <= whole
    <3>1. Coins(new) = y + (k - h)
      BY <2>6, <2>9, <2>14
    <3>2. x + h > c
      BY <2>1, <2>10
    <3>3. QED BY <2>6, <2>9, <2>11, <3>1, <3>2
  <2>16. Ordered(new, t)
    <3>1. ASSUME NEW i \in 1 .. Len(r) PROVE new[i].coin > 0 /\ new[i].start = q[i + l].start
      <4>1. i \in 1 .. n - l /\ r[i] = q[i + l]
        BY <2>5
      <4>2. i + l \in 1 .. n
        BY <2>2, <4>1
      <4>3. q[i + l].coin > 0
        BY <1>1, <4>2 DEF Ordered
      <4>4. QED BY <2>11, <2>14, <4>1, <4>3
    <3>2. l \in Nat /\ l + Len(new) <= Len(q)
      BY <1>1, <2>2, <2>5, <2>14
    <3>3. QED BY <2>14, <3>1, <3>2, LeftOrdered
  <2>17. x <= c
    <3>1. CASE l = 0
      <4>1. p \in Seq(Pending) /\ Len(p) = 0
        BY <1>1, <2>2, <2>3, <3>1, CutInTwo
      <4>2. p = <<>>
        BY <4>1
      <4>3. QED BY <2>6, <4>2, EmptyQueue
    <3>2. CASE l # 0
      <4>1. l \in 1 .. n /\ l \in DOMAIN q /\ l < m
        BY <1>1, <2>1, <2>2, <3>2
      <4>2. ~ (UpTo(l) > c) /\ UpTo(l) = x
        BY <1>71, <1>74, <2>3, <2>6, <4>1
      <4>3. QED BY <4>2
    <3>3. QED BY <3>1, <3>2
  <2>18. PICK d \in Nat, w \in Nat : d = h - k /\ w + 1 = Recover
    <3>1. h - k \in Nat
      BY <2>11, <2>17
    <3>2. Recover - 1 \in Nat /\ (Recover - 1) + 1 = Recover
      BY BankAssumption
    <3>3. QED BY <3>1, <3>2
  <2>19. PICK age \in Nat : age = t - r[o].start /\ age <= w
    <3>1. /\ r[o].start = q[m].start /\ q[m].start \in Nat
          /\ q[m].start <= t /\ t < q[m].start + Recover
      BY <1>1, <1>72, <2>1, <2>8, QueueSums
    <3>2. PICK st \in Nat : st = q[m].start
      BY <3>1
    <3>3. t - st \in Nat /\ t - st <= w
      BY <2>18, <3>1, <3>2
    <3>4. QED BY <3>1, <3>2, <3>3
  <2>20. PICK f \in Nat, g \in Int :
           f = Charge(p, t) /\ g = Charge(r, t) /\ Charge(q, t) = f + g /\ f + x <= Recover * x
    <3>1. /\ Len(p) <= Len(q) /\ \A i \in 1 .. Len(p) : q[i] = p[i]
      BY <2>5 DEF InTwo
    <3>2. \A i \in 1 .. Len(p) : p[i].start <= t /\ t < p[i].start + Recover
      BY <1>1, <1>72, <2>5, <3>1
    <3>3. Charge(p, t) \in Nat /\ Charge(p, t) + Coins(p) <= Recover * Coins(p)
      BY <2>5, <3>2, ChargeBounded
    <3>4. Charge(q, t) = Charge(p, t) + Charge(r, t)
      BY <2>5, PartsAdd
    <3>5. Charge(r, t) \in Int
      BY <2>5, QueueSums
    <3>6. QED BY <2>6, <3>3, <3>4, <3>5
  <2>21. Charge(new, t) = g + (k - h) * age
    <3>1. r \in Seq(Pending) /\ o \in 1 .. Len(r) /\ t \in Int
      BY <2>5, <2>8
    <3>2. Charge(Reduced(r, o, k), t) = Charge(r, t) + (k - r[o].coin) * (t - r[o].start)
      BY ONLY <3>1, k \in Nat, EntryCharges
    <3>3. QED BY <2>9, <2>12, <2>19, <2>20, <3>2
  <2>22. (k - h) * age = -(d * age) /\ d * age \in Nat /\ d * age + d <= Recover * d
    <3>1. (k - h) * age = -(d * age) /\ d * age \in Nat
      BY <2>18, SMT
    <3>2. d * age <= d * w
      BY <2>19, SMT
    <3>3. (w + 1) * d = d * w + d
      BY SMT
    <3>4. QED BY <2>18, <3>1, <3>2, <3>3
  <2>23. Coins(q) - Coins(new) = x + d
    BY <1>3, <2>11, <2>15, <2>18
  <2>24. Charge(q, t) - Charge(new, t) = f + d * age
    BY <2>20, <2>21, <2>22
  <2>25. Recover * (x + d) = Recover * x + Recover * d
    BY BankAssumption, SMT
  <2>26. Discharged(q, new, t)
    <3>1. PICK e \in Nat, y1 \in Int, y2 \in Int :
            e = d * age /\ y1 = Recover * x /\ y2 = Recover * d
      BY <2>22, BankAssumption
    <3>2. (f + e) + (x + d) <= y1 + y2
      BY <2>20, <2>22, <3>1
    <3>3. Charge(new, t) <= Charge(q, t)
      BY <2>20, <2>21, <2>22, <3>1
    <3>4. QED BY <2>23, <2>24, <2>25, <3>1, <3>2, <3>3 DEF Discharged
  <2>27. QED BY <1>3, <2>13, <2>15, <2>16, <2>26 DEF Remains
<1>12. QED BY <1>10, <1>11
------------------------------------------------------------------------------
(****************************************************************************)
(* What each operation leaves of a sound account.                           *)
(****************************************************************************)
LEMMA SoundLater ==
  ASSUME NEW a, NEW t \in Nat, Sound(a, t), NEW v \in Nat, t <= v
  PROVE  Sound(a, v)
<1>1. Slot(t) \in Nat /\ Slot(v) \in Nat /\ Slot(t) <= Slot(v)
  BY SlotIs, SlotsFollow
<1>2. a.updated \in Nat /\ a.updated <= Slot(t)
  BY DEF Sound, Banks
<1>3. a.updated <= Slot(v)
  BY <1>1, <1>2
<1>4. QED BY <1>3 DEF Sound

LEMMA ChargedAtOnce ==
  ASSUME NEW a, NEW t \in Nat, Sound(a, t), NEW coin \in Nat
  PROVE  LET b == AddSavingCoinWithFullCoinDay(a, coin)
         IN Sound(b, t) /\ b.saving = a.saving + coin
<1>1. PICK b : b = AddSavingCoinWithFullCoinDay(a, coin)
  OBVIOUS
<1>2. PICK x \in Nat, y \in Nat : x = a.saving + coin /\ y = a.coinDay + coin
  BY DEF Sound, Banks
<1>3. b = [a EXCEPT !.saving = x, !.coinDay = y]
  BY <1>1, <1>2 DEF AddSavingCoinWithFullCoinDay
<1>4. a \in Banks
  BY DEF Sound
<1>5. /\ b \in Banks /\ b.saving = x /\ b.coinDay = y /\ b.queue = a.queue
      /\ b.total = a.total /\ b.charged = a.charged /\ b.updated = a.updated
  BY <1>3, <1>4 DEF Banks
<1>6. y + a.total <= x
  <2>1. a.coinDay \in Nat /\ a.total \in Nat /\ a.saving \in Nat
    BY <1>4 DEF Banks
  <2>2. a.coinDay + a.total <= a.saving
    BY DEF Sound
  <2>3. QED BY <1>2, <2>1, <2>2
<1>7. Sound(b, t)
  BY <1>5, <1>6 DEF Sound
<1>8. QED BY <1>1, <1>2, <1>5, <1>7

LEMMA Saved ==
  ASSUME NEW a, NEW t \in Nat, Sound(a, t), NEW coin \in Nat
  PROVE  LET b == AddSavingCoin(a, coin, t)
         IN Sound(b, t) /\ b.saving = a.saving + coin
<1>0. t <= t /\ a.saving \in Nat
  BY DEF Sound, Banks
<1>1. CASE coin = 0
  BY <1>0, <1>1 DEF AddSavingCoin
<1>2. CASE coin # 0
  <2>1. PICK b : b = Update(a, t)
    OBVIOUS
  <2>2. Sound(b, t) /\ b.saving = a.saving /\ b.updated = Slot(t)
    BY <1>0, <2>1, UpToDate
  <2>3. PICK q \in Seq(Pending), u \in Nat, s \in Nat, c \in Nat, y \in Nat, z \in Nat :
          b.queue = q /\ b.updated = u /\ b.saving = s /\ b.coinDay = c /\ b.total = y /\ b.charged = z
    BY <2>2 DEF Sound, Banks
  <2>4. /\ b \in Banks /\ Ordered(q, u) /\ y = Coins(q) /\ z = Charge(q, u)
        /\ c + y <= s /\ u <= Slot(t) /\ u = Slot(t) /\ s = a.saving
    BY <2>2, <2>3 DEF Sound
  <2>5. PICK n \in Nat : n = Len(q)
    BY <2>3
  <2>6. PICK x \in Nat : x = s + coin
    OBVIOUS
  <2>7. CASE q # <<>> /\ q[Len(q)].start = u
    <3>1. AddSavingCoin(a, coin, t) = [b EXCEPT !.saving = x]
      BY <1>2, <2>1, <2>3, <2>4, <2>6, <2>7 DEF AddSavingCoin
    <3>2. PICK d : d = [b EXCEPT !.saving = x]
      OBVIOUS
    <3>3. /\ d \in Banks /\ d.saving = x /\ d.queue = q /\ d.coinDay = c
          /\ d.total = y /\ d.charged = z /\ d.updated = u
      BY <2>3, <2>4, <3>2 DEF Banks
    <3>4. Sound(d, t)
      <4>1. c + y <= x
        BY <2>4, <2>6
      <4>2. QED BY <2>4, <3>3, <4>1 DEF Sound
    <3>5. QED BY <2>4, <2>6, <3>1, <3>2, <3>3, <3>4
  <2>8. CASE ~ (q # <<>> /\ q[Len(q)].start = u)
    <3>1. PICK e : e = [start |-> u, coin |-> coin]
      OBVIOUS
    <3>2. e \in Pending /\ e.start = u /\ e.coin = coin
      BY <2>3, <3>1 DEF Pending
    <3>3. PICK r : r = Append(q, e)
      OBVIOUS
    <3>4. /\ r \in Seq(Pending) /\ Len(r) = n + 1
          /\ \A i \in 1 .. n : r[i] = q[i]
          /\ r[n + 1] = e
          /\ Coins(r) = y + coin
          /\ Charge(r, u) = z + coin * (u - u)
      <4>1. u \in Int
        OBVIOUS
      <4>2. /\ r \in Seq(Pending) /\ Len(r) = Len(q) + 1
            /\ \A i \in 1 .. Len(q) : r[i] = q[i]
            /\ r[Len(q) + 1] = e
            /\ Coins(r) = Coins(q) + e.coin
            /\ Charge(r, u) = Charge(q, u) + e.coin * (u - e.start)
        BY <3>2, <3>3, <4>1, EntryAdds
      <4>3. y = Coins(q) /\ z = Charge(q, u)
        BY <2>4
      <4>4. QED BY <2>5, <3>2, <4>2, <4>3
    <3>5. Charge(r, u) = z
      <4>1. u - u = 0 /\ coin * 0 = 0
        BY <2>3
      <4>2. QED BY <2>3, <3>4, <4>1
    <3>6. PICK k \in Nat : k = y + coin
      BY <2>3
    <3>7. AddSavingCoin(a, coin, t) = [b EXCEPT !.saving = x, !.queue = r, !.total = k]
      BY <1>2, <2>1, <2>3, <2>4, <2>6, <2>8, <3>1, <3>3, <3>6 DEF AddSavingCoin
    <3>8. PICK d : d = [b EXCEPT !.saving = x, !.queue = r, !.total = k]
      OBVIOUS
    <3>9. /\ d \in Banks /\ d.saving = x /\ d.queue = r /\ d.coinDay = c
          /\ d.total = k /\ d.charged = z /\ d.updated = u
      BY <2>3, <2>4, <3>4, <3>8 DEF Banks
    <3>10. \A i \in 1 .. n : /\ q[i].coin > 0 /\ q[i].start % Interval = 0
                             /\ q[i].start <= u /\ u < q[i].start + Recover
                             /\ q[i].start \in Nat
      <4>1. \A i \in 1 .. n : q[i] \in Pending
        BY <2>3, <2>5
      <4>2. QED BY <2>4, <2>5, <4>1 DEF Ordered, Pending
    <3>11. \A i, j \in 1 .. n : i < j => q[i].start < q[j].start
      BY <2>4, <2>5 DEF Ordered
    <3>12. \A i \in 1 .. n : q[i].start < u
      <4>1. ASSUME NEW i \in 1 .. n PROVE q[i].start < u
        <5>1. q # <<>> /\ n \in 1 .. n
          <6>1. n # 0
            OBVIOUS
          <6>2. QED BY <2>3, <2>5, <6>1
        <5>2. q[n].start # u
          BY <2>5, <2>8, <5>1
        <5>3. q[n].start < u
          BY <3>10, <5>1, <5>2
        <5>4. CASE i = n
          BY <5>3, <5>4
        <5>5. CASE i < n
          BY <3>10, <3>11, <5>1, <5>3, <5>5
        <5>6. QED BY <5>4, <5>5
      <4>2. QED BY <4>1
    <3>13. \A i \in 1 .. n + 1 : i \in 1 .. n \/ i = n + 1
      OBVIOUS
    <3>14. ASSUME NEW i \in 1 .. n + 1
           PROVE  /\ r[i].coin > 0 /\ r[i].start % Interval = 0
                  /\ r[i].start <= u /\ u < r[i].start + Recover
      <4>1. CASE i \in 1 .. n
        BY <3>4, <3>10, <4>1
      <4>2. CASE i = n + 1
        <5>1. u % Interval = 0
          BY <2>4, SlotIs
        <5>2. u < u + Recover
          <6>1. Recover \in Nat \ {0}
            BY BankAssumption
          <6>2. QED BY <6>1
        <5>3. coin > 0
          BY <1>2
        <5>4. QED BY <2>3, <3>2, <3>4, <4>2, <5>1, <5>2, <5>3
      <4>3. QED BY <3>13, <4>1, <4>2
    <3>15. ASSUME NEW i \in 1 .. n + 1, NEW j \in 1 .. n + 1, i < j
           PROVE  r[i].start < r[j].start
      <4>1. i \in 1 .. n
        BY <3>15
      <4>2. CASE j \in 1 .. n
        BY <3>4, <3>11, <3>15, <4>1, <4>2
      <4>3. CASE j = n + 1
        BY <3>2, <3>4, <3>12, <4>1, <4>3
      <4>4. QED BY <3>13, <4>2, <4>3
    <3>16. Ordered(r, u)
      BY <3>4, <3>14, <3>15 DEF Ordered
    <3>17. Sound(d, t)
      <4>1. c + y <= s /\ u <= Slot(t)
        BY <2>4
      <4>2. c + k <= x
        BY <2>6, <3>6, <4>1
      <4>3. k = Coins(r) /\ z = Charge(r, u)
        BY <3>4, <3>5, <3>6
      <4>4. QED BY <3>9, <3>16, <4>1, <4>2, <4>3 DEF Sound
    <3>18. QED BY <2>4, <2>6, <3>7, <3>8, <3>9, <3>17
  <2>9. QED BY <2>7, <2>8
<1>3. QED BY <1>1, <1>2

(* Coins left of the queue, and of the coin day.                            *)
LEMMA Taken ==
  ASSUME NEW a, NEW t \in Nat, Sound(a, t), NEW coin \in Nat, coin <= a.saving
  PROVE  LET b == MinusSavingCoin(a, coin, t)
         IN Sound(b, t) /\ b.saving = a.saving - coin
<1>0. t <= t
  OBVIOUS
<1>1. PICK b : b = Update(a, t)
  OBVIOUS
<1>2. Sound(b, t) /\ b.saving = a.saving /\ b.updated = Slot(t)
  BY <1>0, <1>1, UpToDate
<1>3. PICK q \in Seq(Pending), u \in Nat, s \in Nat, c \in Nat, y \in Nat :
        b.queue = q /\ b.updated = u /\ b.saving = s /\ b.coinDay = c /\ b.total = y
  BY <1>2 DEF Sound, Banks
<1>4. /\ b \in Banks /\ Ordered(q, u) /\ y = Coins(q) /\ b.charged = Charge(q, u)
      /\ c + y <= s /\ u <= Slot(t) /\ s = a.saving /\ coin <= s
  BY <1>2, <1>3 DEF Sound
<1>5. PICK r : r = KeepOldest(q, coin)
  OBVIOUS
<1>6. Ordered(r, u) /\ Coins(r) = Remains(y, coin)
  BY <1>4, <1>5, KeptOldest
<1>7. PICK d : d = Requeue(b, r)
  OBVIOUS
<1>8. /\ d \in Banks /\ d.queue = r /\ d.total = Coins(r) /\ d.charged = Charge(r, u)
      /\ d.saving = s /\ d.coinDay = c /\ d.updated = u
  <2>1. /\ b \in Banks /\ b.total = Coins(b.queue) /\ b.charged = Charge(b.queue, b.updated)
        /\ Ordered(r, b.updated)
    BY <1>3, <1>4, <1>6
  <2>2. /\ d \in Banks /\ d.queue = r /\ d.total = Coins(r) /\ d.charged = Charge(r, b.updated)
        /\ d.saving = b.saving /\ d.coinDay = b.coinDay /\ d.updated = b.updated
    BY <1>7, <2>1, Requeued
  <2>3. QED BY <1>3, <2>2
<1>9. PICK x \in Nat : x = s - coin
  BY <1>4
<1>10. PICK e : e = [d EXCEPT !.saving = x]
  OBVIOUS
<1>11. /\ e \in Banks /\ e.queue = r /\ e.total = Coins(r) /\ e.charged = Charge(r, u)
       /\ e.saving = x /\ e.coinDay = c /\ e.updated = u
  BY <1>8, <1>10 DEF Banks
<1>12. MinusSavingCoin(a, coin, t) = IF y < coin THEN [e EXCEPT !.coinDay = x] ELSE e
  <2>1. d = Requeue(b, KeepOldest(b.queue, coin))
    BY <1>3, <1>5, <1>7
  <2>10. e = [d EXCEPT !.saving = @ - coin]
    BY <1>8, <1>9, <1>10
  <2>2. e = [Requeue(b, KeepOldest(b.queue, coin)) EXCEPT !.saving = @ - coin]
    BY <2>1, <2>10, Zenon
  <2>3. MinusSavingCoin(a, coin, t) = IF Coins(q) < coin THEN [e EXCEPT !.coinDay = e.saving] ELSE e
    <3>1. PICK g : g = [Requeue(b, KeepOldest(b.queue, coin)) EXCEPT !.saving = @ - coin]
      OBVIOUS
    <3>2. MinusSavingCoin(a, coin, t) = IF Coins(b.queue) < coin THEN [g EXCEPT !.coinDay = g.saving] ELSE g
      <4> DEFINE B == Update(a, t)
                 C == [Requeue(B, KeepOldest(B.queue, coin)) EXCEPT !.saving = @ - coin]
      <4>1. MinusSavingCoin(a, coin, t) = IF Coins(B.queue) < coin THEN [C EXCEPT !.coinDay = C.saving] ELSE C
        BY DEF MinusSavingCoin
      <4>2. b = B /\ g = C
        BY <1>1, <3>1
      <4> HIDE DEF B, C
      <4>3. QED BY <4>1, <4>2
    <3>3. g = e /\ b.queue = q
      BY <1>3, <2>2, <3>1, Zenon
    <3>4. QED BY <3>2, <3>3, Zenon
  <2>4. QED BY <1>4, <1>11, <2>3
<1>13. CASE y < coin
  <2>1. Coins(r) = 0
    BY <1>6, <1>13 DEF Remains
  <2>2. PICK f : f = [e EXCEPT !.coinDay = x]
    OBVIOUS
  <2>3. /\ f \in Banks /\ f.queue = r /\ f.total = Coins(r) /\ f.charged = Charge(r, u)
        /\ f.saving = x /\ f.coinDay = x /\ f.updated = u
    BY <1>11, <2>2 DEF Banks
  <2>4. x + Coins(r) <= x
    BY <2>1
  <2>5. Sound(f, t)
    BY <1>4, <1>6, <2>3, <2>4 DEF Sound
  <2>6. QED BY <1>4, <1>9, <1>12, <1>13, <2>2, <2>3, <2>5
<1>14. CASE ~ (y < coin)
  <2>1. c + Coins(r) <= x
    BY <1>4, <1>6, <1>9, <1>14 DEF Remains
  <2>2. Sound(e, t)
    BY <1>4, <1>6, <1>11, <2>1 DEF Sound
  <2>3. QED BY <1>4, <1>9, <1>11, <1>12, <1>14, <2>2
<1>15. QED BY <1>13, <1>14

(* Coins taken of the coin day, and of the oldest of the queue.             *)
LEMMA TakenCharged ==
  ASSUME NEW a, NEW t \in Nat, Sound(a, t), NEW coin \in Nat, coin <= a.saving
  PROVE  LET b == MinusSavingCoinWithFullCoinDay(a, coin, t)
         IN /\ Sound(b, t) /\ b.saving = a.saving - coin /\ b.updated = Slot(t)
            /\ CoinDay(Update(a, t)) - CoinDay(b) \in 0 .. coin
<1>0. t <= t
  OBVIOUS
<1>1. PICK b : b = Update(a, t)
  OBVIOUS
<1>2. Sound(b, t) /\ b.saving = a.saving /\ b.updated = Slot(t)
  BY <1>0, <1>1, UpToDate
<1>3. PICK q \in Seq(Pending), u \in Nat, s \in Nat, c \in Nat, y \in Nat :
        b.queue = q /\ b.updated = u /\ b.saving = s /\ b.coinDay = c /\ b.total = y
  BY <1>2 DEF Sound, Banks
<1>4. /\ b \in Banks /\ Ordered(q, u) /\ y = Coins(q) /\ b.charged = Charge(q, u)
      /\ c + y <= s /\ u <= Slot(t) /\ s = a.saving /\ coin <= s
  BY <1>2, <1>3 DEF Sound
<1>5. PICK f \in Nat : f = Min({coin, c}) /\ f <= coin /\ f <= c /\ (f = coin \/ f = c)
  <2>1. {coin, c} \in SUBSET Nat /\ {coin, c} # {}
    OBVIOUS
  <2>2. Min({coin, c}) \in {coin, c} /\ \A x \in {coin, c} : Min({coin, c}) <= x
    BY <2>1, LeastIn
  <2>3. QED BY <2>2
<1>6. PICK rest \in Nat : rest = coin - f
  BY <1>5
<1>7. PICK r : r = KeepLatest(q, rest)
  OBVIOUS
<1>8. Ordered(r, u) /\ Coins(r) = Remains(y, rest) /\ Discharged(q, r, u)
  BY <1>4, <1>7, KeptLatest
<1>9. PICK d : d = Requeue(b, r)
  OBVIOUS
<1>10. /\ d \in Banks /\ d.queue = r /\ d.total = Coins(r) /\ d.charged = Charge(r, u)
       /\ d.saving = s /\ d.coinDay = c /\ d.updated = u
  <2>1. /\ b \in Banks /\ b.total = Coins(b.queue) /\ b.charged = Charge(b.queue, b.updated)
        /\ Ordered(r, b.updated)
    BY <1>3, <1>4, <1>8
  <2>2. /\ d \in Banks /\ d.queue = r /\ d.total = Coins(r) /\ d.charged = Charge(r, b.updated)
        /\ d.saving = b.saving /\ d.coinDay = b.coinDay /\ d.updated = b.updated
    BY <1>9, <2>1, Requeued
  <2>3. QED BY <1>3, <2>2
<1>11. PICK x \in Nat, z \in Nat : x = s - coin /\ z = c - f
  BY <1>4, <1>5
<1>12. PICK e : e = [d EXCEPT !.saving = x, !.coinDay = z]
  OBVIOUS
<1>13. /\ e \in Banks /\ e.queue = r /\ e.total = Coins(r) /\ e.charged = Charge(r, u)
       /\ e.saving = x /\ e.coinDay = z /\ e.updated = u
  BY <1>10, <1>12 DEF Banks
<1>14. MinusSavingCoinWithFullCoinDay(a, coin, t) = e
  <2>1. MinusSavingCoinWithFullCoinDay(a, coin, t)
          = [Requeue(b, KeepLatest(b.queue, coin - Min({coin, b.coinDay}))) EXCEPT
               !.saving = @ - coin, !.coinDay = @ - Min({coin, b.coinDay})]
    BY <1>1, Zenon DEF MinusSavingCoinWithFullCoinDay
  <2>2. Requeue(b, KeepLatest(b.queue, coin - Min({coin, b.coinDay}))) = d
    BY <1>3, <1>5, <1>6, <1>7, <1>9
  <2>3. Min({coin, b.coinDay}) = f
    BY <1>3, <1>5
  <2>4. MinusSavingCoinWithFullCoinDay(a, coin, t)
          = [d EXCEPT !.saving = @ - coin, !.coinDay = @ - f]
    BY <2>1, <2>2, <2>3
  <2>5. QED BY <1>10, <1>11, <1>12, <2>4
<1>15. z + Coins(r) <= x
  <2>1. PICK w \in Nat : w = Coins(r) /\ (rest <= y => w = y - rest) /\ (rest > y => w = 0)
    <3>1. Remains(y, rest) \in Nat /\ (rest <= y => Remains(y, rest) = y - rest)
          /\ (rest > y => Remains(y, rest) = 0)
      BY DEF Remains
    <3>2. QED BY <1>8, <3>1
  <2>2. c + y <= s /\ coin <= s
    BY <1>4
  <2>20. f <= coin /\ f <= c /\ (f = coin \/ f = c)
    BY <1>5
  <2>3. z + w <= x
    BY <1>6, <1>11, <2>1, <2>2, <2>20
  <2>4. QED BY <2>1, <2>3
<1>16. Sound(e, t)
  BY <1>4, <1>8, <1>13, <1>15 DEF Sound
<1>17. CoinDay(b) - CoinDay(e) \in 0 .. coin
  <2>1. PICK v \in Nat, gone \in Nat : v = Coins(r) /\ gone = y - v /\ gone <= rest
    <3>1. Remains(y, rest) \in Nat /\ y - Remains(y, rest) \in Nat
          /\ y - Remains(y, rest) <= rest
      BY DEF Remains
    <3>2. QED BY <1>8, <3>1
  <2>2. PICK w \in Nat \ {0} : w = Recover
    BY BankAssumption
  <2>3. PICK l \in Nat, m \in Nat : l = Charge(q, u) /\ m = Charge(r, u)
    <3>1. q \in Seq(Pending) /\ \A i \in 1 .. Len(q) : q[i].start <= u /\ u < q[i].start + Recover
      BY <1>4 DEF Ordered
    <3>2. r \in Seq(Pending) /\ \A i \in 1 .. Len(r) : r[i].start <= u /\ u < r[i].start + Recover
      BY <1>8 DEF Ordered
    <3>3. Charge(q, u) \in Nat
      BY <3>1, ChargeBounded
    <3>4. Charge(r, u) \in Nat
      BY <3>2, ChargeBounded
    <3>5. QED BY <3>3, <3>4
  <2>4. m <= l /\ (l - m) + gone <= w * gone
    BY <1>4, <1>8, <2>1, <2>2, <2>3 DEF Discharged
  <2>5. Round(l, w) - Round(m, w) \in 0 .. gone
    BY <2>4, RoundSteps
  <2>6. Round(l, w) \in Nat /\ Round(m, w) \in Nat
    BY RoundNear
  <2>7. CoinDay(b) = c + Round(l, w) /\ CoinDay(e) = z + Round(m, w)
    BY <1>3, <1>4, <1>13, <2>2, <2>3 DEF CoinDay
  <2>8. PICK g \in Nat, h \in Nat : g = Round(l, w) /\ h = Round(m, w)
    BY <2>6
  <2>9. c + g - (z + h) \in 0 .. coin
    <3>1. g - h \in 0 .. gone
      BY <2>5, <2>8
    <3>2. c - z = f /\ gone <= coin - f /\ f <= coin
      BY <1>5, <1>6, <1>11, <2>1
    <3>3. QED BY ONLY <3>1, <3>2, c \in Nat, z \in Nat, g \in Nat, h \in Nat, f \in Nat,
                      gone \in Nat, coin \in Nat
  <2>10. CoinDay(b) - CoinDay(e) = c + g - (z + h)
    BY <2>7, <2>8
  <2>11. QED BY <2>9, <2>10
<1>18. e.updated = Slot(t)
  BY <1>2, <1>3, <1>13
<1>19. QED BY <1>1, <1>4, <1>11, <1>13, <1>14, <1>16, <1>17, <1>18

(* The weight of a donation, the difference of two rounded coin days.       *)
LEMMA DonationWeighs ==
  ASSUME NEW a, NEW t \in Nat, Sound(a, t), NEW coin \in Nat, coin <= a.saving
  PROVE  Donated(a, coin, t) \in 0 .. coin
<1>1. PICK b : b = Update(a, t)
  OBVIOUS
<1>2. Sound(b, t) /\ b.saving = a.saving /\ b.updated = Slot(t)
  BY <1>1, UpToDate, t <= t
<1>3. CoinDay(Update(b, t)) = CoinDay(b)
  BY <1>2, UpToDateAgain
<1>4. PICK e : e = MinusSavingCoinWithFullCoinDay(b, coin, t)
  OBVIOUS
<1>5. /\ Sound(e, t) /\ e.updated = Slot(t)
      /\ CoinDay(Update(b, t)) - CoinDay(e) \in 0 .. coin
  BY <1>2, <1>4, TakenCharged
<1>6. CoinDay(Update(e, t)) = CoinDay(e)
  BY <1>5, UpToDateAgain
<1>7. Donated(a, coin, t) = CoinDay(b) - CoinDay(Update(e, t))
  BY <1>1, <1>4 DEF Donated
<1>8. QED BY <1>3, <1>5, <1>6, <1>7

LEMMA Opened ==
  ASSUME NEW deposit \in Nat, NEW t \in Nat
  PROVE  Sound(Created(deposit, t), t) /\ Created(deposit, t).saving = deposit
<1>1. PICK a : a = NoBank
  OBVIOUS
<1>2. Sound(a, t) /\ a.saving = 0
  <2>1. /\ a \in Banks /\ a.queue = <<>> /\ a.total = 0 /\ a.charged = 0
        /\ a.saving = 0 /\ a.coinDay = 0 /\ a.updated = 0
    BY <1>1 DEF NoBank, Banks
  <2>2. PICK z \in Nat : z = 0
    OBVIOUS
  <2>3. Ordered(<<>>, z) /\ Coins(<<>>) = 0 /\ Charge(<<>>, z) = 0
    <3>1. z \in Int
      OBVIOUS
    <3>2. QED BY <3>1, EmptyQueue
  <2>4. Slot(t) \in Nat /\ 0 <= Slot(t) /\ 0 + 0 <= 0
    BY SlotIs
  <2>5. QED BY <2>1, <2>2, <2>3, <2>4 DEF Sound
<1>3. PICK f \in Nat : f = Min({deposit, FullLimit}) /\ f <= deposit
  <2>1. {deposit, FullLimit} \in SUBSET Nat /\ {deposit, FullLimit} # {}
    BY BankAssumption
  <2>2. Min({deposit, FullLimit}) \in {deposit, FullLimit}
        /\ \A x \in {deposit, FullLimit} : Min({deposit, FullLimit}) <= x
    BY <2>1, LeastIn
  <2>3. QED BY <2>1, <2>2
<1>4. PICK b : b = AddSavingCoinWithFullCoinDay(a, f)
  OBVIOUS
<1>5. Sound(b, t) /\ b.saving = a.saving + f
  BY <1>2, <1>4, ChargedAtOnce
<1>6. PICK g \in Nat : g = deposit - f
  BY <1>3
<1>7. PICK c : c = AddSavingCoin(b, g, t)
  OBVIOUS
<1>8. Sound(c, t) /\ c.saving = b.saving + g
  BY <1>5, <1>7, Saved
<1>9. Created(deposit, t) = c
  BY <1>1, <1>3, <1>4, <1>6, <1>7 DEF Created
<1>10. QED BY <1>2, <1>3, <1>5, <1>6, <1>8, <1>9
------------------------------------------------------------------------------
(****************************************************************************)
(* The accounts together.                                                   *)
(****************************************************************************)
Holds(b, t) ==
  /\ DOMAIN Genesis \subseteq DOMAIN b /\ DOMAIN b \subseteq Users
  /\ b \in [DOMAIN b -> Banks]
  /\ \A u \in DOMAIN b : Sound(b[u], t)

Savings(b) == SumFunction([u \in DOMAIN b |-> b[u].saving])

Changed(b, u, a) == [b EXCEPT ![u] = a]

Extended(b, n, a) == [v \in DOMAIN b \cup {n} |-> IF v = n THEN a ELSE b[v]]

(* One account changes, and what all have with it.                          *)
LEMMA OneAccount ==
  ASSUME NEW b, NEW t, Holds(b, t), NEW u \in DOMAIN b, NEW a, Sound(a, t),
         NEW c, c = Changed(b, u, a)
  PROVE  /\ Holds(c, t) /\ DOMAIN c = DOMAIN b /\ c[u] = a
         /\ \A v \in DOMAIN b : v # u => c[v] = b[v]
         /\ Savings(c) = Savings(b) + (a.saving - b[u].saving)
         /\ Savings(b) \in Int /\ Savings(c) \in Int
         /\ a.saving \in Nat /\ b[u].saving \in Nat
<1>1. /\ DOMAIN Genesis \subseteq DOMAIN b /\ DOMAIN b \subseteq Users
      /\ b \in [DOMAIN b -> Banks] /\ \A v \in DOMAIN b : Sound(b[v], t)
  BY DEF Holds
<1>2. PICK D : D = DOMAIN b
  OBVIOUS
<1>3. IsFiniteSet(D)
  BY <1>1, <1>2, BankAssumption, AccountAssumption, FS_Subset
<1>4. a \in Banks
  BY DEF Sound
<1>5. c \in [D -> Banks] /\ DOMAIN c = D /\ c[u] = a /\ \A v \in D : v # u => c[v] = b[v]
  BY <1>1, <1>2, <1>4 DEF Changed
<1>6. \A v \in D : Sound(c[v], t)
  BY <1>1, <1>2, <1>5
<1>7. Holds(c, t)
  BY <1>1, <1>2, <1>5, <1>6 DEF Holds
<1>8. PICK f : f = [v \in D |-> b[v].saving]
  OBVIOUS
<1>9. PICK g : g = [v \in D |-> c[v].saving]
  OBVIOUS
<1>10. \A v \in D : b[v].saving \in Nat /\ c[v].saving \in Nat
  BY <1>1, <1>2, <1>5 DEF Banks
<1>11. f \in [D -> Int] /\ g \in [D -> Int]
  BY <1>8, <1>9, <1>10
<1>12. \A v \in D : v # u => g[v] = f[v]
  BY <1>5, <1>8, <1>9
<1>13. u \in D
  BY <1>2
<1>14. SumFunction(g) = SumFunction(f) + (g[u] - f[u]) /\ SumFunction(f) \in Int /\ SumFunction(g) \in Int
  BY <1>3, <1>11, <1>12, <1>13, SumChanges
<1>15. Savings(b) = SumFunction(f) /\ Savings(c) = SumFunction(g)
  BY <1>2, <1>5, <1>8, <1>9 DEF Savings
<1>16. g[u] = a.saving /\ f[u] = b[u].saving
  BY <1>5, <1>8, <1>9, <1>13
<1>17. QED BY <1>2, <1>5, <1>7, <1>10, <1>13, <1>14, <1>15, <1>16

(* An account is opened.                                                    *)
LEMMA NewAccount ==
  ASSUME NEW b, NEW t, Holds(b, t), NEW n, n \in Users, n \notin DOMAIN b,
         NEW a, Sound(a, t)
  PROVE  /\ Holds(Extended(b, n, a), t)
         /\ DOMAIN Extended(b, n, a) = DOMAIN b \cup {n}
         /\ Savings(Extended(b, n, a)) = Savings(b) + a.saving
         /\ Savings(b) \in Int /\ a.saving \in Nat
<1>0. PICK c : c = Extended(b, n, a)
  OBVIOUS
<1>1. /\ DOMAIN Genesis \subseteq DOMAIN b /\ DOMAIN b \subseteq Users
      /\ b \in [DOMAIN b -> Banks] /\ \A v \in DOMAIN b : Sound(b[v], t)
  BY DEF Holds
<1>2. PICK D : D = DOMAIN b
  OBVIOUS
<1>3. IsFiniteSet(D)
  BY <1>1, <1>2, BankAssumption, AccountAssumption, FS_Subset
<1>4. a \in Banks /\ n \in Users /\ n \notin D
  BY <1>2 DEF Sound
<1>5. /\ c \in [D \cup {n} -> Banks] /\ DOMAIN c = D \cup {n} /\ c[n] = a
      /\ \A v \in D : c[v] = b[v]
  BY <1>0, <1>1, <1>2, <1>4 DEF Extended
<1>6. \A v \in D \cup {n} : Sound(c[v], t)
  BY <1>1, <1>2, <1>5
<1>7. Holds(c, t)
  <2>1. DOMAIN Genesis \subseteq D \cup {n} /\ D \cup {n} \subseteq Users
    BY <1>1, <1>2, <1>4
  <2>2. QED BY <1>5, <1>6, <2>1 DEF Holds
<1>8. PICK f : f = [v \in D |-> b[v].saving]
  OBVIOUS
<1>9. PICK g : g = [v \in D \cup {n} |-> c[v].saving]
  OBVIOUS
<1>10. a.saving \in Nat /\ \A v \in D : b[v].saving \in Nat
  BY <1>1, <1>2, <1>4 DEF Banks
<1>11. f \in [D -> Int] /\ g \in [D \cup {n} -> Int] /\ g[n] = a.saving
       /\ \A v \in D : f[v] \in Int /\ g[v] = f[v]
  <2>1. \A v \in D \cup {n} : c[v].saving \in Int
    BY <1>5, <1>10
  <2>2. g \in [D \cup {n} -> Int]
    BY <1>9, <2>1
  <2>3. f \in [D -> Int]
    BY <1>8, <1>10
  <2>4. g[n] = a.saving /\ \A v \in D : g[v] = f[v]
    BY <1>5, <1>8, <1>9
  <2>5. QED BY <2>2, <2>3, <2>4
<1>12. IsFiniteSet(D \cup {n})
  BY <1>3, FS_AddElement
<1>13. \A v \in D \cup {n} : g[v] \in Int
  BY <1>11
<1>14. SumFunctionOnSet(g, D \cup {n}) = g[n] + SumFunctionOnSet(g, D)
  BY <1>3, <1>4, <1>13, SumAdds
<1>15. SumFunctionOnSet(g, D) = SumFunctionOnSet(f, D)
  BY <1>3, <1>11, SumSame
<1>16. SumFunction(g) = SumFunctionOnSet(g, D \cup {n})
  BY <1>11, <1>12, SumTotal
<1>17. SumFunction(f) = SumFunctionOnSet(f, D) /\ SumFunction(f) \in Int
  BY <1>3, <1>11, SumTotal
<1>18. Savings(b) = SumFunction(f) /\ Savings(c) = SumFunction(g)
  BY <1>2, <1>5, <1>8, <1>9 DEF Savings
<1>19. Savings(c) = Savings(b) + a.saving /\ Savings(b) \in Int
  BY <1>10, <1>11, <1>14, <1>15, <1>16, <1>17, <1>18
<1>20. QED BY <1>0, <1>2, <1>5, <1>7, <1>10, <1>19

(* The inductive invariant: every account is sound at the time of the       *)
(* block, and no coin is lost.                                              *)
BankInv ==
  /\ now \in Nat /\ elsewhere \in Nat
  /\ Holds(bank, now) /\ unclaimed \in [Owners -> Nat]
  /\ Savings(bank) + SumFunction(unclaimed) + elsewhere
       = SumFunction(Genesis) + GenesisElsewhere

LEMMA BankStarts == BankInit => BankInv
<1>1. SUFFICES ASSUME BankInit PROVE BankInv
  OBVIOUS
<1>2. PICK D : D = DOMAIN Genesis
  OBVIOUS
<1>3. /\ IsFiniteSet(D) /\ D \subseteq Users /\ Genesis \in [D -> Nat] /\ GenesisElsewhere \in Nat
  BY <1>2, BankAssumption, AccountAssumption, FS_Subset
<1>4. PICK z \in Nat : z = 0
  OBVIOUS
<1>5. /\ bank = [u \in D |-> Created(Genesis[u], z)] /\ unclaimed = [u \in D |-> 0]
      /\ elsewhere = GenesisElsewhere /\ now = z
  BY <1>1, <1>2, <1>4 DEF BankInit
<1>6. ASSUME NEW u \in D PROVE Sound(bank[u], z) /\ bank[u].saving = Genesis[u] /\ bank[u] \in Banks
  <2>1. bank[u] = Created(Genesis[u], z)
    BY <1>5
  <2>2. PICK deposit \in Nat : deposit = Genesis[u]
    BY <1>3
  <2>3. Sound(Created(deposit, z), z) /\ Created(deposit, z).saving = deposit
    BY Opened
  <2>4. QED BY <2>1, <2>2, <2>3 DEF Sound
<1>7. DOMAIN bank = D
  BY <1>5
<1>8. Holds(bank, now)
  <2>1. bank \in [D -> Banks]
    BY <1>5, <1>6
  <2>2. QED BY <1>2, <1>3, <1>5, <1>6, <1>7, <2>1 DEF Holds
<1>9. Savings(bank) = SumFunction(Genesis)
  <2>1. [u \in D |-> bank[u].saving] = Genesis
    BY <1>3, <1>6
  <2>2. QED BY <1>7, <2>1 DEF Savings
<1>10. unclaimed \in [Owners -> Nat] /\ SumFunction(unclaimed) = 0
  <2>1. unclaimed \in [D -> Int] /\ \A u \in D : unclaimed[u] = 0
    BY <1>5
  <2>2. SumFunction(unclaimed) = 0
    BY <1>3, <2>1, SumTotal, SumZero
  <2>3. unclaimed \in [D -> Nat]
    BY <2>1
  <2>4. QED BY <1>7, <2>2, <2>3 DEF Owners
<1>11. SumFunction(Genesis) \in Int
  <2>1. Genesis \in [D -> Int]
    BY <1>3
  <2>2. QED BY <1>3, <2>1, SumTotal
<1>12. Savings(bank) + SumFunction(unclaimed) + elsewhere = SumFunction(Genesis) + GenesisElsewhere
  BY <1>3, <1>5, <1>9, <1>10, <1>11
<1>13. QED BY <1>3, <1>5, <1>8, <1>10, <1>12 DEF BankInv
(* What the invariant gives every step.                                     *)
LEMMA BankFacts ==
  ASSUME BankInv
  PROVE  /\ now \in Nat /\ elsewhere \in Nat /\ Holds(bank, now) /\ IsFiniteSet(Owners)
         /\ Owners \subseteq Users /\ unclaimed \in [Owners -> Int] /\ unclaimed \in [Owners -> Nat]
         /\ SumFunction(unclaimed) \in Int /\ Savings(bank) \in Int
         /\ \A u \in Owners : Sound(bank[u], now) /\ bank[u].saving \in Nat
<1>1. /\ now \in Nat /\ elsewhere \in Nat /\ Holds(bank, now) /\ unclaimed \in [Owners -> Nat]
  BY DEF BankInv
<1>2. Owners \subseteq Users /\ bank \in [Owners -> Banks] /\ \A u \in Owners : Sound(bank[u], now)
  BY <1>1 DEF Holds, Owners
<1>3. IsFiniteSet(Owners)
  BY <1>2, BankAssumption, AccountAssumption, FS_Subset
<1>4. unclaimed \in [Owners -> Int]
  BY <1>1
<1>5. \A u \in Owners : bank[u].saving \in Nat
  BY <1>2 DEF Banks
<1>6. PICK f : f = [u \in Owners |-> bank[u].saving]
  OBVIOUS
<1>7. f \in [Owners -> Int]
  BY <1>5, <1>6
<1>8. SumFunction(f) \in Int
  BY <1>3, <1>7, SumTotal
<1>9. Savings(bank) = SumFunction(f)
  BY <1>6 DEF Savings, Owners
<1>10. SumFunction(unclaimed) \in Int
  BY <1>3, <1>4, SumTotal
<1>11. QED BY <1>1, <1>2, <1>3, <1>4, <1>5, <1>8, <1>9, <1>10

(* A coin that is spent is there.                                           *)
LEMMA Spendable ==
  ASSUME NEW a, NEW t \in Nat, Sound(a, t), NEW coin \in Nat, CanSpend(a, coin)
  PROVE  coin <= a.saving
<1>1. a.saving \in Nat
  BY DEF Sound, Banks
<1>2. a.saving - coin >= MinimumBalance /\ MinimumBalance \in Nat
  BY BankAssumption DEF CanSpend
<1>3. QED BY <1>1, <1>2

LEMMA AmountIs ==
  ASSUME NEW coin \in Amounts
  PROVE  coin \in Nat /\ coin # 0 /\ Friction[coin] \in Nat /\ Friction[coin] <= coin
BY BankAssumption, AccountAssumption

LEMMA TransferKeeps ==
  ASSUME BankInv, NEW u \in Users, NEW v \in Users, NEW coin \in Amounts, Transfer(u, v, coin)
  PROVE  BankInv'
<1>1. /\ u \in Owners /\ v \in Owners /\ CanSpend(bank[u], coin)
      /\ bank' = [[bank EXCEPT ![u] = MinusSavingCoin(@, coin, now)]
                    EXCEPT ![v] = AddSavingCoin(@, coin, now)]
      /\ unclaimed' = unclaimed /\ elsewhere' = elsewhere /\ now' = now
  BY DEF Transfer
<1>2. /\ now \in Nat /\ Holds(bank, now) /\ Sound(bank[u], now) /\ Savings(bank) \in Int
      /\ u \in DOMAIN bank /\ v \in DOMAIN bank
  BY <1>1, BankFacts DEF Owners
<1>3. coin \in Nat /\ coin <= bank[u].saving
  BY <1>1, <1>2, AmountIs, Spendable
<1>4. PICK a : a = MinusSavingCoin(bank[u], coin, now)
  OBVIOUS
<1>5. Sound(a, now) /\ a.saving = bank[u].saving - coin
  BY <1>2, <1>3, <1>4, Taken
<1>6. PICK b : b = Changed(bank, u, a)
  OBVIOUS
<1>7. /\ Holds(b, now) /\ DOMAIN b = DOMAIN bank
      /\ Savings(b) = Savings(bank) + (a.saving - bank[u].saving) /\ bank[u].saving \in Nat
  BY <1>2, <1>5, <1>6, OneAccount
<1>8. Sound(b[v], now) /\ v \in DOMAIN b
  BY <1>2, <1>7 DEF Holds
<1>9. PICK d : d = AddSavingCoin(b[v], coin, now)
  OBVIOUS
<1>10. Sound(d, now) /\ d.saving = b[v].saving + coin
  BY <1>2, <1>3, <1>8, <1>9, Saved
<1>11. PICK c : c = Changed(b, v, d)
  OBVIOUS
<1>12. /\ Holds(c, now) /\ DOMAIN c = DOMAIN b
       /\ Savings(c) = Savings(b) + (d.saving - b[v].saving) /\ b[v].saving \in Nat
  BY <1>7, <1>8, <1>10, <1>11, OneAccount
<1>13. bank' = c
  <2>1. [bank EXCEPT ![u] = MinusSavingCoin(@, coin, now)] = b
    BY <1>4, <1>6 DEF Changed
  <2>2. QED BY <1>1, <1>9, <1>11, <2>1 DEF Changed
<1>14. Savings(c) = Savings(bank)
  BY <1>2, <1>3, <1>5, <1>7, <1>10, <1>12
<1>15. QED BY <1>1, <1>7, <1>12, <1>13, <1>14 DEF BankInv, Owners

LEMMA RegisterKeeps ==
  ASSUME BankInv, NEW r \in Users, NEW n \in Users, NEW coin \in Amounts, Register(r, n, coin)
  PROVE  BankInv'
<1>1. /\ r \in Owners /\ n \in Users \ Owners /\ coin >= RegisterFee /\ CanSpend(bank[r], coin)
      /\ bank' = [u \in Owners \cup {n} |->
           CASE u = n  -> Created(coin - RegisterFee, now)
             [] u = r -> MinusSavingCoin(bank[u], coin, now)
             [] OTHER -> bank[u]]
      /\ unclaimed' = [u \in Owners \cup {n} |-> IF u = n THEN 0 ELSE unclaimed[u]]
      /\ elsewhere' = elsewhere + RegisterFee /\ now' = now
  BY DEF Register
<1>2. /\ now \in Nat /\ elsewhere \in Nat /\ Holds(bank, now) /\ Sound(bank[r], now)
      /\ Savings(bank) \in Int /\ SumFunction(unclaimed) \in Int
      /\ r \in DOMAIN bank /\ n \in Users \ DOMAIN bank
      /\ IsFiniteSet(Owners) /\ unclaimed \in [Owners -> Nat]
  BY <1>1, BankFacts DEF Owners
<1>3. coin \in Nat /\ coin <= bank[r].saving
  BY <1>1, <1>2, AmountIs, Spendable
<1>4. PICK fee \in Nat, rest \in Nat : fee = RegisterFee /\ rest = coin - fee
  BY <1>1, <1>3, BankAssumption
<1>5. PICK a : a = MinusSavingCoin(bank[r], coin, now)
  OBVIOUS
<1>6. Sound(a, now) /\ a.saving = bank[r].saving - coin
  BY <1>2, <1>3, <1>5, Taken
<1>7. PICK b : b = Changed(bank, r, a)
  OBVIOUS
<1>8. /\ Holds(b, now) /\ DOMAIN b = DOMAIN bank /\ b[r] = a
      /\ \A v \in DOMAIN bank : v # r => b[v] = bank[v]
      /\ Savings(b) = Savings(bank) + (a.saving - bank[r].saving) /\ bank[r].saving \in Nat
  BY <1>2, <1>6, <1>7, OneAccount
<1>9. PICK d : d = Created(rest, now)
  OBVIOUS
<1>10. Sound(d, now) /\ d.saving = rest
  BY <1>2, <1>9, Opened
<1>11. PICK c : c = Extended(b, n, d)
  OBVIOUS
<1>12. Holds(c, now) /\ DOMAIN c = DOMAIN b \cup {n} /\ Savings(c) = Savings(b) + d.saving
  <2>1. n \in Users /\ n \notin DOMAIN b
    BY <1>2, <1>8
  <2>2. Holds(b, now) /\ Sound(d, now)
    BY <1>8, <1>10
  <2>3. QED BY <1>11, <2>1, <2>2, NewAccount
<1>13. bank' = c
  <2>1. \A v \in DOMAIN bank \cup {n} :
          (CASE v = n  -> Created(coin - RegisterFee, now)
             [] v = r -> MinusSavingCoin(bank[v], coin, now)
             [] OTHER -> bank[v]) = IF v = n THEN d ELSE b[v]
    <3>1. ASSUME NEW v \in DOMAIN bank \cup {n}
          PROVE  (CASE v = n  -> Created(coin - RegisterFee, now)
                    [] v = r -> MinusSavingCoin(bank[v], coin, now)
                    [] OTHER -> bank[v]) = IF v = n THEN d ELSE b[v]
      <4>1. n # r
        BY <1>2
      <4>2. CASE v = n
        BY <4>1, <4>2, <1>4, <1>9
      <4>3. CASE v = r
        BY <4>1, <4>3, <1>5, <1>8
      <4>4. CASE v # n /\ v # r
        BY <4>4, <1>8
      <4>5. QED BY <4>2, <4>3, <4>4
    <3>2. QED BY <3>1
  <2>2. QED BY <1>1, <1>8, <1>11, <2>1 DEF Owners, Extended
<1>14. unclaimed' \in [Owners \cup {n} -> Nat] /\ SumFunction(unclaimed') = SumFunction(unclaimed)
  <2>1. PICK w : w = unclaimed'
    OBVIOUS
  <2>2. w \in [Owners \cup {n} -> Nat] /\ w[n] = 0 /\ \A u \in Owners : w[u] = unclaimed[u]
    BY <1>1, <1>2, <2>1
  <2>3. /\ w \in [Owners \cup {n} -> Int] /\ unclaimed \in [Owners -> Int]
        /\ \A u \in Owners : unclaimed[u] \in Int /\ w[u] = unclaimed[u]
        /\ \A u \in Owners \cup {n} : w[u] \in Int
    BY <1>2, <2>2
  <2>4. n \notin Owners /\ IsFiniteSet(Owners \cup {n})
    BY <1>1, <1>2, FS_AddElement
  <2>5. SumFunctionOnSet(w, Owners \cup {n}) = w[n] + SumFunctionOnSet(w, Owners)
    BY <1>2, <2>3, <2>4, SumAdds
  <2>6. SumFunctionOnSet(w, Owners) = SumFunctionOnSet(unclaimed, Owners)
    BY <1>2, <2>3, SumSame
  <2>7. SumFunction(w) = SumFunctionOnSet(w, Owners \cup {n})
        /\ SumFunction(unclaimed) = SumFunctionOnSet(unclaimed, Owners)
        /\ SumFunction(unclaimed) \in Int
    BY <1>2, <2>3, <2>4, SumTotal
  <2>8. QED BY <2>1, <2>2, <2>5, <2>6, <2>7
<1>15. Owners' = Owners \cup {n}
  BY <1>8, <1>12, <1>13 DEF Owners
<1>16. Savings(c) + elsewhere' = Savings(bank) + elsewhere /\ elsewhere' \in Nat
  <2>1. Savings(c) = Savings(bank) - coin + rest
    BY <1>2, <1>3, <1>6, <1>8, <1>10, <1>12
  <2>2. elsewhere' = elsewhere + fee
    BY <1>1, <1>4
  <2>3. QED BY <1>2, <1>3, <1>4, <2>1, <2>2
<1>17. PICK S \in Int, T \in Int, e \in Nat, w \in Int :
         S = Savings(bank) /\ T = Savings(c) /\ e = elsewhere' /\ w = SumFunction(unclaimed)
  <2>1. Savings(c) \in Int
    BY <1>2, <1>3, <1>4, <1>6, <1>8, <1>10, <1>12
  <2>2. QED BY <1>2, <1>16, <2>1
<1>18. T + w + e = SumFunction(Genesis) + GenesisElsewhere
  BY <1>2, <1>16, <1>17 DEF BankInv
<1>19. QED BY <1>1, <1>2, <1>12, <1>13, <1>14, <1>15, <1>17, <1>18 DEF BankInv
LEMMA ClaimRewardKeeps ==
  ASSUME BankInv, NEW u \in Users, ClaimReward(u)
  PROVE  BankInv'
<1>1. /\ u \in Owners
      /\ bank' = [bank EXCEPT ![u] = AddSavingCoin(@, unclaimed[u], now)]
      /\ unclaimed' = [unclaimed EXCEPT ![u] = 0]
      /\ elsewhere' = elsewhere /\ now' = now
  BY DEF ClaimReward
<1>2. /\ now \in Nat /\ elsewhere \in Nat /\ Holds(bank, now) /\ Sound(bank[u], now)
      /\ Savings(bank) \in Int /\ u \in DOMAIN bank
      /\ IsFiniteSet(Owners) /\ unclaimed \in [Owners -> Nat] /\ unclaimed \in [Owners -> Int]
  BY <1>1, BankFacts DEF Owners
<1>3. PICK coin \in Nat : coin = unclaimed[u]
  BY <1>1, <1>2
<1>4. PICK a : a = AddSavingCoin(bank[u], coin, now)
  OBVIOUS
<1>5. Sound(a, now) /\ a.saving = bank[u].saving + coin
  BY <1>2, <1>4, Saved
<1>6. PICK c : c = Changed(bank, u, a)
  OBVIOUS
<1>7. /\ Holds(c, now) /\ DOMAIN c = DOMAIN bank
      /\ Savings(c) = Savings(bank) + (a.saving - bank[u].saving) /\ bank[u].saving \in Nat
  BY <1>2, <1>5, <1>6, OneAccount
<1>8. bank' = c
  BY <1>1, <1>3, <1>4, <1>6 DEF Changed
<1>9. PICK w : w = unclaimed'
  OBVIOUS
<1>10. /\ w \in [Owners -> Nat] /\ w \in [Owners -> Int] /\ w[u] = 0
       /\ \A v \in Owners : v # u => w[v] = unclaimed[v]
  BY <1>1, <1>2, <1>9
<1>11. SumFunction(w) = SumFunction(unclaimed) + (w[u] - unclaimed[u])
       /\ SumFunction(unclaimed) \in Int /\ SumFunction(w) \in Int
  BY <1>1, <1>2, <1>10, SumChanges
<1>12. Savings(c) + SumFunction(w) = Savings(bank) + SumFunction(unclaimed)
  BY <1>2, <1>3, <1>5, <1>7, <1>10, <1>11
<1>13. QED BY <1>1, <1>2, <1>7, <1>8, <1>9, <1>10, <1>12 DEF BankInv, Owners

LEMMA DonateKeeps ==
  ASSUME BankInv, NEW u \in Users, NEW v \in Users, NEW coin \in Amounts, Donate(u, v, coin)
  PROVE  BankInv'
<1>1. /\ u \in Owners /\ v \in Owners /\ u # v /\ CanSpend(bank[u], coin)
      /\ bank' = [bank EXCEPT
           ![u] = Update(MinusSavingCoinWithFullCoinDay(Update(@, now), coin, now), now),
           ![v] = AddSavingCoin(@, coin - Friction[coin], now)]
      /\ elsewhere' = elsewhere + Friction[coin]
      /\ unclaimed' = unclaimed /\ now' = now
  BY DEF Donate
<1>2. /\ now \in Nat /\ elsewhere \in Nat /\ Holds(bank, now) /\ Sound(bank[u], now)
      /\ SumFunction(unclaimed) \in Int
      /\ Savings(bank) \in Int /\ u \in DOMAIN bank /\ v \in DOMAIN bank
  BY <1>1, BankFacts DEF Owners
<1>3. coin \in Nat /\ coin <= bank[u].saving
  BY <1>1, <1>2, AmountIs, Spendable
<1>4. PICK lost \in Nat, rest \in Nat : lost = Friction[coin] /\ rest = coin - lost
  BY <1>3, AmountIs
<1>5. PICK x : x = Update(bank[u], now)
  OBVIOUS
<1>6. Sound(x, now) /\ x.saving = bank[u].saving
  <2>1. now <= now
    BY <1>2
  <2>2. QED BY <1>2, <1>5, <2>1, UpToDate
<1>7. PICK y : y = MinusSavingCoinWithFullCoinDay(x, coin, now)
  OBVIOUS
<1>8. Sound(y, now) /\ y.saving = x.saving - coin
  <2>1. coin <= x.saving
    BY <1>3, <1>6
  <2>2. QED BY <1>2, <1>3, <1>6, <1>7, <2>1, TakenCharged
<1>9. PICK a : a = Update(y, now)
  OBVIOUS
<1>10. Sound(a, now) /\ a.saving = bank[u].saving - coin
  <2>1. now <= now
    BY <1>2
  <2>2. QED BY <1>2, <1>6, <1>8, <1>9, <2>1, UpToDate
<1>11. PICK b : b = Changed(bank, u, a)
  OBVIOUS
<1>12. /\ Holds(b, now) /\ DOMAIN b = DOMAIN bank
       /\ Savings(b) = Savings(bank) + (a.saving - bank[u].saving) /\ bank[u].saving \in Nat
  <2>1. Holds(bank, now) /\ u \in DOMAIN bank /\ Sound(a, now)
    BY <1>2, <1>10
  <2>2. QED BY <1>11, <2>1, OneAccount
<1>13. Sound(b[v], now) /\ v \in DOMAIN b
  BY <1>2, <1>12 DEF Holds
<1>14. PICK d : d = AddSavingCoin(b[v], rest, now)
  OBVIOUS
<1>15. Sound(d, now) /\ d.saving = b[v].saving + rest
  BY <1>2, <1>13, <1>14, Saved
<1>16. PICK c : c = Changed(b, v, d)
  OBVIOUS
<1>17. /\ Holds(c, now) /\ DOMAIN c = DOMAIN b
       /\ Savings(c) = Savings(b) + (d.saving - b[v].saving) /\ b[v].saving \in Nat
  BY <1>12, <1>13, <1>15, <1>16, OneAccount
<1>18. bank' = c
  <2>1. bank' = [[bank EXCEPT ![u] = a] EXCEPT ![v] = AddSavingCoin(@, rest, now)]
    BY <1>1, <1>4, <1>5, <1>7, <1>9
  <2>2. QED BY <1>11, <1>14, <1>16, <2>1 DEF Changed
<1>19. Savings(c) + elsewhere' = Savings(bank) + elsewhere /\ elsewhere' \in Nat /\ Savings(c) \in Int
  BY <1>1, <1>2, <1>3, <1>4, <1>10, <1>12, <1>15, <1>17
<1>20. PICK S \in Int, T \in Int, e \in Nat, w \in Int :
         S = Savings(bank) /\ T = Savings(c) /\ e = elsewhere' /\ w = SumFunction(unclaimed)
  BY <1>2, <1>19
<1>21. T + w + e = SumFunction(Genesis) + GenesisElsewhere
  BY <1>2, <1>19, <1>20 DEF BankInv
<1>22. unclaimed' \in [Owners' -> Nat]
  BY <1>1, <1>12, <1>17, <1>18 DEF BankInv, Owners
<1>23. QED BY <1>1, <1>2, <1>17, <1>18, <1>20, <1>21, <1>22 DEF BankInv
LEMMA DepositKeeps ==
  ASSUME BankInv, NEW u \in Users, NEW coin \in Amounts, Deposit(u, coin)
  PROVE  BankInv'
<1>1. /\ u \in Owners /\ CanSpend(bank[u], coin)
      /\ bank' = [bank EXCEPT ![u] = MinusSavingCoin(@, coin, now)]
      /\ elsewhere' = elsewhere + coin
      /\ unclaimed' = unclaimed /\ now' = now
  BY DEF Deposit
<1>2. /\ now \in Nat /\ elsewhere \in Nat /\ Holds(bank, now) /\ Sound(bank[u], now)
      /\ SumFunction(unclaimed) \in Int /\ Savings(bank) \in Int /\ u \in DOMAIN bank
  BY <1>1, BankFacts DEF Owners
<1>3. coin \in Nat /\ coin <= bank[u].saving
  BY <1>1, <1>2, AmountIs, Spendable
<1>4. PICK a : a = MinusSavingCoin(bank[u], coin, now)
  OBVIOUS
<1>5. Sound(a, now) /\ a.saving = bank[u].saving - coin
  BY <1>2, <1>3, <1>4, Taken
<1>6. PICK c : c = Changed(bank, u, a)
  OBVIOUS
<1>7. /\ Holds(c, now) /\ DOMAIN c = DOMAIN bank
      /\ Savings(c) = Savings(bank) + (a.saving - bank[u].saving) /\ bank[u].saving \in Nat
  BY <1>2, <1>5, <1>6, OneAccount
<1>8. bank' = c
  BY <1>1, <1>4, <1>6 DEF Changed
<1>9. Savings(c) + elsewhere' = Savings(bank) + elsewhere /\ elsewhere' \in Nat /\ Savings(c) \in Int
  BY <1>1, <1>2, <1>3, <1>5, <1>7
<1>10. PICK S \in Int, T \in Int, e \in Nat, w \in Int :
         S = Savings(bank) /\ T = Savings(c) /\ e = elsewhere' /\ w = SumFunction(unclaimed)
  BY <1>2, <1>9
<1>11. T + w + e = SumFunction(Genesis) + GenesisElsewhere
  BY <1>2, <1>9, <1>10 DEF BankInv
<1>12. unclaimed' \in [Owners' -> Nat]
  BY <1>1, <1>7, <1>8 DEF BankInv, Owners
<1>13. QED BY <1>1, <1>2, <1>7, <1>8, <1>10, <1>11, <1>12 DEF BankInv

LEMMA ReturnKeeps ==
  ASSUME BankInv, NEW u \in Users, NEW coin \in Amounts, Return(u, coin)
  PROVE  BankInv'
<1>1. /\ u \in Owners /\ coin <= elsewhere
      /\ bank' = [bank EXCEPT ![u] = AddSavingCoin(@, coin, now)]
      /\ elsewhere' = elsewhere - coin
      /\ unclaimed' = unclaimed /\ now' = now
  BY DEF Return
<1>2. /\ now \in Nat /\ elsewhere \in Nat /\ Holds(bank, now) /\ Sound(bank[u], now)
      /\ SumFunction(unclaimed) \in Int /\ Savings(bank) \in Int /\ u \in DOMAIN bank
  BY <1>1, BankFacts DEF Owners
<1>3. coin \in Nat
  BY <1>1, <1>2, AmountIs
<1>4. PICK a : a = AddSavingCoin(bank[u], coin, now)
  OBVIOUS
<1>5. Sound(a, now) /\ a.saving = bank[u].saving + coin
  BY <1>2, <1>3, <1>4, Saved
<1>6. PICK c : c = Changed(bank, u, a)
  OBVIOUS
<1>7. /\ Holds(c, now) /\ DOMAIN c = DOMAIN bank
      /\ Savings(c) = Savings(bank) + (a.saving - bank[u].saving) /\ bank[u].saving \in Nat
  BY <1>2, <1>5, <1>6, OneAccount
<1>8. bank' = c
  BY <1>1, <1>4, <1>6 DEF Changed
<1>9. Savings(c) + elsewhere' = Savings(bank) + elsewhere /\ elsewhere' \in Nat /\ Savings(c) \in Int
  BY <1>1, <1>2, <1>3, <1>5, <1>7
<1>10. PICK S \in Int, T \in Int, e \in Nat, w \in Int :
         S = Savings(bank) /\ T = Savings(c) /\ e = elsewhere' /\ w = SumFunction(unclaimed)
  BY <1>2, <1>9
<1>11. T + w + e = SumFunction(Genesis) + GenesisElsewhere
  BY <1>2, <1>9, <1>10 DEF BankInv
<1>12. unclaimed' \in [Owners' -> Nat]
  BY <1>1, <1>7, <1>8 DEF BankInv, Owners
<1>13. QED BY <1>1, <1>2, <1>7, <1>8, <1>10, <1>11, <1>12 DEF BankInv

LEMMA RewardKeeps ==
  ASSUME BankInv, NEW u \in Users, NEW coin \in Amounts, Reward(u, coin)
  PROVE  BankInv'
<1>1. /\ u \in Owners /\ coin <= elsewhere
      /\ unclaimed' = [unclaimed EXCEPT ![u] = @ + coin]
      /\ elsewhere' = elsewhere - coin
      /\ bank' = bank /\ now' = now
  BY DEF Reward
<1>2. /\ elsewhere \in Nat /\ Savings(bank) \in Int /\ IsFiniteSet(Owners)
      /\ unclaimed \in [Owners -> Nat] /\ unclaimed \in [Owners -> Int]
  BY BankFacts
<1>3. coin \in Nat
  BY AmountIs
<1>4. PICK w : w = unclaimed'
  OBVIOUS
<1>5. /\ w \in [Owners -> Nat] /\ w \in [Owners -> Int] /\ w[u] = unclaimed[u] + coin
      /\ \A v \in Owners : v # u => w[v] = unclaimed[v]
  BY <1>1, <1>2, <1>3, <1>4
<1>6. SumFunction(w) = SumFunction(unclaimed) + (w[u] - unclaimed[u])
      /\ SumFunction(unclaimed) \in Int /\ SumFunction(w) \in Int
  BY <1>1, <1>2, <1>5, SumChanges
<1>7. unclaimed[u] \in Nat
  BY <1>1, <1>2
<1>8. SumFunction(w) + elsewhere' = SumFunction(unclaimed) + elsewhere /\ elsewhere' \in Nat
  BY <1>1, <1>2, <1>3, <1>5, <1>6, <1>7
<1>9. PICK S \in Int, x \in Int, y \in Int, e \in Nat :
        S = Savings(bank) /\ x = SumFunction(unclaimed) /\ y = SumFunction(w) /\ e = elsewhere'
  BY <1>2, <1>6, <1>8
<1>10. S + y + e = SumFunction(Genesis) + GenesisElsewhere
  BY <1>2, <1>8, <1>9 DEF BankInv
<1>11. w \in [Owners' -> Nat]
  BY <1>1, <1>5 DEF Owners
<1>12. QED BY <1>1, <1>4, <1>9, <1>10, <1>11 DEF BankInv

LEMMA ReadCoinDayKeeps ==
  ASSUME BankInv, NEW u \in Users, ReadCoinDay(u)
  PROVE  BankInv'
<1>1. /\ u \in Owners /\ bank' = [bank EXCEPT ![u] = Update(@, now)]
      /\ elsewhere' = elsewhere /\ unclaimed' = unclaimed /\ now' = now
  BY DEF ReadCoinDay
<1>2. /\ now \in Nat /\ Holds(bank, now) /\ Sound(bank[u], now)
      /\ Savings(bank) \in Int /\ u \in DOMAIN bank
  BY <1>1, BankFacts DEF Owners
<1>3. PICK a : a = Update(bank[u], now)
  OBVIOUS
<1>4. Sound(a, now) /\ a.saving = bank[u].saving
  <2>1. now <= now
    BY <1>2
  <2>2. QED BY <1>2, <1>3, <2>1, UpToDate
<1>5. PICK c : c = Changed(bank, u, a)
  OBVIOUS
<1>6. /\ Holds(c, now) /\ DOMAIN c = DOMAIN bank
      /\ Savings(c) = Savings(bank) + (a.saving - bank[u].saving) /\ bank[u].saving \in Nat
  BY <1>2, <1>4, <1>5, OneAccount
<1>7. bank' = c
  BY <1>1, <1>3, <1>5 DEF Changed
<1>8. Savings(c) = Savings(bank)
  BY <1>2, <1>4, <1>6
<1>9. QED BY <1>1, <1>6, <1>7, <1>8 DEF BankInv, Owners

LEMMA LaterBlockKeeps ==
  ASSUME BankInv, NEW t \in 0 .. MaxTime, LaterBlock(t)
  PROVE  BankInv'
<1>1. /\ now < t /\ now' = t /\ bank' = bank /\ unclaimed' = unclaimed /\ elsewhere' = elsewhere
  BY AccountAssumption, BankFacts DEF LaterBlock, Later
<1>2. now \in Nat /\ Holds(bank, now) /\ \A u \in Owners : Sound(bank[u], now)
  BY BankFacts
<1>3. t \in Nat /\ now <= t
  BY <1>1, <1>2, BankAssumption
<1>4. ASSUME NEW u \in Owners PROVE Sound(bank[u], t)
  <2>1. Sound(bank[u], now)
    BY <1>2
  <2>2. QED BY <1>2, <1>3, <2>1, SoundLater
<1>5. Holds(bank, t)
  BY <1>2, <1>4 DEF Holds, Owners
<1>6. QED BY <1>1, <1>3, <1>5 DEF BankInv, Owners

LEMMA BankSteps == BankInv /\ [BankNext]_bankVars => BankInv'
<1>1. SUFFICES ASSUME BankInv, [BankNext]_bankVars PROVE BankInv'
  OBVIOUS
<1>2. CASE UNCHANGED bankVars
  BY <1>1, <1>2 DEF bankVars, BankInv, Owners
<1>3. ASSUME NEW u \in Users, NEW coin \in Amounts, Deposit(u, coin) PROVE BankInv'
  BY <1>1, <1>3, DepositKeeps
<1>4. ASSUME NEW u \in Users, NEW coin \in Amounts, Return(u, coin) PROVE BankInv'
  BY <1>1, <1>4, ReturnKeeps
<1>5. ASSUME NEW u \in Users, NEW coin \in Amounts, Reward(u, coin) PROVE BankInv'
  BY <1>1, <1>5, RewardKeeps
<1>6. ASSUME NEW u \in Users, NEW v \in Users, NEW coin \in Amounts, Transfer(u, v, coin)
      PROVE  BankInv'
  BY <1>1, <1>6, TransferKeeps
<1>7. ASSUME NEW u \in Users, NEW v \in Users, NEW coin \in Amounts, Register(u, v, coin)
      PROVE  BankInv'
  BY <1>1, <1>7, RegisterKeeps
<1>8. ASSUME NEW u \in Users, NEW v \in Users, NEW coin \in Amounts, Donate(u, v, coin)
      PROVE  BankInv'
  BY <1>1, <1>8, DonateKeeps
<1>9. ASSUME NEW u \in Users, ClaimReward(u) PROVE BankInv'
  BY <1>1, <1>9, ClaimRewardKeeps
<1>10. ASSUME NEW u \in Users, ReadCoinDay(u) PROVE BankInv'
  BY <1>1, <1>10, ReadCoinDayKeeps
<1>11. ASSUME NEW t \in 0 .. MaxTime, LaterBlock(t) PROVE BankInv'
  BY <1>1, <1>11, LaterBlockKeeps
<1>12. QED
  BY <1>1, <1>2, <1>3, <1>4, <1>5, <1>6, <1>7, <1>8, <1>9, <1>10, <1>11 DEF BankNext, Operations

(* Every account is sound in every reachable state.                         *)
THEOREM BankInvariance == BankSpec => []BankInv
BY BankStarts, BankSteps, PTL DEF BankSpec

(* No sum of an account is ever negative, whatever is spent, donated,       *)
(* deposited or returned, and queues hold what arrived at the start of some *)
(* interval (AccountBank, PendingCoinDayQueue).                             *)
THEOREM BankTypeCorrect == BankSpec => []BankTypeOK
<1>1. BankInv => BankTypeOK
  <2>1. SUFFICES ASSUME BankInv PROVE BankTypeOK
    OBVIOUS
  <2>2. /\ now \in Nat /\ elsewhere \in Nat /\ unclaimed \in [Owners -> Nat]
        /\ \A u \in Owners : Sound(bank[u], now)
    BY <2>1, BankFacts
  <2>3. bank \in [Owners -> Banks] /\ DOMAIN Genesis \subseteq Owners
    BY <2>1 DEF BankInv, Holds, Owners
  <2>4. ASSUME NEW u \in Owners, NEW i \in DOMAIN bank[u].queue
        PROVE  bank[u].queue[i].start % Interval = 0
    <3>1. PICK q : q = bank[u].queue
      OBVIOUS
    <3>2. q \in Seq(Pending) /\ \A k \in 1 .. Len(q) : q[k].start % Interval = 0
      BY <2>2, <3>1 DEF Sound, Ordered
    <3>3. i \in 1 .. Len(q)
      BY <3>1, <3>2
    <3>4. QED BY <3>1, <3>2, <3>3
  <2>5. QED BY <2>2, <2>3, <2>4 DEF BankTypeOK
<1>2. QED BY <1>1, BankInvariance, PTL

(* The running totals of a queue, corrected by each operation on its own,   *)
(* are those of its entries, which stay in order (TotalCoin, TotalCoinDay). *)
THEOREM TotalsAgree == BankSpec => []QueueAgrees
<1>1. BankInv => QueueAgrees
  <2>1. SUFFICES ASSUME BankInv, NEW u \in Owners, NEW a, a = bank[u], NEW q, q = a.queue
                 PROVE  /\ a.total = Coins(q) /\ a.charged = Charge(q, a.updated)
                        /\ \A i \in DOMAIN q :
                             /\ q[i].coin > 0 /\ q[i].start <= a.updated
                             /\ a.updated < q[i].start + Recover
                             /\ \A j \in 1 .. i - 1 : q[j].start < q[i].start
    BY DEF QueueAgrees
  <2>2. Sound(a, now)
    BY <2>1, BankFacts
  <2>3. /\ a.total = Coins(q) /\ a.charged = Charge(q, a.updated) /\ Ordered(q, a.updated)
    BY <2>1, <2>2 DEF Sound
  <2>4. PICK n \in Nat : n = Len(q) /\ DOMAIN q = 1 .. n
    BY <2>3 DEF Ordered
  <2>5. ASSUME NEW i \in 1 .. n
        PROVE  /\ q[i].coin > 0 /\ q[i].start <= a.updated
               /\ a.updated < q[i].start + Recover
               /\ \A j \in 1 .. i - 1 : q[j].start < q[i].start
    <3>1. /\ q[i].coin > 0 /\ q[i].start <= a.updated /\ a.updated < q[i].start + Recover
      BY <2>3, <2>4 DEF Ordered
    <3>2. ASSUME NEW j \in 1 .. i - 1 PROVE q[j].start < q[i].start
      <4>1. j \in 1 .. n /\ j < i
        OBVIOUS
      <4>2. QED BY <2>3, <2>4, <4>1 DEF Ordered
    <3>3. QED BY <3>1, <3>2
  <2>6. QED BY <2>3, <2>4, <2>5
<1>2. QED BY <1>1, BankInvariance, PTL

(* No account weighs more than the coins it has, now and at any later time, *)
(* whatever left it before (GetCoinDay), and a donation weighs no more than *)
(* its coins and no less than nothing (handleDonateMsg).                    *)
THEOREM WeightBacked == BankSpec => []CoinDayBacked
<1>1. BankInv => CoinDayBacked
  <2>1. SUFFICES ASSUME BankInv, NEW u \in Owners, NEW a, a = bank[u]
                 PROVE  /\ a.coinDay + a.total <= a.saving
                        /\ \A t \in now .. MaxTime + Recover : CoinDay(Update(a, t)) <= a.saving
                        /\ \A coin \in Amounts :
                             CanSpend(a, coin) => Donated(a, coin, now) \in 0 .. coin
    BY DEF CoinDayBacked
  <2>2. Sound(a, now) /\ now \in Nat
    BY <2>1, BankFacts
  <2>3. ASSUME NEW t \in now .. MaxTime + Recover PROVE CoinDay(Update(a, t)) <= a.saving
    <3>1. t \in Nat /\ now <= t
      BY <2>2, BankAssumption
    <3>2. PICK b : b = Update(a, t)
      OBVIOUS
    <3>3. Sound(b, t) /\ b.saving = a.saving
      BY <2>2, <3>1, <3>2, UpToDate
    <3>4. CoinDay(b) <= b.saving
      BY <3>3, Backed
    <3>5. QED BY <3>2, <3>3, <3>4
  <2>4. a.coinDay + a.total <= a.saving
    BY <2>2 DEF Sound
  <2>5. ASSUME NEW coin \in Amounts, CanSpend(a, coin)
        PROVE  Donated(a, coin, now) \in 0 .. coin
    <3>1. coin \in Nat
      BY AmountIs
    <3>2. coin <= a.saving
      BY <2>2, <2>5, <3>1, Spendable
    <3>3. QED BY <2>2, <3>1, <3>2, DonationWeighs
  <2>6. QED BY <2>3, <2>4, <2>5
<1>2. QED BY <1>1, BankInvariance, PTL

(* No handler of an account creates or destroys a coin, a transfer to       *)
(* oneself and the friction of a donation included.                         *)
THEOREM SavingsConserved == BankSpec => []CoinsConserved
<1>1. BankInv => CoinsConserved
  BY DEF BankInv, CoinsConserved, Savings, Owners
<1>2. QED BY <1>1, BankInvariance, PTL
==============================================================================
