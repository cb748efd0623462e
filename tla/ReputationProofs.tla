--------------------------- MODULE ReputationProofs ---------------------------
(****************************************************************************)
(* Reputation, for any users, posts, stakes and parameters: the contract    *)
(* that settling late rests on (keys that are not settled are all of the    *)
(* last round their user donated in), the types, that every key was paid    *)
(* for, that the best posts of a round are the best, and that a post has    *)
(* the reputation its donors and reporters gave it; then that all this does *)
(* what Rounds says.  Before them: that the code's binary search buys the   *)
(* greatest number of keys there is, and what its sort makes of a list.     *)
(****************************************************************************)
EXTENDS Reputation, CoinsProofs, SequenceTheorems

(* The shape of what the store keeps: what scores, keys and powers come to, *)
(* sums all of them, does not matter here.                                  *)
UserFields == {"customer", "free", "settled", "donatedIn"}
RoundFields == {"result", "sumDp", "startAt", "topN", "post", "has"}

ShapedUser(m) ==
  /\ m = [f \in UserFields |-> m[f]]
  /\ m.settled \in Nat /\ m.donatedIn \in Nat
  /\ m.settled <= m.donatedIn

ShapedRound(r) ==
  /\ r = [f \in RoundFields |-> r[f]]
  /\ r.has = [u \in Users |-> r.has[u]]

IInv ==
  /\ DOMAIN user = Users
  /\ \A u \in Users : ShapedUser(user[u]) /\ user[u].donatedIn <= current
  /\ rounds \in Seq({rounds[n] : n \in DOMAIN rounds}) /\ current >= 1
  /\ \A n \in DOMAIN rounds : ShapedRound(rounds[n])
  /\ UnsettledInLastRound

(* Rounds are numbered from 1 without a gap.                                *)
LEMMA Numbers ==
  ASSUME IInv
  PROVE  current \in Nat /\ current >= 1 /\ DOMAIN rounds = 1 .. current
<1>1. rounds \in Seq({rounds[n] : n \in DOMAIN rounds}) /\ current >= 1
  BY DEF IInv
<1>2. current \in Nat /\ DOMAIN rounds = 1 .. current
  BY <1>1, LenProperties DEF current
<1> QED BY <1>1, <1>2

(* Any change of the current round is a change of a sequence.               *)
LEMMA CurrentReplaced ==
  ASSUME IInv, NEW e, rounds' = [rounds EXCEPT ![current] = e]
  PROVE  /\ rounds' \in Seq({rounds'[n] : n \in DOMAIN rounds'})
         /\ current' = current
         /\ DOMAIN rounds' = DOMAIN rounds
         /\ rounds'[current] = e
         /\ \A n \in DOMAIN rounds : n # current => rounds'[n] = rounds[n]
<1> DEFINE S == {rounds'[n] : n \in DOMAIN rounds'}
<1>1. current \in Nat /\ current >= 1 /\ DOMAIN rounds = 1 .. current
  BY Numbers
<1>2. DOMAIN rounds' = DOMAIN rounds
  OBVIOUS
<1>3. rounds' = [n \in 1 .. current |-> rounds'[n]]
  BY <1>1, <1>2
<1>4. \A n \in 1 .. current : rounds'[n] \in S
  BY <1>1, <1>2
<1>5. /\ [n \in 1 .. current |-> rounds'[n]] \in Seq(S)
      /\ Len([n \in 1 .. current |-> rounds'[n]]) = current
  BY <1>1, <1>4, IsASeq
<1>6. rounds' \in Seq(S) /\ current' = current
  BY <1>3, <1>5 DEF current
<1> QED BY <1>1, <1>2, <1>6

(* A donation adds keys of its user to the round, and no others (buyKey).   *)
LEMMA KeysOfDonor ==
  ASSUME NEW r, ShapedRound(r), NEW u, NEW p, NEW s, NEW dp
  PROVE  /\ ShapedRound(RoundWith(r, u, p, s, dp))
         /\ \A v \in Users \ {u} : RoundWith(r, u, p, s, dp).has[v] = r.has[v]
<1> DEFINE new == RoundWith(r, u, p, s, dp)
<1>1. PICK k, x, y, z :
        new = [[[[r EXCEPT !.has = [r.has EXCEPT ![u] = [r.has[u] EXCEPT ![p] = k]]]
                    EXCEPT !.post = x] EXCEPT !.topN = y] EXCEPT !.sumDp = z]
  BY Zenon DEF RoundWith
<1>2. new = [f \in RoundFields |-> new[f]]
  BY <1>1 DEF ShapedRound, RoundFields
<1>3. new.has = [r.has EXCEPT ![u] = [r.has[u] EXCEPT ![p] = k]]
  BY <1>1 DEF ShapedRound, RoundFields
<1> QED BY <1>2, <1>3 DEF ShapedRound

(* Settling changes a score and the last settled round, which becomes the   *)
(* last round with a donation or stays what it was.                         *)
LEMMA SettledShape ==
  ASSUME IInv, NEW u \in Users
  PROVE  /\ ShapedUser(Settled(u))
         /\ Settled(u).donatedIn = user[u].donatedIn
         /\ \/ Settled(u).settled = user[u].settled
            \/ Settled(u).settled = user[u].donatedIn
         /\ user[u].donatedIn < current =>
              Settled(u).settled = user[u].donatedIn
         /\ user[u].donatedIn = current =>
              Settled(u).settled = user[u].settled
<1>1. /\ ShapedUser(user[u]) /\ user[u].donatedIn <= current
      /\ current \in Nat
  BY Numbers DEF IInv
<1>2. CASE user[u].settled < user[u].donatedIn /\ user[u].donatedIn < current
  <2>1. PICK c : Settled(u) = [[user[u] EXCEPT !.customer = c]
                                  EXCEPT !.settled = user[u].donatedIn]
    BY <1>2, Zenon DEF Settled
  <2>2. /\ Settled(u) = [f \in UserFields |-> Settled(u)[f]]
        /\ Settled(u).settled = user[u].donatedIn
        /\ Settled(u).donatedIn = user[u].donatedIn
    <3>1. user[u] = [f \in UserFields |-> user[u][f]]
      BY <1>1 DEF ShapedUser
    <3> QED BY ONLY <2>1, <3>1 DEF UserFields
  <2>3. user[u].donatedIn \in Nat
    BY <1>1 DEF ShapedUser
  <2> QED BY <2>2, <2>3, <1>1, <1>2 DEF ShapedUser
<1>3. CASE ~(user[u].settled < user[u].donatedIn /\ user[u].donatedIn < current)
  <2>1. Settled(u) = user[u]
    BY <1>3, Zenon DEF Settled
  <2> QED BY <2>1, <1>1, <1>3 DEF ShapedUser
<1> QED BY <1>2, <1>3

(* Before a donation is written, whatever was not settled is of the current *)
(* round (DonateAt).                                                        *)
LEMMA DonateKeeps ==
  ASSUME IInv, NEW u \in Users, NEW p \in Posts, NEW s \in Nat,
         DonateAt(u, p, s)
  PROVE  IInv'
<1>1. /\ user' = [user EXCEPT ![u] = [Settled(u) EXCEPT !.donatedIn = current]]
      /\ \E dp : rounds' = [rounds EXCEPT ![current] =
                              RoundWith(rounds[current], u, p, s, dp)]
  BY Zenon DEF DonateAt
<1>2. PICK dp : rounds' = [rounds EXCEPT ![current] =
                             RoundWith(rounds[current], u, p, s, dp)]
  BY <1>1
<1>3. current \in Nat /\ current >= 1 /\ DOMAIN rounds = 1 .. current
  BY Numbers
<1>4. /\ rounds' \in Seq({rounds'[n] : n \in DOMAIN rounds'})
      /\ current' = current
      /\ DOMAIN rounds' = DOMAIN rounds
      /\ rounds'[current] = RoundWith(rounds[current], u, p, s, dp)
      /\ \A n \in DOMAIN rounds : n # current => rounds'[n] = rounds[n]
  BY <1>2, CurrentReplaced, Zenon
<1>5. /\ ShapedRound(rounds'[current])
      /\ \A v \in Users \ {u} :
           rounds'[current].has[v] = rounds[current].has[v]
  <2>1. ShapedRound(rounds[current])
    BY <1>3 DEF IInv
  <2> QED BY <2>1, <1>4, KeysOfDonor
<1>6. \A n \in DOMAIN rounds' : ShapedRound(rounds'[n])
  BY <1>4, <1>5 DEF IInv
<1>7. /\ DOMAIN user' = Users
      /\ \A v \in Users \ {u} : user'[v] = user[v]
      /\ user'[u] = [Settled(u) EXCEPT !.donatedIn = current]
  BY <1>1 DEF IInv
<1>8. /\ ShapedUser(Settled(u))
      /\ Settled(u).donatedIn = user[u].donatedIn
      /\ Settled(u).settled <= user[u].donatedIn
      /\ user[u].donatedIn < current => Settled(u).settled = user[u].donatedIn
      /\ user[u].donatedIn \in Nat /\ user[u].donatedIn <= current
  BY SettledShape DEF IInv, ShapedUser
<1>9. /\ ShapedUser(user'[u]) /\ user'[u].donatedIn = current
      /\ user'[u].settled = Settled(u).settled
  BY <1>3, <1>7, <1>8 DEF ShapedUser, UserFields
<1>10. \A v \in Users : ShapedUser(user'[v]) /\ user'[v].donatedIn <= current'
  <2> SUFFICES ASSUME NEW v \in Users
               PROVE  ShapedUser(user'[v]) /\ user'[v].donatedIn <= current
    BY <1>4
  <2>1. CASE v = u
    BY <2>1, <1>3, <1>9
  <2>2. CASE v # u
    BY <2>2, <1>7 DEF IInv
  <2> QED BY <2>1, <2>2
<1>11. UnsettledInLastRound'
  <2> SUFFICES ASSUME NEW v \in Users, NEW q \in Posts, NEW n \in DOMAIN rounds',
                      rounds'[n].has[v][q] # 0, n > user'[v].settled
               PROVE  n = user'[v].donatedIn
    BY DEF UnsettledInLastRound
  <2>1. CASE v # u
    <3>1. rounds'[n].has[v] = rounds[n].has[v]
      BY <2>1, <1>4, <1>5
    <3> QED BY <3>1, <2>1, <1>4, <1>7 DEF IInv, UnsettledInLastRound
  <2>2. CASE v = u /\ n # current
    <3>1. rounds[n].has[u][q] # 0 /\ n \in DOMAIN rounds
      BY <2>2, <1>4
    <3>2. n > user[u].settled => n = user[u].donatedIn
      BY <3>1 DEF IInv, UnsettledInLastRound
    <3>3. n > Settled(u).settled
      BY <2>2, <1>9
    <3>4. /\ n \in Nat /\ user[u].settled \in Nat
          /\ user[u].settled <= user[u].donatedIn
      BY <3>1, <1>3 DEF IInv, ShapedUser
    <3>5. CASE user[u].donatedIn < current
      <4>1. n > user[u].donatedIn
        BY <3>3, <3>5, <1>8
      <4> QED BY <4>1, <3>2, <3>4, <1>8
    <3>6. CASE user[u].donatedIn = current
      <4>1. Settled(u).settled = user[u].settled
        BY <3>6, SettledShape
      <4> QED BY <4>1, <3>2, <3>3, <3>6, <2>2
    <3> QED BY <3>5, <3>6, <1>3, <1>8
  <2> QED BY <2>1, <2>2, <1>9
<1> QED BY <1>3, <1>4, <1>6, <1>7, <1>10, <1>11 DEF IInv

(* A report reads the reputation, and settles it.                           *)
LEMMA ReportKeeps ==
  ASSUME IInv, NEW u \in Users, NEW p \in Posts, ReportOrUpvote(u, p)
  PROVE  IInv'
<1>1. rounds' = rounds /\ current' = current
  BY DEF ReportOrUpvote, current
<1>2. user' = [user EXCEPT ![u] = Settled(u)] \/ user' = user
  BY Zenon DEF ReportOrUpvote, ReportAt
<1>3. CASE user' = user
  BY <1>1, <1>3 DEF IInv, UnsettledInLastRound
<1>4. CASE user' = [user EXCEPT ![u] = Settled(u)]
  <2>1. /\ DOMAIN user' = Users
        /\ user'[u] = Settled(u)
        /\ \A v \in Users \ {u} : user'[v] = user[v]
    BY <1>4 DEF IInv
  <2>2. /\ ShapedUser(Settled(u))
        /\ Settled(u).donatedIn = user[u].donatedIn
        /\ \/ Settled(u).settled = user[u].settled
           \/ Settled(u).settled = user[u].donatedIn
    BY SettledShape
  <2>3. \A v \in Users : ShapedUser(user'[v]) /\ user'[v].donatedIn <= current
    <3> TAKE v \in Users
    <3>1. CASE v = u
      BY <3>1, <2>1, <2>2 DEF IInv
    <3>2. CASE v # u
      BY <3>2, <2>1 DEF IInv
    <3> QED BY <3>1, <3>2
  <2>4. \A n \in DOMAIN rounds :
          n > Settled(u).settled => n > user[u].settled
    BY <2>2, Numbers DEF IInv, ShapedUser
  <2>5. UnsettledInLastRound'
    BY <1>1, <2>1, <2>2, <2>4 DEF IInv, UnsettledInLastRound
  <2> QED BY <1>1, <2>1, <2>3, <2>5 DEF IInv
<1> QED BY <1>2, <1>3, <1>4

(* Stake changes the free score only.                                       *)
LEMMA StakeKeeps ==
  ASSUME IInv, NEW u \in Users, NEW amount,
         AddStake(u, amount) \/ MinusStake(u, amount)
  PROVE  IInv'
<1>1. rounds' = rounds /\ current' = current
  BY DEF AddStake, MinusStake, current
<1>2. ShapedUser(user[u]) /\ DOMAIN user = Users
  BY DEF IInv
<1>3. PICK m : /\ DOMAIN user' = Users
               /\ \A v \in Users \ {u} : user'[v] = user[v]
               /\ user'[u] = m
               /\ ShapedUser(m) /\ m.settled = user[u].settled /\ m.donatedIn = user[u].donatedIn
  <2>1. CASE AddStake(u, amount)
    <3>1. user' = user
      BY <2>1 DEF AddStake
    <3>2. QED BY <1>2, <3>1
  <2>2. CASE MinusStake(u, amount)
    <3>1. PICK f : user' = [user EXCEPT ![u] = [user[u] EXCEPT !.free = f]]
      BY <2>2, Zenon DEF MinusStake, OnStakeIn
    <3>2. /\ DOMAIN user' = Users
          /\ \A v \in Users \ {u} : user'[v] = user[v]
          /\ user'[u] = [user[u] EXCEPT !.free = f]
      BY <1>2, <3>1
    <3>3. /\ ShapedUser(user'[u]) /\ user'[u].settled = user[u].settled
          /\ user'[u].donatedIn = user[u].donatedIn
      BY <1>2, <3>2 DEF ShapedUser, UserFields
    <3>4. QED BY <3>2, <3>3
  <2>3. QED BY <2>1, <2>2
<1>4. DOMAIN user' = Users /\ \A v \in Users \ {u} : user'[v] = user[v]
  BY <1>3
<1>5. /\ ShapedUser(user'[u]) /\ user'[u].settled = user[u].settled
      /\ user'[u].donatedIn = user[u].donatedIn
  BY <1>3 DEF ShapedUser
<1>6. \A v \in Users : ShapedUser(user'[v]) /\ user'[v].donatedIn <= current
  <2> TAKE v \in Users
  <2>1. CASE v = u
    BY <2>1, <1>5 DEF IInv
  <2>2. CASE v # u
    BY <2>2, <1>4 DEF IInv
  <2> QED BY <2>1, <2>2
<1>7. UnsettledInLastRound'
  <2>1. \A v \in Users : /\ user'[v].settled = user[v].settled
                         /\ user'[v].donatedIn = user[v].donatedIn
    BY <1>4, <1>5
  <2>2. UnsettledInLastRound
    BY DEF IInv
  <2> QED BY <1>1, <2>1, <2>2 DEF UnsettledInLastRound
<1> QED BY <1>1, <1>3, <1>6, <1>7 DEF IInv

(* A new round has no keys, and nobody has donated in it.                   *)
LEMMA BlockKeeps ==
  ASSUME IInv, NEW t, EndBlock(t)
  PROVE  IInv'
<1>1. user' = user
  BY DEF EndBlock
<1>2. current \in Nat /\ current >= 1 /\ DOMAIN rounds = 1 .. current
  BY Numbers
<1>3. CASE rounds' = rounds
  BY <1>1, <1>3 DEF IInv, UnsettledInLastRound, current
<1>4. CASE rounds' # rounds
  <2>1. PICK res : rounds' = Append([rounds EXCEPT ![current] =
                                       [rounds[current] EXCEPT !.result = res]],
                                    NewRound(now))
    BY <1>4, Zenon DEF EndBlock, Update
  <2> DEFINE ended == [rounds EXCEPT ![current] =
                         [rounds[current] EXCEPT !.result = res]]
             S == {ended[n] : n \in 1 .. current} \cup {NewRound(now)}
  <2>2. ended \in Seq(S) /\ Len(ended) = current
    <3>1. ended = [n \in 1 .. current |-> ended[n]]
      BY <1>2
    <3>2. \A n \in 1 .. current : ended[n] \in S
      OBVIOUS
    <3>3. /\ [n \in 1 .. current |-> ended[n]] \in Seq(S)
          /\ Len([n \in 1 .. current |-> ended[n]]) = current
      BY ONLY <3>2, <1>2, IsASeq
    <3> HIDE DEF ended, S
    <3> QED BY <3>1, <3>3
  <2>3. NewRound(now) \in S
    OBVIOUS
  <2> HIDE DEF S
  <2>4. /\ Append(ended, NewRound(now)) \in Seq(S)
        /\ Len(Append(ended, NewRound(now))) = current + 1
        /\ \A n \in 1 .. current : Append(ended, NewRound(now))[n] = ended[n]
        /\ Append(ended, NewRound(now))[current + 1] = NewRound(now)
    <3> HIDE DEF ended
    <3> QED BY <2>2, <2>3, AppendProperties
  <2>5. /\ rounds' \in Seq(S) /\ current' = current + 1
        /\ DOMAIN rounds' = 1 .. current + 1
        /\ \A n \in 1 .. current : rounds'[n] = ended[n]
        /\ rounds'[current + 1] = NewRound(now)
    <3>1. rounds' \in Seq(S) /\ current' = current + 1
      BY <2>1, <2>4 DEF current
    <3>2. DOMAIN rounds' = 1 .. current + 1
      BY <3>1, LenProperties DEF current
    <3> QED BY <2>1, <2>4, <3>1, <3>2
  <2>6. rounds' \in Seq({rounds'[n] : n \in DOMAIN rounds'})
    <3> DEFINE T == {rounds'[n] : n \in DOMAIN rounds'}
    <3>1. rounds' = [n \in 1 .. current + 1 |-> rounds'[n]]
      BY <2>5, LenProperties DEF current
    <3>2. \A n \in 1 .. current + 1 : rounds'[n] \in T
      BY <2>5
    <3>3. [n \in 1 .. current + 1 |-> rounds'[n]] \in Seq(T)
      BY <3>2, <1>2, IsASeq
    <3> QED BY <3>1, <3>3
  <2>7. \A n \in 1 .. current : /\ ShapedRound(rounds'[n])
                                /\ rounds'[n].has = rounds[n].has
    <3>1. \A n \in 1 .. current : ShapedRound(rounds[n])
      BY <1>2 DEF IInv
    <3>2. \A n \in 1 .. current :
            ended[n] = IF n = current THEN [rounds[n] EXCEPT !.result = res]
                                      ELSE rounds[n]
      BY <1>2
    <3>3. ASSUME NEW r, ShapedRound(r)
          PROVE  /\ ShapedRound([r EXCEPT !.result = res])
                 /\ [r EXCEPT !.result = res].has = r.has
      BY <3>3 DEF ShapedRound, RoundFields
    <3> HIDE DEF ended
    <3> TAKE n \in 1 .. current
    <3>4. CASE n = current
      <4>1. rounds'[n] = [rounds[n] EXCEPT !.result = res]
        BY <3>2, <3>4, <2>5
      <4>2. ShapedRound(rounds[n])
        BY <3>1
      <4> QED BY ONLY <3>3, <4>1, <4>2
    <3>5. CASE n # current
      BY <3>1, <3>2, <3>5, <2>5
    <3> QED BY <3>4, <3>5
  <2>8. /\ ShapedRound(NewRound(now))
        /\ \A u \in Users, p \in Posts : NewRound(now).has[u][p] = 0
    BY DEF ShapedRound, RoundFields, NewRound
  <2>9. \A n \in DOMAIN rounds' : ShapedRound(rounds'[n])
    BY <2>5, <2>7, <2>8, <1>2
  <2>10. \A u \in Users : ShapedUser(user'[u]) /\ user'[u].donatedIn <= current'
    BY <1>1, <1>2, <2>5 DEF IInv, ShapedUser
  <2>11. UnsettledInLastRound'
    BY <1>1, <1>2, <2>5, <2>7, <2>8 DEF IInv, UnsettledInLastRound
  <2>12. DOMAIN user' = Users /\ current' >= 1
    BY <1>1, <1>2, <2>5 DEF IInv
  <2> QED BY <2>6, <2>9, <2>10, <2>11, <2>12 DEF IInv
<1> QED BY <1>3, <1>4

LEMMA InitIInv ==
  ASSUME Init
  PROVE  IInv
<1>1. rounds = <<NewRound(0)>> /\ current = 1 /\ DOMAIN rounds = {1}
  BY DEF Init, current
<1>2. /\ ShapedRound(NewRound(0))
      /\ \A u \in Users, p \in Posts : NewRound(0).has[u][p] = 0
  BY DEF ShapedRound, RoundFields, NewRound
<1>3. DOMAIN user = Users /\ \A u \in Users : user[u] = NewUser
  BY DEF Init
<1>4. ShapedUser(NewUser) /\ NewUser.donatedIn = 0
  BY DEF ShapedUser, UserFields, NewUser
<1>5. rounds \in Seq({rounds[n] : n \in DOMAIN rounds})
  BY <1>1
<1>6. UnsettledInLastRound
  BY <1>1, <1>2 DEF UnsettledInLastRound
<1> QED BY <1>1, <1>2, <1>3, <1>4, <1>5, <1>6 DEF IInv

(* No step breaks the invariant.                                            *)
LEMMA NextIInv ==
  ASSUME IInv, [Next]_vars
  PROVE  IInv'
<1>1. CASE UNCHANGED vars
  BY <1>1 DEF IInv, UnsettledInLastRound, vars, current
<1>2. ASSUME NEW d \in Donations, DonateAt(d[1], d[2], d[3])
      PROVE  IInv'
  <2>1. d[1] \in Users /\ d[2] \in Posts /\ d[3] \in Nat
    BY ReputationAssumption
  <2> QED BY <1>2, <2>1, DonateKeeps
<1>3. ASSUME NEW r \in Reports, ReportOrUpvote(r[1], r[2])
      PROVE  IInv'
  <2>1. r[1] \in Users /\ r[2] \in Posts
    BY ReputationAssumption
  <2> QED BY <1>3, <2>1, ReportKeeps
<1>4. ASSUME NEW l \in Locks, AddStake(l[1], l[2]) \/ MinusStake(l[1], l[2])
      PROVE  IInv'
  <2>1. l[1] \in Users
    BY ReputationAssumption
  <2> QED BY <1>4, <2>1, StakeKeeps
<1>5. ASSUME NEW t \in 0 .. MaxTime, EndBlock(t)
      PROVE  IInv'
  BY <1>5, BlockKeeps
<1> QED BY <1>1, <1>2, <1>3, <1>4, <1>5 DEF Next

(* Settling the last round settles everything: the contract that            *)
(* GetUserLastDonationRound states, and GetSettledCustomerScore relies on.  *)
THEOREM SettlingIsComplete == Spec => []UnsettledInLastRound
<1>1. Init => IInv
  BY InitIInv
<1>2. IInv /\ [Next]_vars => IInv'
  BY NextIInv
<1>3. IInv => UnsettledInLastRound
  BY DEF IInv
<1> QED BY <1>1, <1>2, <1>3, PTL DEF Spec
------------------------------------------------------------------------------
(****************************************************************************)
(* Keys: the search finds the greatest number that the stake pays.          *)
(****************************************************************************)
(* n + 1 keys cost no more than the stake.                                  *)
Paid(price, s, n) == (n + 1) * (2 * price + n) <= 2 * s

Ranges == (0 .. MaxKeys) \X (1 .. MaxKeys + 1)

Found(g, price, s, b, e) ==
  IF b + 1 < e
  THEN IF Paid(price, s, (b + e) \div 2) THEN g[<<(b + e) \div 2, e>>] ELSE g[<<b, (b + e) \div 2>>]
  ELSE b

SearchOf(g, price, s) == [range \in Ranges |-> Found(g, price, s, range[1], range[2])]

LEMMA Middle ==
  ASSUME NEW b \in Nat, NEW e \in Nat, b + 1 < e
  PROVE  /\ (b + e) \div 2 \in Nat
         /\ b < (b + e) \div 2 /\ (b + e) \div 2 < e
BY SMT

LEMMA SearchStep ==
  ASSUME NEW g, NEW price, NEW s, NEW b \in 0 .. MaxKeys, NEW e \in 1 .. MaxKeys + 1
  PROVE  SearchOf(g, price, s)[<<b, e>>] = Found(g, price, s, b, e)
BY DEF SearchOf, Ranges

Right(g, price, s, m) ==
  \A b \in 0 .. MaxKeys, e \in 1 .. MaxKeys + 1 :
    e - b <= m => g[<<b, e>>] = Found(g, price, s, b, e)

LEMMA SearchExists ==
  ASSUME NEW price, NEW s
  PROVE  \E g : g = SearchOf(g, price, s)
PROOF
<1>0. MaxKeys \in Nat
  BY ReputationAssumption
<1> DEFINE Good == {m \in 0 .. MaxKeys + 1 : \E g : Right(SearchOf(g, price, s), price, s, m)}
<1>1. 0 \in Good
  <2>0. PICK g : TRUE
    OBVIOUS
  <2>1. ASSUME NEW b \in 0 .. MaxKeys, NEW e \in 1 .. MaxKeys + 1, e - b <= 0
        PROVE  SearchOf(g, price, s)[<<b, e>>] = Found(SearchOf(g, price, s), price, s, b, e)
    <3>1. ~ (b + 1 < e)
      BY <1>0, <2>1
    <3>5. SearchOf(g, price, s)[<<b, e>>] = Found(g, price, s, b, e)
      BY SearchStep
    <3>2. SearchOf(g, price, s)[<<b, e>>] = b
      BY <3>1, <3>5, Zenon DEF Found
    <3>3. QED BY <3>1, <3>2 DEF Found
  <2>2. Right(SearchOf(g, price, s), price, s, 0)
    BY <2>1 DEF Right
  <2>3. QED BY <2>2, <1>0
<1>2. ASSUME NEW m \in 0 .. (MaxKeys + 1) - 1, m \in Good PROVE m + 1 \in Good
  <2>1. PICK f : Right(SearchOf(f, price, s), price, s, m)
    BY <1>2
  <2>2. PICK g : g = SearchOf(f, price, s)
    OBVIOUS
  <2>3. PICK h : h = SearchOf(g, price, s)
    OBVIOUS
  <2>4. ASSUME NEW b \in 0 .. MaxKeys, NEW e \in 1 .. MaxKeys + 1, e - b <= m
        PROVE  h[<<b, e>>] = g[<<b, e>>]
    BY <2>1, <2>2, <2>3, <2>4, SearchStep DEF Right
  <2>5. ASSUME NEW b \in 0 .. MaxKeys, NEW e \in 1 .. MaxKeys + 1, e - b <= m + 1
        PROVE  h[<<b, e>>] = Found(h, price, s, b, e)
    <3>1. h[<<b, e>>] = Found(g, price, s, b, e)
      BY <2>3, SearchStep
    <3>2. CASE b + 1 < e
      <4>1. PICK mid : mid = (b + e) \div 2
        OBVIOUS
      <4>2. mid \in Nat /\ b < mid /\ mid < e
        BY <4>1, <3>2, <1>0, Middle
      <4>3. mid \in 0 .. MaxKeys /\ mid \in 1 .. MaxKeys + 1 /\ e - mid <= m /\ mid - b <= m
        BY <4>2, <2>5, <1>0
      <4>4. h[<<mid, e>>] = g[<<mid, e>>] /\ h[<<b, mid>>] = g[<<b, mid>>]
        BY <4>3, <2>4
      <4>5. QED BY <4>4, <4>1, <3>1, <3>2 DEF Found
    <3>3. CASE ~ (b + 1 < e)
      BY <3>1, <3>3 DEF Found
    <3>4. QED BY <3>2, <3>3
  <2>6. Right(h, price, s, m + 1)
    BY <2>5 DEF Right
  <2>7. QED BY <2>6, <2>3, <1>0
<1>3. MaxKeys + 1 \in Good
  <2> HIDE DEF Good
  <2>1. MaxKeys + 1 \in Nat
    BY <1>0
  <2>2. QED BY <1>1, <1>2, <2>1, Upward
<1>4. PICK f : Right(SearchOf(f, price, s), price, s, MaxKeys + 1)
  BY <1>3
<1>5. PICK h : h = SearchOf(f, price, s)
  OBVIOUS
<1>6. ASSUME NEW b \in 0 .. MaxKeys, NEW e \in 1 .. MaxKeys + 1
      PROVE  h[<<b, e>>] = Found(h, price, s, b, e)
  <2>1. e - b <= MaxKeys + 1
    BY <1>0
  <2>2. QED BY <1>4, <1>5, <2>1 DEF Right
<1>7. h = SearchOf(h, price, s)
  BY <1>5, <1>6 DEF SearchOf, Ranges
<1>8. QED BY <1>7

(* What the search finds is in its range and is paid, and one more is not.  *)
Exact(price, s, b, e, k) ==
  /\ k \in b .. e - 1 /\ Paid(price, s, k)
  /\ k = MaxKeys \/ ~ Paid(price, s, k + 1)

LEMMA SearchFinds ==
  ASSUME NEW price, NEW s, NEW g, g = SearchOf(g, price, s),
         NEW b \in 0 .. MaxKeys, NEW e \in 1 .. MaxKeys + 1, b < e,
         Paid(price, s, b), e = MaxKeys + 1 \/ ~ Paid(price, s, e)
  PROVE  Exact(price, s, b, e, g[<<b, e>>])
PROOF
<1>0. MaxKeys \in Nat
  BY ReputationAssumption
<1> DEFINE Finds(c, d) ==
             c < d /\ Paid(price, s, c) /\ (d = MaxKeys + 1 \/ ~ Paid(price, s, d))
               => Exact(price, s, c, d, g[<<c, d>>])
           Good == {m \in 0 .. MaxKeys + 1 :
                      \A c \in 0 .. MaxKeys, d \in 1 .. MaxKeys + 1 :
                        d - c <= m => Finds(c, d)}
<1>1. 0 \in Good
  BY <1>0
<1>2. ASSUME NEW m \in 0 .. (MaxKeys + 1) - 1, m \in Good PROVE m + 1 \in Good
  <2>1. ASSUME NEW c \in 0 .. MaxKeys, NEW d \in 1 .. MaxKeys + 1, d - c <= m + 1,
               c < d, Paid(price, s, c), d = MaxKeys + 1 \/ ~ Paid(price, s, d)
        PROVE  Exact(price, s, c, d, g[<<c, d>>])
    <3>1. g[<<c, d>>] = Found(g, price, s, c, d)
      BY SearchStep
    <3>2. CASE c + 1 < d
      <4>1. PICK mid : mid = (c + d) \div 2
        OBVIOUS
      <4>2. mid \in Nat /\ c < mid /\ mid < d
        BY <4>1, <3>2, <1>0, Middle
      <4>3. mid \in 0 .. MaxKeys /\ mid \in 1 .. MaxKeys + 1 /\ d - mid <= m /\ mid - c <= m
        BY <4>2, <2>1, <1>0
      <4>4. Finds(mid, d) /\ Finds(c, mid)
        BY <1>2, <4>3
      <4>5. CASE Paid(price, s, mid)
        <5>1. g[<<c, d>>] = g[<<mid, d>>]
          BY <3>1, <3>2, <4>1, <4>5 DEF Found
        <5>2. PICK k : k = g[<<mid, d>>]
          OBVIOUS
        <5>3. Exact(price, s, mid, d, k)
          BY <4>2, <4>4, <4>5, <2>1, <5>2
        <5>4. Exact(price, s, c, d, k)
          BY <4>2, <5>3 DEF Exact
        <5>5. QED BY <5>1, <5>2, <5>4
      <4>6. CASE ~ Paid(price, s, mid)
        <5>1. g[<<c, d>>] = g[<<c, mid>>]
          BY <3>1, <3>2, <4>1, <4>6 DEF Found
        <5>2. PICK k : k = g[<<c, mid>>]
          OBVIOUS
        <5>3. Exact(price, s, c, mid, k)
          BY <4>2, <4>4, <4>6, <2>1, <5>2
        <5>4. Exact(price, s, c, d, k)
          BY <4>2, <5>3 DEF Exact
        <5>5. QED BY <5>1, <5>2, <5>4
      <4>7. QED BY <4>5, <4>6
    <3>3. CASE ~ (c + 1 < d)
      <4>1. d = c + 1
        BY <2>1, <3>3
      <4>2. g[<<c, d>>] = c
        BY <3>1, <3>3 DEF Found
      <4>3. Exact(price, s, c, d, c)
        <5>1. c \in c .. d - 1 /\ (d = MaxKeys + 1 => c = MaxKeys)
          BY <1>0, <4>1
        <5>2. c = MaxKeys \/ ~ Paid(price, s, c + 1)
          BY <2>1, <4>1, <5>1
        <5>3. QED BY <2>1, <5>1, <5>2 DEF Exact
      <4>4. QED BY <4>2, <4>3
    <3>4. QED BY <3>2, <3>3
  <2>2. QED BY <2>1, <1>0
<1>3. MaxKeys + 1 \in Good
  <2> HIDE DEF Good
  <2>1. MaxKeys + 1 \in Nat
    BY <1>0
  <2>2. QED BY <1>1, <1>2, <2>1, Upward
<1>4. e - b <= MaxKeys + 1
  BY <1>0
<1>5. Finds(b, e)
  BY <1>3, <1>4
<1>6. QED BY <1>5

(* A set of numbers that has with each all smaller ones from 1 on is        *)
(* counted by its greatest.                                                 *)
LEMMA CountsUp ==
  ASSUME NEW n \in Nat, NEW S \in SUBSET (1 .. n),
         \A i \in S : \A j \in 1 .. i : j \in S
  PROVE  Cardinality(S) \in 0 .. n /\ S = 1 .. Cardinality(S)
PROOF
<1> DEFINE T == (1 .. n + 1) \ S
<1>1. T \in SUBSET Nat /\ n + 1 \in T
  OBVIOUS
<1>2. PICK x \in T : \A y \in T : x <= y
  BY <1>1, LeastNatural
<1>3. S = 1 .. x - 1
  <2>1. ASSUME NEW i \in S PROVE i \in 1 .. x - 1
    <3>1. i \in 1 .. n /\ x \in 1 .. n + 1 /\ x \notin 1 .. i
      BY <2>1, <1>2
    <3>2. QED BY <3>1
  <2>2. ASSUME NEW i \in 1 .. x - 1 PROVE i \in S
    BY <1>2, <2>2
  <2>3. QED BY <2>1, <2>2
<1>4. Cardinality(S) = x - 1 /\ x - 1 \in 0 .. n
  <2>1. x \in 1 .. n + 1
    BY <1>2
  <2>2. Cardinality(1 .. x - 1) = x - 1
    BY <2>1, FS_Interval
  <2>3. QED BY <1>3, <2>1, <2>2
<1>5. QED BY <1>3, <1>4

(* numKeysCanBuy finds the greatest number of keys that the stake pays, or  *)
(* the most that are sold at once: wherever the common values start the     *)
(* search.                                                                  *)
Buys(price, s, k) ==
  /\ k \in 0 .. MaxKeys + 1
  /\ k * (2 * price + (k - 1)) <= 2 * s
  /\ k = MaxKeys + 1 \/ ~ ((k + 1) * (2 * price + k) <= 2 * s)

LEMMA KeysBought ==
  ASSUME NEW sold \in Nat, NEW s \in Nat
  PROVE  Buys(KeyPrice + sold, s, NumKeysCanBuy(sold, s))
PROOF
<1> DEFINE price == KeyPrice + sold
           paid == {i \in DOMAIN Guesses : \A j \in 1 .. i : Paid(price, s, Guesses[j])}
           first == Cardinality(paid)
           beg == IF first = 0 THEN 0 ELSE Guesses[first]
           end == IF first < Len(Guesses) THEN Guesses[first + 1] ELSE MaxKeys + 1
           search == CHOOSE g : g = SearchOf(g, price, s)
<1>1. NumKeysCanBuy(sold, s) = IF s < price THEN 0 ELSE search[<<beg, end>>] + 1
  BY DEF NumKeysCanBuy, SearchOf, Found, Ranges, Paid
<1>2. /\ MaxKeys \in Nat /\ KeyPrice \in Nat /\ price \in Nat
      /\ Guesses \in Seq(1 .. MaxKeys)
      /\ \A i \in 1 .. Len(Guesses) - 1 : Guesses[i] < Guesses[i + 1]
  BY ReputationAssumption
<1>3. PICK n \in Nat : n = Len(Guesses) /\ DOMAIN Guesses = 1 .. n
  BY <1>2
<1>4. \A i \in 1 .. n : Guesses[i] \in 1 .. MaxKeys
  BY <1>2, <1>3
<1>5. paid \in SUBSET (1 .. n) /\ \A i \in paid : \A j \in 1 .. i : j \in paid
  BY <1>3
<1>6. first \in 0 .. n /\ paid = 1 .. first
  <2> HIDE DEF paid
  <2>1. QED BY <1>5, CountsUp
<1>7. CASE s < price
  <2>1. NumKeysCanBuy(sold, s) = 0
    BY <1>1, <1>7
  <2>2. ~ ((0 + 1) * (2 * price + 0) <= 2 * s)
    BY <1>2, <1>7
  <2>3. 0 * (2 * price + (0 - 1)) <= 2 * s
    BY <1>2
  <2>4. Buys(price, s, 0)
    BY <1>2, <2>2, <2>3 DEF Buys
  <2>5. QED BY <2>1, <2>4
<1>8. CASE ~ (s < price)
  <2>1. Paid(price, s, 0)
    BY <1>2, <1>8 DEF Paid
  <2>2. beg \in 0 .. MaxKeys /\ Paid(price, s, beg)
    <3>1. CASE first = 0
      BY <1>2, <2>1, <3>1
    <3>2. CASE first # 0
      <4>1. first \in 1 .. n /\ first \in paid /\ first \in 1 .. first
        BY <1>6, <3>2
      <4>2. Paid(price, s, Guesses[first])
        BY <4>1
      <4>3. QED BY <1>2, <1>4, <3>2, <4>1, <4>2
    <3>3. QED BY <3>1, <3>2
  <2>3. /\ end \in 1 .. MaxKeys + 1 /\ beg < end
        /\ end = MaxKeys + 1 \/ ~ Paid(price, s, end)
    <3>1. CASE first < n
      <4>1. end = Guesses[first + 1] /\ first + 1 \in 1 .. n
        BY <1>3, <1>6, <3>1
      <4>2. first + 1 \notin paid
        <5> HIDE DEF paid
        <5>1. QED BY <1>6
      <4>3. \A j \in 1 .. first : Paid(price, s, Guesses[j])
        <5>1. ASSUME NEW j \in 1 .. first PROVE Paid(price, s, Guesses[j])
          <6>1. j \in paid /\ j \in 1 .. j
            BY <1>6, <5>1
          <6>2. QED BY <6>1
        <5>2. QED BY <5>1
      <4>4. ~ Paid(price, s, Guesses[first + 1])
        <5>1. ASSUME Paid(price, s, Guesses[first + 1]) PROVE FALSE
          <6>1. \A j \in 1 .. first + 1 : j \in 1 .. first \/ j = first + 1
            BY <1>6
          <6>2. \A j \in 1 .. first + 1 : Paid(price, s, Guesses[j])
            BY <4>3, <5>1, <6>1
          <6>3. first + 1 \in paid
            BY <1>3, <4>1, <6>2
          <6>4. QED BY <4>2, <6>3
        <5>2. QED BY <5>1
      <4>5. Guesses[first + 1] \in 1 .. MaxKeys
        BY <1>4, <4>1
      <4>6. beg < Guesses[first + 1]
        <5>1. CASE first = 0
          BY <4>5, <5>1
        <5>2. CASE first # 0
          <6>1. first \in 1 .. Len(Guesses) - 1 /\ beg = Guesses[first]
            BY <1>3, <1>6, <3>1, <5>2
          <6>2. QED BY <1>2, <6>1
        <5>3. QED BY <5>1, <5>2
      <4> HIDE DEF end, beg
      <4>7. QED BY <1>2, <4>1, <4>4, <4>5, <4>6
    <3>2. CASE ~ (first < n)
      <4>1. end = MaxKeys + 1
        BY <1>3, <3>2
      <4> HIDE DEF end, beg
      <4>2. QED BY <1>2, <2>2, <4>1
    <3>3. QED BY <3>1, <3>2
  <2>4. search = SearchOf(search, price, s)
    BY SearchExists
  <2> HIDE DEF search, beg, end
  <2>5. Exact(price, s, beg, end, search[<<beg, end>>])
    BY <2>2, <2>3, <2>4, SearchFinds
  <2>6. PICK k : k = search[<<beg, end>>]
    OBVIOUS
  <2>7. /\ k \in 0 .. MaxKeys /\ Paid(price, s, k)
        /\ k = MaxKeys \/ ~ Paid(price, s, k + 1)
    BY <1>2, <2>2, <2>3, <2>5, <2>6 DEF Exact
  <2>8. NumKeysCanBuy(sold, s) = k + 1
    BY <1>1, <1>8, <2>6
  <2>9. Buys(price, s, k + 1)
    <3>1. k + 1 \in 0 .. MaxKeys + 1 /\ k \in Int /\ (k + 1) - 1 = k
      BY <2>7, <1>2
    <3>2. (k + 1) * (2 * price + ((k + 1) - 1)) <= 2 * s
      BY <2>7, <3>1 DEF Paid
    <3>3. k + 1 = MaxKeys + 1 \/ ~ ((k + 1 + 1) * (2 * price + (k + 1)) <= 2 * s)
      BY <2>7 DEF Paid
    <3>4. QED BY <3>1, <3>2, <3>3 DEF Buys
  <2>10. QED BY <2>8, <2>9
<1>9. QED BY <1>7, <1>8
------------------------------------------------------------------------------
(****************************************************************************)
(* The best posts of a round.                                               *)
(****************************************************************************)
Entry == [post : Posts, dp : Nat]

(* Those before an entry in the sorted list.                                *)
Before(top, i) ==
  {j \in DOMAIN top : \/ top[j].dp > top[i].dp
                      \/ top[j].dp = top[i].dp /\ j < i}

Rank(top, i) == Cardinality(Before(top, i))

AtRank(top, n) == CHOOSE i \in DOMAIN top : Rank(top, i) = n - 1

LEMMA SortedIs ==
  ASSUME NEW top
  PROVE  SortedTop(top) = [n \in DOMAIN top |-> top[AtRank(top, n)]]
PROOF BY DEF SortedTop, AtRank, Rank, Before

(* Of two entries one is before the other, and so is all that is before it. *)
LEMMA RanksDiffer ==
  ASSUME NEW N \in Nat, NEW top, DOMAIN top = 1 .. N, \A k \in 1 .. N : top[k].dp \in Nat,
         NEW i \in 1 .. N, NEW j \in 1 .. N, i \in Before(top, j)
  PROVE  Rank(top, i) < Rank(top, j)
PROOF
<1>1. Before(top, j) \in SUBSET (1 .. N) /\ IsFiniteSet(1 .. N)
  BY FS_Interval DEF Before
<1>2. IsFiniteSet(Before(top, j))
  BY <1>1, FS_Subset
<1>3. i \notin Before(top, i)
  BY DEF Before
<1>4. Before(top, i) \in SUBSET Before(top, j)
  BY DEF Before
<1>5. Before(top, i) # Before(top, j)
  BY <1>3
<1>6. /\ Cardinality(Before(top, i)) <= Cardinality(Before(top, j))
      /\ Cardinality(Before(top, i)) # Cardinality(Before(top, j))
      /\ IsFiniteSet(Before(top, i))
  BY <1>2, <1>4, <1>5, FS_Subset
<1>7. Cardinality(Before(top, i)) \in Nat /\ Cardinality(Before(top, j)) \in Nat
  BY <1>2, <1>6, FS_CardinalityType
<1>8. QED BY <1>6, <1>7 DEF Rank

LEMMA RankRange ==
  ASSUME NEW N \in Nat, NEW top, DOMAIN top = 1 .. N, NEW i \in 1 .. N, top[i].dp \in Nat
  PROVE  Rank(top, i) \in 0 .. N - 1
PROOF
<1>1. Before(top, i) \in SUBSET ((1 .. N) \ {i})
  BY DEF Before
<1>2. IsFiniteSet((1 .. N) \ {i}) /\ Cardinality((1 .. N) \ {i}) = N - 1
  <2>1. IsFiniteSet(1 .. N) /\ Cardinality(1 .. N) = N
    BY FS_Interval
  <2>2. PICK S : S = 1 .. N
    OBVIOUS
  <2>3. i \in S /\ IsFiniteSet(S) /\ Cardinality(S) = N
    BY <2>1, <2>2
  <2>4. IsFiniteSet(S \ {i}) /\ Cardinality(S \ {i}) = N - 1
    BY <2>3, FS_RemoveElement
  <2>5. QED BY <2>2, <2>4
<1>3. IsFiniteSet(Before(top, i)) /\ Cardinality(Before(top, i)) <= N - 1
  BY <1>1, <1>2, FS_Subset
<1>4. Cardinality(Before(top, i)) \in Nat
  BY <1>3, FS_CardinalityType
<1>5. QED BY <1>3, <1>4 DEF Rank

(* Every rank is somebody's.                                                *)
LEMMA RankTaken ==
  ASSUME NEW N \in Nat, NEW top, DOMAIN top = 1 .. N, \A k \in 1 .. N : top[k].dp \in Nat,
         NEW n \in 1 .. N
  PROVE  AtRank(top, n) \in 1 .. N /\ Rank(top, AtRank(top, n)) = n - 1
PROOF
<1> DEFINE S == 1 .. N
           T == 0 .. N - 1
           f == [i \in S |-> Rank(top, i)]
<1>1. \A i \in S : Rank(top, i) \in T
  BY RankRange
<1>2. ASSUME NEW i \in S, NEW j \in S, i # j
      PROVE  Rank(top, i) # Rank(top, j)
  <2>1. i \in Before(top, j) \/ j \in Before(top, i)
    <3>1. top[i].dp \in Nat /\ top[j].dp \in Nat
      OBVIOUS
    <3>2. QED BY <1>2, <3>1 DEF Before
  <2>2. Rank(top, i) < Rank(top, j) \/ Rank(top, j) < Rank(top, i)
    BY <2>1, RanksDiffer
  <2>3. Rank(top, i) \in Nat /\ Rank(top, j) \in Nat
    BY <1>1
  <2>4. QED BY <2>2, <2>3
<1>3. f \in Injection(S, T)
  BY <1>1, <1>2 DEF Injection, IsInjective
<1>4. IsFiniteSet(S) /\ IsFiniteSet(T) /\ Cardinality(S) = Cardinality(T)
  BY FS_Interval
<1>5. f \in Surjection(S, T)
  <2> HIDE DEF f, S, T
  <2>1. QED BY <1>3, <1>4, FS_Injection
<1>6. n - 1 \in T
  OBVIOUS
<1>7. \E i \in S : f[i] = n - 1
  BY <1>5, <1>6 DEF Surjection
<1>8. \E i \in DOMAIN top : Rank(top, i) = n - 1
  BY <1>7
<1>9. AtRank(top, n) \in DOMAIN top /\ Rank(top, AtRank(top, n)) = n - 1
  BY <1>8 DEF AtRank
<1>10. QED BY <1>9

(* Sorting a list puts every entry of it somewhere, no two places have the  *)
(* same, and none is behind a weaker one.                                   *)
LEMMA Sorts ==
  ASSUME NEW N \in Nat, NEW top, DOMAIN top = 1 .. N, \A k \in 1 .. N : top[k].dp \in Nat
  PROVE  /\ DOMAIN SortedTop(top) = 1 .. N
         /\ SortedTop(top) = [n \in 1 .. N |-> top[AtRank(top, n)]]
         /\ \A n \in 1 .. N : AtRank(top, n) \in 1 .. N
         /\ \A m, n \in 1 .. N : m # n => AtRank(top, m) # AtRank(top, n)
         /\ \A m, n \in 1 .. N : m < n => top[AtRank(top, m)].dp >= top[AtRank(top, n)].dp
         /\ \A i \in 1 .. N : \E n \in 1 .. N : AtRank(top, n) = i
PROOF
<1>1. SortedTop(top) = [n \in 1 .. N |-> top[AtRank(top, n)]]
  BY SortedIs
<1>2. \A n \in 1 .. N : AtRank(top, n) \in 1 .. N /\ Rank(top, AtRank(top, n)) = n - 1
  BY RankTaken
<1>3. \A m, n \in 1 .. N : m # n => AtRank(top, m) # AtRank(top, n)
  BY <1>2
<1>4. ASSUME NEW m \in 1 .. N, NEW n \in 1 .. N, m < n
      PROVE  top[AtRank(top, m)].dp >= top[AtRank(top, n)].dp
  <2>1. PICK i \in 1 .. N : i = AtRank(top, m) /\ Rank(top, i) = m - 1
    BY <1>2
  <2>2. PICK j \in 1 .. N : j = AtRank(top, n) /\ Rank(top, j) = n - 1
    BY <1>2
  <2>3. ASSUME top[j].dp > top[i].dp PROVE FALSE
    <3>1. j \in Before(top, i)
      BY <2>3 DEF Before
    <3>2. Rank(top, j) < Rank(top, i)
      BY <3>1, RanksDiffer
    <3>3. QED BY <1>4, <2>1, <2>2, <3>2
  <2>4. top[i].dp \in Nat /\ top[j].dp \in Nat
    OBVIOUS
  <2>5. QED BY <2>1, <2>2, <2>3, <2>4
<1>5. ASSUME NEW i \in 1 .. N PROVE \E n \in 1 .. N : AtRank(top, n) = i
  <2>1. Rank(top, i) \in 0 .. N - 1
    BY RankRange
  <2>2. PICK n \in 1 .. N : n - 1 = Rank(top, i)
    <3>1. Rank(top, i) + 1 \in 1 .. N /\ (Rank(top, i) + 1) - 1 = Rank(top, i)
      BY <2>1
    <3>2. QED BY <3>1
  <2>3. PICK j \in 1 .. N : j = AtRank(top, n) /\ Rank(top, j) = n - 1
    BY <1>2
  <2>4. ASSUME i # j PROVE FALSE
    <3>1. i \in Before(top, j) \/ j \in Before(top, i)
      <4>1. top[i].dp \in Nat /\ top[j].dp \in Nat
        OBVIOUS
      <4>2. QED BY <2>4, <4>1 DEF Before
    <3>2. Rank(top, i) < Rank(top, j) \/ Rank(top, j) < Rank(top, i)
      BY <3>1, RanksDiffer
    <3>3. QED BY <2>1, <2>2, <2>3, <3>2
  <2>5. QED BY <2>3, <2>4
<1>6. QED BY <1>1, <1>2, <1>3, <1>4, <1>5

(* The best posts of a round: the entries repeat the donation power of      *)
(* their posts, the greatest first and each post once, and a post with      *)
(* power that is not listed has no more than any of a full list.            *)
Listed(top, p) == \E i \in 1 .. Len(top) : top[i].post = p

Tops(top, D) ==
  /\ top \in Seq(Entry) /\ Len(top) <= Best
  /\ \A i \in 1 .. Len(top) : top[i].dp = D[top[i].post]
  /\ \A i, j \in 1 .. Len(top) : i < j => top[i].dp >= top[j].dp /\ top[i].post # top[j].post
  /\ \A q \in Posts : D[q] > 0 /\ ~ Listed(top, q) =>
       Len(top) = Best /\ \A i \in 1 .. Len(top) : top[i].dp >= D[q]

(* The entries before they are sorted: those there were, and the post's.    *)
Gathered(all, N, top, p, E) ==
  /\ DOMAIN all = 1 .. N
  /\ \A k \in 1 .. N : all[k] \in Entry /\ all[k].dp = E[all[k].post]
  /\ \A k, l \in 1 .. N : k # l => all[k].post # all[l].post
  /\ \A i \in 1 .. Len(top) : \E k \in 1 .. N : all[k].post = top[i].post
  /\ \E k \in 1 .. N : all[k].post = p
  /\ \A k \in 1 .. N : all[k].post = p \/ Listed(top, all[k].post)
  /\ N = IF Listed(top, p) THEN Len(top) ELSE Len(top) + 1

AllWith(top, p, dp) ==
  IF {i \in DOMAIN top : top[i].post = p} = {}
  THEN Append(top, [post |-> p, dp |-> dp])
  ELSE [i \in DOMAIN top |-> IF i \in {j \in DOMAIN top : top[j].post = p}
                             THEN [post |-> p, dp |-> dp] ELSE top[i]]

LEMMA Gathers ==
  ASSUME NEW D \in [Posts -> Nat], NEW top, Tops(top, D), NEW p \in Posts, NEW dp \in Nat,
         NEW E, E = [D EXCEPT ![p] = dp]
  PROVE  /\ AllWith(top, p, dp) \in Seq(Entry)
         /\ Gathered(AllWith(top, p, dp), Len(AllWith(top, p, dp)), top, p, E)
PROOF
<1> DEFINE all == AllWith(top, p, dp)
           entry == [post |-> p, dp |-> dp]
           at == {i \in DOMAIN top : top[i].post = p}
<1>1. PICK n \in Nat : n = Len(top) /\ DOMAIN top = 1 .. n /\ top \in [1 .. n -> Entry]
  BY DEF Tops
<1>2. /\ entry \in Entry /\ entry.post = p /\ entry.dp = dp
      /\ E[p] = dp /\ \A q \in Posts : q # p => E[q] = D[q]
  BY DEF Entry
<1>3. \A i \in 1 .. n : top[i] \in Entry /\ top[i].post \in Posts /\ top[i].dp = D[top[i].post]
  <2>1. ASSUME NEW i \in 1 .. n PROVE top[i] \in Entry
    BY <1>1
  <2>2. \A i \in 1 .. n : top[i].dp = D[top[i].post]
    BY <1>1 DEF Tops
  <2>3. \A x \in Entry : x.post \in Posts
    BY DEF Entry
  <2>4. QED BY <2>1, <2>2, <2>3
<1>4. \A i, j \in 1 .. n : i # j => top[i].post # top[j].post
  <2>1. \A i, j \in 1 .. n : i < j => top[i].post # top[j].post
    BY <1>1 DEF Tops
  <2>2. QED BY <2>1
<1> HIDE DEF entry
<1>5. CASE at = {}
  <2>1. all = Append(top, entry)
    BY <1>5 DEF AllWith, entry
  <2>2. /\ all \in Seq(Entry) /\ Len(all) = n + 1
        /\ \A i \in 1 .. n : all[i] = top[i]
        /\ all[n + 1] = entry
    BY <2>1, <1>1, <1>2, AppendProperties DEF Tops
  <2>3. DOMAIN all = 1 .. n + 1
    BY <2>2
  <2> HIDE DEF all
  <2>4. \A i \in 1 .. n : top[i].post # p
    BY <1>1, <1>5
  <2>5. \A k \in 1 .. n + 1 : k \in 1 .. n \/ k = n + 1
    BY <1>1
  <2>6. ASSUME NEW k \in 1 .. n + 1
        PROVE  /\ all[k] \in Entry /\ all[k].dp = E[all[k].post]
               /\ all[k].post = p \/ Listed(top, all[k].post)
    <3>1. CASE k \in 1 .. n
      BY <3>1, <2>2, <2>4, <1>1, <1>2, <1>3 DEF Listed
    <3>2. CASE k = n + 1
      BY <3>2, <2>2, <1>2
    <3>3. QED BY <3>1, <3>2, <2>5
  <2>7. ASSUME NEW k \in 1 .. n + 1, NEW l \in 1 .. n + 1, k # l
        PROVE  all[k].post # all[l].post
    <3>1. CASE k \in 1 .. n /\ l \in 1 .. n
      BY <3>1, <2>2, <2>7, <1>4
    <3>2. CASE k = n + 1 /\ l \in 1 .. n
      BY <3>2, <2>2, <2>4, <1>2
    <3>3. CASE l = n + 1 /\ k \in 1 .. n
      BY <3>3, <2>2, <2>4, <1>2
    <3>4. QED BY <3>1, <3>2, <3>3, <2>5, <2>7
  <2>8. \A i \in 1 .. Len(top) : \E k \in 1 .. n + 1 : all[k].post = top[i].post
    <3>1. ASSUME NEW i \in 1 .. n PROVE \E k \in 1 .. n + 1 : all[k].post = top[i].post
      <4>1. i \in 1 .. n + 1
        OBVIOUS
      <4>2. QED BY <4>1, <2>2
    <3>2. QED BY <3>1, <1>1
  <2>9. n + 1 \in 1 .. n + 1 /\ all[n + 1].post = p
    BY <2>2, <1>1, <1>2
  <2>10. n + 1 = IF Listed(top, p) THEN Len(top) ELSE Len(top) + 1
    BY <2>4, <1>1 DEF Listed
  <2>11. Gathered(all, n + 1, top, p, E)
    BY <2>3, <2>6, <2>7, <2>8, <2>9, <2>10 DEF Gathered
  <2>12. QED BY <2>2, <2>11 DEF all
<1>6. CASE at # {}
  <2>1. PICK at0 \in 1 .. n : top[at0].post = p
    BY <1>1, <1>6
  <2>2. all = [i \in 1 .. n |-> IF top[i].post = p THEN entry ELSE top[i]]
    <3>1. all = [i \in DOMAIN top |-> IF i \in at THEN entry ELSE top[i]]
      BY <1>6 DEF AllWith, entry
    <3>2. \A i \in 1 .. n : i \in at <=> top[i].post = p
      BY <1>1
    <3> HIDE DEF all, at
    <3>3. QED BY <3>1, <3>2, <1>1
  <2>3. /\ DOMAIN all = 1 .. n
        /\ \A k \in 1 .. n : all[k] = IF top[k].post = p THEN entry ELSE top[k]
    BY <2>2
  <2>4. \A k \in 1 .. n : all[k] \in Entry /\ all[k].post = top[k].post
    BY <2>3, <1>2, <1>3
  <2>5. all \in Seq(Entry) /\ Len(all) = n
    <3>1. all = [k \in 1 .. n |-> all[k]]
      BY <2>2, <2>3
    <3> HIDE DEF all
    <3>2. [k \in 1 .. n |-> all[k]] \in Seq(Entry) /\ Len([k \in 1 .. n |-> all[k]]) = n
      BY <2>4, <1>1, IsASeq
    <3>3. QED BY <3>1, <3>2
  <2> HIDE DEF all
  <2>6. \A k \in 1 .. n : all[k].dp = E[all[k].post]
    BY <2>3, <2>4, <1>2, <1>3
  <2>7. \A k, l \in 1 .. n : k # l => all[k].post # all[l].post
    BY <2>4, <1>4
  <2>8. \A k \in 1 .. n : Listed(top, all[k].post)
    BY <2>4, <1>1 DEF Listed
  <2>9. \A i \in 1 .. Len(top) : \E k \in 1 .. n : all[k].post = top[i].post
    BY <2>4, <1>1
  <2>10. \E k \in 1 .. n : all[k].post = p
    BY <2>1, <2>4
  <2>11. Gathered(all, n, top, p, E)
    <3>1. DOMAIN all = 1 .. n /\ n = Len(top)
      BY <2>3, <1>1
    <3>2. \A k \in 1 .. n : all[k] \in Entry /\ all[k].dp = E[all[k].post]
      BY <2>4, <2>6
    <3>3. Listed(top, p)
      BY <2>1, <1>1 DEF Listed
    <3>4. n = IF Listed(top, p) THEN Len(top) ELSE Len(top) + 1
      BY <3>1, <3>3
    <3>5. \A k \in 1 .. n : all[k].post = p \/ Listed(top, all[k].post)
      BY <2>8
    <3>6. QED BY <3>1, <3>2, <3>4, <3>5, <2>7, <2>9, <2>10, Zenon DEF Gathered
  <2>12. QED BY <2>5, <2>11 DEF all
<1>7. QED BY <1>5, <1>6

(* SetRoundPostSumDp keeps the best posts the best.                         *)
LEMMA TopKept ==
  ASSUME NEW D \in [Posts -> Nat], NEW top, Tops(top, D), NEW p \in Posts,
         NEW dp \in Nat, dp >= D[p], NEW E, E = [D EXCEPT ![p] = dp]
  PROVE  Tops(TopWith(top, p, dp), E)
PROOF
<1>0. Best \in Nat \ {0}
  BY ReputationAssumption
<1>1. PICK all : all = AllWith(top, p, dp)
  OBVIOUS
<1>2. TopWith(top, p, dp) = SubSeq(SortedTop(all), 1, Least(Best, Len(SortedTop(all))))
  BY <1>1, Zenon DEF TopWith, AllWith
<1>3. PICK N \in Nat : /\ N = Len(all) /\ all \in [1 .. N -> Entry]
                       /\ Gathered(all, N, top, p, E)
  <2>1. all \in Seq(Entry) /\ Gathered(all, Len(all), top, p, E)
    BY <1>1, Gathers
  <2>2. Len(all) \in Nat /\ all \in [1 .. Len(all) -> Entry]
    BY <2>1
  <2>3. QED BY <2>1, <2>2
<1>4. /\ DOMAIN all = 1 .. N
      /\ \A k \in 1 .. N : all[k] \in Entry /\ all[k].dp = E[all[k].post]
      /\ \A k, l \in 1 .. N : k # l => all[k].post # all[l].post
      /\ \A i \in 1 .. Len(top) : \E k \in 1 .. N : all[k].post = top[i].post
      /\ \E k \in 1 .. N : all[k].post = p
      /\ \A k \in 1 .. N : all[k].post = p \/ Listed(top, all[k].post)
      /\ N = IF Listed(top, p) THEN Len(top) ELSE Len(top) + 1
  BY <1>3 DEF Gathered
<1>5. \A k \in 1 .. N : all[k].dp \in Nat /\ all[k].post \in Posts
  BY <1>4 DEF Entry
<1> DEFINE at == [n \in 1 .. N |-> AtRank(all, n)]
<1>6. /\ DOMAIN SortedTop(all) = 1 .. N
      /\ SortedTop(all) = [n \in 1 .. N |-> all[AtRank(all, n)]]
      /\ \A n \in 1 .. N : AtRank(all, n) \in 1 .. N
      /\ \A m, n \in 1 .. N : m # n => AtRank(all, m) # AtRank(all, n)
      /\ \A m, n \in 1 .. N : m < n => all[AtRank(all, m)].dp >= all[AtRank(all, n)].dp
      /\ \A i \in 1 .. N : \E n \in 1 .. N : AtRank(all, n) = i
  <2>1. DOMAIN all = 1 .. N /\ \A k \in 1 .. N : all[k].dp \in Nat
    BY <1>4, <1>5
  <2>2. QED BY <2>1, Sorts
<1>7. /\ \A n \in 1 .. N : at[n] \in 1 .. N
      /\ \A m, n \in 1 .. N : m # n => at[m] # at[n]
      /\ \A m, n \in 1 .. N : m < n => all[at[m]].dp >= all[at[n]].dp
      /\ \A i \in 1 .. N : \E n \in 1 .. N : at[n] = i
  BY <1>6
<1>8. PICK sorted : sorted = SortedTop(all)
  OBVIOUS
<1>9. sorted = [n \in 1 .. N |-> all[at[n]]] /\ \A n \in 1 .. N : sorted[n] = all[at[n]]
  BY <1>6, <1>8
<1> HIDE DEF at
<1>10. sorted \in Seq(Entry) /\ Len(sorted) = N
  <2>1. \A n \in 1 .. N : all[at[n]] \in Entry
    BY <1>4, <1>7
  <2>2. [n \in 1 .. N |-> all[at[n]]] \in Seq(Entry) /\ Len([n \in 1 .. N |-> all[at[n]]]) = N
    BY <2>1, IsASeq
  <2>3. QED BY <1>9, <2>2
<1>11. PICK M \in 0 .. N : /\ M = Least(Best, N) /\ M <= Best
                           /\ M = N \/ M = Best
  BY <1>0 DEF Least
<1>12. PICK new : new = SubSeq(sorted, 1, M) /\ new = TopWith(top, p, dp)
  BY <1>2, <1>8, <1>10, <1>11
<1>13. /\ new \in Seq(Entry) /\ Len(new) = M
       /\ \A n \in 1 .. M : n \in 1 .. N /\ new[n] = all[at[n]]
  <2>1. 1 \in Int /\ M \in Nat /\ M <= Len(sorted)
    BY <1>10, <1>11
  <2>2. /\ new = [n \in 1 .. M |-> sorted[n]]
    BY <1>10, <1>12, <2>1
  <2>3. \A n \in 1 .. M : sorted[n] \in Entry /\ n \in 1 .. N
    <3>1. ASSUME NEW n \in 1 .. M PROVE sorted[n] \in Entry /\ n \in 1 .. N
      <4>1. n \in 1 .. N
        BY <1>11
      <4>2. at[n] \in 1 .. N /\ sorted[n] = all[at[n]]
        BY <1>7, <1>9, <4>1
      <4>3. QED BY <1>4, <4>1, <4>2
    <3>2. QED BY <3>1
  <2>4. [n \in 1 .. M |-> sorted[n]] \in Seq(Entry) /\ Len([n \in 1 .. M |-> sorted[n]]) = M
    BY <2>1, <2>3, IsASeq
  <2>5. \A n \in 1 .. M : new[n] = sorted[n]
    BY <2>2
  <2>6. QED BY <1>9, <2>2, <2>3, <2>4, <2>5
<1>14. \A n \in 1 .. M : new[n].dp = E[new[n].post]
  <2>1. ASSUME NEW n \in 1 .. M PROVE new[n].dp = E[new[n].post]
    <3>1. n \in 1 .. N /\ new[n] = all[at[n]]
      BY <1>13
    <3>2. at[n] \in 1 .. N
      BY <1>7, <3>1
    <3>3. all[at[n]].dp = E[all[at[n]].post]
      BY <1>4, <3>2
    <3>4. QED BY <3>1, <3>3
  <2>2. QED BY <2>1
<1>15. \A m, n \in 1 .. M : m < n => new[m].dp >= new[n].dp /\ new[m].post # new[n].post
  <2>1. ASSUME NEW m \in 1 .. M, NEW n \in 1 .. M, m < n
        PROVE  new[m].dp >= new[n].dp /\ new[m].post # new[n].post
    <3>1. m \in 1 .. N /\ n \in 1 .. N /\ m # n
      BY <1>11, <2>1
    <3>2. /\ at[m] \in 1 .. N /\ at[n] \in 1 .. N /\ at[m] # at[n]
          /\ all[at[m]].dp >= all[at[n]].dp
      BY <1>7, <2>1, <3>1
    <3>3. all[at[m]].post # all[at[n]].post
      BY <1>4, <3>2
    <3>4. QED BY <1>13, <3>2, <3>3
  <2>2. QED BY <2>1
<1>16. ASSUME NEW q \in Posts, E[q] > 0, ~ Listed(new, q)
       PROVE  M = Best /\ \A m \in 1 .. M : new[m].dp >= E[q]
  <2>1. CASE \E k \in 1 .. N : all[k].post = q
    <3>1. PICK k \in 1 .. N : all[k].post = q
      BY <2>1
    <3>2. PICK n \in 1 .. N : at[n] = k
      BY <1>7
    <3>3. n \notin 1 .. M
      <4>1. ASSUME n \in 1 .. M PROVE FALSE
        <5>1. new[n].post = q
          BY <3>1, <3>2, <4>1, <1>13
        <5>2. QED BY <5>1, <4>1, <1>13, <1>16 DEF Listed
      <4>2. QED BY <4>1
    <3>4. M = Best /\ \A m \in 1 .. M : m < n
      BY <3>2, <3>3, <1>11
    <3>5. \A m \in 1 .. M : all[at[m]].dp >= all[k].dp
      BY <3>2, <3>4, <1>7, <1>13
    <3>6. all[k].dp = E[q]
      BY <3>1, <1>4
    <3>7. QED BY <3>4, <3>5, <3>6, <1>13
  <2>2. CASE ~ \E k \in 1 .. N : all[k].post = q
    <3>1. q # p /\ ~ Listed(top, q)
      <4>1. q # p
        BY <2>2, <1>4
      <4>2. \A i \in 1 .. Len(top) : \E k \in 1 .. N : all[k].post = top[i].post
        BY <1>4
      <4>3. ~ Listed(top, q)
        BY <2>2, <4>2, Zenon DEF Listed
      <4>4. QED BY <4>1, <4>3
    <3>2. E[q] = D[q]
      BY <3>1
    <3>3. Len(top) = Best /\ \A i \in 1 .. Len(top) : top[i].dp >= D[q]
      BY <3>1, <3>2, <1>16 DEF Tops
    <3>4. M = Best
      <4>1. N = Len(top) \/ N = Len(top) + 1
        BY <1>4
      <4>2. N >= Best
        BY <3>3, <4>1, <1>0
      <4>3. QED BY <4>2, <1>0, <1>11
    <3>5. ASSUME NEW x \in Posts, Listed(top, x) PROVE E[x] >= E[q]
      <4>1. PICK i \in 1 .. Len(top) : top[i].post = x
        BY <3>5 DEF Listed
      <4>2. top[i].dp = D[x] /\ D[x] >= D[q]
        BY <4>1, <3>3 DEF Tops
      <4>3. E[x] >= D[x]
        <5>1. CASE x = p
          BY <5>1
        <5>2. CASE x # p
          BY <5>2
        <5>3. QED BY <5>1, <5>2
      <4>4. D[x] \in Nat /\ D[q] \in Nat /\ E[x] \in Nat
        OBVIOUS
      <4>5. QED BY <3>2, <4>2, <4>3, <4>4
    <3>6. ASSUME NEW k \in 1 .. N, all[k].post # p PROVE all[k].dp >= E[q]
      BY <3>5, <3>6, <1>4, <1>5
    <3>7. ASSUME NEW m \in 1 .. M PROVE new[m].dp >= E[q]
      <4>1. PICK k \in 1 .. N : k = at[m] /\ new[m] = all[k]
        BY <1>7, <1>13
      <4>2. CASE all[k].post # p
        BY <4>1, <4>2, <3>6
      <4>3. CASE all[k].post = p /\ Listed(top, p)
        BY <4>1, <4>3, <3>5, <1>4
      <4>4. CASE all[k].post = p /\ ~ Listed(top, p)
        <5>1. N = M + 1
          BY <3>3, <3>4, <4>4, <1>4
        <5>2. N \in 1 .. N /\ m < N
          BY <5>1, <1>11
        <5>3. at[N] \in 1 .. N /\ at[N] # at[m] /\ all[at[m]].dp >= all[at[N]].dp
          <6>1. m \in 1 .. N /\ m # N
            BY <5>2, <1>13
          <6>2. QED BY <5>2, <6>1, <1>7
        <5>4. all[at[N]].post # p
          BY <4>1, <4>4, <5>3, <1>4
        <5>5. all[at[N]].dp >= E[q]
          BY <3>6, <5>3, <5>4
        <5>6. all[at[N]].dp \in Nat /\ all[k].dp \in Nat /\ E[q] \in Nat
          BY <5>3, <1>5
        <5>7. QED BY <4>1, <5>3, <5>5, <5>6
      <4>5. QED BY <4>2, <4>3, <4>4
    <3>8. QED BY <3>4, <3>7
  <2>3. QED BY <2>1, <2>2
<1>17. Tops(new, E)
  BY <1>11, <1>13, <1>14, <1>15, <1>16 DEF Tops
<1>18. QED BY <1>12, <1>17

LEMMA BoughtFields ==
  ASSUME NEW r, ShapedRound(r), NEW u \in Users, NEW p \in Posts, NEW s, NEW dp,
         NEW k, k = NumKeysCanBuy(r.post[p].sold, s)
  PROVE  LET new == RoundWith(r, u, p, s, dp)
             old == r.post[p]
         IN /\ new.has = [r.has EXCEPT ![u] = [r.has[u] EXCEPT ![p] = r.has[u][p] + k]]
            /\ new.post = [r.post EXCEPT ![p] = [dp |-> old.dp + dp, stake |-> old.stake + s,
                                                 sold |-> old.sold + k]]
            /\ new.topN = TopWith(r.topN, p, old.dp + dp)
            /\ new.sumDp = r.sumDp + dp
            /\ new.result = r.result /\ new.startAt = r.startAt
<1> DEFINE new == RoundWith(r, u, p, s, dp)
           old == r.post[p]
           post == [dp |-> old.dp + dp, stake |-> old.stake + s, sold |-> old.sold + k]
           top == TopWith(r.topN, p, old.dp + dp)
<1>1. r = [f \in RoundFields |-> r[f]]
  BY DEF ShapedRound
<1>2. new = [r EXCEPT !.has[u][p] = @ + k, !.post[p] = post, !.topN = TopWith(@, p, old.dp + dp),
                      !.sumDp = @ + dp]
  BY DEF RoundWith
<1> HIDE DEF new, post, old
<1>3. new = [f \in RoundFields |->
               CASE f = "has" -> [r.has EXCEPT ![u] = [r.has[u] EXCEPT ![p] = r.has[u][p] + k]]
                 [] f = "post" -> [r.post EXCEPT ![p] = post]
                 [] f = "topN" -> TopWith(r.topN, p, old.dp + dp)
                 [] f = "sumDp" -> r.sumDp + dp
                 [] OTHER -> r[f]]
  BY <1>1, <1>2 DEF RoundFields
<1>4. QED BY <1>3 DEF RoundFields, new, post, old

(****************************************************************************)
(* Rounds.                                                                  *)
(****************************************************************************)
Powers(r) == [p \in Posts |-> r.post[p].dp]
KeysOf(r, p) == [u \in Users |-> r.has[u][p]]

(* All keys of a post are somebody's, and they are paid for.                *)
Sold(r, p) ==
  /\ r.post[p].sold = SumFunction(KeysOf(r, p))
  /\ 2 * KeyPrice * r.post[p].sold + r.post[p].sold * (r.post[p].sold - 1)
       <= 2 * r.post[p].stake

RoundOK(r, t) ==
  /\ r.post \in [Posts -> RoundPost]
  /\ r.has \in [Users -> [Posts -> Nat]]
  /\ r.sumDp = SumFunction(Powers(r))
  /\ r.result \in SUBSET Posts
  /\ r.startAt \in 0 .. t
  /\ Tops(r.topN, Powers(r))
  /\ \A p \in Posts : Sold(r, p)

(* More keys at the price that follows cost what both parts cost.           *)
LEMMA CostAdds ==
  ASSUME NEW c \in Nat, NEW x \in Nat, NEW k \in Nat
  PROVE  2 * c * (x + k) + (x + k) * ((x + k) - 1)
           = (2 * c * x + x * (x - 1)) + k * (2 * (c + x) + (k - 1))
BY SMT

(* A donation adds its power to the post and to the round, and its keys to  *)
(* the user and to the post (DonateAt).                                     *)
LEMMA RoundKept ==
  ASSUME NEW r, ShapedRound(r), NEW t \in Nat, RoundOK(r, t),
         NEW u \in Users, NEW p \in Posts, NEW s \in Nat, NEW dp \in Nat
  PROVE  /\ RoundOK(RoundWith(r, u, p, s, dp), t)
         /\ RoundWith(r, u, p, s, dp).result = r.result
<1>0. IsFiniteSet(Users) /\ IsFiniteSet(Posts) /\ KeyPrice \in Nat /\ MaxKeys \in Nat
  BY ReputationAssumption
<1>1. PICK x \in Nat, y \in Nat, z \in Nat :
        x = r.post[p].sold /\ y = r.post[p].stake /\ z = r.post[p].dp
  BY DEF RoundOK, RoundPost
<1>2. PICK k : k = NumKeysCanBuy(x, s)
  OBVIOUS
<1>3. /\ k \in Nat
      /\ k * (2 * (KeyPrice + x) + (k - 1)) <= 2 * s
  BY <1>0, <1>2, KeysBought DEF Buys
<1>4. PICK new : new = RoundWith(r, u, p, s, dp)
  OBVIOUS
<1>5. /\ new.has = [r.has EXCEPT ![u] = [r.has[u] EXCEPT ![p] = r.has[u][p] + k]]
      /\ new.post = [r.post EXCEPT ![p] = [dp |-> z + dp, stake |-> y + s, sold |-> x + k]]
      /\ new.topN = TopWith(r.topN, p, z + dp)
      /\ new.sumDp = r.sumDp + dp
      /\ new.result = r.result /\ new.startAt = r.startAt
  BY <1>1, <1>2, <1>4, BoughtFields
<1>6. /\ r.post \in [Posts -> RoundPost] /\ r.has \in [Users -> [Posts -> Nat]]
      /\ r.sumDp = SumFunction(Powers(r))
      /\ Tops(r.topN, Powers(r)) /\ \A q \in Posts : Sold(r, q)
  BY DEF RoundOK
<1>7. /\ new.post \in [Posts -> RoundPost]
      /\ new.post[p].dp = z + dp /\ new.post[p].stake = y + s /\ new.post[p].sold = x + k
      /\ \A q \in Posts : q # p => new.post[q] = r.post[q]
  <2>1. [dp |-> z + dp, stake |-> y + s, sold |-> x + k] \in RoundPost
    BY <1>3 DEF RoundPost
  <2>2. QED BY <2>1, <1>5, <1>6
<1>8. /\ new.has \in [Users -> [Posts -> Nat]]
      /\ new.has[u][p] = r.has[u][p] + k
      /\ \A v \in Users, q \in Posts : v # u \/ q # p => new.has[v][q] = r.has[v][q]
  <2>1. r.has[u] \in [Posts -> Nat] /\ r.has[u][p] + k \in Nat
    BY <1>3, <1>6
  <2>2. [r.has[u] EXCEPT ![p] = r.has[u][p] + k] \in [Posts -> Nat]
    BY <2>1
  <2>3. PICK w : w = [r.has[u] EXCEPT ![p] = r.has[u][p] + k]
    OBVIOUS
  <2>4. /\ w \in [Posts -> Nat] /\ w[p] = r.has[u][p] + k
        /\ \A q \in Posts : q # p => w[q] = r.has[u][q]
    BY <2>1, <2>2, <2>3
  <2>5. /\ new.has \in [Users -> [Posts -> Nat]]
        /\ new.has[u] = w
        /\ \A v \in Users : v # u => new.has[v] = r.has[v]
    <3>1. PICK F : F = [Posts -> Nat]
      OBVIOUS
    <3>2. r.has \in [Users -> F] /\ w \in F /\ new.has = [r.has EXCEPT ![u] = w]
      BY <2>3, <2>4, <3>1, <1>5, <1>6
    <3>3. new.has \in [Users -> F]
      BY <3>2
    <3>4. QED BY <3>1, <3>2, <3>3
  <2>6. ASSUME NEW v \in Users, NEW q \in Posts, v # u \/ q # p
        PROVE  new.has[v][q] = r.has[v][q]
    <3>1. CASE v = u
      BY <2>4, <2>5, <2>6, <3>1
    <3>2. CASE v # u
      BY <2>5, <3>2
    <3>3. QED BY <3>1, <3>2
  <2>7. QED BY <2>4, <2>5, <2>6
<1>9. /\ Powers(r) \in [Posts -> Nat] /\ Powers(r) \in [Posts -> Int]
      /\ Powers(new) \in [Posts -> Int]
      /\ Powers(new) = [Powers(r) EXCEPT ![p] = z + dp]
      /\ Powers(r)[p] = z /\ Powers(new)[p] = z + dp
      /\ \A q \in Posts : q # p => Powers(new)[q] = Powers(r)[q]
  BY <1>1, <1>6, <1>7 DEF Powers, RoundPost
<1>10. new.sumDp = SumFunction(Powers(new))
  <2>1. /\ SumFunction(Powers(new)) = SumFunction(Powers(r)) + (Powers(new)[p] - Powers(r)[p])
        /\ SumFunction(Powers(r)) \in Int
    <3>1. PICK f \in [Posts -> Int] : f = Powers(r)
      BY <1>9
    <3>2. PICK g \in [Posts -> Int] : g = Powers(new)
      BY <1>9
    <3>3. \A q \in Posts : q # p => g[q] = f[q]
      BY <1>9, <3>1, <3>2
    <3>4. SumFunction(g) = SumFunction(f) + (g[p] - f[p]) /\ SumFunction(f) \in Int
      BY <1>0, <3>3, SumChanges
    <3>5. QED BY <3>1, <3>2, <3>4
  <2>2. QED BY <2>1, <1>5, <1>6, <1>9
<1>11. Tops(new.topN, Powers(new))
  <2>1. z + dp \in Nat /\ z + dp >= Powers(r)[p]
    BY <1>9
  <2>2. PICK D : D = Powers(r)
    OBVIOUS
  <2>3. PICK E : E = Powers(new)
    OBVIOUS
  <2>4. PICK w : w = z + dp
    OBVIOUS
  <2>5. D \in [Posts -> Nat] /\ Tops(r.topN, D) /\ w \in Nat /\ w >= D[p] /\ E = [D EXCEPT ![p] = w]
    BY <2>1, <2>2, <2>3, <2>4, <1>6, <1>9
  <2>6. Tops(TopWith(r.topN, p, w), E)
    BY <2>5, TopKept
  <2>7. QED BY <2>3, <2>4, <2>6, <1>5
<1>12. ASSUME NEW q \in Posts PROVE Sold(new, q)
  <2>1. Sold(r, q) /\ KeysOf(r, q) \in [Users -> Int] /\ KeysOf(new, q) \in [Users -> Int]
    BY <1>6, <1>8 DEF KeysOf
  <2>2. CASE q # p
    <3>1. new.post[q] = r.post[q]
      BY <2>2, <1>7
    <3>2. KeysOf(new, q) = KeysOf(r, q)
      BY <2>2, <1>8 DEF KeysOf
    <3>3. QED BY <2>1, <3>1, <3>2 DEF Sold
  <2>3. CASE q = p
    <3>1. /\ SumFunction(KeysOf(new, p))
               = SumFunction(KeysOf(r, p)) + (KeysOf(new, p)[u] - KeysOf(r, p)[u])
          /\ SumFunction(KeysOf(r, p)) \in Int
      <4>1. \A v \in Users : v # u => KeysOf(new, p)[v] = KeysOf(r, p)[v]
        BY <1>8 DEF KeysOf
      <4>2. QED BY <4>1, <2>1, <2>3, <1>0, SumChanges
    <3>2. KeysOf(r, p)[u] \in Nat /\ KeysOf(new, p)[u] = KeysOf(r, p)[u] + k
      BY <1>6, <1>8 DEF KeysOf
    <3>3. x = SumFunction(KeysOf(r, p)) /\ 2 * KeyPrice * x + x * (x - 1) <= 2 * y
      BY <2>1, <2>3, <1>1 DEF Sold
    <3>4. x + k = SumFunction(KeysOf(new, p))
      BY <3>1, <3>2, <3>3, <1>3
    <3>5. 2 * KeyPrice * (x + k) + (x + k) * ((x + k) - 1) <= 2 * (y + s)
      <4>1. PICK a \in Int : a = 2 * KeyPrice * x + x * (x - 1)
        BY <1>0
      <4>2. PICK b \in Int : b = k * (2 * (KeyPrice + x) + (k - 1))
        BY <1>0, <1>3
      <4>3. 2 * KeyPrice * (x + k) + (x + k) * ((x + k) - 1) = a + b
        BY <4>1, <4>2, <1>0, <1>3, CostAdds
      <4>4. a <= 2 * y /\ b <= 2 * s
        BY <4>1, <4>2, <3>3, <1>3
      <4>5. QED BY <4>3, <4>4
    <3>6. QED BY <2>3, <3>4, <3>5, <1>7 DEF Sold
  <2>4. QED BY <2>2, <2>3
<1>13. RoundOK(new, t)
  <2>1. new.result \in SUBSET Posts /\ new.startAt \in 0 .. t
    BY <1>5 DEF RoundOK
  <2>2. QED BY <2>1, <1>7, <1>8, <1>10, <1>11, <1>12 DEF RoundOK
<1>14. QED BY <1>4, <1>5, <1>13

(* A new round is empty.                                                    *)
LEMMA RoundStarts ==
  ASSUME NEW t \in Nat
  PROVE  RoundOK(NewRound(t), t) /\ NewRound(t).result = {}
<1> DEFINE r == NewRound(t)
<1>0. IsFiniteSet(Users) /\ IsFiniteSet(Posts) /\ KeyPrice \in Nat /\ Best \in Nat
  BY ReputationAssumption
<1>1. /\ r.result = {} /\ r.sumDp = 0 /\ r.startAt = t /\ r.topN = <<>>
      /\ r.post = [p \in Posts |-> NoDonation]
      /\ r.has = [u \in Users |-> [p \in Posts |-> 0]]
  BY DEF NewRound
<1> HIDE DEF r
<1>2. /\ r.post \in [Posts -> RoundPost]
      /\ \A p \in Posts : r.post[p].dp = 0 /\ r.post[p].stake = 0 /\ r.post[p].sold = 0
  BY <1>1 DEF NoDonation, RoundPost
<1>3. r.has \in [Users -> [Posts -> Nat]]
  BY <1>1
<1>4. r.sumDp = SumFunction(Powers(r))
  <2>1. DOMAIN Powers(r) = Posts /\ \A p \in Posts : Powers(r)[p] = 0
    BY <1>2 DEF Powers
  <2>2. SumFunctionOnSet(Powers(r), Posts) = 0
    BY <1>0, <2>1, SumZero
  <2>3. QED BY <1>1, <2>1, <2>2 DEF SumFunction
<1>5. Tops(r.topN, Powers(r))
  <2>1. /\ <<>> \in Seq(Entry) /\ Len(<<>>) = 0 /\ Len(<<>>) <= Best /\ 1 .. Len(<<>>) = {}
    BY <1>0
  <2>2. \A p \in Posts : ~ (Powers(r)[p] > 0)
    BY <1>2 DEF Powers
  <2>3. QED BY <1>1, <2>1, <2>2 DEF Tops
<1>6. ASSUME NEW p \in Posts PROVE Sold(r, p)
  <2>1. DOMAIN KeysOf(r, p) = Users /\ \A u \in Users : KeysOf(r, p)[u] = 0
    BY <1>1 DEF KeysOf
  <2>2. SumFunctionOnSet(KeysOf(r, p), Users) = 0
    BY <1>0, <2>1, SumZero
  <2>3. SumFunction(KeysOf(r, p)) = 0
    BY <2>1, <2>2 DEF SumFunction
  <2>4. 2 * KeyPrice * 0 + 0 * (0 - 1) <= 2 * 0
    BY <1>0
  <2>5. QED BY <1>2, <2>3, <2>4 DEF Sold
<1>7. QED BY <1>1, <1>2, <1>3, <1>4, <1>5, <1>6 DEF RoundOK, r

(* A round that ends keeps all but its result, and time goes on.            *)
LEMMA RoundEnds ==
  ASSUME NEW r, ShapedRound(r), NEW t \in Nat, RoundOK(r, t), NEW result \in SUBSET Posts
  PROVE  RoundOK([r EXCEPT !.result = result], t)
<1>1. PICK new : new = [r EXCEPT !.result = result]
  OBVIOUS
<1>2. /\ new.result = result /\ new.post = r.post /\ new.has = r.has /\ new.topN = r.topN
      /\ new.sumDp = r.sumDp /\ new.startAt = r.startAt
  BY <1>1 DEF ShapedRound, RoundFields
<1>3. Powers(new) = Powers(r) /\ \A p \in Posts : KeysOf(new, p) = KeysOf(r, p)
  BY <1>2 DEF Powers, KeysOf
<1>4. \A p \in Posts : Sold(new, p)
  BY <1>2, <1>3 DEF RoundOK, Sold
<1>5. RoundOK(new, t)
  BY <1>2, <1>3, <1>4 DEF RoundOK
<1>6. QED BY <1>1, <1>5

LEMMA RoundAges ==
  ASSUME NEW r, NEW t \in Nat, NEW v \in Nat, t <= v, RoundOK(r, t)
  PROVE  RoundOK(r, v)
<1>1. r.startAt \in 0 .. v
  BY DEF RoundOK
<1>2. QED BY <1>1 DEF RoundOK

(* The result of a round is among its best posts.                           *)
LEMMA ResultListed ==
  ASSUME NEW r, NEW t, RoundOK(r, t)
  PROVE  ResultOf(r) \in SUBSET Posts
<1>1. r.topN \in Seq(Entry)
  BY DEF RoundOK, Tops
<1>2. ASSUME NEW i \in DOMAIN r.topN PROVE r.topN[i].post \in Posts
  <2>1. r.topN[i] \in Entry
    BY <1>1
  <2>2. QED BY <2>1 DEF Entry
<1>3. Considered(r) \in SUBSET (DOMAIN r.topN)
  BY DEF Considered
<1>4. QED BY <1>2, <1>3 DEF ResultOf
------------------------------------------------------------------------------
(****************************************************************************)
(* Scores.                                                                  *)
(****************************************************************************)
LEMMA DecayIs == Decay \in Nat
<1>1. PICK w \in Nat \ {0} : w = Window
  BY ReputationAssumption
<1>2. PICK d : d = 3 * w
  OBVIOUS
<1>3. d \in Nat \ {0} /\ d >= 3
  BY <1>2
<1>4. PICK q \in Nat : q = 100 \div d /\ \E m \in 0 .. d - 1 : 100 = d * q + m
  <2>1. PICK h \in Nat : h = 100
    OBVIOUS
  <2>2. \E q \in Nat, m \in 0 .. d - 1 : q = h \div d /\ m = h % d /\ h = d * q + m
    BY <1>3, <2>1, DivDef
  <2>3. QED BY <2>1, <2>2
<1>5. q <= 100
  <2>1. d * q <= 100
    BY <1>3, <1>4
  <2>2. \A a, b \in Nat : a >= 3 => b <= a * b
    BY SMT
  <2>3. d * q \in Nat /\ q <= d * q
    BY <1>3, <1>4, <2>2
  <2>4. QED BY <2>1, <2>3
<1>6. Decay = 100 - q
  BY <1>1, <1>2, <1>4 DEF Decay
<1>7. QED BY <1>5, <1>6

(* Settling never takes a score below the initial one.                      *)
LEMMA ScoreIs ==
  ASSUME NEW score \in Nat, NEW unsettled \in Nat
  PROVE  NewScore(score, unsettled) \in Nat /\ NewScore(score, unsettled) >= InitialScore
<1>1. PICK w \in Nat \ {0} : w = Window
  BY ReputationAssumption
<1>2. PICK i \in Nat : i = InitialScore
  BY ReputationAssumption
<1>3. PICK d \in Nat : d = Decay
  BY DecayIs
<1>4. PICK a \in Nat : a = ((score * (Window - 1)) + unsettled) \div Window
  <2>1. (score * (w - 1)) + unsettled \in Nat
    BY SMT
  <2>2. ((score * (w - 1)) + unsettled) \div w \in Nat
    BY <2>1, DivDef
  <2>3. QED BY <1>1, <2>2
<1>5. PICK b \in Nat : b = (score * Decay) \div 100
  <2>1. score * d \in Nat
    BY SMT
  <2>2. PICK h \in Nat \ {0} : h = 100
    OBVIOUS
  <2>3. (score * d) \div h \in Nat
    BY <2>1, DivDef
  <2>4. QED BY <1>3, <2>2, <2>3
<1>6. NewScore(score, unsettled) = Most(Most(a, b), i)
  BY <1>2, <1>4, <1>5 DEF NewScore
<1>7. QED BY <1>2, <1>6 DEF Most

Meta == [customer : Nat, free : Nat, settled : Nat, donatedIn : Nat]

Held ==
  /\ now \in Nat
  /\ user \in [Users -> Meta] /\ \A u \in Users : user[u].customer >= InitialScore
  /\ sumRep \in [Posts -> Int]
  /\ given \in [Users -> [Posts -> [donated : Nat, donationRep : Nat, reportRep : Nat]]]
  /\ stake \in [Users -> Nat]
  /\ reportedAt \in [Users -> 0 .. now]
  /\ \A n \in DOMAIN rounds : RoundOK(rounds[n], now)
  /\ rounds[current].result = {}

(* What a user's keys are settled for.                                      *)
LEMMA UnsettledIs ==
  ASSUME NEW u \in Users, NEW n, NEW t, RoundOK(rounds[n], t)
  PROVE  Unsettled(u, n) \in Nat
<1> DEFINE R == rounds[n].result
           f == [p \in R |-> IF rounds[n].post[p].sold > 0
                             THEN (rounds[n].has[u][p] * rounds[n].post[p].stake)
                                    \div rounds[n].post[p].sold
                             ELSE 0]
<1>1. IsFiniteSet(R) /\ R \in SUBSET Posts
  BY ReputationAssumption, FS_Subset DEF RoundOK
<1>2. ASSUME NEW p \in R PROVE f[p] \in Nat
  <2>1. PICK x \in Nat, y \in Nat : x = rounds[n].post[p].sold /\ y = rounds[n].post[p].stake
    BY <1>1 DEF RoundOK, RoundPost
  <2>2. PICK k \in Nat : k = rounds[n].has[u][p]
    BY <1>1 DEF RoundOK
  <2>3. f[p] = IF x > 0 THEN (k * y) \div x ELSE 0
    BY <2>1, <2>2
  <2>4. CASE x > 0
    <3>1. k * y \in Nat /\ x \in Nat \ {0}
      BY <2>4, SMT
    <3>2. (k * y) \div x \in Nat
      BY <3>1, DivDef
    <3>3. QED BY <2>3, <2>4, <3>2
  <2>5. CASE ~ (x > 0)
    BY <2>3, <2>5
  <2>6. QED BY <2>4, <2>5
<1>3. f \in [R -> Nat]
  BY <1>2
<1>4. Unsettled(u, n) = SumFunction(f)
  BY DEF Unsettled
<1> HIDE DEF f, R
<1>5. QED BY <1>1, <1>3, <1>4, SumCounts

LEMMA SettledIs ==
  ASSUME IInv, Held, NEW u \in Users
  PROVE  /\ Settled(u) \in Meta
         /\ Settled(u).customer >= InitialScore
         /\ Settled(u).free = user[u].free
<1>1. user[u] \in Meta /\ user[u].customer >= InitialScore
  BY DEF Held
<1>2. CASE user[u].settled < user[u].donatedIn /\ user[u].donatedIn < current
  <2>1. user[u].donatedIn \in DOMAIN rounds
    <3>1. current \in Nat /\ DOMAIN rounds = 1 .. current
      BY Numbers
    <3>2. user[u].settled \in Nat /\ user[u].donatedIn \in Nat
      BY <1>1 DEF Meta
    <3>3. QED BY <1>2, <3>1, <3>2
  <2>2. Unsettled(u, user[u].donatedIn) \in Nat
    BY <2>1, UnsettledIs DEF Held
  <2>3. PICK c : c = NewScore(user[u].customer, Unsettled(u, user[u].donatedIn))
    OBVIOUS
  <2>4. c \in Nat /\ c >= InitialScore
    <3>1. user[u].customer \in Nat
      BY <1>1 DEF Meta
    <3>2. QED BY <2>2, <2>3, <3>1, ScoreIs
  <2>5. Settled(u) = [user[u] EXCEPT !.customer = c, !.settled = user[u].donatedIn]
    BY <1>2, <2>3 DEF Settled
  <2>6. user[u].donatedIn \in Nat
    BY <1>1 DEF Meta
  <2>7. QED BY ONLY <1>1, <2>4, <2>5, <2>6 DEF Meta
<1>3. CASE ~ (user[u].settled < user[u].donatedIn /\ user[u].donatedIn < current)
  <2>1. Settled(u) = user[u]
    BY <1>3 DEF Settled
  <2>2. QED BY <1>1, <2>1
<1>4. QED BY <1>2, <1>3
------------------------------------------------------------------------------
(****************************************************************************)
(* Reputation of posts.                                                     *)
(****************************************************************************)
Balance(gs, p) == [u \in Users |-> gs[u][p].donationRep - gs[u][p].reportRep]

UserPost == [donated : Nat, donationRep : Nat, reportRep : Nat]
Books == [Users -> [Posts -> UserPost]]

Agrees(sums, gs) == \A p \in Posts : sums[p] = SumFunction(Balance(gs, p))

LEMMA AgreeIs == SumRepAgrees <=> Agrees(sumRep, given)
BY DEF SumRepAgrees, Agrees, Balance

(* What a user's last donation and report make of a post changes by what    *)
(* his new one makes of it (incPostSumRep, ReportAt).                       *)
LEMMA SumRepChanges ==
  ASSUME NEW gs \in Books, NEW hs \in Books, NEW sums \in [Posts -> Int],
         NEW new \in [Posts -> Int], NEW u \in Users, NEW p \in Posts, Agrees(sums, gs),
         \A v \in Users, q \in Posts : v # u \/ q # p => hs[v][q] = gs[v][q],
         \A q \in Posts : q # p => new[q] = sums[q],
         new[p] = sums[p] + ((hs[u][p].donationRep - hs[u][p].reportRep)
                               - (gs[u][p].donationRep - gs[u][p].reportRep))
  PROVE  Agrees(new, hs)
<1>1. IsFiniteSet(Users)
  BY ReputationAssumption
<1>2. ASSUME NEW q \in Posts
      PROVE  Balance(gs, q) \in [Users -> Int] /\ Balance(hs, q) \in [Users -> Int]
  <2>1. ASSUME NEW fs \in Books, NEW v \in Users
        PROVE  fs[v][q].donationRep - fs[v][q].reportRep \in Int
    <3>1. fs[v][q] \in UserPost
      BY DEF Books
    <3>2. QED BY <3>1 DEF UserPost
  <2>2. QED BY <2>1 DEF Balance
<1>3. ASSUME NEW q \in Posts PROVE new[q] = SumFunction(Balance(hs, q))
  <2>1. sums[q] = SumFunction(Balance(gs, q))
    BY DEF Agrees
  <2>2. CASE q # p
    <3>1. Balance(hs, q) = Balance(gs, q)
      BY <2>2 DEF Balance
    <3>2. QED BY <2>1, <2>2, <3>1
  <2>3. CASE q = p
    <3>1. PICK f \in [Users -> Int] : f = Balance(gs, p)
      BY <1>2
    <3>2. PICK g \in [Users -> Int] : g = Balance(hs, p)
      BY <1>2
    <3>3. \A v \in Users : v # u => g[v] = f[v]
      BY <3>1, <3>2 DEF Balance
    <3>4. SumFunction(g) = SumFunction(f) + (g[u] - f[u])
      BY <1>1, <3>3, SumChanges
    <3>5. /\ g[u] = hs[u][p].donationRep - hs[u][p].reportRep
          /\ f[u] = gs[u][p].donationRep - gs[u][p].reportRep
      BY <3>1, <3>2 DEF Balance
    <3>6. QED BY <2>1, <2>3, <3>1, <3>2, <3>4, <3>5
  <2>4. QED BY <2>2, <2>3
<1>4. QED BY <1>3 DEF Agrees

(* A change of one user's record of one post.                               *)
Entered(hs, gs, u, p, x) == hs = [gs EXCEPT ![u] = [gs[u] EXCEPT ![p] = x]]

LEMMA BookChanges ==
  ASSUME NEW gs \in Books, NEW u \in Users, NEW p \in Posts, NEW x \in UserPost,
         NEW hs, Entered(hs, gs, u, p, x)
  PROVE  /\ hs \in Books /\ hs[u][p] = x
         /\ \A v \in Users, q \in Posts : v # u \/ q # p => hs[v][q] = gs[v][q]
<1>1. PICK F : F = [Posts -> UserPost]
  OBVIOUS
<1>2. PICK w : w = [gs[u] EXCEPT ![p] = x]
  OBVIOUS
<1>3. gs \in [Users -> F] /\ gs[u] \in [Posts -> UserPost]
  BY <1>1 DEF Books
<1>4. w \in F /\ w[p] = x /\ \A q \in Posts : q # p => w[q] = gs[u][q]
  BY <1>1, <1>2, <1>3
<1>5. hs \in [Users -> F] /\ hs[u] = w /\ \A v \in Users : v # u => hs[v] = gs[v]
  BY <1>2, <1>3, <1>4 DEF Entered
<1>6. ASSUME NEW v \in Users, NEW q \in Posts, v # u \/ q # p
      PROVE  hs[v][q] = gs[v][q]
  <2>1. CASE v = u
    BY <1>4, <1>5, <1>6, <2>1
  <2>2. CASE v # u
    BY <1>5, <2>2
  <2>3. QED BY <2>1, <2>2
<1>7. QED BY <1>1, <1>4, <1>5, <1>6 DEF Books
------------------------------------------------------------------------------
(****************************************************************************)
(* Steps.                                                                   *)
(****************************************************************************)
RInv == IInv /\ Held /\ Agrees(sumRep, given)

(* Users and the current round may change, and posts' reputation.           *)
LEMMA HeldKept ==
  ASSUME IInv, Held, UNCHANGED <<now, stake, reportedAt>>,
         NEW u \in Users, NEW m \in Meta, m.customer >= InitialScore,
         user' = [user EXCEPT ![u] = m],
         sumRep' \in [Posts -> Int], given' \in Books,
         \/ rounds' = rounds
         \/ \E e : /\ rounds' = [rounds EXCEPT ![current] = e]
                   /\ RoundOK(e, now) /\ e.result = {}
  PROVE  Held'
<1>1. /\ user' \in [Users -> Meta] /\ \A v \in Users : user'[v].customer >= InitialScore
  <2>1. user \in [Users -> Meta] /\ \A v \in Users : user[v].customer >= InitialScore
    BY DEF Held
  <2>2. user' \in [Users -> Meta] /\ user'[u] = m /\ \A v \in Users : v # u => user'[v] = user[v]
    BY <2>1
  <2>3. QED BY <2>1, <2>2
<1>2. /\ now' \in Nat /\ stake' \in [Users -> Nat] /\ reportedAt' \in [Users -> 0 .. now']
      /\ given' \in [Users -> [Posts -> [donated : Nat, donationRep : Nat, reportRep : Nat]]]
  BY DEF Held, Books, UserPost
<1>3. /\ \A n \in DOMAIN rounds' : RoundOK(rounds'[n], now')
      /\ rounds'[current'].result = {}
  <2>1. \A n \in DOMAIN rounds : RoundOK(rounds[n], now)
    BY DEF Held
  <2>2. CASE rounds' = rounds
    BY <2>1, <2>2 DEF Held, current
  <2>3. CASE rounds' # rounds
    <3>1. PICK e : /\ rounds' = [rounds EXCEPT ![current] = e]
                   /\ RoundOK(e, now) /\ e.result = {}
      BY <2>3
    <3>2. /\ current' = current
          /\ DOMAIN rounds' = DOMAIN rounds
          /\ rounds'[current] = e
          /\ \A n \in DOMAIN rounds : n # current => rounds'[n] = rounds[n]
      BY <3>1, CurrentReplaced
    <3>3. now' = now
      OBVIOUS
    <3>4. \A n \in DOMAIN rounds' : RoundOK(rounds'[n], now)
      BY <2>1, <3>1, <3>2
    <3>5. QED BY <3>1, <3>2, <3>3, <3>4
  <2>4. QED BY <2>2, <2>3
<1>4. QED BY <1>1, <1>2, <1>3 DEF Held

LEMMA DonateHolds ==
  ASSUME IInv, Held, Agrees(sumRep, given), NEW u \in Users, NEW p \in Posts, NEW s \in Nat,
         DonateAt(u, p, s)
  PROVE  Held' /\ Agrees(sumRep', given')
<1>1. PICK m \in Meta : /\ m = Settled(u) /\ m.customer >= InitialScore
                        /\ m.free = user[u].free
  BY SettledIs
<1>2. PICK rep \in Nat : rep = m.customer + m.free
  BY DEF Meta
<1>3. given \in Books /\ given[u][p] \in UserPost
  BY DEF Held, Books, UserPost
<1>4. PICK used \in Nat : used = given[u][p].donated
  BY <1>3 DEF UserPost
<1>5. PICK dp \in Nat : dp = Least(Most(rep - used, 0), s)
  BY DEF Least, Most
<1>6. /\ given' = [given EXCEPT ![u][p].donated = dp + used, ![u][p].donationRep = rep]
      /\ sumRep' = [sumRep EXCEPT ![p] = sumRep[p] + (rep - given[u][p].donationRep)]
      /\ user' = [user EXCEPT ![u] = [m EXCEPT !.donatedIn = current]]
      /\ rounds' = [rounds EXCEPT ![current] = RoundWith(rounds[current], u, p, s, dp)]
      /\ UNCHANGED <<stake, reportedAt, now>>
  BY <1>1, <1>2, <1>4, <1>5, Zenon DEF DonateAt
<1>7. current \in Nat /\ current >= 1 /\ DOMAIN rounds = 1 .. current
  BY Numbers
<1>8. PICK x : x = [given[u][p] EXCEPT !.donated = dp + used]
  OBVIOUS
<1>9. PICK y : y = [x EXCEPT !.donationRep = rep]
  OBVIOUS
<1>10. /\ x \in UserPost /\ y \in UserPost
       /\ y.donationRep = rep /\ y.reportRep = given[u][p].reportRep
  <2>1. PICK old \in UserPost : old = given[u][p]
    BY <1>3
  <2>2. x = [old EXCEPT !.donated = dp + used] /\ dp + used \in Nat
    BY <1>8, <2>1
  <2>3. x \in UserPost /\ x.reportRep = old.reportRep
    BY <2>2 DEF UserPost
  <2>4. y \in UserPost /\ y.donationRep = rep /\ y.reportRep = x.reportRep
    BY <2>3, <1>9 DEF UserPost
  <2>5. QED BY <2>1, <2>3, <2>4
<1>11. /\ given' \in Books /\ given'[u][p] = y
       /\ \A v \in Users, q \in Posts : v # u \/ q # p => given'[v][q] = given[v][q]
  <2>1. PICK hs : hs = [given EXCEPT ![u] = [given[u] EXCEPT ![p] = x]]
    OBVIOUS
  <2>2. /\ hs \in Books /\ hs[u][p] = x
        /\ \A v \in Users, q \in Posts : v # u \/ q # p => hs[v][q] = given[v][q]
    <3>1. given \in Books /\ x \in UserPost
      BY <1>3, <1>10
    <3>2. Entered(hs, given, u, p, x)
      BY <2>1 DEF Entered
    <3>3. QED BY <3>1, <3>2, BookChanges
  <2>3. given' = [hs EXCEPT ![u] = [hs[u] EXCEPT ![p] = [hs[u][p] EXCEPT !.donationRep = rep]]]
    BY <2>1, <1>6, <1>8, Zenon
  <2>4. PICK new : new = given'
    OBVIOUS
  <2>5. new = [hs EXCEPT ![u] = [hs[u] EXCEPT ![p] = y]]
    BY <2>2, <2>3, <2>4, <1>9
  <2>6. /\ new \in Books /\ new[u][p] = y
        /\ \A v \in Users, q \in Posts : v # u \/ q # p => new[v][q] = hs[v][q]
    <3>1. hs \in Books /\ y \in UserPost
      BY <2>2, <1>10
    <3>2. Entered(new, hs, u, p, y)
      BY <2>5 DEF Entered
    <3>3. QED BY <3>1, <3>2, BookChanges
  <2>7. QED BY <2>2, <2>4, <2>6
<1>12. /\ sumRep \in [Posts -> Int] /\ sumRep' \in [Posts -> Int]
       /\ \A q \in Posts : q # p => sumRep'[q] = sumRep[q]
       /\ sumRep'[p] = sumRep[p] + (rep - given[u][p].donationRep)
  <2>1. given[u][p].donationRep \in Nat /\ sumRep \in [Posts -> Int]
    BY <1>3 DEF UserPost, Held
  <2>2. QED BY <2>1, <1>6
<1>13. Agrees(sumRep', given')
  <2>1. PICK hs \in Books : hs = given'
    BY <1>11
  <2>2. PICK new \in [Posts -> Int] : new = sumRep'
    BY <1>12
  <2>3. new[p] = sumRep[p] + ((hs[u][p].donationRep - hs[u][p].reportRep)
                               - (given[u][p].donationRep - given[u][p].reportRep))
    <3>1. given[u][p].donationRep \in Nat /\ given[u][p].reportRep \in Nat /\ sumRep[p] \in Int
      BY <1>3, <1>12 DEF UserPost
    <3>2. hs[u][p].donationRep = rep /\ hs[u][p].reportRep = given[u][p].reportRep
      BY <2>1, <1>10, <1>11
    <3>3. new[p] = sumRep[p] + (rep - given[u][p].donationRep)
      BY <2>2, <1>12
    <3>4. QED BY <3>1, <3>2, <3>3
  <2>4. \A v \in Users, q \in Posts : v # u \/ q # p => hs[v][q] = given[v][q]
    BY <2>1, <1>11
  <2>5. \A q \in Posts : q # p => new[q] = sumRep[q]
    BY <2>2, <1>12
  <2>6. Agrees(new, hs)
    BY <2>3, <2>4, <2>5, <1>3, <1>12, SumRepChanges
  <2>7. QED BY <2>1, <2>2, <2>6
<1>14. Held'
  <2>1. PICK e : e = RoundWith(rounds[current], u, p, s, dp)
    OBVIOUS
  <2>2. RoundOK(rounds[current], now) /\ ShapedRound(rounds[current]) /\ now \in Nat
        /\ rounds[current].result = {}
    BY <1>7 DEF Held, IInv
  <2>3. RoundOK(e, now) /\ e.result = {}
    BY <2>1, <2>2, RoundKept
  <2>4. PICK w : w = [m EXCEPT !.donatedIn = current]
    OBVIOUS
  <2>5. w \in Meta /\ w.customer >= InitialScore
    BY <2>4, <1>1, <1>7 DEF Meta
  <2>6. UNCHANGED <<now, stake, reportedAt>>
    BY <1>6
  <2>7. user' = [user EXCEPT ![u] = w] /\ rounds' = [rounds EXCEPT ![current] = e]
    BY <1>6, <2>1, <2>4
  <2>8. QED BY <2>3, <2>5, <2>6, <2>7, <1>11, <1>12, HeldKept
<1>15. QED BY <1>13, <1>14

LEMMA ReportHolds ==
  ASSUME IInv, Held, Agrees(sumRep, given), NEW u \in Users, NEW p \in Posts,
         ReportOrUpvote(u, p)
  PROVE  Held' /\ Agrees(sumRep', given')
<1>1. /\ UNCHANGED <<rounds, stake, now>>
      /\ reportedAt' = [reportedAt EXCEPT ![u] = now]
      /\ now' = now /\ rounds' = rounds /\ current' = current /\ stake' = stake
  BY DEF ReportOrUpvote, current
<1>2. reportedAt' \in [Users -> 0 .. now']
  <2>1. reportedAt \in [Users -> 0 .. now] /\ now \in 0 .. now
    BY DEF Held
  <2>2. QED BY <1>1, <2>1
<1>3. /\ now' \in Nat /\ stake' \in [Users -> Nat]
      /\ \A n \in DOMAIN rounds' : RoundOK(rounds'[n], now')
      /\ rounds'[current'].result = {}
  BY <1>1 DEF Held
<1>4. given \in Books /\ given[u][p] \in UserPost /\ sumRep \in [Posts -> Int]
  BY DEF Held, Books, UserPost
<1>5. CASE UNCHANGED <<user, sumRep, given>>
  <2>1. user' = user /\ sumRep' = sumRep /\ given' = given
    BY <1>5
  <2>2. QED BY <2>1, <1>2, <1>3 DEF Held
<1>6. CASE ReportAt(u, p)
  <2>1. PICK m \in Meta : /\ m = Settled(u) /\ m.customer >= InitialScore
                          /\ m.free = user[u].free
    BY SettledIs
  <2>2. PICK rep \in Nat : rep = m.customer + m.free
    BY DEF Meta
  <2>3. /\ user' = [user EXCEPT ![u] = m]
        /\ sumRep' = [sumRep EXCEPT ![p] = sumRep[p] - (rep - given[u][p].reportRep)]
        /\ given' = [given EXCEPT ![u] = [given[u] EXCEPT ![p] =
                       [given[u][p] EXCEPT !.reportRep = rep]]]
    BY <1>6, <2>1, <2>2, Zenon DEF ReportAt
  <2>4. PICK x : x = [given[u][p] EXCEPT !.reportRep = rep]
    OBVIOUS
  <2>5. x \in UserPost /\ x.reportRep = rep /\ x.donationRep = given[u][p].donationRep
    <3>1. PICK old \in UserPost : old = given[u][p]
      BY <1>4
    <3>2. QED BY <2>4, <3>1 DEF UserPost
  <2>6. PICK hs : hs = given'
    OBVIOUS
  <2>7. /\ hs \in Books /\ hs[u][p] = x
        /\ \A v \in Users, q \in Posts : v # u \/ q # p => hs[v][q] = given[v][q]
    <3>1. Entered(hs, given, u, p, x)
      BY <2>3, <2>4, <2>6 DEF Entered
    <3>2. QED BY <1>4, <2>5, <3>1, BookChanges
  <2>8. PICK new : new = sumRep'
    OBVIOUS
  <2>9. /\ new \in [Posts -> Int]
        /\ \A q \in Posts : q # p => new[q] = sumRep[q]
        /\ new[p] = sumRep[p] - (rep - given[u][p].reportRep)
    <3>1. given[u][p].reportRep \in Nat
      BY <1>4 DEF UserPost
    <3>2. QED BY <2>3, <2>8, <3>1, <1>4
  <2>10. new[p] = sumRep[p] + ((hs[u][p].donationRep - hs[u][p].reportRep)
                                 - (given[u][p].donationRep - given[u][p].reportRep))
    <3>1. given[u][p].donationRep \in Nat /\ given[u][p].reportRep \in Nat /\ sumRep[p] \in Int
      BY <1>4 DEF UserPost
    <3>2. hs[u][p].reportRep = rep /\ hs[u][p].donationRep = given[u][p].donationRep
      BY <2>5, <2>7
    <3>3. QED BY <2>9, <3>1, <3>2
  <2>11. Agrees(new, hs)
    BY <2>7, <2>9, <2>10, <1>4, SumRepChanges
  <2>12. user' \in [Users -> Meta] /\ \A v \in Users : user'[v].customer >= InitialScore
    <3>1. user \in [Users -> Meta] /\ \A v \in Users : user[v].customer >= InitialScore
      BY DEF Held
    <3>2. user' \in [Users -> Meta] /\ user'[u] = m /\ \A v \in Users : v # u => user'[v] = user[v]
      BY <2>3, <3>1
    <3>3. QED BY <2>1, <3>1, <3>2
  <2>13. given' \in [Users -> [Posts -> [donated : Nat, donationRep : Nat, reportRep : Nat]]]
    BY <2>6, <2>7 DEF Books, UserPost
  <2>14. Held'
    BY <1>2, <1>3, <2>8, <2>9, <2>12, <2>13 DEF Held
  <2>15. QED BY <2>6, <2>8, <2>11, <2>14
<1>7. QED BY <1>5, <1>6 DEF ReportOrUpvote

LEMMA StakeHolds ==
  ASSUME IInv, Held, Agrees(sumRep, given), NEW u \in Users, NEW amount \in Nat,
         AddStake(u, amount) \/ MinusStake(u, amount)
  PROVE  Held' /\ Agrees(sumRep', given')
<1>1. /\ sumRep' = sumRep /\ given' = given /\ rounds' = rounds /\ reportedAt' = reportedAt
      /\ now' = now /\ current' = current
  BY DEF AddStake, MinusStake, current
<1>2. Agrees(sumRep', given')
  BY <1>1
<1>3. stake \in [Users -> Nat] /\ stake[u] \in Nat
      /\ user \in [Users -> Meta] /\ \A v \in Users : user[v].customer >= InitialScore
  BY DEF Held
<1>4. /\ stake' \in [Users -> Nat]
      /\ user' \in [Users -> Meta] /\ \A v \in Users : user'[v].customer >= InitialScore
  <2>1. CASE AddStake(u, amount)
    <3>1. stake' = [stake EXCEPT ![u] = stake[u] + amount] /\ user' = user
      BY <2>1 DEF AddStake
    <3>2. QED BY <1>3, <3>1
  <2>2. CASE MinusStake(u, amount)
    <3>1. amount <= stake[u] /\ stake' = [stake EXCEPT ![u] = stake[u] - amount]
      BY <2>2 DEF MinusStake
    <3>2. PICK f : f = FreeScoreOf(amount)
      OBVIOUS
    <3>3. f \in Nat
      <4>1. PICK h \in Nat \ {0} : h = 10000
        OBVIOUS
      <4>2. PICK a \in Nat : a = amount * 15
        OBVIOUS
      <4>3. a \div h \in Nat
        BY DivDef
      <4>4. QED BY <3>2, <4>1, <4>2, <4>3 DEF FreeScoreOf
    <3>4. PICK m : m = [user[u] EXCEPT !.free = user[u].free + f]
      OBVIOUS
    <3>5. user' = [user EXCEPT ![u] = m]
      BY <2>2, <3>2, <3>4, Zenon DEF MinusStake, OnStakeIn
    <3>6. m \in Meta /\ m.customer >= InitialScore
      <4>1. PICK old \in Meta : old = user[u] /\ old.customer >= InitialScore
        BY <1>3
      <4>2. old.free + f \in Nat /\ m = [old EXCEPT !.free = old.free + f]
        BY <3>3, <3>4, <4>1 DEF Meta
      <4>3. QED BY <4>1, <4>2 DEF Meta
    <3>7. user' \in [Users -> Meta] /\ \A v \in Users : user'[v].customer >= InitialScore
      <4>1. user' \in [Users -> Meta] /\ user'[u] = m
            /\ \A v \in Users : v # u => user'[v] = user[v]
        BY <1>3, <3>5, <3>6
      <4>2. QED BY <1>3, <3>6, <4>1
    <3>8. stake' \in [Users -> Nat]
      BY <1>3, <3>1
    <3>9. QED BY <3>7, <3>8
  <2>3. QED BY <2>1, <2>2
<1>5. Held'
  BY <1>1, <1>4 DEF Held
<1>6. QED BY <1>2, <1>5

LEMMA BlockHolds ==
  ASSUME IInv, Held, Agrees(sumRep, given), NEW t \in Nat, EndBlock(t)
  PROVE  Held' /\ Agrees(sumRep', given')
<1>1. /\ user' = user /\ sumRep' = sumRep /\ given' = given /\ stake' = stake
      /\ reportedAt' = reportedAt /\ now' = t /\ t >= now
  BY DEF EndBlock
<1>2. current \in Nat /\ current >= 1 /\ DOMAIN rounds = 1 .. current /\ now \in Nat
  BY Numbers DEF Held
<1>3. reportedAt' \in [Users -> 0 .. now'] /\ now' \in Nat
  <2>1. \A x \in 0 .. now : x \in 0 .. t
    BY <1>1, <1>2
  <2>2. reportedAt \in [Users -> 0 .. now]
    BY DEF Held
  <2>3. reportedAt \in [Users -> 0 .. t]
    BY <2>1, <2>2
  <2>4. QED BY <1>1, <2>3
<1>4. \A n \in 1 .. current : RoundOK(rounds[n], now) /\ ShapedRound(rounds[n])
  BY <1>2 DEF Held, IInv
<1>5. \A n \in 1 .. current : RoundOK(rounds[n], t)
  BY <1>1, <1>2, <1>4, RoundAges
<1>6. /\ \A n \in DOMAIN rounds' : RoundOK(rounds'[n], now')
      /\ rounds'[current'].result = {}
  <2>1. CASE rounds' = rounds
    <3>1. current' = current
      BY <2>1 DEF current
    <3>2. rounds[current].result = {}
      BY DEF Held
    <3>3. QED BY <1>1, <1>2, <1>5, <2>1, <3>1, <3>2
  <2>2. CASE rounds' # rounds
    <3>1. PICK res : res = ResultOf(rounds[current])
      OBVIOUS
    <3>2. PICK e : e = [rounds[current] EXCEPT !.result = res]
      OBVIOUS
    <3>3. PICK new : new = NewRound(now)
      OBVIOUS
    <3>4. rounds' = Append([rounds EXCEPT ![current] = e], new)
      BY <2>2, <3>1, <3>2, <3>3, Zenon DEF EndBlock, Update
    <3>5. PICK ended : ended = [rounds EXCEPT ![current] = e]
      OBVIOUS
    <3>6. /\ DOMAIN ended = 1 .. current /\ ended[current] = e
          /\ \A n \in 1 .. current : n # current => ended[n] = rounds[n]
      BY <1>2, <3>5
    <3>7. RoundOK(e, t)
      <4>1. current \in 1 .. current
        BY <1>2
      <4>2. res \in SUBSET Posts
        BY <1>4, <3>1, <4>1, ResultListed
      <4>3. QED BY <1>4, <1>5, <3>2, <4>1, <4>2, RoundEnds
    <3>8. RoundOK(new, t) /\ new.result = {}
      BY <1>1, <1>2, <3>3, RoundStarts, RoundAges
    <3>9. \A n \in 1 .. current : RoundOK(ended[n], t)
      BY <1>5, <3>6, <3>7
    <3>10. /\ current' = current + 1 /\ DOMAIN rounds' = 1 .. current + 1
           /\ \A n \in 1 .. current : rounds'[n] = ended[n]
           /\ rounds'[current + 1] = new
      <4> DEFINE S == {ended[n] : n \in 1 .. current} \cup {new}
      <4>1. ended \in Seq(S) /\ Len(ended) = current
        <5>1. ended = [n \in 1 .. current |-> ended[n]]
          BY <3>5, <3>6
        <5>2. \A n \in 1 .. current : ended[n] \in S
          OBVIOUS
        <5>3. /\ [n \in 1 .. current |-> ended[n]] \in Seq(S)
              /\ Len([n \in 1 .. current |-> ended[n]]) = current
          BY ONLY <5>2, <1>2, IsASeq
        <5> HIDE DEF S
        <5>4. QED BY <5>1, <5>3
      <4>2. new \in S
        OBVIOUS
      <4> HIDE DEF S
      <4>3. /\ Append(ended, new) \in Seq(S)
            /\ Len(Append(ended, new)) = current + 1
            /\ \A n \in 1 .. current : Append(ended, new)[n] = ended[n]
            /\ Append(ended, new)[current + 1] = new
        BY <4>1, <4>2, AppendProperties
      <4>4. rounds' = Append(ended, new)
        BY <3>4, <3>5
      <4>5. rounds' \in Seq(S) /\ current' = current + 1
        BY <4>3, <4>4 DEF current
      <4>6. DOMAIN rounds' = 1 .. current + 1
        BY <4>5, LenProperties DEF current
      <4>7. QED BY <4>3, <4>4, <4>5, <4>6
    <3>11. \A n \in DOMAIN rounds' : RoundOK(rounds'[n], t)
      <4>1. ASSUME NEW n \in 1 .. current + 1 PROVE RoundOK(rounds'[n], t)
        <5>1. CASE n \in 1 .. current
          BY <3>9, <3>10, <5>1
        <5>2. CASE n \notin 1 .. current
          <6>1. n = current + 1
            BY <1>2, <5>2
          <6>2. QED BY <3>8, <3>10, <6>1
        <5>3. QED BY <5>1, <5>2
      <4>2. QED BY <3>10, <4>1
    <3>12. QED BY <1>1, <3>8, <3>10, <3>11
  <2>3. QED BY <2>1, <2>2
<1>7. Held'
  BY <1>1, <1>3, <1>6 DEF Held
<1>8. QED BY <1>1, <1>7

LEMMA InitHolds == Init => RInv
<1> SUFFICES ASSUME Init PROVE RInv
  OBVIOUS
<1>0. /\ InitialScore \in Nat /\ Duration \in Nat /\ IsFiniteSet(Users)
  BY ReputationAssumption
<1>1. /\ rounds = <<NewRound(0)>> /\ current = 1 /\ DOMAIN rounds = {1}
      /\ rounds[1] = NewRound(0) /\ now = Duration
  BY DEF Init, current
<1>2. /\ user = [u \in Users |-> NewUser] /\ sumRep = [p \in Posts |-> 0]
      /\ given = [u \in Users |-> [p \in Posts |-> NewUserPost]]
      /\ stake = [u \in Users |-> 0] /\ reportedAt = [u \in Users |-> 0]
  BY DEF Init
<1>3. NewUser \in Meta /\ NewUser.customer = InitialScore /\ NewUserPost \in UserPost
      /\ NewUserPost.donationRep = 0 /\ NewUserPost.reportRep = 0
  BY <1>0 DEF NewUser, Meta, NewUserPost, UserPost
<1>4. RoundOK(NewRound(0), now) /\ NewRound(0).result = {}
  <2>1. PICK z \in Nat : z = 0
    OBVIOUS
  <2>2. RoundOK(NewRound(z), z) /\ NewRound(z).result = {} /\ z <= now /\ now \in Nat
    BY <1>0, <1>1, <2>1, RoundStarts
  <2>3. QED BY <2>1, <2>2, RoundAges
<1>5. Held
  <2>1. user \in [Users -> Meta] /\ \A u \in Users : user[u].customer >= InitialScore
    BY <1>0, <1>2, <1>3
  <2>2. given \in [Users -> [Posts -> [donated : Nat, donationRep : Nat, reportRep : Nat]]]
    BY <1>2, <1>3 DEF UserPost
  <2>3. reportedAt \in [Users -> 0 .. now] /\ now \in Nat /\ stake \in [Users -> Nat]
    BY <1>0, <1>1, <1>2
  <2>4. sumRep \in [Posts -> Int]
    BY <1>2
  <2>5. \A n \in DOMAIN rounds : RoundOK(rounds[n], now)
    BY <1>1, <1>4
  <2>6. rounds[current].result = {}
    BY <1>1, <1>4
  <2>7. QED BY <2>1, <2>2, <2>3, <2>4, <2>5, <2>6 DEF Held
<1>6. Agrees(sumRep, given)
  <2>1. ASSUME NEW p \in Posts PROVE sumRep[p] = SumFunction(Balance(given, p))
    <3>1. DOMAIN Balance(given, p) = Users
      BY DEF Balance
    <3>2. \A u \in Users : Balance(given, p)[u] = 0
      BY <1>2, <1>3 DEF Balance
    <3>3. SumFunctionOnSet(Balance(given, p), Users) = 0
      BY <1>0, <3>2, SumZero
    <3>4. QED BY <1>2, <3>1, <3>3 DEF SumFunction
  <2>2. QED BY <2>1 DEF Agrees
<1>7. QED BY <1>5, <1>6, InitIInv DEF RInv

LEMMA NextHolds ==
  ASSUME RInv, [Next]_vars
  PROVE  RInv'
<1>1. IInv /\ Held /\ Agrees(sumRep, given)
  BY DEF RInv
<1>2. IInv'
  BY <1>1, NextIInv
<1>3. CASE UNCHANGED vars
  <2>1. /\ user' = user /\ sumRep' = sumRep /\ given' = given /\ rounds' = rounds
        /\ stake' = stake /\ reportedAt' = reportedAt /\ now' = now /\ current' = current
    BY <1>3 DEF vars, current
  <2>2. Held' /\ Agrees(sumRep', given')
    BY <1>1, <2>1 DEF Held
  <2>3. QED BY <1>2, <2>2 DEF RInv
<1>4. ASSUME NEW d \in Donations, DonateAt(d[1], d[2], d[3])
      PROVE  Held' /\ Agrees(sumRep', given')
  <2>1. d[1] \in Users /\ d[2] \in Posts /\ d[3] \in Nat
    BY ReputationAssumption
  <2>2. QED BY <1>1, <1>4, <2>1, DonateHolds
<1>5. ASSUME NEW r \in Reports, ReportOrUpvote(r[1], r[2])
      PROVE  Held' /\ Agrees(sumRep', given')
  <2>1. r[1] \in Users /\ r[2] \in Posts
    BY ReputationAssumption
  <2>2. QED BY <1>1, <1>5, <2>1, ReportHolds
<1>6. ASSUME NEW l \in Locks, AddStake(l[1], l[2]) \/ MinusStake(l[1], l[2])
      PROVE  Held' /\ Agrees(sumRep', given')
  <2>1. l[1] \in Users /\ l[2] \in Nat
    BY ReputationAssumption
  <2>2. QED BY <1>1, <1>6, <2>1, StakeHolds
<1>7. ASSUME NEW t \in 0 .. MaxTime, EndBlock(t)
      PROVE  Held' /\ Agrees(sumRep', given')
  <2>1. t \in Nat
    BY ReputationAssumption
  <2>2. QED BY <1>1, <1>7, <2>1, BlockHolds
<1>8. CASE Next
  <2>1. Held' /\ Agrees(sumRep', given')
    BY <1>4, <1>5, <1>6, <1>7, <1>8 DEF Next
  <2>2. QED BY <1>2, <2>1 DEF RInv
<1>9. QED BY <1>3, <1>8

(* What the invariant says holds in every state.                            *)
THEOREM Invariance == Spec => []RInv
<1>1. Init => RInv
  BY InitHolds
<1>2. RInv /\ [Next]_vars => RInv'
  BY NextHolds
<1>3. QED BY <1>1, <1>2, PTL DEF Spec

(* Every value has its type, and more: no score is below the initial one,   *)
(* what a round says of its donation power is the sum of its posts', and    *)
(* the best posts are in order, each once (setUserMeta, IncRoundSumDp,      *)
(* SetRoundPostSumDp).                                                      *)
LEMMA RoundTyped ==
  ASSUME NEW r, NEW t \in Nat, RoundOK(r, t)
  PROVE  /\ r.post \in [Posts -> RoundPost]
         /\ r.has \in [Users -> [Posts -> Nat]]
         /\ r.sumDp = SumFunction([p \in Posts |-> r.post[p].dp])
         /\ r.result \subseteq Posts
         /\ r.startAt <= t
         /\ TopOK(r)
<1>1. TopOK(r)
  <2>1. PICK top \in Seq(Entry), n \in Nat : /\ top = r.topN /\ n = Len(top)
                                             /\ DOMAIN top = 1 .. n /\ n <= Best
    <3>1. PICK top \in Seq(Entry) : top = r.topN /\ Len(top) <= Best
      BY DEF RoundOK, Tops
    <3>2. Len(top) \in Nat /\ DOMAIN top = 1 .. Len(top)
      OBVIOUS
    <3>3. QED BY <3>1, <3>2
  <2>2. /\ \A i \in 1 .. n : top[i].dp = Powers(r)[top[i].post]
        /\ \A i, j \in 1 .. n : i < j => top[i].dp >= top[j].dp /\ top[i].post # top[j].post
    BY <2>1 DEF RoundOK, Tops
  <2>3. ASSUME NEW i \in 1 .. n
        PROVE  /\ top[i].post \in Posts /\ top[i].dp = r.post[top[i].post].dp
               /\ \A j \in 1 .. i - 1 : top[j].dp >= top[i].dp /\ top[j].post # top[i].post
    <3>1. top[i] \in Entry
      BY <2>1
    <3>2. top[i].post \in Posts
      BY <3>1 DEF Entry
    <3>3. top[i].dp = r.post[top[i].post].dp
      BY <2>2, <3>2 DEF Powers
    <3>4. \A j \in 1 .. i - 1 : j \in 1 .. n /\ j < i
      BY <2>1
    <3>5. QED BY <2>2, <3>2, <3>3, <3>4
  <2>4. QED BY <2>1, <2>3 DEF TopOK
<1>2. QED BY <1>1 DEF RoundOK, Powers

(* The records of the store keep their types through donations, reports,    *)
(* stake and the ends of rounds.                                            *)
THEOREM TypeCorrect == Spec => []TypeOK
<1>1. ASSUME RInv PROVE TypeOK
  <2>1. IInv /\ Held
    BY <1>1 DEF RInv
  <2>2. current >= 1 /\ now \in Nat
    BY <2>1 DEF IInv, Held
  <2>3. user \in [Users -> UserMeta]
    <3>1. \A m \in Meta : m \in UserMeta
      BY DEF Meta, UserMeta
    <3>2. user \in [Users -> Meta]
      BY <2>1 DEF Held
    <3>3. QED BY <3>1, <3>2
  <2>4. \A u \in Users : /\ user[u].customer >= InitialScore
                         /\ user[u].settled <= user[u].donatedIn
                         /\ user[u].donatedIn <= current
    BY <2>1 DEF Held, IInv, ShapedUser
  <2>5. ASSUME NEW n \in DOMAIN rounds
        PROVE  LET r == rounds[n]
               IN /\ r.post \in [Posts -> RoundPost]
                  /\ r.has \in [Users -> [Posts -> Nat]]
                  /\ r.sumDp = SumFunction([p \in Posts |-> r.post[p].dp])
                  /\ r.result \subseteq Posts /\ n = current => r.result = {}
                  /\ r.startAt <= now
                  /\ TopOK(r)
    <3>1. RoundOK(rounds[n], now) /\ rounds[current].result = {}
      BY <2>1 DEF Held
    <3>2. QED BY <2>2, <3>1, RoundTyped
  <2>6. QED BY <2>1, <2>2, <2>3, <2>4, <2>5 DEF Held, TypeOK
<1>2. RInv => TypeOK
  BY <1>1
<1>3. QED BY <1>2, Invariance, PTL

(* Every key of a post is somebody's, and was paid for: prices rise by one  *)
(* with every key sold, and what a donation cannot buy it does not get      *)
(* (numKeysCanBuy, buyKey).                                                 *)
THEOREM KeysPaid == Spec => []KeysAgree
<1>1. ASSUME RInv PROVE KeysAgree
  <2>1. ASSUME NEW n \in DOMAIN rounds, NEW p \in Posts PROVE Sold(rounds[n], p)
    BY <1>1 DEF RInv, Held, RoundOK
  <2>2. QED BY <2>1 DEF KeysAgree, Sold, KeysOf
<1>2. RInv => KeysAgree
  BY <1>1
<1>3. QED BY <1>2, Invariance, PTL

(* A post has the reputation of its donors, less that of its reporters, as  *)
(* it was when each last gave or reported (incPostSumRep, ReportAt).        *)
THEOREM PostsReputation == Spec => []SumRepAgrees
<1>1. RInv => SumRepAgrees
  BY AgreeIs DEF RInv
<1>2. QED BY <1>1, Invariance, PTL

BestListed ==
  \A n \in DOMAIN rounds : Tops(rounds[n].topN, Powers(rounds[n]))

(* The best posts are the best: an unlisted post with power has no more     *)
(* than any in the list, which is then full (SetRoundPostSumDp).            *)
THEOREM BestPosts == Spec => []BestListed
<1>1. RInv => BestListed
  BY DEF RInv, Held, RoundOK, BestListed
<1>2. QED BY <1>1, Invariance, PTL

------------------------------------------------------------------------------
(****************************************************************************)
(* Settling late makes no difference: the steps are those of Rounds.  First *)
(* that what is computed here is what Rounds says of keys and scores.       *)
(****************************************************************************)
LEMMA PricesRise ==
  ASSUME NEW c \in Nat, NEW a \in Nat, NEW b \in Nat, a <= b
  PROVE  a * (2 * c + (a - 1)) <= b * (2 * c + (b - 1))
PROOF
<1>1. PICK d \in Nat : d = b - a /\ b = a + d
  OBVIOUS
<1>2. b * (2 * c + (b - 1)) = a * (2 * c + (a - 1)) + d * (2 * (c + a) + (d - 1))
  BY <1>1, SMT
<1>3. d * (2 * (c + a) + (d - 1)) >= 0
  <2>1. CASE d = 0
    BY <2>1
  <2>2. CASE d # 0
    <3>1. PICK e \in Nat : e = 2 * (c + a) + (d - 1)
      BY <2>2
    <3>2. d * e >= 0
      BY SMT
    <3>3. QED BY <3>1, <3>2
  <2>3. QED BY <2>1, <2>2
<1>4. PICK x \in Int : x = a * (2 * c + (a - 1))
  OBVIOUS
<1>5. PICK y \in Int : y = d * (2 * (c + a) + (d - 1))
  OBVIOUS
<1>6. b * (2 * c + (b - 1)) = x + y /\ y >= 0
  BY <1>2, <1>3, <1>4, <1>5
<1>7. QED BY <1>4, <1>6

(* The keys that the search finds are the most there are.                   *)
LEMMA KeysAreMost ==
  ASSUME NEW sold \in Nat, NEW s \in Nat
  PROVE  Eager!KeysFor(KeyPrice + sold, s) = NumKeysCanBuy(sold, s)
PROOF
<1>0. KeyPrice \in Nat /\ MaxKeys \in Nat
  BY ReputationAssumption
<1>1. PICK c \in Nat : c = KeyPrice + sold
  BY <1>0
<1>2. PICK m : m = NumKeysCanBuy(sold, s)
  OBVIOUS
<1>3. Buys(c, s, m)
  BY <1>1, <1>2, KeysBought
<1>4. PICK S : S = {k \in 0 .. MaxKeys + 1 : k * (2 * c + k - 1) <= 2 * s}
  OBVIOUS
<1>5. ASSUME NEW k \in 0 .. MaxKeys + 1
      PROVE  2 * c + k - 1 = 2 * c + (k - 1)
  BY <1>0
<1>6. m \in S
  <2>1. m \in 0 .. MaxKeys + 1 /\ m * (2 * c + (m - 1)) <= 2 * s
    BY <1>3 DEF Buys
  <2>2. 2 * c + m - 1 = 2 * c + (m - 1)
    BY <1>5, <2>1
  <2>3. QED BY <1>4, <2>1, <2>2
<1>7. ASSUME NEW k \in S PROVE m >= k
  <2>1. k \in 0 .. MaxKeys + 1 /\ k * (2 * c + (k - 1)) <= 2 * s
    BY <1>4, <1>5
  <2>2. ASSUME k >= m + 1 PROVE FALSE
    <3>1. m \in Nat /\ m + 1 \in Nat /\ k \in Nat /\ m # MaxKeys + 1
      BY <1>0, <1>6, <1>4, <2>1, <2>2
    <3>2. (m + 1) * (2 * c + ((m + 1) - 1)) <= k * (2 * c + (k - 1))
      BY <2>2, <3>1, PricesRise
    <3>3. (m + 1) - 1 = m
      BY <3>1
    <3>4. ~ ((m + 1) * (2 * c + m) <= 2 * s)
      BY <1>3, <3>1 DEF Buys
    <3>5. PICK x \in Int : x = (m + 1) * (2 * c + m)
      BY <3>1
    <3>6. PICK y \in Int : y = k * (2 * c + (k - 1))
      BY <3>1
    <3>7. x <= y /\ y <= 2 * s /\ ~ (x <= 2 * s)
      BY <2>1, <3>2, <3>3, <3>4, <3>5, <3>6
    <3>8. QED BY <3>7
  <2>3. m \in Int /\ k \in Int
    BY <1>4, <1>6, <2>1
  <2>4. QED BY <2>2, <2>3
<1>8. ASSUME NEW x \in S, \A y \in S : x >= y PROVE x = m
  <2>1. x \in Int /\ m \in Int /\ x >= m /\ m >= x
    BY <1>4, <1>6, <1>7, <1>8
  <2>2. QED BY <2>1
<1>9. Eager!Max(S) = m
  BY <1>6, <1>7, <1>8 DEF Eager!Max
<1>10. QED BY <1>1, <1>2, <1>4, <1>9 DEF Eager!KeysFor

(* What settling makes of a score is the greatest of the three.             *)
LEMMA ScoreIsGreatest ==
  ASSUME NEW old \in Nat, NEW earned \in Nat
  PROVE  Eager!Rescored(old, earned) = NewScore(old, earned)
PROOF
<1>1. PICK w \in Nat \ {0} : w = Window
  BY ReputationAssumption
<1>2. PICK i \in Nat : i = InitialScore
  BY ReputationAssumption
<1>3. PICK d \in Nat : d = Decay /\ d = 100 - 100 \div (3 * Window)
  BY DecayIs DEF Decay
<1>4. PICK a \in Nat : a = ((old * (Window - 1)) + earned) \div Window
  <2>1. (old * (w - 1)) + earned \in Nat
    BY SMT
  <2>2. ((old * (w - 1)) + earned) \div w \in Nat
    BY <2>1, DivDef
  <2>3. QED BY <1>1, <2>2
<1>5. a = ((Window - 1) * old + earned) \div Window
  <2>1. old * (w - 1) = (w - 1) * old
    BY SMT
  <2>2. QED BY <1>1, <1>4, <2>1
<1>6. PICK b \in Nat : b = (old * Decay) \div 100
  <2>1. old * d \in Nat
    BY SMT
  <2>2. PICK h \in Nat \ {0} : h = 100
    OBVIOUS
  <2>3. (old * d) \div h \in Nat
    BY <2>1, DivDef
  <2>4. QED BY <1>3, <2>2, <2>3
<1>7. Eager!Rescored(old, earned) = Eager!Max({a, b, i})
  BY <1>2, <1>3, <1>5, <1>6 DEF Eager!Rescored
<1>8. PICK m \in Nat : m = Most(Most(a, b), i)
  BY DEF Most
<1>9. m \in {a, b, i} /\ m >= a /\ m >= b /\ m >= i
  BY <1>8 DEF Most
<1>10. Eager!Max({a, b, i}) = m
  <2>1. \A y \in {a, b, i} : m >= y
    BY <1>9
  <2>2. ASSUME NEW x \in {a, b, i}, \A y \in {a, b, i} : x >= y PROVE x = m
    BY <1>9, <2>2
  <2>3. QED BY <1>9, <2>1, <2>2 DEF Eager!Max
<1>11. NewScore(old, earned) = m
  BY <1>2, <1>4, <1>6, <1>8 DEF NewScore
<1>12. QED BY <1>7, <1>10, <1>11

(* The least and the greatest of two.                                       *)
LEMMA OfTwo ==
  ASSUME NEW a \in Int, NEW b \in Int
  PROVE  Eager!Min({a, b}) = Least(a, b) /\ Eager!Max({a, b}) = Most(a, b)
PROOF
<1>1. PICK x \in Int : x = Least(a, b)
  BY DEF Least
<1>2. PICK y \in Int : y = Most(a, b)
  BY DEF Most
<1>3. x \in {a, b} /\ x <= a /\ x <= b /\ y \in {a, b} /\ y >= a /\ y >= b
  BY <1>1, <1>2 DEF Least, Most
<1>4. Eager!Min({a, b}) = x
  <2>1. ASSUME NEW z \in {a, b}, \A v \in {a, b} : z <= v PROVE z = x
    BY <1>3, <2>1
  <2>2. QED BY <1>3, <2>1 DEF Eager!Min
<1>5. Eager!Max({a, b}) = y
  <2>1. ASSUME NEW z \in {a, b}, \A v \in {a, b} : z >= v PROVE z = y
    BY <1>3, <2>1
  <2>2. QED BY <1>3, <2>1 DEF Eager!Max
<1>6. QED BY <1>1, <1>2, <1>4, <1>5

------------------------------------------------------------------------------
(* The posts of the first places.                                           *)
PostsOf(top, m) == {top[i].post : i \in 1 .. m}

(* What Update goes through: the places 1 .. m, each with power of its own, *)
(* before the last of them less than the goal is covered, and then it stops *)
(* for want of places or of power or because the goal is reached.           *)
Leaders(top, D, goal, m) ==
  /\ m \in 0 .. Len(top)
  /\ \A i \in 1 .. m : D[top[i].post] > 0
  /\ \A i \in 1 .. m - 1 : SumFunctionOnSet(D, PostsOf(top, i)) < goal
  /\ \/ m = Len(top)
     \/ m < Len(top) /\ D[top[m + 1].post] = 0
     \/ m >= 1 /\ SumFunctionOnSet(D, PostsOf(top, m)) >= goal

LEMMA TopsAre ==
  ASSUME NEW D \in [Posts -> Nat], NEW top, Tops(top, D)
  PROVE  /\ Len(top) \in Nat /\ DOMAIN top = 1 .. Len(top) /\ Len(top) <= Best
         /\ \A i \in 1 .. Len(top) : top[i].post \in Posts /\ top[i].dp = D[top[i].post]
         /\ \A i, j \in 1 .. Len(top) : i # j => top[i].post # top[j].post
         /\ \A i, j \in 1 .. Len(top) : i <= j => D[top[i].post] >= D[top[j].post]
PROOF
<1>1. /\ top \in Seq(Entry) /\ Len(top) <= Best
      /\ \A i \in 1 .. Len(top) : top[i].dp = D[top[i].post]
      /\ \A i, j \in 1 .. Len(top) : i < j => top[i].dp >= top[j].dp /\ top[i].post # top[j].post
  BY DEF Tops
<1>2. PICK n \in Nat : n = Len(top) /\ DOMAIN top = 1 .. n
  BY <1>1
<1>3. ASSUME NEW i \in 1 .. n PROVE top[i].post \in Posts
  <2>1. top[i] \in Entry
    BY <1>1, <1>2
  <2>2. QED BY <2>1 DEF Entry
<1>4. ASSUME NEW i \in 1 .. n, NEW j \in 1 .. n, i # j PROVE top[i].post # top[j].post
  <2>1. i < j \/ j < i
    BY <1>4
  <2>2. QED BY <1>1, <1>2, <2>1
<1>5. ASSUME NEW i \in 1 .. n, NEW j \in 1 .. n, i <= j
      PROVE  D[top[i].post] >= D[top[j].post]
  <2>1. CASE i = j
    <3>1. D[top[j].post] \in Nat
      BY <1>3
    <3>2. QED BY <2>1, <3>1
  <2>2. CASE i < j
    BY <1>1, <1>2, <2>2
  <2>3. QED BY <1>5, <2>1, <2>2
<1>6. QED BY <1>1, <1>2, <1>3, <1>4, <1>5

(* Each place is a post.                                                    *)
LEMMA PlacesArePosts ==
  ASSUME NEW D \in [Posts -> Nat], NEW top, Tops(top, D), NEW m \in 0 .. Len(top)
  PROVE  /\ PostsOf(top, m) \in SUBSET Posts
         /\ IsFiniteSet(PostsOf(top, m)) /\ Cardinality(PostsOf(top, m)) = m
         /\ SumFunctionOnSet(D, PostsOf(top, m)) \in Nat
         /\ SumFunction([j \in 1 .. m |-> D[top[j].post]]) = SumFunctionOnSet(D, PostsOf(top, m))
PROOF
<1>1. PICK n \in Nat : /\ n = Len(top) /\ m \in 0 .. n
                       /\ \A i \in 1 .. n : top[i].post \in Posts
                       /\ \A i, j \in 1 .. n : i # j => top[i].post # top[j].post
  BY TopsAre
<1>2. \A i \in 1 .. m : i \in 1 .. n
  BY <1>1
<1>3. PICK S : S = 1 .. m
  OBVIOUS
<1>4. IsFiniteSet(S) /\ Cardinality(S) = m
  BY <1>1, <1>3, FS_Interval
<1>5. PICK T : T = PostsOf(top, m)
  OBVIOUS
<1> DEFINE h == [i \in S |-> top[i].post]
           g == [i \in S |-> D[top[i].post]]
<1>6. /\ T \in SUBSET Posts /\ h \in [S -> T]
      /\ \A p \in T : \E i \in S : p = h[i]
      /\ \A i, j \in S : h[i] = h[j] => i = j
  BY <1>1, <1>2, <1>3, <1>5 DEF PostsOf
<1>7. g \in [S -> Int] /\ \A i \in S : g[i] \in Int /\ D[h[i]] = g[i]
  BY <1>1, <1>2, <1>3
<1> HIDE DEF g, h
<1>8. SumFunctionOnSet(D, T) = SumFunctionOnSet(g, S)
  <2>1. Matches(S, T, h, D, g)
    BY <1>6, <1>7 DEF Matches
  <2>2. QED BY <1>4, <2>1, SumMapped
<1>9. SumFunction(g) = SumFunctionOnSet(g, S)
  BY <1>4, <1>7, SumTotal
<1>10. IsFiniteSet(T) /\ Cardinality(T) = m
  <2>1. h \in Bijection(S, T)
    BY <1>6 DEF Bijection, Injection, Surjection, IsInjective
  <2>2. ExistsBijection(S, T)
    BY <2>1 DEF ExistsBijection
  <2>3. QED BY <1>4, <2>2, FS_Bijection
<1>11. SumFunctionOnSet(D, T) \in Nat
  <2>1. \A p \in T : D[p] \in Nat
    BY <1>6
  <2>2. QED BY <1>10, <2>1, SumNat
<1>12. g = [j \in 1 .. m |-> D[top[j].post]]
  BY <1>3 DEF g
<1>13. QED BY <1>5, <1>6, <1>8, <1>9, <1>10, <1>11, <1>12

(* The posts that Update looks at are the leading ones.                     *)
Leads(D, goal, posts) ==
  /\ \A p \in posts : D[p] > 0
  /\ \A p \in posts, q \in Posts \ posts : D[p] >= D[q]
  /\ Cardinality(posts) <= Best
  /\ posts = {} => SumFunctionOnSet(D, Posts) = 0
  /\ \/ SumFunctionOnSet(D, posts) >= goal
     \/ Cardinality(posts) = Best
     \/ \A q \in Posts \ posts : D[q] = 0
  /\ \A p \in posts :
       \/ posts = {p}
       \/ \E q \in posts : D[q] < D[p]
       \/ SumFunctionOnSet(D, posts \ {p}) < goal

LEMMA LeadersLead ==
  ASSUME NEW D \in [Posts -> Nat], NEW top, Tops(top, D), NEW goal \in Int,
         NEW m, Leaders(top, D, goal, m)
  PROVE  Leads(D, goal, PostsOf(top, m))
PROOF
<1>0. Best \in Nat \ {0} /\ IsFiniteSet(Posts)
  BY ReputationAssumption
<1>1. PICK n \in Nat : /\ n = Len(top) /\ DOMAIN top = 1 .. n /\ n <= Best
                       /\ \A i \in 1 .. n : top[i].post \in Posts /\ top[i].dp = D[top[i].post]
                       /\ \A i, j \in 1 .. n : i # j => top[i].post # top[j].post
                       /\ \A i, j \in 1 .. n : i <= j => D[top[i].post] >= D[top[j].post]
  BY TopsAre
<1> DEFINE P(i) == D[top[i].post]
           C(i) == SumFunctionOnSet(D, PostsOf(top, i))
           L == PostsOf(top, m)
<1>2. /\ m \in 0 .. n
      /\ \A i \in 1 .. m : i \in 1 .. n /\ P(i) > 0
      /\ \A i \in 1 .. m - 1 : C(i) < goal
      /\ \/ m = n
         \/ m < n /\ P(m + 1) = 0
         \/ m >= 1 /\ C(m) >= goal
  BY <1>1 DEF Leaders
<1>3. /\ L \in SUBSET Posts /\ IsFiniteSet(L) /\ Cardinality(L) = m /\ C(m) \in Nat
  BY <1>1, <1>2, PlacesArePosts
<1>4. \A i \in 1 .. n : P(i) \in Nat
  BY <1>1
<1>5. \A q \in L : \E i \in 1 .. m : q = top[i].post
  BY DEF PostsOf
<1>6. \A i \in 1 .. m : top[i].post \in L
  BY DEF PostsOf
  (* Whatever is not among them is in a later place, or in none.            *)
<1>7. ASSUME NEW q \in Posts \ L
      PROVE  \/ \E i \in m + 1 .. n : q = top[i].post
             \/ D[q] = 0
             \/ n = Best /\ \A i \in 1 .. n : P(i) >= D[q]
  <2>1. CASE Listed(top, q)
    <3>1. PICK i \in 1 .. n : top[i].post = q
      BY <1>1, <2>1 DEF Listed
    <3>2. i \notin 1 .. m
      BY <1>6, <1>7, <3>1
    <3>3. i \in m + 1 .. n
      BY <1>2, <3>1, <3>2
    <3>4. QED BY <3>1, <3>3
  <2>2. CASE ~ Listed(top, q)
    <3>1. D[q] \in Nat
      OBVIOUS
    <3>2. D[q] > 0 => Len(top) = Best /\ \A i \in 1 .. Len(top) : top[i].dp >= D[q]
      BY <2>2, <1>7 DEF Tops
    <3>3. QED BY <1>1, <3>1, <3>2
  <2>3. QED BY <2>1, <2>2
<1> HIDE DEF L, C, P
<1>8. \A p \in L : D[p] > 0
  BY <1>2, <1>5 DEF P
<1>9. ASSUME NEW p \in L, NEW q \in Posts \ L PROVE D[p] >= D[q]
  <2>1. PICK i \in 1 .. m : p = top[i].post
    BY <1>5
  <2>2. i \in 1 .. n /\ D[p] = P(i) /\ D[p] > 0 /\ D[p] \in Nat
    BY <1>2, <1>4, <2>1 DEF P
  <2>3. CASE \E j \in m + 1 .. n : q = top[j].post
    <3>1. PICK j \in m + 1 .. n : q = top[j].post
      BY <2>3
    <3>2. j \in 1 .. n /\ i <= j
      BY <1>2, <2>2
    <3>3. QED BY <1>1, <2>1, <2>2, <3>1, <3>2
  <2>4. QED BY <1>7, <2>2, <2>3
<1>10. Cardinality(L) <= Best
  BY <1>0, <1>1, <1>2, <1>3
  (* Where places are left or power runs out, nothing else has any.         *)
<1>11. ASSUME \/ m = n /\ m # Best
              \/ m < n /\ P(m + 1) = 0
       PROVE  \A q \in Posts \ L : D[q] = 0
  <2>1. ASSUME NEW q \in Posts \ L, D[q] # 0 PROVE FALSE
    <3>1. CASE \E j \in m + 1 .. n : q = top[j].post
      <4>1. PICK j \in m + 1 .. n : q = top[j].post
        BY <3>1
      <4>2. m < n /\ P(m + 1) = 0 /\ m + 1 \in 1 .. n /\ j \in 1 .. n /\ m + 1 <= j
        BY <1>2, <1>11
      <4>3. P(m + 1) >= P(j)
        BY <1>1, <4>2 DEF P
      <4>4. P(j) = D[q] /\ P(j) \in Nat
        BY <1>4, <4>1, <4>2 DEF P
      <4>5. QED BY <2>1, <4>2, <4>3, <4>4
    <3>2. CASE n = Best /\ \A i \in 1 .. n : P(i) >= D[q]
      <4>1. m < n /\ P(m + 1) = 0 /\ m + 1 \in 1 .. n
        BY <1>2, <1>11, <3>2
      <4>2. P(m + 1) >= D[q] /\ D[q] \in Nat
        BY <3>2, <4>1
      <4>3. QED BY <2>1, <4>1, <4>2
    <3>3. QED BY <1>7, <2>1, <3>1, <3>2
  <2>2. QED BY <2>1
<1>12. ASSUME L = {} PROVE SumFunctionOnSet(D, Posts) = 0
  <2>1. m = 0
    <3>1. Cardinality({}) = 0
      BY FS_EmptySet
    <3>2. QED BY <1>3, <1>12, <3>1
  <2>2. \A q \in Posts : D[q] = 0
    BY <1>0, <1>2, <1>11, <1>12, <2>1
  <2>3. QED BY <1>0, <2>2, SumZero
<1>13. \/ SumFunctionOnSet(D, L) >= goal
       \/ Cardinality(L) = Best
       \/ \A q \in Posts \ L : D[q] = 0
  BY <1>2, <1>3, <1>11 DEF C, L
  (* Without any one of the weakest among them the goal is missed.          *)
<1>14. ASSUME NEW p \in L, L # {p}, ~ \E q \in L : D[q] < D[p]
       PROVE  SumFunctionOnSet(D, L \ {p}) < goal
  <2>1. PICK i \in 1 .. m : p = top[i].post
    BY <1>5
  <2>2. m \in 1 .. n /\ m \in 1 .. m /\ i \in 1 .. n /\ m \in Nat /\ i <= m
    BY <1>2
  <2>3. m # 1
    <3>1. ASSUME m = 1 PROVE FALSE
      <4>1. \A q \in L : q = p
        BY <1>5, <2>1, <3>1
      <4>2. QED BY <1>14, <4>1
    <3>2. QED BY <3>1
  <2>4. PICK l \in 1 .. m - 1 : l = m - 1 /\ m = l + 1
    BY <2>2, <2>3
  <2>5. P(i) = P(m)
    <3>1. P(i) >= P(m) /\ P(i) \in Nat /\ P(m) \in Nat
      BY <1>1, <1>4, <2>2 DEF P
    <3>2. ~ (P(m) < P(i))
      BY <1>6, <1>14, <2>1, <2>2 DEF P
    <3>3. QED BY <3>1, <3>2
  <2>6. PICK x : x = top[m].post
    OBVIOUS
  <2>7. PICK T : T = PostsOf(top, l)
    OBVIOUS
  <2>8. l \in 0 .. Len(top)
    BY <1>1, <2>2, <2>4
  <2>9. T \in SUBSET Posts /\ IsFiniteSet(T) /\ SumFunctionOnSet(D, T) \in Nat
    BY <2>7, <2>8, PlacesArePosts
  <2>10. L = T \cup {x}
    <3>1. \A j \in 1 .. m : j \in 1 .. l \/ j = m
      BY <2>2, <2>4
    <3>2. \A j \in 1 .. l : j \in 1 .. m
      BY <2>2, <2>4
    <3>3. QED BY <3>1, <3>2, <2>2, <2>6, <2>7 DEF L, PostsOf
  <2>11. x \notin T
    <3>1. ASSUME NEW j \in 1 .. l PROVE top[j].post # x
      <4>1. j \in 1 .. n /\ j # m
        BY <2>2, <2>4
      <4>2. QED BY <1>1, <2>2, <2>6, <4>1
    <3>2. QED BY <3>1, <2>7 DEF PostsOf
  <2>12. x \in Posts /\ \A y \in T \cup {x} : D[y] \in Int
    BY <1>1, <2>2, <2>6, <2>9
  <2>13. SumFunctionOnSet(D, L) = D[x] + SumFunctionOnSet(D, T)
    BY <2>9, <2>10, <2>11, <2>12, SumAdds
  <2>14. /\ SumFunctionOnSet(D, L) = D[p] + SumFunctionOnSet(D, L \ {p})
         /\ SumFunctionOnSet(D, L \ {p}) \in Int
    <3>1. \A y \in L : D[y] \in Int
      BY <1>3
    <3>2. IsFiniteSet(L \ {p}) /\ \A y \in L \ {p} : D[y] \in Int
      BY <1>3, <3>1, FS_Subset
    <3>3. QED BY <1>3, <3>1, <3>2, SumTakes
  <2>15. D[x] = D[p] /\ D[p] \in Nat
    BY <1>3, <2>1, <2>5, <2>6 DEF P
  <2>16. SumFunctionOnSet(D, T) < goal
    BY <1>2, <2>4, <2>7 DEF C
  <2>17. SumFunctionOnSet(D, L \ {p}) = SumFunctionOnSet(D, T)
    BY <2>9, <2>13, <2>14, <2>15
  <2>18. QED BY <2>16, <2>17
<1>15. Leads(D, goal, L)
  <2>1. \A p \in L : \/ L = {p}
                     \/ \E q \in L : D[q] < D[p]
                     \/ SumFunctionOnSet(D, L \ {p}) < goal
    BY <1>14
  <2>2. QED BY <1>8, <1>9, <1>10, <1>12, <1>13, <2>1, Zenon DEF Leads
<1>16. QED BY <1>15 DEF L

(* What Update considers and finds with power of their own.                 *)
Strong(r) == {p \in {r.topN[i].post : i \in Considered(r)} : r.post[p].dp > 0}

Goal(D) == (SumFunctionOnSet(D, Posts) * 8) \div 10

LEMMA StrongLead ==
  ASSUME NEW r, NEW t, RoundOK(r, t)
  PROVE  /\ Strong(r) \in SUBSET Posts
         /\ Leads(Powers(r), Goal(Powers(r)), Strong(r))
PROOF
<1>0. IsFiniteSet(Posts)
  BY ReputationAssumption
<1>1. PICK D \in [Posts -> Nat] : D = Powers(r) /\ \A p \in Posts : D[p] = r.post[p].dp
  BY DEF RoundOK, RoundPost, Powers
<1>2. PICK top : top = r.topN
  OBVIOUS
<1>3. Tops(top, D)
  BY <1>1, <1>2 DEF RoundOK
<1>4. PICK n \in Nat : /\ n = Len(top) /\ DOMAIN top = 1 .. n
                       /\ \A i \in 1 .. n : top[i].post \in Posts
                       /\ \A i, j \in 1 .. n : i <= j => D[top[i].post] >= D[top[j].post]
  BY <1>3, TopsAre
<1>5. PICK goal \in Int : goal = Goal(D) /\ goal = (r.sumDp * 8) \div 10
  <2>1. PICK x \in Nat : x = SumFunctionOnSet(D, Posts)
    BY <1>0, SumNat
  <2>2. r.sumDp = x
    BY <1>0, <1>1, <2>1, SumTotal DEF RoundOK
  <2>3. (x * 8) \div 10 \in Int
    BY SMT
  <2>4. QED BY <2>1, <2>2, <2>3 DEF Goal
<1> DEFINE C(i) == SumFunctionOnSet(D, PostsOf(top, i))
           V(i) == SumFunction([j \in 1 .. i |-> r.post[r.topN[j].post].dp])
<1>6. Considered(r) = {i \in DOMAIN r.topN :
                         \A j \in 1 .. i - 1 :
                           r.post[r.topN[j].post].dp > 0 => V(j) < (r.sumDp * 8) \div 10}
  BY Zenon DEF Considered
<1>7. ASSUME NEW i \in 1 .. n PROVE V(i) = C(i) /\ C(i) \in Nat
  <2>1. i \in 0 .. Len(top)
    BY <1>4
  <2>2. \A j \in 1 .. i : r.post[r.topN[j].post].dp = D[top[j].post]
    BY <1>1, <1>2, <1>4
  <2>3. [j \in 1 .. i |-> r.post[r.topN[j].post].dp] = [j \in 1 .. i |-> D[top[j].post]]
    BY <2>2
  <2>4. SumFunction([j \in 1 .. i |-> D[top[j].post]]) = SumFunctionOnSet(D, PostsOf(top, i))
        /\ SumFunctionOnSet(D, PostsOf(top, i)) \in Nat
    BY <1>3, <2>1, PlacesArePosts
  <2>5. QED BY <2>3, <2>4
<1> DEFINE P(i) == D[top[i].post]
<1>8. \A i \in 1 .. n : P(i) \in Nat /\ P(i) = r.post[r.topN[i].post].dp
  BY <1>1, <1>2, <1>4
<1> HIDE DEF C, V, P
<1>9. ASSUME NEW i \in 1 .. n
      PROVE  i \in Considered(r) <=> \A j \in 1 .. i - 1 : P(j) > 0 => C(j) < goal
  <2>1. \A j \in 1 .. i - 1 : j \in 1 .. n
    OBVIOUS
  <2>2. i \in DOMAIN r.topN
    BY <1>2, <1>4
  <2>3. i \in Considered(r) <=>
          \A j \in 1 .. i - 1 : r.post[r.topN[j].post].dp > 0 => V(j) < goal
    BY <1>5, <1>6, <2>2
  <2>4. QED BY <1>7, <1>8, <2>1, <2>3
<1> DEFINE S == {i \in 1 .. n : P(i) > 0 /\ i \in Considered(r)}
<1>10. PICK m \in 0 .. n : S = 1 .. m
  <2>1. ASSUME NEW i \in S, NEW j \in 1 .. i PROVE j \in S
    <3>1. i \in 1 .. n /\ P(i) > 0 /\ i \in Considered(r) /\ j \in 1 .. n /\ j <= i
      OBVIOUS
    <3>2. P(j) >= P(i) /\ P(i) \in Nat /\ P(j) \in Nat
      BY <1>4, <1>8, <3>1 DEF P
    <3>3. \A k \in 1 .. j - 1 : k \in 1 .. i - 1
      BY <3>1
    <3>4. j \in Considered(r)
      BY <1>9, <3>1, <3>3
    <3>5. QED BY <3>1, <3>2, <3>4
  <2>2. S \in SUBSET (1 .. n)
    OBVIOUS
  <2> HIDE DEF S
  <2>3. Cardinality(S) \in 0 .. n /\ S = 1 .. Cardinality(S)
    BY <2>1, <2>2, CountsUp
  <2>4. QED BY <2>3
<1>11. \A i \in 1 .. m : i \in 1 .. n /\ P(i) > 0 /\ i \in Considered(r)
  BY <1>10
<1>12. ASSUME NEW i \in 1 .. m - 1 PROVE C(i) < goal
  <2>1. m \in 1 .. m /\ i \in 1 .. m
    OBVIOUS
  <2>2. m \in 1 .. n /\ m \in Considered(r) /\ P(i) > 0
    BY <1>11, <2>1
  <2>3. QED BY <1>9, <2>2
<1>13. \/ m = n
       \/ m < n /\ P(m + 1) = 0
       \/ m >= 1 /\ C(m) >= goal
  <2>1. SUFFICES ASSUME m # n, P(m + 1) # 0 PROVE m >= 1 /\ C(m) >= goal
    BY <1>10
  <2>2. m + 1 \in 1 .. n /\ m + 1 \notin 1 .. m
    BY <2>1
  <2>3. m + 1 \notin Considered(r)
    <3>1. P(m + 1) > 0
      BY <1>8, <2>1, <2>2
    <3>2. m + 1 \notin S
      BY <1>10, <2>2
    <3>3. QED BY <2>2, <3>1, <3>2
  <2>4. (m + 1) - 1 = m
    OBVIOUS
  <2>5. PICK j \in 1 .. m : P(j) > 0 /\ ~ (C(j) < goal)
    BY <1>9, <2>2, <2>3, <2>4
  <2>6. j = m
    BY <1>12, <2>5
  <2>7. m \in 1 .. n /\ C(m) \in Nat
    BY <1>7, <2>5, <2>6
  <2>8. QED BY <2>5, <2>6, <2>7
<1>14. Leaders(top, D, goal, m)
  BY <1>4, <1>11, <1>12, <1>13 DEF Leaders, P, C
<1>15. Leads(D, goal, PostsOf(top, m))
  BY <1>3, <1>14, LeadersLead
<1>16. Strong(r) = PostsOf(top, m)
  <2>1. ASSUME NEW p \in Strong(r) PROVE p \in PostsOf(top, m)
    <3>1. PICK i \in Considered(r) : p = r.topN[i].post /\ r.post[p].dp > 0
      BY DEF Strong
    <3>2. i \in 1 .. n
      BY <1>2, <1>4, <1>6
    <3>3. i \in S
      BY <1>8, <3>1, <3>2
    <3>4. QED BY <1>2, <1>10, <3>1, <3>3 DEF PostsOf
  <2>2. ASSUME NEW p \in PostsOf(top, m) PROVE p \in Strong(r)
    <3>1. PICK i \in 1 .. m : p = top[i].post
      BY DEF PostsOf
    <3>2. i \in Considered(r) /\ r.post[p].dp > 0
      BY <1>2, <1>8, <1>11, <3>1
    <3>3. QED BY <1>2, <3>1, <3>2 DEF Strong
  <2>3. QED BY <2>1, <2>2
<1>17. PostsOf(top, m) \in SUBSET Posts
  BY <1>3, <1>4, PlacesArePosts
<1>18. QED BY <1>1, <1>5, <1>15, <1>16, <1>17

(* The sums and sizes of Rounds are those of this module.                   *)
LEMMA SizesAgree ==
  ASSUME NEW S
  PROVE  Eager!Cardinality(S) = Cardinality(S)
BY DEF Eager!Cardinality, Cardinality

LEMMA SumsAgree ==
  ASSUME NEW f, NEW S
  PROVE  Eager!SumFunctionOnSet(f, S) = SumFunctionOnSet(f, S)
BY DEF Eager!SumFunctionOnSet, Eager!FoldFunctionOnSet, Eager!MapThenFoldSet,
       SumFunctionOnSet, FoldFunctionOnSet, MapThenFoldSet

LEMMA StrongIsLeading ==
  ASSUME NEW t, RoundOK(rounds[current], t)
  PROVE  /\ Strong(rounds[current]) \in SUBSET Posts
         /\ Eager!Leading(Strong(rounds[current]))
PROOF
<1>1. PICK L \in SUBSET Posts : L = Strong(rounds[current])
  BY StrongLead
<1>2. PICK D : D = Powers(rounds[current])
  OBVIOUS
<1>3. \A p \in Posts : rounds[current].post[p].dp = D[p]
  BY <1>2 DEF Powers
<1>4. \A S : Eager!Power(S) = SumFunctionOnSet(D, S)
  BY <1>2, SumsAgree DEF Eager!Power, Powers
<1>5. Leads(D, Goal(D), L)
  BY <1>1, <1>2, StrongLead
<1>6. PICK g : g = Goal(D)
  OBVIOUS
<1>7. (Eager!Power(Posts) * 8) \div 10 = g
  BY <1>4, <1>6 DEF Goal
<1>8. /\ \A p \in L : rounds[current].post[p].dp > 0
      /\ \A p \in L, q \in Posts \ L : rounds[current].post[p].dp >= rounds[current].post[q].dp
      /\ Eager!Cardinality(L) <= Best
      /\ L = {} => Eager!Power(Posts) = 0
      /\ \/ Eager!Power(L) >= g
         \/ Eager!Cardinality(L) = Best
         \/ \A q \in Posts \ L : rounds[current].post[q].dp = 0
  BY <1>3, <1>4, <1>5, <1>6, SizesAgree DEF Leads
<1>9. ASSUME NEW p \in L
      PROVE  \/ L = {p}
             \/ \E q \in L : rounds[current].post[q].dp < rounds[current].post[p].dp
             \/ Eager!Power(L \ {p}) < g
  BY <1>3, <1>4, <1>5, <1>6 DEF Leads
<1>10. Eager!Leading(L)
  BY <1>7, <1>8, <1>9, Zenon DEF Eager!Leading
<1>11. QED BY <1>1, <1>10

(* What a user's keys of a round earn with a result.                        *)
EarnedFrom(r, u, result) ==
  SumFunction([p \in result |->
    IF r.post[p].sold > 0 THEN (r.has[u][p] * r.post[p].stake) \div r.post[p].sold ELSE 0])

LEMMA EarnsTheSame ==
  ASSUME NEW t, RoundOK(rounds[current], t), NEW u \in Users, NEW result \in SUBSET Posts
  PROVE  /\ EarnedFrom(rounds[current], u, result) \in Nat
         /\ EarnedFrom(rounds[current], u, result)
              = Eager!SumFunctionOnSet([p \in Posts |-> Eager!Earned(u, p)], result)
PROOF
<1>1. IsFiniteSet(result)
  BY ReputationAssumption, FS_Subset
<1>2. PICK r : r = rounds[current] /\ RoundOK(r, t)
  OBVIOUS
<1> DEFINE f == [p \in result |-> IF r.post[p].sold > 0
                                  THEN (r.has[u][p] * r.post[p].stake) \div r.post[p].sold
                                  ELSE 0]
           g == [p \in Posts |-> Eager!Earned(u, p)]
<1>3. ASSUME NEW p \in result PROVE f[p] \in Nat /\ g[p] = f[p]
  <2>1. PICK x \in Nat, y \in Nat : x = r.post[p].sold /\ y = r.post[p].stake
    BY <1>2 DEF RoundOK, RoundPost
  <2>2. PICK k \in Nat : k = r.has[u][p]
    BY <1>2 DEF RoundOK
  <2>3. f[p] = IF x > 0 THEN (k * y) \div x ELSE 0
    BY <2>1, <2>2
  <2>4. g[p] = IF x = 0 THEN 0 ELSE (k * y) \div x
    BY <1>2, <2>1, <2>2 DEF Eager!Earned
  <2>5. CASE x > 0
    <3>1. k * y \in Nat /\ x \in Nat \ {0}
      BY <2>5, SMT
    <3>2. PICK z \in Nat : z = (k * y) \div x
      BY <3>1, DivDef
    <3>3. QED BY <2>3, <2>4, <2>5, <3>2
  <2>6. CASE ~ (x > 0)
    BY <2>1, <2>3, <2>4, <2>6
  <2>7. QED BY <2>5, <2>6
<1>4. f \in [result -> Nat]
  BY <1>3
<1>5. EarnedFrom(rounds[current], u, result) = SumFunction(f)
  BY <1>2 DEF EarnedFrom
<1> HIDE DEF f, g
<1>6. SumFunction(f) \in Nat /\ SumFunction(f) = SumFunctionOnSet(f, result)
  <2>1. f \in [result -> Int]
    BY <1>4
  <2>2. QED BY <1>1, <1>4, <2>1, SumCounts, SumTotal
<1>7. SumFunctionOnSet(g, result) = SumFunctionOnSet(f, result)
  <2>1. \A p \in result : f[p] \in Int /\ g[p] = f[p]
    BY <1>3
  <2>2. QED BY <1>1, <2>1, SumSame
<1>8. Eager!SumFunctionOnSet(g, result) = SumFunctionOnSet(g, result)
  BY SumsAgree
<1>9. QED BY <1>5, <1>6, <1>7, <1>8 DEF g

(* A settled score is known from the user's record and his last round.      *)
LastRound(u) == rounds[user[u].donatedIn]

ScoreOf(m, last, c, u) ==
  IF m.settled < m.donatedIn /\ m.donatedIn < c
  THEN NewScore(m.customer, EarnedFrom(last, u, last.result))
  ELSE m.customer

LEMMA ScoreNow ==
  ASSUME NEW u \in Users, user[u] \in Meta
  PROVE  Settled(u).customer = ScoreOf(user[u], LastRound(u), current, u)
PROOF
<1>1. PICK m \in Meta : m = user[u]
  OBVIOUS
<1>2. Unsettled(u, m.donatedIn) = EarnedFrom(LastRound(u), u, LastRound(u).result)
  BY <1>1 DEF Unsettled, EarnedFrom, LastRound
<1>3. PICK x : x = NewScore(m.customer, EarnedFrom(LastRound(u), u, LastRound(u).result))
  OBVIOUS
<1>4. Settled(u) = IF m.settled < m.donatedIn /\ m.donatedIn < current
                   THEN [m EXCEPT !.customer = x, !.settled = m.donatedIn]
                   ELSE m
  BY <1>1, <1>2, <1>3 DEF Settled
<1>5. [m EXCEPT !.customer = x, !.settled = m.donatedIn].customer = x
  BY DEF Meta
<1>6. QED BY <1>1, <1>3, <1>4, <1>5 DEF ScoreOf

LEMMA ScoreNext ==
  ASSUME NEW u \in Users, user'[u] \in Meta
  PROVE  Settled(u)'.customer = ScoreOf(user'[u], LastRound(u)', current', u)
PROOF
<1>1. PICK m \in Meta : m = user'[u]
  OBVIOUS
<1>0. PICK last : last = LastRound(u)'
  OBVIOUS
<1>2. Unsettled(u, m.donatedIn)' = EarnedFrom(last, u, last.result)
  BY <1>0, <1>1 DEF Unsettled, EarnedFrom, LastRound
<1>3. PICK x : x = NewScore(m.customer, EarnedFrom(last, u, last.result))
  OBVIOUS
<1>4. Settled(u)' = IF m.settled < m.donatedIn /\ m.donatedIn < current'
                   THEN [m EXCEPT !.customer = x, !.settled = m.donatedIn]
                   ELSE m
  BY <1>1, <1>2, <1>3 DEF Settled
<1>5. [m EXCEPT !.customer = x, !.settled = m.donatedIn].customer = x
  BY DEF Meta
<1>6. QED BY <1>0, <1>1, <1>3, <1>4, <1>5 DEF ScoreOf

(* What the variables of Rounds are here.                                   *)
Scores == [u \in Users |-> Settled(u).customer]
Frees == [u \in Users |-> user[u].free]
Game == rounds[current].post
Bought == rounds[current].has
Donors == {u \in Users : user[u].donatedIn = current}

LEMMA DonatesEagerly ==
  ASSUME NEW u \in Users, NEW p \in Posts, NEW s, NEW rep, NEW used, NEW dp, NEW k,
         rep = Scores[u] + Frees[u], used = given[u][p].donated,
         dp = Eager!Min({s, Eager!Max({rep - used, 0})}),
         k = Eager!KeysFor(KeyPrice + Game[p].sold, s),
         given' = [given EXCEPT ![u][p].donated = used + dp, ![u][p].donationRep = rep],
         sumRep' = [sumRep EXCEPT ![p] = sumRep[p] + rep - given[u][p].donationRep],
         Game' = [Game EXCEPT ![p] = [dp |-> Game[p].dp + dp, stake |-> Game[p].stake + s,
                                      sold |-> Game[p].sold + k]],
         Bought' = [Bought EXCEPT ![u][p] = Bought[u][p] + k],
         Donors' = Donors \cup {u}, Scores' = Scores, Frees' = Frees
  PROVE  Eager!Donate(u, p, s)
BY Zenon DEF Eager!Donate, Scores, Frees, Game, Bought, Donors

LEMMA ReportsEagerly ==
  ASSUME NEW u \in Users, NEW p \in Posts, NEW rep,
         rep = Scores[u] + Frees[u],
         given' = [given EXCEPT ![u][p].reportRep = rep],
         sumRep' = [sumRep EXCEPT ![p] = sumRep[p] - rep + given[u][p].reportRep],
         Game' = Game, Bought' = Bought, Donors' = Donors, Scores' = Scores, Frees' = Frees
  PROVE  Eager!Report(u, p)
BY Zenon DEF Eager!Report, Scores, Frees, Game, Bought, Donors

LEMMA MovesEagerly ==
  ASSUME NEW u \in Users, NEW x \in Int, Frees' = [Frees EXCEPT ![u] = x],
         sumRep' = sumRep, given' = given,
         Game' = Game, Bought' = Bought, Donors' = Donors, Scores' = Scores
  PROVE  Eager!MoveStake(u)
PROOF
<1>1. Frees'[u] = x
  BY DEF Frees
<1>2. Frees'[u] \in Int /\ Frees' = [Frees EXCEPT ![u] = Frees'[u]]
  BY <1>1
<1>3. QED BY <1>2, Zenon DEF Eager!MoveStake, Scores, Frees, Game, Bought, Donors

LEMMA EndsEagerly ==
  ASSUME NEW L \in SUBSET Posts, Eager!Leading(L),
         NEW result, result = {p \in L : sumRep[p] > 0},
         Scores' = [u \in Users |->
           IF u \in Donors
           THEN Eager!Rescored(Scores[u],
                  Eager!SumFunctionOnSet([p \in Posts |-> Eager!Earned(u, p)], result))
           ELSE Scores[u]],
         Game' = [p \in Posts |-> Eager!Fresh], Bought' = Eager!NoKeys, Donors' = {},
         Frees' = Frees, sumRep' = sumRep, given' = given
  PROVE  Eager!EndRound
BY Zenon DEF Eager!EndRound, Scores, Frees, Game, Bought, Donors

(* Who donated in the current round has not settled it.                     *)
Open == \A u \in Users : user[u].donatedIn = current => user[u].settled < current

(* When a round ends the next one begins, and no other changes.             *)
LEMMA RoundsGrow ==
  ASSUME IInv, NEW e, NEW new, rounds' = Append([rounds EXCEPT ![current] = e], new)
  PROVE  /\ current' = current + 1
         /\ DOMAIN rounds' = 1 .. current + 1
         /\ rounds'[current] = e
         /\ \A n \in 1 .. current : n # current => rounds'[n] = rounds[n]
         /\ rounds'[current + 1] = new
PROOF
<1>1. current \in Nat /\ current >= 1 /\ DOMAIN rounds = 1 .. current
  BY Numbers
<1>2. PICK ended : ended = [rounds EXCEPT ![current] = e]
  OBVIOUS
<1>3. /\ DOMAIN ended = 1 .. current /\ ended[current] = e
      /\ \A n \in 1 .. current : n # current => ended[n] = rounds[n]
  BY <1>1, <1>2
<1> DEFINE S == {ended[n] : n \in 1 .. current} \cup {new}
<1>4. ended \in Seq(S) /\ Len(ended) = current
  <2>1. ended = [n \in 1 .. current |-> ended[n]]
    BY <1>2, <1>3
  <2>2. \A n \in 1 .. current : ended[n] \in S
    OBVIOUS
  <2>3. /\ [n \in 1 .. current |-> ended[n]] \in Seq(S)
        /\ Len([n \in 1 .. current |-> ended[n]]) = current
    BY ONLY <2>2, <1>1, IsASeq
  <2> HIDE DEF S
  <2>4. QED BY <2>1, <2>3
<1>5. new \in S
  OBVIOUS
<1> HIDE DEF S
<1>6. /\ Append(ended, new) \in Seq(S)
      /\ Len(Append(ended, new)) = current + 1
      /\ \A n \in 1 .. current : Append(ended, new)[n] = ended[n]
      /\ Append(ended, new)[current + 1] = new
  BY <1>4, <1>5, AppendProperties
<1>7. rounds' = Append(ended, new)
  BY <1>2
<1>8. rounds' \in Seq(S) /\ current' = current + 1
  BY <1>6, <1>7 DEF current
<1>9. DOMAIN rounds' = 1 .. current + 1
  BY <1>8, LenProperties DEF current
<1>10. current \in 1 .. current
  BY <1>1
<1>11. QED BY <1>3, <1>6, <1>7, <1>8, <1>9, <1>10

(* A score changes with the user's record, and with the end of a round that *)
(* he donated in.                                                           *)
SameRecord(m, w) ==
  w.customer = m.customer /\ w.settled = m.settled /\ w.donatedIn = m.donatedIn

LEMMA ScoreStays ==
  ASSUME Held, Held', NEW u \in Users, SameRecord(user[u], user'[u]),
         user[u].donatedIn < current' <=> user[u].donatedIn < current,
         user[u].settled < user[u].donatedIn /\ user[u].donatedIn < current =>
           rounds'[user[u].donatedIn] = rounds[user[u].donatedIn]
  PROVE  Settled(u)'.customer = Settled(u).customer
PROOF
<1>1. user[u] \in Meta /\ user'[u] \in Meta
  BY DEF Held
<1>2. Settled(u).customer = ScoreOf(user[u], LastRound(u), current, u)
  BY <1>1, ScoreNow
<1>3. Settled(u)'.customer = ScoreOf(user'[u], LastRound(u)', current', u)
  BY <1>1, ScoreNext
<1>4. user[u].settled < user[u].donatedIn /\ user[u].donatedIn < current =>
        LastRound(u)' = LastRound(u)
  BY DEF LastRound, SameRecord
<1>5. QED BY <1>2, <1>3, <1>4 DEF ScoreOf, SameRecord

(* A user whose round still runs, or who has settled, has the score he has. *)
LEMMA ScoreRead ==
  ASSUME Held', NEW u \in Users,
         user'[u].donatedIn = current' \/ user'[u].settled = user'[u].donatedIn,
         current' \in Nat
  PROVE  Settled(u)'.customer = user'[u].customer
PROOF
<1>1. user'[u] \in Meta
  BY DEF Held
<1>2. Settled(u)'.customer = ScoreOf(user'[u], LastRound(u)', current', u)
  BY <1>1, ScoreNext
<1>3. ~ (user'[u].settled < user'[u].donatedIn /\ user'[u].donatedIn < current')
  BY <1>1 DEF Meta
<1>4. QED BY <1>2, <1>3 DEF ScoreOf

(* A donation settles the rounds before, and leaves the current one open.   *)
LEMMA DonateOpens ==
  ASSUME IInv, Open, NEW u \in Users, NEW p \in Posts, NEW s \in Nat, DonateAt(u, p, s)
  PROVE  Open'
PROOF
<1>1. PICK dp : rounds' = [rounds EXCEPT ![current] = RoundWith(rounds[current], u, p, s, dp)]
  BY Zenon DEF DonateAt
<1>2. current' = current /\ current \in Nat
  BY <1>1, CurrentReplaced, Numbers
<1>3. user' = [user EXCEPT ![u] = [Settled(u) EXCEPT !.donatedIn = current]]
  BY Zenon DEF DonateAt
<1>4. /\ \A v \in Users \ {u} : user'[v] = user[v]
      /\ user'[u] = [Settled(u) EXCEPT !.donatedIn = current]
  BY <1>3 DEF IInv
<1>5. /\ ShapedUser(Settled(u)) /\ user[u].donatedIn <= current /\ user[u].donatedIn \in Nat
      /\ user[u].donatedIn < current => Settled(u).settled = user[u].donatedIn
      /\ user[u].donatedIn = current => Settled(u).settled = user[u].settled
  BY SettledShape DEF IInv, ShapedUser
<1>6. user'[u].settled = Settled(u).settled
  BY <1>4, <1>5 DEF ShapedUser, UserFields
<1>7. user'[u].settled < current
  <2>1. CASE user[u].donatedIn < current
    BY <1>5, <1>6, <2>1
  <2>2. CASE user[u].donatedIn = current
    BY <1>5, <1>6, <2>2 DEF Open
  <2>3. QED BY <1>2, <1>5, <2>1, <2>2
<1>8. ASSUME NEW v \in Users, user'[v].donatedIn = current PROVE user'[v].settled < current
  <2>1. CASE v = u
    BY <1>7, <2>1
  <2>2. CASE v # u
    BY <1>4, <1>8, <2>2 DEF Open
  <2>3. QED BY <2>1, <2>2
<1>9. QED BY <1>2, <1>8 DEF Open

LEMMA ReportOpens ==
  ASSUME IInv, Open, NEW u \in Users, NEW p \in Posts, ReportOrUpvote(u, p)
  PROVE  Open'
PROOF
<1>1. current' = current
  BY DEF ReportOrUpvote, current
<1>2. user' = [user EXCEPT ![u] = Settled(u)] \/ user' = user
  BY Zenon DEF ReportOrUpvote, ReportAt
<1>3. CASE user' = user
  BY <1>1, <1>3 DEF Open
<1>4. CASE user' = [user EXCEPT ![u] = Settled(u)]
  <2>1. user'[u] = Settled(u) /\ \A v \in Users \ {u} : user'[v] = user[v]
    BY <1>4 DEF IInv
  <2>2. /\ Settled(u).donatedIn = user[u].donatedIn
        /\ user[u].donatedIn = current => Settled(u).settled = user[u].settled
    BY SettledShape
  <2>3. ASSUME NEW v \in Users, user'[v].donatedIn = current PROVE user'[v].settled < current
    <3>1. CASE v = u
      BY <2>1, <2>2, <2>3, <3>1 DEF Open
    <3>2. CASE v # u
      BY <2>1, <2>3, <3>2 DEF Open
    <3>3. QED BY <3>1, <3>2
  <2>4. QED BY <1>1, <2>3 DEF Open
<1>5. QED BY <1>2, <1>3, <1>4

LEMMA StakeOpens ==
  ASSUME Held, Open, NEW u \in Users, NEW amount,
         AddStake(u, amount) \/ MinusStake(u, amount)
  PROVE  /\ Open'
         /\ \A v \in Users : SameRecord(user[v], user'[v])
         /\ \A v \in Users : v # u => user'[v] = user[v]
PROOF
<1>1. current' = current
  BY DEF AddStake, MinusStake, current
<1>2. user \in [Users -> Meta]
  BY DEF Held
<1>3. /\ \A v \in Users : SameRecord(user[v], user'[v])
      /\ \A v \in Users : v # u => user'[v] = user[v]
  <2>1. CASE AddStake(u, amount)
    <3>1. user' = user
      BY <2>1 DEF AddStake
    <3>2. QED BY <3>1 DEF SameRecord
  <2>2. CASE MinusStake(u, amount)
    <3>1. PICK f : user' = [user EXCEPT ![u] = [user[u] EXCEPT !.free = f]]
      BY <2>2, Zenon DEF MinusStake, OnStakeIn
    <3>2. /\ \A v \in Users : v # u => user'[v] = user[v]
          /\ user'[u] = [user[u] EXCEPT !.free = f]
      BY <1>2, <3>1
    <3>3. SameRecord(user[u], user'[u])
      <4>1. PICK m \in Meta : m = user[u]
        BY <1>2
      <4>2. QED BY <3>2, <4>1 DEF Meta, SameRecord
    <3>4. ASSUME NEW v \in Users PROVE SameRecord(user[v], user'[v])
      <4>1. CASE v = u
        BY <3>3, <4>1
      <4>2. CASE v # u
        BY <3>2, <4>2 DEF SameRecord
      <4>3. QED BY <4>1, <4>2
    <3>5. QED BY <3>2, <3>4
  <2>3. QED BY <2>1, <2>2
<1>4. Open'
  BY <1>1, <1>3 DEF Open, SameRecord
<1>5. QED BY <1>3, <1>4

LEMMA BlockOpens ==
  ASSUME IInv, Open, NEW t, EndBlock(t)
  PROVE  Open'
PROOF
<1>1. user' = user
  BY DEF EndBlock
<1>2. current \in Nat
  BY Numbers
<1>3. CASE rounds' = rounds
  BY <1>1, <1>3 DEF Open, current
<1>4. CASE rounds' # rounds
  <2>1. PICK e, new : rounds' = Append([rounds EXCEPT ![current] = e], new)
    BY <1>4, Zenon DEF EndBlock, Update
  <2>2. current' = current + 1
    BY <2>1, RoundsGrow
  <2>3. \A u \in Users : user[u].donatedIn <= current /\ user[u].donatedIn \in Nat
    BY DEF IInv, ShapedUser
  <2>4. QED BY <1>1, <1>2, <2>2, <2>3 DEF Open
<1>5. QED BY <1>3, <1>4

LEMMA NextOpens ==
  ASSUME RInv, Open, [Next]_vars
  PROVE  Open'
PROOF
<1>1. IInv /\ Held
  BY DEF RInv
<1>2. CASE UNCHANGED vars
  BY <1>2 DEF vars, Open, current
<1>3. ASSUME NEW d \in Donations, DonateAt(d[1], d[2], d[3]) PROVE Open'
  <2>1. d[1] \in Users /\ d[2] \in Posts /\ d[3] \in Nat
    BY ReputationAssumption
  <2>2. QED BY <1>1, <1>3, <2>1, DonateOpens
<1>4. ASSUME NEW r \in Reports, ReportOrUpvote(r[1], r[2]) PROVE Open'
  <2>1. r[1] \in Users /\ r[2] \in Posts
    BY ReputationAssumption
  <2>2. QED BY <1>1, <1>4, <2>1, ReportOpens
<1>5. ASSUME NEW l \in Locks, AddStake(l[1], l[2]) \/ MinusStake(l[1], l[2]) PROVE Open'
  <2>1. l[1] \in Users
    BY ReputationAssumption
  <2>2. QED BY <1>1, <1>5, <2>1, StakeOpens
<1>6. ASSUME NEW t \in 0 .. MaxTime, EndBlock(t) PROVE Open'
  BY <1>1, <1>6, BlockOpens
<1>7. QED BY <1>2, <1>3, <1>4, <1>5, <1>6 DEF Next

(* Each step is a step of Rounds.                                           *)
LEMMA DonateMaps ==
  ASSUME IInv, Held, Held', NEW u \in Users, NEW p \in Posts, NEW s \in Nat, DonateAt(u, p, s)
  PROVE  Eager!Donate(u, p, s)
PROOF
<1>1. PICK m \in Meta : m = Settled(u) /\ m.free = user[u].free
  BY SettledIs
<1>2. PICK rep \in Nat : rep = m.customer + m.free
  BY DEF Meta
<1>3. given \in Books /\ given[u][p] \in UserPost /\ user \in [Users -> Meta]
  BY DEF Held, Books, UserPost
<1>4. PICK used \in Nat, before \in Nat :
        used = given[u][p].donated /\ before = given[u][p].donationRep
  BY <1>3 DEF UserPost
<1>5. PICK dp \in Nat : dp = Least(Most(rep - used, 0), s)
  BY DEF Least, Most
<1>6. /\ given' = [given EXCEPT ![u][p].donated = dp + used, ![u][p].donationRep = rep]
      /\ sumRep' = [sumRep EXCEPT ![p] = sumRep[p] + (rep - before)]
      /\ user' = [user EXCEPT ![u] = [m EXCEPT !.donatedIn = current]]
      /\ rounds' = [rounds EXCEPT ![current] = RoundWith(rounds[current], u, p, s, dp)]
  BY <1>1, <1>2, <1>4, <1>5, Zenon DEF DonateAt
<1>7. current \in Nat /\ current >= 1 /\ DOMAIN rounds = 1 .. current /\ current \in 1 .. current
  BY Numbers
<1>8. PICK r : r = rounds[current] /\ ShapedRound(r) /\ RoundOK(r, now)
  BY <1>7 DEF Held, IInv
<1>9. PICK sold \in Nat : sold = r.post[p].sold
  BY <1>8 DEF RoundOK, RoundPost
<1>10. PICK k : k = NumKeysCanBuy(sold, s)
  OBVIOUS
<1>11. PICK e : e = RoundWith(r, u, p, s, dp)
  OBVIOUS
<1>12. /\ current' = current /\ rounds'[current] = e
       /\ \A n \in DOMAIN rounds : n # current => rounds'[n] = rounds[n]
  BY <1>6, <1>8, <1>11, CurrentReplaced
<1>13. /\ e.has = [r.has EXCEPT ![u] = [r.has[u] EXCEPT ![p] = r.has[u][p] + k]]
       /\ e.post = [r.post EXCEPT ![p] = [dp |-> r.post[p].dp + dp, stake |-> r.post[p].stake + s,
                                          sold |-> r.post[p].sold + k]]
  BY <1>8, <1>9, <1>10, <1>11, BoughtFields
<1>14. /\ user'[u] = [m EXCEPT !.donatedIn = current]
       /\ \A v \in Users : v # u => user'[v] = user[v]
  BY <1>3, <1>6
<1>15. user'[u].customer = m.customer /\ user'[u].free = m.free /\ user'[u].donatedIn = current
  BY <1>14 DEF Meta
<1>16. Scores' = Scores
  <2>1. ASSUME NEW v \in Users PROVE Settled(v)'.customer = Settled(v).customer
    <3>1. CASE v = u
      <4>1. Settled(u)'.customer = user'[u].customer
        BY <1>7, <1>12, <1>15, ScoreRead
      <4>2. QED BY <1>1, <1>15, <3>1, <4>1
    <3>2. CASE v # u
      <4>1. SameRecord(user[v], user'[v])
        BY <1>14, <3>2 DEF SameRecord
      <4>2. user[v].donatedIn < current =>
              rounds'[user[v].donatedIn] = rounds[user[v].donatedIn]
        <5>1. ASSUME user[v].donatedIn < current, user[v].donatedIn \in DOMAIN rounds
              PROVE  rounds'[user[v].donatedIn] = rounds[user[v].donatedIn]
          <6>1. user[v].donatedIn # current
            BY <1>7, <5>1
          <6>2. QED BY <1>12, <5>1, <6>1
        <5>2. ASSUME user[v].donatedIn < current, user[v].donatedIn \notin DOMAIN rounds
              PROVE  rounds'[user[v].donatedIn] = rounds[user[v].donatedIn]
          BY <1>6, <5>2
        <5>3. QED BY <5>1, <5>2
      <4>3. QED BY <1>12, <4>1, <4>2, ScoreStays
    <3>3. QED BY <3>1, <3>2
  <2>2. QED BY <2>1 DEF Scores
<1>17. Frees' = Frees
  <2>1. ASSUME NEW v \in Users PROVE user'[v].free = user[v].free
    <3>1. CASE v = u
      BY <1>1, <1>15, <3>1
    <3>2. CASE v # u
      BY <1>14, <3>2
    <3>3. QED BY <3>1, <3>2
  <2>2. QED BY <2>1 DEF Frees
<1>18. Donors' = Donors \cup {u}
  <2>1. ASSUME NEW v \in Users
        PROVE  user'[v].donatedIn = current <=> user[v].donatedIn = current \/ v = u
    <3>1. CASE v = u
      BY <1>15, <3>1
    <3>2. CASE v # u
      BY <1>14, <3>2
    <3>3. QED BY <3>1, <3>2
  <2>2. QED BY <1>12, <2>1 DEF Donors
<1>19. rep = Scores[u] + Frees[u]
  BY <1>1, <1>2 DEF Scores, Frees
<1>20. dp = Eager!Min({s, Eager!Max({rep - used, 0})})
  <2>1. PICK x \in Int : x = Most(rep - used, 0) /\ x = Eager!Max({rep - used, 0})
    <3>1. rep - used \in Int /\ 0 \in Int
      OBVIOUS
    <3>2. Eager!Max({rep - used, 0}) = Most(rep - used, 0)
      BY <3>1, OfTwo
    <3>3. Most(rep - used, 0) \in Int
      BY DEF Most
    <3>4. QED BY <3>2, <3>3
  <2>2. Eager!Min({s, x}) = Least(s, x)
    BY OfTwo
  <2>3. Least(s, x) = Least(x, s)
    BY DEF Least
  <2>4. QED BY <1>5, <2>1, <2>2, <2>3
<1>21. k = Eager!KeysFor(KeyPrice + Game[p].sold, s)
  BY <1>8, <1>9, <1>10, KeysAreMost DEF Game
<1>22. given' = [given EXCEPT ![u][p].donated = used + dp, ![u][p].donationRep = rep]
  <2>1. dp + used = used + dp
    OBVIOUS
  <2>2. QED BY <1>6, <2>1, Zenon
<1>23. sumRep' = [sumRep EXCEPT ![p] = sumRep[p] + rep - given[u][p].donationRep]
  <2>1. sumRep[p] \in Int
    BY DEF Held
  <2>2. sumRep[p] + (rep - before) = sumRep[p] + rep - before
    BY <2>1
  <2>3. QED BY <1>4, <1>6, <2>2
<1>24. Game' = [Game EXCEPT ![p] = [dp |-> Game[p].dp + dp, stake |-> Game[p].stake + s,
                                    sold |-> Game[p].sold + k]]
  BY <1>8, <1>12, <1>13 DEF Game
<1>25. Bought' = [Bought EXCEPT ![u][p] = Bought[u][p] + k]
  BY <1>8, <1>12, <1>13 DEF Bought
<1>26. QED BY <1>4, <1>16, <1>17, <1>18, <1>19, <1>20, <1>21, <1>22, <1>23, <1>24, <1>25,
              DonatesEagerly

LEMMA ReportMaps ==
  ASSUME IInv, Held, Held', NEW u \in Users, NEW p \in Posts, ReportOrUpvote(u, p)
  PROVE  Eager!Report(u, p) \/ UNCHANGED Eager!roundsVars
PROOF
<1>1. rounds' = rounds /\ current' = current /\ Game' = Game /\ Bought' = Bought
  BY DEF ReportOrUpvote, current, Game, Bought
<1>2. CASE UNCHANGED <<user, sumRep, given>>
  <2>1. user' = user /\ sumRep' = sumRep /\ given' = given
    BY <1>2
  <2>2. Scores' = Scores /\ Frees' = Frees /\ Donors' = Donors
    BY <1>1, <2>1 DEF Scores, Settled, Unsettled, Frees, Donors
  <2>3. QED BY <1>1, <2>1, <2>2 DEF Eager!roundsVars, Scores, Frees, Game, Bought, Donors
<1>3. CASE ReportAt(u, p)
  <2>1. PICK m \in Meta : m = Settled(u) /\ m.free = user[u].free
    BY SettledIs
  <2>2. PICK rep \in Nat : rep = m.customer + m.free
    BY DEF Meta
  <2>3. given[u][p] \in UserPost /\ user \in [Users -> Meta] /\ current \in Nat
    BY Numbers DEF Held, UserPost
  <2>4. PICK before \in Nat : before = given[u][p].reportRep
    BY <2>3 DEF UserPost
  <2>5. /\ user' = [user EXCEPT ![u] = m]
        /\ sumRep' = [sumRep EXCEPT ![p] = sumRep[p] - (rep - before)]
        /\ given' = [given EXCEPT ![u][p].reportRep = rep]
    BY <1>3, <2>1, <2>2, <2>4, Zenon DEF ReportAt
  <2>6. user'[u] = m /\ \A v \in Users : v # u => user'[v] = user[v]
    BY <2>3, <2>5
  <2>7. /\ m.donatedIn = user[u].donatedIn /\ m.donatedIn <= current
        /\ m.donatedIn < current => m.settled = m.donatedIn
    BY <2>1, SettledShape DEF IInv
  <2>8. Scores' = Scores
    <3>1. ASSUME NEW v \in Users PROVE Settled(v)'.customer = Settled(v).customer
      <4>1. CASE v = u
        <5>1. m.donatedIn = current \/ m.settled = m.donatedIn
          <6>1. m.donatedIn \in Nat
            BY DEF Meta
          <6>2. QED BY <2>3, <2>7, <6>1
        <5>2. Settled(u)'.customer = user'[u].customer
          BY <1>1, <2>3, <2>6, <5>1, ScoreRead
        <5>3. QED BY <2>1, <2>6, <4>1, <5>2
      <4>2. CASE v # u
        <5>1. SameRecord(user[v], user'[v])
          BY <2>6, <4>2 DEF SameRecord
        <5>2. QED BY <1>1, <5>1, ScoreStays
      <4>3. QED BY <4>1, <4>2
    <3>2. QED BY <3>1 DEF Scores
  <2>9. Frees' = Frees
    <3>1. ASSUME NEW v \in Users PROVE user'[v].free = user[v].free
      BY <2>1, <2>6
    <3>2. QED BY <3>1 DEF Frees
  <2>10. Donors' = Donors
    <3>1. ASSUME NEW v \in Users PROVE user'[v].donatedIn = user[v].donatedIn
      BY <2>6, <2>7
    <3>2. QED BY <1>1, <3>1 DEF Donors
  <2>11. rep = Scores[u] + Frees[u]
    BY <2>1, <2>2 DEF Scores, Frees
  <2>12. sumRep' = [sumRep EXCEPT ![p] = sumRep[p] - rep + given[u][p].reportRep]
    <3>1. sumRep[p] \in Int
      BY DEF Held
    <3>2. sumRep[p] - (rep - before) = sumRep[p] - rep + before
      BY <3>1
    <3>3. QED BY <2>4, <2>5, <3>2
  <2>13. QED BY <1>1, <2>5, <2>8, <2>9, <2>10, <2>11, <2>12, ReportsEagerly
<1>4. QED BY <1>2, <1>3 DEF ReportOrUpvote

LEMMA StakeMaps ==
  ASSUME IInv, Held, Held', Open, NEW u \in Users, NEW amount,
         AddStake(u, amount) \/ MinusStake(u, amount)
  PROVE  Eager!MoveStake(u)
PROOF
<1>1. /\ rounds' = rounds /\ sumRep' = sumRep /\ given' = given
      /\ current' = current /\ Game' = Game /\ Bought' = Bought
  BY DEF AddStake, MinusStake, current, Game, Bought
<1>2. /\ \A v \in Users : SameRecord(user[v], user'[v])
      /\ \A v \in Users : v # u => user'[v] = user[v]
  BY StakeOpens
<1>3. Scores' = Scores
  <2>1. ASSUME NEW v \in Users PROVE Settled(v)'.customer = Settled(v).customer
    BY <1>1, <1>2, ScoreStays
  <2>2. QED BY <2>1 DEF Scores
<1>4. Donors' = Donors
  BY <1>1, <1>2 DEF Donors, SameRecord
<1>5. PICK x \in Int : x = user'[u].free
  BY DEF Held, Meta
<1>6. Frees' = [Frees EXCEPT ![u] = x]
  <2>1. ASSUME NEW v \in Users PROVE user'[v].free = IF v = u THEN x ELSE user[v].free
    BY <1>2, <1>5
  <2>2. QED BY <2>1 DEF Frees
<1>7. QED BY <1>1, <1>3, <1>4, <1>6, MovesEagerly

LEMMA BlockMaps ==
  ASSUME IInv, Held, Held', Open, NEW t, EndBlock(t)
  PROVE  Eager!EndRound \/ UNCHANGED Eager!roundsVars
PROOF
<1>1. user' = user /\ sumRep' = sumRep /\ given' = given /\ Frees' = Frees
  BY DEF EndBlock, Frees
<1>2. /\ current \in Nat /\ current >= 1 /\ DOMAIN rounds = 1 .. current
      /\ current \in DOMAIN rounds
  BY Numbers
<1>3. CASE rounds' = rounds
  <2>1. current' = current
    BY <1>3 DEF current
  <2>2. Scores' = Scores /\ Game' = Game /\ Bought' = Bought /\ Donors' = Donors
    BY <1>1, <1>3, <2>1 DEF Scores, Settled, Unsettled, Game, Bought, Donors
  <2>3. QED BY <1>1, <2>2 DEF Eager!roundsVars, Scores, Frees, Game, Bought, Donors
<1>4. CASE rounds' # rounds
  <2>1. PICK r : r = rounds[current]
    OBVIOUS
  <2>2. RoundOK(r, now) /\ ShapedRound(r)
    BY <1>2, <2>1 DEF Held, IInv
  <2>3. PICK L \in SUBSET Posts : L = Strong(r) /\ Eager!Leading(L)
    BY <2>1, <2>2, StrongIsLeading
  <2>4. PICK result \in SUBSET Posts : /\ result = ResultOf(r)
                                       /\ result = {p \in L : sumRep[p] > 0}
    BY <2>3 DEF ResultOf, Strong
  <2>5. PICK e : e = [r EXCEPT !.result = result]
    OBVIOUS
  <2>6. rounds' = Append([rounds EXCEPT ![current] = e], NewRound(now))
    BY <1>4, <2>1, <2>4, <2>5, Zenon DEF EndBlock, Update
  <2>7. /\ current' = current + 1
        /\ rounds'[current] = e
        /\ \A n \in 1 .. current : n # current => rounds'[n] = rounds[n]
        /\ rounds'[current + 1] = NewRound(now)
    BY <2>6, RoundsGrow
  <2>8. e.result = result /\ e.post = r.post /\ e.has = r.has
    BY <2>2, <2>5 DEF ShapedRound, RoundFields
  <2>9. \A u \in Users : /\ user[u] \in Meta /\ user[u].donatedIn \in Nat
                         /\ user[u].settled \in Nat /\ user[u].donatedIn <= current
    BY DEF Held, Meta, IInv
  <2>10. ASSUME NEW u \in Users, u \in Donors
         PROVE  Settled(u)'.customer
                  = Eager!Rescored(Scores[u],
                      Eager!SumFunctionOnSet([p \in Posts |-> Eager!Earned(u, p)], result))
    <3>1. user[u].donatedIn = current /\ user[u].settled < current
      BY <2>10 DEF Donors, Open
    <3>2. PICK x \in Nat : x = EarnedFrom(r, u, result)
      BY <2>1, <2>2, EarnsTheSame
    <3>3. x = Eager!SumFunctionOnSet([p \in Posts |-> Eager!Earned(u, p)], result)
      BY <2>1, <2>2, <3>2, EarnsTheSame
    <3>4. EarnedFrom(e, u, e.result) = x
      BY <2>8, <3>2 DEF EarnedFrom
    <3>5. Settled(u)'.customer = ScoreOf(user'[u], LastRound(u)', current', u)
      BY <1>1, <2>9, ScoreNext
    <3>6. LastRound(u)' = e
      BY <1>1, <2>7, <3>1 DEF LastRound
    <3>7. user'[u].settled < user'[u].donatedIn /\ user'[u].donatedIn < current'
      BY <1>1, <1>2, <2>7, <3>1
    <3>8. Settled(u)'.customer = NewScore(user[u].customer, x)
      BY <1>1, <3>4, <3>5, <3>6, <3>7 DEF ScoreOf
    <3>9. PICK old \in Nat : old = user[u].customer
      BY <2>9 DEF Meta
    <3>10. Scores[u] = old
      <4>1. Settled(u).customer = ScoreOf(user[u], LastRound(u), current, u)
        BY <2>9, ScoreNow
      <4>2. ~ (user[u].donatedIn < current)
        BY <1>2, <3>1
      <4>3. QED BY <3>9, <4>1, <4>2 DEF ScoreOf, Scores
    <3>11. Eager!Rescored(old, x) = NewScore(old, x)
      BY ScoreIsGreatest
    <3>12. QED BY <3>3, <3>8, <3>9, <3>10, <3>11
  <2>11. ASSUME NEW u \in Users, u \notin Donors
         PROVE  Settled(u)'.customer = Scores[u]
    <3>1. user[u].donatedIn < current
      BY <1>2, <2>9, <2>11 DEF Donors
    <3>2. user[u].donatedIn < current' <=> user[u].donatedIn < current
      BY <1>2, <2>7, <2>9, <3>1
    <3>3. user[u].settled < user[u].donatedIn =>
            rounds'[user[u].donatedIn] = rounds[user[u].donatedIn]
      <4>1. ASSUME user[u].settled < user[u].donatedIn
            PROVE  user[u].donatedIn \in 1 .. current /\ user[u].donatedIn # current
        BY <1>2, <2>9, <3>1, <4>1
      <4>2. QED BY <2>7, <4>1
    <3>4. SameRecord(user[u], user'[u])
      BY <1>1 DEF SameRecord
    <3>5. Settled(u)'.customer = Settled(u).customer
      BY <3>2, <3>3, <3>4, ScoreStays
    <3>6. QED BY <3>5 DEF Scores
  <2>12. Scores' = [u \in Users |->
           IF u \in Donors
           THEN Eager!Rescored(Scores[u],
                  Eager!SumFunctionOnSet([p \in Posts |-> Eager!Earned(u, p)], result))
           ELSE Scores[u]]
    <3>1. Scores' = [u \in Users |-> Settled(u)'.customer]
      BY DEF Scores
    <3>2. QED BY <2>10, <2>11, <3>1
  <2>13. Game' = [p \in Posts |-> Eager!Fresh] /\ Bought' = Eager!NoKeys
    BY <2>7 DEF Game, Bought, NewRound, NoDonation, Eager!Fresh, Eager!NoKeys
  <2>14. Donors' = {}
    <3>1. ASSUME NEW u \in Users PROVE user'[u].donatedIn # current'
      BY <1>1, <1>2, <2>7, <2>9
    <3>2. QED BY <3>1 DEF Donors
  <2>15. Eager!EndRound
    BY <1>1, <2>3, <2>4, <2>12, <2>13, <2>14, EndsEagerly
  <2>16. QED BY <2>15
<1>5. QED BY <1>3, <1>4

LEMMA InitMaps ==
  ASSUME Init
  PROVE  Eager!RoundsInit /\ Open
PROOF
<1>1. /\ rounds = <<NewRound(0)>> /\ current = 1 /\ rounds[current] = NewRound(0)
      /\ user = [u \in Users |-> NewUser]
      /\ sumRep = [p \in Posts |-> 0]
      /\ given = [u \in Users |-> [p \in Posts |-> NewUserPost]]
  BY DEF Init, current
<1>2. /\ NewUser.customer = InitialScore /\ NewUser.free = 0
      /\ NewUser.settled = 0 /\ NewUser.donatedIn = 0
  BY DEF NewUser
<1>3. Scores = [u \in Users |-> InitialScore]
  <2>1. ASSUME NEW u \in Users PROVE Settled(u) = NewUser
    <3>1. user[u] = NewUser /\ ~ (NewUser.settled < NewUser.donatedIn)
      BY <1>1, <1>2
    <3>2. QED BY <3>1 DEF Settled
  <2>2. QED BY <1>2, <2>1 DEF Scores
<1>4. Frees = [u \in Users |-> 0]
  BY <1>1, <1>2 DEF Frees
<1>5. given = [u \in Users |-> [p \in Posts |-> Eager!Untouched]]
  BY <1>1 DEF NewUserPost, Eager!Untouched
<1>6. Game = [p \in Posts |-> Eager!Fresh] /\ Bought = Eager!NoKeys
  BY <1>1 DEF Game, Bought, NewRound, NoDonation, Eager!Fresh, Eager!NoKeys
<1>7. \A u \in Users : user[u].donatedIn # current
  BY <1>1, <1>2
<1>8. Donors = {}
  BY <1>7 DEF Donors
<1>9. Eager!RoundsInit
  BY <1>1, <1>3, <1>4, <1>5, <1>6, <1>8, Zenon DEF Eager!RoundsInit, Scores, Frees, Game, Bought, Donors
<1>10. QED BY <1>7, <1>9 DEF Open

LEMMA NextMaps ==
  ASSUME RInv, RInv', Open, [Next]_vars
  PROVE  [Eager!RoundsNext]_Eager!roundsVars
PROOF
<1>1. IInv /\ Held /\ Held'
  BY DEF RInv
<1>2. CASE UNCHANGED vars
  <2>1. /\ user' = user /\ rounds' = rounds /\ sumRep' = sumRep /\ given' = given
        /\ current' = current
    BY <1>2 DEF vars, current
  <2>2. UNCHANGED Eager!roundsVars
    BY <2>1 DEF Eager!roundsVars, Settled, Unsettled
  <2>3. QED BY <2>2
<1>3. ASSUME NEW d \in Donations, DonateAt(d[1], d[2], d[3]) PROVE Eager!RoundsNext
  <2>1. PICK u \in Users, p \in Posts, s \in Nat : u = d[1] /\ p = d[2] /\ s = d[3]
    BY ReputationAssumption
  <2>2. Eager!Donate(u, p, s)
    BY <1>1, <1>3, <2>1, DonateMaps
  <2>3. s \in {x[3] : x \in Donations}
    BY <2>1
  <2>4. QED BY <2>2, <2>3 DEF Eager!RoundsNext
<1>4. ASSUME NEW r \in Reports, ReportOrUpvote(r[1], r[2])
      PROVE  Eager!RoundsNext \/ UNCHANGED Eager!roundsVars
  <2>1. PICK u \in Users, p \in Posts : u = r[1] /\ p = r[2]
    BY ReputationAssumption
  <2>2. Eager!Report(u, p) \/ UNCHANGED Eager!roundsVars
    BY <1>1, <1>4, <2>1, ReportMaps
  <2>3. QED BY <2>2 DEF Eager!RoundsNext
<1>5. ASSUME NEW l \in Locks, AddStake(l[1], l[2]) \/ MinusStake(l[1], l[2])
      PROVE  Eager!RoundsNext
  <2>1. PICK u \in Users : u = l[1]
    BY ReputationAssumption
  <2>2. Eager!MoveStake(u)
    BY <1>1, <1>5, <2>1, StakeMaps
  <2>3. QED BY <2>2 DEF Eager!RoundsNext
<1>6. ASSUME NEW t \in 0 .. MaxTime, EndBlock(t)
      PROVE  Eager!RoundsNext \/ UNCHANGED Eager!roundsVars
  <2>1. Eager!EndRound \/ UNCHANGED Eager!roundsVars
    BY <1>1, <1>6, BlockMaps
  <2>2. QED BY <2>1 DEF Eager!RoundsNext
<1>7. QED BY <1>2, <1>3, <1>4, <1>5, <1>6 DEF Next

(* Settling late makes no difference: with the scores settled in the        *)
(* mapping, every behaviour is one of Rounds, where a round ends for        *)
(* everybody at once, keys are bought at rising prices and the leading      *)
(* posts are chosen by what they are (GetSettledCustomerScore,              *)
(* numKeysCanBuy, SetRoundPostSumDp, Update).                               *)
THEOREM ImplementsRounds == Spec => SettlesEagerly
PROOF
<1>1. Init => RInv /\ Open /\ Eager!RoundsInit
  BY InitHolds, InitMaps
<1>2. RInv /\ Open /\ [Next]_vars => RInv' /\ Open' /\ [Eager!RoundsNext]_Eager!roundsVars
  <2>1. SUFFICES ASSUME RInv, Open, [Next]_vars
                 PROVE  RInv' /\ Open' /\ [Eager!RoundsNext]_Eager!roundsVars
    OBVIOUS
  <2>2. RInv' /\ Open'
    BY <2>1, NextHolds, NextOpens
  <2>3. QED BY <2>1, <2>2, NextMaps
<1>3. QED BY <1>1, <1>2, PTL DEF Spec, SettlesEagerly, Eager!RoundsSpec
===============================================================================
