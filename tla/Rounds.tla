-------------------------------- MODULE Rounds --------------------------------
(****************************************************************************)
(* What the reputation promises (internal.ReputationImpl and its store).    *)
(* Donations are a game in rounds.  A donation buys keys of its post, each  *)
(* dearer than the one before.  A round ends for everybody at once: the     *)
(* posts that drew most of its donation power are its result, the stake a   *)
(* result drew is shared by its keys, and the customer score of everybody   *)
(* who donated moves towards what the keys earned, by one part in Window.   *)
(****************************************************************************)
EXTENDS Integers, FiniteSets, Functions, FiniteSetsExt

CONSTANTS
  Users,         \* accounts
  Posts,         \* permlinks
  Stakes,        \* coin days a donation may count for
  InitialScore,  \* InitialCustomerScore: the first and least score
  KeyPrice,      \* KeyPriceC: price of the first key of a post and round
  MaxKeys,       \* MaxNumKeysEachTime
  Window,        \* SampleWindowSize
  Best           \* BestContentIndexN: posts a result has at most

VARIABLES
  score,   \* customer scores, everything earned so far included
  free,    \* free scores, from stake
  sumRep,  \* reputation of donors less reputation of reporters, by post
  given,   \* what a user has done to a post
  game,    \* donation power, stake and keys sold of the round's posts
  keys,    \* keys of the round's posts, by user
  donors   \* users who donated in this round

roundsVars == <<score, free, sumRep, given, game, keys, donors>>

Fresh == [dp |-> 0, stake |-> 0, sold |-> 0]
Untouched == [donated |-> 0, donationRep |-> 0, reportRep |-> 0]
NoKeys == [u \in Users |-> [p \in Posts |-> 0]]

(* The greatest number of keys that a stake pays: the first costs price,    *)
(* each next one more.                                                      *)
KeysFor(price, s) ==
  Max({k \in 0 .. MaxKeys + 1 : k * (2 * price + k - 1) <= 2 * s})

-----------------------------------------------------------------------------
Donate(u, p, s) ==
  LET rep == score[u] + free[u]
      used == given[u][p].donated
      dp == Min({s, Max({rep - used, 0})})
      k == KeysFor(KeyPrice + game[p].sold, s)
  IN /\ given' = [given EXCEPT ![u][p].donated = used + dp,
                               ![u][p].donationRep = rep]
     /\ sumRep' = [sumRep EXCEPT ![p] = @ + rep - given[u][p].donationRep]
     /\ game' = [game EXCEPT ![p] = [dp |-> @.dp + dp,
                                     stake |-> @.stake + s,
                                     sold |-> @.sold + k]]
     /\ keys' = [keys EXCEPT ![u][p] = @ + k]
     /\ donors' = donors \cup {u}
     /\ UNCHANGED <<score, free>>

Report(u, p) ==
  LET rep == score[u] + free[u]
  IN /\ given' = [given EXCEPT ![u][p].reportRep = rep]
     /\ sumRep' = [sumRep EXCEPT ![p] = @ - rep + given[u][p].reportRep]
     /\ UNCHANGED <<score, free, game, keys, donors>>

(* Stake comes and goes: the free score is somebody else's business.        *)
MoveStake(u) ==
  /\ free'[u] \in Int
  /\ free' = [free EXCEPT ![u] = free'[u]]
  /\ UNCHANGED <<score, sumRep, given, game, keys, donors>>

Power(posts) == SumFunctionOnSet([p \in Posts |-> game[p].dp], posts)

(* The posts looked at when a round ends: as many of the strongest, at most *)
(* Best, as it takes to reach four fifths of the round's donation power.    *)
Leading(posts) ==
  LET goal == (Power(Posts) * 8) \div 10
      rest == Posts \ posts
  IN /\ \A p \in posts : game[p].dp > 0
     /\ \A p \in posts, q \in rest : game[p].dp >= game[q].dp
     /\ Cardinality(posts) <= Best
     /\ posts = {} => Power(Posts) = 0
     /\ \/ Power(posts) >= goal
        \/ Cardinality(posts) = Best
        \/ \A q \in rest : game[q].dp = 0
     /\ \A p \in posts :
          \/ posts = {p}
          \/ \E q \in posts : game[q].dp < game[p].dp
          \/ Power(posts \ {p}) < goal

(* The part of a post's stake that a user's keys are.                       *)
Earned(u, p) ==
  IF game[p].sold = 0 THEN 0
                      ELSE (keys[u][p] * game[p].stake) \div game[p].sold

Rescored(old, earned) ==
  Max({((Window - 1) * old + earned) \div Window,
       (old * (100 - 100 \div (3 * Window))) \div 100,
       InitialScore})

(* Posts with more reported than donated reputation earn nothing.           *)
EndRound ==
  \E leading \in SUBSET Posts :
    LET result == {p \in leading : sumRep[p] > 0}
    IN /\ Leading(leading)
       /\ score' = [u \in Users |->
            IF u \in donors
            THEN Rescored(score[u],
                          SumFunctionOnSet([p \in Posts |-> Earned(u, p)], result))
            ELSE score[u]]
       /\ game' = [p \in Posts |-> Fresh]
       /\ keys' = NoKeys
       /\ donors' = {}
       /\ UNCHANGED <<free, sumRep, given>>

RoundsInit ==
  /\ score = [u \in Users |-> InitialScore]
  /\ free = [u \in Users |-> 0]
  /\ sumRep = [p \in Posts |-> 0]
  /\ given = [u \in Users |-> [p \in Posts |-> Untouched]]
  /\ game = [p \in Posts |-> Fresh]
  /\ keys = NoKeys
  /\ donors = {}

RoundsNext ==
  \/ \E u \in Users, p \in Posts :
       \/ \E s \in Stakes : Donate(u, p, s)
       \/ Report(u, p)
  \/ \E u \in Users : MoveStake(u)
  \/ EndRound

RoundsSpec == RoundsInit /\ [][RoundsNext]_roundsVars
===============================================================================
