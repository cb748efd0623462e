------------------------------- MODULE Content -------------------------------
(****************************************************************************)
(* Posts, donations and the inflation they earn: x/post (manager, handler,  *)
(* event) with the ConsumptionMeta of x/global.                             *)
(*                                                                          *)
(* A donation pays the author at once, less a friction for stake holders,   *)
(* and registers a RewardEvent for the end of the freezing period: the      *)
(* author then earns the part of the content creators' pool that the        *)
(* donation's value is of the values still waiting (the window).  A repost  *)
(* shares with its source.  What stays outside enters as a choice: how much *)
(* a donation is worth (the exponentials of EvaluateConsumption, applied to *)
(* what the reputation makes of its coin day), and the penalty the reports  *)
(* on a post have come to.                                                  *)
(****************************************************************************)
EXTENDS Coins, Sequences, FiniteSets, Functions

CONSTANTS
  Users,      \* accounts of the chain
  Links,      \* permlinks, a function to the author each names
  None,       \* no source
  Splits,     \* RedistributionSplitRate of posts, in parts of Whole
  Penalties,  \* penalty scores of reports, in parts of Whole
  Whole,      \* parts rates are counted in
  Funds,      \* coins of every account at genesis
  Amounts,    \* amounts of donations
  Values,     \* what EvaluateConsumption may return
  Friction,   \* ConsumptionFrictionRate, in parts of Whole
  Freezing,   \* ConsumptionFreezingPeriodSec
  Interval,   \* PostParam.PostIntervalSec
  Inflow,     \* content creators' part of the inflation of a time unit
  Precision,  \* types.PrecisionFactor
  MaxPending, \* bound: rewards that wait
  MaxTime     \* bound: time of the last block with transactions

ASSUME ContentAssumption ==
  /\ IsFiniteSet(Users) /\ IsFiniteSet(DOMAIN Links)
  /\ Links \in [DOMAIN Links -> Users] /\ None \notin DOMAIN Links
  /\ Whole \in Nat \ {0} /\ Precision \in Nat \ {0}
  /\ Splits \subseteq 0 .. Whole /\ Penalties \subseteq 0 .. Whole
  /\ Friction \in 0 .. Whole
  /\ Funds \in Nat /\ Amounts \subseteq Nat \ {0} /\ Values \subseteq Nat
  /\ Freezing \in Nat /\ Interval \in Nat /\ Inflow \in Nat
  /\ MaxPending \in Nat /\ MaxTime \in Nat

VARIABLES
  posts,     \* PostInfo and PostMeta of the posts there are
  wallet,    \* savings
  earned,    \* UnclaimReward and the stake rewards have added
  stakers,   \* friction for the holders of LinoStake
  window,    \* ConsumptionMeta.ConsumptionWindow
  pool,      \* ConsumptionMeta.ConsumptionRewardPool
  supply,    \* GlobalMeta.TotalLinoCoin
  pending,   \* RewardEvents, in the order of their registration
  now        \* block time

vars == <<posts, wallet, earned, stakers, window, pool, supply, pending, now>>

PostInfo == [source : DOMAIN Links \cup {None}, split : 0 .. Whole,
             deleted : BOOLEAN, reward : Nat, createdAt : Nat]

RewardEvent == [post : DOMAIN Links, evaluate : Nat, due : Nat]

Author(p) == Links[p]

(* Events run before the transactions of a block, those of a second in the  *)
(* first block past it.                                                     *)
EventsDue == pending # <<>> /\ Head(pending).due < now
------------------------------------------------------------------------------
(****************************************************************************)
(* Posts.                                                                   *)
(****************************************************************************)
(* Mutant: the source named stays the source, a repost or not.              *)
NamedSource(source) == source

(* setRootSourcePost: the source of a repost is what that has as source.    *)
RootSource(source) ==
  IF source # None /\ posts[source].source # None
    THEN posts[source].source ELSE source

(* handleCreatePostMsg: LastPostAt is the time of the author's last post,   *)
(* or zero.                                                                 *)
MayPost(p, source) ==
  /\ p \notin DOMAIN posts /\ source \in DOMAIN posts \cup {None}
  /\ Interval <= now
  /\ \A q \in DOMAIN posts :
       Author(q) = Author(p) => posts[q].createdAt + Interval <= now

CreatePost(p, source, split) ==
  /\ ~EventsDue /\ MayPost(p, source)
  /\ posts' = [q \in DOMAIN posts \cup {p} |->
       IF q = p THEN [source |-> RootSource(source), split |-> split,
                      deleted |-> FALSE, reward |-> 0, createdAt |-> now]
       ELSE posts[q]]
  /\ UNCHANGED <<wallet, earned, stakers, window, pool, supply, pending, now>>

(* Mutant: a deleted post keeps its split rate.                             *)
DeleteOnly(p) ==
  /\ ~EventsDue /\ p \in DOMAIN posts
  /\ posts' = [posts EXCEPT ![p].deleted = TRUE]
  /\ UNCHANGED <<wallet, earned, stakers, window, pool, supply, pending, now>>

(* handleDeletePostMsg, by the author, or DeletePost after a censorship     *)
(* proposal: reposts no longer share with the post.                         *)
DeletePost(p) ==
  /\ ~EventsDue /\ p \in DOMAIN posts
  /\ posts' = [posts EXCEPT ![p].deleted = TRUE, ![p].split = Whole]
  /\ UNCHANGED <<wallet, earned, stakers, window, pool, supply, pending, now>>
------------------------------------------------------------------------------
(****************************************************************************)
(* Donations.                                                               *)
(****************************************************************************)
FrictionOf(coin) == Round(coin * Friction, Whole)

(* A share of nothing is none: "if coin.IsZero() { return nil }".           *)
Share(p, coin) == IF coin > 0 THEN << <<p, coin>> >> ELSE <<>>

(* What of a donation to p the source of p gets.                            *)
ToSource(p, coin) ==
  LET s == posts[p].source IN
  IF s = None THEN 0 ELSE Round(coin * (Whole - posts[s].split), Whole)

(* Mutant: either share is rounded.                                         *)
SharesRounded(p, coin) ==
  LET s == posts[p].source
      own == IF s = None THEN coin ELSE Round(coin * posts[s].split, Whole)
  IN  Share(s, ToSource(p, coin)) \o Share(p, own)

(* What of a donation to p goes to which post: the source first.            *)
Shares(p, coin) ==
  Share(posts[p].source, ToSource(p, coin)) \o Share(p, coin - ToSource(p, coin))

(* What is left of the shares of some posts for their authors.              *)
Direct(shares, to) ==
  SumFunction([i \in DOMAIN shares |->
     IF shares[i][1] \in to THEN shares[i][2] - FrictionOf(shares[i][2]) ELSE 0])

AllFriction(shares) ==
  SumFunction([i \in DOMAIN shares |-> FrictionOf(shares[i][2])])

(* What EvaluateConsumption may make of the shares.                         *)
Evaluations(shares) == [DOMAIN shares -> Values]

(* handleDonateMsg with processDonationFriction for either share.           *)
Donate(u, p, coin, value) ==
  /\ ~EventsDue /\ u \in Users /\ wallet[u] >= coin
  /\ p \in DOMAIN posts /\ ~posts[p].deleted /\ Author(p) # u
  /\ LET shares == Shares(p, coin)
     IN  /\ value \in Evaluations(shares)
         /\ Len(pending) + Len(shares) <= MaxPending
         /\ wallet' = [v \in Users |->
              wallet[v] - (IF v = u THEN coin ELSE 0)
                + Direct(shares, {q \in DOMAIN posts : Author(q) = v})]
         /\ posts' = [q \in DOMAIN posts |-> [posts[q] EXCEPT
              !.reward = @ + Direct(shares, {q})]]
         /\ stakers' = stakers + AllFriction(shares)
         /\ window' = window + SumFunction(value)
         /\ pending' = pending \o [i \in DOMAIN shares |->
              [post |-> shares[i][1], evaluate |-> value[i],
               due |-> now + Freezing]]
  /\ UNCHANGED <<earned, pool, supply, now>>
------------------------------------------------------------------------------
(****************************************************************************)
(* Rewards.                                                                 *)
(****************************************************************************)
(* Mutant: a reward that came to nothing leaves its value in the window.    *)
PopPaid(e, reward) == IF reward = 0 THEN 0 ELSE e.evaluate

(* Mutant: the window starts anew with every reward.                        *)
PopAll(e, reward) == window

(* What leaves the window with an event.                                    *)
Pop(e, reward) == e.evaluate

(* GetRewardAndPopFromWindow: a ratio of seven digits, then a coin.         *)
RewardOf(e, penalty) ==
  IF e.evaluate = 0 THEN 0
  ELSE Round(pool * Round(e.evaluate * (Whole - penalty) * Precision,
                          Whole * window), Precision)

(* The penalty scores reports may have brought a post to: none of what      *)
(* waits for a deleted one is paid.                                         *)
PenaltyScores(p) == IF posts[p].deleted THEN {Whole} ELSE Penalties

(* RewardEvent.Execute: half of the reward waits to be claimed, half is     *)
(* staked for the author.                                                   *)
ExecuteReward(penalty) ==
  /\ EventsDue /\ penalty \in PenaltyScores(Head(pending).post)
  /\ Head(pending).evaluate # 0 => window # 0   \* else Quo panics
  /\ LET e == Head(pending)
         reward == RewardOf(e, penalty)
     IN  /\ window' = window - Pop(e, reward)
         /\ pool' = pool - reward
         /\ supply' = supply + reward
         /\ posts' = [posts EXCEPT ![e.post].reward = @ + reward]
         /\ earned' = [earned EXCEPT ![Author(e.post)] = @ + reward]
  /\ pending' = Tail(pending)
  /\ UNCHANGED <<wallet, stakers, now>>

(* The next block.  Time is counted in the unit inflation comes in, and     *)
(* goes on past MaxTime while a reward is pending.                          *)
NextBlock ==
  /\ ~EventsDue /\ (now < MaxTime \/ pending # <<>>)
  /\ now' = now + 1
  /\ pool' = pool + Inflow
  /\ UNCHANGED <<posts, wallet, earned, stakers, window, supply, pending>>

Init ==
  /\ posts = [p \in {} |-> 0]
  /\ wallet = [u \in Users |-> Funds] /\ earned = [u \in Users |-> 0]
  /\ stakers = 0 /\ window = 0 /\ pool = 0
  /\ supply = Funds * Cardinality(Users)
  /\ pending = <<>> /\ now = 0

Transactions ==
  \/ \E p \in DOMAIN Links : DeletePost(p)
  \/ \E p \in DOMAIN Links, s \in DOMAIN Links \cup {None}, r \in Splits :
       CreatePost(p, s, r)
  \/ \E u \in Users, p \in DOMAIN posts, coin \in Amounts :
       \E value \in Evaluations(Shares(p, coin)) :
         Donate(u, p, coin, value)

Next ==
  \/ now < MaxTime /\ Transactions
  \/ \E penalty \in Penalties \cup {Whole} : ExecuteReward(penalty)
  \/ NextBlock

Spec == Init /\ [][Next]_vars

(* Blocks follow each other, and a block executes what is due.              *)
FairSpec ==
  Spec /\ WF_vars(NextBlock) /\ WF_vars(\E q \in Penalties \cup {Whole} : ExecuteReward(q))
------------------------------------------------------------------------------
(****************************************************************************)
(* Properties.                                                              *)
(****************************************************************************)
(* Type invariant: neither pool nor window is ever negative, and no post or *)
(* account that an event names is gone.                                     *)
TypeOK ==
  /\ DOMAIN posts \subseteq DOMAIN Links /\ posts \in [DOMAIN posts -> PostInfo]
  /\ wallet \in [Users -> Nat] /\ earned \in [Users -> Nat]
  /\ {stakers, window, pool, supply, now} \subseteq Nat
  /\ pending \in Seq(RewardEvent)
  /\ \A i \in DOMAIN pending : pending[i].post \in DOMAIN posts

(* The window, a sum kept by donations and rewards weeks apart, is the sum  *)
(* of the values that wait.  Rewards divide by it: were it below the value  *)
(* of an event, the event would take more than the pool, and were it zero,  *)
(* its panic would stop every node (GetRewardAndPopFromWindow).             *)
WindowIsPending ==
  window = SumFunction([i \in DOMAIN pending |-> pending[i].evaluate])

(* Sharing is one level deep: a source exists, is older than its reposts    *)
(* and is no repost itself, so a donation reaches the original author       *)
(* through however many reposts of reposts (setRootSourcePost).             *)
SourcesAreRoots ==
  \A p \in DOMAIN posts : posts[p].source # None =>
    /\ posts[p].source \in DOMAIN posts \ {p}
    /\ posts[posts[p].source].source = None
    /\ posts[posts[p].source].createdAt <= posts[p].createdAt

(* The supply is what accounts, stakes and stake holders have: a donation   *)
(* moves coins through two roundings and two authors and makes or loses     *)
(* none, and what a reward takes from the pool is what the supply grows by. *)
CoinsConserved ==
  supply = SumFunction(wallet) + SumFunction(earned) + stakers

(* A deleted post earns nothing more: no direct share, through no repost,   *)
(* and no reward of a donation made before it was deleted.                  *)
DeletedEarnsNothing ==
  [][\A p \in DOMAIN posts : posts[p].deleted =>
       /\ posts'[p].deleted /\ posts'[p].reward = posts[p].reward]_vars

(* Every donation is settled when its freezing period is over, whatever was *)
(* donated, deleted and settled in between: no event finds the window empty.*)
RewardsSettle ==
  \A t \in 0 .. MaxTime + Freezing :
    (\E i \in DOMAIN pending : pending[i].due = t)
      ~> \A i \in DOMAIN pending : pending[i].due # t
==============================================================================
