---------------------------- MODULE ContentProofs ----------------------------
(****************************************************************************)
(* Proofs about Content, for any posts, authors, rates and amounts. Sharing *)
(* is one level deep (IInv); and whatever is donated, split and rounded,    *)
(* the window is the sum of what waits, coins add up, and a deleted post    *)
(* earns nothing more (CInv). Rewards wait in order and are not late.       *)
(****************************************************************************)
EXTENDS Content, CoinsProofs, SequenceTheorems

(* The fields a post has, whatever the sums of its reward come to: no fold  *)
(* has to be evaluated to know that donations and rewards leave the others  *)
(* as they are.                                                             *)
Fields == {"source", "split", "deleted", "reward", "createdAt"}

Shaped(post) == post = [f \in Fields |-> post[f]]

(* SourcesAreRoots is inductive with the shape of posts, and with times,    *)
(* that no post is younger than now.                                        *)
IInv ==
  /\ now \in Nat
  /\ \A p \in DOMAIN posts :
       /\ Shaped(posts[p])
       /\ posts[p].createdAt \in Nat /\ posts[p].createdAt <= now
  /\ SourcesAreRoots

(* Posts keep their source and their time in every step that creates none.  *)
SameRoot(q, post) ==
  Shaped(q) /\ q.source = post.source /\ q.createdAt = post.createdAt

SameRoots ==
  /\ DOMAIN posts' = DOMAIN posts
  /\ \A p \in DOMAIN posts : Shaped(posts[p]) => SameRoot(posts'[p], posts[p])

(* A new value of another field keeps the shape, the source and the time    *)
(* (AddDonation).                                                           *)
LEMMA RewardField ==
  ASSUME NEW post, Shaped(post), NEW v
  PROVE  SameRoot([post EXCEPT !.reward = v], post)
  BY DEF SameRoot, Shaped, Fields

(* A step that keeps sources and times keeps the invariant.                 *)
LEMMA RootsKept ==
  ASSUME IInv, SameRoots, now' \in Nat, now <= now'
  PROVE  IInv'
<1>1. \A p \in DOMAIN posts' : /\ p \in DOMAIN posts
                               /\ Shaped(posts'[p])
                               /\ posts'[p].source = posts[p].source
                               /\ posts'[p].createdAt = posts[p].createdAt
  BY DEF IInv, SameRoots, SameRoot
<1>2. \A p \in DOMAIN posts' : posts'[p].createdAt \in Nat /\ posts'[p].createdAt <= now'
  BY <1>1 DEF IInv
<1>3. SourcesAreRoots'
  BY <1>1 DEF IInv, SameRoots, SourcesAreRoots
<1> QED BY <1>1, <1>2, <1>3 DEF IInv

(* A new post has an original post as source, or none: the source its author*)
(* names, or what that shares with (CreatePost, setRootSourcePost).         *)
LEMMA CreateKeeps ==
  ASSUME IInv, NEW p \in DOMAIN Links, NEW source, NEW split, CreatePost(p, source, split)
  PROVE  IInv'
<1> DEFINE new == [source |-> RootSource(source), split |-> split,
                   deleted |-> FALSE, reward |-> 0, createdAt |-> now]
<1>1. /\ p \notin DOMAIN posts /\ source \in DOMAIN posts \cup {None}
      /\ now' = now /\ now \in Nat
      /\ DOMAIN posts' = DOMAIN posts \cup {p}
      /\ posts'[p] = new
      /\ \A q \in DOMAIN posts : posts'[q] = posts[q]
  BY DEF CreatePost, MayPost, IInv
<1>2. Shaped(new) /\ new.createdAt = now /\ new.source = RootSource(source)
  BY DEF Shaped, Fields
<1>3. RootSource(source) # None =>
        /\ RootSource(source) \in DOMAIN posts
        /\ posts[RootSource(source)].source = None
        /\ posts[RootSource(source)].createdAt <= now
  <2>1. CASE source = None
    BY <2>1 DEF RootSource
  <2>2. CASE source # None /\ posts[source].source = None
    BY <1>1, <2>2 DEF RootSource, IInv
  <2>3. CASE source # None /\ posts[source].source # None
    BY <1>1, <2>3 DEF RootSource, IInv, SourcesAreRoots
  <2> QED BY <2>1, <2>2, <2>3
<1> HIDE DEF new
<1>4. \A q \in DOMAIN posts' : /\ Shaped(posts'[q]) /\ posts'[q].createdAt \in Nat
                               /\ posts'[q].createdAt <= now'
  BY <1>1, <1>2 DEF IInv
<1>5. ASSUME NEW q \in DOMAIN posts', posts'[q].source # None
      PROVE  /\ posts'[q].source \in DOMAIN posts' \ {q}
             /\ posts'[posts'[q].source].source = None
             /\ posts'[posts'[q].source].createdAt <= posts'[q].createdAt
  <2>1. CASE q = p
    BY <1>1, <1>2, <1>3, <1>5, <2>1
  <2>2. CASE q # p
    BY <1>1, <1>5, <2>2 DEF IInv, SourcesAreRoots
  <2> QED BY <2>1, <2>2
<1>6. SourcesAreRoots'
  BY <1>5 DEF SourcesAreRoots
<1> QED BY <1>1, <1>4, <1>6 DEF IInv

(* Whatever rewards posts come to, their roots stay (Donate, ExecuteReward).*)
LEMMA RewardsKeep ==
  ASSUME IInv, now' = now, NEW sum,
         posts' = [q \in DOMAIN posts |-> [posts[q] EXCEPT !.reward = sum[q]]]
  PROVE  IInv'
<1>1. DOMAIN posts' = DOMAIN posts
  OBVIOUS
<1>2. ASSUME NEW q \in DOMAIN posts
      PROVE  SameRoot(posts'[q], posts[q])
  <2>1. posts'[q] = [posts[q] EXCEPT !.reward = sum[q]]
    OBVIOUS
  <2>2. Shaped(posts[q])
    BY DEF IInv
  <2> QED BY <2>1, <2>2, RewardField
<1>3. SameRoots
  BY <1>1, <1>2 DEF SameRoots, SameRoot
<1>4. now' \in Nat /\ now <= now'
  BY DEF IInv
<1> QED BY <1>3, <1>4, RootsKept

(* Every step keeps the invariant, one case per action.                     *)
LEMMA StepKeeps ==
  ASSUME IInv, [Next]_vars
  PROVE  IInv'
<1>n. now \in Nat
  BY DEF IInv
<1>1. ASSUME NEW p \in DOMAIN Links, NEW s, NEW r, CreatePost(p, s, r)
      PROVE  IInv'
  BY <1>1, CreateKeeps
<1>2. ASSUME NEW p \in DOMAIN Links, DeletePost(p)
      PROVE  IInv'
  <2>1. /\ p \in DOMAIN posts /\ now' = now
        /\ posts' = [posts EXCEPT ![p] = [[posts[p] EXCEPT !.deleted = TRUE]
                                           EXCEPT !.split = Whole]]
    BY <1>2 DEF DeletePost
  <2> DEFINE deletedPost == [[posts[p] EXCEPT !.deleted = TRUE] EXCEPT !.split = Whole]
  <2>2. SameRoot(deletedPost, posts[p])
    <3>1. Shaped(posts[p])
      BY <2>1 DEF IInv
    <3> DEFINE post == posts[p]
    <3>2. Shaped(post)
      BY <3>1
    <3> HIDE DEF post
    <3>3. SameRoot([[post EXCEPT !.deleted = TRUE] EXCEPT !.split = Whole], post)
      BY <3>2 DEF SameRoot, Shaped, Fields
    <3>4. QED BY <3>3 DEF post
  <2>3. posts' = [posts EXCEPT ![p] = deletedPost]
    BY <2>1
  <2> HIDE DEF deletedPost
  <2>4. SameRoots
    BY <2>1, <2>2, <2>3 DEF SameRoots, SameRoot
  <2>5. now' \in Nat /\ now <= now'
    BY <2>1, <1>n
  <2> QED BY <2>4, <2>5, RootsKept
<1>3. ASSUME NEW u \in Users, NEW p \in DOMAIN posts, NEW coin, NEW value,
             Donate(u, p, coin, value)
      PROVE  IInv'
  <2> DEFINE Paid(q) == posts[q].reward + Direct(Shares(p, coin), {q})
             sum == [q \in DOMAIN posts |-> Paid(q)]
  <2>1. posts' = [q \in DOMAIN posts |-> [posts[q] EXCEPT !.reward = Paid(q)]]
    BY <1>3 DEF Donate
  <2>2. now' = now
    BY <1>3 DEF Donate
  <2> HIDE DEF Paid
  <2>3. \A q \in DOMAIN posts : sum[q] = Paid(q)
    OBVIOUS
  <2> HIDE DEF sum
  <2>4. posts' = [q \in DOMAIN posts |-> [posts[q] EXCEPT !.reward = sum[q]]]
    BY <2>1, <2>3
  <2> QED BY <2>2, <2>4, RewardsKeep
<1>4. ASSUME NEW penalty, ExecuteReward(penalty)
      PROVE  IInv'
  <2>1. PICK p, reward :
           posts' = [posts EXCEPT ![p] = [posts[p] EXCEPT !.reward = reward]]
    BY <1>4 DEF ExecuteReward
  <2>2. now' = now
    BY <1>4 DEF ExecuteReward
  <2> DEFINE paidPost == [posts[p] EXCEPT !.reward = reward]
  <2>3. posts' = [posts EXCEPT ![p] = paidPost]
    BY <2>1
  <2>4. p \in DOMAIN posts => SameRoot(paidPost, posts[p])
    BY RewardField DEF IInv
  <2> HIDE DEF paidPost
  <2>5. \A q \in DOMAIN posts : SameRoot(posts[q], posts[q])
    BY DEF IInv, SameRoot
  <2>6. SameRoots
    BY <2>3, <2>4, <2>5 DEF SameRoots, SameRoot
  <2>7. now' \in Nat /\ now <= now'
    BY <2>2, <1>n
  <2> QED BY <2>6, <2>7, RootsKept
<1>5. CASE NextBlock
  <2>1. posts' = posts /\ now' \in Nat /\ now <= now'
    BY <1>5, <1>n DEF NextBlock
  <2>2. SameRoots
    BY <2>1 DEF SameRoots, SameRoot
  <2> QED BY <2>1, <2>2, RootsKept
<1>6. CASE UNCHANGED vars
  <2>1. posts' = posts /\ now' \in Nat /\ now <= now'
    BY <1>6, <1>n DEF vars
  <2>2. SameRoots
    BY <2>1 DEF SameRoots, SameRoot
  <2> QED BY <2>1, <2>2, RootsKept
<1> QED BY <1>1, <1>2, <1>3, <1>4, <1>5, <1>6 DEF Next, Transactions

(* The sources of reposts are original posts, whatever is created, reposted,*)
(* deleted and donated to (setRootSourcePost).                              *)
THEOREM RootSources == Spec => []SourcesAreRoots
<1>1. Init => IInv
  BY DEF Init, IInv, SourcesAreRoots
<1>2. IInv /\ [Next]_vars => IInv'
  BY StepKeeps
<1>3. IInv => SourcesAreRoots
  BY DEF IInv
<1> QED BY <1>1, <1>2, <1>3, PTL DEF Spec
(* Sums over one and two indices.                                           *)
LEMMA SumOne ==
  ASSUME NEW f, f[1] \in Int
  PROVE  SumFunctionOnSet(f, 1 .. 1) = f[1]
<1>1. 1 .. 1 = {} \cup {1} /\ \A i \in {} \cup {1} : f[i] \in Int
  OBVIOUS
<1>2. SumFunctionOnSet(f, {} \cup {1}) = f[1] + SumFunctionOnSet(f, {})
  BY <1>1, SumAdds, FS_EmptySet
<1>3. SumFunctionOnSet(f, {}) = 0
  BY SumEmpty
<1>4. QED BY <1>1, <1>2, <1>3

LEMMA SumPair ==
  ASSUME NEW f, f[1] \in Int, f[2] \in Int
  PROVE  SumFunctionOnSet(f, 1 .. 2) = f[1] + f[2]
<1>1. 1 .. 2 = (1 .. 1) \cup {2} /\ 2 \notin 1 .. 1 /\ IsFiniteSet(1 .. 1)
  <2>1. 1 .. 2 = (1 .. 1) \cup {2} /\ 2 \notin 1 .. 1
    OBVIOUS
  <2>2. 1 .. 1 = {} \cup {1}
    OBVIOUS
  <2>3. IsFiniteSet({} \cup {1})
    BY FS_EmptySet, FS_AddElement
  <2>4. QED BY <2>1, <2>2, <2>3
<1>2. \A i \in (1 .. 1) \cup {2} : f[i] \in Int
  OBVIOUS
<1>3. SumFunctionOnSet(f, (1 .. 1) \cup {2}) = f[2] + SumFunctionOnSet(f, 1 .. 1)
  BY <1>1, <1>2, SumAdds
<1>4. SumFunctionOnSet(f, 1 .. 1) = f[1]
  BY SumOne
<1>5. SumFunctionOnSet(f, 1 .. 2) = f[2] + SumFunctionOnSet(f, 1 .. 1)
  BY <1>1, <1>3
<1>6. QED BY <1>4, <1>5

------------------------------------------------------------------------------
(****************************************************************************)
(* The window and the values that wait.                                     *)
(****************************************************************************)
Evaluates(s) == [i \in DOMAIN s |-> s[i].evaluate]

Waits(s) == SumFunction(Evaluates(s))

Queues == Seq(RewardEvent)

LEMMA WaitsIs ==
  ASSUME NEW s \in Queues
  PROVE  /\ Len(s) \in Nat /\ DOMAIN Evaluates(s) = 1 .. Len(s)
         /\ \A i \in 1 .. Len(s) : Evaluates(s)[i] \in Nat /\ Evaluates(s)[i] = s[i].evaluate
         /\ Waits(s) = SumFunctionOnSet(Evaluates(s), 1 .. Len(s))
         /\ Waits(s) \in Nat /\ \A i \in 1 .. Len(s) : s[i].evaluate <= Waits(s)
<1>1. /\ Len(s) \in Nat /\ DOMAIN s = 1 .. Len(s)
      /\ \A i \in 1 .. Len(s) : s[i].evaluate \in Nat
  <2>1. Len(s) \in Nat /\ DOMAIN s = 1 .. Len(s) /\ \A i \in 1 .. Len(s) : s[i] \in RewardEvent
    BY DEF Queues
  <2>2. \A e \in RewardEvent : e.evaluate \in Nat
    BY DEF RewardEvent
  <2>3. QED BY <2>1, <2>2
<1> DEFINE f == Evaluates(s)
           I == 1 .. Len(s)
<1>2. f \in [I -> Nat] /\ f \in [I -> Int] /\ \A i \in I : f[i] = s[i].evaluate
  BY <1>1 DEF Evaluates
<1>3. IsFiniteSet(I)
  BY <1>1, FS_Interval
<1>4. DOMAIN f = I
  BY <1>1 DEF Evaluates
<1> HIDE DEF f, I
<1>5. SumFunction(f) = SumFunctionOnSet(f, I)
  BY <1>2, <1>3, SumTotal
<1>6. SumFunction(f) \in Nat /\ \A i \in I : f[i] <= SumFunction(f)
  BY <1>2, <1>3, SumCounts
<1>7. \A i \in I : f[i] \in Nat
  BY <1>2
<1>8. QED BY <1>1, <1>2, <1>4, <1>5, <1>6, <1>7 DEF f, I, Waits

LEMMA WaitsJoined ==
  ASSUME NEW s \in Queues, NEW t \in Queues, NEW r \in Queues,
         Len(r) = Len(s) + Len(t),
         \A i \in 1 .. Len(s) : r[i] = s[i],
         \A i \in 1 .. Len(t) : r[i + Len(s)] = t[i]
  PROVE  Waits(r) = Waits(s) + Waits(t)
<1>1. Len(s) \in Nat /\ Len(t) \in Nat
  BY WaitsIs
<1>2. \A i \in 1 .. Len(s) : Evaluates(s)[i] \in Int /\ Evaluates(r)[i] = Evaluates(s)[i]
  <2>1. ASSUME NEW i \in 1 .. Len(s)
        PROVE  Evaluates(s)[i] \in Int /\ Evaluates(r)[i] = Evaluates(s)[i]
    <3>1. i \in 1 .. Len(r) /\ r[i] = s[i]
      BY <1>1
    <3>2. Evaluates(s)[i] \in Nat /\ Evaluates(s)[i] = s[i].evaluate
      BY WaitsIs
    <3>3. Evaluates(r)[i] = r[i].evaluate
      BY <3>1, WaitsIs
    <3>4. QED BY <3>1, <3>2, <3>3
  <2>2. QED BY <2>1
<1>3. \A i \in 1 .. Len(t) :
        Evaluates(t)[i] \in Int /\ Evaluates(r)[i + Len(s)] = Evaluates(t)[i]
  <2>1. ASSUME NEW i \in 1 .. Len(t)
        PROVE  Evaluates(t)[i] \in Int /\ Evaluates(r)[i + Len(s)] = Evaluates(t)[i]
    <3>1. i + Len(s) \in 1 .. Len(r) /\ r[i + Len(s)] = t[i]
      BY <1>1
    <3>2. Evaluates(t)[i] \in Nat /\ Evaluates(t)[i] = t[i].evaluate
      BY WaitsIs
    <3>3. Evaluates(r)[i + Len(s)] = r[i + Len(s)].evaluate
      BY <3>1, WaitsIs
    <3>4. QED BY <3>1, <3>2, <3>3
  <2>2. QED BY <2>1
<1>4. Joined(Len(s), Len(t), Evaluates(s), Evaluates(t), Evaluates(r))
  BY <1>1, <1>2, <1>3 DEF Joined
<1>5. SumFunctionOnSet(Evaluates(r), 1 .. Len(s) + Len(t))
        = SumFunctionOnSet(Evaluates(s), 1 .. Len(s)) + SumFunctionOnSet(Evaluates(t), 1 .. Len(t))
  BY <1>4, SumJoins
<1>6. /\ Waits(r) = SumFunctionOnSet(Evaluates(r), 1 .. Len(r))
      /\ Waits(s) = SumFunctionOnSet(Evaluates(s), 1 .. Len(s))
      /\ Waits(t) = SumFunctionOnSet(Evaluates(t), 1 .. Len(t))
  BY WaitsIs
<1>7. QED BY <1>5, <1>6

LEMMA WaitsConcat ==
  ASSUME NEW s \in Queues, NEW t \in Queues
  PROVE  s \o t \in Queues /\ Waits(s \o t) = Waits(s) + Waits(t)
<1> DEFINE r == s \o t
<1>1. /\ r \in Queues /\ Len(r) = Len(s) + Len(t)
      /\ \A i \in 1 .. Len(s) : r[i] = s[i]
      /\ \A i \in 1 .. Len(t) : r[i + Len(s)] = t[i]
  BY DEF Queues
<1> HIDE DEF r
<1>2. Waits(r) = Waits(s) + Waits(t)
  BY <1>1, WaitsJoined
<1>3. QED BY <1>1, <1>2 DEF r

LEMMA WaitsTail ==
  ASSUME NEW s \in Queues, s # <<>>
  PROVE  /\ Tail(s) \in Queues /\ Waits(Tail(s)) \in Nat
         /\ Head(s) \in RewardEvent /\ Head(s) = s[1] /\ 1 \in 1 .. Len(s)
         /\ Waits(s) = Head(s).evaluate + Waits(Tail(s))
<1> DEFINE t == Tail(s)
           h == <<Head(s)>>
<1>1. /\ t \in Queues /\ h \in Queues /\ Len(h) = 1 /\ Len(s) = 1 + Len(t)
      /\ h[1] = Head(s) /\ Head(s) = s[1] /\ Head(s) \in RewardEvent
      /\ 1 \in 1 .. Len(s)
      /\ \A i \in 1 .. Len(t) : s[i + 1] = t[i]
  BY DEF Queues
<1> HIDE DEF t, h
<1>2. \A i \in 1 .. Len(h) : s[i] = h[i]
  BY <1>1
<1>3. Len(s) = Len(h) + Len(t) /\ \A i \in 1 .. Len(t) : s[i + Len(h)] = t[i]
  BY <1>1
<1>4. Waits(s) = Waits(h) + Waits(t)
  BY <1>1, <1>2, <1>3, WaitsJoined
<1>5. Waits(h) = Head(s).evaluate
  <2>1. /\ Waits(h) = SumFunctionOnSet(Evaluates(h), 1 .. Len(h))
        /\ \A i \in 1 .. Len(h) : Evaluates(h)[i] \in Nat /\ Evaluates(h)[i] = h[i].evaluate
    BY <1>1, WaitsIs
  <2>2. /\ Evaluates(h)[1] \in Int /\ Evaluates(h)[1] = Head(s).evaluate
        /\ Waits(h) = SumFunctionOnSet(Evaluates(h), 1 .. 1)
    BY <1>1, <2>1
  <2>3. QED BY <2>2, SumOne
<1>6. Waits(t) \in Nat
  BY <1>1, WaitsIs
<1>7. QED BY <1>1, <1>4, <1>5, <1>6 DEF t
------------------------------------------------------------------------------
(****************************************************************************)
(* What becomes of a donation: the shares add up to it, and friction and    *)
(* what the authors keep add up to the shares.                              *)
(****************************************************************************)
Coin == Nat \ {0}

LEMMA FrictionIs ==
  ASSUME NEW c \in Nat
  PROVE  FrictionOf(c) \in 0 .. c
BY RoundShare, ContentAssumption DEF FrictionOf, ContentAssumption

(* The posts of a donation to p: p, and its source if that shares.          *)
Sharing(p) ==
  {p} \cup {s \in DOMAIN posts : s = posts[p].source /\ posts[s].split # Whole}

Parts(p) == Seq(Sharing(p) \X Coin)

Gross(shares) == [i \in DOMAIN shares |-> shares[i][2]]

LEMMA PartsAre ==
  ASSUME NEW p, NEW shares \in Parts(p)
  PROVE  /\ Len(shares) \in Nat /\ DOMAIN shares = 1 .. Len(shares)
         /\ IsFiniteSet(DOMAIN shares)
         /\ \A i \in DOMAIN shares : shares[i][1] \in Sharing(p) /\ shares[i][2] \in Coin
<1>1. /\ Len(shares) \in Nat /\ DOMAIN shares = 1 .. Len(shares)
      /\ \A i \in DOMAIN shares : shares[i] \in Sharing(p) \X Coin
  BY DEF Parts
<1>2. IsFiniteSet(1 .. Len(shares))
  BY <1>1, FS_Interval
<1>3. QED BY <1>1, <1>2

LEMMA ToSourceIs ==
  ASSUME TypeOK, SourcesAreRoots, NEW p \in DOMAIN posts, NEW coin \in Coin
  PROVE  /\ ToSource(p, coin) \in 0 .. coin
         /\ ToSource(p, coin) # 0 => posts[p].source \in Sharing(p)
<1> DEFINE s == posts[p].source
<1>1. CASE s = None
  BY <1>1 DEF ToSource, Coin
<1>2. CASE s # None
  <2>1. s \in DOMAIN posts /\ Whole \in Coin
    BY <1>2, ContentAssumption DEF SourcesAreRoots, ContentAssumption, Coin
  <2>2. posts[s].split \in 0 .. Whole
    BY <2>1 DEF TypeOK, PostInfo
  <2> DEFINE k == Whole - posts[s].split
  <2>3. k \in 0 .. Whole /\ (k = 0 => posts[s].split = Whole)
    BY <2>1, <2>2 DEF Coin
  <2>4. ToSource(p, coin) = Round(coin * k, Whole)
    BY <1>2 DEF ToSource
  <2> HIDE DEF k
  <2>5. Round(coin * k, Whole) \in 0 .. coin
    BY <2>1, <2>3, RoundShare DEF Coin
  <2>6. k = 0 => Round(coin * k, Whole) = 0
    <3>1. SUFFICES ASSUME k = 0 PROVE Round(coin * k, Whole) = 0
      OBVIOUS
    <3>2. coin * k = 0
      BY <3>1 DEF Coin
    <3>3. Round(0 * Whole, Whole) \in 0 .. 0
      BY <2>1, RoundShare DEF Coin
    <3>4. 0 * Whole = 0
      BY <2>1 DEF Coin
    <3>5. QED BY <3>2, <3>3, <3>4
  <2>7. ToSource(p, coin) # 0 => posts[s].split # Whole
    <3>1. posts[s].split = Whole => k = 0
      BY <2>1 DEF k, Coin
    <3>2. QED BY <2>4, <2>6, <3>1
  <2>8. QED BY <2>1, <2>4, <2>5, <2>7 DEF Sharing
<1>3. QED BY <1>1, <1>2

LEMMA TwoParts ==
  ASSUME NEW x, NEW y
  PROVE  <<x>> \o <<y>> = <<x, y>>
<1> DEFINE V == {x, y}
           r == <<x>> \o <<y>>
           q == <<x, y>>
<1>1. /\ <<x>> \in Seq(V) /\ <<y>> \in Seq(V) /\ q \in Seq(V)
      /\ Len(<<x>>) = 1 /\ Len(<<y>>) = 1 /\ Len(q) = 2
  OBVIOUS
<1>2. r \in Seq(V) /\ Len(r) = 2 /\ r[1] = x /\ r[2] = y
  BY <1>1
<1>3. q[1] = x /\ q[2] = y
  OBVIOUS
<1> HIDE DEF r, q, V
<1>4. \A i \in 1 .. Len(r) : r[i] = q[i]
  BY <1>2, <1>3
<1>5. q \in Seq(V) /\ r \in Seq(V) /\ Len(r) = Len(q)
  BY <1>1, <1>2
<1>6. r = q
  BY <1>4, <1>5, SeqEqual
<1>7. QED BY <1>6 DEF r, q

LEMMA SharesAre ==
  ASSUME TypeOK, SourcesAreRoots, NEW p \in DOMAIN posts, NEW coin \in Coin
  PROVE  /\ Shares(p, coin) \in Parts(p)
         /\ SumFunctionOnSet(Gross(Shares(p, coin)), DOMAIN Shares(p, coin)) = coin
<1> DEFINE s == posts[p].source
           a == ToSource(p, coin)
           b == coin - a
           r == Shares(p, coin)
           P == Sharing(p) \X Coin
<1>1. /\ a \in Nat /\ b \in Nat /\ a + b = coin /\ (a # 0 => s \in Sharing(p))
      /\ p \in Sharing(p) /\ coin \in Nat /\ coin # 0
  BY ToSourceIs DEF Coin, Sharing
<1>2. r = Share(s, a) \o Share(p, b)
  BY DEF Shares
<1> HIDE DEF a, b, r, s
<1>3. CASE a # 0 /\ b # 0
  <2>1. Share(s, a) = << <<s, a>> >> /\ Share(p, b) = << <<p, b>> >>
    BY <1>1, <1>3 DEF Share
  <2>2. << <<s, a>> >> \o << <<p, b>> >> = << <<s, a>>, <<p, b>> >>
    BY TwoParts
  <2>3. r = << <<s, a>>, <<p, b>> >>
    BY <1>2, <2>1, <2>2
  <2>4. r \in Parts(p)
    <3>1. <<s, a>> \in P /\ <<p, b>> \in P
      BY <1>1, <1>3 DEF Coin
    <3> HIDE DEF P
    <3>2. << <<s, a>>, <<p, b>> >> \in Seq(P)
      BY <3>1
    <3>3. QED BY <2>3, <3>2 DEF Parts, P
  <2>5. DOMAIN r = 1 .. 2 /\ Gross(r)[1] = a /\ Gross(r)[2] = b
    BY <2>3 DEF Gross
  <2>6. SumFunctionOnSet(Gross(r), 1 .. 2) = a + b
    BY <1>1, <2>5, SumPair
  <2>7. QED BY <1>1, <2>4, <2>5, <2>6 DEF r
<1>4. CASE a = 0 \/ b = 0
  <2>1. PICK q \in Sharing(p) : r = << <<q, coin>> >>
    <3>1. CASE a = 0
      <4>1. b = coin /\ b > 0
        BY <1>1, <3>1
      <4>2. Share(s, a) = <<>> /\ Share(p, b) = << <<p, coin>> >>
        BY <3>1, <4>1 DEF Share
      <4>3. r = << <<p, coin>> >>
        BY <1>2, <4>2
      <4>4. QED BY <1>1, <4>3
    <3>2. CASE b = 0
      <4>1. a = coin /\ a > 0 /\ s \in Sharing(p)
        BY <1>1, <3>2
      <4>2. Share(p, b) = <<>> /\ Share(s, a) = << <<s, coin>> >>
        BY <3>2, <4>1 DEF Share
      <4>3. r = << <<s, coin>> >>
        BY <1>2, <4>2
      <4>4. QED BY <4>1, <4>3
    <3>3. QED BY <1>4, <3>1, <3>2
  <2>2. r \in Parts(p)
    <3>1. <<q, coin>> \in P
      OBVIOUS
    <3> HIDE DEF P
    <3>2. << <<q, coin>> >> \in Seq(P)
      BY <3>1
    <3>3. QED BY <2>1, <3>2 DEF Parts, P
  <2>3. DOMAIN r = 1 .. 1 /\ Gross(r)[1] = coin
    BY <2>1 DEF Gross
  <2>4. SumFunctionOnSet(Gross(r), 1 .. 1) = coin
    BY <1>1, <2>3, SumOne
  <2>5. QED BY <2>2, <2>3, <2>4 DEF r
<1>5. QED BY <1>3, <1>4

Net(shares) == [i \in DOMAIN shares |-> shares[i][2] - FrictionOf(shares[i][2])]

Frictions(shares) == [i \in DOMAIN shares |-> FrictionOf(shares[i][2])]

Due(shares, to) ==
  [i \in DOMAIN shares |->
     IF shares[i][1] \in to THEN shares[i][2] - FrictionOf(shares[i][2]) ELSE 0]

LEMMA PartAmounts ==
  ASSUME NEW p, NEW shares \in Parts(p)
  PROVE  \A i \in DOMAIN shares :
           /\ shares[i][2] \in Nat /\ FrictionOf(shares[i][2]) \in Nat
           /\ shares[i][2] - FrictionOf(shares[i][2]) \in Nat
<1>1. ASSUME NEW i \in DOMAIN shares
      PROVE  /\ shares[i][2] \in Nat /\ FrictionOf(shares[i][2]) \in Nat
             /\ shares[i][2] - FrictionOf(shares[i][2]) \in Nat
  <2> DEFINE c == shares[i][2]
  <2>1. c \in Nat
    BY PartsAre DEF Coin
  <2> HIDE DEF c
  <2>2. FrictionOf(c) \in 0 .. c
    BY <2>1, FrictionIs
  <2>3. FrictionOf(c) \in Nat /\ c - FrictionOf(c) \in Nat
    BY <2>1, <2>2
  <2>4. QED BY <2>1, <2>3 DEF c
<1>2. QED BY <1>1

LEMMA DirectIs ==
  ASSUME NEW p, NEW shares \in Parts(p), NEW to
  PROVE  /\ Direct(shares, to) = SumFunctionOnSet(Due(shares, to), DOMAIN shares)
         /\ Direct(shares, to) \in Nat
         /\ (\A i \in DOMAIN shares : shares[i][1] \notin to) => Direct(shares, to) = 0
<1> DEFINE I == DOMAIN shares
           f == Due(shares, to)
<1>1. IsFiniteSet(I)
  BY PartsAre
<1>2. \A i \in I : f[i] \in Nat
  BY PartAmounts DEF Due
<1>3. f \in [I -> Nat] /\ f \in [I -> Int]
  BY <1>2 DEF Due
<1>4. Direct(shares, to) = SumFunction(f)
  BY DEF Direct, Due
<1>5. (\A i \in I : shares[i][1] \notin to) => \A i \in I : f[i] = 0
  BY DEF Due
<1> HIDE DEF I, f
<1>6. SumFunction(f) = SumFunctionOnSet(f, I)
  BY <1>1, <1>3, SumTotal
<1>7. SumFunction(f) \in Nat
  BY <1>1, <1>3, SumCounts
<1>8. (\A i \in I : f[i] = 0) => SumFunctionOnSet(f, I) = 0
  BY <1>1, SumZero
<1>9. QED BY <1>4, <1>5, <1>6, <1>7, <1>8 DEF I, f

(* Authors receive what the shares come to, less the friction.              *)
PaidTo(shares) ==
  [v \in Users |-> Direct(shares, {q \in DOMAIN posts : Author(q) = v})]

LEMMA NoneLost ==
  ASSUME TypeOK, NEW p \in DOMAIN posts, NEW shares \in Parts(p)
  PROVE  /\ PaidTo(shares) \in [Users -> Nat] /\ AllFriction(shares) \in Nat
         /\ SumFunctionOnSet(PaidTo(shares), Users) + AllFriction(shares)
              = SumFunctionOnSet(Gross(shares), DOMAIN shares)
         /\ SumFunctionOnSet(PaidTo(shares), Users) \in Int
<1> DEFINE I == DOMAIN shares
           x == Net(shares)
           a == [i \in I |-> Author(shares[i][1])]
           To(v) == {q \in DOMAIN posts : Author(q) = v}
           part == [v \in Users |-> Due(shares, To(v))]
           d == PaidTo(shares)
           fr == Frictions(shares)
           gr == Gross(shares)
<1>1. IsFiniteSet(I) /\ IsFiniteSet(Users)
  BY PartsAre, ContentAssumption DEF ContentAssumption
<1>2. \A i \in I : /\ shares[i][1] \in DOMAIN posts /\ Author(shares[i][1]) \in Users
                   /\ a[i] = Author(shares[i][1])
  <2>1. \A i \in I : shares[i][1] \in DOMAIN posts
    BY PartsAre DEF Sharing
  <2>2. \A q \in DOMAIN posts : Author(q) \in Users
    BY ContentAssumption DEF TypeOK, Author, ContentAssumption
  <2>3. QED BY <2>1, <2>2
<1>3. a \in [I -> Users]
  BY <1>2
<1>4. \A i \in I : /\ x[i] \in Int /\ fr[i] \in Nat /\ gr[i] = x[i] + fr[i]
                   /\ x[i] = shares[i][2] - FrictionOf(shares[i][2])
  BY PartAmounts DEF Net, Frictions, Gross
<1>5. x \in [I -> Int] /\ fr \in [I -> Nat] /\ fr \in [I -> Int]
  BY <1>4 DEF Net, Frictions
<1>6. \A v \in Users : d[v] \in Nat /\ d[v] = SumFunctionOnSet(part[v], I)
  BY DirectIs DEF PaidTo
<1>7. d \in [Users -> Nat]
  BY <1>6 DEF PaidTo
<1>8. ASSUME NEW v \in Users, NEW i \in I
      PROVE  part[v][i] = IF a[i] = v THEN x[i] ELSE 0
  <2>1. shares[i][1] \in To(v) <=> a[i] = v
    BY <1>2
  <2>2. part[v][i] = IF shares[i][1] \in To(v) THEN x[i] ELSE 0
    BY <1>4 DEF Due
  <2>3. QED BY <2>1, <2>2
<1>9. AllFriction(shares) = SumFunction(fr)
  BY DEF AllFriction, Frictions
<1> HIDE DEF I, x, a, To, part, d, fr, gr
<1>10. Dealt(I, Users, a, x, part, d)
  BY <1>3, <1>5, <1>6, <1>8 DEF Dealt
<1>11. SumFunctionOnSet(d, Users) = SumFunctionOnSet(x, I)
  BY <1>1, <1>10, SumByOwner
<1>12. SumFunction(fr) \in Nat
  BY <1>1, <1>5, SumCounts
<1>13. SumFunction(fr) = SumFunctionOnSet(fr, I)
  BY <1>1, <1>5, SumTotal
<1>14. SumFunctionOnSet(gr, I) = SumFunctionOnSet(x, I) + SumFunctionOnSet(fr, I)
  <2>1. \A i \in I : x[i] \in Int /\ fr[i] \in Int /\ gr[i] = x[i] + fr[i]
    BY <1>4
  <2>2. QED BY <1>1, <2>1, SumTwo
<1>15. SumFunctionOnSet(x, I) \in Int
  <2>1. \A i \in I : x[i] \in Int
    BY <1>4
  <2>2. QED BY <1>1, <2>1, SumTakes
<1>16. SumFunctionOnSet(d, Users) + AllFriction(shares) = SumFunctionOnSet(gr, I)
  BY <1>9, <1>11, <1>13, <1>14
<1>17. QED BY <1>7, <1>9, <1>11, <1>12, <1>15, <1>16 DEF d, gr, I
------------------------------------------------------------------------------
(****************************************************************************)
(* Rewards: no event takes more from the pool than there is, as the window  *)
(* holds the value of every event that waits.                               *)
(****************************************************************************)
LEMMA RewardIs ==
  ASSUME pool \in Nat, window \in Nat, NEW e \in RewardEvent, NEW penalty \in 0 .. Whole,
         e.evaluate <= window
  PROVE  /\ RewardOf(e, penalty) \in 0 .. pool
         /\ penalty = Whole => RewardOf(e, penalty) = 0
<1> DEFINE v == e.evaluate
           k == v * (Whole - penalty)
           d == Whole * window
<1>1. v \in Nat /\ Whole \in Nat \ {0} /\ Precision \in Nat \ {0}
  BY ContentAssumption DEF RewardEvent, ContentAssumption
<1>2. CASE v = 0
  BY <1>2 DEF RewardOf
<1>3. CASE v # 0
  <2> DEFINE inner == Round(k * Precision, d)
  <2>1. RewardOf(e, penalty) = Round(pool * inner, Precision)
    BY <1>3 DEF RewardOf
  <2> HIDE DEF v
  <2>2. PICK w \in 0 .. Whole : w = Whole - penalty
    BY <1>1
  <2>3. /\ v * w \in Nat /\ Whole * window \in Nat
        /\ v * w <= window * w /\ window * w <= window * Whole
        /\ window * Whole = Whole * window
    <3>1. v \in Nat /\ window \in Nat /\ w \in Nat /\ Whole \in Nat /\ v <= window /\ w <= Whole
      BY <1>1, <2>2 DEF v
    <3>2. \A x, y, z \in Nat : x <= y => x * z <= y * z /\ z * x <= z * y /\ x * z \in Nat
      BY SMT
    <3>3. \A x, y \in Nat : x * y = y * x /\ x * y \in Nat
      BY SMT
    <3>4. QED BY <3>1, <3>2, <3>3
  <2>4. d # 0
    <3>1. window # 0
      BY <1>1, <1>3 DEF v
    <3>2. \A x, y \in Nat \ {0} : x * y # 0
      BY SMT
    <3>3. QED BY <1>1, <3>1, <3>2
  <2>5. k \in 0 .. d /\ d \in Nat \ {0}
    <3>1. k = v * w
      BY <2>2
    <3> HIDE DEF k
    <3>2. d = Whole * window
      OBVIOUS
    <3> HIDE DEF d
    <3>3. v * w <= d /\ d \in Nat /\ v * w \in Nat
      <4>1. window * w \in Int
        BY <2>2
      <4>2. QED BY <2>3, <3>2, <4>1
    <3>4. QED BY <2>4, <3>1, <3>3
  <2>6. penalty = Whole => k = 0
    <3>1. penalty = Whole => w = 0
      BY <1>1, <2>2
    <3>2. v * 0 = 0
      BY <1>1
    <3>3. k = v * w
      BY <2>2
    <3>4. QED BY <3>1, <3>2, <3>3
  <2> HIDE DEF k, d
  <2>7. Precision * k = k * Precision
    BY <1>1, <2>5
  <2>8. Round(Precision * k, d) \in 0 .. Precision
    BY <1>1, <2>5, RoundShare
  <2>9. inner \in 0 .. Precision
    BY <2>7, <2>8
  <2>10. k = 0 => inner = 0
    <3>1. SUFFICES ASSUME k = 0 PROVE inner = 0
      OBVIOUS
    <3>2. Round(0 * d, d) \in 0 .. 0
      BY <2>5, RoundShare
    <3>3. 0 * d = 0 /\ k * Precision = 0
      BY <1>1, <2>5, <3>1
    <3>4. QED BY <3>2, <3>3
  <2> HIDE DEF inner
  <2>11. Round(pool * inner, Precision) \in 0 .. pool
    BY <1>1, <2>9, RoundShare
  <2>12. inner = 0 => Round(pool * inner, Precision) = 0
    <3>1. SUFFICES ASSUME inner = 0 PROVE Round(pool * inner, Precision) = 0
      OBVIOUS
    <3>2. Round(0 * Precision, Precision) \in 0 .. 0
      BY <1>1, RoundShare
    <3>3. 0 * Precision = 0 /\ pool * inner = 0
      BY <1>1, <3>1
    <3>4. QED BY <3>2, <3>3
  <2>13. QED BY <2>1, <2>6, <2>10, <2>11, <2>12
<1>4. QED BY <1>2, <1>3
------------------------------------------------------------------------------
(****************************************************************************)
(* The coins.  Of a deleted post nothing is shared (DeletePost), so that    *)
(* nothing is earned by it again.                                           *)
(****************************************************************************)
DeletedKeepsAll == \A p \in DOMAIN posts : posts[p].deleted => posts[p].split = Whole

Stored ==
  /\ DOMAIN posts \subseteq DOMAIN Links /\ posts \in [DOMAIN posts -> PostInfo]
  /\ DeletedKeepsAll

Counted ==
  /\ wallet \in [Users -> Nat] /\ earned \in [Users -> Nat]
  /\ stakers \in Nat /\ window \in Nat /\ pool \in Nat /\ supply \in Nat /\ now \in Nat

Queued ==
  /\ pending \in Queues
  /\ \A i \in 1 .. Len(pending) : pending[i].post \in DOMAIN posts
  /\ window = Waits(pending)

Balanced == supply = SumFunction(wallet) + SumFunction(earned) + stakers

CInv == IInv /\ Stored /\ Counted /\ Queued /\ Balanced

LEMMA CInvGives ==
  CInv => TypeOK /\ SourcesAreRoots /\ WindowIsPending /\ CoinsConserved
<1>1. ASSUME CInv PROVE TypeOK
  <2>1. DOMAIN pending = 1 .. Len(pending)
    BY <1>1 DEF CInv, Queued, Queues
  <2>2. {stakers, window, pool, supply, now} \subseteq Nat
    BY <1>1 DEF CInv, Counted
  <2>3. QED BY <1>1, <2>1, <2>2 DEF CInv, Stored, Counted, Queued, Queues, TypeOK
<1>2. CInv => WindowIsPending
  BY DEF CInv, Queued, Waits, Evaluates, WindowIsPending
<1>3. QED BY <1>1, <1>2 DEF CInv, IInv, Balanced, CoinsConserved

LEMMA MoneySums ==
  ASSUME Counted
  PROVE  SumFunction(wallet) \in Int /\ SumFunction(earned) \in Int
<1>1. wallet \in [Users -> Int] /\ earned \in [Users -> Int] /\ IsFiniteSet(Users)
  BY ContentAssumption DEF Counted, ContentAssumption
<1>2. QED BY <1>1, SumTotal

(* A new post changes no coins; nor does a deletion.                        *)
LEMMA PostsOnly ==
  ASSUME CInv, IInv', Stored', DOMAIN posts \subseteq DOMAIN posts',
         UNCHANGED <<wallet, earned, stakers, window, pool, supply, pending, now>>
  PROVE  CInv'
<1>1. Counted' /\ Balanced'
  BY DEF CInv, Counted, Balanced
<1>2. Queued'
  BY DEF CInv, Queued
<1>3. QED BY <1>1, <1>2 DEF CInv

LEMMA CreateStores ==
  ASSUME CInv, NEW p \in DOMAIN Links, NEW source \in DOMAIN Links \cup {None},
         NEW split \in Splits, CreatePost(p, source, split)
  PROVE  Stored' /\ DOMAIN posts \subseteq DOMAIN posts'
<1> DEFINE new == [source |-> RootSource(source), split |-> split,
                   deleted |-> FALSE, reward |-> 0, createdAt |-> now]
<1>1. /\ source \in DOMAIN posts \cup {None}
      /\ DOMAIN posts' = DOMAIN posts \cup {p}
      /\ posts' = [q \in DOMAIN posts \cup {p} |-> IF q = p THEN new ELSE posts[q]]
  BY DEF CreatePost, MayPost
<1>2. /\ DOMAIN posts \subseteq DOMAIN Links /\ \A q \in DOMAIN posts : posts[q] \in PostInfo
      /\ now \in Nat /\ split \in 0 .. Whole
  BY ContentAssumption DEF CInv, Stored, Counted, ContentAssumption
<1>3. RootSource(source) \in DOMAIN Links \cup {None}
  BY <1>1, <1>2 DEF RootSource, PostInfo
<1>4. new \in PostInfo /\ new.deleted = FALSE
  BY <1>2, <1>3 DEF PostInfo
<1> HIDE DEF new
<1>5. /\ \A q \in DOMAIN posts' : posts'[q] \in PostInfo
      /\ posts' = [q \in DOMAIN posts' |-> posts'[q]]
  BY <1>1, <1>2, <1>4
<1>6. DeletedKeepsAll'
  BY <1>1, <1>4 DEF CInv, Stored, DeletedKeepsAll
<1>7. QED BY <1>1, <1>2, <1>5, <1>6 DEF Stored

LEMMA DeleteStores ==
  ASSUME CInv, NEW p, DeletePost(p)
  PROVE  Stored' /\ DOMAIN posts \subseteq DOMAIN posts'
<1>1. /\ p \in DOMAIN posts
      /\ posts' = [posts EXCEPT ![p].deleted = TRUE, ![p].split = Whole]
  BY DEF DeletePost
<1>2. /\ DOMAIN posts \subseteq DOMAIN Links /\ posts \in [DOMAIN posts -> PostInfo]
      /\ Whole \in 0 .. Whole
  BY ContentAssumption DEF CInv, Stored, ContentAssumption
<1>3. /\ DOMAIN posts' = DOMAIN posts
      /\ posts'[p] = [posts[p] EXCEPT !.deleted = TRUE, !.split = Whole]
      /\ \A q \in DOMAIN posts : q # p => posts'[q] = posts[q]
  BY <1>1
<1>4. posts'[p] \in PostInfo /\ posts'[p].split = Whole
  <2> DEFINE post == posts[p]
  <2>1. post \in PostInfo
    BY <1>1, <1>2
  <2> HIDE DEF post
  <2>2. /\ [post EXCEPT !.deleted = TRUE, !.split = Whole] \in PostInfo
        /\ [post EXCEPT !.deleted = TRUE, !.split = Whole].split = Whole
    BY <1>2, <2>1 DEF PostInfo
  <2>3. posts'[p] = [post EXCEPT !.deleted = TRUE, !.split = Whole]
    BY <1>3 DEF post
  <2>4. QED BY <2>2, <2>3
<1>5. posts' \in [DOMAIN posts' -> PostInfo]
  <2>1. \A q \in DOMAIN posts' : posts'[q] \in PostInfo
    BY <1>2, <1>3, <1>4
  <2>2. posts' = [q \in DOMAIN posts' |-> posts'[q]]
    BY <1>1
  <2>3. QED BY <2>1, <2>2
<1>6. DeletedKeepsAll'
  BY <1>3, <1>4 DEF CInv, Stored, DeletedKeepsAll
<1>7. QED BY <1>2, <1>3, <1>5, <1>6 DEF Stored

(* A donation: processDonationFriction for either share.                    *)
LEMMA DonateStep ==
  ASSUME CInv, NEW u \in Users, NEW p \in DOMAIN posts, NEW coin \in Amounts, NEW value,
         Donate(u, p, coin, value)
  PROVE  /\ Stored' /\ Counted' /\ Queued' /\ Balanced'
         /\ \A q \in DOMAIN posts : posts[q].deleted =>
              posts'[q].deleted /\ posts'[q].reward = posts[q].reward
<1> DEFINE shares == Shares(p, coin)
           new == [i \in DOMAIN shares |->
                     [post |-> shares[i][1], evaluate |-> value[i], due |-> now + Freezing]]
           paid == PaidTo(shares)
<1>0. TypeOK /\ SourcesAreRoots /\ coin \in Coin /\ Stored /\ Counted /\ Queued /\ Balanced
      /\ IsFiniteSet(Users) /\ coin \in Nat
  BY CInvGives, ContentAssumption DEF ContentAssumption, Coin, CInv
<1>1. /\ shares \in Parts(p)
      /\ SumFunctionOnSet(Gross(shares), DOMAIN shares) = coin
  BY <1>0, SharesAre
<1>2. /\ wallet[u] >= coin /\ ~posts[p].deleted /\ value \in [DOMAIN shares -> Values]
      /\ wallet' = [v \in Users |-> wallet[v] - (IF v = u THEN coin ELSE 0) + paid[v]]
      /\ posts' = [q \in DOMAIN posts |-> [posts[q] EXCEPT
            !.reward = @ + Direct(shares, {q})]]
      /\ stakers' = stakers + AllFriction(shares)
      /\ window' = window + SumFunction(value)
      /\ pending' = pending \o new
      /\ UNCHANGED <<earned, pool, supply, now>>
  BY DEF Donate, PaidTo, Evaluations
<1>3. /\ paid \in [Users -> Nat] /\ AllFriction(shares) \in Nat
      /\ SumFunctionOnSet(paid, Users) + AllFriction(shares) = coin
      /\ SumFunctionOnSet(paid, Users) \in Int
  BY <1>0, <1>1, NoneLost
<1>4. /\ Len(shares) \in Nat /\ DOMAIN shares = 1 .. Len(shares) /\ IsFiniteSet(DOMAIN shares)
      /\ \A i \in DOMAIN shares : shares[i][1] \in Sharing(p)
      /\ \A q : Direct(shares, {q}) \in Nat
      /\ \A q : (\A i \in DOMAIN shares : shares[i][1] # q) => Direct(shares, {q}) = 0
  <2>1. ASSUME NEW q, \A i \in DOMAIN shares : shares[i][1] # q
        PROVE  Direct(shares, {q}) = 0
    <3>1. \A i \in DOMAIN shares : shares[i][1] \notin {q}
      BY <2>1
    <3> HIDE DEF shares
    <3>2. QED BY <1>1, <3>1, DirectIs
  <2> HIDE DEF shares
  <2>2. QED BY <1>1, <2>1, PartsAre, DirectIs
<1> HIDE DEF shares, paid
<1>5. Stored'
  <2>1. ASSUME NEW q \in DOMAIN posts
        PROVE  posts'[q] \in PostInfo /\ posts'[q].split = posts[q].split
               /\ posts'[q].deleted = posts[q].deleted
    <3>1. posts[q] \in PostInfo /\ posts[q].reward + Direct(shares, {q}) \in Nat
      <4>1. posts[q] \in PostInfo
        BY <1>0 DEF Stored
      <4>2. posts[q].reward \in Nat
        BY <4>1 DEF PostInfo
      <4>3. Direct(shares, {q}) \in Nat
        BY <1>4
      <4>4. QED BY <4>1, <4>2, <4>3
    <3>2. posts'[q] = [posts[q] EXCEPT !.reward = posts[q].reward + Direct(shares, {q})]
      BY <1>2
    <3>3. QED BY <3>1, <3>2 DEF PostInfo
  <2>2. DOMAIN posts' = DOMAIN posts /\ posts' = [q \in DOMAIN posts' |-> posts'[q]]
    BY <1>2
  <2>3. QED BY <1>0, <2>1, <2>2 DEF Stored, DeletedKeepsAll
<1>6. \A q \in DOMAIN posts : posts[q].deleted =>
        posts'[q].deleted /\ posts'[q].reward = posts[q].reward
  <2>1. ASSUME NEW q \in DOMAIN posts, posts[q].deleted
        PROVE  posts'[q].deleted /\ posts'[q].reward = posts[q].reward
    <3>1. q \notin Sharing(p)
      BY <1>0, <1>2, <2>1 DEF Sharing, Stored, DeletedKeepsAll
    <3>2. Direct(shares, {q}) = 0
      BY <1>4, <3>1
    <3>3. posts[q] \in PostInfo
      BY <1>0 DEF Stored
    <3>4. posts'[q] = [posts[q] EXCEPT !.reward = posts[q].reward + 0]
      BY <1>2, <3>2
    <3>5. QED BY <2>1, <3>3, <3>4 DEF PostInfo
  <2>2. QED BY <2>1
<1>7. new \in Queues /\ \A i \in 1 .. Len(shares) : new[i].post \in DOMAIN posts
  <2>1. ASSUME NEW i \in DOMAIN shares
        PROVE  /\ new[i] \in RewardEvent /\ new[i].post \in DOMAIN posts
               /\ new[i].evaluate = value[i]
    <3>1. shares[i][1] \in DOMAIN posts /\ DOMAIN posts \subseteq DOMAIN Links
      BY <1>0, <1>4 DEF Sharing, Stored
    <3>2. value[i] \in Nat
      BY <1>2, ContentAssumption DEF ContentAssumption
    <3>3. now + Freezing \in Nat
      BY <1>0, ContentAssumption DEF ContentAssumption, Counted
    <3>4. QED BY <3>1, <3>2, <3>3 DEF RewardEvent
  <2>2. new \in [1 .. Len(shares) -> RewardEvent]
    BY <1>4, <2>1
  <2> HIDE DEF new
  <2>3. new \in Seq(RewardEvent)
    BY <1>4, <2>2
  <2>4. QED BY <1>4, <2>1, <2>3 DEF Queues
<1>8. Evaluates(new) = value /\ Len(new) = Len(shares)
  <2>1. DOMAIN new = DOMAIN shares /\ \A i \in DOMAIN shares : new[i].evaluate = value[i]
    OBVIOUS
  <2> HIDE DEF new
  <2>2. Evaluates(new) = [i \in DOMAIN shares |-> value[i]]
    BY <2>1 DEF Evaluates
  <2>3. Evaluates(new) = value
    BY <1>2, <2>2
  <2>4. Len(new) \in Nat /\ DOMAIN new = 1 .. Len(new)
    BY <1>7 DEF Queues
  <2>5. QED BY <1>4, <2>1, <2>3, <2>4
<1> HIDE DEF new
<1>9. Queued'
  <2>1. /\ pending' \in Queues /\ Waits(pending') = Waits(pending) + Waits(new)
    BY <1>0, <1>2, <1>7, WaitsConcat DEF Queued
  <2>2. Waits(new) = SumFunction(value)
    BY <1>8 DEF Waits
  <2>3. window' = Waits(pending')
    BY <1>0, <1>2, <2>1, <2>2 DEF Queued
  <2>4. ASSUME NEW i \in 1 .. Len(pending') PROVE pending'[i].post \in DOMAIN posts
    <3>1. /\ Len(pending) \in Nat /\ Len(new) \in Nat /\ Len(pending') = Len(pending) + Len(new)
          /\ pending'[i] = IF i <= Len(pending) THEN pending[i] ELSE new[i - Len(pending)]
      BY <1>0, <1>2, <1>7 DEF Queued, Queues
    <3>2. CASE i <= Len(pending)
      BY <1>0, <3>1, <3>2 DEF Queued
    <3>3. CASE ~(i <= Len(pending))
      <4>1. i - Len(pending) \in 1 .. Len(shares)
        BY <1>8, <3>1, <3>3
      <4>2. QED BY <1>7, <3>1, <3>3, <4>1
    <3>4. QED BY <3>2, <3>3
  <2>5. DOMAIN posts' = DOMAIN posts
    BY <1>2
  <2>6. QED BY <2>1, <2>3, <2>4, <2>5 DEF Queued
<1>10. Counted'
  <2>1. \A v \in Users : wallet[v] - (IF v = u THEN coin ELSE 0) + paid[v] \in Nat
    <3>1. ASSUME NEW v \in Users
          PROVE  wallet[v] - (IF v = u THEN coin ELSE 0) + paid[v] \in Nat
      <4>1. wallet[v] \in Nat /\ paid[v] \in Nat
        BY <1>0, <1>3 DEF Counted
      <4>2. v = u => wallet[v] >= coin
        BY <1>2
      <4>3. QED BY <1>0, <4>1, <4>2
    <3>2. QED BY <3>1
  <2>2. wallet' \in [Users -> Nat]
    BY <1>2, <2>1
  <2>3. Waits(pending') \in Nat
    BY <1>9, WaitsIs DEF Queued
  <2>4. window' \in Nat
    BY <1>9, <2>3 DEF Queued
  <2>5. stakers' \in Nat
    <3>1. stakers \in Nat /\ AllFriction(shares) \in Nat
      BY <1>0, <1>3 DEF Counted
    <3>2. QED BY <1>2, <3>1
  <2>6. /\ earned' \in [Users -> Nat] /\ pool' \in Nat /\ supply' \in Nat /\ now' \in Nat
    BY <1>0, <1>2 DEF Counted
  <2>7. QED BY <2>2, <2>4, <2>5, <2>6 DEF Counted
<1>11. Balanced'
  <2> DEFINE left == [wallet EXCEPT ![u] = wallet[u] - coin]
  <2>1. /\ left \in [Users -> Int] /\ left[u] = wallet[u] - coin
        /\ \A v \in Users : v # u => left[v] = wallet[v]
        /\ wallet \in [Users -> Int] /\ wallet[u] \in Int
    BY <1>0 DEF Counted
  <2>2. \A v \in Users : wallet'[v] = left[v] + paid[v]
    <3>1. ASSUME NEW v \in Users PROVE wallet'[v] = left[v] + paid[v]
      <4>1. wallet'[v] = wallet[v] - (IF v = u THEN coin ELSE 0) + paid[v]
        BY <1>2
      <4>2. wallet[v] \in Int /\ paid[v] \in Int
        BY <1>3, <2>1
      <4>3. left[v] = wallet[v] - (IF v = u THEN coin ELSE 0)
        BY <1>0, <2>1, <4>2
      <4>4. QED BY <4>1, <4>3
    <3>2. QED BY <3>1
  <2> HIDE DEF left
  <2>3. /\ SumFunction(left) = SumFunction(wallet) + (left[u] - wallet[u])
        /\ SumFunction(wallet) \in Int /\ SumFunction(left) \in Int
    BY <1>0, <2>1, SumChanges
  <2>4. SumFunctionOnSet(wallet', Users)
          = SumFunctionOnSet(left, Users) + SumFunctionOnSet(paid, Users)
    <3>1. \A v \in Users : left[v] \in Int /\ paid[v] \in Int /\ wallet'[v] = left[v] + paid[v]
      BY <1>3, <2>1, <2>2
    <3>2. QED BY <1>0, <3>1, SumTwo
  <2>5. /\ SumFunction(wallet') = SumFunctionOnSet(wallet', Users)
        /\ SumFunction(left) = SumFunctionOnSet(left, Users)
    <3>1. wallet' \in [Users -> Int]
      BY <1>10 DEF Counted
    <3>2. QED BY <1>0, <2>1, <3>1, SumTotal
  <2>6. SumFunction(wallet') = SumFunction(wallet) - coin + SumFunctionOnSet(paid, Users)
    BY <1>0, <1>3, <2>1, <2>3, <2>4, <2>5
  <2>7. SumFunction(earned) \in Int /\ stakers \in Int
    BY <1>0, MoneySums DEF Counted
  <2>8. SumFunction(wallet') + AllFriction(shares) = SumFunction(wallet)
    BY <1>0, <1>3, <2>3, <2>6
  <2>9. supply' = supply /\ earned' = earned /\ stakers' = stakers + AllFriction(shares)
    BY <1>2
  <2>10. SumFunction(wallet') \in Int
    BY <1>0, <1>3, <2>3, <2>6
  <2>11. SumFunction(wallet') + SumFunction(earned) + (stakers + AllFriction(shares))
           = SumFunction(wallet) + SumFunction(earned) + stakers
    BY <1>3, <2>3, <2>7, <2>8, <2>10
  <2>12. QED BY <1>0, <2>9, <2>11 DEF Balanced
<1>12. QED BY <1>5, <1>6, <1>9, <1>10, <1>11

(* A reward (RewardEvent.Execute, GetRewardAndPopFromWindow).               *)
LEMMA RewardStep ==
  ASSUME CInv, NEW penalty, ExecuteReward(penalty)
  PROVE  /\ Stored' /\ Counted' /\ Queued' /\ Balanced'
         /\ \A q \in DOMAIN posts : posts[q].deleted =>
              posts'[q].deleted /\ posts'[q].reward = posts[q].reward
<1> DEFINE e == Head(pending)
           reward == RewardOf(e, penalty)
           rest == Tail(pending)
           w == Author(e.post)
           post == posts[e.post]
<1>0. /\ Stored /\ Counted /\ Queued /\ Balanced /\ IsFiniteSet(Users)
      /\ pool \in Nat /\ window \in Nat /\ supply \in Nat
  BY ContentAssumption DEF CInv, ContentAssumption, Counted
<1>1. /\ pending # <<>> /\ penalty \in PenaltyScores(e.post)
      /\ window' = window - e.evaluate
      /\ pool' = pool - reward
      /\ supply' = supply + reward
      /\ posts' = [posts EXCEPT ![e.post] = [post EXCEPT !.reward = post.reward + reward]]
      /\ earned' = [earned EXCEPT ![w] = earned[w] + reward]
      /\ pending' = rest
      /\ UNCHANGED <<wallet, stakers, now>>
  BY DEF ExecuteReward, EventsDue, Pop
<1>2. /\ rest \in Queues /\ Waits(rest) \in Nat /\ e \in RewardEvent /\ e = pending[1]
      /\ 1 \in 1 .. Len(pending) /\ window = e.evaluate + Waits(rest)
  BY <1>0, <1>1, WaitsTail DEF Queued
<1>3. /\ e.post \in DOMAIN posts /\ e.evaluate \in Nat /\ e.evaluate <= window
  <2>1. e.post \in DOMAIN posts
    BY <1>0, <1>2 DEF Queued
  <2>2. e.evaluate \in Nat
    BY <1>2 DEF RewardEvent
  <2>3. QED BY <1>2, <2>1, <2>2
<1>4. /\ post \in PostInfo /\ w \in Users
      /\ penalty \in 0 .. Whole /\ (post.deleted => penalty = Whole)
  <2>1. post \in PostInfo
    BY <1>0, <1>3 DEF Stored
  <2>2. w \in Users
    BY <1>0, <1>3, ContentAssumption DEF Stored, Author, ContentAssumption
  <2>3. Whole \in 0 .. Whole /\ Penalties \subseteq 0 .. Whole
    BY ContentAssumption DEF ContentAssumption
  <2>4. QED BY <1>1, <2>1, <2>2, <2>3 DEF PenaltyScores
<1>5. reward \in 0 .. pool /\ (post.deleted => reward = 0)
  <2> HIDE DEF e, post
  <2>1. QED BY <1>0, <1>2, <1>3, <1>4, RewardIs
<1> DEFINE paidPost == [post EXCEPT !.reward = post.reward + reward]
<1>6. /\ paidPost \in PostInfo /\ paidPost.split = post.split
      /\ paidPost.deleted = post.deleted
      /\ (post.deleted => paidPost.reward = post.reward)
  <2> HIDE DEF post, reward
  <2>1. reward \in Nat
    BY <1>0, <1>5
  <2>2. post.reward \in Nat
    BY <1>4 DEF PostInfo
  <2>3. post.reward + reward \in Nat /\ (post.deleted => post.reward + reward = post.reward)
    BY <1>5, <2>1, <2>2
  <2>4. QED BY <1>4, <2>3 DEF PostInfo
<1>7. /\ DOMAIN posts' = DOMAIN posts /\ posts'[e.post] = paidPost
      /\ \A q \in DOMAIN posts : q # e.post => posts'[q] = posts[q]
      /\ posts' = [q \in DOMAIN posts' |-> posts'[q]]
  <2>1. posts' = [posts EXCEPT ![e.post] = paidPost]
    BY <1>1
  <2> HIDE DEF paidPost, e
  <2>2. QED BY <1>3, <2>1
<1>8. \A q \in DOMAIN posts : /\ posts'[q] \in PostInfo /\ posts'[q].split = posts[q].split
                              /\ posts'[q].deleted = posts[q].deleted
                              /\ (posts[q].deleted => posts'[q].reward = posts[q].reward)
  <2>1. ASSUME NEW q \in DOMAIN posts
        PROVE  /\ posts'[q] \in PostInfo /\ posts'[q].split = posts[q].split
               /\ posts'[q].deleted = posts[q].deleted
               /\ (posts[q].deleted => posts'[q].reward = posts[q].reward)
    <3> HIDE DEF paidPost
    <3>1. CASE q = e.post
      BY <1>6, <1>7, <3>1
    <3>2. CASE q # e.post
      BY <1>0, <1>7, <3>2 DEF Stored
    <3>3. QED BY <3>1, <3>2
  <2>2. QED BY <2>1
<1>9. Stored'
  BY <1>0, <1>7, <1>8 DEF Stored, DeletedKeepsAll
<1> HIDE DEF reward, paidPost, w
<1>10. Queued'
  <2>1. \A i \in 1 .. Len(rest) : rest[i].post \in DOMAIN posts
    <3>1. /\ Len(pending) \in Nat /\ Len(rest) = Len(pending) - 1
          /\ \A i \in 1 .. Len(rest) : i + 1 \in 1 .. Len(pending) /\ rest[i] = pending[i + 1]
      BY <1>0, <1>1 DEF Queued, Queues
    <3>2. QED BY <1>0, <3>1 DEF Queued
  <2> HIDE DEF rest, e
  <2>2. window' = Waits(rest)
    BY <1>1, <1>2, <1>3
  <2>3. QED BY <1>1, <1>2, <1>7, <2>1, <2>2 DEF Queued
<1>11. /\ earned' \in [Users -> Nat] /\ earned \in [Users -> Int] /\ earned' \in [Users -> Int]
       /\ earned'[w] - earned[w] = reward /\ reward \in Nat
       /\ \A v \in Users : v # w => earned'[v] = earned[v]
  <2>1. reward \in Nat /\ earned \in [Users -> Nat] /\ earned[w] \in Nat
    BY <1>0, <1>4, <1>5 DEF Counted
  <2>2. QED BY <1>1, <1>4, <2>1
<1>12. Counted'
  <2>1. pool - reward \in Nat /\ supply + reward \in Nat /\ window' \in Nat
    <3>1. pool - reward \in Nat
      BY <1>0, <1>5
    <3>2. supply + reward \in Nat
      BY <1>0, <1>11
    <3>3. window' \in Nat
      <4> HIDE DEF rest, e
      <4>1. QED BY <1>1, <1>2, <1>3
    <3>4. QED BY <3>1, <3>2, <3>3
  <2>2. QED BY <1>0, <1>1, <1>11, <2>1 DEF Counted
<1>13. Balanced'
  <2>1. /\ SumFunction(earned') = SumFunction(earned) + (earned'[w] - earned[w])
        /\ SumFunction(earned) \in Int
    BY <1>0, <1>4, <1>11, SumChanges
  <2>2. SumFunction(wallet) \in Int /\ stakers \in Int
    BY <1>0, MoneySums DEF Counted
  <2>3. QED BY <1>0, <1>1, <1>11, <2>1, <2>2 DEF Balanced
<1>14. QED BY <1>8, <1>9, <1>10, <1>12, <1>13

LEMMA CoinsStart == Init => CInv
<1> SUFFICES ASSUME Init PROVE CInv
  OBVIOUS
<1>1. IInv
  BY DEF Init, IInv, SourcesAreRoots
<1>2. DOMAIN posts = {} /\ posts \in [DOMAIN posts -> PostInfo]
  BY DEF Init
<1>3. Stored
  BY <1>2 DEF Stored, DeletedKeepsAll
<1>4. /\ IsFiniteSet(Users) /\ Funds \in Nat /\ Cardinality(Users) \in Nat
  BY ContentAssumption, FS_CardinalityType DEF ContentAssumption
<1>5. /\ wallet \in [Users -> Nat] /\ wallet \in [Users -> Int] /\ \A u \in Users : wallet[u] = Funds
      /\ earned \in [Users -> Nat] /\ earned \in [Users -> Int] /\ \A u \in Users : earned[u] = 0
      /\ stakers = 0 /\ window = 0 /\ pool = 0 /\ supply = Funds * Cardinality(Users)
      /\ pending = <<>> /\ now = 0
  BY <1>4 DEF Init
<1>6. Counted
  <2>1. \A x, y \in Nat : x * y \in Nat
    BY SMT
  <2>2. supply \in Nat
    BY <1>4, <1>5, <2>1
  <2>3. QED BY <1>5, <2>2 DEF Counted
<1>7. Queued
  <2>1. pending \in Queues /\ Len(pending) = 0
    BY <1>5 DEF Queues
  <2>2. Waits(pending) = SumFunctionOnSet(Evaluates(pending), 1 .. Len(pending))
    BY <2>1, WaitsIs
  <2>3. 1 .. Len(pending) = {}
    BY <2>1
  <2>4. Waits(pending) = 0
    BY <2>2, <2>3, SumEmpty
  <2>5. QED BY <1>5, <2>1, <2>3, <2>4 DEF Queued
<1>8. Balanced
  <2>1. SumFunction(wallet) = Cardinality(Users) * Funds
    BY <1>4, <1>5, SumConstant
  <2>2. SumFunction(earned) = SumFunctionOnSet(earned, Users)
    BY <1>4, <1>5, SumTotal
  <2>3. SumFunctionOnSet(earned, Users) = 0
    BY <1>4, <1>5, SumZero
  <2>4. Funds * Cardinality(Users) = Cardinality(Users) * Funds /\ supply \in Nat
    BY <1>4, <1>6 DEF Counted
  <2>5. QED BY <1>5, <2>1, <2>2, <2>3, <2>4 DEF Balanced
<1>9. QED BY <1>1, <1>3, <1>6, <1>7, <1>8 DEF CInv

EarnsNothing ==
  \A p \in DOMAIN posts : posts[p].deleted =>
    posts'[p].deleted /\ posts'[p].reward = posts[p].reward

LEMMA CoinsStep ==
  ASSUME CInv, [Next]_vars
  PROVE  CInv' /\ EarnsNothing
<1>0. IInv /\ IInv' /\ Stored
  BY StepKeeps DEF CInv
<1>1. ASSUME NEW p \in DOMAIN Links, NEW s \in DOMAIN Links \cup {None}, NEW r \in Splits,
             CreatePost(p, s, r)
      PROVE  CInv' /\ EarnsNothing
  <2>1. Stored' /\ DOMAIN posts \subseteq DOMAIN posts'
    BY <1>1, CreateStores
  <2>2. /\ UNCHANGED <<wallet, earned, stakers, window, pool, supply, pending, now>>
        /\ \A q \in DOMAIN posts : posts'[q] = posts[q]
    BY <1>1 DEF CreatePost, MayPost
  <2>3. QED BY <1>0, <2>1, <2>2, PostsOnly DEF EarnsNothing
<1>2. ASSUME NEW p, DeletePost(p)
      PROVE  CInv' /\ EarnsNothing
  <2>1. Stored' /\ DOMAIN posts \subseteq DOMAIN posts'
    BY <1>2, DeleteStores
  <2>2. /\ UNCHANGED <<wallet, earned, stakers, window, pool, supply, pending, now>>
        /\ p \in DOMAIN posts
        /\ posts' = [posts EXCEPT ![p].deleted = TRUE, ![p].split = Whole]
    BY <1>2 DEF DeletePost
  <2>3. EarnsNothing
    <3>1. ASSUME NEW q \in DOMAIN posts, posts[q].deleted
          PROVE  posts'[q].deleted /\ posts'[q].reward = posts[q].reward
      <4>1. CASE q # p
        BY <2>2, <3>1, <4>1
      <4>2. CASE q = p
        <5> DEFINE post == posts[p]
        <5>1. post \in PostInfo /\ posts'[p] = [post EXCEPT !.deleted = TRUE, !.split = Whole]
          BY <1>0, <2>2 DEF Stored
        <5> HIDE DEF post
        <5>2. posts'[p].deleted /\ posts'[p].reward = post.reward
          BY <5>1 DEF PostInfo
        <5>3. QED BY <4>2, <5>2 DEF post
      <4>3. QED BY <4>1, <4>2
    <3>2. QED BY <3>1 DEF EarnsNothing
  <2>4. QED BY <1>0, <2>1, <2>2, <2>3, PostsOnly
<1>3. ASSUME NEW u \in Users, NEW p \in DOMAIN posts, NEW coin \in Amounts, NEW value,
             Donate(u, p, coin, value)
      PROVE  CInv' /\ EarnsNothing
  BY <1>0, <1>3, DonateStep DEF CInv, EarnsNothing
<1>4. ASSUME NEW penalty, ExecuteReward(penalty)
      PROVE  CInv' /\ EarnsNothing
  BY <1>0, <1>4, RewardStep DEF CInv, EarnsNothing
<1>5. CASE NextBlock
  <2>1. /\ UNCHANGED <<posts, wallet, earned, stakers, window, supply, pending>>
        /\ now' = now + 1 /\ pool' = pool + Inflow /\ Inflow \in Nat
    BY <1>5, ContentAssumption DEF NextBlock, ContentAssumption
  <2>2. Counted'
    BY <2>1 DEF CInv, Counted
  <2>3. Stored' /\ Queued' /\ Balanced'
    BY <2>1 DEF CInv, Stored, DeletedKeepsAll, Queued, Balanced
  <2>4. QED BY <1>0, <2>1, <2>2, <2>3 DEF CInv, EarnsNothing
<1>6. CASE UNCHANGED vars
  <2>1. UNCHANGED <<posts, wallet, earned, stakers, window, pool, supply, pending, now>>
    BY <1>6 DEF vars
  <2>2. Stored'
    BY <2>1 DEF CInv, Stored, DeletedKeepsAll
  <2>3. QED BY <1>0, <2>1, <2>2, PostsOnly DEF EarnsNothing
<1>7. QED BY <1>1, <1>2, <1>3, <1>4, <1>5, <1>6 DEF Next, Transactions

(* No handler or event breaks the books of donations, split and rewards.    *)
THEOREM CoinsInvariance == Spec => []CInv
<1>1. Init => CInv
  BY CoinsStart
<1>2. CInv /\ [Next]_vars => CInv'
  BY CoinsStep
<1>3. QED BY <1>1, <1>2, PTL DEF Spec

(* The store keeps its shape: in particular the reward pool never goes      *)
(* below zero, however many rewards GetRewardAndPopFromWindow takes from it.*)
THEOREM TypeCorrect == Spec => []TypeOK
<1>1. CInv => TypeOK
  BY CInvGives
<1>2. QED BY <1>1, CoinsInvariance, PTL

(* ConsumptionWindow is the sum of the values that wait.                    *)
THEOREM WindowSums == Spec => []WindowIsPending
<1>1. CInv => WindowIsPending
  BY CInvGives
<1>2. QED BY <1>1, CoinsInvariance, PTL

(* Donations, with their two roundings and two authors, and rewards make    *)
(* and lose no coin.                                                        *)
THEOREM ConservesCoins == Spec => []CoinsConserved
<1>1. CInv => CoinsConserved
  BY CInvGives
<1>2. QED BY <1>1, CoinsInvariance, PTL

WindowCovers == \A i \in DOMAIN pending : pending[i].evaluate <= window

(* An event whose value is not zero never finds the window empty: the       *)
(* division of GetRewardAndPopFromWindow does not panic.                    *)
THEOREM NoDivisionByZero == Spec => []WindowCovers
<1>1. ASSUME CInv PROVE WindowCovers
  <2>1. DOMAIN pending = 1 .. Len(pending) /\ pending \in Queues /\ window = Waits(pending)
    BY <1>1 DEF CInv, Queued, Queues
  <2>2. QED BY <2>1, WaitsIs DEF WindowCovers
<1>2. QED BY <1>1, CoinsInvariance, PTL

(* A deleted post earns nothing more, through no share and no reward.       *)
THEOREM DeletedStopsEarning == Spec => DeletedEarnsNothing
<1> DEFINE Step == \A p \in DOMAIN posts : posts[p].deleted =>
                     /\ posts'[p].deleted /\ posts'[p].reward = posts[p].reward
<1>1. CInv /\ [Next]_vars => [Step]_vars
  BY CoinsStep DEF EarnsNothing
<1>2. QED BY <1>1, CoinsInvariance, PTL DEF Spec, DeletedEarnsNothing

(* Rewards wait in the order of their seconds, so that looking at the first *)
(* is enough; none waits beyond its period and the block after it.          *)
InTurn ==
  \A i, j \in DOMAIN pending : i < j => pending[i].due <= pending[j].due

NotLate ==
  \A i \in DOMAIN pending : now <= pending[i].due + 1 /\ pending[i].due <= now + Freezing

Punctual == InTurn /\ NotLate

LEMMA PendingIs ==
  ASSUME CInv
  PROVE  /\ Len(pending) \in Nat /\ DOMAIN pending = 1 .. Len(pending)
         /\ pending \in Seq(RewardEvent) /\ now \in Nat /\ Freezing \in Nat
         /\ \A i \in DOMAIN pending : pending[i].due \in Nat
<1>1. pending \in Seq(RewardEvent) /\ now \in Nat
  BY DEF CInv, Queued, Queues, Counted
<1>2. Len(pending) \in Nat /\ DOMAIN pending = 1 .. Len(pending)
  BY <1>1
<1>3. \A i \in DOMAIN pending : pending[i] \in RewardEvent
  BY <1>1, <1>2
<1>4. \A i \in DOMAIN pending : pending[i].due \in Nat
  BY <1>3 DEF RewardEvent
<1>5. QED BY <1>1, <1>2, <1>4, ContentAssumption DEF ContentAssumption

(* Whatever is frozen now is due last.                                      *)
LEMMA DonatePunctual ==
  ASSUME CInv, Punctual, NEW u \in Users, NEW p \in DOMAIN posts, NEW coin \in Amounts, NEW value,
         Donate(u, p, coin, value)
  PROVE  Punctual'
<1> DEFINE shares == Shares(p, coin)
<1>1. PICK n \in Nat : DOMAIN shares = 1 .. n
  <2>1. TypeOK /\ SourcesAreRoots /\ coin \in Coin
    BY CInvGives, ContentAssumption DEF ContentAssumption, Coin
  <2>2. shares \in Seq(Sharing(p) \X Coin)
    BY <2>1, SharesAre DEF Parts
  <2> HIDE DEF shares
  <2>3. QED BY <2>2
<1>2. PICK new : /\ new = [i \in DOMAIN shares |->
                     [post |-> shares[i][1], evaluate |-> value[i], due |-> now + Freezing]]
                 /\ pending' = pending \o new /\ now' = now
  BY DEF Donate
<1> HIDE DEF shares
<1>3. /\ DOMAIN new = 1 .. n /\ \A i \in 1 .. n : new[i].due = now + Freezing
      /\ ~EventsDue
  BY <1>1, <1>2 DEF Donate
<1>4. new \in Seq({new[i] : i \in 1 .. n}) /\ Len(new) = n
  <2>1. new = [i \in 1 .. n |-> new[i]]
    BY <1>1, <1>2
  <2>2. new \in [1 .. n -> {new[i] : i \in 1 .. n}]
    BY <2>1
  <2>3. QED BY <1>3, <2>2
<1>5. PICK m \in Nat : /\ m = Len(pending) /\ DOMAIN pending = 1 .. m
                       /\ DOMAIN pending' = 1 .. m + n
                       /\ \A i \in 1 .. m : pending'[i] = pending[i]
                       /\ \A i \in m + 1 .. m + n : pending'[i].due = now + Freezing
  <2>1. pending \in Seq(RewardEvent) /\ Len(pending) \in Nat
    BY PendingIs
  <2>2. /\ DOMAIN pending' = 1 .. Len(pending) + n
        /\ \A i \in 1 .. Len(pending) : pending'[i] = pending[i]
        /\ \A i \in Len(pending) + 1 .. Len(pending) + n :
             pending'[i] = new[i - Len(pending)] /\ i - Len(pending) \in 1 .. n
    BY <1>2, <1>4, <2>1
  <2>3. QED BY <1>3, <2>1, <2>2
<1>6. /\ now \in Nat /\ Freezing \in Nat
      /\ \A i \in 1 .. m : pending[i].due \in Nat
  BY <1>5, PendingIs
<1>7. NotLate'
  <2>1. ASSUME NEW i \in 1 .. m + n
        PROVE  now <= pending'[i].due + 1 /\ pending'[i].due <= now + Freezing
    <3>1. CASE i \in 1 .. m
      BY <1>5, <3>1 DEF Punctual, NotLate
    <3>2. CASE i \in m + 1 .. m + n
      BY <1>5, <1>6, <3>2
    <3>3. QED BY <3>1, <3>2
  <2>2. QED BY <1>2, <1>5, <2>1 DEF NotLate
<1>8. ASSUME NEW i \in 1 .. m + n, NEW j \in 1 .. m + n, i < j
      PROVE  pending'[i].due <= pending'[j].due
  <2>1. CASE j \in 1 .. m
    <3>1. i \in 1 .. m
      BY <1>8, <2>1
    <3>2. QED BY <1>5, <1>8, <2>1, <3>1 DEF Punctual, InTurn
  <2>2. CASE i \in 1 .. m /\ j \in m + 1 .. m + n
    BY <1>5, <2>2 DEF Punctual, NotLate
  <2>3. CASE i \in m + 1 .. m + n /\ j \in m + 1 .. m + n
    BY <1>5, <1>6, <2>3
  <2>4. QED BY <1>8, <2>1, <2>2, <2>3
<1>9. InTurn'
  BY <1>5, <1>8 DEF InTurn
<1>10. QED BY <1>7, <1>9 DEF Punctual

LEMMA PunctualNext ==
  ASSUME CInv, Punctual, [Next]_vars
  PROVE  Punctual'
<1>1. CASE UNCHANGED <<pending, now>>
  BY <1>1 DEF Punctual, InTurn, NotLate
<1>2. ASSUME NEW u \in Users, NEW p \in DOMAIN posts, NEW coin \in Amounts, NEW value,
             Donate(u, p, coin, value)
      PROVE  Punctual'
  BY <1>2, DonatePunctual
<1>3. ASSUME NEW penalty, ExecuteReward(penalty)
      PROVE  Punctual'
  <2>1. pending # <<>> /\ pending' = Tail(pending) /\ now' = now
    BY <1>3 DEF ExecuteReward, EventsDue
  <2>2. PICK m \in Nat : m = Len(pending) /\ DOMAIN pending = 1 .. m
    BY PendingIs
  <2>3. /\ DOMAIN pending' = 1 .. m - 1
        /\ \A i \in 1 .. m - 1 : pending'[i] = pending[i + 1] /\ i + 1 \in 1 .. m
    BY <2>1, <2>2, PendingIs
  <2>4. NotLate'
    BY <2>1, <2>2, <2>3 DEF Punctual, NotLate
  <2>5. ASSUME NEW i \in 1 .. m - 1, NEW j \in 1 .. m - 1, i < j
        PROVE  pending'[i].due <= pending'[j].due
    <3>1. /\ pending'[i] = pending[i + 1] /\ i + 1 \in DOMAIN pending
          /\ pending'[j] = pending[j + 1] /\ j + 1 \in DOMAIN pending /\ i + 1 < j + 1
      BY <2>2, <2>3, <2>5
    <3>2. QED BY <3>1 DEF Punctual, InTurn
  <2>6. InTurn'
    BY <2>3, <2>5 DEF InTurn
  <2>7. QED BY <2>4, <2>6 DEF Punctual
<1>4. CASE NextBlock
  <2>1. ~EventsDue /\ pending' = pending /\ now' = now + 1
    BY <1>4 DEF NextBlock
  <2>2. PICK m \in Nat : /\ m = Len(pending) /\ DOMAIN pending = 1 .. m
                         /\ \A i \in 1 .. m : pending[i].due \in Nat
                         /\ now \in Nat /\ Freezing \in Nat
    BY PendingIs
  <2>3. ASSUME NEW i \in 1 .. m PROVE now <= pending[i].due
    <3>1. Head(pending) = pending[1] /\ 1 \in 1 .. m /\ pending # <<>>
      BY <2>2, PendingIs
    <3>2. now <= pending[1].due
      BY <2>1, <2>2, <3>1 DEF EventsDue
    <3>3. i = 1 \/ pending[1].due <= pending[i].due
      BY <2>2, <3>1 DEF Punctual, InTurn
    <3>4. QED BY <2>2, <3>1, <3>2, <3>3
  <2>4. NotLate'
    BY <2>1, <2>2, <2>3 DEF Punctual, NotLate
  <2>5. InTurn'
    BY <2>1 DEF Punctual, InTurn
  <2>6. QED BY <2>4, <2>5 DEF Punctual
<1>5. QED BY <1>1, <1>2, <1>3, <1>4 DEF Next, Transactions, CreatePost, DeletePost, vars

(* A reward is executed in its turn, by the first block past its second:    *)
(* no block of transactions finds one that is overdue, however long the     *)
(* freezing period and however many donations wait.                         *)
THEOREM RewardsInTime == Spec => []Punctual
<1>1. Init => Punctual
  BY DEF Init, Punctual, InTurn, NotLate
<1>2. CInv /\ Punctual /\ [Next]_vars => Punctual'
  BY PunctualNext
<1>3. QED BY <1>1, <1>2, CoinsInvariance, PTL DEF Spec
=============================================================================
