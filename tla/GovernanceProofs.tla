-------------------------- MODULE GovernanceProofs --------------------------
(****************************************************************************)
(* For any users, powers, posts, parameters and changes: the records keep   *)
(* their types, no event of a proposal ever returns an error, tallies are   *)
(* sums of the votes cast, deposits are in the queue or back, and, if       *)
(* ChangeParamPassRatio is never below a half, only a majority changes the  *)
(* parameters; and no decision is lost, early or without effect.            *)
(*                                                                          *)
(* The argument: a proposal gets one decision, and only a decision takes it *)
(* out of the ongoing store. So as long as the event that decides it is in  *)
(* the queue it is there once, and its proposal is ongoing (Sound). Votes   *)
(* are cast once for each voter and stay (TInv), and every deposit is one   *)
(* event of the queue until it comes back (DInv). A decision waits in the   *)
(* second its proposal expires in, and no other event moves it (WInv).      *)
(****************************************************************************)
EXTENDS Governance, CoinsProofs

(* The decisions in a queue are those of some of ids, one for each.         *)
Sound(q, ids) ==
  /\ q \in [Times -> Seq(GovernanceEvents)]
  /\ \A t \in Times : \A i \in 1 .. Len(q[t]) :
       q[t][i].type = "decide" => q[t][i].id \in ids
  /\ \A s, t \in Times : \A i \in 1 .. Len(q[s]), j \in 1 .. Len(q[t]) :
       q[s][i].type = "decide" /\ q[t][j].type = "decide" /\ q[s][i].id = q[t][j].id
         => s = t /\ i = j

OngoingIds == {id \in Ids : proposals[id].store = "ongoing"}

(* Every proposal asks for what its kind may, and time has its bound.       *)
Sensible ==
  /\ clock <= MaxClock
  /\ \A id \in Ids : proposals[id].target \in Targets(proposals[id].kind)

IInv == TypeOK /\ Sensible /\ Sound(queue, OngoingIds) /\ NeverHalts
------------------------------------------------------------------------------
(****************************************************************************)
(* Events and parameters.                                                   *)
(****************************************************************************)
LEMMA EventShape ==
  ASSUME NEW e \in GovernanceEvents
  PROVE  /\ e.type \in {"decide", "change", "return"}
         /\ e.type = "decide" => e.id \in 1 .. MaxProposals
         /\ e.type = "change" => e.param \in Changes
         /\ e.type = "return" => e.user \in Users /\ e.amount \in Deposits
PROOF
<1>1. CASE \E id \in 1 .. MaxProposals : e = DecideEvent(id)
  BY <1>1 DEF DecideEvent
<1>2. CASE \E target \in Changes : e = ChangeEvent(target)
  BY <1>2 DEF ChangeEvent
<1>3. CASE \E user \in Users, amount \in Deposits : e = ReturnEvent(user, amount)
  BY <1>3 DEF ReturnEvent
<1>4. QED BY <1>1, <1>2, <1>3 DEF GovernanceEvents

LEMMA RulesShape ==
  ASSUME NEW p \in Params
  PROVE  /\ RulesOf[p].executionSec \in Nat
         /\ \A kind \in Kinds :
              /\ RulesOf[p].of[kind].decideSec \in Nat
              /\ RulesOf[p].of[kind].deposit \in Nat
              /\ RulesOf[p].of[kind].deposit \in Deposits
PROOF
<1>1. RulesOf[p] \in ProposalParam
  BY GovernanceAssumption
<1>2. RulesOf[p].executionSec \in Delays /\ RulesOf[p].of \in [Kinds -> KindParam]
  BY <1>1 DEF ProposalParam
<1>3. ASSUME NEW kind \in Kinds
      PROVE  /\ RulesOf[p].of[kind].decideSec \in Delays
             /\ RulesOf[p].of[kind].deposit \in Nat
             /\ RulesOf[p].of[kind].deposit \in Deposits
  <2>1. RulesOf[p].of[kind] \in KindParam
    BY <1>2
  <2>2. QED BY <2>1 DEF KindParam, Deposits
<1>4. QED BY <1>2, <1>3, DeliveryAssumption

(* A deposit that comes back is a number.                                   *)
LEMMA DepositsAreNumbers == Deposits \subseteq Nat
PROOF BY RulesShape DEF Deposits
------------------------------------------------------------------------------
(****************************************************************************)
(* What registering and executing do to the decisions in the queue.         *)
(****************************************************************************)
LEMMA SoundOne ==
  ASSUME NEW q, NEW ids, Sound(q, ids), NEW t \in Times, NEW i \in 1 .. Len(q[t]),
         q[t][i].type = "decide"
  PROVE  q[t][i].id \in ids
PROOF BY DEF Sound

LEMMA SoundTwo ==
  ASSUME NEW q, NEW ids, Sound(q, ids), NEW s \in Times, NEW t \in Times,
         NEW i \in 1 .. Len(q[s]), NEW j \in 1 .. Len(q[t]),
         q[s][i].type = "decide", q[t][j].type = "decide", q[s][i].id = q[t][j].id
  PROVE  s = t /\ i = j
PROOF BY DEF Sound

LEMMA WithOther ==
  ASSUME NEW q, NEW ids, Sound(q, ids), NEW e \in GovernanceEvents, e.type # "decide",
         NEW delay, clock + delay \in Times
  PROVE  Sound(With(q, e, delay), ids)
PROOF
<1> DEFINE now == clock + delay
           r == With(q, e, delay)
<1>1. /\ q \in [Times -> Seq(GovernanceEvents)] /\ q[now] \in Seq(GovernanceEvents)
      /\ r = [q EXCEPT ![now] = Append(q[now], e)]
  BY DEF Sound, With
<1>2. /\ Append(q[now], e) \in Seq(GovernanceEvents)
      /\ Len(Append(q[now], e)) = Len(q[now]) + 1
      /\ Append(q[now], e)[Len(q[now]) + 1] = e
      /\ \A i \in 1 .. Len(q[now]) : Append(q[now], e)[i] = q[now][i]
  BY <1>1
<1>3. r \in [Times -> Seq(GovernanceEvents)]
  BY <1>1, <1>2
<1>4. ASSUME NEW t \in Times, NEW i \in 1 .. Len(r[t]), r[t][i].type = "decide"
      PROVE  i \in 1 .. Len(q[t]) /\ r[t][i] = q[t][i]
  BY <1>1, <1>2, <1>4
<1> HIDE DEF r
<1>5. ASSUME NEW t \in Times, NEW i \in 1 .. Len(r[t]), r[t][i].type = "decide"
      PROVE  r[t][i].id \in ids
  BY <1>4, <1>5 DEF Sound
<1>6. ASSUME NEW s \in Times, NEW t \in Times, NEW i \in 1 .. Len(r[s]), NEW j \in 1 .. Len(r[t]),
             r[s][i].type = "decide", r[t][j].type = "decide", r[s][i].id = r[t][j].id
      PROVE  s = t /\ i = j
  <2>1. /\ i \in 1 .. Len(q[s]) /\ r[s][i] = q[s][i]
        /\ j \in 1 .. Len(q[t]) /\ r[t][j] = q[t][j]
    BY <1>4, <1>6
  <2>2. QED BY <1>6, <2>1, SoundTwo
<1>7. Sound(r, ids)
  <2>1. \A s \in Times : \A i \in 1 .. Len(r[s]) : r[s][i].type = "decide" => r[s][i].id \in ids
    BY <1>5
  <2>2. \A s1, s2 \in Times : \A i \in 1 .. Len(r[s1]), j \in 1 .. Len(r[s2]) :
          r[s1][i].type = "decide" /\ r[s2][j].type = "decide" /\ r[s1][i].id = r[s2][j].id
            => s1 = s2 /\ i = j
    BY <1>6
  <2>3. QED BY <1>3, <2>1, <2>2 DEF Sound
<1>8. QED BY <1>7 DEF r

LEMMA WithDecision ==
  ASSUME NEW q, NEW ids, Sound(q, ids), NEW id \in 1 .. MaxProposals, id \notin ids,
         NEW delay, clock + delay \in Times
  PROVE  Sound(With(q, DecideEvent(id), delay), ids \cup {id})
PROOF
<1> DEFINE now == clock + delay
           e == DecideEvent(id)
           r == With(q, e, delay)
<1>1. /\ q \in [Times -> Seq(GovernanceEvents)] /\ q[now] \in Seq(GovernanceEvents)
      /\ r = [q EXCEPT ![now] = Append(q[now], e)]
  BY DEF Sound, With
<1>2. e \in GovernanceEvents /\ e.id = id
  BY DEF GovernanceEvents, DecideEvent
<1> HIDE DEF e
<1>3. /\ Append(q[now], e) \in Seq(GovernanceEvents)
      /\ Len(Append(q[now], e)) = Len(q[now]) + 1
      /\ Append(q[now], e)[Len(q[now]) + 1] = e
      /\ \A i \in 1 .. Len(q[now]) : Append(q[now], e)[i] = q[now][i]
  BY <1>1, <1>2
<1>4. r \in [Times -> Seq(GovernanceEvents)]
  BY <1>1, <1>3
<1>5. ASSUME NEW t \in Times, NEW i \in 1 .. Len(r[t]), r[t][i].type = "decide"
      PROVE  \/ i \in 1 .. Len(q[t]) /\ r[t][i] = q[t][i] /\ r[t][i].id \in ids
             \/ t = now /\ i = Len(q[now]) + 1 /\ r[t][i].id = id
  <2>1. \/ i \in 1 .. Len(q[t]) /\ r[t][i] = q[t][i]
        \/ t = now /\ i = Len(q[now]) + 1 /\ r[t][i] = e
    BY <1>1, <1>3
  <2>2. QED BY <2>1, <1>2, <1>5 DEF Sound
<1> HIDE DEF r
<1>6. ASSUME NEW s \in Times, NEW t \in Times, NEW i \in 1 .. Len(r[s]), NEW j \in 1 .. Len(r[t]),
             r[s][i].type = "decide", r[t][j].type = "decide", r[s][i].id = r[t][j].id
      PROVE  s = t /\ i = j
  <2>1. CASE i \in 1 .. Len(q[s]) /\ r[s][i] = q[s][i] /\ r[s][i].id \in ids
    <3>1. j \in 1 .. Len(q[t]) /\ r[t][j] = q[t][j]
      BY <1>5, <1>6, <2>1
    <3>2. QED BY <1>6, <2>1, <3>1, SoundTwo
  <2>2. CASE s = now /\ i = Len(q[now]) + 1 /\ r[s][i].id = id
    BY <1>5, <1>6, <2>2
  <2>3. QED BY <1>5, <1>6, <2>1, <2>2
<1>7. Sound(r, ids \cup {id})
  BY <1>4, <1>5, <1>6, SMTT(30) DEF Sound
<1>8. QED BY <1>7 DEF r, e

(* The first event of a second is the only one that may decide its proposal. *)
LEMMA WithoutFirst ==
  ASSUME NEW ids, Sound(queue, ids), NEW t \in Times, queue[t] # <<>>
  PROVE  /\ Head(queue[t]) \in GovernanceEvents
         /\ Sound(Without(t), ids)
         /\ Head(queue[t]).type = "decide" =>
              /\ Head(queue[t]).id \in ids
              /\ Sound(Without(t), ids \ {Head(queue[t]).id})
PROOF
<1> DEFINE e == Head(queue[t])
           r == Without(t)
<1>1. /\ queue \in [Times -> Seq(GovernanceEvents)] /\ queue[t] \in Seq(GovernanceEvents)
      /\ r = [queue EXCEPT ![t] = Tail(queue[t])]
  BY DEF Sound, Without
<1>2. /\ Tail(queue[t]) \in Seq(GovernanceEvents) /\ Len(Tail(queue[t])) = Len(queue[t]) - 1
      /\ e = queue[t][1] /\ 1 \in 1 .. Len(queue[t]) /\ e \in GovernanceEvents
      /\ \A i \in 1 .. Len(queue[t]) - 1 : Tail(queue[t])[i] = queue[t][i + 1]
  BY <1>1
<1>3. r \in [Times -> Seq(GovernanceEvents)]
  BY <1>1, <1>2
<1> DEFINE At(s, i) == IF s = t THEN i + 1 ELSE i
<1>4. ASSUME NEW s \in Times, NEW i \in 1 .. Len(r[s])
      PROVE  /\ At(s, i) \in 1 .. Len(queue[s]) /\ r[s][i] = queue[s][At(s, i)]
             /\ s = t => At(s, i) # 1
  BY <1>1, <1>2
<1>5. ASSUME NEW s \in Times, NEW i \in 1 .. Len(r[s]), NEW j \in 1 .. Len(r[s]),
              At(s, i) = At(s, j)
       PROVE  i = j
  BY <1>1, <1>2, <1>5
<1> HIDE DEF r, e, At
<1>6. ASSUME NEW s \in Times, NEW i \in 1 .. Len(r[s]), r[s][i].type = "decide"
      PROVE  r[s][i].id \in ids
  <2>1. At(s, i) \in 1 .. Len(queue[s]) /\ r[s][i] = queue[s][At(s, i)]
    BY <1>4
  <2>2. QED BY <1>6, <2>1, SoundOne
<1>7. ASSUME NEW s1 \in Times, NEW s2 \in Times, NEW i \in 1 .. Len(r[s1]), NEW j \in 1 .. Len(r[s2]),
             r[s1][i].type = "decide", r[s2][j].type = "decide", r[s1][i].id = r[s2][j].id
      PROVE  s1 = s2 /\ i = j
  <2>1. /\ At(s1, i) \in 1 .. Len(queue[s1]) /\ r[s1][i] = queue[s1][At(s1, i)]
        /\ At(s2, j) \in 1 .. Len(queue[s2]) /\ r[s2][j] = queue[s2][At(s2, j)]
    BY <1>4
  <2>2. s1 = s2 /\ At(s1, i) = At(s2, j)
    BY <1>7, <2>1, SoundTwo
  <2>3. QED BY <1>5, <2>2
<1>8. Sound(r, ids)
  <2>1. \A s \in Times : \A i \in 1 .. Len(r[s]) : r[s][i].type = "decide" => r[s][i].id \in ids
    BY <1>6
  <2>2. \A s1, s2 \in Times : \A i \in 1 .. Len(r[s1]), j \in 1 .. Len(r[s2]) :
          r[s1][i].type = "decide" /\ r[s2][j].type = "decide" /\ r[s1][i].id = r[s2][j].id
            => s1 = s2 /\ i = j
    BY <1>7
  <2>3. QED BY <1>3, <2>1, <2>2 DEF Sound
<1>9. ASSUME e.type = "decide"
      PROVE  e.id \in ids /\ Sound(r, ids \ {e.id})
  <2>1. e.id \in ids
    BY <1>2, <1>9, SoundOne
  <2>2. ASSUME NEW s \in Times, NEW i \in 1 .. Len(r[s]), r[s][i].type = "decide"
        PROVE  r[s][i].id # e.id
    <3>1. /\ At(s, i) \in 1 .. Len(queue[s]) /\ r[s][i] = queue[s][At(s, i)]
          /\ s = t => At(s, i) # 1
      BY <1>4
    <3>2. ASSUME r[s][i].id = e.id PROVE FALSE
      <4>1. s = t /\ At(s, i) = 1
        BY <1>2, <1>9, <2>2, <3>1, <3>2, SoundTwo
      <4>2. QED BY <3>1, <4>1
    <3>3. QED BY <3>2
  <2>3. QED BY <1>8, <2>1, <2>2 DEF Sound
<1>10. QED BY <1>2, <1>8, <1>9 DEF e, r

LEMMA MoreIds ==
  ASSUME NEW q, NEW ids, NEW more, Sound(q, ids), ids \subseteq more
  PROVE  Sound(q, more)
PROOF BY DEF Sound
------------------------------------------------------------------------------
(****************************************************************************)
(* Every step.                                                              *)
(****************************************************************************)
LEMMA InitIInv == Init => IInv
PROOF
<1> SUFFICES ASSUME Init PROVE IInv
  OBVIOUS
<1>1. /\ clock = 0 /\ queue = [t \in Times |-> <<>>] /\ proposals = <<>> /\ votes = <<>>
      /\ power = GenesisPower /\ param = InitialParam /\ deleted = {} /\ wallet = Funds
      /\ halted = FALSE
  BY DEF Init, DeliveryInit
<1>2. TypeOK
  <2>1. clock \in Times /\ queue \in [Times -> Seq(GovernanceEvents)]
    BY <1>1, DeliveryAssumption
  <2>2. proposals \in Seq(Proposal) /\ votes \in Seq(SUBSET VoteRecord) /\ Len(votes) = Len(proposals)
    BY <1>1
  <2>3. /\ DOMAIN power \subseteq Users /\ \A u \in DOMAIN power : power[u] \in Powers[u]
        /\ param \in Params /\ deleted \subseteq Posts
        /\ wallet \in [Users -> Nat] /\ halted \in BOOLEAN
    BY <1>1, GovernanceAssumption
  <2>4. QED BY <2>1, <2>2, <2>3 DEF TypeOK
<1>3. Sensible
  BY <1>1, GovernanceAssumption DEF Sensible, Ids
<1>4. Sound(queue, OngoingIds)
  BY <1>1 DEF Sound
<1>5. QED BY <1>1, <1>2, <1>3, <1>4 DEF IInv, NeverHalts

(* The proposal is new, so no decision in the queue is its own.             *)
LEMMA ProposeKeeps ==
  ASSUME IInv, NEW u \in Users, NEW kind \in Kinds, NEW target \in Targets(kind),
         Propose(u, kind, target)
  PROVE  IInv'
PROOF
<1> DEFINE rules == Rules(kind)
           id == Len(proposals) + 1
           new == [kind |-> kind, target |-> target, store |-> "ongoing", agree |-> 0,
                   disagree |-> 0, passed |-> FALSE, expiredAt |-> clock + rules.decideSec]
<1>1. /\ TypeOK /\ Sensible /\ Sound(queue, OngoingIds) /\ halted = FALSE
      /\ clock \in Nat /\ MaxClock \in Nat
  BY GovernanceAssumption, DeliveryAssumption DEF IInv, NeverHalts, TypeOK, Sensible
<1>2. /\ rules.decideSec \in Nat /\ rules.deposit \in Nat /\ rules.deposit \in Deposits
      /\ clock + rules.decideSec \in Times
  <2>1. /\ rules.decideSec \in Nat /\ rules.deposit \in Nat /\ rules.deposit \in Deposits
        /\ RulesOf[param].executionSec \in Nat /\ param \in Params
    BY <1>1, RulesShape DEF TypeOK, Rules
  <2>2. clock + rules.decideSec < MaxClock
    BY DEF Propose
  <2>3. clock + rules.decideSec \in 0 .. MaxClock + RulesOf[param].executionSec
    BY <1>1, <2>1, <2>2
  <2>4. QED BY <2>1, <2>3, GovernanceAssumption
<1>3. /\ id \in 1 .. MaxProposals /\ id \notin Ids
      /\ proposals' = Append(proposals, new) /\ votes' = Append(votes, {})
  BY <1>1, GovernanceAssumption DEF Propose, TypeOK, Ids
<1>4. new \in Proposal /\ new.store = "ongoing" /\ new.kind = kind /\ new.target = target
  BY <1>2 DEF Proposal, Stores
<1> HIDE DEF new
<1>5. /\ proposals' \in Seq(Proposal) /\ votes' \in Seq(SUBSET VoteRecord)
      /\ Len(votes') = Len(proposals') /\ Ids' = Ids \cup {id} /\ proposals'[id] = new
      /\ \A i \in Ids : proposals'[i] = proposals[i]
  BY <1>1, <1>3, <1>4 DEF TypeOK, Ids
<1>6. Sound(queue', OngoingIds')
  <2> DEFINE q == With(queue, DecideEvent(id), rules.decideSec)
             back == ReturnEvent(u, rules.deposit)
  <2>1. OngoingIds' = OngoingIds \cup {id}
    BY <1>3, <1>4, <1>5 DEF OngoingIds
  <2>2. id \notin OngoingIds
    BY <1>3 DEF OngoingIds
  <2>3. Sound(q, OngoingIds \cup {id})
    BY <1>1, <1>2, <1>3, <2>2, WithDecision
  <2>4. back \in GovernanceEvents /\ back.type # "decide"
    BY <1>2 DEF GovernanceEvents, ReturnEvent
  <2>5. queue' = With(q, back, rules.decideSec)
    BY DEF Propose, RegisteredDecision
  <2> HIDE DEF q, back
  <2>6. QED BY <1>2, <2>1, <2>3, <2>4, <2>5, WithOther
<1>7. TypeOK'
  <2>1. wallet' \in [Users -> Nat]
    BY <1>1, <1>2 DEF Propose, TypeOK
  <2>2. queue' \in [Times -> Seq(GovernanceEvents)]
    BY <1>6 DEF Sound
  <2>3. UNCHANGED <<clock, power, param, deleted, halted>>
    BY DEF Propose
  <2>4. QED BY <1>1, <1>5, <2>1, <2>2, <2>3 DEF TypeOK
<1>8. Sensible'
  BY <1>1, <1>4, <1>5 DEF Propose, Sensible
<1>9. QED BY <1>1, <1>6, <1>7, <1>8 DEF IInv, NeverHalts, Propose

LEMMA VoteKeeps ==
  ASSUME IInv, NEW u \in Users, NEW id \in Ids, NEW result \in BOOLEAN,
         VoteProposal(u, id, result)
  PROVE  IInv'
PROOF
<1>1. /\ TypeOK /\ Sensible /\ Sound(queue, OngoingIds) /\ halted = FALSE
      /\ proposals \in Seq(Proposal) /\ votes \in Seq(SUBSET VoteRecord)
      /\ Len(votes) = Len(proposals) /\ id \in 1 .. Len(proposals)
  BY DEF IInv, NeverHalts, TypeOK, Ids
<1>2. power[u] \in Powers[u] /\ power[u] \in Int
  BY <1>1, GovernanceAssumption DEF VoteProposal, MayVote, TypeOK
<1>3. votes' \in Seq(SUBSET VoteRecord) /\ Len(votes') = Len(votes)
  <2> DEFINE vote == [voter |-> u, result |-> result, power |-> power[u]]
  <2>1. vote \in VoteRecord
    BY <1>2 DEF VoteRecord
  <2>2. votes' = [votes EXCEPT ![id] = @ \cup {vote}]
    BY DEF VoteProposal
  <2> HIDE DEF vote
  <2>3. votes[id] \cup {vote} \in SUBSET VoteRecord
    BY <1>1, <2>1
  <2>4. QED BY <1>1, <2>2, <2>3
<1>4. \E p \in Proposal :
        /\ proposals' = [proposals EXCEPT ![id] = p]
        /\ p.store = proposals[id].store /\ p.target = proposals[id].target
        /\ p.kind = proposals[id].kind
  <2>1. proposals[id] \in Proposal
    BY <1>1
  <2>2. /\ [proposals[id] EXCEPT !.agree = @ + power[u]] \in Proposal
        /\ [proposals[id] EXCEPT !.disagree = @ + power[u]] \in Proposal
    BY <1>2, <2>1 DEF Proposal
  <2>3. proposals' = IF result
          THEN [proposals EXCEPT ![id] = [proposals[id] EXCEPT !.agree = @ + power[u]]]
          ELSE [proposals EXCEPT ![id] = [proposals[id] EXCEPT !.disagree = @ + power[u]]]
    BY DEF VoteProposal
  <2>4. QED BY <2>1, <2>2, <2>3 DEF Proposal
<1>5. /\ proposals' \in Seq(Proposal) /\ Len(proposals') = Len(proposals) /\ Ids' = Ids
      /\ \A i \in Ids : /\ proposals'[i].store = proposals[i].store
                       /\ proposals'[i].target = proposals[i].target
                       /\ proposals'[i].kind = proposals[i].kind
  BY <1>1, <1>4 DEF Ids
<1>6. UNCHANGED <<clock, queue, power, param, deleted, wallet, halted>>
  BY DEF VoteProposal
<1>7. OngoingIds' = OngoingIds
  BY <1>5 DEF OngoingIds
<1>8. TypeOK'
  BY <1>1, <1>3, <1>5, <1>6 DEF TypeOK
<1>9. Sensible'
  BY <1>1, <1>5, <1>6 DEF Sensible
<1>10. QED BY <1>1, <1>6, <1>7, <1>8, <1>9 DEF IInv, NeverHalts

(* The steps that leave queue and proposals alone.                          *)
LEMMA OthersKeep ==
  ASSUME IInv,
         \/ \E u \in Users : \E p \in Powers[u] : ChangePower(u, p)
         \/ \E post \in Posts : AuthorDeletes(post)
         \/ \E time \in Times : NextBlock(time)
         \/ UNCHANGED vars
  PROVE  IInv'
PROOF
<1>1. TypeOK /\ Sensible /\ Sound(queue, OngoingIds) /\ halted = FALSE
  BY DEF IInv, NeverHalts
<1>2. UNCHANGED <<queue, proposals, votes, param, wallet, halted>>
  BY DEF ChangePower, AuthorDeletes, NextBlock, Advance, govVars, vars
<1>3. OngoingIds' = OngoingIds /\ Ids' = Ids
  BY <1>2 DEF OngoingIds, Ids
<1>4. clock' \in Times /\ clock' <= MaxClock
  BY <1>1 DEF ChangePower, AuthorDeletes, NextBlock, Advance, govVars, vars, TypeOK, Sensible
<1>5. deleted' \subseteq Posts
  BY <1>1 DEF ChangePower, AuthorDeletes, NextBlock, Advance, govVars, vars, TypeOK
<1>6. DOMAIN power' \subseteq Users /\ \A u \in DOMAIN power' : power'[u] \in Powers[u]
  <2>1. CASE \E u \in Users : \E p \in Powers[u] : ChangePower(u, p)
    BY <1>1, <2>1 DEF ChangePower, TypeOK
  <2>2. CASE power' = power
    BY <1>1, <2>2 DEF TypeOK
  <2>3. QED BY <2>1, <2>2 DEF AuthorDeletes, NextBlock, govVars, vars
<1>7. QED BY <1>1, <1>2, <1>3, <1>4, <1>5, <1>6 DEF IInv, NeverHalts, TypeOK, Sensible

(* A decision finds its proposal ongoing, and no other is left for it.      *)
LEMMA DecideKeeps ==
  ASSUME IInv, NEW t \in Overdue, Head(queue[t]).type = "decide",
         Decide(Head(queue[t]).id, Without(t)),
         UNCHANGED <<clock, votes, power, param, wallet>>
  PROVE  IInv'
PROOF
<1> DEFINE id == Head(queue[t]).id
           rest == Without(t)
<1>1. /\ TypeOK /\ Sensible /\ Sound(queue, OngoingIds) /\ halted = FALSE
      /\ clock \in Nat /\ clock <= MaxClock /\ MaxClock \in Int
  BY GovernanceAssumption, DeliveryAssumption DEF IInv, NeverHalts, TypeOK, Sensible
<1>2. /\ id \in OngoingIds /\ Sound(rest, OngoingIds \ {id}) /\ Sound(rest, OngoingIds)
  BY <1>1, WithoutFirst DEF Overdue
<1>3. /\ id \in Ids /\ Ongoing(id) /\ proposals \in Seq(Proposal) /\ proposals[id] \in Proposal
  BY <1>1, <1>2 DEF OngoingIds, Ongoing, TypeOK, Ids
<1> HIDE DEF id, rest
<1>4. /\ proposals' = IF EnoughVotes(id)
                      THEN [proposals EXCEPT ![id].store = "expired", ![id].passed = Majority(id)]
                      ELSE proposals
      /\ queue' = IF Follows(id)
                  THEN With(rest, ChangeEvent(proposals[id].target), RulesOf[param].executionSec)
                  ELSE rest
      /\ deleted' = IF Passes(id) /\ proposals[id].kind = "ContentCensorship"
                    THEN deleted \cup {proposals[id].target} ELSE deleted
      /\ halted' = halted
  BY <1>3 DEF Decide, id, rest
<1>5. /\ proposals' \in Seq(Proposal) /\ Len(proposals') = Len(proposals) /\ Ids' = Ids
      /\ \A i \in Ids : proposals'[i].kind = proposals[i].kind /\ proposals'[i].target = proposals[i].target
      /\ \A i \in Ids : i # id => proposals'[i] = proposals[i]
  <2>1. Majority(id) \in BOOLEAN
    BY DEF Majority
  <2> DEFINE decided == [proposals[id] EXCEPT !.store = "expired", !.passed = Majority(id)]
  <2>2. /\ decided \in Proposal
        /\ decided.kind = proposals[id].kind /\ decided.target = proposals[id].target
    BY <1>3, <2>1 DEF Proposal, Stores
  <2>3. proposals' = proposals \/ proposals' = [proposals EXCEPT ![id] = decided]
    BY <1>4
  <2> HIDE DEF decided
  <2>4. QED BY <1>3, <2>2, <2>3 DEF Ids
<1>6. OngoingIds \ {id} \subseteq OngoingIds'
  BY <1>5 DEF OngoingIds
<1>7. proposals[id].target \in Targets(proposals[id].kind) /\ proposals[id].kind \in Kinds
  BY <1>1, <1>3 DEF Sensible, Proposal
<1>8. Sound(queue', OngoingIds')
  <2>1. Sound(rest, OngoingIds')
    BY <1>2, <1>6, MoreIds
  <2>2. CASE Follows(id)
    <3> DEFINE e == ChangeEvent(proposals[id].target)
    <3>1. proposals[id].target \in Changes
      BY <1>7, <2>2 DEF Follows, Targets
    <3>2. e \in GovernanceEvents /\ e.type # "decide"
      BY <3>1 DEF GovernanceEvents, ChangeEvent
    <3>3. param \in Params /\ RulesOf[param].executionSec \in Nat
      BY <1>1, RulesShape DEF TypeOK
    <3>4. clock + RulesOf[param].executionSec \in 0 .. MaxClock + RulesOf[param].executionSec
      BY <1>1, <3>3
    <3>5. clock + RulesOf[param].executionSec \in Times
      BY <3>3, <3>4, GovernanceAssumption
    <3>6. queue' = With(rest, e, RulesOf[param].executionSec)
      BY <1>4, <2>2
    <3> HIDE DEF e
    <3>7. QED BY <2>1, <3>2, <3>5, <3>6, WithOther
  <2>3. CASE ~Follows(id)
    BY <1>4, <2>1, <2>3
  <2>4. QED BY <2>2, <2>3
<1>9. TypeOK'
  <2>1. queue' \in [Times -> Seq(GovernanceEvents)]
    BY <1>8 DEF Sound
  <2>2. deleted' \subseteq Posts
    BY <1>1, <1>4, <1>7 DEF TypeOK, Targets
  <2>3. QED BY <1>1, <1>4, <1>5, <2>1, <2>2 DEF TypeOK
<1>10. Sensible'
  BY <1>1, <1>5 DEF Sensible
<1>11. QED BY <1>1, <1>4, <1>8, <1>9, <1>10 DEF IInv, NeverHalts

LEMMA ExecuteKeeps ==
  ASSUME IInv, ExecuteEvent
  PROVE  IInv'
PROOF
<1>1. PICK t \in Overdue : LET event == Head(queue[t])  rest == Without(t) IN
    /\ CASE event.type = "decide" ->
              Decide(event.id, rest) /\ UNCHANGED <<param, wallet>>
         [] event.type = "change" ->
              /\ param' = event.param /\ queue' = rest
              /\ UNCHANGED <<proposals, deleted, wallet, halted>>
         [] event.type = "return" ->
              /\ wallet' = [wallet EXCEPT ![event.user] = @ + event.amount]
              /\ queue' = rest
              /\ UNCHANGED <<proposals, deleted, param, halted>>
    /\ UNCHANGED <<clock, votes, power>>
  BY DEF ExecuteEvent
<1> DEFINE event == Head(queue[t])
<1>2. TypeOK /\ Sensible /\ Sound(queue, OngoingIds) /\ halted = FALSE
  BY DEF IInv, NeverHalts
<1>3. event \in GovernanceEvents /\ Sound(Without(t), OngoingIds)
  BY <1>2, WithoutFirst DEF Overdue
<1>4. /\ event.type \in {"decide", "change", "return"}
      /\ event.type = "change" => event.param \in Changes
      /\ event.type = "return" => event.user \in Users /\ event.amount \in Deposits
  BY <1>3, EventShape
<1>5. CASE event.type = "decide"
  BY <1>1, <1>5, DecideKeeps
<1>6. CASE event.type \in {"change", "return"}
  <2>1. /\ queue' = Without(t)
        /\ UNCHANGED <<clock, votes, power, proposals, deleted, halted>>
        /\ event.type = "change" => param' = event.param /\ UNCHANGED wallet
        /\ event.type = "return" =>
             UNCHANGED param /\ wallet' = [wallet EXCEPT ![event.user] = @ + event.amount]
    BY <1>1, <1>6
  <2> HIDE DEF event
  <2>2. param' \in Params
    BY <1>2, <1>4, <1>6, <2>1, GovernanceAssumption DEF TypeOK
  <2>3. wallet' \in [Users -> Nat]
    <3>1. CASE event.type = "return"
      <4>1. event.user \in Users /\ event.amount \in Nat
        BY <1>4, <3>1, DepositsAreNumbers
      <4>2. wallet \in [Users -> Nat] /\ wallet[event.user] + event.amount \in Nat
        BY <1>2, <4>1 DEF TypeOK
      <4>3. wallet' = [wallet EXCEPT ![event.user] = wallet[event.user] + event.amount]
        BY <2>1, <3>1
      <4>4. QED BY <4>1, <4>2, <4>3
    <3>2. QED BY <1>2, <1>6, <2>1, <3>1 DEF TypeOK
  <2>4. OngoingIds' = OngoingIds /\ Ids' = Ids
    BY <2>1 DEF OngoingIds, Ids
  <2>5. Sound(queue', OngoingIds')
    BY <1>3, <2>1, <2>4
  <2>6. TypeOK'
    BY <1>2, <2>1, <2>2, <2>3, <2>5 DEF TypeOK, Sound
  <2>7. Sensible'
    BY <1>2, <2>1, <2>4 DEF Sensible
  <2>8. QED BY <1>2, <2>1, <2>5, <2>6, <2>7 DEF IInv, NeverHalts
<1>7. QED BY <1>4, <1>5, <1>6

LEMMA NextIInv ==
  ASSUME IInv, [Next]_vars
  PROVE  IInv'
PROOF
<1>1. ASSUME NEW u \in Users, NEW kind \in Kinds, NEW target \in Targets(kind),
             Propose(u, kind, target)
      PROVE  IInv'
  BY <1>1, ProposeKeeps
<1>2. ASSUME NEW u \in Users, NEW id \in Ids, NEW result \in BOOLEAN, VoteProposal(u, id, result)
      PROVE  IInv'
  BY <1>2, VoteKeeps
<1>3. CASE ExecuteEvent
  BY <1>3, ExecuteKeeps
<1>4. QED BY <1>1, <1>2, <1>3, OthersKeep DEF Next, Transactions

(* Whatever is proposed, voted, changed and executed, the waiting decisions *)
(* are those of the ongoing proposals whose time is not over.               *)
THEOREM IsInvariant == Spec => []IInv
PROOF
<1>1. Init => IInv
  BY InitIInv
<1>2. IInv /\ [Next]_vars => IInv'
  BY NextIInv
<1>3. QED BY <1>1, <1>2, PTL DEF Spec

(* Whatever is proposed, voted, changed and decided, proposals, votes,      *)
(* parameters, deposits and events keep the types of the code's records.    *)
THEOREM TypeCorrect == Spec => []TypeOK
PROOF
<1>1. IInv => TypeOK
  BY DEF IInv
<1>2. QED BY <1>1, IsInvariant, PTL

(* DecideProposalEvent always finds its proposal in the ongoing store, so   *)
(* executeEvents does not panic on an event of governance, whatever the     *)
(* parameters, the delays and the number of open proposals.                 *)
THEOREM NoHalt == Spec => []NeverHalts
PROOF
<1>1. IInv => NeverHalts
  BY DEF IInv
<1>2. QED BY <1>1, IsInvariant, PTL
------------------------------------------------------------------------------
(****************************************************************************)
(* Only what a majority voted for changes the parameters.                   *)
(*                                                                          *)
(* A decision is executed after the second its proposal expires in, and     *)
(* nobody votes on what has been decided, so the majority it found stays    *)
(* (Passed).  What is in the queue is Due: a decision for the second its    *)
(* proposal expires in, a change that has passed.                           *)
(****************************************************************************)
(* ChangeParamPassRatio is never below a half; InitParam makes it 70/100.   *)
HalfRatios ==
  \A p \in Params :
    LET ratio == RulesOf[p].of["ChangeParam"].passRatio IN 2 * ratio[1] >= ratio[2]

PassedIds ==
  {id \in Ids :
     /\ proposals[id].kind = "ChangeParam" /\ proposals[id].expiredAt < clock
     /\ proposals[id].store = "expired"
     /\ proposals[id].agree > proposals[id].disagree}

Passed == {proposals[id].target : id \in PassedIds}

Due ==
  {te \in Times \X GovernanceEvents :
     /\ te[2].type = "decide" => te[2].id \in Ids /\ proposals[te[2].id].expiredAt = te[1]
     /\ te[2].type = "change" => te[2].param \in Passed}

Placed(q, due) ==
  \A t \in Times : \A i \in 1 .. Len(q[t]) : <<t, q[t][i]>> \in due

AInv == Placed(queue, Due) /\ param \in Passed \cup {InitialParam}

LEMMA PlacedWith ==
  ASSUME NEW q \in [Times -> Seq(GovernanceEvents)], NEW due, Placed(q, due),
         NEW e \in GovernanceEvents, NEW delay, clock + delay \in Times,
         <<clock + delay, e>> \in due
  PROVE  Placed(With(q, e, delay), due)
PROOF
<1> DEFINE now == clock + delay
           r == With(q, e, delay)
<1>1. r = [q EXCEPT ![now] = Append(q[now], e)] /\ q[now] \in Seq(GovernanceEvents)
  BY DEF With
<1>2. /\ Len(Append(q[now], e)) = Len(q[now]) + 1
      /\ Append(q[now], e)[Len(q[now]) + 1] = e
      /\ \A i \in 1 .. Len(q[now]) : Append(q[now], e)[i] = q[now][i]
  BY <1>1
<1>3. ASSUME NEW t \in Times, NEW i \in 1 .. Len(r[t])
      PROVE  <<t, r[t][i]>> \in due
  <2>1. \/ i \in 1 .. Len(q[t]) /\ r[t][i] = q[t][i]
        \/ t = now /\ r[t][i] = e
    BY <1>1, <1>2
  <2> HIDE DEF r
  <2>2. QED BY <2>1 DEF Placed
<1> HIDE DEF r
<1>4. Placed(r, due)
  BY <1>3 DEF Placed
<1>5. QED BY <1>4 DEF r

LEMMA PlacedWithout ==
  ASSUME queue \in [Times -> Seq(GovernanceEvents)], NEW due, Placed(queue, due),
         NEW t \in Times, queue[t] # <<>>
  PROVE  Placed(Without(t), due) /\ <<t, Head(queue[t])>> \in due
PROOF
<1> DEFINE r == Without(t)
<1>1. r = [queue EXCEPT ![t] = Tail(queue[t])] /\ queue[t] \in Seq(GovernanceEvents)
  BY DEF Without
<1>2. /\ Len(Tail(queue[t])) = Len(queue[t]) - 1
      /\ Head(queue[t]) = queue[t][1] /\ 1 \in 1 .. Len(queue[t])
      /\ \A i \in 1 .. Len(queue[t]) - 1 : Tail(queue[t])[i] = queue[t][i + 1]
  BY <1>1
<1>3. ASSUME NEW s \in Times, NEW i \in 1 .. Len(r[s])
      PROVE  <<s, r[s][i]>> \in due
  <2>1. \E j \in 1 .. Len(queue[s]) : r[s][i] = queue[s][j]
    <3>1. CASE s = t
      <4>1. i + 1 \in 1 .. Len(queue[t]) /\ r[s][i] = queue[t][i + 1]
        BY <1>1, <1>2, <3>1
      <4>2. QED BY <3>1, <4>1
    <3>2. CASE s # t
      BY <1>1, <3>2
    <3>3. QED BY <3>1, <3>2
  <2> HIDE DEF r
  <2>2. QED BY <2>1 DEF Placed
<1> HIDE DEF r
<1>4. Placed(r, due)
  BY <1>3 DEF Placed
<1>5. <<t, Head(queue[t])>> \in due
  BY <1>2 DEF Placed
<1>6. QED BY <1>4, <1>5 DEF r

LEMMA PlacedMore ==
  ASSUME NEW q, NEW due, NEW more, Placed(q, due), due \subseteq more
  PROVE  Placed(q, more)
PROOF BY DEF Placed

(* What has passed stays passed, and what is due stays due.                 *)
LEMMA DueStays ==
  ASSUME IInv, Ids \subseteq Ids', clock \in Int, clock' \in Int, clock <= clock',
         \A id \in Ids :
           /\ proposals[id].expiredAt \in Int
           /\ proposals'[id].expiredAt = proposals[id].expiredAt
           /\ proposals[id].store = "expired" => proposals'[id] = proposals[id]
  PROVE  Due \subseteq Due' /\ Passed \subseteq Passed'
PROOF
<1>1. PassedIds \subseteq PassedIds'
  BY DEF PassedIds
<1>p. Passed \subseteq Passed'
  <2>1. \A id \in PassedIds : proposals'[id].target = proposals[id].target
    BY DEF PassedIds
  <2>2. QED BY <1>1, <2>1 DEF Passed
<1>2. ASSUME NEW te \in Due
      PROVE  te \in Due'
  BY <1>2, <1>p DEF Due
<1>3. QED BY <1>2, <1>p

(* A majority by a ratio of at least a half is more than the others, if     *)
(* together they are not less than nothing.                                 *)
LEMMA MajorityIsMore ==
  ASSUME NEW a \in Int, NEW d \in Int, a + d \in Nat, NEW r1 \in Nat, NEW r2 \in Nat \ {0},
         2 * r1 >= r2, a * r2 > r1 * (a + d)
  PROVE  a > d
PROOF
<1>1. SUFFICES ASSUME a <= d PROVE FALSE
  OBVIOUS
<1>2. r2 * (a + d) <= (2 * r1) * (a + d)
  <2> DEFINE total == a + d
             over == 2 * r1 - r2
  <2>1. total \in Nat /\ over \in Nat /\ (2 * r1) * total = r2 * total + over * total
    BY SMT
  <2>2. over * total >= 0
    <3> HIDE DEF total, over
    <3>1. QED BY <2>1, SMT
  <2>3. QED BY <2>1, <2>2, SMT
<1>3. r2 * (2 * a) <= r2 * (a + d)
  <2> DEFINE behind == d - a
  <2>1. behind \in Nat /\ r2 * (a + d) = r2 * (2 * a) + r2 * behind
    BY <1>1, SMT
  <2>2. r2 * behind >= 0
    <3> HIDE DEF behind
    <3>1. QED BY <2>1, SMT
  <2>3. QED BY <2>1, <2>2, SMT
<1>4. 2 * (a * r2) = r2 * (2 * a) /\ (2 * r1) * (a + d) = 2 * (r1 * (a + d))
  BY SMT
<1>5. a * r2 \in Int /\ r1 * (a + d) \in Int
  BY SMT
<1>6. QED BY <1>2, <1>3, <1>4, <1>5, SMT
------------------------------------------------------------------------------
LEMMA ExpiryIsInt ==
  ASSUME TypeOK, NEW id \in Ids
  PROVE  proposals[id].expiredAt \in Int
PROOF
<1>1. proposals[id] \in Proposal
  BY DEF TypeOK, Ids
<1>2. proposals[id].expiredAt \in Times
  BY <1>1 DEF Proposal
<1>3. Times \subseteq Int
  BY DeliveryAssumption
<1>4. QED BY <1>2, <1>3

LEMMA ProposeApproved ==
  ASSUME IInv, IInv', AInv, NEW u \in Users, NEW kind \in Kinds, NEW target \in Targets(kind),
         Propose(u, kind, target)
  PROVE  AInv'
PROOF
<1> DEFINE rules == Rules(kind)
           id == Len(proposals) + 1
           new == [kind |-> kind, target |-> target, store |-> "ongoing", agree |-> 0,
                   disagree |-> 0, passed |-> FALSE, expiredAt |-> clock + rules.decideSec]
           t == clock + rules.decideSec
           q == With(queue, DecideEvent(id), rules.decideSec)
           back == ReturnEvent(u, rules.deposit)
<1>1. /\ proposals \in Seq(Proposal) /\ queue \in [Times -> Seq(GovernanceEvents)]
      /\ clock \in Times /\ clock \in Int /\ Sound(queue, OngoingIds)
      /\ proposals' \in Seq(Proposal) /\ param \in Params
  BY DeliveryAssumption DEF IInv, TypeOK
<1>2. /\ proposals' = Append(proposals, new) /\ clock' = clock /\ param' = param
      /\ id \in 1 .. MaxProposals
      /\ queue' = With(q, back, rules.decideSec)
  BY <1>1, GovernanceAssumption DEF Propose, RegisteredDecision
<1>3. new.expiredAt = t
  OBVIOUS
<1> HIDE DEF new
<1>4. /\ Ids' = Ids \cup {id} /\ id \notin Ids /\ proposals'[id] = new
      /\ \A i \in Ids : proposals'[i] = proposals[i]
  BY <1>1, <1>2 DEF Ids
<1>5. t \in Times
  <2>1. proposals'[id] \in Proposal
    BY <1>1, <1>4 DEF Ids
  <2>2. QED BY <1>3, <1>4, <2>1 DEF Proposal
<1>6. \A i \in Ids : proposals[i].expiredAt \in Int
  BY ExpiryIsInt DEF IInv
<1>7. Due \subseteq Due' /\ Passed \subseteq Passed'
  <2>1. \A i \in Ids :
          /\ proposals[i].expiredAt \in Int
          /\ proposals'[i].expiredAt = proposals[i].expiredAt
          /\ proposals[i].store = "expired" => proposals'[i] = proposals[i]
    BY <1>4, <1>6
  <2>2. Ids \subseteq Ids' /\ clock' \in Int /\ clock <= clock'
    BY <1>1, <1>2, <1>4
  <2>3. QED BY <1>1, <2>1, <2>2, DueStays
<1>8. back \in GovernanceEvents /\ back.type = "return"
  BY <1>1, RulesShape DEF GovernanceEvents, ReturnEvent, Rules
<1>9. /\ DecideEvent(id) \in GovernanceEvents
      /\ DecideEvent(id).type = "decide" /\ DecideEvent(id).id = id
  BY <1>2 DEF GovernanceEvents, DecideEvent
<1>10. <<t, DecideEvent(id)>> \in Due'
  BY <1>3, <1>4, <1>5, <1>9 DEF Due
<1>11. <<t, back>> \in Due'
  BY <1>5, <1>8 DEF Due
<1>12. Placed(q, Due') /\ q \in [Times -> Seq(GovernanceEvents)]
  <2>1. Placed(queue, Due')
    BY <1>7, PlacedMore DEF AInv
  <2>2. Placed(q, Due')
    BY <1>1, <1>5, <1>9, <1>10, <2>1, PlacedWith
  <2>3. id \notin OngoingIds
    BY <1>4 DEF OngoingIds
  <2>4. Sound(q, OngoingIds \cup {id})
    BY <1>1, <1>2, <1>5, <2>3, WithDecision
  <2>5. QED BY <2>2, <2>4 DEF Sound
<1> HIDE DEF q, back
<1>13. Placed(queue', Due')
  BY <1>2, <1>5, <1>8, <1>11, <1>12, PlacedWith
<1>14. QED BY <1>2, <1>7, <1>13 DEF AInv

LEMMA VoteApproved ==
  ASSUME IInv, IInv', AInv, NEW u \in Users, NEW id \in Ids, NEW result \in BOOLEAN,
         VoteProposal(u, id, result)
  PROVE  AInv'
PROOF
<1>1. /\ proposals \in Seq(Proposal) /\ proposals' \in Seq(Proposal) /\ clock \in Int
  BY DeliveryAssumption DEF IInv, TypeOK
<1>2. clock' = clock /\ queue' = queue /\ param' = param /\ proposals[id].store = "ongoing"
  BY DEF VoteProposal, MayVote, Ongoing
<1>3. \/ proposals' = [proposals EXCEPT ![id] = [proposals[id] EXCEPT !.agree = @ + power[u]]]
      \/ proposals' = [proposals EXCEPT ![id] = [proposals[id] EXCEPT !.disagree = @ + power[u]]]
  BY DEF VoteProposal
<1>4. /\ Ids' = Ids
      /\ \A i \in Ids : i # id => proposals'[i] = proposals[i]
      /\ proposals'[id].expiredAt = proposals[id].expiredAt
  <2> DEFINE forIt == [proposals[id] EXCEPT !.agree = @ + power[u]]
             against == [proposals[id] EXCEPT !.disagree = @ + power[u]]
  <2>1. proposals[id] \in Proposal
    BY <1>1 DEF Ids
  <2>2. forIt.expiredAt = proposals[id].expiredAt /\ against.expiredAt = proposals[id].expiredAt
    BY <2>1 DEF Proposal
  <2>3. proposals' = [proposals EXCEPT ![id] = forIt] \/ proposals' = [proposals EXCEPT ![id] = against]
    BY <1>3
  <2> HIDE DEF forIt, against
  <2>4. QED BY <1>1, <2>2, <2>3 DEF Ids
<1>5. \A i \in Ids : proposals[i].expiredAt \in Int
  BY ExpiryIsInt DEF IInv
<1>6. Due \subseteq Due' /\ Passed \subseteq Passed'
  BY <1>1, <1>2, <1>4, <1>5, DueStays
<1>7. QED BY <1>2, <1>6, PlacedMore DEF AInv

LEMMA OthersApproved ==
  ASSUME IInv, IInv', AInv,
         \/ \E u \in Users : \E p \in Powers[u] : ChangePower(u, p)
         \/ \E post \in Posts : AuthorDeletes(post)
         \/ \E time \in Times : NextBlock(time)
         \/ UNCHANGED vars
  PROVE  AInv'
PROOF
<1>1. /\ proposals \in Seq(Proposal) /\ clock \in Int /\ clock' \in Int
  BY DeliveryAssumption DEF IInv, TypeOK
<1>2. UNCHANGED <<queue, proposals, param>> /\ Ids' = Ids
  BY DEF ChangePower, AuthorDeletes, NextBlock, Advance, govVars, vars, Ids
<1>3. clock <= clock'
  <2>1. CASE \E time \in Times : NextBlock(time)
    BY <1>1, <2>1 DEF NextBlock, Advance
  <2>2. CASE UNCHANGED clock
    BY <1>1, <2>2
  <2>3. QED BY <2>1, <2>2 DEF ChangePower, AuthorDeletes, vars
<1>4. \A i \in Ids : proposals[i].expiredAt \in Int
  BY ExpiryIsInt DEF IInv
<1>5. Due \subseteq Due' /\ Passed \subseteq Passed'
  BY <1>1, <1>2, <1>3, <1>4, DueStays
<1>6. QED BY <1>2, <1>5, PlacedMore DEF AInv

(* A decision that finds a majority makes what it asked for pass.           *)
LEMMA DecideApproved ==
  ASSUME HalfRatios, IInv, IInv', AInv, NEW t \in Overdue, Head(queue[t]).type = "decide",
         Decide(Head(queue[t]).id, Without(t)),
         UNCHANGED <<clock, votes, power, param, wallet>>
  PROVE  AInv'
PROOF
<1> DEFINE id == Head(queue[t]).id
           rest == Without(t)
<1>1. /\ proposals \in Seq(Proposal) /\ proposals' \in Seq(Proposal) /\ clock \in Int
      /\ queue \in [Times -> Seq(GovernanceEvents)] /\ queue' \in [Times -> Seq(GovernanceEvents)]
      /\ Sound(queue, OngoingIds) /\ t \in Times /\ t < clock /\ queue[t] # <<>>
      /\ param \in Params /\ clock' = clock
      /\ clock <= MaxClock /\ MaxClock \in Int /\ clock \in Nat
  BY DeliveryAssumption, GovernanceAssumption DEF IInv, TypeOK, Overdue, Sensible
<1>2. /\ id \in OngoingIds /\ Sound(rest, OngoingIds)
      /\ Placed(rest, Due) /\ <<t, Head(queue[t])>> \in Due
  BY <1>1, WithoutFirst, PlacedWithout DEF AInv
<1>3. /\ id \in Ids /\ proposals[id].store = "ongoing" /\ proposals[id].expiredAt = t
      /\ proposals[id] \in Proposal /\ rest \in [Times -> Seq(GovernanceEvents)]
  BY <1>1, <1>2 DEF OngoingIds, Due, Ids, Sound
<1>4. /\ proposals' = IF EnoughVotes(id)
                      THEN [proposals EXCEPT ![id].store = "expired", ![id].passed = Majority(id)]
                      ELSE proposals
      /\ queue' = IF Follows(id)
                  THEN With(rest, ChangeEvent(proposals[id].target), RulesOf[param].executionSec)
                  ELSE rest
  BY <1>3 DEF Decide, Ongoing
<1> HIDE DEF id, rest
<1>5. /\ Ids' = Ids
      /\ \A i \in Ids : i # id => proposals'[i] = proposals[i]
      /\ proposals'[id].expiredAt = proposals[id].expiredAt
      /\ proposals'[id].kind = proposals[id].kind /\ proposals'[id].target = proposals[id].target
      /\ proposals'[id].agree = proposals[id].agree
      /\ proposals'[id].disagree = proposals[id].disagree
      /\ EnoughVotes(id) => proposals'[id].store = "expired"
  <2> DEFINE decided == [proposals[id] EXCEPT !.store = "expired", !.passed = Majority(id)]
  <2>1. /\ decided.expiredAt = proposals[id].expiredAt /\ decided.store = "expired"
        /\ decided.kind = proposals[id].kind /\ decided.target = proposals[id].target
        /\ decided.agree = proposals[id].agree /\ decided.disagree = proposals[id].disagree
    BY <1>3 DEF Proposal
  <2>2. proposals' = IF EnoughVotes(id) THEN [proposals EXCEPT ![id] = decided] ELSE proposals
    BY <1>4
  <2> HIDE DEF decided
  <2>3. QED BY <1>1, <1>3, <2>1, <2>2 DEF Ids
<1>6. \A i \in Ids : proposals[i].expiredAt \in Int
  BY ExpiryIsInt DEF IInv
<1>7. Due \subseteq Due' /\ Passed \subseteq Passed'
  BY <1>1, <1>3, <1>5, <1>6, DueStays
<1>8. Placed(rest, Due')
  BY <1>2, <1>7, PlacedMore
<1>9. Placed(queue', Due')
  <2>1. CASE ~Follows(id)
    BY <1>4, <1>8, <2>1
  <2>2. CASE Follows(id)
    <3> DEFINE e == ChangeEvent(proposals[id].target)
               delay == RulesOf[param].executionSec
    <3>1. EnoughVotes(id) /\ Majority(id) /\ proposals[id].kind = "ChangeParam"
      BY <2>2 DEF Follows, Passes
    <3>2. proposals[id].agree > proposals[id].disagree
      <4> DEFINE ratio == Rules(proposals[id].kind).passRatio
      <4>1. proposals[id].agree \in Int /\ proposals[id].disagree \in Int /\ proposals[id].kind \in Kinds
        BY <1>3 DEF Proposal
      <4>2. ratio[1] \in Nat /\ ratio[2] \in Nat \ {0} /\ Rules(proposals[id].kind).passVotes \in Nat
        <5>1. RulesOf[param].of[proposals[id].kind] \in KindParam
          BY <1>1, <4>1, GovernanceAssumption DEF ProposalParam
        <5>2. QED BY <5>1 DEF Rules, KindParam
      <4>3. 2 * ratio[1] >= ratio[2]
        BY <1>1, <3>1 DEF HalfRatios, Rules
      <4>4. proposals[id].agree * ratio[2]
              > ratio[1] * (proposals[id].agree + proposals[id].disagree)
        BY <3>1 DEF Majority
      <4>5. proposals[id].agree + proposals[id].disagree \in Nat
        BY <3>1, <4>1, <4>2 DEF EnoughVotes
      <4> HIDE DEF ratio
      <4>6. QED BY <4>1, <4>2, <4>3, <4>4, <4>5, MajorityIsMore
    <3>3. proposals[id].target \in Passed'
      <4>1. id \in PassedIds'
        BY <1>1, <1>3, <1>5, <3>1, <3>2 DEF PassedIds
      <4>2. QED BY <1>5, <4>1 DEF Passed
    <3>4. /\ proposals[id].target \in Changes
          /\ clock + delay \in Times
      <4>1. proposals[id].target \in Targets("ChangeParam")
        BY <1>3, <3>1 DEF IInv, Sensible
      <4>2. delay \in Nat
        BY <1>1, RulesShape
      <4>3. clock + delay \in 0 .. MaxClock + delay
        <5> HIDE DEF delay
        <5>1. clock \in 0 .. MaxClock /\ MaxClock \in Nat
          BY <1>1, GovernanceAssumption
        <5>2. QED BY <4>2, <5>1
      <4>4. QED BY <1>1, <4>1, <4>3, GovernanceAssumption DEF Targets
    <3>5. e \in GovernanceEvents /\ e.type = "change" /\ e.param = proposals[id].target
      BY <3>4 DEF GovernanceEvents, ChangeEvent
    <3>6. <<clock + delay, e>> \in Due'
      BY <3>3, <3>4, <3>5 DEF Due
    <3>7. queue' = With(rest, e, delay)
      BY <1>4, <2>2
    <3> HIDE DEF e, delay
    <3>8. QED BY <1>3, <1>8, <3>4, <3>5, <3>6, <3>7, PlacedWith
  <2>3. QED BY <2>1, <2>2
<1>10. QED BY <1>1, <1>7, <1>9 DEF AInv

(* An event that changes the parameters carries what has passed.            *)
LEMMA ExecuteApproved ==
  ASSUME HalfRatios, IInv, IInv', AInv, ExecuteEvent
  PROVE  AInv'
PROOF
<1>1. PICK t \in Overdue : LET event == Head(queue[t])  rest == Without(t) IN
    /\ CASE event.type = "decide" ->
              Decide(event.id, rest) /\ UNCHANGED <<param, wallet>>
         [] event.type = "change" ->
              /\ param' = event.param /\ queue' = rest
              /\ UNCHANGED <<proposals, deleted, wallet, halted>>
         [] event.type = "return" ->
              /\ wallet' = [wallet EXCEPT ![event.user] = @ + event.amount]
              /\ queue' = rest
              /\ UNCHANGED <<proposals, deleted, param, halted>>
    /\ UNCHANGED <<clock, votes, power>>
  BY DEF ExecuteEvent
<1> DEFINE event == Head(queue[t])
<1>2. /\ queue \in [Times -> Seq(GovernanceEvents)] /\ Sound(queue, OngoingIds)
      /\ clock \in Int /\ t \in Times /\ queue[t] # <<>>
  BY DeliveryAssumption DEF IInv, TypeOK, Overdue
<1>3. event.type \in {"decide", "change", "return"}
  BY <1>2, WithoutFirst, EventShape
<1>4. Placed(Without(t), Due) /\ <<t, event>> \in Due
  BY <1>2, PlacedWithout DEF AInv
<1>5. CASE event.type = "decide"
  BY <1>1, <1>5, DecideApproved
<1>6. CASE event.type \in {"change", "return"}
  <2>1. /\ queue' = Without(t) /\ proposals' = proposals /\ clock' = clock
        /\ event.type = "change" => param' = event.param
        /\ event.type = "return" => param' = param
    BY <1>1, <1>6
  <2>2. event.type = "change" => event.param \in Passed
    BY <1>4 DEF Due
  <2> HIDE DEF event
  <2>3. Ids' = Ids
    BY <2>1 DEF Ids
  <2>4. PassedIds' = PassedIds
    BY <2>1, <2>3 DEF PassedIds
  <2>5. Passed' = Passed
    BY <2>1, <2>4 DEF Passed
  <2>6. Due' = Due
    BY <2>1, <2>3, <2>5 DEF Due
  <2>7. param' \in Passed \cup {InitialParam}
    BY <1>6, <2>1, <2>2 DEF AInv
  <2>8. QED BY <1>4, <2>1, <2>5, <2>6, <2>7 DEF AInv
<1>7. QED BY <1>3, <1>5, <1>6

LEMMA NextApproved ==
  ASSUME HalfRatios, IInv, IInv', AInv, [Next]_vars
  PROVE  AInv'
PROOF
<1>1. ASSUME NEW u \in Users, NEW kind \in Kinds, NEW target \in Targets(kind),
             Propose(u, kind, target)
      PROVE  AInv'
  BY <1>1, ProposeApproved
<1>2. ASSUME NEW u \in Users, NEW id \in Ids, NEW result \in BOOLEAN, VoteProposal(u, id, result)
      PROVE  AInv'
  BY <1>2, VoteApproved
<1>3. CASE ExecuteEvent
  BY <1>3, ExecuteApproved
<1>4. QED BY <1>1, <1>2, <1>3, OthersApproved DEF Next, Transactions

LEMMA InitAInv == Init => AInv
PROOF BY DEF Init, DeliveryInit, AInv, Placed

(* What has passed was approved.                                            *)
LEMMA PassedIsApproved == AInv => OnlyApprovedChanges
PROOF
<1> SUFFICES ASSUME AInv PROVE OnlyApprovedChanges
  OBVIOUS
<1>1. ASSUME NEW target \in Passed
      PROVE  Approved(target)
  BY <1>1 DEF Passed, PassedIds, Approved
<1>2. ASSUME NEW t \in Times, NEW i \in 1 .. Len(queue[t]), queue[t][i].type = "change"
      PROVE  queue[t][i].param \in Passed
  <2>1. <<t, queue[t][i]>> \in Due
    BY DEF AInv, Placed
  <2>2. QED BY <1>2, <2>1 DEF Due
<1>3. QED BY <1>1, <1>2 DEF AInv, OnlyApprovedChanges

(* If ChangeParamPassRatio is never below a half, the parameters in force,  *)
(* and those of every ChangeParamEvent that waits, are the initial ones or  *)
(* ones more power voted for than against, in a proposal whose time to      *)
(* decide was over, whatever the parameters become in the meantime.         *)
THEOREM OnlyMajorities == HalfRatios => (Spec => []OnlyApprovedChanges)
PROOF
<1> SUFFICES ASSUME HalfRatios PROVE Spec => []OnlyApprovedChanges
  OBVIOUS
<1>1. Init => AInv
  BY InitAInv
<1>2. IInv /\ IInv' /\ AInv /\ [Next]_vars => AInv'
  BY NextApproved
<1>3. AInv => OnlyApprovedChanges
  BY PassedIsApproved
<1>4. QED BY <1>1, <1>2, <1>3, IsInvariant, PTL DEF Spec
------------------------------------------------------------------------------
(****************************************************************************)
(* Tallies.                                                                 *)
(****************************************************************************)
(* A voter has one vote in a set of votes.                                  *)
OneEach(V) == \A a, b \in V : a.voter = b.voter => a = b

VotersOf(V, result) == {u \in Users : \E vote \in V : vote.voter = u /\ vote.result = result}

VoteOf(V, u, result) == CHOOSE vote \in V : vote.voter = u /\ vote.result = result

PowersOf(V, result) == [u \in VotersOf(V, result) |-> VoteOf(V, u, result).power]

Tally(V, result) == SumFunction(PowersOf(V, result))

(* The votes on a proposal, and what it counts of them.                     *)
Counted(id) ==
  /\ OneEach(votes[id])
  /\ proposals[id].agree = Tally(votes[id], TRUE)
  /\ proposals[id].disagree = Tally(votes[id], FALSE)

TInv == \A id \in Ids : Counted(id)

LEMMA VotesForTally ==
  ASSUME NEW id, NEW result
  PROVE  VotesFor(id, result) = Tally(votes[id], result)
PROOF BY DEF VotesFor, Tally, PowersOf, VotersOf, VoteOf

LEMMA VoteChosen ==
  ASSUME NEW V, OneEach(V), NEW vote \in V
  PROVE  VoteOf(V, vote.voter, vote.result) = vote
PROOF BY DEF OneEach, VoteOf

LEMMA VoteShape ==
  ASSUME NEW vote \in VoteRecord
  PROVE  vote.voter \in Users /\ vote.result \in BOOLEAN /\ vote.power \in Int
PROOF
<1>1. vote.voter \in Users /\ vote.result \in BOOLEAN /\ vote.power \in UNION {Powers[u] : u \in Users}
  BY DEF VoteRecord
<1>2. QED BY <1>1, GovernanceAssumption

LEMMA PowersOfType ==
  ASSUME NEW V \in SUBSET VoteRecord, OneEach(V), NEW result \in BOOLEAN
  PROVE  /\ IsFiniteSet(VotersOf(V, result))
         /\ PowersOf(V, result) \in [VotersOf(V, result) -> Int]
PROOF
<1>1. IsFiniteSet(VotersOf(V, result))
  BY GovernanceAssumption, FS_Subset DEF VotersOf
<1>2. ASSUME NEW u \in VotersOf(V, result) PROVE VoteOf(V, u, result).power \in Int
  <2>1. PICK vote \in V : vote.voter = u /\ vote.result = result
    BY DEF VotersOf
  <2>2. QED BY <2>1, VoteChosen, VoteShape
<1>3. QED BY <1>1, <1>2 DEF PowersOf

(* A new voter's power is added to his side, and only there.                *)
LEMMA TallyGrows ==
  ASSUME NEW V \in SUBSET VoteRecord, OneEach(V), NEW vote \in VoteRecord,
         \A other \in V : other.voter # vote.voter
  PROVE  /\ OneEach(V \cup {vote})
         /\ Tally(V \cup {vote}, vote.result) = Tally(V, vote.result) + vote.power
         /\ \A result \in BOOLEAN : result # vote.result =>
              Tally(V \cup {vote}, result) = Tally(V, result)
PROOF
<1> DEFINE W == V \cup {vote}
<1>1. OneEach(W) /\ W \in SUBSET VoteRecord
  BY DEF OneEach
<1>2. ASSUME NEW result \in BOOLEAN, NEW u \in VotersOf(V, result)
      PROVE  PowersOf(W, result)[u] = PowersOf(V, result)[u]
  <2>1. PICK cast \in V : cast.voter = u /\ cast.result = result
    BY DEF VotersOf
  <2>2. VoteOf(V, u, result) = cast /\ VoteOf(W, u, result) = cast
    BY <1>1, <2>1, VoteChosen
  <2>3. u \in VotersOf(W, result)
    BY DEF VotersOf
  <2>4. QED BY <2>2, <2>3 DEF PowersOf
<1>3. VotersOf(W, vote.result) = VotersOf(V, vote.result) \cup {vote.voter}
  BY VoteShape DEF VotersOf
<1>4. \A result \in BOOLEAN : result # vote.result => VotersOf(W, result) = VotersOf(V, result)
  BY DEF VotersOf
<1>5. vote.voter \notin VotersOf(V, vote.result)
  BY DEF VotersOf
<1>6. PowersOf(W, vote.result)[vote.voter] = vote.power
  <2>1. VoteOf(W, vote.voter, vote.result) = vote
    BY <1>1, VoteChosen
  <2>2. vote.voter \in VotersOf(W, vote.result)
    BY <1>3
  <2>3. QED BY <2>1, <2>2 DEF PowersOf
<1> HIDE DEF W
<1>7. ASSUME NEW result \in BOOLEAN
      PROVE  /\ Tally(W, result) = SumFunctionOnSet(PowersOf(W, result), VotersOf(W, result))
             /\ Tally(V, result) = SumFunctionOnSet(PowersOf(W, result), VotersOf(V, result))
             /\ IsFiniteSet(VotersOf(V, result))
             /\ \A u \in VotersOf(W, result) : PowersOf(W, result)[u] \in Int
  <2>1. /\ IsFiniteSet(VotersOf(V, result)) /\ IsFiniteSet(VotersOf(W, result))
        /\ PowersOf(V, result) \in [VotersOf(V, result) -> Int]
        /\ PowersOf(W, result) \in [VotersOf(W, result) -> Int]
    BY <1>1, PowersOfType
  <2>2. /\ Tally(V, result) = SumFunctionOnSet(PowersOf(V, result), VotersOf(V, result))
        /\ Tally(W, result) = SumFunctionOnSet(PowersOf(W, result), VotersOf(W, result))
    BY <2>1, SumTotal DEF Tally
  <2>3. \A u \in VotersOf(V, result) :
          PowersOf(V, result)[u] \in Int /\ PowersOf(W, result)[u] = PowersOf(V, result)[u]
    BY <1>2, <2>1
  <2>4. SumFunctionOnSet(PowersOf(W, result), VotersOf(V, result))
          = SumFunctionOnSet(PowersOf(V, result), VotersOf(V, result))
    BY <2>1, <2>3, SumSame
  <2>5. QED BY <2>1, <2>2, <2>4
<1>8. Tally(W, vote.result) = Tally(V, vote.result) + vote.power
  <2> DEFINE r == vote.result
  <2>1. r \in BOOLEAN /\ vote.power \in Int
    BY VoteShape
  <2>2. SumFunctionOnSet(PowersOf(W, r), VotersOf(V, r) \cup {vote.voter})
          = vote.power + SumFunctionOnSet(PowersOf(W, r), VotersOf(V, r))
    <3>1. \A u \in VotersOf(V, r) \cup {vote.voter} : PowersOf(W, r)[u] \in Int
      BY <1>3, <1>7, <2>1
    <3>2. IsFiniteSet(VotersOf(V, r))
      BY <1>7, <2>1
    <3> DEFINE S == VotersOf(V, r)
               f == PowersOf(W, r)
               x == vote.voter
    <3>3. IsFiniteSet(S) /\ x \notin S /\ (\A u \in S \cup {x} : f[u] \in Int)
      BY <1>5, <3>1, <3>2
    <3> HIDE DEF S, f, x
    <3>4. SumFunctionOnSet(f, S \cup {x}) = f[x] + SumFunctionOnSet(f, S)
      BY <3>3, SumAdds
    <3>5. QED BY <1>6, <3>4 DEF S, f, x
  <2>3. SumFunctionOnSet(PowersOf(W, r), VotersOf(V, r)) \in Int
    BY <1>3, <1>7, <2>1, SumTakes
  <2>4. /\ Tally(W, r) = SumFunctionOnSet(PowersOf(W, r), VotersOf(W, r))
        /\ Tally(V, r) = SumFunctionOnSet(PowersOf(W, r), VotersOf(V, r))
    BY <1>7, <2>1
  <2>5. QED BY <1>3, <2>1, <2>2, <2>3, <2>4
<1>9. \A result \in BOOLEAN : result # vote.result => Tally(W, result) = Tally(V, result)
  BY <1>4, <1>7
<1>10. QED BY <1>1, <1>8, <1>9 DEF W

LEMMA NobodyVoted == \A result \in BOOLEAN : Tally({}, result) = 0
PROOF
<1>1. ASSUME NEW result \in BOOLEAN PROVE Tally({}, result) = 0
  <2>1. VotersOf({}, result) = {}
    BY DEF VotersOf
  <2>2. PowersOf({}, result) \in [{} -> Int]
    BY <2>1 DEF PowersOf
  <2>3. SumFunction(PowersOf({}, result)) = SumFunctionOnSet(PowersOf({}, result), {})
    BY <2>2, SumTotal, FS_EmptySet
  <2>4. QED BY <2>3, SumEmpty DEF Tally
<1>2. QED BY <1>1

LEMMA SameTallies ==
  ASSUME TInv, UNCHANGED votes, Ids' = Ids,
         \A id \in Ids : /\ proposals'[id].agree = proposals[id].agree
                         /\ proposals'[id].disagree = proposals[id].disagree
  PROVE  TInv'
PROOF
<1>1. ASSUME NEW id \in Ids PROVE Counted(id)'
  BY DEF TInv, Counted
<1>2. QED BY <1>1 DEF TInv

LEMMA ProposeTallies ==
  ASSUME IInv, TInv, NEW u \in Users, NEW kind \in Kinds, NEW target \in Targets(kind),
         Propose(u, kind, target)
  PROVE  TInv'
PROOF
<1>1. /\ proposals \in Seq(Proposal) /\ votes \in Seq(SUBSET VoteRecord)
      /\ Len(votes) = Len(proposals)
  BY DEF IInv, TypeOK
<1>2. PICK new : /\ proposals' = Append(proposals, new) /\ votes' = Append(votes, {})
                 /\ new.agree = 0 /\ new.disagree = 0
  BY DEF Propose
<1>3. Ids = 1 .. Len(proposals) /\ Ids' = 1 .. Len(proposals) + 1
  BY <1>1, <1>2 DEF Ids
<1>4. /\ \A id \in Ids : proposals'[id] = proposals[id] /\ votes'[id] = votes[id]
      /\ proposals'[Len(proposals) + 1] = new /\ votes'[Len(proposals) + 1] = {}
  BY <1>1, <1>2, <1>3
<1>5. ASSUME NEW id \in Ids' PROVE Counted(id)'
  <2>1. CASE id \in Ids
    BY <1>4, <2>1 DEF TInv, Counted
  <2>2. CASE id = Len(proposals) + 1
    <3>1. votes'[id] = {} /\ proposals'[id].agree = 0 /\ proposals'[id].disagree = 0
      BY <1>2, <1>4, <2>2
    <3>2. QED BY <3>1, NobodyVoted DEF Counted, OneEach
  <2>3. QED BY <1>3, <2>1, <2>2
<1>6. QED BY <1>5 DEF TInv

LEMMA VoteTallies ==
  ASSUME IInv, TInv, NEW u \in Users, NEW id \in Ids, NEW result \in BOOLEAN,
         VoteProposal(u, id, result)
  PROVE  TInv'
PROOF
<1> DEFINE vote == [voter |-> u, result |-> result, power |-> power[u]]
<1>1. /\ proposals \in Seq(Proposal) /\ votes \in Seq(SUBSET VoteRecord)
      /\ Len(votes) = Len(proposals) /\ id \in 1 .. Len(proposals) /\ Ids = 1 .. Len(proposals)
  BY DEF IInv, TypeOK, Ids
<1>2. power[u] \in Powers[u] /\ power[u] \in Int
  BY GovernanceAssumption DEF IInv, VoteProposal, MayVote, TypeOK
<1>3. /\ vote \in VoteRecord /\ vote.voter = u /\ vote.result = result /\ vote.power = power[u]
  BY <1>2 DEF VoteRecord
<1>4. \A other \in votes[id] : other.voter # u
  BY DEF VoteProposal, MayVote, HasVoted
<1>5. /\ votes' = [votes EXCEPT ![id] = votes[id] \cup {vote}]
      /\ proposals' = IF result
           THEN [proposals EXCEPT ![id] = [proposals[id] EXCEPT !.agree = @ + power[u]]]
           ELSE [proposals EXCEPT ![id] = [proposals[id] EXCEPT !.disagree = @ + power[u]]]
  BY DEF VoteProposal
<1> HIDE DEF vote
<1>6. Ids' = Ids
  BY <1>1, <1>5 DEF Ids
<1>7. ASSUME NEW i \in Ids, i # id PROVE Counted(i)'
  <2>1. proposals'[i] = proposals[i] /\ votes'[i] = votes[i]
    BY <1>1, <1>5, <1>7
  <2>2. QED BY <2>1 DEF TInv, Counted
<1>8. Counted(id)'
  <2>1. Counted(id)
    BY DEF TInv
  <2>2. votes[id] \in SUBSET VoteRecord /\ votes'[id] = votes[id] \cup {vote}
    BY <1>1, <1>5
  <2>3. /\ OneEach(votes'[id])
        /\ Tally(votes'[id], result) = Tally(votes[id], result) + power[u]
        /\ \A other \in BOOLEAN : other # result =>
             Tally(votes'[id], other) = Tally(votes[id], other)
    <3> DEFINE V == votes[id]
    <3>1. OneEach(V) /\ V \in SUBSET VoteRecord /\ \A other \in V : other.voter # vote.voter
      BY <1>3, <1>4, <2>1, <2>2 DEF Counted
    <3>2. votes'[id] = V \cup {vote}
      BY <2>2
    <3> HIDE DEF V
    <3>3. /\ OneEach(V \cup {vote})
          /\ Tally(V \cup {vote}, vote.result) = Tally(V, vote.result) + vote.power
          /\ \A other \in BOOLEAN : other # vote.result =>
               Tally(V \cup {vote}, other) = Tally(V, other)
      BY <1>3, <3>1, TallyGrows
    <3>4. QED BY <1>3, <3>2, <3>3 DEF V
  <2>4. proposals[id] \in Proposal
    BY <1>1
  <2>5. CASE result = TRUE
    <3>1. proposals'[id] = [proposals[id] EXCEPT !.agree = @ + power[u]]
      BY <1>1, <1>5, <2>5
    <3>2. /\ proposals'[id].agree = proposals[id].agree + power[u]
          /\ proposals'[id].disagree = proposals[id].disagree
      BY <2>4, <3>1 DEF Proposal
    <3>3. QED BY <2>1, <2>3, <2>5, <3>2 DEF Counted
  <2>6. CASE result = FALSE
    <3>1. proposals'[id] = [proposals[id] EXCEPT !.disagree = @ + power[u]]
      BY <1>1, <1>5, <2>6
    <3>2. /\ proposals'[id].agree = proposals[id].agree
          /\ proposals'[id].disagree = proposals[id].disagree + power[u]
      BY <2>4, <3>1 DEF Proposal
    <3>3. QED BY <2>1, <2>3, <2>6, <3>2 DEF Counted
  <2>7. QED BY <2>5, <2>6
<1>9. QED BY <1>6, <1>7, <1>8 DEF TInv

LEMMA ExecuteTallies ==
  ASSUME IInv, TInv, ExecuteEvent
  PROVE  TInv'
PROOF
<1>1. proposals \in Seq(Proposal) /\ votes' = votes
  BY DEF IInv, TypeOK, ExecuteEvent
<1>2. \/ proposals' = proposals
      \/ \E id, passed : proposals' = [proposals EXCEPT ![id].store = "expired", ![id].passed = passed]
  <2>1. PICK t \in Overdue :
          LET event == Head(queue[t])  rest == Without(t) IN
          CASE event.type = "decide" ->
                Decide(event.id, rest) /\ UNCHANGED <<param, wallet>>
           [] event.type = "change" ->
                /\ param' = event.param /\ queue' = rest
                /\ UNCHANGED <<proposals, deleted, wallet, halted>>
           [] event.type = "return" ->
                /\ wallet' = [wallet EXCEPT ![event.user] = @ + event.amount]
                /\ queue' = rest
                /\ UNCHANGED <<proposals, deleted, param, halted>>
    BY DEF ExecuteEvent
  <2>2. Head(queue[t]).type \in {"decide", "change", "return"}
    BY WithoutFirst, EventShape DEF IInv, Overdue
  <2>3. CASE Head(queue[t]).type = "decide"
    BY <2>1, <2>3 DEF Decide
  <2>4. QED BY <2>1, <2>2, <2>3
<1>3. /\ Ids' = Ids
      /\ \A id \in Ids : /\ proposals'[id].agree = proposals[id].agree
                         /\ proposals'[id].disagree = proposals[id].disagree
  <2>1. CASE proposals' = proposals
    BY <2>1 DEF Ids
  <2>2. ASSUME NEW id, NEW passed,
               proposals' = [proposals EXCEPT ![id].store = "expired", ![id].passed = passed]
        PROVE  /\ Ids' = Ids
               /\ \A i \in Ids : /\ proposals'[i].agree = proposals[i].agree
                                 /\ proposals'[i].disagree = proposals[i].disagree
    <3>1. \A i \in Ids : proposals[i] \in Proposal
      BY <1>1 DEF Ids
    <3>2. Ids' = Ids
      BY <2>2 DEF Ids
    <3>3. ASSUME NEW i \in Ids
          PROVE  /\ proposals'[i].agree = proposals[i].agree
                 /\ proposals'[i].disagree = proposals[i].disagree
      BY <2>2, <3>1 DEF Ids, Proposal
    <3>4. QED BY <3>2, <3>3
  <2>3. QED BY <1>2, <2>1, <2>2
<1>4. QED BY <1>1, <1>3, SameTallies

LEMMA NextTallies ==
  ASSUME IInv, TInv, [Next]_vars
  PROVE  TInv'
PROOF
<1>1. ASSUME NEW u \in Users, NEW kind \in Kinds, NEW target \in Targets(kind),
             Propose(u, kind, target)
      PROVE  TInv'
  BY <1>1, ProposeTallies
<1>2. ASSUME NEW u \in Users, NEW id \in Ids, NEW result \in BOOLEAN, VoteProposal(u, id, result)
      PROVE  TInv'
  BY <1>2, VoteTallies
<1>3. CASE ExecuteEvent
  BY <1>3, ExecuteTallies
<1>4. CASE \/ \E u \in Users : \E p \in Powers[u] : ChangePower(u, p)
           \/ \E post \in Posts : AuthorDeletes(post)
           \/ \E time \in Times : NextBlock(time)
           \/ UNCHANGED vars
  <2>1. UNCHANGED <<proposals, votes>>
    BY <1>4 DEF ChangePower, AuthorDeletes, NextBlock, govVars, vars
  <2>2. QED BY <2>1, SameTallies DEF Ids
<1>5. QED BY <1>1, <1>2, <1>3, <1>4 DEF Next, Transactions

(* What AddVote has added to AgreeVotes and DisagreeVotes is the power each *)
(* voter had when he voted, once, for every number of voters and votes.     *)
THEOREM TalliesCount == Spec => []TalliesAgree
PROOF
<1>1. Init => TInv
  BY DEF Init, TInv, Ids
<1>2. IInv /\ TInv /\ [Next]_vars => TInv'
  BY NextTallies
<1>3. TInv => TalliesAgree
  BY VotesForTally DEF TInv, Counted, TalliesAgree
<1>4. QED BY <1>1, <1>2, <1>3, IsInvariant, PTL DEF Spec
------------------------------------------------------------------------------
(****************************************************************************)
(* Deposits.                                                                *)
(****************************************************************************)
(* What the events of a second, and all events of a queue, will return.     *)
Backs(s) == {j \in 1 .. Len(s) : s[j].type = "return"}
AmountsOf(s) == [i \in Backs(s) |-> s[i].amount]
Back(s) == SumFunction(AmountsOf(s))
Coming(q) == SumFunction([t \in Times |-> Back(q[t])])

AmountOf(event) == IF event.type = "return" THEN event.amount ELSE 0

LEMMA ReturningComes == Returning = Coming(queue)
PROOF BY DEF Returning, Coming, Back, AmountsOf, Backs

LEMMA AmountIsInt ==
  ASSUME NEW e \in GovernanceEvents
  PROVE  AmountOf(e) \in Int
PROOF
<1>1. e.type = "return" => e.amount \in Deposits
  BY EventShape
<1>2. e.type = "return" => e.amount \in Nat
  BY <1>1, DepositsAreNumbers
<1>3. CASE e.type = "return"
  BY <1>2, <1>3 DEF AmountOf
<1>4. CASE e.type # "return"
  BY <1>4 DEF AmountOf
<1>5. QED BY <1>3, <1>4

LEMMA BackIs ==
  ASSUME NEW s \in Seq(GovernanceEvents)
  PROVE  /\ IsFiniteSet(Backs(s)) /\ AmountsOf(s) \in [Backs(s) -> Int]
         /\ \A i \in Backs(s) : AmountsOf(s)[i] = AmountOf(s[i])
         /\ Back(s) = SumFunctionOnSet(AmountsOf(s), Backs(s)) /\ Back(s) \in Int
PROOF
<1>1. IsFiniteSet(Backs(s))
  <2>1. IsFiniteSet(1 .. Len(s))
    BY FS_Interval
  <2>2. QED BY <2>1, FS_Subset DEF Backs
<1>2. ASSUME NEW i \in Backs(s) PROVE s[i].amount \in Int /\ AmountsOf(s)[i] = AmountOf(s[i])
  <2>1. s[i] \in GovernanceEvents /\ s[i].type = "return"
    BY DEF Backs
  <2>2. AmountOf(s[i]) = s[i].amount /\ AmountsOf(s)[i] = s[i].amount
    BY <2>1 DEF AmountsOf, AmountOf
  <2>3. AmountOf(s[i]) \in Int
    BY <2>1, AmountIsInt
  <2>4. QED BY <2>2, <2>3
<1>3. AmountsOf(s) \in [Backs(s) -> Int]
  BY <1>2 DEF AmountsOf
<1>4. QED BY <1>1, <1>2, <1>3, SumTotal DEF Back

LEMMA BackOfNone == Back(<<>>) = 0
PROOF
<1>1. <<>> \in Seq(GovernanceEvents) /\ Backs(<<>>) = {}
  BY DEF Backs
<1>2. QED BY <1>1, BackIs, SumEmpty

LEMMA BackAppend ==
  ASSUME NEW s \in Seq(GovernanceEvents), NEW e \in GovernanceEvents
  PROVE  Back(Append(s, e)) = Back(s) + AmountOf(e)
PROOF
<1> DEFINE r == Append(s, e)
           n == Len(s) + 1
<1>1. /\ r \in Seq(GovernanceEvents) /\ Len(r) = n /\ r[n] = e /\ Len(s) \in Nat
      /\ \A i \in 1 .. Len(s) : r[i] = s[i]
  OBVIOUS
<1> HIDE DEF r
<1>2. /\ e.type = "return" => Backs(r) = Backs(s) \cup {n}
      /\ e.type # "return" => Backs(r) = Backs(s)
      /\ n \notin Backs(s)
  BY <1>1 DEF Backs
<1>3. /\ IsFiniteSet(Backs(s)) /\ Back(s) = SumFunctionOnSet(AmountsOf(s), Backs(s))
      /\ Back(r) = SumFunctionOnSet(AmountsOf(r), Backs(r))
      /\ AmountsOf(s) \in [Backs(s) -> Int] /\ AmountsOf(r) \in [Backs(r) -> Int]
      /\ Back(s) \in Int
  BY <1>1, BackIs
<1>4. SumFunctionOnSet(AmountsOf(r), Backs(s)) = Back(s)
  <2>1. \A i \in Backs(s) : AmountsOf(s)[i] \in Int /\ AmountsOf(r)[i] = AmountsOf(s)[i]
    <3>1. ASSUME NEW i \in Backs(s) PROVE AmountsOf(r)[i] = AmountsOf(s)[i]
      <4>1. i \in Backs(r) /\ r[i] = s[i]
        BY <1>1, <1>2 DEF Backs
      <4>2. QED BY <4>1 DEF AmountsOf
    <3>2. QED BY <1>3, <3>1
  <2>2. QED BY <1>3, <2>1, SumSame
<1>5. CASE e.type = "return"
  <2>1. AmountsOf(r)[n] = AmountOf(e)
    BY <1>1, <1>2, <1>5 DEF AmountsOf, AmountOf
  <2>2. \A i \in Backs(s) \cup {n} : AmountsOf(r)[i] \in Int
    BY <1>2, <1>3, <1>5
  <2>3. SumFunctionOnSet(AmountsOf(r), Backs(s) \cup {n})
          = AmountsOf(r)[n] + SumFunctionOnSet(AmountsOf(r), Backs(s))
    BY <1>2, <1>3, <2>2, SumAdds
  <2>4. AmountOf(e) \in Int /\ Backs(r) = Backs(s) \cup {n}
    BY <1>2, <1>5, AmountIsInt
  <2>5. Back(r) = Back(s) + AmountOf(e)
    BY <1>3, <1>4, <2>1, <2>3, <2>4
  <2>6. QED BY <2>5 DEF r
<1>6. CASE e.type # "return"
  <2>1. Back(r) = Back(s) + AmountOf(e)
    BY <1>2, <1>3, <1>4, <1>6 DEF AmountOf
  <2>2. QED BY <2>1 DEF r
<1>7. QED BY <1>5, <1>6

Lists == Seq(GovernanceEvents)

LEMMA BackTail ==
  ASSUME NEW s \in Lists, s # <<>>
  PROVE  Back(s) = AmountOf(Head(s)) + Back(Tail(s))
PROOF
<1> DEFINE r == Tail(s)
           e == Head(s)
<1>1. /\ r \in Lists /\ Len(r) = Len(s) - 1 /\ e = s[1] /\ 1 \in 1 .. Len(s)
      /\ Len(s) \in Nat /\ e \in GovernanceEvents
      /\ \A i \in 1 .. Len(s) - 1 : r[i] = s[i + 1]
  BY DEF Lists
<1> HIDE DEF r, e
<1>2. /\ IsFiniteSet(Backs(s)) /\ Back(s) = SumFunctionOnSet(AmountsOf(s), Backs(s))
      /\ IsFiniteSet(Backs(r)) /\ Back(r) = SumFunctionOnSet(AmountsOf(r), Backs(r))
      /\ AmountsOf(s) \in [Backs(s) -> Int] /\ AmountsOf(r) \in [Backs(r) -> Int]
      /\ Back(r) \in Int
  BY <1>1, BackIs DEF Lists
<1>3. /\ \A i \in Backs(r) : i + 1 \in Backs(s) \ {1}
      /\ \A j \in Backs(s) \ {1} : j - 1 \in Backs(r)
  BY <1>1 DEF Backs
<1>4. Backs(r) \in SUBSET Nat /\ Backs(s) \ {1} \in SUBSET Nat
  BY <1>1 DEF Backs
<1>5. ASSUME NEW i \in Backs(r)
      PROVE  AmountsOf(r)[i] \in Int /\ AmountsOf(s)[i + 1] = AmountsOf(r)[i]
  <2>1. i + 1 \in Backs(s) /\ r[i] = s[i + 1]
    BY <1>1, <1>3 DEF Backs
  <2>2. QED BY <1>2, <2>1 DEF AmountsOf
<1>6. SumFunctionOnSet(AmountsOf(s), Backs(s) \ {1}) = Back(r)
  <2>1. \A i \in Backs(r) : AmountsOf(r)[i] \in Int /\ AmountsOf(s)[i + 1] = AmountsOf(r)[i]
    BY <1>5
  <2>2. Shifted(1, Backs(r), Backs(s) \ {1}, AmountsOf(s), AmountsOf(r))
    BY <1>3, <1>4, <2>1 DEF Shifted
  <2>3. SumFunctionOnSet(AmountsOf(s), Backs(s) \ {1}) = SumFunctionOnSet(AmountsOf(r), Backs(r))
    BY <1>2, <2>2, SumsShift
  <2>4. QED BY <1>2, <2>3
<1>7. CASE e.type = "return"
  <2>1. 1 \in Backs(s) /\ AmountsOf(s)[1] = AmountOf(e)
    BY <1>1, <1>7 DEF Backs, AmountsOf, AmountOf
  <2>2. SumFunctionOnSet(AmountsOf(s), Backs(s))
          = AmountsOf(s)[1] + SumFunctionOnSet(AmountsOf(s), Backs(s) \ {1})
    BY <1>2, <2>1, SumTakes
  <2>3. Back(s) = AmountOf(e) + Back(r)
    BY <1>2, <1>6, <2>1, <2>2
  <2>4. QED BY <2>3 DEF e, r
<1>8. CASE e.type # "return"
  <2>1. Backs(s) \ {1} = Backs(s)
    BY <1>1, <1>8 DEF Backs
  <2>2. Back(s) = AmountOf(e) + Back(r)
    <3>1. AmountOf(e) = 0 /\ Back(s) = Back(r)
      BY <1>2, <1>6, <1>8, <2>1 DEF AmountOf
    <3>2. QED BY <1>2, <3>1
  <2>3. QED BY <2>2 DEF e, r
<1>9. QED BY <1>7, <1>8

LEMMA ComingChanges ==
  ASSUME IsFiniteSet(Times), NEW q \in [Times -> Lists], NEW t \in Times, NEW s \in Lists
  PROVE  /\ Coming([q EXCEPT ![t] = s]) = Coming(q) + (Back(s) - Back(q[t]))
         /\ Coming(q) \in Int
PROOF
<1> DEFINE r == [q EXCEPT ![t] = s]
           f == [u \in Times |-> Back(q[u])]
           g == [u \in Times |-> Back(r[u])]
<1>1. r \in [Times -> Lists] /\ r[t] = s /\ \A u \in Times : u # t => r[u] = q[u]
  OBVIOUS
<1> HIDE DEF r
<1>2. f \in [Times -> Int] /\ g \in [Times -> Int]
  BY <1>1, BackIs DEF Lists
<1>3. /\ g[t] = Back(s) /\ f[t] = Back(q[t])
      /\ \A u \in Times : u # t => g[u] = f[u]
  BY <1>1
<1>4. Coming(q) = SumFunction(f) /\ Coming(r) = SumFunction(g)
  BY DEF Coming
<1> HIDE DEF f, g
<1>5. SumFunction(g) = SumFunction(f) + (g[t] - f[t]) /\ SumFunction(f) \in Int
  <2>1. \A u \in Times : u # t => g[u] = f[u]
    BY <1>3
  <2>2. f \in [Times -> Int]
    BY <1>2
  <2>3. g \in [Times -> Int]
    BY <1>2
  <2>4. QED BY <2>1, <2>2, <2>3, SumChanges
<1>6. Coming(r) = Coming(q) + (Back(s) - Back(q[t])) /\ Coming(q) \in Int
  BY <1>3, <1>4, <1>5
<1>7. QED BY <1>6 DEF r

LEMMA ComingWith ==
  ASSUME IsFiniteSet(Times), NEW q \in [Times -> Seq(GovernanceEvents)],
         NEW e \in GovernanceEvents, NEW delay, clock + delay \in Times
  PROVE  /\ With(q, e, delay) \in [Times -> Seq(GovernanceEvents)]
         /\ Coming(With(q, e, delay)) = Coming(q) + AmountOf(e)
PROOF
<1> DEFINE t == clock + delay
           s == Append(q[t], e)
<1>1. /\ t \in Times /\ q[t] \in Seq(GovernanceEvents) /\ s \in Seq(GovernanceEvents)
      /\ With(q, e, delay) = [q EXCEPT ![t] = s]
  BY DEF With
<1>2. Back(s) = Back(q[t]) + AmountOf(e) /\ Back(q[t]) \in Int /\ AmountOf(e) \in Int
  BY <1>1, BackAppend, BackIs, AmountIsInt
<1> HIDE DEF t, s
<1>3. Coming([q EXCEPT ![t] = s]) = Coming(q) + (Back(s) - Back(q[t])) /\ Coming(q) \in Int
  BY <1>1, ComingChanges DEF Lists
<1>4. QED BY <1>1, <1>2, <1>3

LEMMA ComingWithout ==
  ASSUME IsFiniteSet(Times), queue \in [Times -> Seq(GovernanceEvents)],
         NEW t \in Times, queue[t] # <<>>
  PROVE  /\ Without(t) \in [Times -> Seq(GovernanceEvents)]
         /\ Coming(queue) = AmountOf(Head(queue[t])) + Coming(Without(t))
         /\ Coming(Without(t)) \in Int
PROOF
<1> DEFINE s == Tail(queue[t])
           e == Head(queue[t])
<1>1. /\ queue[t] \in Seq(GovernanceEvents) /\ s \in Seq(GovernanceEvents)
      /\ e \in GovernanceEvents /\ Without(t) = [queue EXCEPT ![t] = s]
  BY DEF Without
<1>2. Back(queue[t]) = AmountOf(e) + Back(s) /\ Back(s) \in Int /\ AmountOf(e) \in Int
  BY <1>1, BackTail, BackIs, AmountIsInt DEF Lists
<1> HIDE DEF s, e
<1>3. /\ Coming([queue EXCEPT ![t] = s]) = Coming(queue) + (Back(s) - Back(queue[t]))
      /\ Coming(queue) \in Int
  BY <1>1, ComingChanges DEF Lists
<1>4. /\ Without(t) \in [Times -> Seq(GovernanceEvents)]
      /\ Coming(queue) = AmountOf(e) + Coming(Without(t))
      /\ Coming(Without(t)) \in Int
  BY <1>1, <1>2, <1>3
<1>5. QED BY <1>4 DEF e

LEMMA WalletChanges ==
  ASSUME wallet \in [Users -> Nat], NEW u \in Users, NEW v \in Int,
         wallet' = [wallet EXCEPT ![u] = v]
  PROVE  SumFunction(wallet') = SumFunction(wallet) + (v - wallet[u])
PROOF
<1>1. wallet \in [Users -> Int] /\ IsFiniteSet(Users)
  BY GovernanceAssumption
<1>2. QED BY <1>1, SumUpdate

DInv == SumFunction(wallet) + Coming(queue) = SumFunction(Funds)

LEMMA SumsAreInt ==
  ASSUME IInv, IsFiniteSet(Times)
  PROVE  SumFunction(wallet) \in Int /\ Coming(queue) \in Int
PROOF
<1>1. IsFiniteSet(Users) /\ wallet \in [Users -> Int]
  BY GovernanceAssumption DEF IInv, TypeOK
<1>2. queue \in [Times -> Seq(GovernanceEvents)] /\ 0 \in Times
  BY DeliveryAssumption DEF IInv, TypeOK
<1>3. [queue EXCEPT ![0] = queue[0]] = queue /\ queue[0] \in Seq(GovernanceEvents)
  BY <1>2
<1>4. SumFunction(wallet) \in Int
  BY <1>1, SumTotal
<1>5. Coming(queue) \in Int
  BY <1>2, <1>3, ComingChanges DEF Lists
<1>6. QED BY <1>4, <1>5

LEMMA ProposeReturns ==
  ASSUME IInv, DInv, IsFiniteSet(Times), NEW u \in Users, NEW kind \in Kinds,
         NEW target \in Targets(kind), Propose(u, kind, target)
  PROVE  DInv'
PROOF
<1> DEFINE rules == Rules(kind)
           id == Len(proposals) + 1
           one == With(queue, DecideEvent(id), rules.decideSec)
           back == ReturnEvent(u, rules.deposit)
<1>1. /\ TypeOK /\ clock \in Nat /\ MaxClock \in Nat
      /\ queue \in [Times -> Seq(GovernanceEvents)] /\ wallet \in [Users -> Nat]
  BY GovernanceAssumption, DeliveryAssumption DEF IInv, TypeOK
<1>2. /\ rules.decideSec \in Nat /\ rules.deposit \in Nat /\ rules.deposit \in Deposits
      /\ clock + rules.decideSec \in Times
  <2>1. /\ rules.decideSec \in Nat /\ rules.deposit \in Nat /\ rules.deposit \in Deposits
        /\ RulesOf[param].executionSec \in Nat /\ param \in Params
    BY <1>1, RulesShape DEF TypeOK, Rules
  <2>2. clock + rules.decideSec < MaxClock
    BY DEF Propose
  <2>3. clock + rules.decideSec \in 0 .. MaxClock + RulesOf[param].executionSec
    BY <1>1, <2>1, <2>2
  <2>4. QED BY <2>1, <2>3, GovernanceAssumption
<1>3. id \in 1 .. MaxProposals
  BY <1>1, GovernanceAssumption DEF Propose, TypeOK
<1>4. /\ DecideEvent(id) \in GovernanceEvents /\ AmountOf(DecideEvent(id)) = 0
      /\ back \in GovernanceEvents /\ AmountOf(back) = rules.deposit
  BY <1>2, <1>3 DEF GovernanceEvents, DecideEvent, ReturnEvent, AmountOf
<1>5. queue' = With(one, back, rules.decideSec)
  BY DEF Propose, RegisteredDecision
<1>6. /\ one \in [Times -> Seq(GovernanceEvents)]
      /\ Coming(one) = Coming(queue) + AmountOf(DecideEvent(id))
  BY <1>1, <1>2, <1>4, ComingWith
<1> HIDE DEF one, back
<1>7. Coming(queue') = Coming(one) + AmountOf(back)
  BY <1>2, <1>4, <1>5, <1>6, ComingWith
<1>8. SumFunction(wallet') = SumFunction(wallet) - rules.deposit
  <2>1. wallet' = [wallet EXCEPT ![u] = wallet[u] - rules.deposit]
    BY DEF Propose
  <2> HIDE DEF rules
  <2>2. wallet[u] \in Nat
    BY <1>1
  <2>3. PICK v \in Int : v = wallet[u] - rules.deposit
    BY <1>2, <2>2
  <2>4. SumFunction(wallet') = SumFunction(wallet) + (v - wallet[u])
    BY <1>1, <2>1, <2>3, WalletChanges
  <2>5. SumFunction(wallet) \in Int
    BY SumsAreInt
  <2>6. QED BY <1>2, <2>2, <2>3, <2>4, <2>5
<1>9. QED BY <1>2, <1>4, <1>6, <1>7, <1>8, SumsAreInt DEF DInv

LEMMA ExecuteReturns ==
  ASSUME IInv, DInv, IsFiniteSet(Times), ExecuteEvent
  PROVE  DInv'
PROOF
<1>1. PICK t \in Overdue :
        LET event == Head(queue[t])  rest == Without(t) IN
        CASE event.type = "decide" ->
              Decide(event.id, rest) /\ UNCHANGED <<param, wallet>>
         [] event.type = "change" ->
              /\ param' = event.param /\ queue' = rest
              /\ UNCHANGED <<proposals, deleted, wallet, halted>>
         [] event.type = "return" ->
              /\ wallet' = [wallet EXCEPT ![event.user] = @ + event.amount]
              /\ queue' = rest
              /\ UNCHANGED <<proposals, deleted, param, halted>>
  BY DEF ExecuteEvent
<1> DEFINE event == Head(queue[t])
           rest == Without(t)
<1>2. /\ TypeOK /\ Sensible /\ queue \in [Times -> Seq(GovernanceEvents)]
      /\ wallet \in [Users -> Nat] /\ t \in Times /\ queue[t] # <<>>
      /\ clock \in Nat /\ clock <= MaxClock /\ MaxClock \in Nat
  BY GovernanceAssumption, DeliveryAssumption DEF IInv, TypeOK, Sensible, Overdue
<1>3. event \in GovernanceEvents
  BY <1>2
<1>4. /\ rest \in [Times -> Seq(GovernanceEvents)] /\ Coming(rest) \in Int
      /\ Coming(queue) = AmountOf(event) + Coming(rest)
  BY <1>2, ComingWithout
<1>5. /\ event.type \in {"decide", "change", "return"}
      /\ event.type = "return" => event.user \in Users /\ event.amount \in Deposits
  BY <1>3, EventShape
<1>6. SumFunction(wallet) \in Int
  BY SumsAreInt
<1>7. CASE event.type = "decide"
  <2>1. Decide(event.id, rest) /\ wallet' = wallet
    BY <1>1, <1>7
  <2>2. AmountOf(event) = 0
    BY <1>7 DEF AmountOf
  <2> HIDE DEF event, rest
  <2>3. Coming(queue') = Coming(rest)
    <3>1. CASE queue' = rest
      BY <3>1
    <3>2. CASE Ongoing(event.id) /\ Follows(event.id)
      <4> DEFINE change == ChangeEvent(proposals[event.id].target)
                 delay == RulesOf[param].executionSec
      <4>1. queue' = With(rest, change, delay)
        BY <2>1, <3>2 DEF Decide
      <4>2. proposals[event.id].target \in Changes
        BY <1>2, <3>2 DEF Ongoing, Follows, Sensible, Targets
      <4>3. change \in GovernanceEvents /\ AmountOf(change) = 0
        BY <4>2 DEF GovernanceEvents, ChangeEvent, AmountOf
      <4>4. clock + delay \in Times
        <5>1. param \in Params /\ delay \in Nat
          BY <1>2, RulesShape DEF TypeOK
        <5>2. clock \in Nat /\ clock <= MaxClock /\ MaxClock \in Nat
          BY <1>2
        <5>3. clock + delay \in 0 .. MaxClock + delay
          BY <5>1, <5>2
        <5>4. QED BY <5>1, <5>3, GovernanceAssumption
      <4> HIDE DEF change, delay
      <4>5. Coming(queue') = Coming(rest) + AmountOf(change)
        BY <1>4, <4>1, <4>3, <4>4, ComingWith
      <4>6. QED BY <1>4, <4>3, <4>5
    <3>3. QED BY <2>1, <3>1, <3>2 DEF Decide
  <2>4. Coming(queue) = Coming(rest)
    BY <1>4, <2>2
  <2>5. QED BY <2>1, <2>3, <2>4 DEF DInv
<1>8. CASE event.type = "change"
  <2>1. queue' = rest /\ wallet' = wallet
    BY <1>1, <1>8
  <2>2. AmountOf(event) = 0
    BY <1>8 DEF AmountOf
  <2> HIDE DEF event, rest
  <2>3. Coming(queue) = Coming(queue')
    BY <1>4, <2>1, <2>2
  <2>4. QED BY <2>1, <2>3 DEF DInv
<1>9. CASE event.type = "return"
  <2>1. queue' = rest /\ wallet' = [wallet EXCEPT ![event.user] = wallet[event.user] + event.amount]
    BY <1>1, <1>9
  <2>2. AmountOf(event) = event.amount /\ event.amount \in Nat /\ event.user \in Users
    BY <1>5, <1>9, DepositsAreNumbers DEF AmountOf
  <2> HIDE DEF event, rest
  <2>3. wallet[event.user] \in Nat /\ wallet[event.user] + event.amount \in Int
    BY <1>2, <2>2
  <2>4. SumFunction(wallet')
          = SumFunction(wallet) + ((wallet[event.user] + event.amount) - wallet[event.user])
    BY <1>2, <2>1, <2>2, <2>3, WalletChanges
  <2>5. SumFunction(wallet') = SumFunction(wallet) + event.amount
    BY <1>6, <2>2, <2>3, <2>4
  <2>6. Coming(queue) = event.amount + Coming(queue') /\ Coming(queue') \in Int
    BY <1>4, <2>1, <2>2
  <2>7. QED BY <1>6, <2>2, <2>5, <2>6 DEF DInv
<1>10. QED BY <1>5, <1>7, <1>8, <1>9

LEMMA NextReturns ==
  ASSUME IInv, DInv, IsFiniteSet(Times), [Next]_vars
  PROVE  DInv'
PROOF
<1>1. ASSUME NEW u \in Users, NEW kind \in Kinds, NEW target \in Targets(kind),
             Propose(u, kind, target)
      PROVE  DInv'
  BY <1>1, ProposeReturns
<1>2. CASE ExecuteEvent
  BY <1>2, ExecuteReturns
<1>3. CASE \/ \E u \in Users, id \in Ids, result \in BOOLEAN : VoteProposal(u, id, result)
           \/ \E u \in Users : \E p \in Powers[u] : ChangePower(u, p)
           \/ \E post \in Posts : AuthorDeletes(post)
           \/ \E time \in Times : NextBlock(time)
           \/ UNCHANGED vars
  <2>1. UNCHANGED <<queue, wallet>>
    BY <1>3 DEF VoteProposal, ChangePower, AuthorDeletes, NextBlock, Advance, govVars, vars
  <2>2. QED BY <2>1 DEF DInv
<1>4. QED BY <1>1, <1>2, <1>3 DEF Next, Transactions

LEMMA NothingComes ==
  ASSUME Init, IsFiniteSet(Times)
  PROVE  DInv
PROOF
<1>1. queue = [t \in Times |-> <<>>] /\ wallet = Funds
  BY DEF Init, DeliveryInit
<1> DEFINE f == [t \in Times |-> Back(queue[t])]
<1>2. f \in [Times -> Int] /\ \A t \in Times : f[t] = 0
  BY <1>1, BackOfNone
<1>3. Coming(queue) = SumFunction(f)
  BY DEF Coming
<1> HIDE DEF f
<1>4. SumFunction(f) = 0
  BY <1>2, SumTotal, SumZero
<1>5. Funds \in [Users -> Int] /\ IsFiniteSet(Users)
  BY GovernanceAssumption
<1>6. SumFunction(Funds) \in Int
  BY <1>5, SumTotal
<1>7. QED BY <1>1, <1>3, <1>4, <1>6 DEF DInv

(* What CreateProposal takes as a deposit is either in the queue, in one    *)
(* ReturnCoinEvent, or back with its proposer, whatever the parameters ask  *)
(* for by then.  The sum over the queue needs it to have finitely many      *)
(* seconds; the clock of the module is bounded anyway.                      *)
THEOREM DepositsComeBack == IsFiniteSet(Times) => (Spec => []DepositsReturned)
PROOF
<1> SUFFICES ASSUME IsFiniteSet(Times) PROVE Spec => []DepositsReturned
  OBVIOUS
<1>1. Init => DInv
  BY NothingComes
<1>2. IInv /\ DInv /\ [Next]_vars => DInv'
  BY NextReturns
<1>3. DInv => DepositsReturned
  BY ReturningComes DEF DInv, DepositsReturned
<1>4. QED BY <1>1, <1>2, <1>3, IsInvariant, PTL DEF Spec
------------------------------------------------------------------------------
(****************************************************************************)
(* What the liveness of decisions rests on: the decision of a proposal is   *)
(* in the queue, at the second the proposal expires in, until its time is   *)
(* over; what takes it out afterwards decides the proposal; and nothing     *)
(* else moves a proposal to the expired store.                              *)
(****************************************************************************)
InQueue(q, t, e) == \E i \in 1 .. Len(q[t]) : q[t][i] = e

DecisionWaits(id) == InQueue(queue, proposals[id].expiredAt, DecideEvent(id))

WaitsForTime ==
  \A id \in Ids : clock <= proposals[id].expiredAt => Ongoing(id) /\ DecisionWaits(id)

DecidesOnce ==
  [][\A id \in Ids :
       /\ DecisionWaits(id) /\ ~DecisionWaits(id)' =>
            proposals[id].expiredAt < clock /\ (EnoughVotes(id) <=> ~Ongoing(id)')
       /\ Ongoing(id) /\ ~Ongoing(id)' => DecisionWaits(id) /\ ~DecisionWaits(id)']_vars

LEMMA InQueueWith ==
  ASSUME NEW q \in [Times -> Seq(GovernanceEvents)], NEW e \in GovernanceEvents,
         NEW delay, clock + delay \in Times
  PROVE  /\ InQueue(With(q, e, delay), clock + delay, e)
         /\ \A s \in Times : \A f : InQueue(q, s, f) => InQueue(With(q, e, delay), s, f)
PROOF
<1>1. PICK now \in Times : now = clock + delay
  OBVIOUS
<1>2. PICK r : r = With(q, e, delay) /\ r = [q EXCEPT ![now] = Append(q[now], e)]
  BY <1>1 DEF With
<1>3. /\ q[now] \in Seq(GovernanceEvents)
      /\ Len(Append(q[now], e)) = Len(q[now]) + 1 /\ Len(q[now]) \in Nat
      /\ Append(q[now], e)[Len(q[now]) + 1] = e
      /\ \A i \in 1 .. Len(q[now]) : Append(q[now], e)[i] = q[now][i]
  OBVIOUS
<1>4. InQueue(r, now, e)
  <2>1. Len(q[now]) + 1 \in 1 .. Len(r[now]) /\ r[now][Len(q[now]) + 1] = e
    BY <1>2, <1>3
  <2>2. QED BY <2>1 DEF InQueue
<1>5. ASSUME NEW s \in Times, NEW f, InQueue(q, s, f)
      PROVE  InQueue(r, s, f)
  <2>1. PICK i \in 1 .. Len(q[s]) : q[s][i] = f
    BY <1>5 DEF InQueue
  <2>2. i \in 1 .. Len(r[s]) /\ r[s][i] = f
    BY <1>2, <1>3, <2>1
  <2>3. QED BY <2>2 DEF InQueue
<1>6. QED BY <1>1, <1>2, <1>4, <1>5

LEMMA InQueueWithout ==
  ASSUME queue \in [Times -> Seq(GovernanceEvents)], NEW t \in Times, queue[t] # <<>>,
         NEW s \in Times, NEW f, InQueue(queue, s, f), s # t \/ f # Head(queue[t])
  PROVE  InQueue(Without(t), s, f)
PROOF
<1>1. PICK r : r = Without(t) /\ r = [queue EXCEPT ![t] = Tail(queue[t])]
  BY DEF Without
<1>2. /\ queue[t] \in Seq(GovernanceEvents)
      /\ Len(Tail(queue[t])) = Len(queue[t]) - 1 /\ Len(queue[t]) \in Nat
      /\ Head(queue[t]) = queue[t][1]
      /\ \A i \in 1 .. Len(queue[t]) - 1 : Tail(queue[t])[i] = queue[t][i + 1]
  OBVIOUS
<1>3. PICK i \in 1 .. Len(queue[s]) : queue[s][i] = f
  BY DEF InQueue
<1>4. CASE s = t
  <2>1. i # 1
    BY <1>2, <1>3, <1>4
  <2>2. i - 1 \in 1 .. Len(queue[t]) - 1 /\ (i - 1) + 1 = i
    BY <1>2, <1>3, <1>4, <2>1
  <2>3. r[t] = Tail(queue[t])
    BY <1>1
  <2>4. i - 1 \in 1 .. Len(r[t]) /\ r[t][i - 1] = f
    BY <1>2, <1>3, <1>4, <2>2, <2>3
  <2>5. QED BY <1>1, <1>4, <2>4 DEF InQueue
<1>5. CASE s # t
  <2>1. i \in 1 .. Len(r[s]) /\ r[s][i] = f
    BY <1>1, <1>3, <1>5
  <2>2. QED BY <1>1, <2>1 DEF InQueue
<1>6. QED BY <1>4, <1>5

(* Only an ongoing proposal waits for its decision.                         *)
LEMMA WaitingIsOngoing ==
  ASSUME NEW q, NEW ids, Sound(q, ids), NEW t \in Times, NEW id, InQueue(q, t, DecideEvent(id))
  PROVE  id \in ids
PROOF
<1>1. PICK i \in 1 .. Len(q[t]) : q[t][i] = DecideEvent(id)
  BY DEF InQueue
<1>2. q[t][i].type = "decide" /\ q[t][i].id = id
  BY <1>1 DEF DecideEvent
<1>3. QED BY <1>2, SoundOne

(* Every decision is in the queue for the second its proposal expires in.   *)
OnTime ==
  {te \in Times \X GovernanceEvents :
     te[2].type = "decide" => te[2].id \in Ids /\ proposals[te[2].id].expiredAt = te[1]}

(* What a step may do to a proposal that exists.                            *)
Kept(id) ==
  /\ id \in Ids' /\ proposals'[id].expiredAt = proposals[id].expiredAt
  /\ DecisionWaits(id) /\ ~DecisionWaits(id)' =>
       proposals[id].expiredAt < clock /\ (EnoughVotes(id) <=> ~Ongoing(id)')
  /\ Ongoing(id) /\ ~Ongoing(id)' => DecisionWaits(id) /\ ~DecisionWaits(id)'

LEMMA OnTimeStays ==
  ASSUME \A id \in Ids : Kept(id)
  PROVE  OnTime \subseteq OnTime'
PROOF BY DEF Kept, OnTime

LEMMA ExpiryIsTime ==
  ASSUME TypeOK, NEW id \in Ids
  PROVE  proposals[id].expiredAt \in Times /\ proposals[id].expiredAt \in Int
PROOF
<1>1. proposals[id] \in Proposal
  BY DEF TypeOK, Ids
<1>2. proposals[id].expiredAt \in Times
  BY <1>1 DEF Proposal
<1>3. QED BY <1>2, ExpiryIsInt

LEMMA ProposeDecides ==
  ASSUME IInv, IInv', Placed(queue, OnTime), NEW u \in Users, NEW kind \in Kinds, NEW target \in Targets(kind),
         Propose(u, kind, target)
  PROVE  /\ clock' = clock
         /\ \A i \in Ids : Kept(i)
         /\ \A i \in Ids' \ Ids : Ongoing(i)' /\ DecisionWaits(i)'
         /\ Placed(queue', OnTime')
PROOF
<1> DEFINE rules == Rules(kind)
           id == Len(proposals) + 1
           new == [kind |-> kind, target |-> target, store |-> "ongoing", agree |-> 0,
                   disagree |-> 0, passed |-> FALSE, expiredAt |-> clock + rules.decideSec]
           t == clock + rules.decideSec
           q == With(queue, DecideEvent(id), rules.decideSec)
           back == ReturnEvent(u, rules.deposit)
<1>1. /\ proposals \in Seq(Proposal) /\ queue \in [Times -> Seq(GovernanceEvents)]
      /\ proposals' \in Seq(Proposal) /\ param \in Params /\ Sound(queue, OngoingIds)
  BY DEF IInv, TypeOK
<1>2. /\ proposals' = Append(proposals, new) /\ clock' = clock
      /\ id \in 1 .. MaxProposals
      /\ queue' = With(q, back, rules.decideSec)
  BY <1>1, GovernanceAssumption DEF Propose, RegisteredDecision
<1>3. new.expiredAt = t /\ new.store = "ongoing"
  OBVIOUS
<1> HIDE DEF new
<1>4. /\ Ids' = Ids \cup {id} /\ id \notin Ids /\ proposals'[id] = new
      /\ \A i \in Ids : proposals'[i] = proposals[i]
  BY <1>1, <1>2 DEF Ids
<1>5. t \in Times
  <2>1. proposals'[id] \in Proposal
    BY <1>1, <1>4 DEF Ids
  <2>2. QED BY <1>3, <1>4, <2>1 DEF Proposal
<1>6. back \in GovernanceEvents /\ back.type = "return"
  BY <1>1, RulesShape DEF GovernanceEvents, ReturnEvent, Rules
<1>7. /\ DecideEvent(id) \in GovernanceEvents
      /\ DecideEvent(id).type = "decide" /\ DecideEvent(id).id = id
  BY <1>2 DEF GovernanceEvents, DecideEvent
<1>8. <<t, DecideEvent(id)>> \in OnTime' /\ <<t, back>> \in OnTime'
  BY <1>3, <1>4, <1>5, <1>6, <1>7 DEF OnTime
<1>9. ASSUME Placed(queue, OnTime') PROVE Placed(q, OnTime')
  BY <1>1, <1>5, <1>7, <1>8, <1>9, PlacedWith
<1>10. /\ q \in [Times -> Seq(GovernanceEvents)] /\ InQueue(q, t, DecideEvent(id))
      /\ \A s \in Times : \A f : InQueue(queue, s, f) => InQueue(q, s, f)
  <2>1. /\ InQueue(q, t, DecideEvent(id))
        /\ \A s \in Times : \A f : InQueue(queue, s, f) => InQueue(q, s, f)
    BY <1>1, <1>5, <1>7, InQueueWith
  <2>2. id \notin OngoingIds
    BY <1>4 DEF OngoingIds
  <2>3. Sound(q, OngoingIds \cup {id})
    BY <1>1, <1>2, <1>5, <2>2, WithDecision
  <2>4. QED BY <2>1, <2>3 DEF Sound
<1> HIDE DEF q, back
<1>11. \A s \in Times : \A f : InQueue(q, s, f) => InQueue(queue', s, f)
  BY <1>2, <1>5, <1>6, <1>10, InQueueWith
<1>12. InQueue(queue', t, DecideEvent(id))
  BY <1>5, <1>10, <1>11
<1>13. ASSUME NEW i \in Ids PROVE Kept(i)
  <2>1. proposals[i].expiredAt \in Times
    BY ExpiryIsTime DEF IInv
  <2>2. DecisionWaits(i) => DecisionWaits(i)'
    BY <1>4, <1>10, <1>11, <2>1 DEF DecisionWaits
  <2>3. Ongoing(i) => Ongoing(i)'
    BY <1>4 DEF Ongoing
  <2>4. QED BY <1>4, <2>2, <2>3 DEF Kept
<1>14. ASSUME NEW i \in Ids' \ Ids PROVE Ongoing(i)' /\ DecisionWaits(i)'
  <2>1. i = id /\ proposals'[i].expiredAt = t /\ proposals'[i].store = "ongoing"
    BY <1>3, <1>4, <1>14
  <2>2. InQueue(queue', proposals'[i].expiredAt, DecideEvent(i))
    BY <1>12, <2>1
  <2>3. QED BY <1>14, <2>1, <2>2 DEF Ongoing, DecisionWaits
<1>15. Placed(queue', OnTime')
  <2>1. Placed(q, OnTime')
    BY <1>13, <1>9, OnTimeStays, PlacedMore
  <2>2. QED BY <1>2, <1>5, <1>6, <1>10, <1>8, <2>1, PlacedWith
<1>16. QED BY <1>2, <1>4, <1>13, <1>14, <1>15

(* A vote, and the steps that leave queue and proposals alone.              *)
LEMMA OthersDecide ==
  ASSUME IInv, IInv', Placed(queue, OnTime), ~ExecuteEvent, [Next]_vars,
         ~ \E u \in Users, kind \in Kinds : \E target \in Targets(kind) : Propose(u, kind, target)
  PROVE  /\ clock <= clock' /\ Ids' = Ids
         /\ \A i \in Ids : Kept(i)
         /\ Placed(queue', OnTime')
PROOF
<1>1. proposals \in Seq(Proposal) /\ clock \in Int /\ clock' \in Int
  BY DeliveryAssumption DEF IInv, TypeOK
<1>2. queue' = queue /\ clock <= clock'
  <2>1. CASE \E time \in Times : NextBlock(time)
    BY <1>1, <2>1 DEF NextBlock, Advance
  <2>2. CASE UNCHANGED <<clock, queue>>
    BY <1>1, <2>2
  <2>3. QED BY <2>1, <2>2 DEF Next, Transactions, VoteProposal, ChangePower, AuthorDeletes, vars
<1>3. /\ Ids' = Ids
      /\ \A i \in Ids : /\ proposals'[i].expiredAt = proposals[i].expiredAt
                       /\ proposals'[i].store = proposals[i].store
  <2>1. CASE proposals' = proposals
    BY <2>1 DEF Ids
  <2>2. ASSUME NEW u \in Users, NEW id \in Ids, NEW result \in BOOLEAN, VoteProposal(u, id, result)
        PROVE  /\ Ids' = Ids
               /\ \A i \in Ids : /\ proposals'[i].expiredAt = proposals[i].expiredAt
                                /\ proposals'[i].store = proposals[i].store
    <3> DEFINE forIt == [proposals[id] EXCEPT !.agree = @ + power[u]]
               against == [proposals[id] EXCEPT !.disagree = @ + power[u]]
    <3>1. proposals[id] \in Proposal
      BY <1>1 DEF Ids
    <3>2. /\ forIt.expiredAt = proposals[id].expiredAt /\ against.expiredAt = proposals[id].expiredAt
          /\ forIt.store = proposals[id].store /\ against.store = proposals[id].store
      BY <3>1 DEF Proposal
    <3>3. proposals' = [proposals EXCEPT ![id] = forIt] \/ proposals' = [proposals EXCEPT ![id] = against]
      BY <2>2 DEF VoteProposal
    <3> HIDE DEF forIt, against
    <3>4. QED BY <1>1, <3>2, <3>3 DEF Ids
  <2>3. QED BY <2>1, <2>2 DEF Next, Transactions, ChangePower, AuthorDeletes, NextBlock, govVars, vars
<1>4. ASSUME NEW i \in Ids PROVE Kept(i)
  <2>1. DecisionWaits(i)' <=> DecisionWaits(i)
    BY <1>2, <1>3 DEF DecisionWaits
  <2>2. Ongoing(i)' <=> Ongoing(i)
    BY <1>3 DEF Ongoing
  <2>3. QED BY <1>3, <2>1, <2>2 DEF Kept
<1>5. QED BY <1>2, <1>3, <1>4, OnTimeStays, PlacedMore

(* A decision takes itself out of the queue, and its proposal out of the    *)
(* ongoing store if enough voted; nothing of it is left.                    *)
LEMMA DecisionDecides ==
  ASSUME IInv, IInv', Placed(queue, OnTime), NEW t \in Overdue, Head(queue[t]).type = "decide",
         Decide(Head(queue[t]).id, Without(t)), clock' = clock, param' = param
  PROVE  Ids' = Ids /\ (\A i \in Ids : Kept(i)) /\ Placed(queue', OnTime')
PROOF
<1> DEFINE rest == Without(t)
<1>0. PICK id : id = Head(queue[t]).id
  OBVIOUS
<1>1. /\ proposals \in Seq(Proposal) /\ clock \in Nat /\ clock <= MaxClock /\ MaxClock \in Nat
      /\ queue \in [Times -> Seq(GovernanceEvents)] /\ Sound(queue, OngoingIds)
      /\ t \in Times /\ t < clock /\ queue[t] # <<>> /\ param \in Params
      /\ TypeOK
  BY DeliveryAssumption, GovernanceAssumption DEF IInv, TypeOK, Overdue, Sensible
<1>2. /\ id \in OngoingIds /\ Sound(rest, OngoingIds \ {id})
      /\ Placed(rest, OnTime) /\ <<t, Head(queue[t])>> \in OnTime
  BY <1>0, <1>1, WithoutFirst, PlacedWithout
<1>3. /\ id \in Ids /\ proposals[id].store = "ongoing" /\ proposals[id].expiredAt = t
      /\ proposals[id] \in Proposal /\ rest \in [Times -> Seq(GovernanceEvents)]
  BY <1>0, <1>1, <1>2 DEF OngoingIds, OnTime, Ids, Sound
<1>4. Head(queue[t]) = DecideEvent(id)
  <2>1. Head(queue[t]) \in GovernanceEvents
    BY <1>1, WithoutFirst
  <2>2. QED BY <1>0, <2>1 DEF GovernanceEvents, DecideEvent, ChangeEvent, ReturnEvent
<1>5. InQueue(queue, t, DecideEvent(id))
  <2>1. 1 \in 1 .. Len(queue[t]) /\ queue[t][1] = Head(queue[t])
    BY <1>1
  <2>2. QED BY <1>4, <2>1 DEF InQueue
<1>6. /\ proposals' = IF EnoughVotes(id)
                      THEN [proposals EXCEPT ![id].store = "expired", ![id].passed = Majority(id)]
                      ELSE proposals
      /\ queue' = IF Follows(id)
                  THEN With(rest, ChangeEvent(proposals[id].target), RulesOf[param].executionSec)
                  ELSE rest
  BY <1>0, <1>3 DEF Decide, Ongoing
<1> HIDE DEF rest
<1>7. /\ Ids' = Ids
      /\ \A i \in Ids : i # id => proposals'[i] = proposals[i]
      /\ proposals'[id].expiredAt = proposals[id].expiredAt
      /\ EnoughVotes(id) => proposals'[id].store = "expired"
      /\ ~EnoughVotes(id) => proposals'[id].store = "ongoing"
  <2> DEFINE decided == [proposals[id] EXCEPT !.store = "expired", !.passed = Majority(id)]
  <2>1. decided.expiredAt = proposals[id].expiredAt /\ decided.store = "expired"
    BY <1>3 DEF Proposal
  <2>2. proposals' = IF EnoughVotes(id) THEN [proposals EXCEPT ![id] = decided] ELSE proposals
    BY <1>6
  <2> HIDE DEF decided
  <2>3. QED BY <1>1, <1>3, <2>1, <2>2 DEF Ids
<1>8. \/ queue' = rest
       \/ \E e \in GovernanceEvents, delay \in Nat :
            e.type # "decide" /\ clock + delay \in Times /\ queue' = With(rest, e, delay)
  <2>1. CASE ~Follows(id)
    BY <1>6, <2>1
  <2>2. CASE Follows(id)
    <3> DEFINE e == ChangeEvent(proposals[id].target)
               delay == RulesOf[param].executionSec
    <3>1. proposals[id].target \in Changes
      BY <1>3, <2>2 DEF IInv, Sensible, Follows, Targets
    <3>2. e \in GovernanceEvents /\ e.type # "decide"
      BY <3>1 DEF GovernanceEvents, ChangeEvent
    <3>3. delay \in Nat
      BY <1>1, RulesShape
    <3>4. clock + delay \in 0 .. MaxClock + delay
      <4> HIDE DEF delay
      <4>1. QED BY <1>1, <3>3
    <3>5. clock + delay \in Times
      BY <1>1, <3>4, GovernanceAssumption
    <3>6. queue' = With(rest, e, delay)
      BY <1>6, <2>2
    <3> HIDE DEF e, delay
    <3>7. QED BY <3>2, <3>3, <3>5, <3>6
  <2>3. QED BY <2>1, <2>2
<1>9. \A s \in Times : \A f : InQueue(rest, s, f) => InQueue(queue', s, f)
  BY <1>3, <1>8, InQueueWith
<1>10. Sound(queue', OngoingIds \ {id})
  BY <1>2, <1>8, WithOther
<1>11. ASSUME NEW i \in Ids, i # id PROVE Kept(i)
  <2>1. proposals'[i] = proposals[i] /\ proposals[i].expiredAt \in Times
    BY <1>1, <1>7, <1>11, ExpiryIsTime
  <2>2. DecideEvent(i) # Head(queue[t])
    BY <1>4, <1>11 DEF DecideEvent
  <2>3. DecisionWaits(i) => DecisionWaits(i)'
    <3>1. ASSUME DecisionWaits(i) PROVE DecisionWaits(i)'
      <4>1. InQueue(queue, proposals[i].expiredAt, DecideEvent(i))
        BY <3>1 DEF DecisionWaits
      <4>2. InQueue(rest, proposals[i].expiredAt, DecideEvent(i))
        BY <1>1, <2>1, <2>2, <4>1, InQueueWithout DEF rest
      <4>3. InQueue(queue', proposals'[i].expiredAt, DecideEvent(i))
        BY <1>9, <2>1, <4>2
      <4>4. QED BY <4>3 DEF DecisionWaits
    <3>2. QED BY <3>1
  <2>4. Ongoing(i)' <=> Ongoing(i)
    BY <1>7, <2>1 DEF Ongoing
  <2>5. QED BY <1>7, <2>1, <2>3, <2>4 DEF Kept
<1>12. Kept(id)
  <2>1. DecisionWaits(id)
    BY <1>3, <1>5 DEF DecisionWaits
  <2>2. ~DecisionWaits(id)'
    <3>1. ASSUME InQueue(queue', t, DecideEvent(id)) PROVE FALSE
      <4>1. id \in OngoingIds \ {id}
        BY <1>1, <1>10, <3>1, WaitingIsOngoing
      <4>2. QED BY <4>1
    <3>2. QED BY <1>3, <1>7, <3>1 DEF DecisionWaits
  <2>3. Ongoing(id)' <=> ~EnoughVotes(id)
    BY <1>3, <1>7 DEF Ongoing
  <2>4. QED BY <1>1, <1>3, <1>7, <2>1, <2>2, <2>3 DEF Kept
<1>13. Placed(queue', OnTime')
  <2>1. Placed(rest, OnTime')
    BY <1>2, <1>11, <1>12, OnTimeStays, PlacedMore
  <2>2. ASSUME NEW e \in GovernanceEvents, NEW delay \in Nat, e.type # "decide",
               clock + delay \in Times
        PROVE  Placed(With(rest, e, delay), OnTime')
    <3>1. <<clock + delay, e>> \in OnTime'
      BY <2>2 DEF OnTime
    <3>2. QED BY <1>3, <2>1, <2>2, <3>1, PlacedWith
  <2>3. QED BY <1>8, <2>1, <2>2
<1>14. QED BY <1>7, <1>11, <1>12, <1>13

LEMMA ExecuteDecides ==
  ASSUME IInv, IInv', Placed(queue, OnTime), ExecuteEvent
  PROVE  clock' = clock /\ Ids' = Ids /\ (\A i \in Ids : Kept(i)) /\ Placed(queue', OnTime')
PROOF
<1>1. PICK t \in Overdue : LET event == Head(queue[t])  rest == Without(t) IN
    /\ CASE event.type = "decide" ->
              Decide(event.id, rest) /\ UNCHANGED <<param, wallet>>
         [] event.type = "change" ->
              /\ param' = event.param /\ queue' = rest
              /\ UNCHANGED <<proposals, deleted, wallet, halted>>
         [] event.type = "return" ->
              /\ wallet' = [wallet EXCEPT ![event.user] = @ + event.amount]
              /\ queue' = rest
              /\ UNCHANGED <<proposals, deleted, param, halted>>
    /\ UNCHANGED <<clock, votes, power>>
  BY DEF ExecuteEvent
<1> DEFINE event == Head(queue[t])
<1>2. /\ queue \in [Times -> Seq(GovernanceEvents)] /\ Sound(queue, OngoingIds)
      /\ TypeOK /\ t \in Times /\ queue[t] # <<>>
  BY DEF IInv, TypeOK, Overdue
<1>3. event.type \in {"decide", "change", "return"}
  BY <1>2, WithoutFirst, EventShape
<1>4. CASE event.type = "decide"
  BY <1>1, <1>4, DecisionDecides
<1>5. CASE event.type \in {"change", "return"}
  <2>1. queue' = Without(t) /\ proposals' = proposals /\ clock' = clock
    BY <1>1, <1>5
  <2>2. Ids' = Ids
    BY <2>1 DEF Ids
  <2>3. ASSUME NEW i \in Ids PROVE Kept(i)
    <3>1. proposals[i].expiredAt \in Times
      BY <1>2, ExpiryIsTime
    <3>2. DecideEvent(i) # Head(queue[t])
      BY <1>5 DEF DecideEvent
    <3>3. InQueue(queue, proposals[i].expiredAt, DecideEvent(i))
            => InQueue(queue', proposals'[i].expiredAt, DecideEvent(i))
      BY <1>2, <2>1, <3>1, <3>2, InQueueWithout
    <3>4. DecisionWaits(i) => DecisionWaits(i)'
      BY <3>3 DEF DecisionWaits
    <3>5. Ongoing(i)' <=> Ongoing(i)
      BY <2>1, <2>2 DEF Ongoing
    <3>6. QED BY <2>1, <2>2, <3>4, <3>5 DEF Kept
  <2>4. Placed(Without(t), OnTime)
    BY <1>2, PlacedWithout
  <2>5. QED BY <2>1, <2>2, <2>3, <2>4, OnTimeStays, PlacedMore
<1>6. QED BY <1>3, <1>4, <1>5

(* Every step keeps what exists, and what is new waits.                     *)
LEMMA NextDecides ==
  ASSUME IInv, IInv', Placed(queue, OnTime), [Next]_vars
  PROVE  /\ clock <= clock' /\ \A i \in Ids : Kept(i)
         /\ \A i \in Ids' \ Ids : Ongoing(i)' /\ DecisionWaits(i)'
         /\ Placed(queue', OnTime')
PROOF
<1>1. clock \in Int
  BY DeliveryAssumption DEF IInv, TypeOK
<1>2. ASSUME NEW u \in Users, NEW kind \in Kinds, NEW target \in Targets(kind),
             Propose(u, kind, target)
      PROVE  /\ clock <= clock' /\ \A i \in Ids : Kept(i)
             /\ \A i \in Ids' \ Ids : Ongoing(i)' /\ DecisionWaits(i)'
             /\ Placed(queue', OnTime')
  BY <1>1, <1>2, ProposeDecides
<1>3. CASE ExecuteEvent
  BY <1>1, <1>3, ExecuteDecides
<1>4. CASE /\ ~ExecuteEvent
           /\ ~ \E u \in Users, kind \in Kinds : \E target \in Targets(kind) : Propose(u, kind, target)
  BY <1>4, OthersDecide
<1>5. QED BY <1>2, <1>3, <1>4

WInv == Placed(queue, OnTime) /\ WaitsForTime

LEMMA InitWInv == Init => WInv
PROOF BY DEF Init, DeliveryInit, WInv, WaitsForTime, Placed, Ids

LEMMA NextWInv ==
  ASSUME IInv, IInv', WInv, [Next]_vars
  PROVE  WInv'
PROOF
<1>1. /\ clock <= clock' /\ \A i \in Ids : Kept(i)
      /\ \A i \in Ids' \ Ids : Ongoing(i)' /\ DecisionWaits(i)'
      /\ Placed(queue', OnTime')
  BY NextDecides DEF WInv
<1>2. clock \in Int /\ clock' \in Int
  BY DeliveryAssumption DEF IInv, TypeOK
<1>3. ASSUME NEW i \in Ids', clock' <= proposals'[i].expiredAt
      PROVE  Ongoing(i)' /\ DecisionWaits(i)'
  <2>1. CASE i \in Ids
    <3>1. Kept(i) /\ proposals[i].expiredAt \in Int
      BY <1>1, <2>1, ExpiryIsTime DEF IInv
    <3>2. ~(proposals[i].expiredAt < clock) /\ clock <= proposals[i].expiredAt
      BY <1>1, <1>2, <1>3, <3>1 DEF Kept
    <3>3. Ongoing(i) /\ DecisionWaits(i)
      BY <2>1, <3>2 DEF WInv, WaitsForTime
    <3>4. QED BY <3>1, <3>2, <3>3 DEF Kept
  <2>2. QED BY <1>1, <2>1
<1>4. WaitsForTime'
  BY <1>3 DEF WaitsForTime
<1>5. QED BY <1>1, <1>4 DEF WInv

(* Until its time is over a proposal is ongoing, and its DecideProposalEvent*)
(* is in the list of the second it expires in, however many others are      *)
(* decided and whatever parameters change.                                  *)
THEOREM DecisionsWait == Spec => []WaitsForTime
PROOF
<1>1. IInv /\ IInv' /\ WInv /\ [Next]_vars => WInv'
  BY NextWInv
<1>2. WInv => WaitsForTime
  BY DEF WInv
<1>3. QED BY <1>1, <1>2, InitWInv, IsInvariant, PTL DEF Spec

(* DecideProposalEvent is taken from the list only when the time is over,   *)
(* moves the proposal to the expired store exactly if enough voted, by the  *)
(* parameters of that day, and nothing else moves it there, so that no      *)
(* proposal is decided twice or early and none is forgotten.                *)
THEOREM EventsDecide == Spec => DecidesOnce
PROOF
<1>1. IInv /\ IInv' /\ WInv /\ [Next]_vars => WInv'
  BY NextWInv
<1>2. ASSUME IInv, IInv', WInv, [Next]_vars
      PROVE  \A id \in Ids :
        /\ DecisionWaits(id) /\ ~DecisionWaits(id)' =>
             proposals[id].expiredAt < clock /\ (EnoughVotes(id) <=> ~Ongoing(id)')
        /\ Ongoing(id) /\ ~Ongoing(id)' => DecisionWaits(id) /\ ~DecisionWaits(id)'
  BY <1>2, NextDecides DEF Kept, WInv
<1>3. QED BY <1>1, <1>2, InitWInv, IsInvariant, PTL DEF Spec, DecidesOnce
==============================================================================
