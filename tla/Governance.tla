----------------------------- MODULE Governance -----------------------------
(****************************************************************************)
(* Proposals: x/proposal (manager, handlers, DecideProposalEvent), votes on *)
(* proposals of x/vote, and param.ChangeParamEvent.                         *)
(*                                                                          *)
(* A proposal is decided, and its deposit returned, by time events that its *)
(* handler registers; a passed parameter change is applied by an event that *)
(* the decision registers.  The events are those of Delivery, which the     *)
(* scheduler of the chain implements.  Parameters may change between the    *)
(* creation of a proposal, its decision and the change itself, and they are *)
(* read anew each time.  That the decision punishes validators who did not  *)
(* vote, and may fail in it, is modelled in Validator.                      *)
(****************************************************************************)
EXTENDS Delivery, FiniteSets, Functions

CONSTANTS
  Users,
  Funds,         \* saving of the accounts above the minimum balance
  GenesisPower,  \* voting power of the genesis validators
  Powers,        \* voting powers a user may come to have, negative ones too
  Posts,         \* posts that exist
  Params,        \* ProposalParams, by name
  Changes,       \* those a proposal may ask for
  RulesOf,       \* what a ProposalParam says
  InitialParam,  \* of genesis
  MaxProposals,  \* bound: proposals
  MaxClock       \* bound: time of blocks

Kinds == {"ChangeParam", "ContentCensorship", "ProtocolUpgrade"}

(* What a proposal asks for; an upgrade is made by hand.                    *)
Targets(kind) ==
  CASE kind = "ChangeParam" -> Changes
    [] kind = "ContentCensorship" -> Posts
    [] OTHER -> {"upgrade"}

(* The part of ProposalParam that is one value for each kind of proposal.   *)
KindParam == [decideSec : Delays, deposit : Nat, passVotes : Nat,
              passRatio : Nat \X (Nat \ {0})]
ProposalParam == [executionSec : Delays, of : [Kinds -> KindParam]]

(* What ChangeProposalParamMsg may ask for.                                 *)
LegalParam(param) ==
  \A kind \in Kinds : LET rules == param.of[kind] IN
    /\ rules.decideSec > 0 /\ rules.deposit > 0 /\ rules.passVotes > 0
    /\ rules.passRatio[1] > 0 /\ rules.passRatio[1] <= rules.passRatio[2]

ASSUME GovernanceAssumption ==
  /\ IsFiniteSet(Users) /\ Funds \in [Users -> Nat] /\ Powers \in [Users -> SUBSET Int]
  /\ DOMAIN GenesisPower \subseteq Users
  /\ \A u \in DOMAIN GenesisPower : GenesisPower[u] \in Powers[u]
  /\ RulesOf \in [Params -> ProposalParam]
  /\ InitialParam \in Params /\ Changes \subseteq Params
  /\ \A p \in Changes : LegalParam(RulesOf[p]) /\ RulesOf[p].executionSec > 0
  /\ MaxProposals \in Nat /\ MaxClock \in Nat
  /\ \A p \in Params : 0 .. MaxClock + RulesOf[p].executionSec \subseteq Times

(* The events of this module.                                               *)
DecideEvent(id) == [type |-> "decide", id |-> id]
ChangeEvent(target) == [type |-> "change", param |-> target]
ReturnEvent(user, amount) == [type |-> "return", user |-> user, amount |-> amount]

Deposits == {RulesOf[p].of[kind].deposit : p \in Params, kind \in Kinds}

GovernanceEvents ==
  {DecideEvent(id) : id \in 1 .. MaxProposals}
  \cup {ChangeEvent(target) : target \in Changes}
  \cup {ReturnEvent(user, amount) : user \in Users, amount \in Deposits}

GovernanceFollowUps ==
  [event \in GovernanceEvents |->
     IF event.type = "decide" THEN {ChangeEvent(target) : target \in Changes} ELSE {}]

VARIABLES
  proposals,  \* by ProposalID, in the ongoing or the expired store
  votes,      \* the votes on every proposal
  power,      \* GetVotingPower of the users with a Voter record
  param,      \* the ProposalParam in force
  deleted,    \* posts with IsDeleted
  wallet,     \* saving above the minimum balance
  halted      \* an event returned an error, and executeEvents panics

govVars == <<proposals, votes, power, param, deleted, wallet, halted>>
vars == <<clock, queue, proposals, votes, power, param, deleted, wallet, halted>>

Stores == {"ongoing", "expired"}
Proposal == [kind : Kinds, target : UNION {Targets(kind) : kind \in Kinds},
             store : Stores, agree : Int, disagree : Int, passed : BOOLEAN,
             expiredAt : Times]
VoteRecord == [voter : Users, result : BOOLEAN, power : UNION {Powers[u] : u \in Users}]

Ids == DOMAIN proposals
Rules(kind) == RulesOf[param].of[kind]
Ongoing(id) == id \in Ids /\ proposals[id].store = "ongoing"
-----------------------------------------------------------------------------
(****************************************************************************)
(* Transactions.                                                            *)
(****************************************************************************)
(* Nothing is overdue when transactions run.                                *)
TxTime == ~halted /\ Overdue = {}

(* Mutant: the event is created after the ID has been increased.            *)
RegisteredForNext(q, u, id, kind) ==
  LET rules == Rules(kind) IN
  With(With(q, DecideEvent(id + 1), rules.decideSec),
       ReturnEvent(u, rules.deposit), rules.decideSec)

(* Mutant: no time event decides the proposal.                              *)
RegisteredReturnOnly(q, u, id, kind) ==
  With(q, ReturnEvent(u, Rules(kind).deposit), Rules(kind).decideSec)

(* Mutant: the deposit is not returned.                                     *)
RegisteredDecisionOnly(q, u, id, kind) ==
  With(q, DecideEvent(id), Rules(kind).decideSec)

(* RegisterProposalDecideEvent and returnCoinTo: both for the same second.  *)
RegisteredDecision(q, u, id, kind) ==
  LET rules == Rules(kind) IN
  With(With(q, DecideEvent(id), rules.decideSec),
       ReturnEvent(u, rules.deposit), rules.decideSec)

(* The three handlers that create a proposal differ in the existence of the *)
(* post only.  Bound: proposals that are decided in time.                   *)
Propose(u, kind, target) ==
  LET rules == Rules(kind)  id == Len(proposals) + 1 IN
  /\ TxTime
  /\ id <= MaxProposals /\ clock + rules.decideSec < MaxClock
  /\ kind = "ContentCensorship" => target \notin deleted
  /\ wallet[u] >= rules.deposit
  /\ wallet' = [wallet EXCEPT ![u] = @ - rules.deposit]
  /\ proposals' = Append(proposals,
       [kind |-> kind, target |-> target, store |-> "ongoing", agree |-> 0,
        disagree |-> 0, passed |-> FALSE, expiredAt |-> clock + rules.decideSec])
  /\ votes' = Append(votes, {})
  /\ queue' = RegisteredDecision(queue, u, id, kind)
  /\ UNCHANGED <<clock, power, param, deleted, halted>>

HasVoted(u, id) == \E vote \in votes[id] : vote.voter = u

(* Mutant: a user votes again.                                              *)
MayVoteAgain(u, id) ==
  u \in DOMAIN power /\ Ongoing(id)

MayVote(u, id) ==
  u \in DOMAIN power /\ Ongoing(id) /\ ~HasVoted(u, id)

VoteProposal(u, id, result) ==
  /\ TxTime
  /\ MayVote(u, id)
  /\ votes' = [votes EXCEPT ![id] =
       @ \cup {[voter |-> u, result |-> result, power |-> power[u]]}]
  /\ proposals' = IF result THEN [proposals EXCEPT ![id].agree = @ + power[u]]
                  ELSE [proposals EXCEPT ![id].disagree = @ + power[u]]
  /\ UNCHANGED <<clock, queue, power, param, deleted, wallet, halted>>

(* The stake messages of x/vote change a voter's power at any time, and     *)
(* make a user a voter.  The power of one who withdraws what he delegated   *)
(* to himself may fall below zero (VoteTypeOK in Vote).                     *)
ChangePower(u, p) ==
  /\ TxTime
  /\ u \in DOMAIN power => power[u] # p
  /\ power' = [v \in DOMAIN power \cup {u} |-> IF v = u THEN p ELSE power[v]]
  /\ UNCHANGED <<clock, queue, proposals, votes, param, deleted, wallet, halted>>

(* The author deletes the post.                                             *)
AuthorDeletes(post) ==
  /\ TxTime /\ post \notin deleted
  /\ deleted' = deleted \cup {post}
  /\ UNCHANGED <<clock, queue, proposals, votes, power, param, wallet, halted>>
-----------------------------------------------------------------------------
(****************************************************************************)
(* Events.                                                                  *)
(****************************************************************************)
(* UpdateProposalPassStatus, with the parameters of the day of decision.    *)
(* The ratio is not rounded here to its seven digits.                       *)
EnoughVotes(id) ==
  proposals[id].agree + proposals[id].disagree
    > Rules(proposals[id].kind).passVotes

(* Mutant: a tie passes.                                                    *)
MajorityOrTie(id) ==
  LET ratio == Rules(proposals[id].kind).passRatio
      total == proposals[id].agree + proposals[id].disagree
  IN proposals[id].agree * ratio[2] >= ratio[1] * total

Majority(id) ==
  LET ratio == Rules(proposals[id].kind).passRatio
      total == proposals[id].agree + proposals[id].disagree
  IN proposals[id].agree * ratio[2] > ratio[1] * total

Passes(id) == EnoughVotes(id) /\ Majority(id)

Follows(id) == Passes(id) /\ proposals[id].kind = "ChangeParam"

(* A proposal without enough votes stays in the ongoing store.  The errors  *)
(* of PunishValidatorsDidntVote, called in between, are Validator's.        *)
Decide(id, rest) ==
  IF ~Ongoing(id)
  THEN halted' = TRUE /\ queue' = rest /\ UNCHANGED <<proposals, deleted>>
  ELSE /\ proposals' = IF EnoughVotes(id)
                       THEN [proposals EXCEPT ![id].store = "expired",
                                              ![id].passed = Majority(id)]
                       ELSE proposals
       /\ queue' = IF Follows(id)
                   THEN With(rest, ChangeEvent(proposals[id].target), RulesOf[param].executionSec)
                   ELSE rest
       /\ deleted' = IF Passes(id) /\ proposals[id].kind = "ContentCensorship"
                     THEN deleted \cup {proposals[id].target} ELSE deleted
       /\ UNCHANGED halted

ExecuteEvent ==
  \E t \in Overdue :
    LET event == Head(queue[t])  rest == Without(t) IN
    /\ ~halted
    /\ \A s \in Overdue : t <= s
    /\ CASE event.type = "decide" ->
              Decide(event.id, rest) /\ UNCHANGED <<param, wallet>>
         [] event.type = "change" ->
              /\ param' = event.param /\ queue' = rest
              /\ UNCHANGED <<proposals, deleted, wallet, halted>>
         [] event.type = "return" ->
              /\ wallet' = [wallet EXCEPT ![event.user] = @ + event.amount]
              /\ queue' = rest
              /\ UNCHANGED <<proposals, deleted, param, halted>>
    /\ UNCHANGED <<clock, votes, power>>

NextBlock(time) ==
  /\ ~halted /\ time <= MaxClock
  /\ Advance(time)
  /\ UNCHANGED govVars
-----------------------------------------------------------------------------
Init ==
  /\ DeliveryInit
  /\ proposals = <<>> /\ votes = <<>>
  /\ power = GenesisPower
  /\ param = InitialParam /\ deleted = {}
  /\ wallet = Funds
  /\ halted = FALSE

Transactions ==
  \/ \E u \in Users, kind \in Kinds : \E target \in Targets(kind) : Propose(u, kind, target)
  \/ \E u \in Users, id \in Ids, result \in BOOLEAN : VoteProposal(u, id, result)
  \/ \E u \in Users : \E p \in Powers[u] : ChangePower(u, p)
  \/ \E post \in Posts : AuthorDeletes(post)

Next ==
  \/ Transactions
  \/ ExecuteEvent
  \/ \E time \in Times : NextBlock(time)

Spec == Init /\ [][Next]_vars

(* Blocks come, with later and later times, and execute their events.       *)
LaterBlock == \E time \in Times : time > clock /\ NextBlock(time)

FairSpec == Spec /\ WF_vars(ExecuteEvent) /\ WF_vars(LaterBlock)
-----------------------------------------------------------------------------
(****************************************************************************)
(* Properties.                                                              *)
(****************************************************************************)
TypeOK ==
  /\ clock \in Times /\ queue \in [Times -> Seq(GovernanceEvents)]
  /\ proposals \in Seq(Proposal) /\ votes \in Seq(SUBSET VoteRecord)
  /\ Len(votes) = Len(proposals)
  /\ DOMAIN power \subseteq Users /\ \A u \in DOMAIN power : power[u] \in Powers[u]
  /\ param \in Params /\ deleted \subseteq Posts
  /\ wallet \in [Users -> Nat] /\ halted \in BOOLEAN

(* No event finds its proposal gone, or decided before, an error on which   *)
(* executeEvents would panic and stop every node of the chain, whatever is  *)
(* proposed, voted and changed between the registration of the event and    *)
(* its execution.  The other error of a decision, in the punishment of      *)
(* validators who did not vote, is in Validator (NeverHalts there).         *)
NeverHalts == ~halted

(* The tally of a proposal is the power its voters had when they voted,     *)
(* each of them counted once, whatever they do with their stake later.      *)
VotesFor(id, result) ==
  SumFunction([u \in {v \in Users : \E vote \in votes[id] : vote.voter = v /\ vote.result = result}
                 |-> (CHOOSE vote \in votes[id] : vote.voter = u /\ vote.result = result).power])

TalliesAgree ==
  \A id \in Ids :
    /\ proposals[id].agree = VotesFor(id, TRUE)
    /\ proposals[id].disagree = VotesFor(id, FALSE)

(* The parameters change, and a change is waiting, only if more voted for   *)
(* it than against it and its time to decide is over: as long as the pass   *)
(* ratios are at least a half, as those of InitParam are.                   *)
Approved(target) ==
  \E id \in Ids :
    /\ proposals[id].kind = "ChangeParam" /\ proposals[id].target = target
    /\ proposals[id].expiredAt < clock
    /\ proposals[id].agree > proposals[id].disagree

OnlyApprovedChanges ==
  /\ param = InitialParam \/ Approved(param)
  /\ \A t \in Times : \A i \in 1 .. Len(queue[t]) :
       queue[t][i].type = "change" => Approved(queue[t][i].param)

(* What was taken as a deposit and not yet returned is on its way.          *)
Returning ==
  SumFunction([t \in Times |->
    SumFunction([i \in {j \in 1 .. Len(queue[t]) : queue[t][j].type = "return"}
                   |-> queue[t][i].amount])])

DepositsReturned == SumFunction(wallet) + Returning = SumFunction(Funds)

(* A proposal gets its decision if more voted in time than any parameters   *)
(* ask for: nothing that happens in between loses its event, or keeps the   *)
(* decision from moving it to the expired store, but a vote of negative     *)
(* power that takes the attendance away again.  Votes after the time do not *)
(* help a proposal without enough of them.                                  *)
WellAttended(id) ==
  \A p \in Params :
    proposals[id].agree + proposals[id].disagree > RulesOf[p].of[proposals[id].kind].passVotes

EveryProposalDecided ==
  \A id \in 1 .. MaxProposals :
    id \in Ids /\ clock <= proposals[id].expiredAt /\ WellAttended(id)
      ~> id \in Ids /\ (~Ongoing(id) \/ ~WellAttended(id))
=============================================================================
