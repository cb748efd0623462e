---------------------------- MODULE MCGovernance ----------------------------
(* Instances of Governance for TLC.                                         *)
EXTENDS Governance, TLC

CONSTANTS a, b, post, slow, quick

MCUsers == {a, b}
(* a can pay two deposits.                                                  *)
MCFunds == a :> 2 @@ b :> 0
(* Both are genesis validators; b may lose power, below zero, and stake      *)
(* again.                                                                    *)
MCGenesisPower == a :> 1 @@ b :> 2
MCPowers == a :> {1} @@ b :> {-1, 1, 2}
MCTimes == 0 .. 6
MCParams == {slow, quick}

(* Two changes of parameters may be open at the same time.                  *)
ForKinds(decideSec, passVotes) ==
  [kind \in Kinds |-> [decideSec |-> decideSec,
                       deposit |-> IF kind = "ChangeParam" THEN 1 ELSE 2,
                       passVotes |-> passVotes, passRatio |-> <<1, 2>>]]

(* Slow decisions, of more power, or quick ones.                      *)
MCRulesOf ==
  slow :> [executionSec |-> 1, of |-> ForKinds(2, 2)]
  @@ quick :> [executionSec |-> 1, of |-> ForKinds(1, 1)]
=============================================================================
