------------------------------- MODULE MCVote -------------------------------
(****************************************************************************)
(* Instances of Vote for TLC: both users may delegate to both.              *)
(****************************************************************************)
EXTENDS Vote, TLC

CONSTANTS u1, u2

MCUsers == {u1, u2}
(* u1 is a genesis validator.                                               *)
MCGenesisStake == u1 :> 1 @@ u2 :> 0
=============================================================================
