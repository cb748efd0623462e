---------------------------- MODULE AccountClock ----------------------------
(****************************************************************************)
(* What the two models of x/account have in common, Bank of its savings and *)
(* Keys of its keys and grants: who has an account, the amounts that are    *)
(* named, and the block time that coin day, grants and capacity depend on.  *)
(****************************************************************************)
EXTENDS Integers, FiniteSets

CONSTANTS
  Users,    \* names of accounts
  Amounts,  \* amounts named in messages and events; ValidateBasic refuses 0
  MaxTime   \* bound: time of the last block

ASSUME AccountAssumption ==
  IsFiniteSet(Users) /\ Amounts \subseteq Nat \ {0} /\ MaxTime \in Nat

VARIABLE now  \* ctx.BlockHeader().Time

(* The header of the next block has a later time, by any number of seconds. *)
Later(t) == t \in now + 1 .. MaxTime /\ now' = t
==============================================================================
