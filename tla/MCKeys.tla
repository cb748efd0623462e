------------------------------- MODULE MCKeys -------------------------------
(****************************************************************************)
(* A user and a developer with two keys of each kind between them.  The     *)
(* developer's app key is his transaction key, until he recovers.           *)
(****************************************************************************)
EXTENDS Keys, TLC

CONSTANTS user, developer, r1, t1, t2, a1, a2

MCFirstKeys ==
  (user :> [reset |-> r1, transaction |-> t1, app |-> a1]) @@
  (developer :> [reset |-> r1, transaction |-> t2, app |-> t2])
MCSequences == (user :> 2) @@ (developer :> 1)
==============================================================================
