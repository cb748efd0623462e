-------------------------------- MODULE Coins --------------------------------
(****************************************************************************)
(* The one piece of coin arithmetic that loses information: a fraction of   *)
(* an amount is made a whole number of coins again.                         *)
(****************************************************************************)
EXTENDS Integers

(* types.RatToCoin: n / d to the nearest integer, a half to the even one    *)
(* (sdk.Rat.EvaluateBig).                                                   *)
Round(n, d) ==
  LET q == n \div d  twice == 2 * (n % d) IN
  IF twice > d \/ (twice = d /\ q % 2 = 1) THEN q + 1 ELSE q
==============================================================================
