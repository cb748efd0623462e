------------------------------- MODULE MCBank -------------------------------
(* Bank on small instances: an interval of two and a charging time of four, *)
(* so that entries of two intervals overlap, a half is rounded, and coins   *)
(* arrive within an interval, at its end and when others expire.            *)
EXTENDS Bank, TLC

CONSTANTS alice, bob

MCGenesis  == alice :> 4
MCFriction == [c \in 1 .. 2 |-> c \div 2]
==============================================================================
