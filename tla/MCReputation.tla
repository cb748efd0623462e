----------------------------- MODULE MCReputation -----------------------------
(* Reputation on a small instance: two users, three posts for two places.   *)
EXTENDS Reputation

CONSTANTS alice, bob, p1, p2, p3

MCDonations == ({alice} \X {p1, p2, p3} \X {7}) \cup {<<bob, p3, 5>>}
MCReports == {<<bob, p3>>}
MCLocks == {<<alice, 1400>>}
MCGuesses == <<1>>
===============================================================================
