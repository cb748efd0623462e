------------------------------ MODULE MCContent ------------------------------
(* Content on a small instance: a post, its repost and a repost of that.    *)
EXTENDS Content, TLC

CONSTANTS alice, bob, p1, p2, p3

MCLinks == p1 :> alice @@ p2 :> bob @@ p3 :> bob
==============================================================================
