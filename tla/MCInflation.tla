----------------------------- MODULE MCInflation -----------------------------
(* Inflation on a small instance: two years of two months of an hour each,  *)
(* two accounts that may be developers, two providers, and validators that  *)
(* come and go.                                                             *)
EXTENDS Inflation

CONSTANTS alice, bob

MCProviders == <<alice, bob>>
MCOncalls == {<<>>, <<alice, bob>>}
MCGenesis == [rate |-> 98, infra |-> 200, content |-> 650, developer |-> 100, validator |-> 50]
MCAllocations ==
  {[rate |-> 60, infra |-> 500, content |-> 250, developer |-> 250, validator |-> 0]}
==============================================================================
