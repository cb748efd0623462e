---------------------------- MODULE MCScheduler ----------------------------
(* Instance of Scheduler for TLC: two seconds to a minute and two minutes   *)
(* to a day, so that a block may open several days.                         *)
EXTENDS Scheduler

CONSTANTS decide, change, MaxTime

MCTimes == 0 .. MaxTime
MCEvents == {decide, change}
(* Only DecideProposalEvent registers an event when it is executed.         *)
MCFollowUps == [e \in MCEvents |-> IF e = decide THEN {change} ELSE {}]

=============================================================================
